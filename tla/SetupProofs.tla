----------------------------- MODULE SetupProofs -----------------------------
(***************************************************************************)
(* Proofs about Setup, for any number of attempts, disks, services and     *)
(* presets.  The attempts come first: of the interview they use nothing    *)
(* but that it ends.  The interview, question by question, is the second   *)
(* half.                                                                   *)
(***************************************************************************)
EXTENDS Setup, TLAPS

-----------------------------------------------------------------------------
(* The state of the attempts *)

\* Typed but for the key mode, which only the interview decides.
AttemptTyped ==
  /\ step \in Steps /\ attempt \in 0..MaxAttempts /\ ending \in Endings
  /\ host \in [mode : {host.mode}, key : {Free} \cup Attempts,
               created : BOOLEAN, rejected : BOOLEAN, switched : BOOLEAN]
  /\ private \in {Free, Torn} \cup Attempts /\ public \in {Free, Torn} \cup Attempts
  /\ dest \in {Free, Vacant, Foreign} \cup Attempts
  /\ staging \subseteq Attempts /\ recovery \subseteq Attempts
  /\ keyOf \in [Attempts -> {Free} \cup Attempts]
  /\ system \in {Free} \cup Attempts

\* An attempt that is under way has a number.
Numbered == step # "idle" => attempt \in Attempts

\* Markers are not attempts.
LEMMA Markers ==
  /\ {Free, Vacant, Foreign, Torn} \cap Attempts = {}
  /\ Free \notin {Vacant, Foreign, Torn} /\ Vacant # Foreign /\ MaxAttempts \in Nat
  /\ \A n \in Nat : n \notin {Free, Vacant, Foreign}
<1>1. Attempts \subseteq Nat /\ MaxAttempts \in Nat  BY AttemptAssumption DEF Attempts
<1>2. {Free, Vacant, Foreign, Torn} \cap Nat = {}
  BY AttemptAssumption
<1> QED  BY <1>1, <1>2, AttemptAssumption

TypedInv == AttemptTyped /\ Numbered

LEMMA TypedInit == SetupInit => TypedInv
<1> SUFFICES ASSUME SetupInit PROVE TypedInv  OBVIOUS
<1>0. attempt = 0 /\ step = "idle"  BY DEF SetupInit
<1>1. attempt \in 0..MaxAttempts  BY <1>0, Markers
<1>3. private \in {Free, Torn} /\ public \in {Free, Torn} /\ dest \in {Free, Foreign}
  BY DEF SetupInit
<1>4. staging \subseteq Attempts /\ recovery \subseteq Attempts  BY DEF SetupInit
<1>5. keyOf \in [Attempts -> {Free} \cup Attempts] /\ system \in {Free} \cup Attempts
  BY DEF SetupInit
<1>6. ending \in Endings /\ step \in Steps  BY DEF SetupInit, Endings, Steps
<1>2. host \in [mode : {host.mode}, key : {Free} \cup Attempts,
               created : BOOLEAN, rejected : BOOLEAN, switched : BOOLEAN]
  BY DEF SetupInit, NoHost
<1> QED  BY <1>0, <1>1, <1>2, <1>3, <1>4, <1>5, <1>6 DEF TypedInv, AttemptTyped, Numbered

\* Every step keeps the state of the attempts typed.
LEMMA TypedStep == TypedInv /\ [SetupNext]_vars => TypedInv'
<1> SUFFICES ASSUME TypedInv, [SetupNext]_vars PROVE TypedInv'  OBVIOUS
<1> USE Markers DEF TypedInv, AttemptTyped, Numbered
<1>1. CASE Start
  <2>0. attempt' = attempt + 1 /\ attempt < MaxAttempts  BY <1>1 DEF Start
  <2>1. attempt' \in Attempts /\ attempt' \in 0..MaxAttempts  BY <2>0 DEF Attempts
  <2>2. host' \in [mode : {host'.mode}, key : {Free} \cup Attempts,
                   created : BOOLEAN, rejected : BOOLEAN, switched : BOOLEAN]
    BY <1>1 DEF Start, NoHost
  <2>3. step' \in Steps /\ ending' \in Endings  BY <1>1 DEF Start, End, Steps, Endings
  <2> QED  BY <1>1, <2>1, <2>2, <2>3 DEF Start, keyFiles, trees
<1>2. CASE Interview
  BY <1>2 DEF Interview, setupVars, keyFiles, trees
<1>3. CASE FirstInterviewEnds
  BY <1>3 DEF FirstInterviewEnds, Interviewed, Go, End, keyFiles, trees, Steps, Endings
<1>4. CASE LaterInterview
  BY <1>4 DEF LaterInterview, Interviewed, Go, End, keyFiles, trees, Steps, Endings
<1>5. CASE FindKey
  BY <1>5 DEF FindKey, Go, End, keyFiles, trees, Steps, Endings
<1>6. CASE WritePrivate
  <2>1. step' \in Steps /\ ending' \in Endings
    BY <1>6 DEF WritePrivate, Go, End, Steps, Endings
  <2>2. UNCHANGED <<attempt, trees, system>>  BY <1>6 DEF WritePrivate
  <2> QED  BY <1>6, <2>1, <2>2 DEF WritePrivate, trees
<1>7. CASE WritePublic
  BY <1>7 DEF WritePublic, Go, End, trees, Steps, Endings
<1>8. CASE Stage
  <2>1. attempt \in Attempts  BY <1>8 DEF Stage
  <2>2. step' \in Steps /\ ending' \in Endings
    BY <1>8 DEF Stage, Go, End, Steps, Endings
  <2>3. dest' \in {dest, Free} /\ staging' \subseteq Attempts /\ recovery' \subseteq Attempts
    BY <1>8, <2>1 DEF Stage, PreserveRecovery
  <2>4. UNCHANGED <<attempt, host, private, public, keyOf, system>>
    BY <1>8 DEF Stage, keyFiles
  <2> QED  BY <2>1, <2>2, <2>3, <2>4
<1>9. CASE Place
  BY <1>9 DEF Place, Go, keyFiles, Steps, Endings
<1>10. CASE StagingFails
  <2>1. attempt \in Attempts  BY <1>10 DEF StagingFails
  <2> QED  BY <1>10, <2>1 DEF StagingFails, PreserveRecovery, End, keyFiles, Steps, Endings
<1>11. CASE PrepareSecrets
  <2>1. attempt \in Attempts  BY <1>11 DEF PrepareSecrets
  <2>2. step' \in Steps /\ ending' \in Endings
    BY <1>11 DEF PrepareSecrets, Go, End, Steps, Endings
  <2>3. dest' \in {dest, Free} /\ recovery' \subseteq Attempts
    BY <1>11, <2>1 DEF PrepareSecrets, PreserveRecovery
  <2>4. UNCHANGED <<attempt, host, private, public, staging, keyOf, system>>
    BY <1>11 DEF PrepareSecrets, keyFiles
  <2>5. dest' \in {Free, Vacant, Foreign} \cup Attempts  BY <2>3
  <2> QED  BY <2>1, <2>2, <2>3, <2>4, <2>5
<1>12. CASE Healthcheck
  <2>1. /\ step' \in Steps /\ ending' \in Endings
        /\ step' = "idle" \/ attempt \in Attempts
    BY <1>12 DEF Healthcheck, Go, End, Steps, Endings
  <2>2. host' \in {host, [host EXCEPT !.rejected = TRUE]}  BY <1>12 DEF Healthcheck
  <2>3. UNCHANGED <<attempt, keyFiles, trees, system>> /\ attempt \in Attempts
    BY <1>12 DEF Healthcheck
  <2> QED  BY <2>1, <2>2, <2>3 DEF keyFiles, trees
<1>13. CASE ContinueAnyway
  BY <1>13 DEF ContinueAnyway, Go, keyFiles, trees, Steps, Endings
<1>14. CASE Decline
  <2>1. attempt \in Attempts  BY <1>14 DEF Decline
  <2> QED  BY <1>14, <2>1 DEF Decline, PreserveRecovery, End, keyFiles, Steps, Endings
<1>15. CASE PreviousAtHealthcheck
  BY <1>15 DEF PreviousAtHealthcheck, End, keyFiles, trees, Steps, Endings
<1>16. CASE GenerateOnly
  BY <1>16 DEF GenerateOnly, End, keyFiles, trees, Steps, Endings
<1>17. CASE Switch
  <2>1. attempt \in Attempts  BY <1>17 DEF Switch
  <2>2. step' \in Steps /\ ending' \in Endings  BY <1>17 DEF Switch, Go, End, Steps, Endings
  <2>3. dest' \in {dest, Free} /\ recovery' \subseteq Attempts /\ system' \in {system, attempt}
    BY <1>17, <2>1 DEF Switch, PreserveRecovery
  <2>4. host' = host \/ host' = [host EXCEPT !.switched = TRUE]  BY <1>17 DEF Switch
  <2>5. host' \in [mode : {host'.mode}, key : {Free} \cup Attempts,
                   created : BOOLEAN, rejected : BOOLEAN, switched : BOOLEAN]
    BY <2>4
  <2> QED  BY <1>17, <2>1, <2>2, <2>3, <2>5 DEF Switch, keyFiles
<1>18. CASE SetPassword
  <2>1. step' \in Steps /\ ending' \in Endings  BY <1>18 DEF SetPassword, End, Steps, Endings
  <2>2. step' = "idle"  BY <1>18 DEF SetPassword, End
  <2> QED  BY <1>18, <2>1, <2>2 DEF SetPassword, keyFiles, trees
<1>19. CASE Interrupt
  BY <1>19 DEF Interrupt, End, keyFiles, trees, Steps, Endings
<1>20. CASE ForeignAppears
  BY <1>20 DEF ForeignAppears, keyFiles
<1>21. CASE Clean
  BY <1>21 DEF Clean, keyFiles
<1>22. CASE UNCHANGED vars
  BY <1>22 DEF vars, setupVars, keyFiles, trees
<1> QED
  BY <1>1, <1>2, <1>3, <1>4, <1>5, <1>6, <1>7, <1>8, <1>9, <1>10, <1>11, <1>12, <1>13,
     <1>14, <1>15, <1>16, <1>17, <1>18, <1>19, <1>20, <1>21, <1>22 DEF SetupNext

LEMMA AlwaysTyped == SetupSpec => []TypedInv
BY TypedInit, TypedStep, PTL DEF SetupSpec

-----------------------------------------------------------------------------
(* Keys *)

\* The two halves are written one after the other and only where there is
\* neither, so a public half that is a key has its private half beside it; a
\* key is authorized only once both are there, and such a pair stays.
PairInv ==
  /\ public \in Attempts => private = public
  /\ step = "public" => private = attempt /\ public = Free
  /\ step \in {"wizard", "key", "public"} => host.key = Free
  /\ host.key # Free => public = host.key
  /\ \A a \in Attempts : keyOf[a] # Free => public = keyOf[a]

LEMMA PairImplies == TypedInv /\ PairInv => KeysMatch
BY Markers DEF TypedInv, AttemptTyped, PairInv, KeysMatch

LEMMA PairInit == SetupInit => PairInv
<1> SUFFICES ASSUME SetupInit PROVE PairInv  OBVIOUS
<1>1. public = Free /\ step = "idle" /\ host.key = Free  BY DEF SetupInit, NoHost
<1>2. \A a \in Attempts : keyOf[a] = Free  BY DEF SetupInit
<1> QED  BY <1>1, <1>2, Markers DEF PairInv

LEMMA PairStep == TypedInv /\ PairInv /\ [SetupNext]_vars => PairInv'
<1> SUFFICES ASSUME TypedInv, PairInv, [SetupNext]_vars PROVE PairInv'  OBVIOUS
<1> USE Markers DEF TypedInv, AttemptTyped, Numbered, PairInv
<1>1. CASE Start
  BY <1>1 DEF Start, NoHost, End, keyFiles, trees
<1>2. CASE Interview
  BY <1>2 DEF Interview, setupVars, keyFiles, trees
<1>3. CASE FirstInterviewEnds
  BY <1>3 DEF FirstInterviewEnds, Interviewed, Go, End, keyFiles, trees
<1>4. CASE LaterInterview
  BY <1>4 DEF LaterInterview, Interviewed, Go, End, keyFiles, trees
<1>5. CASE FindKey
  BY <1>5 DEF FindKey, Go, End, keyFiles, trees
<1>6. CASE WritePrivate
  \* There was no pair, so no host authorizes a generated key.
  <2>1. public = Free /\ host.key = Free /\ \A a \in Attempts : keyOf[a] = Free
    BY <1>6 DEF WritePrivate
  <2> QED  BY <1>6, <2>1 DEF WritePrivate, Go, End, trees
<1>7. CASE WritePublic
  <2>1. host.key = Free /\ \A a \in Attempts : keyOf[a] = Free
    BY <1>7 DEF WritePublic
  <2>2. private' = attempt /\ keyOf' = keyOf  BY <1>7 DEF WritePublic, trees
  <2> QED  BY <1>7, <2>1, <2>2 DEF WritePublic, Go, End
<1>8. CASE Stage
  BY <1>8 DEF Stage, PreserveRecovery, Go, End, keyFiles
<1>9. CASE Place
  <2>1. \A a \in Attempts : keyOf'[a] \in {keyOf[a], host.key}  BY <1>9 DEF Place
  <2> QED  BY <1>9, <2>1 DEF Place, Go, keyFiles
<1>10. CASE StagingFails
  BY <1>10 DEF StagingFails, End, keyFiles
<1>11. CASE PrepareSecrets
  BY <1>11 DEF PrepareSecrets, Go, End, keyFiles
<1>12. CASE Healthcheck
  BY <1>12 DEF Healthcheck, Go, End, keyFiles, trees
<1>13. CASE ContinueAnyway
  BY <1>13 DEF ContinueAnyway, Go, keyFiles, trees
<1>14. CASE Decline
  BY <1>14 DEF Decline, End, keyFiles
<1>15. CASE PreviousAtHealthcheck
  BY <1>15 DEF PreviousAtHealthcheck, End, keyFiles, trees
<1>16. CASE GenerateOnly
  BY <1>16 DEF GenerateOnly, End, keyFiles, trees
<1>17. CASE Switch
  BY <1>17 DEF Switch, Go, End, keyFiles
<1>18. CASE SetPassword
  BY <1>18 DEF SetPassword, End, keyFiles, trees
<1>19. CASE Interrupt
  BY <1>19 DEF Interrupt, End, keyFiles, trees
<1>20. CASE ForeignAppears
  BY <1>20 DEF ForeignAppears, keyFiles
<1>21. CASE Clean
  BY <1>21 DEF Clean, keyFiles
<1>22. CASE UNCHANGED vars
  BY <1>22 DEF vars, setupVars, keyFiles, trees
<1> QED
  BY <1>1, <1>2, <1>3, <1>4, <1>5, <1>6, <1>7, <1>8, <1>9, <1>10, <1>11, <1>12, <1>13,
     <1>14, <1>15, <1>16, <1>17, <1>18, <1>19, <1>20, <1>21, <1>22 DEF SetupNext

\* Nobody is locked out: whatever is interrupted and tried again, the key that
\* a host authorizes has its private half on disk (features/ssh.py).
THEOREM KeysAlwaysMatch == SetupSpec => []KeysMatch
<1>1. TypedInv /\ PairInv /\ [SetupNext]_vars => (TypedInv /\ PairInv)'
  BY TypedStep, PairStep
<1> QED  BY <1>1, TypedInit, PairInit, PairImplies, PTL DEF SetupSpec

\* A pair that is complete is never written again, torn or removed, by any
\* attempt: hosts and clients that know the key keep it (materialize in
\* features/ssh.py adopts what is there, or refuses it).
THEOREM CompletePairStays ==
  SetupSpec => [][(public \in Attempts => UNCHANGED keyFiles)]_vars
<1>1. TypedInv /\ PairInv /\ [SetupNext]_vars
        => [(public \in Attempts => UNCHANGED keyFiles)]_vars
  <2> SUFFICES ASSUME PairInv, SetupNext, public \in Attempts PROVE UNCHANGED keyFiles
    OBVIOUS
  <2>1. public # Free /\ step # "public"  BY Markers DEF PairInv
  <2>2. ~WritePrivate /\ ~WritePublic  BY <2>1 DEF WritePrivate, WritePublic
  <2>3. Clean => UNCHANGED keyFiles  BY DEF Clean, keyFiles
  <2>4. Start \/ Interview \/ FirstInterviewEnds \/ LaterInterview \/ FindKey => UNCHANGED keyFiles
    BY DEF Start, Interview, FirstInterviewEnds, LaterInterview, Interviewed, FindKey, setupVars
  <2>5. Stage \/ Place \/ StagingFails \/ PrepareSecrets \/ Healthcheck \/ ContinueAnyway
        \/ Decline \/ PreviousAtHealthcheck => UNCHANGED keyFiles
    BY DEF Stage, Place, StagingFails, PrepareSecrets, Healthcheck, ContinueAnyway, Decline,
           PreviousAtHealthcheck
  <2>6. GenerateOnly \/ Switch \/ SetPassword \/ Interrupt \/ ForeignAppears => UNCHANGED keyFiles
    BY DEF GenerateOnly, Switch, SetPassword, Interrupt, ForeignAppears
  <2> QED  BY <2>2, <2>3, <2>4, <2>5, <2>6 DEF SetupNext
<1>2. TypedInv /\ PairInv /\ [SetupNext]_vars => (TypedInv /\ PairInv)'
  BY TypedStep, PairStep
<1> QED  BY <1>1, <1>2, TypedInit, PairInit, PTL DEF SetupSpec

-----------------------------------------------------------------------------
(* The host and its destination *)

\* Before the rename the destination is not this attempt's, between the rename
\* and the switch it is, and a system that runs the host keeps it there.
PlacedInv ==
  /\ staging \subseteq 1..attempt
  /\ dest \in Attempts => dest <= attempt
  /\ step \in {"wizard", "key", "public", "write", "staged"} =>
       /\ ~host.created /\ ~host.switched
       /\ dest \in {Free, Vacant, Foreign}
       /\ attempt \in staging => step = "staged"
  /\ step \in {"secrets", "check", "ask", "switch"} =>
       host.created /\ ~host.switched /\ dest = attempt /\ attempt \notin staging
  /\ step = "password" => host.switched
  /\ host.switched => system = attempt /\ dest = attempt
  /\ HostIsWhereItBelongs

LEMMA PlacedInit == SetupInit => PlacedInv
<1> SUFFICES ASSUME SetupInit PROVE PlacedInv  OBVIOUS
<1>1. step = "idle" /\ ending = "" /\ staging = {} /\ dest = Free /\ system = Free
  BY DEF SetupInit
<1>2. ~host.created /\ ~host.switched  BY DEF SetupInit, NoHost
<1> QED  BY <1>1, <1>2, Markers DEF PlacedInv, HostIsWhereItBelongs

LEMMA PlacedStep == TypedInv /\ PlacedInv /\ [SetupNext]_vars => PlacedInv'
<1> SUFFICES ASSUME TypedInv, PlacedInv, [SetupNext]_vars PROVE PlacedInv'  OBVIOUS
<1> USE Markers DEF TypedInv, AttemptTyped, Numbered, PlacedInv, HostIsWhereItBelongs
<1>1. CASE Start
  <2>1. attempt' = attempt + 1 /\ dest' = dest /\ staging' = staging
    BY <1>1 DEF Start, trees
  <2>2. staging' \subseteq 1..attempt' /\ attempt' \notin staging'
    <3>1. attempt \in Nat  BY Markers
    <3> QED  BY <2>1, <3>1
  <2>3. dest' # attempt' /\ (dest' \in Attempts => dest' <= attempt')
    <3>1. attempt \in Nat /\ attempt + 1 \in Nat /\ Attempts \subseteq Nat
      BY Markers DEF Attempts
    <3>2. {Free, Vacant, Foreign} \cap Nat = {}  BY AttemptAssumption
    <3>3. CASE dest \in Attempts  BY <2>1, <3>1, <3>3
    <3>4. CASE dest \in {Free, Vacant, Foreign}  BY <2>1, <3>1, <3>2, <3>4
    <3> QED  BY <3>3, <3>4
  <2>4. ~host'.created /\ ~host'.switched  BY <1>1 DEF Start, NoHost
  <2>5. (step' = "wizard" /\ dest' = Free) \/ step' = "idle"
    BY <1>1, <2>1 DEF Start, End
  <2>6. UNCHANGED <<dest, recovery, system>>  BY <1>1, <2>1 DEF Start, trees
  <2>7. step' = "idle" => ending' = "failed"  BY <1>1 DEF Start, End
  <2> QED  BY <2>2, <2>3, <2>4, <2>5, <2>6, <2>7
<1>2. CASE Interview
  BY <1>2 DEF Interview, setupVars, keyFiles, trees
<1>3. CASE FirstInterviewEnds
  BY <1>3 DEF FirstInterviewEnds, Interviewed, Go, End, keyFiles, trees
<1>4. CASE LaterInterview
  BY <1>4 DEF LaterInterview, Interviewed, Go, End, keyFiles, trees
<1>5. CASE FindKey
  BY <1>5 DEF FindKey, Go, End, keyFiles, trees
<1>6. CASE WritePrivate
  BY <1>6 DEF WritePrivate, Go, End, trees
<1>7. CASE WritePublic
  BY <1>7 DEF WritePublic, Go, End, trees
<1>8. CASE Stage
  <2>1. attempt \in 1..attempt  BY <1>8 DEF Stage, Attempts
  <2> QED  BY <1>8, <2>1 DEF Stage, PreserveRecovery, Go, End
<1>9. CASE Place
  <2>1. attempt \in Attempts /\ attempt <= attempt  BY <1>9 DEF Place, Attempts
  <2> QED  BY <1>9, <2>1 DEF Place, Go
<1>10. CASE StagingFails
  BY <1>10 DEF StagingFails, PreserveRecovery, End
<1>11. CASE PrepareSecrets
  BY <1>11 DEF PrepareSecrets, PreserveRecovery, Go, End
<1>12. CASE Healthcheck
  BY <1>12 DEF Healthcheck, Go, End, trees
<1>13. CASE ContinueAnyway
  BY <1>13 DEF ContinueAnyway, Go, trees
<1>14. CASE Decline
  BY <1>14 DEF Decline, PreserveRecovery, End
<1>15. CASE PreviousAtHealthcheck
  BY <1>15 DEF PreviousAtHealthcheck, End, trees
<1>16. CASE GenerateOnly
  BY <1>16 DEF GenerateOnly, End, trees
<1>17. CASE Switch
  BY <1>17 DEF Switch, PreserveRecovery, Go, End
<1>18. CASE SetPassword
  BY <1>18 DEF SetPassword, End, trees
<1>19. CASE Interrupt
  BY <1>19 DEF Interrupt, End, trees
<1>20. CASE ForeignAppears
  BY <1>20 DEF ForeignAppears
<1>21. CASE Clean
  \* A host that the system runs is not removed.
  <2>1. attempt \notin {Free, Vacant, Foreign}  BY Markers
  <2>2. step = "idle" /\ UNCHANGED <<step, attempt, host, ending, staging, recovery, system>>
    BY <1>21 DEF Clean
  <2>3. dest' = dest \/ (dest' = Free /\ dest # system)  BY <1>21 DEF Clean
  <2>4. CASE dest' = dest  BY <2>2, <2>4
  <2>5. CASE dest' = Free /\ dest # system
    <3>1. ~host.switched  BY <2>5
    <3> QED  BY <2>1, <2>2, <2>5, <3>1
  <2> QED  BY <2>3, <2>4, <2>5
<1>22. CASE UNCHANGED vars
  BY <1>22 DEF vars, setupVars, trees
<1> QED
  BY <1>1, <1>2, <1>3, <1>4, <1>5, <1>6, <1>7, <1>8, <1>9, <1>10, <1>11, <1>12, <1>13,
     <1>14, <1>15, <1>16, <1>17, <1>18, <1>19, <1>20, <1>21, <1>22 DEF SetupNext

LEMMA AlwaysPlaced == SetupSpec => [](TypedInv /\ PlacedInv)
<1>1. TypedInv /\ PlacedInv /\ [SetupNext]_vars => (TypedInv /\ PlacedInv)'
  BY TypedStep, PlacedStep
<1> QED  BY <1>1, TypedInit, PlacedInit, PTL DEF SetupSpec

\* An attempt that fails or is cancelled frees the destination of its host, which
\* it keeps in recovery, unless nixos-rebuild returned without an error; and the
\* active host is in its place or in recovery, whatever was interrupted, retried
\* and cleaned up (run_application and preserve_recovery in app.py).
THEOREM HostAlwaysWhereItBelongs == SetupSpec => []HostIsWhereItBelongs
<1>1. TypedInv /\ PlacedInv => HostIsWhereItBelongs  BY DEF PlacedInv
<1> QED  BY <1>1, AlwaysPlaced, PTL

\* What preserve_recovery moves is the host of this attempt, and what a rename
\* replaces is empty, so another directory at the destination is never touched
\* once there is something in it.
THEOREM ForeignAlwaysKept == SetupSpec => ForeignIsKept
<1>1. TypedInv /\ PlacedInv /\ [SetupNext]_vars
        => [/\ dest = Foreign => dest' = Foreign
            /\ dest = Vacant => dest' \in {Vacant, Foreign, attempt}]_vars
  <2> SUFFICES ASSUME TypedInv, PlacedInv, SetupNext, dest \in {Vacant, Foreign}
               PROVE  \/ dest' = dest
                      \/ dest = Vacant /\ dest' \in {Foreign, attempt}
    BY Markers
  <2>1. dest # attempt /\ dest # Free /\ dest \notin Attempts
    <3>1. attempt \in 0..MaxAttempts  BY DEF TypedInv, AttemptTyped
    <3> QED  BY <3>1, Markers
  <2>2. step \notin {"secrets", "check", "ask", "switch"}  BY <2>1 DEF PlacedInv
  <2>3. step \in {"write", "staged"} => ~host.created  BY DEF PlacedInv
  <2> USE <2>1, <2>2, <2>3
  <2>4. ASSUME Start \/ Interview \/ FirstInterviewEnds \/ LaterInterview PROVE dest' = dest
    BY <2>4 DEF Start, Interview, FirstInterviewEnds, LaterInterview, Interviewed, setupVars, trees
  <2>5. ASSUME FindKey \/ WritePrivate \/ WritePublic PROVE dest' = dest
    BY <2>5 DEF FindKey, WritePrivate, WritePublic, trees
  <2>6. ASSUME Stage \/ StagingFails \/ PrepareSecrets PROVE dest' = dest
    BY <2>6 DEF Stage, StagingFails, PrepareSecrets, PreserveRecovery
  <2>7. ASSUME Healthcheck \/ ContinueAnyway \/ Decline \/ PreviousAtHealthcheck
        PROVE dest' = dest
    BY <2>7 DEF Healthcheck, ContinueAnyway, Decline, PreviousAtHealthcheck, trees
  <2>8. ASSUME GenerateOnly \/ Switch \/ SetPassword \/ Interrupt PROVE dest' = dest
    BY <2>8 DEF GenerateOnly, Switch, SetPassword, Interrupt, trees
  <2>9. Clean => dest' = dest
    BY DEF Clean
  \* Only an empty directory is replaced, or filled.
  <2>10. ASSUME Place \/ ForeignAppears
         PROVE  dest = Vacant /\ dest' \in {Foreign, attempt}
    BY <2>10 DEF Place, ForeignAppears
  <2> QED  BY <2>4, <2>5, <2>6, <2>7, <2>8, <2>9, <2>10 DEF SetupNext
<1> QED  BY <1>1, AlwaysPlaced, PTL DEF SetupSpec, ForeignIsKept

\* Only the attempt that is past its switch, or a former one, can have been
\* activated.
ActiveInv ==
  /\ system \in Attempts => system <= attempt
  /\ step \notin {"idle", "password"} => system # attempt

LEMMA ActiveInit == SetupInit => ActiveInv
BY Markers DEF SetupInit, ActiveInv

LEMMA ActiveStep == TypedInv /\ PlacedInv /\ ActiveInv /\ [SetupNext]_vars => ActiveInv'
<1> SUFFICES ASSUME TypedInv, PlacedInv, ActiveInv, [SetupNext]_vars PROVE ActiveInv'
  OBVIOUS
<1>0. attempt \in Nat /\ Attempts = 1..MaxAttempts /\ MaxAttempts \in Nat
  BY Markers DEF TypedInv, AttemptTyped, Attempts
<1> USE DEF ActiveInv
<1>1. CASE Start
  <2>1. attempt' = attempt + 1 /\ attempt < MaxAttempts /\ system' = system
    BY <1>1 DEF Start
  <2>2. system \in Attempts => system # attempt'  BY <1>0, <2>1
  <2>3. system \notin Attempts => system # attempt'
    <3>1. attempt' \in Attempts  BY <1>0, <2>1
    <3> QED  BY <3>1
  <2> QED  BY <1>0, <2>1, <2>2, <2>3
<1>2. CASE step \notin {"idle", "password"} /\ UNCHANGED <<system, attempt>>
  BY <1>2
<1>3. CASE Interview \/ FirstInterviewEnds \/ LaterInterview \/ FindKey \/ WritePrivate \/ WritePublic
  BY <1>2, <1>3 DEF Interview, FirstInterviewEnds, LaterInterview, Interviewed, FindKey,
                    WritePrivate, WritePublic, setupVars
<1>4. CASE Stage \/ Place \/ StagingFails \/ PrepareSecrets
  BY <1>2, <1>4 DEF Stage, Place, StagingFails, PrepareSecrets
<1>5. CASE Healthcheck \/ ContinueAnyway \/ Decline \/ PreviousAtHealthcheck \/ GenerateOnly
  BY <1>2, <1>5 DEF Healthcheck, ContinueAnyway, Decline, PreviousAtHealthcheck, GenerateOnly
<1>6. CASE Switch \/ Interrupt
  <2>1. system' \in {system, attempt} /\ attempt' = attempt
    BY <1>6 DEF Switch, Interrupt
  <2>2. step' \in {"idle", "password"}
    BY <1>6 DEF Switch, Interrupt, Go, End
  <2> QED  BY <1>0, <2>1, <2>2
<1>7. CASE SetPassword
  BY <1>7 DEF SetPassword, End
<1>8. CASE ForeignAppears \/ Clean
  BY <1>8 DEF ForeignAppears, Clean
<1>9. CASE UNCHANGED vars
  BY <1>9 DEF vars, setupVars
<1> QED  BY <1>1, <1>3, <1>4, <1>5, <1>6, <1>7, <1>8, <1>9 DEF SetupNext

\* Once the system runs the host that is in its place, no attempt moves that
\* host or activates another: a retry ends before it touches either, and the
\* operator cleans up only what is not active (preserve_recovery in app.py
\* moves the directory that its own attempt created, and no other).
THEOREM ActiveHostStays ==
  SetupSpec => [][(dest \in Attempts /\ dest = system => UNCHANGED <<dest, system>>)]_vars
<1>1. TypedInv /\ PlacedInv /\ ActiveInv /\ [SetupNext]_vars
        => [(dest \in Attempts /\ dest = system => UNCHANGED <<dest, system>>)]_vars
  <2> SUFFICES ASSUME TypedInv, PlacedInv, ActiveInv, SetupNext, dest \in Attempts, dest = system
               PROVE  UNCHANGED <<dest, system>>
    OBVIOUS
  <2>1. step \in {"idle", "password"}
    <3>1. step \notin {"wizard", "key", "public", "write", "staged"}
      BY Markers DEF PlacedInv
    <3>2. step \notin {"secrets", "check", "ask", "switch"}
      BY DEF PlacedInv, ActiveInv
    <3> QED  BY <3>1, <3>2 DEF TypedInv, AttemptTyped, Steps
  <2>2. CASE Start \/ SetPassword
    BY <2>2 DEF Start, SetPassword, trees
  <2>3. CASE Clean
    BY <2>3 DEF Clean
  <2>4. CASE Interrupt
    BY <2>1, <2>4 DEF Interrupt, trees
  <2>5. ~(Interview \/ FirstInterviewEnds \/ LaterInterview \/ FindKey \/ WritePrivate \/ WritePublic)
    BY <2>1 DEF Interview, FirstInterviewEnds, LaterInterview, FindKey, WritePrivate, WritePublic
  <2>6. ~(Stage \/ Place \/ StagingFails \/ PrepareSecrets \/ Healthcheck \/ ContinueAnyway)
    BY <2>1 DEF Stage, Place, StagingFails, PrepareSecrets, Healthcheck, ContinueAnyway
  <2>7. ~(Decline \/ PreviousAtHealthcheck \/ GenerateOnly \/ Switch \/ ForeignAppears)
    BY <2>1 DEF Decline, PreviousAtHealthcheck, GenerateOnly, Switch, ForeignAppears
  <2> QED  BY <2>2, <2>3, <2>4, <2>5, <2>6, <2>7 DEF SetupNext
<1>2. TypedInv /\ PlacedInv /\ ActiveInv /\ [SetupNext]_vars
        => (TypedInv /\ PlacedInv /\ ActiveInv)'
  BY TypedStep, PlacedStep, ActiveStep
<1> QED  BY <1>1, <1>2, TypedInit, PlacedInit, ActiveInit, PTL DEF SetupSpec

-----------------------------------------------------------------------------
(* A host that failed validation *)

\* A rejected host waits for the operator's answer, and once the attempt is
\* over without one it was declined, interrupted, or left by Previous.
RejectedInv ==
  host.rejected =>
    /\ step \in {"ask", "idle"} /\ ~host.switched
    /\ step = "idle" => ending \in {"failed", "cancelled", "interrupted", "unhandled"}

LEMMA RejectedInit == SetupInit => RejectedInv
<1> SUFFICES ASSUME SetupInit PROVE RejectedInv  OBVIOUS
<1>1. ~host.rejected  BY DEF SetupInit, NoHost
<1> QED  BY <1>1 DEF RejectedInv

LEMMA RejectedStep == TypedInv /\ PlacedInv /\ RejectedInv /\ [SetupNext]_vars => RejectedInv'
<1> SUFFICES ASSUME TypedInv, PlacedInv, RejectedInv, [SetupNext]_vars PROVE RejectedInv'
  OBVIOUS
<1> USE DEF TypedInv, AttemptTyped, RejectedInv
<1>1. CASE Start
  BY <1>1 DEF Start, NoHost
<1>2. CASE Interview \/ FirstInterviewEnds \/ LaterInterview
  \* No interview is under way while a host is rejected.
  <2>1. CASE Interview  BY <1>2, <2>1 DEF Interview, setupVars
  <2>2. CASE step = "wizard" /\ host'.rejected = host.rejected
    BY <2>2
  <2>3. ASSUME FirstInterviewEnds \/ LaterInterview
        PROVE  step = "wizard" /\ host'.rejected = host.rejected
    BY <2>3 DEF FirstInterviewEnds, LaterInterview, Interviewed
  <2> QED  BY <1>2, <2>1, <2>2, <2>3
<1>3. CASE FindKey \/ WritePrivate \/ WritePublic
  BY <1>3 DEF FindKey, WritePrivate, WritePublic
<1>4. CASE Stage \/ Place \/ StagingFails \/ PrepareSecrets
  BY <1>4 DEF Stage, Place, StagingFails, PrepareSecrets
<1>5. CASE Healthcheck
  <2>1. step = "check" /\ ~host.switched  BY <1>5 DEF Healthcheck, PlacedInv
  <2>2. CASE step' = "switch" /\ host' = host  BY <2>1, <2>2
  <2>3. CASE step' = "ask" /\ host' = [host EXCEPT !.rejected = TRUE]
    BY <2>1, <2>3
  <2>4. CASE step' = "idle" /\ ending' = "unhandled" /\ host' = host
    BY <2>1, <2>4
  <2> QED  BY <1>5, <2>2, <2>3, <2>4 DEF Healthcheck, Go, End
<1>6. CASE ContinueAnyway
  BY <1>6 DEF ContinueAnyway
<1>7. CASE Decline \/ PreviousAtHealthcheck
  BY <1>7 DEF Decline, PreviousAtHealthcheck, End
<1>8. CASE GenerateOnly \/ Switch \/ SetPassword
  BY <1>8 DEF GenerateOnly, Switch, SetPassword
<1>9. CASE Interrupt
  BY <1>9 DEF Interrupt, End
<1>10. CASE ForeignAppears \/ Clean
  BY <1>10 DEF ForeignAppears, Clean
<1>11. CASE UNCHANGED vars
  BY <1>11 DEF vars, setupVars
<1> HIDE DEF TypedInv, AttemptTyped, RejectedInv
<1> QED
  BY <1>1, <1>2, <1>3, <1>4, <1>5, <1>6, <1>7, <1>8, <1>9, <1>10, <1>11 DEF SetupNext

LEMMA AlwaysRejected == SetupSpec => [](TypedInv /\ PlacedInv /\ RejectedInv)
<1>1. TypedInv /\ PlacedInv /\ RejectedInv /\ [SetupNext]_vars
        => (TypedInv /\ PlacedInv /\ RejectedInv)'
  BY TypedStep, PlacedStep, RejectedStep
<1> QED  BY <1>1, TypedInit, PlacedInit, RejectedInit, PTL DEF SetupSpec

\* While it is broken, the attempt has ended with an exception nobody catches.
LEMMA BrokenUnhandled ==
  TypedInv /\ PlacedInv /\ RejectedInv
    => (~FailedValidationFreesDestination => ending = "unhandled")
<1> SUFFICES ASSUME TypedInv, PlacedInv, RejectedInv, ~FailedValidationFreesDestination
             PROVE  ending = "unhandled"
  OBVIOUS
<1>1. step = "idle" /\ host.rejected /\ ending # "interrupted" /\ dest = attempt
  BY DEF FailedValidationFreesDestination
<1>2. ~host.switched  BY <1>1 DEF RejectedInv
<1>3. ending \notin {"failed", "cancelled"}
  BY <1>1, <1>2 DEF PlacedInv, HostIsWhereItBelongs
<1> QED  BY <1>1, <1>3 DEF RejectedInv

\* docs/setup-wizard.md:237 promises that a host that failed validation is
\* moved to recovery.  The Previous button of the healthcheck question is the
\* only way that promise is broken: no other step takes a state that keeps it
\* to one that does not, and while it is broken the attempt has ended with the
\* SectionBack that nobody catches.
THEOREM OnlyPreviousLeavesRejectedHost ==
  SetupSpec =>
    /\ [](~FailedValidationFreesDestination => ending = "unhandled")
    /\ [][FailedValidationFreesDestination /\ ~PreviousAtHealthcheck
            => FailedValidationFreesDestination']_vars
<1> DEFINE All == TypedInv /\ PlacedInv /\ RejectedInv
<1>1. All => (~FailedValidationFreesDestination => ending = "unhandled")
  BY BrokenUnhandled
<1>2. All /\ [SetupNext]_vars
        => [FailedValidationFreesDestination /\ ~PreviousAtHealthcheck
              => FailedValidationFreesDestination']_vars
  <2> SUFFICES ASSUME TypedInv, PlacedInv, RejectedInv, SetupNext,
                      FailedValidationFreesDestination, ~PreviousAtHealthcheck,
                      ~FailedValidationFreesDestination'
               PROVE  FALSE
    OBVIOUS
  <2>1. step' = "idle" /\ host'.rejected /\ ending' # "interrupted" /\ dest' = attempt'
    BY DEF FailedValidationFreesDestination
  <2>2. (TypedInv /\ PlacedInv /\ RejectedInv)'
    BY TypedStep, PlacedStep, RejectedStep
  <2>3. ending' = "unhandled"  BY <2>1, <2>2 DEF RejectedInv, PlacedInv, HostIsWhereItBelongs
  \* The host was rejected before, and so the question was being asked, or the
  \* attempt had ended with the host out of the way.
  <2>4. host.rejected
    <3>1. ASSUME Start PROVE ~host'.rejected  BY <3>1 DEF Start, NoHost
    <3>2. ASSUME Healthcheck PROVE step' = "ask" \/ host'.rejected = host.rejected
      BY <3>2 DEF Healthcheck, Go
    <3>3. ASSUME ~Start, ~Healthcheck, ~ContinueAnyway PROVE host'.rejected = host.rejected
      <4> USE DEF TypedInv, AttemptTyped
      <4>1. ASSUME Interview \/ FirstInterviewEnds \/ LaterInterview
            PROVE  host'.rejected = host.rejected
        BY <4>1 DEF Interview, FirstInterviewEnds, LaterInterview, Interviewed, setupVars
      <4>2. ASSUME FindKey \/ WritePrivate \/ WritePublic \/ Place \/ Switch
            PROVE  host'.rejected = host.rejected
        BY <4>2 DEF FindKey, WritePrivate, WritePublic, Place, Switch
      <4>3. ASSUME Stage \/ StagingFails \/ PrepareSecrets \/ Decline \/ GenerateOnly
                     \/ SetPassword \/ Interrupt \/ ForeignAppears \/ Clean
            PROVE  host'.rejected = host.rejected
        BY <4>3 DEF Stage, StagingFails, PrepareSecrets, Decline, GenerateOnly, SetPassword,
                    Interrupt, ForeignAppears, Clean
      <4> QED  BY <3>3, <4>1, <4>2, <4>3 DEF SetupNext
    <3>4. ASSUME ContinueAnyway PROVE step' # "idle"  BY <3>4 DEF ContinueAnyway, Go
    <3> QED  BY <2>1, <3>1, <3>2, <3>3, <3>4
  <2>5. step \in {"ask", "idle"}  BY <2>4 DEF RejectedInv
  <2>6. ContinueAnyway \/ Decline \/ Interrupt \/ Clean \/ Start
    BY <2>5 DEF SetupNext, Start, Interview, FirstInterviewEnds, LaterInterview, FindKey,
       WritePrivate, WritePublic, Stage, Place, StagingFails, PrepareSecrets, Healthcheck,
       GenerateOnly, Switch, SetPassword, ForeignAppears
  <2>7. CASE Clean
    <3>1. step = "idle" /\ UNCHANGED <<attempt, ending>> /\ dest' \in {dest, Free}
      BY <2>7 DEF Clean
    <3>2. attempt # Free  BY Markers DEF TypedInv, AttemptTyped
    <3>3. dest = attempt /\ ending # "interrupted"  BY <2>1, <3>1, <3>2
    <3> QED  BY <2>4, <3>1, <3>3 DEF FailedValidationFreesDestination
  <2>8. ASSUME ContinueAnyway \/ Decline \/ Interrupt PROVE FALSE
    BY <2>1, <2>3, <2>8 DEF ContinueAnyway, Decline, Interrupt, Go, End
  <2>9. ASSUME Start PROVE FALSE
    BY <2>1, <2>9 DEF Start, NoHost
  <2> QED  BY <2>6, <2>7, <2>8, <2>9
<1> QED  BY <1>1, <1>2, AlwaysRejected, PTL DEF SetupSpec

-----------------------------------------------------------------------------
(* The interview.  The invariant says of every question what the sections   *)
(* before it have established, and what the pass through the disks has.     *)

\* The questions, by what has been answered before them.
AccessPrompts == {"addresses", "access", "public", "lan"}
LoginPrompts == {"ssh", "keyMode", "key", "password", "root"}
HardwarePrompts == {"boot", "grub", "grubConfirm", "hardware", "swap", "gpu"}
DetailPrompts == {"externals", "tailscale", "route", "server", "shares", "sources"}
LastPrompts == {"privileges", "review", "applied"}

\* Every disk with a mount point is one of the layout and alone there; how far
\* the pass has come tells which disks have one.
LayoutInv ==
  /\ chosen \cap Unusable = {}
  /\ \A c, d \in Placed : mount[c] = mount[d] => c = d
  /\ \A d \in Placed : d \in chosen /\ mount[d] # Root
  /\ prompt \in {"disks", "parity", "parityDisks"} => parity = {} /\ left = {}
  /\ prompt \in {"disks", "parity", "parityDisks", "pool"} => Placed = {}
  /\ prompt \in {"parity", "parityDisks"} => chosen # {}
  /\ prompt \in {"pool", "dataMount", "parityMount", "save"} => Data # {}
  /\ prompt = "dataMount" => left \subseteq Data /\ Data \ left \subseteq Placed
  /\ prompt \in {"parityMount", "save"} => Data \subseteq Placed

\* An answer that is begun is completed before its section is left forwards.
HalfInv ==
  half =>
    /\ watched = "lan" =>
         prompt \notin LoginPrompts \cup HardwarePrompts \cup DetailPrompts
                         \cup NasPrompts \cup LastPrompts
    /\ watched = "key" =>
         prompt \notin {"password", "root"} \cup HardwarePrompts \cup DetailPrompts
                         \cup NasPrompts \cup LastPrompts
    /\ watched = "grub" =>
         prompt \notin {"hardware", "swap", "gpu"} \cup DetailPrompts
                         \cup NasPrompts \cup LastPrompts
    /\ watched = "swap" =>
         prompt \notin {"gpu"} \cup DetailPrompts \cup NasPrompts \cup LastPrompts
    /\ watched = "route" =>
         prompt \notin {"server", "shares", "sources"} \cup NasPrompts \cup LastPrompts
    /\ watched = "shares" => prompt \notin NasPrompts \cup LastPrompts /\ Cifs \in enabled

\* What the sections before this question have established.
ServicesInv ==
  prompt \in {"infrastructure"} \cup AccessPrompts \cup LoginPrompts \cup HardwarePrompts
               \cup DetailPrompts \cup NasPrompts \cup LastPrompts =>
    Questioned \subseteq given

\* Exposure is asked about, and kept, only with the service it needs.
AccessInv ==
  /\ prompt \in {"access", "public", "lan"} => Nginx \in enabled
  /\ prompt \in {"lan"} \cup LoginPrompts \cup HardwarePrompts \cup DetailPrompts
                  \cup NasPrompts \cup LastPrompts =>
       /\ access = "tailnet" => Tailscale \in enabled
       /\ access # "loopback" => Nginx \in enabled

\* Someone can log in.
LoginInv ==
  /\ prompt = "keyMode" => keyMode # ""
  /\ prompt \in {"key", "password"} => keyMode \notin {"", "none"}
  /\ prompt \in {"root"} \cup HardwarePrompts \cup DetailPrompts
                  \cup NasPrompts \cup LastPrompts =>
       keyMode # "" /\ (keyMode = "none" => passwords)

\* Storage that is configured is enabled, and after its questions the converse.
StorageInv ==
  /\ nasOn => nasReady /\ Nas \in enabled
  /\ cifsOn => Cifs \in enabled
  /\ prompt \in {"server", "shares", "sources"} \cup NasPrompts \cup LastPrompts =>
       (Cifs \in enabled => cifsOn)
  /\ prompt \in NasPrompts => Nas \in enabled
  /\ prompt \in LastPrompts => (Nas \in enabled => nasOn)

\* The answers, typed.
AnswersTyped ==
  /\ prompt \in Prompts \cup Ends
  /\ enabled \in SUBSET Services /\ given \in SUBSET WithInputs
  /\ preset \in DOMAIN Presets /\ initialized \in BOOLEAN
  /\ access \in {"loopback", "lan", "tailnet", "public"}
  /\ keyMode \in {"", "provided", "generated", "none"}
  /\ passwords \in BOOLEAN
  /\ cifsOn \in BOOLEAN /\ nasOn \in BOOLEAN /\ nasReady \in BOOLEAN
  /\ watched \in Answers /\ half \in BOOLEAN

\* What holds of the answers, and of the whole interview.
AnswersInv ==
  AnswersTyped /\ HalfInv /\ ServicesInv /\ AccessInv /\ LoginInv /\ StorageInv

InterviewInv == NasTypeOK /\ LayoutInv /\ AnswersInv

\* The questions of each section.
LEMMA Sections ==
  /\ Section[1] = {"identity", "createUser"}
  /\ Section[2] = {"preset", "modify", "checklists", "inputs"}
  /\ Section[3] = {"infrastructure"}
  /\ Section[4] = AccessPrompts \cup LoginPrompts
  /\ Section[5] = HardwarePrompts
  /\ Section[6] = DetailPrompts \cup NasPrompts
  /\ Section[7] = {"privileges"}
  /\ Section[8] = {"review"}
BY DEF Section, AccessPrompts, LoginPrompts, HardwarePrompts, DetailPrompts

\* Every question of a section is a question of the interview.
LEMMA SectionPrompts == \A i \in 1..8 : Section[i] \subseteq Prompts
BY DEF Prompts

\* Every question is one of a section, or the interview has ended.
LEMMA EveryPrompt ==
  {"identity", "createUser", "preset", "modify", "checklists", "inputs", "infrastructure"}
    \cup AccessPrompts \cup LoginPrompts \cup HardwarePrompts \cup DetailPrompts
    \cup NasPrompts \cup LastPrompts \cup Ends \subseteq Prompts \cup Ends
<1>1. /\ Section[1] \subseteq Prompts /\ Section[2] \subseteq Prompts
      /\ Section[3] \subseteq Prompts /\ Section[4] \subseteq Prompts
      /\ Section[5] \subseteq Prompts /\ Section[6] \subseteq Prompts
      /\ Section[7] \subseteq Prompts /\ Section[8] \subseteq Prompts
  BY SectionPrompts
<1>2. LastPrompts = Section[7] \cup Section[8] \cup {"applied"}  BY Sections DEF LastPrompts
<1> QED  BY <1>1, <1>2, Sections DEF Ends

\* A question that belongs to no layout leaves the layout as it is, or forgets it.
LEMMA LayoutLeft ==
  ASSUME NasTypeOK, LayoutInv, prompt' \notin NasPrompts,
         UNCHANGED layoutVars \/ ForgetLayout
  PROVE  NasTypeOK' /\ LayoutInv'
<1>1. CASE UNCHANGED layoutVars
  BY <1>1 DEF layoutVars, NasTypeOK, LayoutInv, NasPrompts, Placed, Data
<1>2. CASE ForgetLayout
  <2>1. visible' = {} /\ chosen' = {} /\ parity' = {} /\ left' = {} /\ mount' = NoMounts
    BY <1>2 DEF ForgetLayout
  <2>2. Placed' = {}  BY <2>1 DEF Placed, NoMounts
  <2>3. NasTypeOK'  BY <2>1 DEF NasTypeOK, NoMounts
  <2> QED  BY <2>1, <2>2, <2>3 DEF LayoutInv, NasPrompts
<1> QED  BY <1>1, <1>2

\* A new look at the disks begins a layout with none of the one before.
LEMMA LayoutBegun ==
  ASSUME LookAtDisks
  PROVE  NasTypeOK' /\ LayoutInv' /\ prompt' \in {"noDisks", "disks"}
<1>1. PICK S \in Sightings :
        /\ visible' = S
        /\ prompt' = IF S \subseteq Unusable THEN "noDisks" ELSE "disks"
        /\ chosen' = {} /\ parity' = {} /\ left' = {}
        /\ mount' = NoMounts
  BY DEF LookAtDisks
<1>2. Placed' = {}  BY <1>1 DEF Placed, NoMounts
<1>3. NasTypeOK'  BY <1>1 DEF NasTypeOK, NoMounts
<1> QED  BY <1>1, <1>2, <1>3 DEF LayoutInv

\* A disk that is given a mount point nobody has is alone there.
LEMMA MountKeeps ==
  ASSUME NasTypeOK, LayoutInv, NEW d \in chosen, NEW m \in Mounts \ Taken,
         mount' = [mount EXCEPT ![d] = m], chosen' = chosen
  PROVE  /\ mount' \in [Disks -> Mounts \cup {None}]
         /\ Placed' = Placed \cup {d}
         /\ \A a, b \in Placed' : mount'[a] = mount'[b] => a = b
         /\ \A a \in Placed' : a \in chosen /\ mount'[a] # Root
<1>1. d \in Disks /\ m # None /\ m # Root /\ \A a \in Placed : m # mount[a]
  BY MountAssumption DEF NasTypeOK, Taken
<1>2. mount' \in [Disks -> Mounts \cup {None}]  BY <1>1 DEF NasTypeOK
<1>3. \A a \in Disks : mount'[a] = IF a = d THEN m ELSE mount[a]  BY <1>1 DEF NasTypeOK
<1>4. Placed' = Placed \cup {d}  BY <1>1, <1>3 DEF Placed
<1>5. Placed \subseteq Disks  BY DEF Placed
<1> QED  BY <1>1, <1>2, <1>3, <1>4, <1>5 DEF LayoutInv

\* The questions about disks keep the layout of this pass sound.
LEMMA LayoutStep ==
  ASSUME NasTypeOK, LayoutInv, NasStep
  PROVE  /\ NasTypeOK' /\ LayoutInv' /\ prompt' \in NasPrompts
         /\ prompt \in NasPrompts
<1>1. CASE SelectDisks
  <2>1. CASE LookAtDisks  BY <1>1, <2>1, LayoutBegun DEF NasPrompts, SelectDisks
  <2>2. CASE ~LookAtDisks
    <3>1. PICK S \in SUBSET visible :
            /\ S # {} /\ S \cap Unusable = {} /\ chosen' = S /\ prompt' = "parity"
            /\ UNCHANGED <<visible, parity, mount, left>>
      BY <1>1, <2>2 DEF SelectDisks, Selectable
    <3>2. visible \subseteq Disks  BY DiskAssumption DEF NasTypeOK
    <3> QED  BY <1>1, <3>1, <3>2 DEF SelectDisks, NasTypeOK, LayoutInv, NasPrompts, Placed, Data
  <2> QED  BY <2>1, <2>2
<1>2. CASE AskParity
  <2>1. CASE LookAtDisks  BY <1>2, <2>1, LayoutBegun DEF NasPrompts, AskParity
  <2>2. CASE ~LookAtDisks
    BY <1>2, <2>2 DEF AskParity, layoutVars, NasTypeOK, LayoutInv, NasPrompts, Placed, Data
  <2> QED  BY <2>1, <2>2
<1>3. CASE SelectParity
  <2>1. CASE LookAtDisks  BY <1>3, <2>1, LayoutBegun DEF NasPrompts, SelectParity
  <2>2. CASE ~LookAtDisks
    BY <1>3, <2>2 DEF SelectParity, LeavesData, NasTypeOK, LayoutInv, NasPrompts, Placed, Data
  <2> QED  BY <2>1, <2>2
<1>4. CASE ConfigurePool
  BY <1>4 DEF ConfigurePool, NasTypeOK, LayoutInv, NasPrompts, Placed, Data
<1>5. CASE RejectLayout
  BY <1>5, LayoutBegun DEF RejectLayout, NasPrompts
<1>6. ASSUME NEW d \in Disks, MountData(d)
      PROVE  NasTypeOK' /\ LayoutInv' /\ prompt' \in NasPrompts /\ prompt \in NasPrompts
  <2>1. PICK m \in Mounts \ Taken : mount' = [mount EXCEPT ![d] = m]  BY <1>6 DEF MountData
  <2>2. /\ prompt = "dataMount" /\ d \in left /\ left \subseteq Data
        /\ Data \ left \subseteq Placed /\ Data # {}
        /\ UNCHANGED <<visible, chosen, parity>>
    BY <1>6 DEF MountData, LayoutInv
  <2>3. d \in chosen  BY <2>2 DEF Data
  <2>4. /\ mount' \in [Disks -> Mounts \cup {None}]
        /\ Placed' = Placed \cup {d}
        /\ \A a, b \in Placed' : mount'[a] = mount'[b] => a = b
        /\ \A a \in Placed' : a \in chosen /\ mount'[a] # Root
    BY <2>1, <2>2, <2>3, MountKeeps
  <2>5. Data' = Data /\ parity \subseteq chosen /\ Data \subseteq chosen
    BY <2>2 DEF Data, NasTypeOK
  <2>6. CASE left = {d}
    <3>1. left' = parity /\ prompt' \in {"save", "parityMount"}  BY <1>6, <2>6 DEF MountData
    <3>2. Data \subseteq Placed'  BY <2>2, <2>4, <2>6
    <3>3. NasTypeOK'  BY <2>2, <2>4, <3>1 DEF NasTypeOK
    <3> QED  BY <2>2, <2>4, <2>5, <3>1, <3>2, <3>3 DEF LayoutInv, NasPrompts
  <2>7. CASE left # {d}
    <3>1. left' = left \ {d} /\ prompt' = "dataMount"  BY <1>6, <2>7 DEF MountData
    <3>2. left' \subseteq Data /\ Data \ left' \subseteq Placed'  BY <2>2, <2>4, <3>1
    <3>3. NasTypeOK'  BY <2>2, <2>4, <3>1 DEF NasTypeOK
    <3> QED  BY <2>2, <2>4, <2>5, <3>1, <3>2, <3>3 DEF LayoutInv, NasPrompts
  <2> QED  BY <2>6, <2>7
<1>7. ASSUME NEW d \in Disks, MountParity(d)
      PROVE  NasTypeOK' /\ LayoutInv' /\ prompt' \in NasPrompts /\ prompt \in NasPrompts
  <2>1. /\ prompt = "parityMount" /\ d \in left /\ left' = left \ {d}
        /\ prompt' \in {"save", "parityMount"}
        /\ UNCHANGED <<visible, chosen, parity>>
    BY <1>7 DEF MountParity
  <2>2. d \in chosen /\ Data' = Data /\ Data # {} /\ Data \subseteq Placed
    BY <2>1 DEF NasTypeOK, LayoutInv, Data
  <2>3. /\ mount' \in [Disks -> Mounts \cup {None}]
        /\ Placed \subseteq Placed'
        /\ \A a, b \in Placed' : mount'[a] = mount'[b] => a = b
        /\ \A a \in Placed' : a \in chosen /\ mount'[a] # Root
    <3>1. PICK m \in Mounts :
            mount' = IF m \in Taken THEN mount ELSE [mount EXCEPT ![d] = m]
      BY <1>7 DEF MountParity
    <3>2. CASE m \in Taken
      BY <3>1, <3>2 DEF NasTypeOK, LayoutInv, Placed
    <3>3. CASE m \notin Taken
      BY <2>1, <2>2, <3>1, <3>3, MountKeeps
    <3> QED  BY <3>2, <3>3
  <2>4. NasTypeOK'  BY <2>1, <2>3 DEF NasTypeOK
  <2> QED  BY <2>1, <2>2, <2>3, <2>4 DEF LayoutInv, NasPrompts
<1> QED  BY <1>1, <1>2, <1>3, <1>4, <1>5, <1>6, <1>7 DEF NasStep

\* A step to a question that belongs to no layout.
LEMMA StepElsewhere ==
  ASSUME InterviewInv, prompt' \notin NasPrompts, AnswersInv',
         UNCHANGED layoutVars \/ ForgetLayout
  PROVE  InterviewInv'
BY LayoutLeft DEF InterviewInv

-----------------------------------------------------------------------------
(* The questions, one by one.  Each simple one goes to a question that      *)
(* belongs to no layout and keeps the answers consistent.                   *)

\* The next question belongs to no layout.
Elsewhere == prompt' \notin NasPrompts /\ (UNCHANGED layoutVars \/ ForgetLayout)

LEMMA IdentityStep == AnswersInv /\ UNCHANGED watched /\ Identity => AnswersInv' /\ Elsewhere
<1> SUFFICES ASSUME AnswersInv, UNCHANGED watched, Identity PROVE AnswersInv' /\ Elsewhere
  OBVIOUS
<1> USE DEF AccessPrompts, LoginPrompts, HardwarePrompts, DetailPrompts, LastPrompts,
            NasPrompts, Ends, Opened, Closed, Ask, answers, serviceVars, sshVars,
            storageVars, Identity
<1>1. prompt' \in Prompts \cup Ends  BY EveryPrompt
<1>2. AnswersTyped'
  BY <1>1, ServiceAssumption, PresetAssumption DEF AnswersInv, AnswersTyped, Questioned
<1>3. HalfInv'
  BY ServiceAssumption DEF AnswersInv, AnswersTyped, HalfInv
<1>4. ServicesInv'
  BY ServiceAssumption DEF AnswersInv, AnswersTyped, ServicesInv, Questioned
<1>5. AccessInv'
  BY ServiceAssumption, PresetAssumption DEF AnswersInv, AnswersTyped, AccessInv
<1>6. LoginInv'  BY DEF AnswersInv, LoginInv
<1>7. StorageInv'
  BY ServiceAssumption, PresetAssumption DEF AnswersInv, AnswersTyped, StorageInv
<1>8. Elsewhere  BY DEF Elsewhere
<1> QED  BY <1>2, <1>3, <1>4, <1>5, <1>6, <1>7, <1>8 DEF AnswersInv

LEMMA ChoosePresetStep == AnswersInv /\ UNCHANGED watched /\ ChoosePreset => AnswersInv' /\ Elsewhere
<1> SUFFICES ASSUME AnswersInv, UNCHANGED watched, ChoosePreset PROVE AnswersInv' /\ Elsewhere
  OBVIOUS
<1> USE DEF AccessPrompts, LoginPrompts, HardwarePrompts, DetailPrompts, LastPrompts,
            NasPrompts, Ends, Opened, Closed, Ask, answers, serviceVars, sshVars,
            storageVars, ChoosePreset
<1>1. prompt' \in Prompts \cup Ends  BY EveryPrompt
<1>2. AnswersTyped'
  <2>1. enabled' \in SUBSET Services /\ given' \in SUBSET WithInputs
    BY ServiceAssumption, PresetAssumption DEF AnswersInv, AnswersTyped, Questioned
  <2>2. preset' \in DOMAIN Presets /\ initialized' \in BOOLEAN
    BY PresetAssumption DEF AnswersInv, AnswersTyped
  <2>3. /\ access' \in {"loopback", "lan", "tailnet", "public"}
        /\ keyMode' \in {"", "provided", "generated", "none"}
    BY PresetAssumption DEF AnswersInv, AnswersTyped
  <2>4. /\ passwords' \in BOOLEAN /\ cifsOn' \in BOOLEAN /\ nasOn' \in BOOLEAN
        /\ nasReady' \in BOOLEAN /\ watched' \in Answers /\ half' \in BOOLEAN
    BY DEF AnswersInv, AnswersTyped
  <2> QED  BY <1>1, <2>1, <2>2, <2>3, <2>4 DEF AnswersTyped
<1>3. HalfInv'
  BY ServiceAssumption DEF AnswersInv, AnswersTyped, HalfInv
<1>4. ServicesInv'
  BY ServiceAssumption DEF AnswersInv, AnswersTyped, ServicesInv, Questioned
<1>5. AccessInv'
  BY ServiceAssumption, PresetAssumption DEF AnswersInv, AnswersTyped, AccessInv
<1>6. LoginInv'  BY DEF AnswersInv, LoginInv
<1>7. StorageInv'
  BY ServiceAssumption, PresetAssumption DEF AnswersInv, AnswersTyped, StorageInv
<1>8. Elsewhere  BY DEF Elsewhere
<1> QED  BY <1>2, <1>3, <1>4, <1>5, <1>6, <1>7, <1>8 DEF AnswersInv

LEMMA ModifyServicesStep == AnswersInv /\ UNCHANGED watched /\ ModifyServices => AnswersInv' /\ Elsewhere
<1> SUFFICES ASSUME AnswersInv, UNCHANGED watched, ModifyServices PROVE AnswersInv' /\ Elsewhere
  OBVIOUS
<1> USE DEF AccessPrompts, LoginPrompts, HardwarePrompts, DetailPrompts, LastPrompts,
            NasPrompts, Ends, Opened, Closed, Ask, answers, serviceVars, sshVars,
            storageVars, ModifyServices, ServicesChosen
<1>1. prompt' \in Prompts \cup Ends  BY EveryPrompt
<1>2. AnswersTyped'
  <2>1. enabled' \in SUBSET Services /\ given' \in SUBSET WithInputs
    BY ServiceAssumption, PresetAssumption DEF AnswersInv, AnswersTyped, Questioned
  <2>2. preset' \in DOMAIN Presets /\ initialized' \in BOOLEAN
    BY PresetAssumption DEF AnswersInv, AnswersTyped
  <2>3. /\ access' \in {"loopback", "lan", "tailnet", "public"}
        /\ keyMode' \in {"", "provided", "generated", "none"}
    BY PresetAssumption DEF AnswersInv, AnswersTyped
  <2>4. /\ passwords' \in BOOLEAN /\ cifsOn' \in BOOLEAN /\ nasOn' \in BOOLEAN
        /\ nasReady' \in BOOLEAN /\ watched' \in Answers /\ half' \in BOOLEAN
    BY DEF AnswersInv, AnswersTyped
  <2> QED  BY <1>1, <2>1, <2>2, <2>3, <2>4 DEF AnswersTyped
<1>3. HalfInv'
  BY ServiceAssumption DEF AnswersInv, AnswersTyped, HalfInv
<1>4. ServicesInv'
  BY ServiceAssumption DEF AnswersInv, AnswersTyped, ServicesInv, Questioned
<1>5. AccessInv'
  BY ServiceAssumption, PresetAssumption DEF AnswersInv, AnswersTyped, AccessInv
<1>6. LoginInv'  BY DEF AnswersInv, LoginInv
<1>7. StorageInv'
  BY ServiceAssumption, PresetAssumption DEF AnswersInv, AnswersTyped, StorageInv
<1>8. Elsewhere  BY DEF Elsewhere
<1> QED  BY <1>2, <1>3, <1>4, <1>5, <1>6, <1>7, <1>8 DEF AnswersInv

LEMMA ChecklistsStep == AnswersInv /\ UNCHANGED watched /\ Checklists => AnswersInv' /\ Elsewhere
<1> SUFFICES ASSUME AnswersInv, UNCHANGED watched, Checklists PROVE AnswersInv' /\ Elsewhere
  OBVIOUS
<1> USE DEF AccessPrompts, LoginPrompts, HardwarePrompts, DetailPrompts, LastPrompts,
            NasPrompts, Ends, Opened, Closed, Ask, answers, serviceVars, sshVars,
            storageVars, Checklists, ServicesChosen
<1>1. prompt' \in Prompts \cup Ends  BY EveryPrompt
<1>2. AnswersTyped'
  <2>1. enabled' \in SUBSET Services /\ given' \in SUBSET WithInputs
    BY ServiceAssumption, PresetAssumption DEF AnswersInv, AnswersTyped, Questioned
  <2>2. preset' \in DOMAIN Presets /\ initialized' \in BOOLEAN
    BY PresetAssumption DEF AnswersInv, AnswersTyped
  <2>3. /\ access' \in {"loopback", "lan", "tailnet", "public"}
        /\ keyMode' \in {"", "provided", "generated", "none"}
    BY PresetAssumption DEF AnswersInv, AnswersTyped
  <2>4. /\ passwords' \in BOOLEAN /\ cifsOn' \in BOOLEAN /\ nasOn' \in BOOLEAN
        /\ nasReady' \in BOOLEAN /\ watched' \in Answers /\ half' \in BOOLEAN
    BY DEF AnswersInv, AnswersTyped
  <2> QED  BY <1>1, <2>1, <2>2, <2>3, <2>4 DEF AnswersTyped
<1>3. HalfInv'
  BY ServiceAssumption DEF AnswersInv, AnswersTyped, HalfInv
<1>4. ServicesInv'
  BY ServiceAssumption DEF AnswersInv, AnswersTyped, ServicesInv, Questioned
<1>5. AccessInv'
  BY ServiceAssumption, PresetAssumption DEF AnswersInv, AnswersTyped, AccessInv
<1>6. LoginInv'  BY DEF AnswersInv, LoginInv
<1>7. StorageInv'
  BY ServiceAssumption, PresetAssumption DEF AnswersInv, AnswersTyped, StorageInv
<1>8. Elsewhere  BY DEF Elsewhere
<1> QED  BY <1>2, <1>3, <1>4, <1>5, <1>6, <1>7, <1>8 DEF AnswersInv

LEMMA InputsStep == AnswersInv /\ UNCHANGED watched /\ Inputs => AnswersInv' /\ Elsewhere
<1> SUFFICES ASSUME AnswersInv, UNCHANGED watched, Inputs PROVE AnswersInv' /\ Elsewhere
  OBVIOUS
<1> USE DEF AccessPrompts, LoginPrompts, HardwarePrompts, DetailPrompts, LastPrompts,
            NasPrompts, Ends, Opened, Closed, Ask, answers, serviceVars, sshVars,
            storageVars, Inputs
<1>1. prompt' \in Prompts \cup Ends  BY EveryPrompt
<1>2. AnswersTyped'
  BY <1>1, ServiceAssumption, PresetAssumption DEF AnswersInv, AnswersTyped, Questioned
<1>3. HalfInv'
  BY ServiceAssumption DEF AnswersInv, AnswersTyped, HalfInv
<1>4. ServicesInv'
  BY ServiceAssumption DEF AnswersInv, AnswersTyped, ServicesInv, Questioned
<1>5. AccessInv'
  BY ServiceAssumption, PresetAssumption DEF AnswersInv, AnswersTyped, AccessInv
<1>6. LoginInv'  BY DEF AnswersInv, LoginInv
<1>7. StorageInv'
  BY ServiceAssumption, PresetAssumption DEF AnswersInv, AnswersTyped, StorageInv
<1>8. Elsewhere  BY DEF Elsewhere
<1> QED  BY <1>2, <1>3, <1>4, <1>5, <1>6, <1>7, <1>8 DEF AnswersInv

LEMMA InfrastructureStep == AnswersInv /\ UNCHANGED watched /\ Infrastructure => AnswersInv' /\ Elsewhere
<1> SUFFICES ASSUME AnswersInv, UNCHANGED watched, Infrastructure PROVE AnswersInv' /\ Elsewhere
  OBVIOUS
<1> USE DEF AccessPrompts, LoginPrompts, HardwarePrompts, DetailPrompts, LastPrompts,
            NasPrompts, Ends, Opened, Closed, Ask, answers, serviceVars, sshVars,
            storageVars, Infrastructure
<1>1. prompt' \in Prompts \cup Ends  BY EveryPrompt
<1>2. AnswersTyped'
  BY <1>1, ServiceAssumption, PresetAssumption DEF AnswersInv, AnswersTyped, Questioned
<1>3. HalfInv'
  BY ServiceAssumption DEF AnswersInv, AnswersTyped, HalfInv
<1>4. ServicesInv'
  BY ServiceAssumption DEF AnswersInv, AnswersTyped, ServicesInv, Questioned
<1>5. AccessInv'
  BY ServiceAssumption, PresetAssumption DEF AnswersInv, AnswersTyped, AccessInv
<1>6. LoginInv'  BY DEF AnswersInv, LoginInv
<1>7. StorageInv'
  BY ServiceAssumption, PresetAssumption DEF AnswersInv, AnswersTyped, StorageInv
<1>8. Elsewhere  BY DEF Elsewhere
<1> QED  BY <1>2, <1>3, <1>4, <1>5, <1>6, <1>7, <1>8 DEF AnswersInv

LEMMA AddressesStep == AnswersInv /\ UNCHANGED watched /\ Addresses => AnswersInv' /\ Elsewhere
<1> SUFFICES ASSUME AnswersInv, UNCHANGED watched, Addresses PROVE AnswersInv' /\ Elsewhere
  OBVIOUS
<1> USE DEF AccessPrompts, LoginPrompts, HardwarePrompts, DetailPrompts, LastPrompts,
            NasPrompts, Ends, Opened, Closed, Ask, answers, serviceVars, sshVars,
            storageVars, Addresses
<1>1. prompt' \in Prompts \cup Ends  BY EveryPrompt
<1>2. AnswersTyped'
  BY <1>1, ServiceAssumption, PresetAssumption DEF AnswersInv, AnswersTyped, Questioned
<1>3. HalfInv'
  BY ServiceAssumption DEF AnswersInv, AnswersTyped, HalfInv
<1>4. ServicesInv'
  BY ServiceAssumption DEF AnswersInv, AnswersTyped, ServicesInv, Questioned
<1>5. AccessInv'
  BY ServiceAssumption, PresetAssumption DEF AnswersInv, AnswersTyped, AccessInv
<1>6. LoginInv'  BY DEF AnswersInv, LoginInv
<1>7. StorageInv'
  BY ServiceAssumption, PresetAssumption DEF AnswersInv, AnswersTyped, StorageInv
<1>8. Elsewhere  BY DEF Elsewhere
<1> QED  BY <1>2, <1>3, <1>4, <1>5, <1>6, <1>7, <1>8 DEF AnswersInv

LEMMA AccessStep == AnswersInv /\ UNCHANGED watched /\ Access => AnswersInv' /\ Elsewhere
<1> SUFFICES ASSUME AnswersInv, UNCHANGED watched, Access PROVE AnswersInv' /\ Elsewhere
  OBVIOUS
<1> USE DEF AccessPrompts, LoginPrompts, HardwarePrompts, DetailPrompts, LastPrompts,
            NasPrompts, Ends, Opened, Closed, Ask, answers, serviceVars, sshVars,
            storageVars, Access
<1>1. prompt' \in Prompts \cup Ends  BY EveryPrompt
<1>2. AnswersTyped'
  <2>1. enabled' \in SUBSET Services /\ given' \in SUBSET WithInputs
    BY ServiceAssumption, PresetAssumption DEF AnswersInv, AnswersTyped, Questioned
  <2>2. preset' \in DOMAIN Presets /\ initialized' \in BOOLEAN
    BY PresetAssumption DEF AnswersInv, AnswersTyped
  <2>3. /\ access' \in {"loopback", "lan", "tailnet", "public"}
        /\ keyMode' \in {"", "provided", "generated", "none"}
    BY PresetAssumption DEF AnswersInv, AnswersTyped
  <2>4. /\ passwords' \in BOOLEAN /\ cifsOn' \in BOOLEAN /\ nasOn' \in BOOLEAN
        /\ nasReady' \in BOOLEAN /\ watched' \in Answers /\ half' \in BOOLEAN
    BY DEF AnswersInv, AnswersTyped
  <2> QED  BY <1>1, <2>1, <2>2, <2>3, <2>4 DEF AnswersTyped
<1>3. HalfInv'
  BY ServiceAssumption DEF AnswersInv, AnswersTyped, HalfInv
<1>4. ServicesInv'
  BY ServiceAssumption DEF AnswersInv, AnswersTyped, ServicesInv, Questioned
<1>5. AccessInv'
  BY ServiceAssumption, PresetAssumption DEF AnswersInv, AnswersTyped, AccessInv
<1>6. LoginInv'  BY DEF AnswersInv, LoginInv
<1>7. StorageInv'
  BY ServiceAssumption, PresetAssumption DEF AnswersInv, AnswersTyped, StorageInv
<1>8. Elsewhere  BY DEF Elsewhere
<1> QED  BY <1>2, <1>3, <1>4, <1>5, <1>6, <1>7, <1>8 DEF AnswersInv

LEMMA PublicStep == AnswersInv /\ UNCHANGED watched /\ Public => AnswersInv' /\ Elsewhere
<1> SUFFICES ASSUME AnswersInv, UNCHANGED watched, Public PROVE AnswersInv' /\ Elsewhere
  OBVIOUS
<1> USE DEF AccessPrompts, LoginPrompts, HardwarePrompts, DetailPrompts, LastPrompts,
            NasPrompts, Ends, Opened, Closed, Ask, answers, serviceVars, sshVars,
            storageVars, Public
<1>1. prompt' \in Prompts \cup Ends  BY EveryPrompt
<1>2. AnswersTyped'
  BY <1>1, ServiceAssumption, PresetAssumption DEF AnswersInv, AnswersTyped, Questioned
<1>3. HalfInv'
  BY ServiceAssumption DEF AnswersInv, AnswersTyped, HalfInv
<1>4. ServicesInv'
  BY ServiceAssumption DEF AnswersInv, AnswersTyped, ServicesInv, Questioned
<1>5. AccessInv'
  BY ServiceAssumption, PresetAssumption DEF AnswersInv, AnswersTyped, AccessInv
<1>6. LoginInv'  BY DEF AnswersInv, LoginInv
<1>7. StorageInv'
  BY ServiceAssumption, PresetAssumption DEF AnswersInv, AnswersTyped, StorageInv
<1>8. Elsewhere  BY DEF Elsewhere
<1> QED  BY <1>2, <1>3, <1>4, <1>5, <1>6, <1>7, <1>8 DEF AnswersInv

LEMMA LanStep == AnswersInv /\ UNCHANGED watched /\ Lan => AnswersInv' /\ Elsewhere
<1> SUFFICES ASSUME AnswersInv, UNCHANGED watched, Lan PROVE AnswersInv' /\ Elsewhere
  OBVIOUS
<1> USE DEF AccessPrompts, LoginPrompts, HardwarePrompts, DetailPrompts, LastPrompts,
            NasPrompts, Ends, Opened, Closed, Ask, answers, serviceVars, sshVars,
            storageVars, Lan
<1>1. prompt' \in Prompts \cup Ends  BY EveryPrompt
<1>2. AnswersTyped'
  BY <1>1, ServiceAssumption, PresetAssumption DEF AnswersInv, AnswersTyped, Questioned
<1>3. HalfInv'
  BY ServiceAssumption DEF AnswersInv, AnswersTyped, HalfInv
<1>4. ServicesInv'
  BY ServiceAssumption DEF AnswersInv, AnswersTyped, ServicesInv, Questioned
<1>5. AccessInv'
  BY ServiceAssumption, PresetAssumption DEF AnswersInv, AnswersTyped, AccessInv
<1>6. LoginInv'  BY DEF AnswersInv, LoginInv
<1>7. StorageInv'
  BY ServiceAssumption, PresetAssumption DEF AnswersInv, AnswersTyped, StorageInv
<1>8. Elsewhere  BY DEF Elsewhere
<1> QED  BY <1>2, <1>3, <1>4, <1>5, <1>6, <1>7, <1>8 DEF AnswersInv

LEMMA SshStep == AnswersInv /\ UNCHANGED watched /\ Ssh => AnswersInv' /\ Elsewhere
<1> SUFFICES ASSUME AnswersInv, UNCHANGED watched, Ssh PROVE AnswersInv' /\ Elsewhere
  OBVIOUS
<1> USE DEF AccessPrompts, LoginPrompts, HardwarePrompts, DetailPrompts, LastPrompts,
            NasPrompts, Ends, Opened, Closed, Ask, answers, serviceVars, sshVars,
            storageVars, Ssh
<1>1. prompt' \in Prompts \cup Ends  BY EveryPrompt
<1>2. AnswersTyped'
  BY <1>1, ServiceAssumption, PresetAssumption DEF AnswersInv, AnswersTyped, Questioned
<1>3. HalfInv'
  BY ServiceAssumption DEF AnswersInv, AnswersTyped, HalfInv
<1>4. ServicesInv'
  BY ServiceAssumption DEF AnswersInv, AnswersTyped, ServicesInv, Questioned
<1>5. AccessInv'
  BY ServiceAssumption, PresetAssumption DEF AnswersInv, AnswersTyped, AccessInv
<1>6. LoginInv'  BY DEF AnswersInv, LoginInv
<1>7. StorageInv'
  BY ServiceAssumption, PresetAssumption DEF AnswersInv, AnswersTyped, StorageInv
<1>8. Elsewhere  BY DEF Elsewhere
<1> QED  BY <1>2, <1>3, <1>4, <1>5, <1>6, <1>7, <1>8 DEF AnswersInv

LEMMA KeyModeStep == AnswersInv /\ UNCHANGED watched /\ KeyMode => AnswersInv' /\ Elsewhere
<1> SUFFICES ASSUME AnswersInv, UNCHANGED watched, KeyMode PROVE AnswersInv' /\ Elsewhere
  OBVIOUS
<1> USE DEF AccessPrompts, LoginPrompts, HardwarePrompts, DetailPrompts, LastPrompts,
            NasPrompts, Ends, Opened, Closed, Ask, answers, serviceVars, sshVars,
            storageVars, KeyMode
<1>1. prompt' \in Prompts \cup Ends  BY EveryPrompt
<1>2. AnswersTyped'
  BY <1>1, ServiceAssumption, PresetAssumption DEF AnswersInv, AnswersTyped, Questioned
<1>3. HalfInv'
  BY ServiceAssumption DEF AnswersInv, AnswersTyped, HalfInv
<1>4. ServicesInv'
  BY ServiceAssumption DEF AnswersInv, AnswersTyped, ServicesInv, Questioned
<1>5. AccessInv'
  BY ServiceAssumption, PresetAssumption DEF AnswersInv, AnswersTyped, AccessInv
<1>6. LoginInv'  BY DEF AnswersInv, LoginInv
<1>7. StorageInv'
  BY ServiceAssumption, PresetAssumption DEF AnswersInv, AnswersTyped, StorageInv
<1>8. Elsewhere  BY DEF Elsewhere
<1> QED  BY <1>2, <1>3, <1>4, <1>5, <1>6, <1>7, <1>8 DEF AnswersInv

LEMMA KeyStep == AnswersInv /\ UNCHANGED watched /\ Key => AnswersInv' /\ Elsewhere
<1> SUFFICES ASSUME AnswersInv, UNCHANGED watched, Key PROVE AnswersInv' /\ Elsewhere
  OBVIOUS
<1> USE DEF AccessPrompts, LoginPrompts, HardwarePrompts, DetailPrompts, LastPrompts,
            NasPrompts, Ends, Opened, Closed, Ask, answers, serviceVars, sshVars,
            storageVars, Key
<1>1. prompt' \in Prompts \cup Ends  BY EveryPrompt
<1>2. AnswersTyped'
  BY <1>1, ServiceAssumption, PresetAssumption DEF AnswersInv, AnswersTyped, Questioned
<1>3. HalfInv'
  BY ServiceAssumption DEF AnswersInv, AnswersTyped, HalfInv
<1>4. ServicesInv'
  BY ServiceAssumption DEF AnswersInv, AnswersTyped, ServicesInv, Questioned
<1>5. AccessInv'
  BY ServiceAssumption, PresetAssumption DEF AnswersInv, AnswersTyped, AccessInv
<1>6. LoginInv'  BY DEF AnswersInv, LoginInv
<1>7. StorageInv'
  BY ServiceAssumption, PresetAssumption DEF AnswersInv, AnswersTyped, StorageInv
<1>8. Elsewhere  BY DEF Elsewhere
<1> QED  BY <1>2, <1>3, <1>4, <1>5, <1>6, <1>7, <1>8 DEF AnswersInv

LEMMA PasswordStep == AnswersInv /\ UNCHANGED watched /\ Password => AnswersInv' /\ Elsewhere
<1> SUFFICES ASSUME AnswersInv, UNCHANGED watched, Password PROVE AnswersInv' /\ Elsewhere
  OBVIOUS
<1> USE DEF AccessPrompts, LoginPrompts, HardwarePrompts, DetailPrompts, LastPrompts,
            NasPrompts, Ends, Opened, Closed, Ask, answers, serviceVars, sshVars,
            storageVars, Password
<1>1. prompt' \in Prompts \cup Ends  BY EveryPrompt
<1>2. AnswersTyped'
  BY <1>1, ServiceAssumption, PresetAssumption DEF AnswersInv, AnswersTyped, Questioned
<1>3. HalfInv'
  BY ServiceAssumption DEF AnswersInv, AnswersTyped, HalfInv
<1>4. ServicesInv'
  BY ServiceAssumption DEF AnswersInv, AnswersTyped, ServicesInv, Questioned
<1>5. AccessInv'
  BY ServiceAssumption, PresetAssumption DEF AnswersInv, AnswersTyped, AccessInv
<1>6. LoginInv'  BY DEF AnswersInv, LoginInv
<1>7. StorageInv'
  BY ServiceAssumption, PresetAssumption DEF AnswersInv, AnswersTyped, StorageInv
<1>8. Elsewhere  BY DEF Elsewhere
<1> QED  BY <1>2, <1>3, <1>4, <1>5, <1>6, <1>7, <1>8 DEF AnswersInv

LEMMA RootLoginStep == AnswersInv /\ UNCHANGED watched /\ RootLogin => AnswersInv' /\ Elsewhere
<1> SUFFICES ASSUME AnswersInv, UNCHANGED watched, RootLogin PROVE AnswersInv' /\ Elsewhere
  OBVIOUS
<1> USE DEF AccessPrompts, LoginPrompts, HardwarePrompts, DetailPrompts, LastPrompts,
            NasPrompts, Ends, Opened, Closed, Ask, answers, serviceVars, sshVars,
            storageVars, RootLogin
<1>1. prompt' \in Prompts \cup Ends  BY EveryPrompt
<1>2. AnswersTyped'
  BY <1>1, ServiceAssumption, PresetAssumption DEF AnswersInv, AnswersTyped, Questioned
<1>3. HalfInv'
  BY ServiceAssumption DEF AnswersInv, AnswersTyped, HalfInv
<1>4. ServicesInv'
  BY ServiceAssumption DEF AnswersInv, AnswersTyped, ServicesInv, Questioned
<1>5. AccessInv'
  BY ServiceAssumption, PresetAssumption DEF AnswersInv, AnswersTyped, AccessInv
<1>6. LoginInv'  BY DEF AnswersInv, LoginInv
<1>7. StorageInv'
  BY ServiceAssumption, PresetAssumption DEF AnswersInv, AnswersTyped, StorageInv
<1>8. Elsewhere  BY DEF Elsewhere
<1> QED  BY <1>2, <1>3, <1>4, <1>5, <1>6, <1>7, <1>8 DEF AnswersInv

LEMMA BootStep == AnswersInv /\ UNCHANGED watched /\ Boot => AnswersInv' /\ Elsewhere
<1> SUFFICES ASSUME AnswersInv, UNCHANGED watched, Boot PROVE AnswersInv' /\ Elsewhere
  OBVIOUS
<1> USE DEF AccessPrompts, LoginPrompts, HardwarePrompts, DetailPrompts, LastPrompts,
            NasPrompts, Ends, Opened, Closed, Ask, answers, serviceVars, sshVars,
            storageVars, Boot
<1>1. prompt' \in Prompts \cup Ends  BY EveryPrompt
<1>2. AnswersTyped'
  BY <1>1, ServiceAssumption, PresetAssumption DEF AnswersInv, AnswersTyped, Questioned
<1>3. HalfInv'
  BY ServiceAssumption DEF AnswersInv, AnswersTyped, HalfInv
<1>4. ServicesInv'
  BY ServiceAssumption DEF AnswersInv, AnswersTyped, ServicesInv, Questioned
<1>5. AccessInv'
  BY ServiceAssumption, PresetAssumption DEF AnswersInv, AnswersTyped, AccessInv
<1>6. LoginInv'  BY DEF AnswersInv, LoginInv
<1>7. StorageInv'
  BY ServiceAssumption, PresetAssumption DEF AnswersInv, AnswersTyped, StorageInv
<1>8. Elsewhere  BY DEF Elsewhere
<1> QED  BY <1>2, <1>3, <1>4, <1>5, <1>6, <1>7, <1>8 DEF AnswersInv

LEMMA GrubStep == AnswersInv /\ UNCHANGED watched /\ Grub => AnswersInv' /\ Elsewhere
<1> SUFFICES ASSUME AnswersInv, UNCHANGED watched, Grub PROVE AnswersInv' /\ Elsewhere
  OBVIOUS
<1> USE DEF AccessPrompts, LoginPrompts, HardwarePrompts, DetailPrompts, LastPrompts,
            NasPrompts, Ends, Opened, Closed, Ask, answers, serviceVars, sshVars,
            storageVars, Grub
<1>1. prompt' \in Prompts \cup Ends  BY EveryPrompt
<1>2. AnswersTyped'
  <2>1. enabled' \in SUBSET Services /\ given' \in SUBSET WithInputs
    BY ServiceAssumption, PresetAssumption DEF AnswersInv, AnswersTyped, Questioned
  <2>2. preset' \in DOMAIN Presets /\ initialized' \in BOOLEAN
    BY PresetAssumption DEF AnswersInv, AnswersTyped
  <2>3. /\ access' \in {"loopback", "lan", "tailnet", "public"}
        /\ keyMode' \in {"", "provided", "generated", "none"}
    BY PresetAssumption DEF AnswersInv, AnswersTyped
  <2>4. /\ passwords' \in BOOLEAN /\ cifsOn' \in BOOLEAN /\ nasOn' \in BOOLEAN
        /\ nasReady' \in BOOLEAN /\ watched' \in Answers /\ half' \in BOOLEAN
    BY DEF AnswersInv, AnswersTyped
  <2> QED  BY <1>1, <2>1, <2>2, <2>3, <2>4 DEF AnswersTyped
<1>3. HalfInv'
  BY ServiceAssumption DEF AnswersInv, AnswersTyped, HalfInv
<1>4. ServicesInv'
  BY ServiceAssumption DEF AnswersInv, AnswersTyped, ServicesInv, Questioned
<1>5. AccessInv'
  BY ServiceAssumption, PresetAssumption DEF AnswersInv, AnswersTyped, AccessInv
<1>6. LoginInv'  BY DEF AnswersInv, LoginInv
<1>7. StorageInv'
  BY ServiceAssumption, PresetAssumption DEF AnswersInv, AnswersTyped, StorageInv
<1>8. Elsewhere  BY DEF Elsewhere
<1> QED  BY <1>2, <1>3, <1>4, <1>5, <1>6, <1>7, <1>8 DEF AnswersInv

LEMMA HardwareStep == AnswersInv /\ UNCHANGED watched /\ Hardware => AnswersInv' /\ Elsewhere
<1> SUFFICES ASSUME AnswersInv, UNCHANGED watched, Hardware PROVE AnswersInv' /\ Elsewhere
  OBVIOUS
<1> USE DEF AccessPrompts, LoginPrompts, HardwarePrompts, DetailPrompts, LastPrompts,
            NasPrompts, Ends, Opened, Closed, Ask, answers, serviceVars, sshVars,
            storageVars, Hardware
<1>1. prompt' \in Prompts \cup Ends  BY EveryPrompt
<1>2. AnswersTyped'
  BY <1>1, ServiceAssumption, PresetAssumption DEF AnswersInv, AnswersTyped, Questioned
<1>3. HalfInv'
  BY ServiceAssumption DEF AnswersInv, AnswersTyped, HalfInv
<1>4. ServicesInv'
  BY ServiceAssumption DEF AnswersInv, AnswersTyped, ServicesInv, Questioned
<1>5. AccessInv'
  BY ServiceAssumption, PresetAssumption DEF AnswersInv, AnswersTyped, AccessInv
<1>6. LoginInv'  BY DEF AnswersInv, LoginInv
<1>7. StorageInv'
  BY ServiceAssumption, PresetAssumption DEF AnswersInv, AnswersTyped, StorageInv
<1>8. Elsewhere  BY DEF Elsewhere
<1> QED  BY <1>2, <1>3, <1>4, <1>5, <1>6, <1>7, <1>8 DEF AnswersInv

LEMMA SaveLayoutStep == AnswersInv /\ UNCHANGED watched /\ SaveLayout => AnswersInv' /\ Elsewhere
<1> SUFFICES ASSUME AnswersInv, UNCHANGED watched, SaveLayout PROVE AnswersInv' /\ Elsewhere
  OBVIOUS
<1> USE DEF AccessPrompts, LoginPrompts, HardwarePrompts, DetailPrompts, LastPrompts,
            NasPrompts, Ends, Opened, Closed, Ask, answers, serviceVars, sshVars,
            storageVars, SaveLayout
<1>1. prompt' \in Prompts \cup Ends  BY EveryPrompt
<1>2. AnswersTyped'
  BY <1>1, ServiceAssumption, PresetAssumption DEF AnswersInv, AnswersTyped, Questioned
<1>3. HalfInv'
  BY ServiceAssumption DEF AnswersInv, AnswersTyped, HalfInv
<1>4. ServicesInv'
  BY ServiceAssumption DEF AnswersInv, AnswersTyped, ServicesInv, Questioned
<1>5. AccessInv'
  BY ServiceAssumption, PresetAssumption DEF AnswersInv, AnswersTyped, AccessInv
<1>6. LoginInv'  BY DEF AnswersInv, LoginInv
<1>7. StorageInv'
  BY ServiceAssumption, PresetAssumption DEF AnswersInv, AnswersTyped, StorageInv
<1>8. Elsewhere  BY DEF Elsewhere
<1> QED  BY <1>2, <1>3, <1>4, <1>5, <1>6, <1>7, <1>8 DEF AnswersInv

LEMMA ReviewStep == AnswersInv /\ UNCHANGED watched /\ Review => AnswersInv' /\ Elsewhere
<1> SUFFICES ASSUME AnswersInv, UNCHANGED watched, Review PROVE AnswersInv' /\ Elsewhere
  OBVIOUS
<1> USE DEF AccessPrompts, LoginPrompts, HardwarePrompts, DetailPrompts, LastPrompts,
            NasPrompts, Ends, Opened, Closed, Ask, answers, serviceVars, sshVars,
            storageVars, Review
<1>1. prompt' \in Prompts \cup Ends  BY EveryPrompt
<1>2. AnswersTyped'
  BY <1>1, ServiceAssumption, PresetAssumption DEF AnswersInv, AnswersTyped, Questioned
<1>3. HalfInv'
  BY ServiceAssumption DEF AnswersInv, AnswersTyped, HalfInv
<1>4. ServicesInv'
  BY ServiceAssumption DEF AnswersInv, AnswersTyped, ServicesInv, Questioned
<1>5. AccessInv'
  BY ServiceAssumption, PresetAssumption DEF AnswersInv, AnswersTyped, AccessInv
<1>6. LoginInv'  BY DEF AnswersInv, LoginInv
<1>7. StorageInv'
  BY ServiceAssumption, PresetAssumption DEF AnswersInv, AnswersTyped, StorageInv
<1>8. Elsewhere  BY DEF Elsewhere
<1> QED  BY <1>2, <1>3, <1>4, <1>5, <1>6, <1>7, <1>8 DEF AnswersInv

LEMMA CancelStep == AnswersInv /\ UNCHANGED watched /\ Cancel => AnswersInv' /\ Elsewhere
<1> SUFFICES ASSUME AnswersInv, UNCHANGED watched, Cancel PROVE AnswersInv' /\ Elsewhere
  OBVIOUS
<1> USE DEF AccessPrompts, LoginPrompts, HardwarePrompts, DetailPrompts, LastPrompts,
            NasPrompts, Ends, Opened, Closed, Ask, answers, serviceVars, sshVars,
            storageVars, Cancel
<1>1. prompt' \in Prompts \cup Ends  BY EveryPrompt
<1>2. AnswersTyped'
  BY <1>1, ServiceAssumption, PresetAssumption DEF AnswersInv, AnswersTyped, Questioned
<1>3. HalfInv'
  BY ServiceAssumption DEF AnswersInv, AnswersTyped, HalfInv
<1>4. ServicesInv'
  BY ServiceAssumption DEF AnswersInv, AnswersTyped, ServicesInv, Questioned
<1>5. AccessInv'
  BY ServiceAssumption, PresetAssumption DEF AnswersInv, AnswersTyped, AccessInv
<1>6. LoginInv'  BY DEF AnswersInv, LoginInv
<1>7. StorageInv'
  BY ServiceAssumption, PresetAssumption DEF AnswersInv, AnswersTyped, StorageInv
<1>8. Elsewhere  BY DEF Elsewhere
<1> QED  BY <1>2, <1>3, <1>4, <1>5, <1>6, <1>7, <1>8 DEF AnswersInv

\* The storage that goes on without the NAS is the storage that was configured.
LEMMA DisableNasStep == AnswersInv /\ UNCHANGED watched /\ DisableNas => AnswersInv' /\ Elsewhere
<1> SUFFICES ASSUME AnswersInv, UNCHANGED watched, DisableNas PROVE AnswersInv' /\ Elsewhere
  OBVIOUS
<1> USE DEF AccessPrompts, LoginPrompts, HardwarePrompts, DetailPrompts, LastPrompts,
        NasPrompts, Ends
<1>1. /\ prompt = "noDisks" /\ prompt' \in {"privileges", "refused"}
      /\ UNCHANGED <<preset, given, initialized, access, sshVars, cifsOn, half, watched>>
      /\ ForgetLayout
  BY DEF DisableNas
<1>2. \/ prompt' = "privileges" /\ enabled' = enabled \ {Nas} /\ nasOn' = FALSE /\ nasReady' = FALSE
      \/ prompt' = "refused" /\ UNCHANGED <<enabled, nasOn, nasReady>>
  BY DEF DisableNas
<1>3. /\ Nas # Cifs /\ Nas # Tailscale /\ Nas # Nginx
      /\ Nginx \in enabled => Nginx \in enabled'
      /\ Tailscale \in enabled => Tailscale \in enabled'
      /\ Cifs \in enabled <=> Cifs \in enabled'
      /\ enabled' \subseteq enabled
  BY <1>2, ServiceAssumption
<1>4. prompt' \in Prompts \cup Ends  BY <1>1, EveryPrompt
<1>5. AnswersTyped'
  BY <1>1, <1>2, <1>3, <1>4 DEF AnswersInv, AnswersTyped, sshVars
<1>6. HalfInv' /\ ServicesInv' /\ AccessInv' /\ LoginInv'
  BY <1>1, <1>3 DEF AnswersInv, HalfInv, ServicesInv, Questioned, AccessInv, LoginInv, sshVars
<1>7. StorageInv'
  <2>1. CASE prompt' = "privileges"
    BY <1>1, <1>2, <1>3, <2>1 DEF AnswersInv, StorageInv
  <2>2. CASE prompt' = "refused"
    BY <1>1, <1>2, <1>3, <2>2 DEF AnswersInv, StorageInv
  <2> QED  BY <1>1, <2>1, <2>2
<1> QED  BY <1>1, <1>5, <1>6, <1>7 DEF AnswersInv, Elsewhere

\* The answers of the first five sections hang together.
Answered ==
  /\ Questioned \subseteq given
  /\ access = "tailnet" => Tailscale \in enabled
  /\ access # "loopback" => Nginx \in enabled
  /\ keyMode # "" /\ (keyMode = "none" => passwords)
  /\ half => watched \in {"route", "shares"} /\ (watched = "shares" => Cifs \in enabled)

LEMMA AnsweredThere ==
  ASSUME AnswersInv,
         prompt \in {"gpu"} \cup DetailPrompts \cup NasPrompts \cup LastPrompts
  PROVE  Answered
<1> USE DEF AccessPrompts, LoginPrompts, HardwarePrompts, DetailPrompts, LastPrompts, NasPrompts
<1>1. Questioned \subseteq given  BY DEF AnswersInv, ServicesInv
<1>2. /\ access = "tailnet" => Tailscale \in enabled
      /\ access # "loopback" => Nginx \in enabled
  BY DEF AnswersInv, AccessInv
<1>3. keyMode # "" /\ (keyMode = "none" => passwords)  BY DEF AnswersInv, LoginInv
<1>4. half => watched \in {"route", "shares"} /\ (watched = "shares" => Cifs \in enabled)
  BY DEF AnswersInv, AnswersTyped, Answers, HalfInv
<1> QED  BY <1>1, <1>2, <1>3, <1>4 DEF Answered

\* Where the answers lead that the details are entered with.
LEMMA EnteredAnswers ==
  ASSUME AnswersInv, Answered, UNCHANGED <<serviceVars, access, sshVars, watched, nasReady>>,
         prompt' \in DetailPrompts \cup NasPrompts \cup LastPrompts,
         half' \in BOOLEAN,
         half' => watched \in {"route", "shares"} /\ (watched = "shares" => Cifs \in enabled),
         cifsOn' \in BOOLEAN, cifsOn' => Cifs \in enabled,
         nasOn' \in BOOLEAN, nasOn' => nasReady /\ Nas \in enabled,
         prompt' \in {"server", "shares", "sources"} \cup NasPrompts \cup LastPrompts =>
           (Cifs \in enabled => cifsOn') /\ (half' => watched # "route"),
         prompt' \in NasPrompts => Nas \in enabled,
         prompt' \in LastPrompts => (Nas \in enabled => nasOn'),
         prompt' \in NasPrompts \cup LastPrompts => ~half'
  PROVE  AnswersInv'
<1> USE DEF AccessPrompts, LoginPrompts, HardwarePrompts, DetailPrompts, LastPrompts,
            NasPrompts, serviceVars, sshVars
<1>1. prompt' \in Prompts \cup Ends  BY EveryPrompt
<1>2. AnswersTyped'  BY <1>1 DEF AnswersInv, AnswersTyped
<1>3. HalfInv'  BY DEF Answered, HalfInv
<1>4. ServicesInv'  BY DEF Answered, ServicesInv, Questioned
<1>5. AccessInv'  BY DEF Answered, AccessInv
<1>6. LoginInv'  BY DEF Answered, LoginInv
<1>7. StorageInv'  BY DEF StorageInv
<1> QED  BY <1>2, <1>3, <1>4, <1>5, <1>6, <1>7 DEF AnswersInv

\* The NAS section is entered with no half answer and with the shares done.
LEMMA NasEntered ==
  ASSUME InterviewInv, Answered, NEW h, h = FALSE, EnterNas(h),
         cifsOn' = cifsOn, Cifs \in enabled => cifsOn,
         UNCHANGED <<serviceVars, access, sshVars, watched>>
  PROVE  InterviewInv'
<1>1. half' = FALSE /\ nasReady' = nasReady  BY DEF EnterNas
<1>2. AnswersInv /\ NasTypeOK /\ LayoutInv  BY DEF InterviewInv
<1>3. /\ cifsOn \in BOOLEAN /\ nasOn \in BOOLEAN /\ (cifsOn => Cifs \in enabled)
      /\ nasOn => nasReady /\ Nas \in enabled
  BY <1>2 DEF AnswersInv, AnswersTyped, StorageInv
<1>4. CASE Nas \notin enabled \/ nasReady
  <2>1. /\ prompt' = "privileges" /\ UNCHANGED layoutVars
        /\ IF Nas \in enabled THEN nasOn' = TRUE ELSE nasOn' = nasOn
    BY <1>4 DEF EnterNas, Ask
  <2>2. AnswersInv'
    BY <1>1, <1>2, <1>3, <1>4, <2>1, EnteredAnswers DEF DetailPrompts, NasPrompts, LastPrompts
  <2> QED  BY <2>1, <2>2, StepElsewhere DEF NasPrompts
<1>5. CASE Nas \in enabled /\ ~nasReady
  <2>1. LookAtDisks /\ nasOn' = nasOn  BY <1>5 DEF EnterNas
  <2>2. NasTypeOK' /\ LayoutInv' /\ prompt' \in {"noDisks", "disks"}  BY <2>1, LayoutBegun
  <2>3. AnswersInv'
    BY <1>1, <1>2, <1>3, <1>5, <2>1, <2>2, EnteredAnswers
    DEF DetailPrompts, NasPrompts, LastPrompts
  <2> QED  BY <2>2, <2>3 DEF InterviewInv
<1> QED  BY <1>4, <1>5

\* The shares are asked for, or there are none and the disks follow.
LEMMA CifsEntered ==
  ASSUME InterviewInv, Answered, NEW h, h \in BOOLEAN,
         h => half /\ watched # "route", EnterCifs(h),
         UNCHANGED <<serviceVars, access, sshVars, watched>>
  PROVE  InterviewInv'
<1>1. AnswersInv /\ NasTypeOK /\ LayoutInv  BY DEF InterviewInv
<1>2. /\ cifsOn \in BOOLEAN /\ nasOn \in BOOLEAN /\ half \in BOOLEAN
      /\ (cifsOn => Cifs \in enabled)
      /\ nasOn => nasReady /\ Nas \in enabled
  BY <1>1 DEF AnswersInv, AnswersTyped, StorageInv
<1>3. CASE Cifs \notin enabled
  <2>1. h = FALSE  BY <1>3 DEF Answered
  <2>2. EnterNas(h) /\ cifsOn' = cifsOn  BY <1>3 DEF EnterCifs
  <2> QED  BY <1>3, <2>1, <2>2, NasEntered
<1>4. CASE Cifs \in enabled
  <2>1. /\ prompt' = "server" /\ UNCHANGED layoutVars
        /\ cifsOn' = TRUE /\ half' = (h \/ watched = "shares")
        /\ UNCHANGED <<nasOn, nasReady>>
    BY <1>4 DEF EnterCifs, Ask
  <2>2. AnswersInv'
    <3>1. prompt' \notin NasPrompts \cup LastPrompts  BY <2>1 DEF NasPrompts, LastPrompts
    <3>2. /\ half' \in BOOLEAN /\ (half' => watched # "route")
          /\ half' => watched \in {"route", "shares"} /\ (watched = "shares" => Cifs \in enabled)
      BY <1>2, <1>4, <2>1 DEF Answered
    <3> QED  BY <1>1, <1>2, <1>4, <2>1, <3>1, <3>2, EnteredAnswers DEF DetailPrompts
  <2> QED  BY <2>1, <2>2, StepElsewhere DEF NasPrompts
<1> QED  BY <1>3, <1>4

\* The details go on with the router, or without it.
LEMMA TailscaleEntered ==
  ASSUME InterviewInv, Answered, EnterTailscale,
         UNCHANGED <<serviceVars, access, sshVars, watched>>
  PROVE  InterviewInv'
<1>1. AnswersInv /\ NasTypeOK /\ LayoutInv  BY DEF InterviewInv
<1>2. CASE Tailscale \in enabled
  <2>1. /\ prompt' = "tailscale" /\ UNCHANGED layoutVars
        /\ UNCHANGED <<cifsOn, nasOn, nasReady, half>>
    BY <1>2 DEF EnterTailscale, Ask, storageVars
  <2>2. AnswersInv'
    <3>1. /\ cifsOn \in BOOLEAN /\ nasOn \in BOOLEAN /\ half \in BOOLEAN
          /\ (cifsOn => Cifs \in enabled)
          /\ nasOn => nasReady /\ Nas \in enabled
      BY <1>1 DEF AnswersInv, AnswersTyped, StorageInv
    <3> QED
      BY <1>1, <2>1, <3>1, EnteredAnswers DEF Answered, DetailPrompts, NasPrompts, LastPrompts
  <2> QED  BY <2>1, <2>2, StepElsewhere DEF NasPrompts
<1>3. CASE Tailscale \notin enabled
  <2>1. EnterCifs(half /\ watched # "route")  BY <1>3 DEF EnterTailscale
  <2>2. (half /\ watched # "route") \in BOOLEAN  OBVIOUS
  <2> HIDE DEF EnterCifs
  <2> QED  BY <2>1, <2>2, CifsEntered
<1> QED  BY <1>2, <1>3

\* The details begin with the addresses, or without them.
LEMMA DetailsEntered ==
  ASSUME InterviewInv, Answered, EnterDetails, UNCHANGED watched
  PROVE  InterviewInv'
<1>1. AnswersInv /\ NasTypeOK /\ LayoutInv  BY DEF InterviewInv
<1>2. UNCHANGED <<serviceVars, access, sshVars>>  BY DEF EnterDetails
<1>3. CASE Ask("externals") /\ UNCHANGED <<storageVars, half>>
  <2>1. /\ prompt' = "externals" /\ UNCHANGED layoutVars
        /\ UNCHANGED <<cifsOn, nasOn, nasReady, half>>
    BY <1>3 DEF Ask, storageVars
  <2>2. AnswersInv'
    <3>1. /\ cifsOn \in BOOLEAN /\ nasOn \in BOOLEAN /\ half \in BOOLEAN
          /\ (cifsOn => Cifs \in enabled)
          /\ nasOn => nasReady /\ Nas \in enabled
      BY <1>1 DEF AnswersInv, AnswersTyped, StorageInv
    <3> QED
      BY <1>1, <1>2, <2>1, <3>1, EnteredAnswers
      DEF Answered, DetailPrompts, NasPrompts, LastPrompts
  <2> QED  BY <2>1, <2>2, StepElsewhere DEF NasPrompts
<1>4. CASE EnterTailscale  BY <1>2, <1>4, TailscaleEntered
<1> QED  BY <1>3, <1>4 DEF EnterDetails

LEMMA GpuStep == InterviewInv /\ UNCHANGED watched /\ Gpu => InterviewInv'
BY AnsweredThere, DetailsEntered DEF Gpu, InterviewInv

LEMMA ExternalsStep == InterviewInv /\ UNCHANGED watched /\ Externals => InterviewInv'
BY AnsweredThere, TailscaleEntered DEF Externals, InterviewInv, DetailPrompts

LEMMA TailscaleRouterStep ==
  InterviewInv /\ UNCHANGED watched /\ TailscaleRouter => InterviewInv'
<1> SUFFICES ASSUME InterviewInv, UNCHANGED watched, TailscaleRouter PROVE InterviewInv'
  OBVIOUS
<1>1. AnswersInv /\ prompt \in {"tailscale", "route"}
      /\ UNCHANGED <<serviceVars, access, sshVars>>
  BY DEF InterviewInv, TailscaleRouter
<1>2. Answered  BY <1>1, AnsweredThere DEF DetailPrompts
<1>3. CASE EnterCifs(half /\ watched # "route")
  <2>1. (half /\ watched # "route") \in BOOLEAN  OBVIOUS
  <2> QED  BY <1>1, <1>2, <1>3, <2>1, CifsEntered
<1>4. CASE Ask("route") /\ Opened("route") /\ UNCHANGED storageVars
  <2>1. /\ prompt' = "route" /\ UNCHANGED layoutVars /\ half' = (half \/ watched = "route")
        /\ UNCHANGED <<cifsOn, nasOn, nasReady>>
    BY <1>4 DEF Ask, Opened, storageVars
  <2>2. AnswersInv'
    <3>1. /\ cifsOn \in BOOLEAN /\ nasOn \in BOOLEAN
          /\ (cifsOn => Cifs \in enabled)
          /\ nasOn => nasReady /\ Nas \in enabled
      BY <1>1 DEF AnswersInv, AnswersTyped, StorageInv
    <3>2. /\ half' \in BOOLEAN
          /\ half' => watched \in {"route", "shares"} /\ (watched = "shares" => Cifs \in enabled)
      BY <1>1, <1>2, <2>1 DEF Answered, AnswersInv, AnswersTyped
    <3> QED
      BY <1>1, <1>2, <2>1, <3>1, <3>2, EnteredAnswers DEF DetailPrompts, NasPrompts, LastPrompts
  <2> QED  BY <2>1, <2>2, StepElsewhere DEF NasPrompts
<1> QED  BY <1>3, <1>4 DEF TailscaleRouter

LEMMA CifsSharesStep ==
  InterviewInv /\ UNCHANGED watched /\ CifsShares => InterviewInv'
<1> SUFFICES ASSUME InterviewInv, UNCHANGED watched, CifsShares PROVE InterviewInv'
  OBVIOUS
<1>1. /\ AnswersInv /\ prompt \in {"server", "shares", "sources"}
      /\ UNCHANGED <<serviceVars, access, sshVars>>
  BY DEF InterviewInv, CifsShares
<1>2. Answered  BY <1>1, AnsweredThere DEF DetailPrompts
<1>3. /\ Cifs \in enabled => cifsOn
      /\ half => watched # "route"
      /\ cifsOn \in BOOLEAN /\ nasOn \in BOOLEAN /\ half \in BOOLEAN
      /\ (cifsOn => Cifs \in enabled)
      /\ nasOn => nasReady /\ Nas \in enabled
  BY <1>1 DEF AnswersInv, AnswersTyped, StorageInv, HalfInv
<1>4. CASE prompt = "sources"
  <2>1. (half /\ watched # "shares") = FALSE  BY <1>2, <1>3 DEF Answered
  <2>2. EnterNas(half /\ watched # "shares") /\ cifsOn' = cifsOn  BY <1>4 DEF CifsShares
  <2> QED  BY <1>1, <1>2, <1>3, <2>1, <2>2, NasEntered
<1>5. CASE prompt # "sources"
  <2>1. /\ prompt' \in {"shares", "sources"} /\ UNCHANGED layoutVars
        /\ UNCHANGED <<cifsOn, nasOn, nasReady, half>>
    BY <1>5 DEF CifsShares, Ask, storageVars
  <2>2. AnswersInv'
    BY <1>1, <1>2, <1>3, <2>1, EnteredAnswers
    DEF Answered, DetailPrompts, NasPrompts, LastPrompts
  <2> QED  BY <2>1, <2>2, StepElsewhere DEF NasPrompts
<1> QED  BY <1>4, <1>5

LEMMA AskAboutDisksStep ==
  InterviewInv /\ UNCHANGED watched /\ AskAboutDisks => InterviewInv'
<1> SUFFICES ASSUME InterviewInv, UNCHANGED watched, AskAboutDisks PROVE InterviewInv'
  OBVIOUS
<1>1. AnswersInv /\ NasTypeOK' /\ LayoutInv' /\ prompt' \in NasPrompts /\ prompt \in NasPrompts
  BY LayoutStep DEF InterviewInv, AskAboutDisks
<1>2. Answered  BY <1>1, AnsweredThere
<1>3. UNCHANGED <<serviceVars, access, sshVars, watched, nasReady, cifsOn, nasOn, half>>
  BY DEF AskAboutDisks, answers, storageVars
<1>4. /\ Cifs \in enabled => cifsOn
      /\ Nas \in enabled /\ ~half
      /\ cifsOn \in BOOLEAN /\ nasOn \in BOOLEAN
      /\ (cifsOn => Cifs \in enabled)
      /\ nasOn => nasReady /\ Nas \in enabled
  <2>1. Nas \in enabled /\ (Cifs \in enabled => cifsOn)
        /\ cifsOn \in BOOLEAN /\ nasOn \in BOOLEAN
        /\ (cifsOn => Cifs \in enabled)
        /\ (nasOn => nasReady /\ Nas \in enabled)
    BY <1>1 DEF AnswersInv, AnswersTyped, StorageInv
  <2>2. ~half
    BY <1>1 DEF AnswersInv, AnswersTyped, HalfInv, Answers
  <2> QED  BY <2>1, <2>2
<1>5. AnswersInv'
  <2>1. prompt' \notin {"server", "shares", "sources"} \cup LastPrompts
    BY <1>1 DEF NasPrompts, LastPrompts
  <2>2. half' = FALSE  BY <1>1, <1>3, <1>4 DEF AnswersInv, AnswersTyped
  <2> QED  BY <1>1, <1>2, <1>3, <1>4, <2>1, <2>2, EnteredAnswers
<1> QED  BY <1>1, <1>5 DEF InterviewInv

LEMMA PrivilegesStep ==
  InterviewInv /\ UNCHANGED watched /\ Privileges => InterviewInv'
<1> SUFFICES ASSUME InterviewInv, UNCHANGED watched, Privileges PROVE InterviewInv'
  OBVIOUS
<1>1. /\ prompt = "privileges" /\ prompt' = "review" /\ UNCHANGED layoutVars
      /\ UNCHANGED <<serviceVars, access, sshVars, cifsOn, nasOn, nasReady, half>>
  BY DEF Privileges, Ask, answers, storageVars
<1>2. AnswersInv'
  <2>1. AnswersInv /\ Answered  BY <1>1, AnsweredThere DEF InterviewInv, LastPrompts
  <2>2. /\ Cifs \in enabled => cifsOn
        /\ Nas \in enabled => nasOn
        /\ cifsOn \in BOOLEAN /\ nasOn \in BOOLEAN /\ half \in BOOLEAN
        /\ (cifsOn => Cifs \in enabled)
        /\ (nasOn => nasReady /\ Nas \in enabled)
    BY <1>1, <2>1 DEF AnswersInv, AnswersTyped, StorageInv, LastPrompts
  <2>3. ~half
    BY <1>1, <2>1 DEF AnswersInv, AnswersTyped, HalfInv, Answers, LastPrompts
  <2>4. half' = FALSE  BY <1>1, <2>2, <2>3
  <2>5. prompt' \notin {"server", "shares", "sources"} \cup NasPrompts
    BY <1>1 DEF NasPrompts
  <2> QED
    BY <1>1, <2>1, <2>2, <2>4, <2>5, EnteredAnswers DEF LastPrompts
<1> QED  BY <1>1, <1>2, StepElsewhere DEF NasPrompts

LEMMA BackStep == InterviewInv /\ UNCHANGED watched /\ Back => InterviewInv'
<1> SUFFICES ASSUME InterviewInv, UNCHANGED watched, Back PROVE InterviewInv'
  OBVIOUS
<1>1. CASE prompt = "privileges" /\ EnterDetails
  <2>1. Answered  BY <1>1, AnsweredThere DEF InterviewInv, LastPrompts
  <2> QED  BY <1>1, <2>1, DetailsEntered
<1>2. ASSUME NEW i \in 2..6, prompt \in Section[i],
             prompt' = CASE i = 2 -> "identity"  [] i = 3 -> "preset"
                         [] i = 4 -> "infrastructure"
                         [] i = 5 -> "addresses" [] i = 6 -> "boot",
             ForgetLayout, UNCHANGED answers
      PROVE  InterviewInv'
  <2> USE DEF AccessPrompts, LoginPrompts, HardwarePrompts, DetailPrompts, LastPrompts, NasPrompts
  <2>1. /\ UNCHANGED <<enabled, preset, given, initialized, access, keyMode, passwords>>
        /\ UNCHANGED <<cifsOn, nasOn, nasReady, half, watched>>
    BY <1>2 DEF answers, serviceVars, sshVars, storageVars
  <2>2. AnswersInv  BY DEF InterviewInv
  <2>3. prompt' \in {"identity", "preset", "infrastructure", "addresses", "boot"}
    BY <1>2
  <2>4. prompt' \in Prompts \cup Ends  BY <2>3, EveryPrompt
  <2>5. AnswersTyped'  BY <2>1, <2>2, <2>4 DEF AnswersInv, AnswersTyped
  <2>6. StorageInv'  BY <2>1, <2>2, <2>3 DEF AnswersInv, StorageInv
  <2>7. CASE i = 2
    <3>1. prompt' = "identity"  BY <1>2, <2>7
    <3>2. HalfInv'  BY <2>1, <2>2, <3>1 DEF AnswersInv, HalfInv
    <3>3. ServicesInv' /\ AccessInv' /\ LoginInv'
      BY <3>1 DEF ServicesInv, AccessInv, LoginInv
    <3>4. AnswersInv'  BY <2>5, <2>6, <3>2, <3>3 DEF AnswersInv
    <3> QED  BY <1>2, <3>1, <3>4, StepElsewhere
  <2>8. CASE i = 3
    <3>1. prompt' = "preset"  BY <1>2, <2>8
    <3>2. HalfInv'  BY <2>1, <2>2, <3>1 DEF AnswersInv, HalfInv
    <3>3. ServicesInv' /\ AccessInv' /\ LoginInv'
      BY <3>1 DEF ServicesInv, AccessInv, LoginInv
    <3>4. AnswersInv'  BY <2>5, <2>6, <3>2, <3>3 DEF AnswersInv
    <3> QED  BY <1>2, <3>1, <3>4, StepElsewhere
  <2>9. CASE i = 4
    <3>1. prompt' = "infrastructure" /\ prompt \in AccessPrompts \cup LoginPrompts
      BY <1>2, <2>9, Sections
    <3>2. ServicesInv'  BY <2>1, <2>2, <3>1 DEF AnswersInv, ServicesInv, Questioned
    <3> QED
      BY <1>2, <2>1, <2>2, <2>5, <2>6, <3>1, <3>2, StepElsewhere
      DEF AnswersInv, HalfInv, AccessInv, LoginInv
  <2>10. CASE i = 5
    <3>1. prompt' = "addresses" /\ prompt \in HardwarePrompts
      BY <1>2, <2>10, Sections
    <3>2. ServicesInv'  BY <2>1, <2>2, <3>1 DEF AnswersInv, ServicesInv, Questioned
    <3> QED
      BY <1>2, <2>1, <2>2, <2>5, <2>6, <3>1, <3>2, StepElsewhere
      DEF AnswersInv, HalfInv, AccessInv, LoginInv
  <2>11. CASE i = 6
    <3>1. prompt' = "boot" /\ prompt \in DetailPrompts \cup NasPrompts
      BY <1>2, <2>11, Sections
    <3>2. Answered  BY <2>2, <3>1, AnsweredThere
    <3>3. ServicesInv' /\ AccessInv' /\ LoginInv' /\ HalfInv'
      BY <2>1, <3>1, <3>2 DEF Answered, ServicesInv, AccessInv, LoginInv, HalfInv, Questioned
    <3> QED
      BY <1>2, <2>5, <2>6, <3>1, <3>3, StepElsewhere DEF AnswersInv
  <2> QED  BY <2>7, <2>8, <2>9, <2>10, <2>11
<1> QED  BY <1>1, <1>2 DEF Back

\* Every step of the interview, forwards or backwards, keeps the answers consistent.
LEMMA InterviewStep == InterviewInv /\ [WizardNext]_wizardVars => InterviewInv'
<1> SUFFICES ASSUME InterviewInv, [WizardNext]_wizardVars PROVE InterviewInv'  OBVIOUS
<1>1. CASE UNCHANGED wizardVars
  <2>1. UNCHANGED <<prompt, layoutVars, enabled, preset, given, initialized, access>>
    BY <1>1 DEF wizardVars, nasVars, answers, serviceVars
  <2>2. UNCHANGED <<keyMode, passwords, cifsOn, nasOn, nasReady, half, watched>>
    BY <1>1 DEF wizardVars, answers, sshVars, storageVars
  <2>3. NasTypeOK' /\ LayoutInv'
    BY <2>1 DEF InterviewInv, layoutVars, NasTypeOK, LayoutInv, Placed, Data
  <2>4. AnswersTyped'
    BY <2>1, <2>2 DEF InterviewInv, AnswersInv, AnswersTyped
  <2>6. HalfInv'
    BY <2>1, <2>2 DEF InterviewInv, AnswersInv, HalfInv
  <2>5. ServicesInv' /\ AccessInv' /\ LoginInv' /\ StorageInv'
    BY <2>1, <2>2
    DEF InterviewInv, AnswersInv, ServicesInv, Questioned, AccessInv, LoginInv, StorageInv
  <2> QED  BY <2>3, <2>4, <2>5, <2>6 DEF InterviewInv, AnswersInv
<1>2. CASE UNCHANGED watched /\ WizardNext
  <2> USE <1>2, StepElsewhere DEF InterviewInv, Elsewhere
  <2>1. CASE Identity  BY <2>1, IdentityStep
  <2>2. CASE ChoosePreset  BY <2>2, ChoosePresetStep
  <2>3. CASE ModifyServices  BY <2>3, ModifyServicesStep
  <2>4. CASE Checklists  BY <2>4, ChecklistsStep
  <2>5. CASE Inputs  BY <2>5, InputsStep
  <2>6. CASE Infrastructure  BY <2>6, InfrastructureStep
  <2>7. CASE Addresses  BY <2>7, AddressesStep
  <2>8. CASE Access  BY <2>8, AccessStep
  <2>9. CASE Public  BY <2>9, PublicStep
  <2>10. CASE Lan  BY <2>10, LanStep
  <2>11. CASE Ssh  BY <2>11, SshStep
  <2>12. CASE KeyMode  BY <2>12, KeyModeStep
  <2>13. CASE Key  BY <2>13, KeyStep
  <2>14. CASE Password  BY <2>14, PasswordStep
  <2>15. CASE RootLogin  BY <2>15, RootLoginStep
  <2>16. CASE Boot  BY <2>16, BootStep
  <2>17. CASE Grub  BY <2>17, GrubStep
  <2>18. CASE Hardware  BY <2>18, HardwareStep
  <2>19. CASE Gpu  BY <2>19, GpuStep
  <2>20. CASE Externals  BY <2>20, ExternalsStep
  <2>21. CASE TailscaleRouter  BY <2>21, TailscaleRouterStep
  <2>22. CASE CifsShares  BY <2>22, CifsSharesStep
  <2>23. CASE AskAboutDisks  BY <2>23, AskAboutDisksStep
  <2>24. CASE SaveLayout  BY <2>24, SaveLayoutStep
  <2>25. CASE DisableNas  BY <2>25, DisableNasStep
  <2>26. CASE Privileges  BY <2>26, PrivilegesStep
  <2>27. CASE Review  BY <2>27, ReviewStep
  <2>28. CASE Back  BY <2>28, BackStep
  <2>29. CASE Cancel  BY <2>29, CancelStep
  <2> QED
    BY <2>1, <2>2, <2>3, <2>4, <2>5, <2>6, <2>7, <2>8, <2>9, <2>10, <2>11, <2>12, <2>13,
       <2>14, <2>15, <2>16, <2>17, <2>18, <2>19, <2>20, <2>21, <2>22, <2>23, <2>24, <2>25,
       <2>26, <2>27, <2>28, <2>29 DEF WizardNext
<1> QED  BY <1>1, <1>2 DEF WizardNext

\* An interview that has nothing answered yet.
LEMMA InterviewBegins ==
  /\ WizardInit => InterviewInv
  /\ ForgetAnswers => InterviewInv'
<1> USE EveryPrompt, PresetAssumption
    DEF InterviewInv, AnswersInv, AnswersTyped, Answers, NasTypeOK, NoMounts, LayoutInv, Placed,
        HalfInv, ServicesInv, AccessInv, LoginInv, StorageInv, AccessPrompts, LoginPrompts,
        HardwarePrompts, DetailPrompts, NasPrompts, LastPrompts
<1>1. WizardInit => InterviewInv  BY DEF WizardInit, NoAnswers, NasInit
<1>2. ForgetAnswers => InterviewInv'  BY DEF ForgetAnswers, ForgetLayout
<1> QED  BY <1>1, <1>2

\* The interviews of every attempt.
InterviewedInv ==
  InterviewInv /\ host.mode \in {"provided", "generated", "none"}

LEMMA InterviewedInit == SetupInit => InterviewedInv
<1> SUFFICES ASSUME SetupInit PROVE InterviewedInv  OBVIOUS
<1>1. InterviewInv  BY InterviewBegins DEF SetupInit
<1>2. host.mode = "none"  BY DEF SetupInit, NoHost
<1> QED  BY <1>1, <1>2 DEF InterviewedInv

LEMMA InterviewedStep == TypedInv /\ InterviewedInv /\ [SetupNext]_vars => InterviewedInv'
<1> SUFFICES ASSUME TypedInv, InterviewedInv, [SetupNext]_vars PROVE InterviewedInv'
  OBVIOUS
<1>1. InterviewInv /\ host.mode \in {"provided", "generated", "none"}
  BY DEF InterviewedInv
<1>2. host \in [mode : {host.mode}, key : {Free} \cup Attempts,
                created : BOOLEAN, rejected : BOOLEAN, switched : BOOLEAN]
  BY DEF TypedInv, AttemptTyped
<1>3. CASE Interview
  <2>1. host' = host  BY <1>3 DEF Interview, setupVars
  <2> QED  BY <1>1, <1>3, <2>1, InterviewStep DEF Interview, InterviewedInv
<1>4. CASE FirstInterviewEnds
  <2>1. InterviewInv'  BY <1>4, InterviewBegins DEF FirstInterviewEnds
  <2>2. prompt = "applied" => keyMode \in {"provided", "generated", "none"}
    BY <1>1 DEF InterviewInv, AnswersInv, AnswersTyped, LoginInv, LastPrompts
  <2>3. host' = host \/ (prompt = "applied" /\ host' = [host EXCEPT !.mode = keyMode])
    BY <1>4 DEF FirstInterviewEnds, Interviewed
  <2> QED  BY <1>1, <1>2, <2>1, <2>2, <2>3 DEF InterviewedInv
<1>5. CASE ~(Interview \/ FirstInterviewEnds)
  <2>1. UNCHANGED wizardVars
    BY <1>5 DEF SetupNext, vars, Start, LaterInterview, FindKey, WritePrivate, WritePublic,
       Stage, Place, StagingFails, PrepareSecrets, Healthcheck, ContinueAnyway, Decline,
       PreviousAtHealthcheck, GenerateOnly, Switch, SetPassword, Interrupt, ForeignAppears, Clean
  <2>2. InterviewInv'  BY <1>1, <2>1, InterviewStep
  <2>3. host'.mode \in {"provided", "generated", "none"}
    <3> USE <1>1, <1>2
    <3>1. CASE Start
      <4>1. host' = NoHost  BY <3>1 DEF Start
      <4> QED  BY <4>1 DEF NoHost
    <3>7. CASE LaterInterview
      <4>1. \/ \E mode \in {"provided", "generated", "none"} :
                 host' = [host EXCEPT !.mode = mode]
            \/ host' = host
        BY <3>7 DEF LaterInterview, Interviewed
      <4> QED  BY <4>1
    <3>2. CASE FindKey \/ WritePrivate \/ WritePublic
      BY <3>2 DEF FindKey, WritePrivate, WritePublic
    <3>3. CASE Stage \/ Place \/ StagingFails \/ PrepareSecrets
      BY <3>3 DEF Stage, Place, StagingFails, PrepareSecrets
    <3>4. CASE Healthcheck \/ ContinueAnyway \/ Decline \/ PreviousAtHealthcheck
      BY <3>4 DEF Healthcheck, ContinueAnyway, Decline, PreviousAtHealthcheck
    <3>5. CASE GenerateOnly \/ Switch \/ SetPassword \/ Interrupt
      BY <3>5 DEF GenerateOnly, Switch, SetPassword, Interrupt
    <3>6. CASE ForeignAppears \/ Clean \/ UNCHANGED vars
      BY <3>6 DEF ForeignAppears, Clean, vars, setupVars
    <3> QED  BY <1>5, <3>1, <3>2, <3>3, <3>4, <3>5, <3>6, <3>7 DEF SetupNext
  <2> QED  BY <2>2, <2>3 DEF InterviewedInv
<1> QED  BY <1>3, <1>4, <1>5

LEMMA AlwaysInterviewed == SetupSpec => [](TypedInv /\ InterviewedInv)
<1>1. TypedInv /\ InterviewedInv /\ [SetupNext]_vars => (TypedInv /\ InterviewedInv)'
  BY TypedStep, InterviewedStep
<1> QED  BY <1>1, TypedInit, InterviewedInit, PTL DEF SetupSpec

\* The state of the interview and of the attempts is always typed.
THEOREM SetupAlwaysTyped == SetupSpec => []SetupTypeOK
<1>1. TypedInv /\ InterviewedInv => SetupTypeOK
  <2> SUFFICES ASSUME TypedInv, InterviewedInv PROVE SetupTypeOK  OBVIOUS
  <2>1. WizardTypeOK
    BY DEF InterviewedInv, InterviewInv, AnswersInv, AnswersTyped, WizardTypeOK
  <2>2. host \in [mode : {"provided", "generated", "none"}, key : {Free} \cup Attempts,
                  created : BOOLEAN, rejected : BOOLEAN, switched : BOOLEAN]
    BY DEF TypedInv, AttemptTyped, InterviewedInv
  <2> QED  BY <2>1, <2>2 DEF TypedInv, AttemptTyped, SetupTypeOK
<1> QED  BY <1>1, AlwaysInterviewed, PTL

\* What is reviewed hangs together, however the operator went back and forth
\* (wizard.py, run_wizard): the invariant says of every question what the
\* sections before it have established.
THEOREM ReviewAlwaysConsistent == SetupSpec => []ReviewIsConsistent
<1>1. InterviewedInv => ReviewIsConsistent
  <2> SUFFICES ASSUME AnswersInv, prompt = "review"
               PROVE  /\ ~half
                      /\ access = "tailnet" => Tailscale \in enabled
                      /\ access # "loopback" => Nginx \in enabled
                      /\ keyMode # "" /\ (keyMode = "none" => passwords)
                      /\ Questioned \subseteq given
                      /\ nasOn => nasReady
    BY DEF InterviewedInv, InterviewInv, ReviewIsConsistent
  <2>1. Answered  BY AnsweredThere DEF LastPrompts
  <2>2. ~half  BY DEF AnswersInv, AnswersTyped, Answers, HalfInv, LastPrompts
  <2>3. nasOn => nasReady  BY DEF AnswersInv, StorageInv
  <2> QED  BY <2>1, <2>2, <2>3 DEF Answered
<1> QED  BY <1>1, AlwaysInterviewed, PTL

\* Preset, overrides and the storage sections together give the services that
\* were chosen (render_service_overrides and render_host in render.py).
THEOREM GeneratedAlwaysMatches == SetupSpec => []GeneratedMatchesChoice
<1>1. InterviewedInv => GeneratedMatchesChoice
  <2> SUFFICES ASSUME AnswersInv, prompt = "review"
               PROVE  HostServices \ {Tailscale} = enabled \ {Tailscale}
    BY DEF InterviewedInv, InterviewInv, GeneratedMatchesChoice
  <2>1. (nasOn <=> Nas \in enabled) /\ (cifsOn <=> Cifs \in enabled)
    BY DEF AnswersInv, AnswersTyped, StorageInv, LastPrompts
  <2>2. enabled \subseteq Services /\ Defaults \subseteq Controlled
    BY PresetAssumption DEF AnswersInv, AnswersTyped, Defaults
  <2>3. /\ Cifs \in Services /\ Nas \in Services
        /\ Cifs \notin Controlled /\ Nas \notin Controlled /\ Controlled \subseteq Services
    BY ServiceAssumption
  <2>4. \A s : s # Tailscale => (s \in HostServices <=> s \in enabled)
    <3> TAKE s
    <3> HAVE s # Tailscale
    <3>1. CASE s = Cifs \/ s = Nas
      BY <2>1, <2>2, <2>3, <3>1
      DEF HostServices, Overrides, Rendered, CifsSection, NasSection, TailscaleSection
    <3>2. CASE s # Cifs /\ s # Nas
      BY <2>2, <2>3, <3>2
      DEF HostServices, Overrides, Rendered, CifsSection, NasSection, TailscaleSection
    <3> QED  BY <3>1, <3>2
  <2> QED  BY <2>4
<1> QED  BY <1>1, AlwaysInterviewed, PTL

\* However often the NAS questions started again, the layout that is offered
\* mounts every data disk, and nothing twice (configure_nas in features/nas.py).
THEOREM LayoutAlwaysSound == SetupSpec => []LayoutIsSound
<1>1. InterviewedInv => LayoutIsSound
  BY DEF InterviewedInv, InterviewInv, LayoutInv, LayoutIsSound
<1> QED  BY <1>1, AlwaysInterviewed, PTL
=============================================================================
