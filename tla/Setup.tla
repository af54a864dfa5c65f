-------------------------------- MODULE Setup --------------------------------
(***************************************************************************)
(* nixstead setup as a whole (setup/app.py): attempts to create one host,  *)
(* one after the other.  An attempt interviews the operator, materializes  *)
(* the SSH key, assembles the host in a staging directory, renames it into *)
(* place, prepares secrets, checks, switches and sets a password.  It may  *)
(* fail, be cancelled, or be interrupted (KeyboardInterrupt or a crash) at *)
(* any point, and what it leaves on disk is what the next one finds.       *)
(*                                                                         *)
(* The first interview is SetupWizard, question by question; in a retry    *)
(* only its result is chosen.  --generate-only, --skip-healthcheck and     *)
(* whether the user is new are choices made where the code looks at them.  *)
(***************************************************************************)
EXTENDS SetupWizard

CONSTANTS
  MaxAttempts,  \* bounds the attempts
  Free,         \* nothing is there
  Vacant,       \* someone else's directory, empty, and
  Foreign,      \*   one that is not
  Torn          \* a file that was cut off

ASSUME AttemptAssumption ==
  /\ MaxAttempts \in Nat \ {0}
  /\ {Free, Vacant, Foreign, Torn} \cap Nat = {}
  /\ Free \notin {Vacant, Foreign, Torn} /\ Vacant # Foreign

VARIABLES
  step,     \* where the attempt is; "idle" between two attempts
  attempt,  \* number of the attempt
  host,     \* its HostConfig, see NoHost
  ending,   \* how the last attempt ended
  private,  \* the private key file, and
  public,   \*   the .pub file beside it
  dest,     \* hosts/<name>, or the standalone output directory
  staging,  \* attempts whose staging directory exists
  recovery, \* attempts whose host is in a .setup-recovery directory
  keyOf,    \* the generated key that the host of an attempt authorizes
  system    \* the attempt whose configuration is active

keyFiles == <<private, public>>
trees == <<dest, staging, recovery, keyOf>>
setupVars == <<step, attempt, host, ending, keyFiles, trees, system>>
vars == <<wizardVars, setupVars>>

Attempts == 1..MaxAttempts

\* mode: key_mode; key: the generated key, if any; created: new_host_directory
\* is set; rejected: the healthcheck failed and nobody said to go on; switched:
\* nixos-rebuild returned without an error.
NoHost == [mode |-> "none", key |-> Free,
           created |-> FALSE, rejected |-> FALSE, switched |-> FALSE]

Steps == {"idle", "wizard", "key", "public", "write", "staged", "secrets",
          "check", "ask", "switch", "password"}

\* unhandled: by an exception that nothing in run_application catches.
Endings == {"", "done", "cancelled", "failed", "unhandled", "interrupted"}

SetupTypeOK ==
  /\ WizardTypeOK
  /\ step \in Steps /\ attempt \in 0..MaxAttempts /\ ending \in Endings
  /\ host \in [mode : {"provided", "generated", "none"}, key : {Free} \cup Attempts,
               created : BOOLEAN, rejected : BOOLEAN, switched : BOOLEAN]
  /\ private \in {Free, Torn} \cup Attempts /\ public \in {Free, Torn} \cup Attempts
  /\ dest \in {Free, Vacant, Foreign} \cup Attempts
  /\ staging \subseteq Attempts /\ recovery \subseteq Attempts
  /\ keyOf \in [Attempts -> {Free} \cup Attempts]
  /\ system \in {Free} \cup Attempts

SetupInit ==
  /\ WizardInit
  /\ step = "idle" /\ attempt = 0 /\ host = NoHost /\ ending = ""
  /\ private = Free /\ public = Free
  /\ dest = Free /\ staging = {} /\ recovery = {}
  /\ keyOf = [a \in Attempts |-> Free] /\ system = Free

-----------------------------------------------------------------------------
(* How an attempt ends. *)

End(how) == step' = "idle" /\ ending' = how
Go(next) == step' = next /\ UNCHANGED ending

\* Faulty: whatever is at the host's place is moved.
PreserveRecovery_Any ==
  /\ dest' = Free
  /\ recovery' = recovery \cup ({dest} \cap Attempts)

\* preserve_recovery: the host this attempt created is moved out of the way.
\* Before there is one, the rename fails instead, and nothing moves.
PreserveRecovery ==
  IF host.created
    THEN dest' = Free /\ recovery' = recovery \cup {attempt}
    ELSE UNCHANGED <<dest, recovery>>

-----------------------------------------------------------------------------
(* The interview. *)

\* A destination that is taken ends a standalone attempt before the interview;
\* the interview of a repository host does not accept its name.
Start ==
  /\ step = "idle" /\ attempt < MaxAttempts
  /\ attempt' = attempt + 1
  /\ host' = NoHost
  /\ IF dest = Free THEN step' = "wizard" /\ ending' = "" ELSE End("failed")
  /\ UNCHANGED <<wizardVars, keyFiles, trees, system>>

\* The first interview, question by question.
Interview ==
  /\ step = "wizard" /\ attempt = 1
  /\ WizardNext
  /\ UNCHANGED setupVars

Interviewed(mode) ==
  /\ host' = [host EXCEPT !.mode = mode]
  /\ Go("key")
  /\ UNCHANGED <<attempt, keyFiles, trees, system>>

\* What the first interview leaves behind is its HostConfig.
FirstInterviewEnds ==
  /\ step = "wizard" /\ attempt = 1
  /\ \/ prompt = "applied" /\ Interviewed(keyMode)
     \/ /\ prompt = "cancelled" /\ End("cancelled")
        /\ UNCHANGED <<attempt, host, keyFiles, trees, system>>
     \/ /\ prompt = "refused" /\ End("failed")
        /\ UNCHANGED <<attempt, host, keyFiles, trees, system>>
  /\ ForgetAnswers

LaterInterview ==
  /\ step = "wizard" /\ attempt > 1
  /\ \/ \E mode \in {"provided", "generated", "none"} : Interviewed(mode)
     \/ End("cancelled") /\ UNCHANGED <<attempt, host, keyFiles, trees, system>>
  /\ UNCHANGED wizardVars

-----------------------------------------------------------------------------
(* materialize: the SSH key. *)

\* Only a generated key needs files.  A pair that is there already is adopted
\* when its public half is a key, and refused otherwise.
FindKey ==
  /\ step = "key"
  /\ \/ host.mode # "generated" /\ Go("write") /\ UNCHANGED host
     \/ /\ host.mode = "generated" /\ public \in Attempts
        /\ host' = [host EXCEPT !.key = public]
        /\ Go("write")
     \/ /\ host.mode = "generated" /\ public \notin Attempts
        /\ private # Free \/ public # Free
        /\ End("failed") /\ UNCHANGED host
  /\ UNCHANGED <<wizardVars, attempt, keyFiles, trees, system>>

\* Faulty: a pair that is there already is written over.
WritePrivate_Overwrites ==
  /\ step = "key" /\ host.mode = "generated"
  /\ \/ private' = attempt /\ Go("public")
     \/ private' \in {Free, Torn} /\ \E how \in {"failed", "interrupted"} : End(how)
  /\ UNCHANGED <<wizardVars, attempt, host, public, trees, system>>

\* ssh-keygen works in a temporary directory; the private half is put in place
\* first.  It may fail before, or leave a part of the file.
WritePrivate ==
  /\ step = "key" /\ host.mode = "generated"
  /\ private = Free /\ public = Free
  /\ \/ private' = attempt /\ Go("public")
     \/ private' \in {Free, Torn} /\ \E how \in {"failed", "interrupted"} : End(how)
  /\ UNCHANGED <<wizardVars, attempt, host, public, trees, system>>

WritePublic ==
  /\ step = "public"
  /\ \/ /\ public' = attempt
        /\ host' = [host EXCEPT !.key = attempt]
        /\ Go("write")
     \/ /\ public' \in {Free, Torn} /\ UNCHANGED host
        /\ \E how \in {"failed", "interrupted"} : End(how)
  /\ UNCHANGED <<wizardVars, attempt, private, trees, system>>

-----------------------------------------------------------------------------
(* write_host and write_consumer_flake, offer_secrets. *)

Stage ==
  /\ step = "write"
  /\ IF dest = Free
       THEN staging' = staging \cup {attempt} /\ Go("staged") /\ UNCHANGED <<dest, recovery>>
       ELSE UNCHANGED staging /\ End("failed") /\ PreserveRecovery
  /\ UNCHANGED <<wizardVars, attempt, host, keyFiles, keyOf, system>>

\* The staging directory is renamed, onto nothing or onto a directory that has
\* appeared since and is empty, which the rename replaces.
Place ==
  /\ step = "staged" /\ dest \in {Free, Vacant}
  /\ staging' = staging \ {attempt}
  /\ dest' = attempt
  /\ keyOf' = [keyOf EXCEPT ![attempt] = host.key]
  /\ host' = [host EXCEPT !.created = TRUE]
  /\ Go("secrets")
  /\ UNCHANGED <<wizardVars, attempt, keyFiles, recovery, system>>

\* Rendering, the hardware configuration, the lock file or the rename fails;
\* onto a directory with something in it the rename can only fail.
StagingFails ==
  /\ step = "staged"
  /\ staging' = staging \ {attempt}
  /\ End("failed") /\ PreserveRecovery
  /\ UNCHANGED <<wizardVars, attempt, host, keyFiles, keyOf, system>>

\* Cancelled, raised by the question about missing secrets, is an Exception.
PrepareSecrets ==
  /\ step = "secrets"
  /\ \/ Go("check") /\ UNCHANGED <<dest, recovery>>
     \/ \E how \in {"failed", "cancelled"} : End(how) /\ PreserveRecovery
  /\ UNCHANGED <<wizardVars, attempt, host, keyFiles, staging, keyOf, system>>

-----------------------------------------------------------------------------
(* The healthcheck, the switch and the password. *)

\* It passes (or is skipped), fails, or cannot be run: what that raises is not
\* in any try, and the host stays where it is.
Healthcheck ==
  /\ step = "check"
  /\ \/ Go("switch") /\ UNCHANGED host
     \/ Go("ask") /\ host' = [host EXCEPT !.rejected = TRUE]
     \/ End("unhandled") /\ UNCHANGED host
  /\ UNCHANGED <<wizardVars, attempt, keyFiles, trees, system>>

ContinueAnyway ==
  /\ step = "ask"
  /\ Go("switch") /\ host' = [host EXCEPT !.rejected = FALSE]
  /\ UNCHANGED <<wizardVars, attempt, keyFiles, trees, system>>

\* Faulty: cancelling the question leaves the host in place.
Decline_Stays ==
  /\ step = "ask"
  /\ \/ End("failed") /\ PreserveRecovery
     \/ End("cancelled") /\ UNCHANGED <<dest, recovery>>
  /\ UNCHANGED <<wizardVars, attempt, host, keyFiles, staging, keyOf, system>>

Decline ==
  /\ step = "ask"
  /\ \E how \in {"failed", "cancelled"} : End(how) /\ PreserveRecovery
  /\ UNCHANGED <<wizardVars, attempt, host, keyFiles, staging, keyOf, system>>

\* section_previous_allowed is still what the interview left, so the question
\* has a Previous button; nothing catches the SectionBack it raises.
PreviousAtHealthcheck ==
  /\ step = "ask"
  /\ End("unhandled")
  /\ UNCHANGED <<wizardVars, attempt, host, keyFiles, trees, system>>

GenerateOnly ==
  /\ step = "switch"
  /\ End("done")
  /\ UNCHANGED <<wizardVars, attempt, host, keyFiles, trees, system>>

\* nixos-rebuild may report an error after it has activated the configuration.
Switch ==
  /\ step = "switch"
  /\ \/ /\ system' = attempt
        /\ host' = [host EXCEPT !.switched = TRUE]
        /\ Go("password") /\ UNCHANGED <<dest, recovery>>
     \/ /\ system' \in {system, attempt}
        /\ End("failed") /\ PreserveRecovery /\ UNCHANGED host
  /\ UNCHANGED <<wizardVars, attempt, keyFiles, staging, keyOf>>

\* Nothing to do for a user that existed; otherwise passwd may fail, and the
\* question before it, asked when there is a key, may be left by any way.
SetPassword ==
  /\ step = "password"
  /\ \/ \E how \in {"done", "failed"} : End(how)
     \/ host.mode # "none" /\ \E how \in {"cancelled", "unhandled"} : End(how)
  /\ UNCHANGED <<wizardVars, attempt, host, keyFiles, trees, system>>

-----------------------------------------------------------------------------
(* What else happens: an interruption, someone else, the operator's cleaning. *)

\* nixos-rebuild may have activated the configuration by then.
Interrupt ==
  /\ step \notin {"idle", "wizard"}
  /\ system' \in (IF step = "switch" THEN {system, attempt} ELSE {system})
  /\ End("interrupted")
  /\ UNCHANGED <<wizardVars, attempt, host, keyFiles, trees>>

ForeignAppears ==
  /\ step \in {"write", "staged"} /\ dest \in {Free, Vacant}
  /\ dest' \in {Vacant, Foreign} \ {dest}
  /\ UNCHANGED <<wizardVars, step, attempt, host, ending, keyFiles, staging,
                 recovery, keyOf, system>>

\* A host that an interrupted attempt left, or a pair of files that setup
\* refuses, is removed before the next attempt.
Clean ==
  /\ step = "idle"
  /\ \/ dest \in Attempts \ {system} /\ dest' = Free /\ UNCHANGED keyFiles
     \/ /\ public \notin Attempts /\ UNCHANGED dest
        /\ private' = Free /\ public' = Free
  /\ UNCHANGED <<wizardVars, step, attempt, host, ending, staging, recovery,
                 keyOf, system>>

SetupNext ==
  \/ Start \/ Interview \/ FirstInterviewEnds \/ LaterInterview
  \/ FindKey \/ WritePrivate \/ WritePublic
  \/ Stage \/ Place \/ StagingFails \/ PrepareSecrets
  \/ Healthcheck \/ ContinueAnyway \/ Decline \/ PreviousAtHealthcheck
  \/ GenerateOnly \/ Switch \/ SetPassword
  \/ Interrupt \/ ForeignAppears \/ Clean

SetupSpec == SetupInit /\ [][SetupNext]_vars

-----------------------------------------------------------------------------
(* Properties *)

\* Whatever was interrupted and tried again, the generated key that a host
\* authorizes, in its place, in recovery or active, is the one whose private
\* half is on disk: nobody is locked out of it.
KeysMatch ==
  \A a \in Attempts \cap ({dest, system} \cup recovery) :
    keyOf[a] # Free => private = keyOf[a] /\ public = keyOf[a]

\* docs/setup-wizard.md, "Recovery behavior": an attempt that fails or is
\* cancelled leaves the destination free of its host, which is in recovery once
\* it was created, and no staging directory; only when nixos-rebuild returned
\* without an error does the host stay.  (A switch that activates the host and
\* then reports an error moves the active host, too.  What run_application does
\* not catch, from the healthcheck or Previous at its question, is no such end:
\* it leaves the host in place.)  And wherever attempts ended, however they were
\* interrupted and cleaned up after, the host that is active is on disk: in its
\* place or in recovery.
HostIsWhereItBelongs ==
  /\ step = "idle" /\ ending \in {"failed", "cancelled"} =>
       IF host.switched THEN dest = attempt
       ELSE /\ dest # attempt /\ attempt \notin staging
            /\ host.created => attempt \in recovery
  /\ system \in Attempts => system \in {dest} \cup recovery

\* What someone else puts at the destination while an attempt is under way is
\* never moved away, and replaced only as long as it is an empty directory, by
\* the host that is renamed onto it.
ForeignIsKept ==
  [][/\ dest = Foreign => dest' = Foreign
     /\ dest = Vacant => dest' \in {Vacant, Foreign, attempt}]_vars

\* docs/setup-wizard.md:237: "If validation is declined or fails, the generated
\* repo-local host or standalone flake is moved to a hidden sibling
\* .setup-recovery path."
FailedValidationFreesDestination ==
  step = "idle" /\ host.rejected /\ ending # "interrupted" => dest # attempt
=============================================================================
