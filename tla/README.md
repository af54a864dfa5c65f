# A TLA+ verification of nixstead

nixstead configures a self-hosted media and productivity server on NixOS. Most
of the repository is declarative Nix; the program proper is a set of Python
programs and shell scripts that run beside the services: they keep the
credentials of the applications, wire the applications to each other, back the
services up and restore them, and set a host up. This directory specifies those
programs in TLA+, checks the specifications with TLC on small instances, and
proves the central properties with TLAPS for every instance.

Contents: [inventory](#inventory), [modules](#modules), [what is
checked](#what-is-checked), [what is proved](#what-is-proved),
[abstractions](#abstractions), [divergences](#divergences-between-code-and-documentation),
[observations](#observations), [not modelled](#not-modelled), [running it](#running-it).

## Inventory

Paths are relative to the repository. `PROJECT.json` lists the same components
with their sources, and the hazards of each at the line where they bite.

### Credential store — `modules/services/arr/credential_store.py`, `credential_enrollment.{py,nix}`

*State.* The SOPS-encrypted host document (a branch per service with the
canonical fields and a `credentialRevision`, and a shared `homepage` branch with
recognised older copies); the lock `<file>.nixstead.lock`; below
`/run/nixstead-credentials`, the units' runtime lock, `document.json` (the
projection the publishers read) and `status.json`.

*Operations.* `nixstead credentials sync | rotate` (operator), the boot unit
`nixstead-credentials-sync` and its `-refresh` twin (timer): lock, read, decrypt,
decide a value per field, edit a copy, verify the copy, compare, rename, decrypt
again, project, start the refresh publishers, report. `sops edit` and
`generate-credential-files.sh` rewrite the same file and take no lock.

*Hard.* Four kinds of writers, one of them unlocked; three separate reads of one
file inside one transaction; a run over many services of which some fail; kills
between any two steps; the status and the projection are two files.

*Correct when* a save is a transaction on the document it replaces; a stored
credential is neither lost nor overwritten by a generated one; nothing is
delivered that is not durable and complete; the status never claims more than
what is delivered; what is stored is eventually delivered.

### Credential delivery — `credentials.py`, `credentials.nix`

*State.* Per service: the rendered files, the `ready` file, the
`delivery-pending` marker, a lock; the states of the publisher units and of the
units that consume the files.

*Operations.* `publish_locked()`: validate, compare, mark, write file by file,
`ready`, restart consumer by consumer, unmark. Consumers start (after their
publisher, some only if `ready` exists), read their files, stop.

*Hard.* Files change one by one while consumers read them one by one; the run
may be killed between any two steps, after which every file may already match;
restarts are queued without waiting; two units publish the same service.

*Correct when* outside a pending delivery all files come from one document and
no consumer is left with an older one; no consumer starts without its files; the
deployed credential reaches every consumer in the end.

### Credential pipeline — the two above joined by systemd

`Requires=`/`After=` between enrollment, publisher and consumers at boot, by which
a start job fails with the unit it waits for; the timer; and the `--no-block`
start of the refresh publisher, which systemd merges with a job that is already
there. *Correct when* applications start only after enrollment, only ever see
saved and complete credentials, all of one save, and a later change reaches them
although a start request can be lost.

### ARR reconciliation — `reconcile.py`, `*_adapter.py`, `integrations.nix`

*State.* The ownership journal (a random owner token; which objects of the
applications nixstead created, with a digest of the credential written), the
objects in the applications, `status.json` and the metrics file. *Operations.*
For each relationship: log in, list the objects, refuse or take the owned one,
try the stored credential, compare, test, journal the intent, create or update,
journal the id. `main()` does that for one relationship after the other and
publishes the status in between. *Hard.* A lost or late reply, or a kill, between
the journal entry, the request and the completion of the entry; edits in the
application's own interface between listing and writing; a masked credential
that cannot be read back; one relationship failing or hanging among many; what a
killed run leaves in two status files. *Correct when* no object is created
twice, none that nixstead does not own is written, a success is true, the
objects come to follow the declaration, and a failing relationship neither hides
nor stops the others.

### Shared storage — `storage.py`, `storage.nix`, `storage_diagnostic.py`

Creates and checks the shared directories before the services start. Sequential;
no state but the file system. *Correct when* nothing outside the configured roots
is created and a missing mount stops the services.

### Backup and restore — `scripts/backup-service-configs.sh`, `restore-service-configs.sh`, `test-service-backup-restore.sh`, `lib/service-databases.sh`, `lib/elasticsearch-snapshot.py`, `modules/services/vaultwarden-backup.sh`

*State.* The units' states, the services' directories and databases, the Borg
repository, the `service-configs-latest` copy, the staging directories, the
Elasticsearch repositories, their directories and the indices. *Operations.*
Backup: stop the applications, dump the databases, stop those, copy to staging,
start again, create the archive, refresh `latest`, prune. Restore: validate the
source, stop, replace files, start databases, import, start. *Hard.* Every exit
path restarts units, but a restore that has begun to change files must not; an
interrupt between `systemctl stop` and its bookkeeping; a unit that systemd is
just starting again; a snapshot that goes on after its caller gave up.
*Correct when* an archive is of one moment, whatever was running runs again, a
failed restore never starts a service on mixed data, and deleted indices are in
an archive.

### Container image overrides — `scripts/container-images.sh`

*State.* `container-images.nix` of the host and its saved copy. *Operations.*
Resolve digests, refuse downgrades, replace, validate by evaluation, roll back.
*Hard.* The new file is in place while it is validated. *Correct when* a failed
validation leaves the former file.

### Pi-hole DNS synchronisation — `scripts/sync-pihole-local-dns-from-nginx.sh`

*State.* The remote host entries and a local list of the domains managed.
*Operations.* Compute wanted entries, merge with the remote ones, prune managed
entries no longer wanted, write, record. *Hard.* Two states on two machines,
changed one after the other. *Correct when* no unmanaged record is touched and
every managed record that is no longer wanted is pruned in the end.

### Setup application — `setup/`

*State.* The `HostConfig` that seven sections of questions fill in place; the SSH
key pair; the host's staging directory, its destination, the `.setup-recovery`
directories, the active system. *Operations.* Ask, go back, cancel; generate the
key, stage and rename the host, prepare secrets, check, switch, set a password;
move the host away on failure. *Hard.* Previous leaves a section in the middle
with its answers half given; the questions about disks start over after any
rejected answer; an attempt may end after any of its irreversible steps, and the
next attempt finds what it left. *Correct when* what is reviewed hangs together
and is what is generated; nobody is locked out by a key without its private half;
a failed attempt leaves the destination free and nothing of anyone else's moved.

### SOPS policy and secret-file generation — `scripts/configure-sops-host.sh`, `generate-credential-files.sh`

Creation rules and recipients, branches of the host document. *Hard.* Two
programs edit the same files; branch-wise merging with what is there.

### Not behaviour, or only reporting

The service registry and the assertions of the Nix modules (pure evaluation),
`nixstead` and the health checks (dispatch and read-only reports), video
conversion, mirrors and copies (batch scripts around external tools), the NixOS
modules of third-party services (declarations).

## Modules

| module | models | kind |
|---|---|---|
| `CredentialDocument` | the document, commands, `select_values()`, `enroll()`, the edits of `save_encrypted()` | operators |
| `CredentialVault` | what the commands promise: atomic transactions on the document | abstract specification |
| `CredentialStore` | every writer of the document, step by step | specification |
| `CredentialDelivery` | one service's publisher units and consumers | specification |
| `CredentialPipeline` | `CredentialStore` composed with an `INSTANCE` of `CredentialDelivery` | composition |
| `ManagedObject` | one object that the reconciler keeps in an application, with its journal entry | specification |
| `ReconcileRun` | `main()` of the reconciler over all relationships, its status and metrics | specification |
| `NasLayout` | the NAS section of the wizard: disks, parity, mount points | specification |
| `SetupWizard` | the interview, `EXTENDS NasLayout`; what `render_host()` writes of it | specification |
| `Setup` | the attempts to create a host, `EXTENDS SetupWizard` | specification |
| `ElasticsearchSnapshot` | `elasticsearch-snapshot.py`, and Elasticsearch as it sees it | specification |
| `ServiceBackup` | both scripts with their units and archives, `EXTENDS ElasticsearchSnapshot` | composition |
| `MCCredentialStore`, `MCCredentialDelivery`, `MCCredentialPipeline`, `MCManagedObject`, `MCReconcileRun`, `MCSetup`, `MCServiceBackup` | instances | for TLC |
| `CredentialStoreProofs`, `CredentialDeliveryProofs`, `CredentialPipelineProofs`, `ManagedObjectProofs`, `ReconcileRunProofs`, `SetupProofs`, `ElasticsearchSnapshotProofs`, `ServiceBackupProofs` | theorems and lemmas | for TLAPS |

Actions named `X_Y` (`Decrypt_BeforeBytes`, `Pend_NoMarker`, ...) stand before
an action `X`: they are variants with a plausible mistake, kept to show that the
properties notice it, and no specification uses them.

### CredentialDocument

A *field* (API key, user name, password) belongs to a service. `canon[f]` is its
entry in the service's branch, `prev[f]` its older copy in the `homepage` branch,
`rev[s]` the `credentialRevision`, `user` stands for the keys of the shared
branch that no service owns. An entry is absent (`None`, which also stands for
the placeholder `replace-me`), `Malformed` (refused by `validate()`), or a value.

`Choices(d, c, f)` is `select_values()` with the automatic seeds of
`automatic_enrollment()`: which values command `c` may give `f`, empty when it
must fail. `MayComplete` says for which services a run may succeed: all or none
for an automatic run, all but the failing ones for a manual one. `Outcome(d, c,
e)` relates the document before and after; `Enrolled` computes one outcome.
`Encrypted` is the copy that `save_encrypted()` edits: top-level branches that
differ are replaced as a whole.

### CredentialStore

One variable per shared object, `txn[w]` for the local state of each locked
writer, `copy[e]` for what an editor has on its screen. `stamp` identifies the
bytes of the file: every rewrite gets a fresh one, as every encryption does.

| action | code |
|---|---|
| `StartRun` | `run()`: runtime lock, status without success |
| `BeginUnit`, `BeginAdmin` | `synchronize()`, `main()`: source lock, `path.read_bytes()` |
| `Decrypt` | `decrypt(path)`, a second read |
| `Enroll`, `EnrollRefused` | the loop over the services, `automatic_enrollment()` |
| `Encrypt` | edit the copy, decrypt it, compare with the updated document |
| `Compare` | `path.read_bytes() != before`, a third read |
| `Replace` | `os.replace()` |
| `Reread` | `saved = decrypt(source)` and its comparison |
| `Project` | `document.json`, end of the source lock |
| `Notify` | start of the refresh units, the status, end of the run |
| `Abort` | a kill, a timeout, a failing `sops`, a silent application, anywhere |
| `Open`, `Save` | `sops edit`, `write_sops_domain()`: read, later overwrite |

`versions`, `projected`, `reported` and `raced` are history: they are read by
properties only. `raced` marks a writer whose file was edited between its
comparison and its rename.

### CredentialVault

One variable and one action: `Transact(c)` changes the document to an `Outcome`
of `c`. `ImplementsVault` says that the store is that vault when nobody writes
without the lock; the mapping is `doc <- file.doc`.

### CredentialDelivery

`Begin`, `Pend`, `Write`, `Mark`, `Restart`, `Finish` are `publish_locked()` in
order, `Unchanged` and `Reject` its two early ends, `Fail` a kill or a failing
`systemctl` anywhere. `Start`, `Load`, `Stop` are a consumer as systemd runs it:
`queued` is its pending job, held until the publisher is `active`; `Load` reads
one file. `Deploy` is a new `document.json`, `Reboot` empties `/run`.
`output`, `ready`, `pending` are the files on disk.

### CredentialPipeline

`CredentialStore` by `EXTENDS`, `CredentialDelivery` by `INSTANCE` with
`deployed` being the publisher's view of `document.json`. Its own state is the
boot unit's success (`enrolled`) and the start jobs of the boot publisher
(`wanted`) and of the refresh publisher (`requested`); those of the consumers are
`queued` of the delivery. Its own actions add to those of the components what
systemd does:

| action | systemd |
|---|---|
| `StartUnit` | the boot unit until it has succeeded, then the timer's |
| `StoreStep` | a step of the store; when it ends a run of the boot unit without success, `StartJobsFail`: the start jobs that wait for that unit, or for the publisher it would have let run, fail with result `dependency` and are gone |
| `Completed` | a run succeeds: the boot unit is active, and a run of the timer's unit asks for the refresh publisher (`Request`), which pulls in the boot publisher it requires |
| `RunPublisher` | a start job whose requirements are met; a run that fails takes the jobs that wait for it along |
| `Publish`, `Consume`, `Disturb` | the steps of the delivery |
| `Reboot` | of both components; only the encrypted file survives |

After a failed boot enrollment nothing is left that would start the publishers.
The timer's unit requires the boot unit (`credential_enrollment.nix:108`) and so
starts it again once a minute; only the first run of the timer's unit after that
success asks for the refresh publishers, and with them for the boot publishers
(`credentials.nix:173`); those announce to their consumers, whose jobs had failed,
too, by `restart`. `EventuallyRunsWithSaved` is about this way as well.

### ManagedObject

The adapters for download clients (`Reconciler.download_client()`, `sabnzbd_adapter`),
registrations in Prowlarr (`prowlarr_adapter`) and notifications (`ntfy_adapter`)
are one pattern, and this module is the pattern. `adapter` is what they differ
in: `"client"` tries an unchanged masked credential, `"token"` does not, and
`"plain"` is an application that shows the credential. `objects` are the
application's objects by id. An object is *named* when its name carries the owner
token; `settings` stands for all other fields that nixstead owns, `rest` for the
fields it does not. `journal` is the entry in `ownership.json`; `accepted` is what
the target of the relationship takes for its credential.

| action | code |
|---|---|
| `Begin` | the start of `nixstead-arr-reconcile.service` |
| `Login` | `run_configuration()` logging in with the credential |
| `List` | the `GET`, the matches by name or id, `owned()` |
| `Probe` | mask and digest, the test of the stored credential |
| `Compare` | `resource == current`, `dryRun`, the completion of a pending entry |
| `Test` | `POST .../test` of the resource |
| `Intent` | `intent()`: the entry is saved before the `POST` |
| `Send`, `SendMissing`, `SendUnanswered`, `SendDelayed` | `POST` or `PUT`: answered, 404, executed but not answered, executed after the client gave up (`ExecuteLate`) or never (`DropLate`) |
| `Finish` | digest and `finish()` |
| `Fail`, `Refuse` | a kill or an error anywhere; a `ReconcileError` |
| `UserCreate`, `UserChange`, `UserDelete` | the application's own interface |
| `Erase`, `LoseJournal` | an application restored empty, which counts its ids from the start; a lost journal, which makes the owner token a new one |
| `Deploy`, `TargetRestart` | a new declaration or credential; the target restarts with it |

One run at a time is enough: `main()` holds a lock. Users do not know the owner
token, so they never create an object that bears it; they may rename ours, and
name it back. `made`, `disturbed`, `drifted`, `renamed`, `erased`, `delayed` are
history, read by properties only.

### ReconcileRun

`Order` is the fixed order of `relationship_configs()`. `Begin` takes over the
last results and clears them, `PublishStatus` and `PublishMetrics` are the two
renames of `publish_status()`, `Attempt` is `run_configuration()` with its error
caught, `AttemptHung` one that spends 85 seconds in `API.ready()` on an
application that accepts connections and does not answer (six requests of ten
seconds, five pauses of five), `TimeOut` the unit's `TimeoutStartSec` of 180
seconds, `Kill` any other end, `Finish` the final status. The clock ticks once a
run and stands still at `MaxTime`. `truth` (when each relationship last succeeded)
and `asked` (has the latest run sent requests?) are history.

### NasLayout, SetupWizard

`prompt` is the question on the screen; every action answers one, and its name is
that of the question. The other variables are the fields of `HostConfig` that
later questions or the rendering depend on. Two kinds of answers are abstracted:
those nothing depends on are left out, and those that can be begun and left half
given (the LAN selector, the key, the GRUB device, the swap size, the route, the
shares) are followed one at a time: `watched` is chosen at the start and `half`
says whether it is begun. `Section` and `Back` are `run_wizard()`'s list of
sections and its `SectionBack`; the details have no question of their own to
return to, so `Back` from the last section enters them again (`EnterDetails`),
through whatever is there to ask.

In `NasLayout` an answer that is not accepted leads to `LookAtDisks`, the top of
the loop with a new `lsblk`, except that a mount point in use is asked again for
a data disk (`MountData`) and skips a parity disk (`MountParity`), as the
`continue` statements of the code do.

`HostServices` is what the modules make of the generated file: the preset's
defaults, the overrides that `render_service_overrides()` writes, and the
sections that enable CIFS, the NAS and Tailscale by themselves.

### Setup

| action | code |
|---|---|
| `Start` | `run_application()`: the destination is looked at |
| `Interview`, `FirstInterviewEnds`, `LaterInterview` | `run_wizard()`: question by question in the first attempt, only its result later |
| `FindKey`, `WritePrivate`, `WritePublic` | `materialize()`: `ssh-keygen`, the private half, the public half |
| `Stage`, `Place`, `StagingFails` | `write_host()`, `write_consumer_flake()`: a staging directory, one rename |
| `PrepareSecrets` | `offer_secrets()` |
| `Healthcheck`, `ContinueAnyway`, `Decline`, `PreviousAtHealthcheck` | the check and the question after it failed |
| `GenerateOnly`, `Switch`, `SetPassword` | `nixos-rebuild`, `passwd` |
| `Interrupt` | `KeyboardInterrupt`, or the process is gone: no handler runs; during the switch, `nixos-rebuild` may have activated the host or not |
| `ForeignAppears`, `Clean` | someone else's directory; the operator tidies up before another attempt |

`keyOf` is the generated key that the files of a host authorize. `recovery` and
`staging` are sets of attempts; `rejected` and `switched` in `host` are history.

### ElasticsearchSnapshot

A call (`helper`) goes from `Validate` and `Ready` through its requests to
`Finally` and `RemoveExport`. Each request may fail without effect, or take effect
and lose its answer; a snapshot or restore that outlives the 180 seconds of
`curl` stays in `busy` until `Complete`. `mine` is the local variable
`registered`. `Die` is a kill at any step.

### ServiceBackup

`script` is the script that runs: its place, the loop's remaining units (`todo`),
`STOPPED_UNITS`, `RESTORE_MUTATED` and the exit code that the trap sees. Both
scripts share `StopUnit`, `Record`, `Skip`, `Restart`, `Restarted`, `CleanedUp`.

| action | code |
|---|---|
| `StopUnit`, `Record` | `systemctl stop`, then `STOPPED_UNITS+=` |
| `Skip` | `is-active` is false |
| `Restart`, `Restarted` | `restart_stopped_units()`, at the end and in the trap |
| `Break("error")`, `Break("signal")`, `Exit` | `set -e` or a signal, then `cleanup()`; a signal is seen as `$? = 0` |
| `Kill`, `CleanedUp` | the process is gone, with and without its trap |
| `Check`, `Dump`, `Dumped`, `Copy`, `CopyOut`, `Copied`, `Create`, `Refresh`, `Refreshed` | the backup in order |
| `ValidateSource`, `CopyBack`, `CopyBegin`, `CopyEnd`, `StartEngine`, `Imported`, `Again`, `AllAgain` | the restore in order |
| `Helper`, `Background` | steps of `ElasticsearchSnapshot`, its background work while Elasticsearch runs |
| `Write`, `Crash`, `Started` | an application writes, fails, and is started again by systemd |

The data of a service is the number of its last write. `moment`, `missed`,
`hurt`, `before`, `unfinished`, `released` are history: what was live when the
dump was made, which units were between two starts, which were stopped and not
yet recorded or did not start, which ran before, which services a restore has
begun to change, and which of those a signal let start.

## What is checked

| run | instance | properties |
|---|---|---|
| `store` | sonarr (API key) and qbittorrent (opaque password), two values; a unit, an operator command, an editor; one edit, one fault | `StoreTypeOK`, `DeliveredWasSaved`, `DeliveredIsComplete`, `SavesAreTransactions`, `StoredValuesSurvive` |
| `store_vault` | qbittorrent with user name and password, a rotation keeps the name; both units, an operator, two commands, a fault, no editor; fairness | `ImplementsVault`, `SuccessIsCurrent`, `EventuallyDelivered`, `SuccessRecurs` |
| `delivery` | qbittorrent: user name and password in a file each, two consumers, one conditional on `ready`; both publishers; two deployments; one kill, stop or reboot; fairness | `DeliveryTypeOK`, `FilesAgree`, `ConsumersCurrent`, `FilesBeforeConsumers`, `EventuallyServed` |
| `pipeline` | sonarr with its API key; both units, an edit, both publishers, a consumer; a fault of the store and two of the delivery, reboots among them; fairness | `StartupWaitsForEnrollment`, `EventuallyRunsWithSaved` |
| `pipeline_pair` | qbittorrent: user name and password in a file each and a consumer that reads both; both units, an edit, both publishers; one fault of the delivery | `ConsumersGetSavedCredentials` |
| `object` | the three kinds of object, four ids, two values of every compared field; any three edits, failures, delays and deployments; fairness | `TypeOK`, `OnlyOwnObjectsWritten`, `InterruptedCreateRecovers`, `SuccessMeansFollows`, `UnownedFieldsKept`, `Converges` |
| `run` | sonarr, radarr, prowlarr; up to two hang; two ticks; a kill, a deployment or a change of what hangs; fairness | `TypeOK`, `NoStaleSuccess`, `ReportIsComplete`, `LastSuccessIsTrue`, `FailuresAreIsolated` |
| `run_hang` | four relationships, three of which hang | `FailuresAreIsolated`, which fails |
| `setup` | three disks, one of them in use, three mount points with `/`; a preset and none, Nginx, Tailscale, qBittorrent (with inputs), CIFS, NAS; each answer in turn followed; three attempts | `SetupTypeOK`, `ReviewIsConsistent`, `GeneratedMatchesChoice`, `LayoutIsSound`, `KeysMatch`, `HostIsWhereItBelongs`, `ForeignIsKept` |
| `setup_previous` | two disks, two attempts | `FailedValidationFreesDestination`, which fails |
| `backup` | TubeArchivist with Elasticsearch, and a service with files only; two scripts of either kind, with or without an earlier archive; one write, one crash | `BackupTypeOK`, `ArchivesAreConsistent`, `NothingRunsOnPartialState`, `StoppedUnitsComeBack`, `SnapshotsAreSafe` |
| `backup_signal` | the same, without writes and crashes | `FailedRestoreLeavesStopped`, which fails |

*Start documents* (`MCStart`): a new host, older copies not yet consolidated, and
a copy in conflict with, or equal to, the canonical entry. Malformed entries come
from the editor.

*Bounds, and why they are enough.* Two values are what the decisions tell apart
(equal or in conflict); they, and the two operators, are symmetric where no
liveness is checked. Two
services give a manual run one service that fails and one that succeeds, and a
second branch for an edit to change. One edit, one command and one fault per run
already interleave with every step of a unit that runs for ever, before and
after; what needs two commands is the order between locked writers, and
`store_vault` allows two. The delivery runs deploy twice, which gives a publisher
killed in the first delivery a second, different document to find. In
`pipeline_pair` an edit that writes an older copy of the document back makes
enrollment generate user name and password anew, so that two saves differ in both,
while a publisher or a consumer is between the two files. `MaxCommands`,
`MaxEdits`, `MaxFaults`, `MaxDeployments` bound only what the environment does;
`MaxFaults` also makes failures finite, without which nothing can be promised to
happen. The proofs do not depend on any of these bounds.

`object` lets any three of its events happen, of the same kind or of different
kinds, in any order and at any step: enough for a lost reply of the create, an
edit before the recovering run and a new credential during it. Every event can
cost at most one id, so that four ids are never too few. `settings` has one
value: a drift of it is noticed as one of the name is, by comparison, while the
credential has two because it cannot be compared. `run` has three relationships,
since an application that hangs must have one before it and one after it, and
two ticks, so that a success can be older than the last run.

`setup`: two usable disks are one for data and one for parity, the third must be
refused, and with two mount points besides `/` two disks can collide; what `lsblk`
reports changes between two looks. One service of each kind is enough because
`ReviewIsConsistent` treats services one by one: with inputs, without, needed by
the exposure, outside the preset, with a section of its own. The interview is
explored without a bound on Previous. Three attempts are a first one that leaves
something, a second that meets it, and a third that meets what both left.
`backup`: one service with the database and one without are the two roles; two
scripts are a backup and then a restore of it, or a failed restore and a backup of
what it left; the earlier archive makes the first restore possible. One write
after the start tells any two moments apart, and one crash puts a unit between two
starts. The proofs about both components hold for every value of these constants.
Deadlock is not checked in these runs: when the attempts or scripts are used up,
nothing is left to do.

*Fairness.* `StoreFairness`: the timer of `credential_enrollment.nix` starts a
unit for ever, and a process that runs goes on, since `flock`, `sops` and the
rename return. An operator's command goes on because it is attended: whoever
types it answers the prompt; an unanswered `sudo` prompt holds the source lock
and is the one hazard here that no property covers. Starting a command, editing
and failing are never fair. `DeliveryFairness`: the timers of `credentials.nix`
start the refresh unit every minute and systemd runs the jobs it has. In the
pipeline the publishers have no timer of their own (`credentials.nix:197`): what
is fair is that the enrollment units are started, by the timer, which starts its
unit again whether its last start job succeeded, failed, or failed with the boot
unit; and that a job runs whose requirements are met. A job that has failed is
gone, and nothing is assumed to bring it back. Fairness is
weak throughout, per process. For the reconciler, the timer starts a run again
and again, and a run goes on because every request has a time limit (in
`ReconcileRun` that limit is modelled); the delivery restarts a target whose
credential changed. Users, failures, delayed requests and deployments are never
fair. Setup and restores are run by an operator, and what a backup promises holds
of every single one: nothing is said about their running again, so their runs
check safety only.

*What the runs show.* A save is a transaction although the program reads the file
three times, because the bytes are read first: reading them after the decryption
would break `SavesAreTransactions`. What reaches `document.json` was in the file
as a whole, and is complete even when an editor removes entries in between,
because an automatic run saves all services or none and rereads. An enrollment
that changes nothing must still project, and the status must be cleared first:
dropping either shows up as a starving delivery or a stale success. In the
delivery it is the marker that carries the guarantee: files that already match
are no sign that a former run finished. Consumers that failed together with
their publisher come back only because a complete credential is announced with
`restart` and not `try-restart`. A lost start of the refresh publisher is made
good by the next run of the timer, because every run announces, changed or not;
if only runs that changed something did, a publisher whose start job failed with
the boot enrollment would never run. A consumer that has read one file before an
update and one after it is restarted, and the marker stands until then: with the
marker missing, a publisher that is killed between the two leaves it so
(`ConsumersGetSavedCredentials`).

In the reconciler the intent saved before the create is what makes an interrupted
create recoverable, and matching only by the token or the journalled id is what
keeps foreign objects safe. The digest must be renewed by every update, or a
later rotation back to the old credential is taken for done. An update starts
from the listed object, so that other fields survive; a user's change between
listing and writing is overwritten, and `UnownedFieldsKept` excepts exactly that
(`disturbed`). Two cases remain in which the objects are not right, and the
properties name them: a create that is executed after the client gave up and the
next run has listed the objects leaves two objects, which `owned()` refuses until
a user removes one (`delayed` in `InterruptedCreateRecovers`); and after an
application was restored empty the id in the journal may be given to an object of
the user's, which the next run takes over (`erased` in
`OnlyOwnObjectsWritten`). Of the status, the order of clearing, publishing and
attempting is what keeps a killed run from leaving an older success.

In the setup, an answer that was begun before Previous is always asked again
before the review, or dropped with what it belonged to: that takes the resets in
the middle of the sections (of the exposure without Nginx, of the route without
Tailscale or without the router, of the shares without CIFS). The key pair is safe although it is written half by half because a
half is never taken for a pair, and never written over. What
`preserve_recovery()` moves is always the attempt's own host because
`new_host_directory` is only set after the rename succeeded: onto nothing, or onto
a directory that appeared meanwhile and was still empty.

In the backup, it is the order (applications down, dump, database down, copies)
that makes an archive one moment, and `RESTORE_MUTATED` that keeps a half-restored
service stopped; later scripts keep it so only because they restart what they
stopped and not what they know. The helper counts its repository as registered
before it asks, so that a lost answer never removes a directory in use.

## What is proved

TLAPS checks the following for all constants that satisfy the named assumptions
(`OwnerAssumption`, `EntryAssumption`, `StartAssumption`, ... in the modules that
declare the constants), any number of processes, and no bound on edits, commands,
faults or deployments: the bounds of the guards are constants of any size. Three
kinds of theorems go beyond the properties that the runs check: that nothing is
written without need, that a composition keeps what its components promise, and,
for each promise of the documentation that a run refutes, when it does hold.

`CredentialStoreProofs`:

- `StoreTyped`: `StoreTypeOK`.
- `StoreInvariant`: the inductive invariant `StoreIInv`.
- `OnlySavedIsDelivered`, `OnlyCompleteIsDelivered`, `StatusTellsTheTruth`:
  `DeliveredWasSaved`, `DeliveredIsComplete`, `SuccessIsCurrent`.
- `SavesReplaceWhatTheyRead`: `SavesAreTransactions`.
- `StoredValuesKept`: `StoredValuesSurvive`.
- `StoreImplementsVault`: `ImplementsVault`, assuming `Editors = {}`.
- `UnitsWriteOnlyUnsettled`: `NeededWrite`, that every save changes the document,
  and that a unit saves only a document with something to settle (an entry to
  generate or to read from its application, an older copy to drop) and leaves it
  settled. The units run for ever; this is why the file comes to rest.

None of these is inductive by itself. `StoreIInv` has one part per writer,
`WriterSound(w)`, and one for the file and one for what is delivered. The heart
is `Consistent`: while the bytes that `w` read are those in the file, the
document that `w` decrypted *later* is their content. `Decrypt` establishes it,
the source lock (`Locked`) keeps the other locked writers from breaking it, and
an unlocked edit makes its premise false, because its stamp is fresh (`Past`,
`FileSound`). `Prepared` says that what is to be saved is an `Outcome` of what
was decrypted (lemma `EnrolledOutcome`, which needs the new revision to be
fresh). `Compared` adds that at the rename the premise of `Consistent` still
holds unless an edit raced. Together they make a save a transaction
(`ReplaceIsTransaction`), from which follow `StoredValuesSurvive` (lemma
`PlainOutcomeKeeps`, about `Outcome` alone) and the step of the refinement: with
no editor no writer is ever raced. Completeness comes from `AutoOutcomeComplete`
through `Reread`, whose comparison makes the reread document the prepared one.
The proof of the step has one lemma per action; `OtherSound` says once what a
step must leave alone for the writers it does not belong to, `InnerStep` and
`LeaveIInv` cover the steps inside the lock and all the ways to end. For
`NeededWrite` a writer past its decision must know that it differs (`Differs`,
the early return of `save_encrypted()`), an `Outcome` of the automatic command
is settled (`AutoOutcomeSettles`), and the only outcome of a settled document is
that document (`SettledStays`).

`CredentialDeliveryProofs`:

- `DeliveryTyped`: `DeliveryTypeOK`.
- `DeliveryInvariant`: the inductive invariant `DeliveryIInv`.
- `FilesNeverMixed`, `NoConsumerForgotten`, `FilesComeFirst`: `FilesAgree`,
  `ConsumersCurrent`, `FilesBeforeConsumers`.

`DeliveryIInv` adds to the properties that one publisher at a time is under way
(`Exclusive`) with a document that was deployed (`Sourced`), that the marker
stands from before its first write to after its last restart (`Marked`), that all
files are written by the time it restarts consumers (`Written`), that a consumer
already told has a job or holds nothing old (`Told`), and that what is running
started after all its files existed (`Started`). All of this is `UnitIInv`, kept by
`UnitNext`, the steps of publishers, consumers and the host alone, whatever is
deployed meanwhile; that is what the pipeline uses.

`ManagedObjectProofs`:

- `ObjectTyped`: `TypeOK`.
- `OnlyOwnWritten`, `CreateRecovers`, `UnownedKept`, `SuccessFollows`:
  `OnlyOwnObjectsWritten`, `InterruptedCreateRecovers`, `UnownedFieldsKept`,
  `SuccessMeansFollows`.
- `RunsWriteOnlyDifferences`: reconciling is idempotent. A request that writes is
  sent only if no object follows the declaration (unless a user edits it under
  the run); together with `SuccessFollows`, a run after a successful one writes
  nothing.
- `DryRunsWriteNothing`: a dry run changes neither application nor journal.
- `SecretFollowsWhereTried`: after an undisturbed success an application whose
  credential the run tries stores the declared one; one with a token does, unless
  something other than a completed run has set the token. That is the limitation
  which `docs/services/ntfy-integrations.md:27-29` describes, and no more than it.

From `IdAssumption`, `SecretAssumption`, `AbsentAssumption` and
`RecordAssumption`, which say that `None` is no id, no credential, no object and
no entry. Typing already needs `RunSound`: a masked credential is sent only to an
object that was found, so that what is stored is always a credential. The lemma
`ExecuteWrites` says once what the application makes of a request, whether
answered, unanswered or late. Each property then has a strengthening of its own:

- `Owned`: until an erasure, the names, and the ids in the journal, in the run and
  in late requests, are those of objects that runs created.
- `Sole`: the only object under our name is the one the run has found or created,
  and the entry is of no other. It is what the intent before the create keeps
  true at every step a run can be killed at.
- `AsListed`: until the run writes it, the object is as it was listed.
- `SuccessSound`: `DigestTold` (for a token, the digest tells what is stored
  unless it may have drifted), `FoundSole`, `MaskSound` (what the run relies on
  when it sends the mask), `Written` (what it wrote is there), `PendingTold`
  (an entry without an id is pending).
- `WriteSound`: a run that got past its comparison has found a difference and is
  no dry run; when it is about to send a credential of its own, the entry, or the
  failed trial, says that the stored one is another.
- `NoDrift`: an application whose credential is tried never counts as drifted.

`CredentialPipelineProofs`:

- `PipelineInvariant`: the inductive invariant `PipelineIInv`.
- `ConsumersAlwaysGetSaved`, `StartupAlwaysWaits`: `ConsumersGetSavedCredentials`,
  `StartupWaitsForEnrollment`.
- `StoreStaysSound`, `SavesStayTransactions`, `StoredValuesStay`,
  `WritesStayNeeded`, `PipelineImplementsVault`: what the store promises, in the
  whole system.
- `DeliveryHoldsInPipeline`: what the delivery promises, in the whole system.

`PipelineIInv` is `StoreIInv`, kept by every step of the store and by a reboot,
joined with `Gated`, the order of a boot (enrollment has projected a document, a
publisher is active only after it, a consumer only after the publisher), and
`Carried`, which follows a value through the delivery: the target of a publisher,
each file and each value a consumer has loaded come from a complete document in
the store's history. That history only grows (`AuthenticLater`), and what the
publishers read is such a document once `enrolled` holds (`DeployedAuthentic`).
That all that a consumer holds is of *one* such document needs the delivery's
invariant besides: with no job of its own and no marker, it holds the current
files (`ConsumersCurrent`), and they are one rendering (`FilesAgree`) of a complete
version, because `Deployables`, what the complete versions deploy, is the history
by which the delivery is instantiated.

The other theorems are of composition. To the store a step of the system is one
of its own, none, or a reboot (`PipelineStoreSteps`), and a reboot changes nothing
durable and leaves no writer under way. The delivery is used as proved: `Proved`
is an instance of `CredentialDeliveryProofs` under the parameters by which the
pipeline instantiates `CredentialDelivery`, so that its assumptions must be shown
for them (`DeliveryAssumptions`, from `PartAssumption`, `FilesAssumption`,
`NumberAssumption`, `PublisherAssumption`, `AbsentAssumption` and
`DeliveryBoundAssumption` of `CredentialPipeline`), and its step lemma, for steps
at which the store deploys what it likes (`PipelineUnitsStep`). A start job that
fails with the boot enrollment is a step of its own there (`JobsFail`).

`ReconcileRunProofs`:

- `RunTyped`: `TypeOK`, which includes that no run outlasts its time limit.
- `SuccessNeverStale`, `LastSuccessNeverOld`, `ReportsComplete`: `NoStaleSuccess`,
  `LastSuccessIsTrue`, `ReportIsComplete`.
- `HangsThatFitAreIsolated`, `HangsBeyondTheLimitEndRuns`: the two sides of the
  time limit. If what hangs does not change during a run (`SteadyRun`), a run is
  never ended by the limit when `HangTime * MaxHung <= TimeoutStartSec`, and gets
  to its end only when what hangs among its relationships fits the limit.

From `BoundAssumption`, `OrderAssumption` and `EntryAssumption`. `SuccessCleared` says which of the
three copies of the success (the run's own, the status, the metrics) have been
cleared at each step; `EntriesTrue` that what the run found is true of the
relationships it has yet to attempt, and what it will publish of all; `Attempted`
and `Concluded`, together `ReportSound`, that an entry exists exactly for what has
been attempted and says ok only after a request of this run. `TimeSpent` is the
invariant of the clock: a run has spent `HangTime` on each hanging relationship
it has attempted (`Waited`), which is counted by cardinality.

`SetupProofs`:

- `SetupAlwaysTyped`: `SetupTypeOK`.
- `KeysAlwaysMatch`, `HostAlwaysWhereItBelongs`, `ForeignAlwaysKept`: `KeysMatch`,
  `HostIsWhereItBelongs`, `ForeignIsKept`.
- `ReviewAlwaysConsistent`, `GeneratedAlwaysMatches`, `LayoutAlwaysSound`:
  `ReviewIsConsistent`, `GeneratedMatchesChoice`, `LayoutIsSound`.
- `CompletePairStays`: no attempt changes a complete key pair.
- `ActiveHostStays`: when the system runs the host at the destination, no attempt
  moves that host or activates another.
- `OnlyPreviousLeavesRejectedHost`: only `PreviousAtHealthcheck` takes a state
  that keeps `FailedValidationFreesDestination` to one that does not, and while
  that is so the last attempt has ended with an uncaught exception.

From `DiskAssumption`, `MountAssumption`, `ServiceAssumption`, `PresetAssumption`
and `AttemptAssumption`, for any disks, services, presets and number of attempts.
`PairInv` orders the two halves of a key (a public half that is a key has its
private half beside it, and what a host authorizes is such a pair); `PlacedInv`
says for every step of an attempt where its host is and that the destination is
its own exactly from the rename on, from which the last two follow: the destination of
an attempt before its rename is nothing or someone else's, so that the active host
is not replaced, and what a rename replaces was empty. `ActiveInv`
adds that an attempt before its switch has not been activated, so that what is
active belongs to a former one; `RejectedInv` how an attempt with a rejected host
can have ended. Of the interview they use only that it ends. The interview has
an invariant of its own, `InterviewInv`, that says of every *question* what the sections before it have
established: `ServicesInv`, `AccessInv`, `LoginInv`, `StorageInv` name the
questions up to which each of them holds, `HalfInv` from which question on each
half answer is excluded, and `LayoutInv` what the pass through the disks has
placed so far. Going back is harmless because every part is downward closed in
the order of the questions: `BackStep` shows it section by section. The details
can be entered from four places and skip what is not enabled; `EnteredAnswers`
says once what all these ways in must show, and `TailscaleEntered`,
`CifsEntered`, `NasEntered` follow the ways.

`ServiceBackupProofs`, on `ElasticsearchSnapshotProofs`:

- `BackupAlwaysTyped`: `BackupTypeOK`.
- `RepositoriesAlwaysKeepTheirDirectory`: the second part of `SnapshotsAreSafe`.
- `SnapshotsAlwaysSafe`, `NothingEverRunsOnPartialState`,
  `StoppedUnitsAlwaysComeBack`, `ArchivesAlwaysConsistent`: `SnapshotsAreSafe`,
  `NothingRunsOnPartialState`, `StoppedUnitsComeBack`, `ArchivesAreConsistent`.
- `RestoresBringBackTheArchive`: when the import of a restore returns, files and
  indices are those of its archive, and of one moment if that was not cut off,
  unless a unit was between two starts (`missed`).
- `StoppedUnlessSignalled`: `FailedRestoreLeavesStopped`, which a run refutes,
  holds in every behaviour in which no signal ends a restore that has changed
  something.

From `ContentAssumption`, `NoCallAssumption` and `BackupAssumption`, for any
services and any number of scripts, writes and crashes. `CallInv` is the helper's
own: until it asks for its repository, and after it has given it up, nobody knows
that name (`Unknown`), which names that are never used twice (`NamesInv`) make
true at the start of a call. Over it each property has one strengthening:

- `SafeInv`: a restore that may delete indices has validated an archive that is
  still there, and a backup replaces one only by a staged copy that is whole.
- `HeldInv`: a service that a restore has begun to change (`Held`) is down, is in
  no list of units to start, and the loop that stops units has passed it.
- `BackInv`: what ran before runs, is starting, or is on the list of stopped
  units; and at the exit that list is what is started, but after a restore that
  failed after its first change.
- `ArchiveInv` with `CopyInv`: while the applications are down nothing writes, so
  that the dump, the moment and the copies are all of what is live.
- `RestoreInv` with `RestoreCall`: what a restore has copied back stays as it is,
  since the services are down; a call that deletes and restores indices is alone
  with them, because `ready()` refuses a cluster that is busy, and its repository
  holds the archive, so that what it leaves when it has not failed is that.

### Only model-checked

Liveness (`EventuallyDelivered`, `SuccessRecurs`, `EventuallyServed`,
`EventuallyRunsWithSaved`, `Converges`, `FailuresAreIsolated`): it needs `ENABLED`
and fairness, which the prover does not handle. Every safety property of a passing
run is proved, `ImplementsVault` (which `store_vault` checks without an editor)
under the assumption `Editors = {}`. Of `FailuresAreIsolated` the safety half,
that no run is cut short, is `HangsThatFitAreIsolated`. That an object comes to
follow its declaration, or the file to be settled, stays with TLC; the theorems say
that nothing is written once it does.

## Abstractions

- Values, files and documents are abstract: which value, not how it is spelled.
  Encryption is a fresh stamp; `Encrypt` models the decrypt-and-compare of the
  edited copy.
- A field has one older copy. Where the code knows several, they matter only in
  that they may conflict with each other, as the one does with the canonical
  entry.
- `passwordHash` of qbittorrent, derived from the password at each save, and
  `--dry-run`, which ends before the save, are left out. So is the identity check
  of the host document.
- Every managed service is enabled, as `registry` presents it to the units.
- An operator's command gives up the lock in the same step as the rename; nothing
  happens in the code between the two that another process could see.
- `Abort` stands for every outside failure: the code treats them alike. The
  answers of an application to a key request are a nondeterministic choice in
  `MayFail` and `Choices`.
- The order in which a publisher writes files and restarts consumers is left
  open, a superset of the order of the configuration. `install_qbittorrent()`,
  which runs inside the application's own start, is part of `Load`.
- One service's delivery is modelled at a time: publishers of different services
  share only consumers, and a restart by another publisher is `Stop`.
- The pipeline has one service; `PartsOf` picks it.
- A start job that waits is failed by systemd in the same step in which what it
  requires fails.
- Of an application's answers, the reconciler's errors that no state explains
  (schemas that lack a field, an object of another implementation, invalid JSON)
  are `Fail`. A journal that cannot be written ends the run, as `Fail` does.
- The owner token is unguessable, and ids are given out in order and only reused
  after `Erase`.
- A relationship's several objects are independent of each other but for the
  order of their writes; `ManagedObject` keeps one of them.

- Of setup, a retry's interview is its result only; setting up a target that exists
  already creates no host and is left out. The healthcheck, rendering and secrets
  are their outcomes. The rename to recovery in `preserve_recovery()` is assumed to
  succeed. `ServicesChosen` leaves `requires_services` out, which no entry of the
  registry uses.
- Of the backup, one database stands for all of them (`service-databases.sh` treats
  the others as sequential dumps and imports), archives have no ownership or names,
  pruning keeps the newest, and a host that reboots is left out. A command that a
  script has started is taken to end with the script.

## Divergences between code and documentation

`docs/media-operations.md:193` says: "Reconciliation isolates relationship
failures". Errors are isolated, but not time: each of Sonarr, Radarr and Lidarr
waits 85 seconds for the same qBittorrent when it hangs, the unit may take 180,
and the order never changes, so that the relationships after them are never
attempted (run `run_hang`). With at most two that hang the promise holds (run
`run`); the theorems `HangsThatFitAreIsolated` and `HangsBeyondTheLimitEndRuns`
draw that line for all limits.

`docs/setup-wizard.md:237` says: "If validation is declined or fails, the generated
repo-local host or standalone flake is moved to a hidden sibling `.setup-recovery`
path." The question after a failed healthcheck still has the Previous button that
the interview left enabled; pressing it raises `SectionBack`, which nothing
catches, and setup ends with the host at its destination (run `setup_previous`).
It is the only step that breaks the promise (`OnlyPreviousLeavesRejectedHost`).

`docs/storage-backups.md:288` says of restores that a "failed import returns failure
and leaves affected applications stopped". `cleanup()` in
`restore-service-configs.sh:248` decides by `$?`, which, when SIGTERM, SIGINT or SIGHUP
ends the script, is still the status of the last command that ended, a zero: a
restore interrupted after its first change starts the applications on
half-restored files (run `backup_signal`). `NothingRunsOnPartialState` excepts it
(`released`). Without such a signal the promise holds (`StoppedUnlessSignalled`).

## Observations

What else was met while modelling; the properties except these cases by name or
the model leaves them out.

*Credentials.* `docs/media-operations.md:138` says that the synchronizer "refuses to
overwrite concurrent source edits". `save_encrypted()` compares the bytes
(`credential_store.py:284`) and renames a few lines later (`:293`); an editor takes
no lock, so an edit saved in between is overwritten without a refusal. The
properties about saves except exactly that window (`raced`).

*Reconciler.* A token that a user changes in an application is not detected, since
every test of it sends a message; `docs/services/ntfy-integrations.md:27-29` says so.
When such a token drifts together with another field, the update is tested with
the drifted token and refused, run after run, until the declared one is rotated;
`Converges` excepts it (`drifted`).

*Setup.*
- A switch that activates the host and then fails (a unit that does not start, say)
  is handled as any failure (`app.py:492-497`): the directory of the host that is
  now active moves to `.setup-recovery`. `HostIsWhereItBelongs` says that it is
  there or in its place.
- A healthcheck that cannot be run at all (the script is missing, or not
  executable) raises at `app.py:470`, outside any `try`: setup ends with the new
  host at its destination, and the next attempt finds it taken, which
  `docs/setup-wizard.md:236-239` does not mention.
- The rename of the staging directory (`app.py:156`, `:198`) replaces a directory
  that has appeared at the destination since the check if it is empty.
- `render_service_overrides()` never writes Tailscale, so deselecting it from a
  preset that has it is lost (`docs/setup-wizard.md:86`).
  `GeneratedMatchesChoice` leaves it out.
- A parity disk whose mount point is in use is skipped and has no place in the
  layout; when it was the only one, SnapRAID has no parity disk, and the generated
  host does not evaluate (`nas.nix:52`).
- Previous from the last section bounces back when there are no details to ask for.
- `shares_initialized` is set at the end of the details: Previous before that makes
  the next visit propose all shares again.
- Cancelling the password question after the switch prints "Setup cancelled before
  making changes." and exits with 0.
- A private key that was left without its public half makes every later attempt
  refuse, until the operator removes it. An interrupted attempt leaves its staging
  directory or its host; a crash between the switch and `passwd` a user without a
  password.
- Program flags of an earlier preset stay set when another one is chosen.

*Backup.*
- Backup and restore take no lock against each other: a backup that ends restarts
  units that a restore has stopped. The scripts of the model do not overlap.
- The latest copy is refreshed in place; a refresh that is cut off leaves a mixed
  copy that the validation of a restore accepts (`refreshing`).
- A unit that is `activating` is not `is-active`, so it is neither stopped nor
  remembered, and it may come up in the middle of a copy (`missed`).
- An incomplete restore of the indices leaves the cluster red, and `ready()` then
  refuses every later restore, although that would replace those indices.
- A snapshot that outlives its 180 seconds goes on; its repository cannot be given
  up and stays, with its directory.
- A backup that runs after a failed restore archives the half-restored files and
  refreshes the latest copy with them.

## Not modelled

| part | why |
|---|---|
| qBittorrent and SABnzbd categories, Prowlarr profiles, Seerr servers | they keep the same journal (`owned()`, `intent()`, `finish()`) as `ManagedObject` has, around writes of their own kind: a category is known by its name alone, a profile and a Seerr server have no masked credential, and an existing Seerr server is adopted by explicit selection and read again before and after it is written |
| root folders, Bazarr settings | a root folder that is there is left alone, one that is not is created; neither is owned or journalled |
| PostgreSQL and MariaDB dumps, the restore test, retention, Vaultwarden backup | sequential, around commands that succeed or fail as a whole; their failures are `Break` in `ServiceBackup` |
| container image overrides, Pi-hole synchronisation | one script against one file or one remote service; the hazard of each is listed |
| shared storage | creates and checks directories before the services start, with no other actor |
| SOPS policy, credential templates | text interpreted by SOPS; the writer appears in `CredentialStore` as an unlocked editor |
| registry, module assertions, NixOS modules | pure evaluation in Nix; what presets and overrides give is `HostServices` |
| video conversion, mirrors, copies, health checks, `nixstead` | batch scripts and read-only reports |
| the screens of the wizard | layout and wording |

## Running it

    tlc -workers 2 -config CredentialStore.cfg MCCredentialStore.tla
    tlapm CredentialStoreProofs.tla

The configurations are named after their modules and the question they ask. The
largest runs (`object`, 1.9 million states, and `backup`, 2.2 million) take one to
three minutes each.
