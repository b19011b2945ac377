# Verification of the Extended Umbrella packages

This directory holds TLA+ models of the programs of this repository that keep
state, the TLC configurations that check them on small instances, and proofs
about them that TLAPS checks. The repository is an Umbrel app store; its
programs are the hooks of the lnSwitchboard package
(`extended-umbrella-lnswitchboard/hooks`). Paths below are relative to that
package unless they start with `extended-umbrella-litecoin-`.

Contents: [inventory](#inventory), [modules](#modules),
[the state migrator](#the-state-migrator), [its lock](#the-lock-of-the-migrator),
[the App Proxy configuration](#the-app-proxy-configuration),
[the Tailscale supervisor](#the-tailscale-supervisor),
[the zrok supervisor](#the-zrok-supervisor),
[the Mesh entrypoint](#the-mesh-entrypoint), [runs](#runs),
[findings](#findings), [proofs](#proofs), [abstractions](#abstractions),
[plan](#plan).

## Inventory

| component | state it keeps | operations | status |
| --- | --- | --- | --- |
| State migrator, `hooks/state-migrate.py` | application-data root, `secrets` (canonical state), `.lnswitchboard-state-stage-v1` (staging), `.lnswitchboard-state-backup-v1` (archives), `.lnswitchboard-state-migration-v1.json` (marker) | one run per package start: resume, recover, migrate, supersede, link | partly: all of the transaction, with the lock and the retirement of proxy temporaries in modules of their own; see [abstractions](#abstractions) |
| its lock, `protected_root` in the same file | owner and mode of the root, `LOCK`, the flock | protect, restore, take up an interrupted run | modelled |
| Tailscale supervisor, `hooks/tailscale-supervisor.sh` | queue, operations, claims, completed records, acknowledgements, results, disconnect journals, login.json, the node's state | main loop: consume, recover, clean up, claim and execute; recovery at the start | partly: without the status files that it writes and never reads |
| zrok supervisor, `hooks/zrok-supervisor.sh` | `ACTIVE` (phase, name, endpoints), command files, status, the provider's environment, names and shares | configure, disconnect, refresh, recovery at the start, watching the share | modelled |
| Mesh entrypoint, `hooks/mesh-entrypoint.sh` | identity file, connector state, token file (written by the application) | wait for a token, clear and record, supervise, withdraw | modelled |
| Prepare-state guard, `hooks/prepare-state-guard.py` | App Proxy configuration, owners of mounts | compare mounts, publish the configuration | partly: the publication; the mount checks are one-way I/O |
| Start order, `docker-compose.yml` | which service runs | migrator, then preparation, then application, then connectors | as guards of the other models |
| Litecoin packages, `extended-umbrella-litecoin-*` | none of their own | compose files of third-party servers | not modelled |
| Tests, gallery, CI workflow | none | | not modelled; the tests were read as a reference |

How they interact:

* The migrator runs to completion, alone and without a network, before
  anything else starts (`service_completed_successfully`); the application and
  the connectors write canonical state only afterwards. An older package may
  be installed over the result and writes through the rollback links, or into
  the root.
* The application drives each connector through files: Tailscale through an
  operation queue with results and acknowledgements under a lock, zrok through
  one file per command, Mesh through a token file. The connectors drive
  external programs (`tailscale`, `zrok2`, `warp`), which may fail, hang, or
  take effect and report a failure.
* The Tailscale protocol directory is part of the data that the migrator
  walks: its hard links meet the migrator's refusal of hard links.

What is hard, and what makes each component correct:

* *Migrator.* It can be killed between any two durable effects, and what it
  finds may stem from older migrators, an older package, or a restored backup.
  No state may be lost, the database and the key that decrypts it must stay
  together, a transaction must be resumed from what is on disk, a rerun must
  change nothing, and an older package must see the records of the newer.
* *Tailscale.* Side effects at a provider and durable records cannot change
  together. A command must run once, one at a time, and be answered; what is
  acknowledged must go; a teardown must reach only the node that it names and
  be finished when it says so; the authorization URL must not stay on disk.
* *zrok.* Several provider calls make up one command, each can fail, and a
  recovery at the start repeats them; an answer must belong to its operation;
  no share, name or environment may be left that nothing remembers.
* *Mesh.* The token file is read while the application writes it; state of one
  node must never run under the identity of another.
* *Lock of the migrator.* The root's owner and mode change while a run works
  and only a file knows the old ones: they must survive kills, power losses
  and a second run.
* *Prepare-state guard.* The proxy must never start from a partial file, and
  what an interrupted start leaves must neither block the next one nor be
  confused with a file of somebody else.

`PROJECT.json` lists each hazard at its line with the properties about it.

## Modules

| module | what it is |
| --- | --- |
| `StateMigrate` | the migrator, one action per durable effect, with its environment and its properties |
| `AtomicMigration` | the abstract transaction that the migrator's manifest promises; `StateMigrate` states that it implements it (`AtomicSpec`) |
| `StateMigrate_proofs` | theorems about `StateMigrate`, for every set of entries and every bound |
| `StateMigrateBound_proofs` | what the migrator binds and archives: the two invariants that need to know what is whole at which place |
| `StateMigrateAtomic_proofs` | what a transaction and a run that ends well achieve: the refinement of `AtomicMigration`, the marker, the links, the next run |
| `MCStateMigrate` | definitions for the `migrate_*` runs and one counterexample |
| `ProtectedRoot` | the lock of the migrator, over any number of overlapping runs, on a file system that writes back late |
| `ProtectedRoot_proofs` | theorems about it |
| `ProxyConfig` | the publication of `app-proxy.env` by the guard, composed with the retirement of its temporaries by the migrator |
| `ProxyConfig_proofs` | theorems about it |
| `TailscaleSupervisor` | the supervisor, the application's side of the protocol, the provider, and its properties |
| `CommandQueue` | the abstract command queue between lnSwitchboard and a connector; `TailscaleSupervisor` states that it implements it (`QueueSpec`) |
| `TailscaleSupervisor_proofs` | theorems about it, the refinement of `CommandQueue` among them |
| `MCTailscaleSupervisor` | definitions for the `ts_*` runs and one counterexample |
| `ZrokSupervisor` | the supervisor, the share process and the reader of its output, the provider, and its properties |
| `ZrokSupervisor_proofs` | theorems about it |
| `MeshEntrypoint` | the script, its connector and the writer of the token file |
| `MeshEntrypoint_proofs` | theorems about it |

Operators marked as mutants in their comment are not used by the models. Each
is a plausible error in the definition that follows it; replacing that
definition by it violates the property that `PROJECT.json` names, which shows
that the property depends on the code.

## The state migrator

### State

An entry (`lnswitchboard.db`, `connection-secrets.key`, a directory, ...) has a
content (`gen`, a number) and is whole or torn: torn is a copy that has begun
and not ended, or a half-removed directory. The code compares entries by bytes
and digests; contents that it tells apart are different numbers. A directory
may hold less than another and be a part of it (`Inside`, a transitive relation
of contents): `is_trusted_tree_subset` (line 330) accepts it then. How much of a
torn directory is left is not modelled: it is a part of whatever its content is
a part of, never all of it.

| variable | code |
| --- | --- |
| `root[n]` | `ROOT/n`: an entry, the rollback link to `secrets/n`, or nothing |
| `canonical[n]`, `canonDir` | `CANONICAL/n` and whether `CANONICAL` exists |
| `stage[n]`, `stageDir` | `STAGE/n` and whether `STAGE` exists |
| `backup[n][s]` | `BACKUP/n`, `BACKUP/n.2`, ...: archive generations |
| `snapshot[n]` | the temporary file of `copy_snapshot` |
| `marker`, `markerTemp` | `MARKER` (schema 0: none, 1: unbound, 2: manifest) and `MARKER_TEMP` |
| `hard` | connector directories that hold hard links at the moment |
| `litter` | where an interrupted verification left its temporary directory: `ROOT`, `CANONICAL` or `STAGE` (lines 402, 438-441, 1419, 1537) |
| `pc`, `manifest`, `todo`, `archiveOnly`, `partial`, `copying` | control and memory of `_main_locked` |
| `result`, `crashes`, `writes`, `losses` | how the last run ended; budgets |

### Actions

`Start` begins a run (`_main_locked`). From `main` the code branches: `Resume`
(a prepared marker), `RestoreLost`, `Supersede` and `Tidy` (canonical state
only), `LegacyStart`/`LegacyPrepare` (schema 1), `MigrateStart`,
`RemoveStageEntry`, `Classify`, `StageSource`, `Prepare` (sources in the root).
All of them that transact meet in `WriteMarkerTemp`/`SwapPrepared` and in
`execute_prepared_transaction`: `RecoverPresent`/`RecoverCopy`/`RecoverCommit`
per entry, `VerifyRecovered`, `CopySnapshot`, `ArchiveSource`, `ArchivesDone`,
`MakeLink`, removal of the staging area, `SwapComplete`. A `Refuse...` action
is a `fail(...)`. A copy is two steps, begun and ended, so that a crash can
leave it torn, and the removal of an already archived directory can stop half
way likewise.

`Crash` ends a run anywhere and keeps the disk; where the run was verifying a
database or a bundle (`Verifying`) it may leave the temporary directory of the
verification. Later runs meet it as a name that nothing binds: in `CANONICAL`
the marker does not match (line 1441), and a superseding run binds it; in
`ROOT` it counts as a source (line 1566); in `STAGE` it stays until the staging
area is removed, and a legacy recovery refuses (line 1519). Once a manifest
binds a leftover it is an entry like others and is not followed further.
Between runs `AppWrites` (only after a run that ended well), `RollbackWrites`
(an older package), `ConnectorLinks`, `OldTransientLink` and `LoseCanonical`
(with the rollback links, or leaving them to dangle) change the disk.
What the code reads and decides between two durable effects belongs to the
next effect's step: the migrator holds an exclusive lock and is alone.

`Init` is every directory that `_main_locked` may find at its first run, by
`Layouts`: interim state in the root with or without historical canonical
state, what schema 1 migrators left, an unmanifested commit loop cut short, a
half-removed directory.

## The lock of the migrator

`protected_root` (`hooks/state-migrate.py:103`) wraps every run: it takes a
flock on the root, records the root's owner and mode in `LOCK`, makes the root
private, runs `_main_locked` and gives owner and mode back.

| variable | code |
| --- | --- |
| `root` | owner and mode of `ROOT` |
| `names` | the files that `LOCK` and `LOCK_TEMP` name |
| `content[i]`, `synced` | what lock file `i` holds, and whether it survives a power loss |
| `disk` | `root` and `names` as a power loss would leave them |
| `holder` | the run that holds the flock |
| `pc[r]`, `original[r]`, `lockFd[r]` | where run `r` is, what it will give back, the lock file that it has open |
| `before` | history: owner and mode that the root had before any run |

`Start` and `Acquire` open the root and wait for the flock. `Adopt` takes over
the `LOCK` of an interrupted run, `Remember` reads owner and mode when there is
none; `Create`, `Write`, `Publish` write and rename the record; `TakeOwner`,
`TakeMode`, `Enter` lead to the body (which is `StateMigrate`); `GiveOwner`,
`GiveMode`, `Unlink`, `Release` lead back. `Refused` is a record that does not
parse. `Kill` ends a run and with it its descriptors and the flock;
`PowerLoss` ends all and leaves what `disk` and `synced` say.

An `fsync` is a condition of the step after it (`Durable`), and `WriteBack`
and `WriteBackRecord` may happen at any time: so a step that is not preceded
by the `fsync` that it needs can be lost or come back alone.

## The App Proxy configuration

Two programs share a directory. `write_proxy_config`
(`hooks/prepare-state-guard.py:64`) publishes `app-proxy.env` through a
temporary whose name contains the process id, the same at every start of the
container. `remove_owned_proxy_temporaries` (`hooks/state-migrate.py:556`)
clears, before that, what an interrupted start left: it validates the
temporaries, moves them to a private directory with `renameat2(NOREPLACE)`,
verifies that what it moved is what it validated, moves back what is not, and
only then unlinks.

| variable | code |
| --- | --- |
| `dir` | `app-proxy.env`, the temporaries under their names, the retired ones, the retirement directory |
| `disk` | `dir` as a power loss would leave it |
| `kind[f]`, `synced` | what file `f` is (the whole configuration, a prefix of it, foreign), and whether it is durable |
| `held` | `held`: the inodes that this run of the migrator validated |
| `pc` | the step of the start |

`Validate`, `MakeRetire`, `Move`, `Moved`, `Undo`, `Undone`, `Unlink`,
`RemoveRetire`, `Check` and `Refuse` are the migrator; `Create`, `Write`,
`Replace`, `Up` and `GuardFails` (the `except` branch) are the guard. `Start`
and `Stop` are the package's. Around them: `Kill`, `PowerLoss`, `WriteBack`,
`WriteBackFile`, an older package that leaves its own temporary
(`OlderPackage`), and another process that replaces a temporary (`Swap`).

## The Tailscale supervisor

### State

| variable | code |
| --- | --- |
| `operations`, `queue`, `processing`, `completed` | the four directories, as sets of operation ids |
| `old` | completed records whose retention has run out |
| `acks[o]` | `acks/o.ack`: none, whole (it contains `o`), or torn |
| `results` | operations with a result file; its text is not read back here |
| `journal[o]` | phase in `.lnswitchboard-disconnect-o.json` |
| `active` | `.lnswitchboard-active.json` |
| `node`, `running`, `funnel` | what the provider and tailscaled say: identity, Running or NeedsLogin, Funnel |
| `loginFile`, `login`, `loginAge` | `login.json`, the `tailscale up` process (`LOGIN_PID`), `LOGIN_COMPLETED_AT` |
| `daemon` | tailscaled: down, starting, up |
| `pc`, `op`, `back`, `reply`, `booting` | control: where the script is, `OPERATION_ID`, where it returns to |
| `command[o]`, `app[o]` | what the application recorded, and whether it linked it into the queue |
| `answered`, `used` | history: operations that got a result; identities given out |

### Actions

`Boot` is a container start; the recovery (`ResumeJournal`, `Relink`) follows
under the lock. `BeginPass` is the head of the main loop (tailscaled, the login
process, `expire_login_artifact`). Then come `consume_results` (`TakeAck`,
`ForgetResult`, `ForgetJournal`, `ForgetAck`, one removal each), recovery,
`cleanup_completed_operations` (`SweepOperation`, `SweepRecord`, `Trim`) and
`claim_next_command` (`DropClaim`, `ResumeClaim`, `DropQueued`, `TakeQueued`).
A claimed command is executed by the actions named after the functions; a
disconnect goes through `CheckTeardown`, `TeardownFunnel`, `TeardownLogout`,
`StartDeletion`, `DeleteEntry`, `DeletionDone`, `FinishDisconnect`, with
`Advance` for the phases that are only written. `Publish` and `Unclaim` end it.
Every provider call may fail, and the Funnel calls and logout may also take
effect and be reported as failed (`timeout` kills the client, not the effect).

The application, which is not in the repository, is modelled from the files
that the script reads: `Submit`, `Enqueue` (it may stop in between, or come
late), `Acknowledge`. It acts while the supervisor does not hold the protocol
lock. The lock matters: if the application writes acknowledgements without it,
one that is rewritten between the reading (line 621) and the removal (line 632)
is removed unread, and its result stays.

### What it implements

`CommandQueue` is the protocol without its files: a command is recorded,
claimed alone, perhaps interrupted and resumed, answered once, not executed
after that, and its result stays until it is acknowledged and does not come back
after the acknowledgement is released. `QueueSpec` maps the supervisor to it:

| `CommandQueue` | here |
| --- | --- |
| `recorded` | the operations that the application has recorded, whether or not it linked them into the queue |
| `claim` | `processing` |
| `running` | `Executing`: the operation in hand from its claim (or its journal) to its answer |
| `answered`, `results` | the same |
| `acked` | the acknowledgements that are whole |

The journals, the queue links, the completed records and the recovery at the
start, five files that are never changed together, are invisible in it.

## The zrok supervisor

| variable | code |
| --- | --- |
| `enabled`, `names`, `shares` | the provider: the environment (`zrok2 enable`), the reserved names, the shares in the environment |
| `active` | `ACTIVE`: phase, name, operation, whether it knows the endpoints |
| `status`, `control` | `status.json`, and the command files |
| `share` | the process of `zrok2 share`; its name stands for `share_pid` being set |
| `drain` | what the background reader of the share's output does next |
| `pc`, `job` | the step of the script; `operation_id`, the name, `created`, and whether this is the recovery at the start |

The actions are the calls of the provider and the writes of the files in the
order of the script: `Boot...` and `Recover...` for the start, `Take` for the
main loop, `Configure` to `RecordStarting` and `Undo...` for configure,
`StartShare` to `StartFails` for `start_share`, `Disconnect...`, `Forget` and
`Answer` for disconnect, `Refresh`. `ShareBoots`, `ShareDies`, `DrainRecords`
and `DrainAnnounces` are the share process and the reader, which write `ACTIVE`
and `status.json` beside the script. A `...Fails` action is a provider call
that fails, with its effect or without; a failing `zrok2 status` makes
`enabled()` (line 45) say no (`SeenDisabled`). `Take` reads a command file and
`Remove` removes it, and the application may write it again in between. That
`zrok2 enable` refuses an environment that is enabled is assumed of the
provider. `Kill` ends script, share and reader; the container is restarted.

## The Mesh entrypoint

| variable | code |
| --- | --- |
| `file` | `TOKEN_FILE`: node id and token, each of which may be missing |
| `last` | the newest node that the application created |
| `identity`, `state[e]` | `IDENTITY_FILE`; the node that entry `e` of `STATE_DIR` belongs to |
| `nodeId`, `token`, `current` | `NODE_ID`, `TOKEN`, `CURRENT_NODE_ID` |
| `child` | the token of the running connector |

The file is read a field at a time (`ReadId`, `ReadToken`, `Look`, `Compare`),
and `ReplaceNode`, `RotateToken`, `WithdrawNode` (of both fields or of one) and
`CompleteFile` (for the node withdrawn) may come between. `Start`
compares with the recorded identity, `Clear` removes one entry, `Record` writes
the identity, `Launch` starts the connector, which writes its registration
(`Register`). `Withdrawn` clears when the file changed and exits with 1, `Exit`
passes on the connector's status; `Restart` is `restart: on-failure` of
`docker-compose.yml`, so a connector that ends with 0 stays down until
`PackageStart`.

## Runs

Every run is exhaustive for its constants.

| run | instance | properties |
| --- | --- | --- |
| `migrate_core` | database (three contents: unsealed, sealed, empty) and key (two); interim and historical bundles in every combination, schema 1 layouts, interrupted commit loop; 2 crashes, each with or without a leftover of a verification, 1 write | `TypeOK`, `CompleteIsBound`, `NoMixedGenerations`, `NeverDestroysLastCopy`, `CommitsOnlyPrepared`, `AtomicSpec`, `PreparedCompletes` |
| `migrate_legacy` | and a directory that holds connector state; all layouts, half-removed directory; an older package may write over an interrupted transaction; 1 crash, 1 write | `NoMixedGenerations`, `NeverDestroysLastCopy` |
| `migrate_rollback` | and a transient SQLite file; rollback writes and the loss of the canonical directory, with and without the links to it; 1 crash, 2 writes, 1 loss | `RollbackSeesCanonical`, `MarkerCurrent`, `RerunChangesNothing`, `RefusesOnlyWedged` |
| `root_lock` | two overlapping runs, two owners, two modes; 2 kills or power losses | `TypeOK`, `OriginalKept`, `RecordsWhole`, `BodyProtected`, `GivenBack` |
| `proxy_config` | the temporary of the guard and of an older package, four inodes; 2 faults (kill, power loss, write error, older package), 2 replacements by another process | `TypeOK`, `ConfigWhole`, `OnlyValidatedRemoved`, `StartSucceeds` |
| `ts_disconnect` | two operations, logins and disconnects of two identities; 1 crash | `TypeOK`, `QueueSpec`, `NoRepeat`, `TeardownNamed`, `AnswersTrue` |
| `ts_operation` | one operation of any kind; the provider changes at any time; 1 crash, 1 accident; records grow old, none is kept beyond its pass | `EveryOperationAnswered`, `Consumed`, `LoginSecretExpires` |
| `zrok_share` | two names, three commands of any kind, 2 faults (failed call with or without effect, timeout, dead process, kill) | `TypeOK`, `OneShare`, `StatusHonest`, `DisconnectedIsDone`, `Answered`, `Serves` |
| `mesh_follow` | two entries of state, four changes of the token file, 3 kills or exits | `TypeOK`, `NotInherited`, `StopsOnlyOutdated`, `FollowsFile` |
| `connector_wedge`, `acked_teardown`, `mesh_handoff` | counterexamples, see [findings](#findings) | one property each |

What they show:

* The migrator mixes no generations of database and key, loses no copy of
  anything, changes canonical state only under a durable manifest, completes
  what it prepared, and implements `AtomicMigration`. After a run that ended
  well the older package sees canonical state through the links, the marker
  describes it, and another run changes nothing, unless a leftover of an
  interrupted verification is still to be bound: then one run supersedes the
  marker, with new archive generations, and the next one changes nothing. A run
  refuses a prepared transaction in two situations only (`RefusesOnlyWedged`):
  a torn staged copy (below the findings) and the hard links of finding 1. This
  is checked and proved while no older package writes between an interruption
  and the resumption (`MidwayRollback = FALSE`); one that recreates a source
  with other content gives a third (lines 1316-1319, `RefuseArchive`).
* The Tailscale supervisor with its crashes implements `CommandQueue`: it
  executes one operation at a time and none after its answer; it answers each
  recorded operation; tells the truth when a disconnect is complete; tears down
  only the named node before the answer; forgets what is acknowledged; does not
  keep `login.json`.
* Owner and mode of the root are never lost and are given back in the end, in
  whatever order the file system wrote the lock's steps back; no record is ever
  torn; migration runs alone and protected.
* The App Proxy configuration is whole whenever it has its name, also after a
  power loss. The migrator removes only what it validated, even if the name is
  replaced between validation, rename and removal. A start succeeds in the end,
  except with an untrusted entry or one that is both live and retired.
* The zrok supervisor serves one recorded share, says connected and
  disconnected truthfully, answers every command and comes back to its loop,
  unless it is stranded (below).
* No recorded Mesh identity has the registration of an earlier node, a
  connector is stopped only when the file does not name it, and in the end the
  connector runs with what the file says. Meanwhile it may run for two seconds
  over state of the earlier node (finding 3).

What the models reach and no line of the repository excludes, so that it is
stated in the properties and not as a finding:

* zrok: a kill between disable and the removal of `ACTIVE`
  (`hooks/zrok-supervisor.sh:219`), or a reconfiguration that disables and
  then cannot enable (lines 162-164), leaves `ACTIVE` without an environment
  (`Stranded`): every later start exits with an error, and the loop, which
  alone could take a command, is not reached. A kill after `enable` or `create
  name` and before line 181 leaves both with no `ACTIVE` to name them, and a
  disconnect is then refused. A kill between lines 220 and 221 leaves the
  status at what it was, which may be connected.
* zrok: if `zrok2 status` fails when a disconnect finds no `ACTIVE` (line 206), a
  disconnect is announced over an environment that may still be enabled. It is
  the exception in `DisconnectedIsDone`, which says of every other step that a
  disconnect is announced of what is gone. Likewise a configure whose status
  call fails goes on to `enable` without cleaning, and is refused by the provider
  and told as an error.
* zrok: a command written between the `cat` and the `rm` of the one before it
  (lines 150-151) is removed unread; `Answered` is about commands that were read.
* App Proxy: a kill in the middle of a retirement, and an older package that
  recreates the name of a retired temporary: every later start refuses
  (`Twice`, `hooks/state-migrate.py:669`).
* Migrator: a run that resumes a prepared marker returns before it scans the
  root (`hooks/state-migrate.py:1552`): an entry that an older package created
  meanwhile is taken up by the next start only.
* Migrator: a leftover of a verification in `STAGE` (line 1537) makes a legacy
  recovery refuse at every later start (lines 1519-1520); one in `ROOT` from
  the verification of archives (line 1419) is a source that the next runs refuse
  as divergent, or because its copy is root's own. The canonical directory lost
  without its links leaves them dangling, which line 1566 refuses.

`PreparedCompletes` is checked where the code does complete: without the loss
of the canonical directory and without connector links (the torn staged copy
and finding 1 are what happens with them). `TeardownNamed` is checked with the
provider's state changing between passes only (`ProviderRaces = FALSE`): the
identity is read in one call and the logout made in another, and the
`tailscale` command offers no call that does both. `QueueSpec` and `NoRepeat`
are checked with as many completed records kept as there are operations (the
default is 4096, and a month); in `ts_operation`, where none is kept, both fail.

### Bounds

| bound | why it is enough |
| --- | --- |
| `Inside` | one directory content that is a part of the other |
| two to three entries | the code's loops treat entries alike, except for the database and key pair, directories, connectors and transient files: each kind is there, and three entries let a loop be cut before, at and after one of them |
| contents per entry | two tell an old from a new generation; the third database content is the empty one, which the code treats apart |
| `MaxSlot` | archive names per entry. A transaction needs two; runs with more transactions than there is room for stop at `HasRoom`, which is a bound of the model and not of the code. The values let every write and loss have its transaction |
| `MaxCrashes` 1 or 2 | one crash at each point, and a second during the recovery from the first |
| `MaxWrites`, `MaxLosses` | an upgrade, a rollback that writes, a re-upgrade, and, in `migrate_rollback`, one more write and a loss |
| two operations, two identities | one to be cut short and one that comes after it; the node that is named and another. Symmetric in the safety runs |
| `MaxEvents` 0 or 1 | an expiry or removal of the node, a death of tailscaled, or a torn acknowledgement, in `ts_operation`. In `ts_disconnect` the node changes without them: a logout that took effect and is reported as failed lets the next login register another one |
| `MaxCompleted` | 2: no record is dropped (the default is 4096, two operations stand for fewer). 0: every record is dropped in the pass after it |
| `Runs`, `Inodes`, `MaxCrashes` in `root_lock` | a run that works and one that waits or follows; a record on disk, one in memory and one being written; a crash, and one in the recovery from it |
| `Temps`, `Files`, `MaxFaults`, `MaxSwaps` | both names that the code knows; the configuration, two temporaries and a new file; a fault and one in the clean-up of it; an entry put in the way before and after the rename |
| `Names`, `MaxCommands`, `MaxFaults` in `zrok_share` | the name in use and another; configure, reconfigure, and disconnect or refresh; a failure and one in the recovery from it |
| `Entries`, `MaxChanges`, `MaxFaults` in `mesh_follow` | clearing can stop between two entries; a replacement in each window of two looks; a kill in the clearing that follows a kill |

### Fairness

* `StateMigrate`: `WF_vars(Migrator)`. A running migrator takes its steps, and
  the package start is tried again: `state_migrate` runs before every start of
  the application. Nothing is assumed of the applications or of crashes, which
  are bounded.
* `TailscaleSupervisor`: `WF_vars(Supervisor)`, since the script is an endless
  loop that the container restarts (`restart: on-failure`) and whose provider
  calls are bounded by `timeout`; `WF_vars(DaemonReady)`, tailscaled comes up
  when started; `WF_vars(LoginAges)`, time passes. Nothing is assumed of the
  application, of the provider or of the end of a login.

* `ProtectedRoot`: `WF_vars(RunStep(r))` for each run, since a process gets on
  and the package is started again; `WF_vars(WriteBack)` and
  `WF_vars(WriteBackRecord)`: an `fsync` returns. `ProxyConfig` likewise:
  `WF_vars(PackageStep)`, `WF_vars(WriteBack)`, `WF_vars(WriteBackFile)`.
* `ZrokSupervisor`: `WF_vars(Supervisor)`, the script and its restart, whose
  waits have a deadline; `WF_vars(ShareProcess)`, a share process boots or dies
  and its reader reads. That a share stays alive is not assumed.
* `MeshEntrypoint`: `WF_vars(Entrypoint)`, the script and its restart.

The runs of `FairSpec` check liveness; a prepared transaction or a recorded
operation may otherwise wait for ever. Crashes and faults are bounded, so each
liveness property says what happens once they cease.

`CHECK_DEADLOCK` is left on but in `zrok_share`, whose loop only waits once the
bounded number of commands is used up: the other programs can always be
started again or have a loop that goes on.

## Findings

Each is a behaviour of the code that contradicts a line of the repository; the
run named produces the trace.

1. `connector_wedge` (`hooks/state-migrate.py:392`). A prepared marker binds
   the connector directories; verification of a bound authority walks it and
   refuses hard links, which the Tailscale protocol keeps there. `CHANGELOG.md`
   (0.4.0.rc35) says that validation skips these directories.
2. `acked_teardown` (`hooks/tailscale-supervisor.sh:629`). The result of an
   acknowledged operation is removed before its disconnect journal; a crash in
   between makes the next start resume a disconnect that had failed and was
   acknowledged, and log out the node registered since. `CHANGELOG.md`
   (0.4.0.rc31) promises "identity-bound destructive operations".
3. `mesh_handoff` (`hooks/mesh-entrypoint.sh:45`). Id and token are read in two
   looks and only the id decides whether state is cleared. When the node is
   replaced in between, the id still equals the recorded one, and the new token
   enrols over the state of the old node, until the next look withdraws both.
   `CHANGELOG.md:243` (0.4.0.rc14) says that the handoff "clears stale persisted
   registration state before enrolling a replacement node".

Three more differences between text and code were met and have no run of their
own:

* `hooks/state-migrate.py:1344`. The canonical directory is lost, and the run
  that restores it crashes while it copies an archive into the staging area.
  Every later run takes the torn staged copy before the intact archive and
  refuses: the transaction stays prepared. `CHANGELOG.md` (0.4.0.rc20) says
  recovery "resumes every marker/commit/archive boundary". `migrate_rollback`
  reaches it: `RefusesOnlyWedged` names it as an exception and fails without it.
* `hooks/zrok-supervisor.sh:175`. If `create name` fails and the `disable` that
  compensates for it fails too, the environment stays enabled and no `ACTIVE`
  names it: a disconnect is refused. `CHANGELOG.md:105` says "retain explicit
  cleanup authority when compensation cannot finish".
* `hooks/tailscale-supervisor.sh:461`. A disconnect answers `identity_mismatch`
  unless the backend is Running. `CHANGELOG.md:260` (rc11) says that a
  disconnect of an expired node "always completes teardown".

## Proofs

### The migrator

`StateMigrate_proofs` proves, for every finite or infinite set of entries,
every set of contents and every bound that satisfies the named assumptions of
`StateMigrate`:

| theorem | statement |
| --- | --- |
| `TypeCorrect` | `Spec => []TypeOK` |
| `Invariance` | `Spec => []IInv` |
| `CommitsPrepared` | `Spec => CommitsOnlyPrepared` |
| `CopiesSurvive` | `Spec => NeverDestroysLastCopy` |
| `ArchivesImmutable` | no step changes an archive generation that exists |

`TypeOK` is not inductive: that a manifest built by `LegacyPrepare` has
archive destinations rests on every named entry having an archive, which the
loop before it established. The inductive invariant is

    IInv == TypeOK /\ Control
    Control == LoopsOK /\ ManifestOK /\ ProgressOK /\ CopyingOK

* `LoopsOK`: what a loop has left to do lies in the range it runs over, and
  the `legacy` loop runs only when every named entry has an archive;
* `ManifestOK`: the manifest in memory is prepared while it is written or
  executed, it is the durable marker while it is executed, and a prepared
  marker excludes every other place of the program;
* `ProgressOK`: the entries that the recovery loop is done with are canonical
  with the bound content, and all of them are afterwards;
* `CopyingOK`: a copy that has begun is of an entry still to do, and goes to a
  vacant place.

There is a lemma per action (or per group of actions with the same effect on
the control state) that it preserves `IInv`; the lemmas `MemoryStep` and
`DiskStep` reduce a step to the part that it can disturb. The three action
properties follow from `IInv` in the unprimed state: `ManifestOK` identifies
`manifest` with `marker`, `ProgressOK` gives that an archived source's authority
is canonical, and `CopyingOK` that a copy overwrites nothing.

`CopiesSurvive` also rests on `WithinTransitive`: what is a part of a part is a
part, so that a copy of the whole survives when a part is removed.

Assumptions: `NamesAssumption` (database and key are among the entries;
directories, transient files and connectors are entries), `InsideAssumption`
(being a part of a directory is transitive), `NoneAssumption` (no
entry is `None` or the link, and they differ), `BoundsAssumption` (the bounds
are natural numbers and `MaxSlot` is at least 2: a transaction may need two
archive names). TLC evaluates them in every run.

`StateMigrateBound_proofs` adds, for the same constants,

| theorem | statement |
| --- | --- |
| `ArchivesBound` | `Spec => []CompleteIsBound` |
| `GenerationsMatch` | `Spec => []NoMixedGenerations` |

The two need more than `IInv`. A bound entry is whole because it was canonical,
or was staged from a source or an archive that was whole; and what is half
removed is never taken for a source. `BoundInv` says so, place by place:

* `Contents`: canonical entries and the entries that a manifest binds are
  whole, and so are the archives that a schema 1 marker names;
* `Staged`: while a manifest is being prepared, `staging` holds only entries
  that are not canonical, each equal to its source (or its selected archive);
* `Removals`: an entry that `archive_exact` has half removed is canonical too, or
  the prepared marker binds a copy of it; no run ends well with one left;
* `Archiving`: what the archive loop is done with is under its bound
  destination; with the check that `complete` makes of the authorities this
  gives `CompleteIsBound`, and `ArchivesKept` carries it through later runs;
* `Verified`: the pair that a manifest binds was verified together, and the
  canonical pair is verified again before the marker is completed.

`BoundInvariance` is proved by one lemma per part and step, over lemmas that
say which actions enter each place (`ArrivalSteps`), build each manifest
(`ManifestSteps`) and change `staging` (`StagingSteps`) and canonical state
(`CanonicalChanges`). Its parts imply the two
invariants that the `migrate_*` runs check; it is not checked by a run of its own.

`StateMigrateAtomic_proofs` proves what the transaction and the run as a whole
are for, under the assumption `~MidwayRollback` (no older package writes to the
root between an interrupted transaction and its resumption; `migrate_legacy`
checks what still holds when one does):

| theorem | statement |
| --- | --- |
| `Implements` | `Spec => AtomicSpec`: the migrator implements `AtomicMigration` |
| `MarkerDescribes` | `Spec => []MarkerCurrent` |
| `RollbackIsSafe` | `Spec => []RollbackSeesCanonical` |
| `RerunIsIdle` | `Spec => RerunChangesNothing` |
| `OnlyWedgesRefuse` | `Spec => RefusesOnlyWedged` |

* `Plans`: what is canonical is in the plan that is being written or executed,
  and a run that ended well leaves no prepared marker, so that no application
  runs while there is one. With `ArchivesKept` and the `Archiving` part of
  `BoundInv` each step then maps: the marker is replaced (`Prepare`,
  `Complete`), an entry is committed (`Commit`), BACKUP grows (`Archive`), the
  application writes (`ApplicationsWrite`), or nothing visible happens.
* `Outcome`: a run ends well only behind the comparison of marker and
  canonical state, or after the recovery loop went through the whole plan.
* `LinksOK`: every source found at the start is still to be archived or is gone,
  no link dangles during a run, and the link loops miss no entry.
* `Settled`, `Quiet`: after a run that ended well and left no directory of an
  interrupted verification there is no source, no staging, no link to make, and
  the marker matches; every guard that could lead a run elsewhere than to its end
  is then false. `EndsSettled` establishes it, `LitterSteps` that only a crash
  leaves something, `SettledRuns` that a run from there changes nothing.
* `Unwedged`: what a prepared marker asks of the next run is there. Its archive
  names are free or hold what belongs there (`Reserved`); an authority that is
  not canonical yet is whole in the staging area, or, after a loss of the
  canonical directory, in the archive (`Recoverable`); what the snapshot loop is
  done with is archived (`Snapshotted`). From every place where a crash can leave
  it a transaction is then taken up again, unless a torn staged copy hides
  the archive or a bound directory has hard links (finding 1): fixing these two
  makes `PreparedCompletes` a matter of fairness alone.

### The lock of the migrator

`ProtectedRoot_proofs`: `TypeCorrect`, `OriginalIsKept`, `PublishedWhole`,
`BodyIsProtected`, for any number of overlapping runs and crashes and any
owners and modes. `OriginalKept` alone is not inductive: after `Adopt` a run
gives back what it read from a record, and after `Remember` what the root had.
The invariant says of the record, in memory and as a power loss would leave it,
that it is complete, durable and the original (`Records`); that without a
record the root is the original (`Restorable`); and of every run what it knows
at each place (`Publishing`, `Writing`, `Holding`, `Changing`). The flock makes
all but one run idle (`Exclusive`), so a step of one disturbs none of the others.

Two theorems are about the end of a run rather than its middle. `StartsAlways`
(`Spec => []NeverRefused`): no run meets a record that does not parse, a `LOCK` that
appears beside the one it writes, or one that is not its own, so that nothing
left behind makes a start refuse. `GivesBack` (`Spec => EndsRestored`): a run
that ends without a crash has durably restored owner and mode and left neither
`LOCK` nor `LOCK_TEMP`. It needs `Ending`: the two names are never both there.

### The App Proxy configuration

`ProxyConfig_proofs`: `TypeCorrect`, `PublishedWhole`, `RemovesValidated`.
`ConfigWhole` becomes inductive with what the guard has in hand when it renames
(`Writing`: the temporary is the one it wrote, whole since then);
`OnlyValidatedRemoved` follows from `Retired`: at `unlink` every retired entry
is the one validated under its name.

`StartsUnlessCaused` (`Spec => RefusesForCause`): a start ends early only in a
step that fails or is killed, on an untrusted entry or one that is both live and
retired, or after another process put an entry in the way. It rests on
`Orderly`: unless somebody replaces it, what was validated is either under its
name or retired, and nothing is left under a name once all is retired; an empty
directory and a whole configuration always pass the last check.

### The Tailscale supervisor

`TailscaleSupervisor_proofs`: `TypeCorrect`, `ClaimsOne`, `DisconnectTrue`,
and `TearsDownNamed`, which assumes `~ProviderRaces`; for any operations,
identities, crashes and events. A disconnect is pending while it has a journal
and no answer. The invariant says where the supervisor can be, and with which
operation in hand, while one is pending (`Resumed`: the start takes the
journals up before anything else); that what the journal calls deleted stays
deleted, since no login can come in between (`Torn`); and that the node is
still the one that was compared (`Named`).

The queue, in the second half of the module:

| theorem | statement |
| --- | --- |
| `ExecutesOnce` | `Spec /\ RecordsKept => NoRepeat` |
| `ImplementsQueue` | `Spec /\ RecordsKept => QueueSpec` |
| `KeepsRecords` | `WithinLimits => (Spec => RecordsKept)` |
| `QueueWithinLimits` | `WithinLimits => (Spec => QueueSpec /\ NoRepeat)` |
| `LosesNothing` | `Spec => []NothingLost`: what was recorded and not answered is where the recovery looks, and unsettled |
| `KeepsResults` | `Spec => ResultKept`: no result goes before its acknowledgement |
| `HonoursAcks` | `Spec => AckHonoured`: a whole acknowledgement goes only when result and journal are gone |
| `WatchesSecret` | `Spec => []SecretWatched`: `login.json` is never there without a login process or an expiry to remove it |

`RecordsKept` says that a completed record is not dropped while a queue entry or
a claim is left that it settles. It is no assumption for convenience: without
it an entry that stayed behind is executed once more after its answer, and
TLC shows that. It is a property of the limits of `cleanup_completed_operations`
(line 594), and `WithinLimits` (no more operations than records are kept, none
older than a month) discharges it. The four other theorems do not need it.

* `Known`, `Forgetting`: only answered operations are settled or acknowledged, and
  what an acknowledgement releases goes in the order result, journal,
  acknowledgement. With them `NothingLost` is inductive.
* `Retained`, `AllSettled`: what is left of an answered operation in queue,
  claims or records is settled, so that `claim_next_command` drops it.
* `HeldJournals`, `PendingClaimed`, `InHand`: a journal of an answered disconnect
  has its result or its acknowledgement beside it; that of an unanswered one has
  a claim; and what is executed from a claim is unanswered. The refinement needs
  them for the second way into execution, the journals at the start.

### The zrok supervisor

`ZrokSupervisor_proofs`: `TypeCorrect`, `ServesOne`, `StatusTrue`,
`DisconnectDone`, for any names, commands and faults. A share process exists
only in the loop, in commands before they stop it, and while it is being
started (`Process`). When it is started the environment is clear of shares
(`Clear`), since a share whose endpoints `ACTIVE` knows is the only one; so the
one that comes up is the only one (`Serving`). Until it is announced nobody but
the reader writes the status (`Starting`), and `Recorded` ties `ACTIVE` to the
operation in hand. `DisconnectDone` says of every answer but the one in which
`zrok2 status` itself fails that environment and shares are gone, and of that
one that no process and no `ACTIVE` is left.

Three theorems are about what the liveness properties fear: `StartsUnhindered`
(`Spec => []SharesCanStart`), a share that is started finds environment and
name, and no other share; `EndsForCause` (`Spec => StopsForCause`), the
supervisor ends only by a failure, a kill, a dead share, stranded, or on a
disconnect of another name that came in place of the one it resumed;
`AnswersWhatItTook` (`Spec => EndsAnswered`), it comes back to its loop only
with an answer to what it took up or resumed. They rest on `Ongoing`: what the
command in hand still needs is at the provider, what `ACTIVE` records outside a
cleanup has its name, and a command being undone has said so in `STATUS`.

### The Mesh entrypoint

`MeshEntrypoint_proofs`: `TypeCorrect`, `NeverInherits` and `RunsOnStateOfPair`, for
any entries, changes and faults. The argument rests on the order in which nodes
are created: whatever the script has read, recorded or let the connector
register is not newer than what the file names now. The token is read after the
node id, so it belongs to the same node or a newer one: a connector finds state
of no node but these two (`RunsOnStateOfPair`), which is what is left of
`OwnState`. That the writer never goes back to an earlier node is part of the
model of the application.

`StopsOutdated` (`Spec => StopsOnlyOutdated`): a connector is stopped, and its
registration cleared, only if the file at that moment does not name its node with
its token, though the script looks twice; `LookedAt` says that a node that was
seen to be another is another until the script acts on it. `SettledStays`
(`Spec => StaysSettled`): a connector that runs with what the file says is left
alone while the file stays and nothing fails. Both except the look that found
no node id in a file that has been completed for the same node since: the
connector is then stopped and started again.

### Only model-checked

Every safety property of a run that passes is a theorem. The liveness
properties are not: they rest on fairness, hence on `ENABLED`, which is out of
reach of the provers installed. What they need of the states and steps is proved
where it could be stated; that steps follow each other until the goal is TLC's.

| property | its safety core |
| --- | --- |
| `PreparedCompletes` | `OnlyWedgesRefuse`: no refusal ends a resumed transaction, but for the two wedges |
| `EveryOperationAnswered` | `LosesNothing` |
| `Consumed` | `HonoursAcks`, `KeepsResults` |
| `LoginSecretExpires` | `WatchesSecret` |
| `GivenBack` | `StartsAlways`, `GivesBack` |
| `StartSucceeds` | `StartsUnlessCaused` |
| `Answered`, `Serves` | `AnswersWhatItTook`, `EndsForCause`, `StartsUnhindered` |
| `FollowsFile` | `StopsOutdated`, `SettledStays` |

## Abstractions

* Contents, digests, owners and permissions: an entry is a content and whether
  it is whole. `verify_database` and the decryption test of the bundle are
  `Coherent`: the database is whole and, if it holds sealed credentials, the
  key is the one that decrypts them.
* Copies and commits may be made in any order; the code sorts names.
* The refusal of an archive that somebody else placed under a recorded name,
  in `copy_snapshot`, has no step of its own: no modelled behaviour places one.
* The staging directory that exists empty between its creation and the first
  copy or a refusal is not a crash point of its own.
* The temporary directories of a verification are one per place (`litter`); what is
  in one, and how many crashes left one, is not modelled, nor is one that a
  manifest has bound. A leftover is made by a crash only: the code removes the
  directory when a verification fails.
* Not modelled in the migrator: the removal of a transient link by way of
  a retirement directory (lines 922-988: one step in `StateMigrate`; the same
  sequence of validate, rename, compare and unlink is modelled in
  `ProxyConfig`), the checks of reserved paths other than the App Proxy's.
* `ProtectedRoot` and `ProxyConfig`: the metadata of a directory is written
  back as a whole and in order, as a journalling file system does; a file that
  was not synced is a prefix of itself after a power loss.
* `ProxyConfig`: the comparison of mounts, the owners of the other directories
  and the `exec` at the end of the guard have no state that is read back.
* `ZrokSupervisor`: namespace and name are one value; endpoints are known or
  not known; the temporary files of status and `ACTIVE` are renamed in the step
  that writes them. A reader of an earlier share is taken to be gone when the
  next share starts (line 141 kills it, without waiting for its end).
* `MeshEntrypoint`: the grace period of `terminate_child` and signals other
  than the end of the container have no step of their own.
* Not modelled in the Tailscale supervisor: node, Funnel and lock status files (written
  and never read back by it), clean-up of provider processes, signals other
  than the end of the container, file names that are not operation ids.
* The loops of the Tailscale supervisor take their entries in any order. The removals in
  a loop body are separate steps; tests between two removals are not.
* The effects of `begin_login`, of `cancel_login`, and of the stops before the
  deletion are one step each, before the step that publishes. A crash inside
  them leaves what a crash before or after them leaves too, since a crash ends
  the processes.

## Plan

What is left, in this order:

1. The retirement directory of transient links inside `StateMigrate`.
2. The reader of an ended zrok share that writes once more before the kill
   reaches it.
3. A verification directory that a manifest has bound, as an entry with archive
   generations of its own.
