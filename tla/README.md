# A verification of ucloud-sandboxes

ucloud-sandboxes runs fleets of isolated sandboxes on rented workers. A gateway
decides which worker owns which sandbox, workers run, park (checkpoint), wake,
publish and delete sandboxes, and heartbeats tell the gateway what the workers
have. This project models the protocols by which the two agree on *who owns which
incarnation of a sandbox, and in what state*, how a create is queued, how a sandbox
moves between workers, and how one worker parks and wakes it without losing its
work; it checks them with TLC and proves the central properties with TLAPS.

Paths below are relative to `src/ucloud_sandboxes/` unless they start with `src/`.

## 1. The system and its parts

**Gateway.** `control_plane.py` handles each client request in a thread. Durable
state is in `routing.py` (SQLite, or PostgreSQL through `shared_control/`): one
route per sandbox with its generation, owner, lifecycle state, delete intent,
node epoch, activity revision and published snapshot. `control_state.py` keeps
the last accepted heartbeat of each worker; `gateway/heartbeats.py` applies
heartbeats and reaps what a rebooted worker left. `gateway/create.py` places
creates, `wake_placement.py` and `wake_admission.py` place wakes, and
`lifecycle_commit.py` validates and commits worker receipts. With PostgreSQL,
public creates are durable commands that a pool of placement workers claims and
replays (`shared_control/placement_queue.py`). Migrations are driven from a journal
in the routing store by the handlers of `control_plane.py`.

**Worker.** `node_agent.py` is its HTTP face, `node_runtime.py` and
`direct_service.py` its lifecycle, `direct_provisioner.py` its provisioning
pipeline, and `direct_registry.py` the SQLite journal that says which sandboxes it
owns, in which phase, and which generations and migrations are over, and how many
bytes of disk and memory each may occupy. `direct_warden.py` parks and wakes a
sandbox under a per-sandbox lock and keeps a lifecycle journal (`hibernation.py`);
`storage_native_daemon.py`, a process of its own, journals the sandbox's workspace
volume.

**How they interact.** A handler reads a route, calls the worker, and commits the
receipt. No lock spans these steps. What protects the route is fencing:

| fence | issued by | compared by |
| --- | --- | --- |
| generation | the gateway, with each incarnation (`sandbox_generation_hwm`) | every worker request, every route write |
| generation and migration tombstones | the worker, with each delete and move | `plan`, `plan_import` |
| node epoch (boot) | the worker, with each boot | `receive_heartbeat`, `LifecycleFence`, `retire_node_epochs` |
| activity revision | the worker, with each lifecycle step | `_route_update_is_current`, `set_sandbox_state_if_current` |
| delete operation | the gateway, with the first DELETE | every later write of the route |
| claim token and lease | the placement queue, with each claim | every route transaction of a queued create, `complete`, `defer` |
| migration id and phase | the gateway's migration journal | every step of the coordinator, the workers' fences and tombstones |
| volume revision, capture id | the storage daemon | its own transitions, `publish_snapshot`, the warden |
| mount epoch | the registry, with each mount | `release_published_workspace` |

The other parts (growth admission, model relay, pause tier, exec routing,
autoscaler, images, registry, builds, networking, the Rust daemon, the Go agents,
CLI and dashboard) are listed in `PROJECT.json` with the reason each is not
modelled.

### Hazards

What is hard to test here is listed in `PROJECT.json` under `hazards`, each at the
line where it bites. The main groups:

* answers, heartbeats and publications applied in another order than they were
  made (`routing.py:4893`, `node_runtime.py:1459`, `node_agent.py:309`);
* a route that changed between a handler's read and its write
  (`wake_placement.py:164`, `control_plane.py:884`, `control_plane.py:4162`);
* a worker that reboots, or a machine that crashes, between two steps
  (`routing.py:2726`, `direct_registry.py:1222`);
* requests that are lost, late or repeated (`direct_registry.py:1504`,
  `direct_service.py:850`, `routing.py:1881`);
* intents that must be carried out in the end (`gateway/heartbeats.py:119`,
  `control_plane.py:4613`, `control_plane.py:1545`, `direct_warden.py:1153`);
* a step that is performed twice or half, by two executions of one create
  (`shared_control/placement_queue.py:236`), by two gateways on one migration
  (`control_plane.py:1001`), or by a worker that dies in the middle;
* three journals that change one after the other while a publisher works beside them
  (`direct_warden.py:722`, `direct_warden.py:889`, `storage_native_daemon.py:2897`).

## 2. Modules

| module | what it is |
| --- | --- |
| `DirectRegistry` | the worker's journal: registration phases, tombstones, durability |
| `DirectRegistryProofs` | its theorems |
| `MCDirectRegistry` | its instance for TLC |
| `Fleet` | the routing authority, the workers, their heartbeats and the request handlers between them |
| `Incarnations` | abstract: what the routing authority promises about generations, intents and losses |
| `FleetProofs` | the types of `Fleet`, the shape of every step, the ledger invariant, the refinement of `Incarnations` |
| `FleetPresenceProofs` | what a heartbeat's inventory proves, and what may become of a detached route |
| `MCFleet` | the instance of `Fleet` for TLC; each `MCFleet*.cfg` is one run |
| `PlacementQueue`, `MCPlacementQueue` | durable create commands, their executions, and the DELETE that cancels them |
| `PlacementQueueProofs` | the safety theorems of `PlacementQueue` |
| `Migration`, `MCMigration` | the migration journal, its coordinator in two gateways, and the workers' side |
| `MigrationCallProofs` | the inductive invariant of `Migration`; the workers' side keeps it |
| `MigrationStepProofs` | the gateways' side keeps it |
| `MigrationProofs` | the types of `Migration`, and its safety theorems |
| `Parking`, `MCParking` | one worker: lifecycle journal, volume journal, claims, publishers, crashes |
| `ParkingProofs` | the safety theorems of `Parking` |

### DirectRegistry

State: `rec` is the registrations table, `tomb` the generation tombstones,
`retired` the migration tombstones, `disk` what an operating system crash
restores, and `view` what `abort_move` read before it got the lifecycle lock.
`imported`, `buried` and `ended` are history.

Every method of `DirectSandboxRegistry` is one SQLite write transaction, hence one
action; its guard is the method's fence and its error paths are disabled actions.
Every commit is fsynced except `commit_owned`, whose action leaves `disk` alone;
`Writeback` and `Crash` are the environment. Requests come with any generation,
operation and migration the gateway could have sent, at any time.

### Fleet

| state | code |
| --- | --- |
| `route`, `hwm`, `loss`, `dels` | `sandboxes`, `sandbox_generation_hwm`, `sandbox_losses`, delete operation ids |
| `seen` | the heartbeat row of each worker, with its retired epochs |
| `worker`, `box`, `tomb` | each worker's boot, activity revision and the transient part of it that the next heartbeat may miss (`lag`), its record and its tombstone of each sandbox |
| `beats` | heartbeats on their way, and being applied in three transactions |
| `req` | one record per request handler, and one per node for its reboot reaper |
| `committed`, `acked` | history: the last checkpoint a committed wake ran from, the generations whose deletion was acknowledged |

One request is a sequence of actions with the same handler `h`, cut where the code
lets go of the state: `ChooseNode`, `Allocate`, `WorkerCreate`, `StampCreate`,
`ConfirmCreate` for a create; `StartWake`, `WorkerWake`, `ValidateReceipt`,
`CommitWake` for a wake; and so on. `Forget` ends a handler at any point: the
client, the connection or the gateway process has gone. A heartbeat is `Sample`d,
received (`control_state.py`), replayed as an epoch retirement and reconciled
(`routing.py`), each in a transaction of its own, and may be dropped.

What is abstracted: create operation and spec hash are folded into the generation,
because each is fresh with it; node id, job id and URL into the node; an epoch
is a boot number; a snapshot is the number of the capture it was published
from, 0 for none. Time stamps only matter in the reconciliation, where `late` is a
free choice. Placement scores are a free choice of node. `Distributed` is
`routing_store.distributed`: with PostgreSQL `accept_publication` is one
serialised transaction, with SQLite it is two.

### Incarnations

The promise, without workers or messages: a generation is issued once, above all
earlier ones; it owns the sandbox until it is released or lost; a delete intent
ends only with its incarnation; a lost incarnation was nobody's intent. `Fleet`
implements it with `own` the route's generation, `high` the high-water mark,
`intent` the route's delete operation and `lost` the loss row.

### PlacementQueue

State: `cmd` is `gateway_commands`, `route` and `hwm` the sandbox's row and high-water
mark, `pending` its demand row, `exec` the executions of claimed commands, `del` the
DELETE handlers. An execution is the slot of one claim and stands for its claim
token. Its handler goes through the create handler of `control_plane.py` and
`gateway/create.py` one transaction at a time, and each of these transactions first
re-checks the claim and the command's binding (`Authorized`). A worker that loses its
connection, crashes or outlives its lease leaves that handler running, and `Claim`
starts another beside it. `Cancel` is the DELETE's first transaction, `DeletePrepare`,
the worker's acknowledgement and `DeleteCommit` follow. Payload and spec are folded
into the key, lease and deadline into two booleans that time may flip.

### Migration

State: `journal` is `sandbox_migrations`, `route` the sandbox's row, `reg`, `data` and
`retired` each worker's registration, copy of the files (as a version number) and
migration tombstones, `hand` the handlers, `stray` calls whose handler has gone.
A handler's step is one worker call or one compare-and-set of the journal:
`Plan`, `PrepareDone`, `ImportDone`, `SwitchRoute`, `ActivateDone`, `Complete`, and for a
rollback `Cancel`, `ImportUndone`, `Close`. The worker's part of each call is an operator on
its registration (`Prepared`, `Imported`, `ActivatedAt`, `Finalized`, `ImportAborted`,
`MoveAborted`, `DeletedAt`). `Stumble` performs half of one (a worker that fails between its
journal writes), `Lose` loses the answer, `Abandon` and `Land` let a call arrive after its handler
gave up, `Crash` ends a gateway. The sandbox may be woken and parked between requests, which
makes its files a new version.

### Parking

State: `life` is the lifecycle journal (with the authority it implies: `reaped` is
HIBERNATING after the sentry was reaped, `candidate` RESTORING after the candidate was
started), `sentry` and `cand` the two runtime processes, `art` the checkpoint with its
COMPLETE marker, `vol` the daemon's volume record, `led` the workspace charge and
mount epoch of the registry, `mem` claim and limit of the memory backing, `w` the
operation that holds the warden's lock, `pub` and `uploads` the publishers and the
daemon's uploads, `track` the resync of a restarted agent.

`park`, `resume`, `reconcile`, `grow_workspace` and the maintenance of idle claims run under
the lock; each is cut into the writes it makes, so that `AgentCrash` can come between any
two. What a storage call does is two steps: it is journaled as pending, and the
daemon finishes it (`FinishPrepare`, `FinishRelease`, ...) whether or not the warden still
waits; `DaemonRestart` comes between the two. `PublishRead`, `PublishBegin`, `FinishPublish`,
`PublishRelease` are `publish_storage_snapshot`, which uploads without the lock. Bytes are
abstracted to growth steps and one unit for a local layer; a capture is the
hibernation generation it was taken for.

## 3. What the runs check

Run with `tlc -config <cfg> <module>`; `PROJECT.json` lists the properties of each.

### Runs that pass

| run | question | bounds |
| --- | --- | --- |
| `registry` | Does the journal keep its fences under late, duplicated and reordered requests, moves and crashes? | 1 sandbox, 2 migrations, 3 generations, 8 revisions |
| `lifecycle` | Two parks or wakes race each other, the idle parker and lagging heartbeats: does the route ever offer a checkpoint the sandbox has run past? | 2 handlers, 2 captures, 3 revisions |
| `reboot` | Wakes and deletes race a reboot, the retirement of the old boot and the reaper: is a loss final, does an intent stick? | 2 handlers, 2 boots |
| `create` | Creates are replayed and confirmed late while they are deleted: is `Incarnations` implemented, does a removed route stay removed, is absence real? | 2 handlers, 2 generations |
| `placement` | A rejected create is retargeted, with SQLite: does one sandbox ever run twice? | 2 workers, 2 handlers, 3 generations |
| `detach` | A detach races wakes, publications and the idle parker: is the detached snapshot the newest, does it stay? | 2 handlers, 2 captures |
| `reaper` | Is a delete intent carried out through a reboot and lost answers, by a client that repeats it, and by the reaper alone? | 1 handler, 2 boots |
| `queue` | Two creates of one sandbox are executed twice, replayed, retargeted and cancelled: does what was deleted stay deleted, does a replay continue its own incarnation or none, does demand end with its command? | 2 commands, 2 executions at a time, 1 DELETE, 2 generations |
| `queue_liveness` | A worker dies or outlives its lease: is every create answered, and once? | 1 command, 2 executions, 1 fault |
| `migration` | Requests are repeated, rolled back and deleted under lost calls, half-done worker steps and gateway crashes: is there one owner with the newest files, does the route lead to it, is a switched move finished, is nothing left behind? | 2 workers, 2 handlers, 2 migrations, 2 wakes, 2 faults |
| `parking` | A sandbox is parked, published, grown and woken while agent, daemon and runtimes fail anywhere: do work, mount, charges and limits stay consistent, and does every interrupted park or wake settle? | 1 publisher, 2 parks, 3 mounts, 2 faults, 1 growth step |

**Why the bounds are enough to be interesting.** Routes of different sandboxes
meet only in a heartbeat, whose treatment of each is independent; one sandbox with
two handlers is where the races are. Two generations let a late message meet a
successor. Two boots are one retirement. Two captures tell an old checkpoint from
a new one. Activity revisions are bounded by the number of lifecycle steps a race
needs. `MaxLag` bounds the transient advances (those without a registry commit) since the
previous heartbeat that the revision of the next one may miss; one heartbeat at a time is on
its way in all passing runs (`MaxBeats`), and may be applied or dropped at any point. The
`Fleet` runs split the operations because all of them at once do not fit in minutes; each
race that a hazard names has both its sides in one run. Handlers, and workers
where there are several, are symmetric.

In `PlacementQueue` two commands with one key and two executions are the smallest
instance in which a replay, an orphan and a fresh create meet; a slot is
taken again once nothing holds its token, so the number of claims is not bounded. In
`Migration` two migrations let a late call of one meet the other, and two wakes let an old
snapshot meet new files. In `Parking` three mounts give a wake, a park and a failed wake with
a publisher from before them; two faults are a crash during the recovery from a
crash. `MaxRevision` only stops new publishers.

`Migration`'s passing run assumes a `Discipline` of the callers: a rollback, a DELETE and the
first request of a migration come when nothing else is in flight, while repeated POSTs
overlap ("alone"), and once a worker has begun to roll back, nobody but the rollback goes on
until it has succeeded ("through"). The code enforces neither; the table below shows what
happens without them.

**Fairness.** `FairSpec` assumes that heartbeats keep being sampled, accepted and
applied (each worker's heartbeat thread repeats them for ever) and that the reaper
threads run. `DeleteCompletes` adds, as its hypothesis `ClientRepeats`, that a
client repeats its DELETE and that its requests are not lost for ever (the SDK
retries). Fairness is strong where a step can be disabled and enabled again by
others, such as a handler that was forgotten. Nothing else is fair: creates, wakes,
parks and reboots may never happen. `PlacementQueue` assumes that the worker loop claims
what is due, that handlers and tasks run to their end and that time passes; `Migration` that
a client repeats the POST of a migration that is not over (the autoscaler does each
cycle), that handlers run and that calls are answered; `Parking` that the daemon finishes
what it journaled, that the holder of the lock runs while its agent does, and that an
unsettled sandbox is reconciled again (every request and every agent start does so).
Faults are never fair and bounded, so each liveness property says: once faults stop.

### Where the code and its documentation disagree

The run `partly_published` checks `PublishedIsWhole` of `Parking`. A sandbox is parked and
published, woken, parked again, and its next wake fails. `discard_mounted_cow`
(`storage_native_daemon.py:2482`) then calls the volume PUBLISHED because it has published
layers, although its newest sealed layer exists on this node only: publishing it again
returns at once with the old layers, and nobody charges the local one. The quotes it
contradicts are in `PROJECT.json` under `findings`.

The following are of the same kind: each is a property that a comment, a docstring or a
document of the repository states, and a configuration with which TLC shows a
behaviour of the code that breaks it. They are not part of the regular runs.

| configuration | property | what happens |
| --- | --- | --- |
| `MCFleetSqlitePublicationInserts` | `GoneStaysGone` | SQLite: accepting a publication inserts a route that was deleted after it was read (`wake_placement.py:181`; `routing.py:1693` "never authority to insert a route after deletion") |
| `MCFleetStaleDetachSnapshot` | `NoStaleCheckpoint` | a detach commits the snapshot of an earlier park over a later one (`control_plane.py:884`; `routing.py:2642` "never permission to restore a running sandbox from an old checkpoint") |
| `MCFleetDeleteOvertakes` | `AckedDeleteIsFinal` | a DELETE that overtakes its create is acknowledged, and the create then runs (`direct_service.py:850`; `src/docs/distributed-state-protocol.md:20`) |
| `MCFleetAbsentDelete` | `RunningIsRouted` | a DELETE that found no route removes, by name, one that was created since (`control_plane.py:4162`; `control_plane.py:2706`) |
| `MCFleetDetachingDelete` | `DeleteCompletes` | a DELETE of a route left detaching is refused however often it is repeated (`control_plane.py:4613`; `control_plane.py:4610`) |
| `MCFleetSqlitePublicationUndeletes` | `DeleteIntentSticks` | SQLite: accepting a publication erases a delete intent recorded after it was read (`wake_placement.py:181`) |
| `MCFleetUnpublishedPark` | `ParkedAloneIsNotPortable` | a heartbeat of an unpublished park makes a waking route portable with its previous snapshot (`routing.py:2597`) |
| `MCFleetLateStamp` | `NoStaleCheckpoint` | a record read before a wake gets a revision from after it and overwrites the wake (`node_agent.py:313`) |
| `MCFleetLateConfirm` | `DetachedStaysWakeable` | a late create confirmation makes a detached route a running one (`routing.py:4904`) |
| `MCFleetReconcileRaises` | `NoReconcileRaises` | a running observation of a detaching route fails the whole node's reconciliation (`routing.py:2571`) |
| `MCFleetSkippedBoot` | `OldBootStaysOut` | the heartbeat of a boot the gateway never saw replaces a later boot (`control_state.py:392`) |
| `MCFleetTwoLive` | `SingleLive` | a replay that read the route before it was retargeted runs the old generation beside the new one (`routing.py:1881`) |
| `MCFleetBootRewinds` | `RouteBootNeverRewinds` | a confirmation of the previous boot takes a re-adopted route back to that boot (`routing.py:4904`) |
| `MCFleetRejectedConfirmed` | `RunningIsRouted` | a rejected create removes the route that its replay has confirmed (`gateway/create.py:276`) |
| `MCMigrationHalfUndone` | `RouteHasCopy` | a rollback that undid only the import is followed by a repeated POST, which switches the route to a worker without the files (`control_plane.py:1647`; `cli.py:3262` "nothing is lost") |
| `MCMigrationOverlap` | `OneCurrentOwner` | a cancel that overlaps a POST of another gateway frees the source while the destination is activated (`control_plane.py:1610`; `src/docs/api-reference.md:437` "aborts only before the atomic route switch.") |
| `MCMigrationStranded` | `EndsClean` | a cancel that overtakes the prepare in flight leaves the source fenced for ever |
| `MCMigrationPinned` | `NothingPinned` | the DELETE of a detached sandbox does not resolve its migration and leaves the import on the destination (`control_plane.py:4615`; `src/docs/scaling-policy.md:620`) |
| `MCMigrationDelete` | `DeleteFinishes` | a DELETE that meets an activated journal is answered 503 however often it is repeated (`control_plane.py:1695`) |
| `MCPlacementQueueHidden` | `QueuedCreatesVisible` | the demand row of a queued create expires before the create does (`routing.py:41`; `src/docs/placement-authority.md:39` "Queued creates remain visible to the autoscaler.") |
| `MCParkingUnpublishable` | `ReleasedIsPublishable` | a daemon restart while a published volume's upper is discarded leaves it RELEASED with nothing to publish, so publishing fails until the next park (`storage_native_daemon.py:2897`) |

The passing runs leave out the operation that causes the disagreement, not the
race: `lifecycle` has no detach or replay, `placement` no replay, `detach` no create,
`reaper` no detach, `create` is in PostgreSQL mode, and `migration` has the discipline
described above. `parking` and the `queue` runs leave out nothing: the properties that
fail are simply not among theirs.

## 4. What is proved

Proofs are checked by `tlapm <module>`. All theorems hold for any sets of
sandboxes, workers, handlers, executions, deleters and publishers and any bounds; the
assumptions are `BoundsAssumption` and `NullAssumption` of `DirectRegistry`,
`FleetAssumption` of `Fleet`, `QueueAssumption` of `PlacementQueue`,
`MigrationAssumption` of `Migration` and `ParkingAssumption` of `Parking` (bounds are
naturals, null values are not members, operations are known). Where a theorem needs
more, its statement says so: PostgreSQL for most of the ledger, `Disciplined` for the
safety of a migration.

**The journal** (`DirectRegistryProofs`). `IInv` is inductive. Beyond the types it
says how far the crash image may be behind (`CrashLosesOnlyOwned`), because a crash
makes that image the state; that every buried generation is at or below its
tombstone and every registration a create inserted above it; that every migration
that is over is in the tombstones while the one at work is not; and
`RegistrationValid`. From it: `TypeCorrect`, `NeverResurrects`, `NeverReimports`,
`AlwaysValid`, `CrashSafe` and `IdentityIsStable`.

**The fleet's types** (`FleetProofs`). `TypeOK` is not inductive: a heartbeat or an
answer in flight is written into a route later. `IInv` therefore says what each
request holds at each step, for instance that a validated receipt carries a boot
and a state a route can have, and that an entry reported as parked or running is
one. `NextOK` shows that it is kept, with one named step per action.

**The ledger** (`FleetProofs`). Every step of every handler, worker and
heartbeat treats each sandbox in one of six ways: it holds the incarnation
(generation and intent unchanged, the activity revision not rewound within its boot),
issues a new generation above the high-water mark, records an intent, releases
the route, loses it, or overwrites it with a publication it read earlier. The
last is possible with SQLite only. `NextShaped` says which, with one named step per action. The
`Ledger` invariant says that a route's generation is at most the high-water mark
and, with PostgreSQL, that a loss is too and lies below the generation of the route
that exists. From the shapes and the ledger: `LossesAreFinal`, `GoneIsGone`,
`IntentsStick` and `Refinement` (`Fleet` implements `Incarnations`), all for
PostgreSQL, and `ActivityIsMonotone` for both. The SQLite runs above show that
the restriction is needed.

**What an inventory proves** (`FleetPresenceProofs`). A heartbeat is applied long after its
inventory was read, and by then the gateway may have confirmed a create, a park or a wake the
inventory does not know. That it nevertheless never takes a sandbox for gone that its worker
has (`AbsenceIsReal`) rests on the fences: a route that names a boot and an activity revision
is touched only by a heartbeat that is as recent. `Presence` makes that precise. `Came(n, s, g)`
says that worker n has, or has had and buried, incarnation g. `Vouched` adds that, while it has
it, every heartbeat of that boot without the sandbox was sampled below the revision. The
invariant says that each heartbeat on its way is below the worker's `Floor` (the least revision
a heartbeat sampled now can report) whenever it misses something the worker has (`Watched`),
that the fence of every confirmed route vouches for its incarnation or was given up with the
worker (`Backed`), and that so does the receipt of every request, at each step of each verb
(`Covered`). What a worker does raises its floor before it answers, and this is
why a receipt always vouches. `PresenceStep` reduces each action to what it does to those three; one named step per
action shows that they are kept. `AbsenceSafe` holds in both modes, from both initial states and
for every set of operations.

`DetachedSafe` (a detached route stays detached and portable until a DELETE ends it) uses the
same invariant: `Covered` says that a receipt about to be committed was taken while its request
held the route attached, and every commit compares the attachment. It assumes what the `detach` run has: a running
fleet without creates or replays, and publications accepted in one transaction. Without
the first, a late create confirmation makes a detached route a running one
(`MCFleetLateConfirm`); without the second, the insertion of `MCFleetSqlitePublicationInserts` writes
back an attachment read earlier.

**The placement queue** (`PlacementQueueProofs`). Every property of the
`queue` run, and `AnsweredOnce` of `queue_liveness`, is proved. `IInv` adds to them what they rest on. `Rows`: command ids
are given in order and a bound generation came from the counter, so that a new generation
is bound to no other row. `Routed`: so did the route's, and a submitted command wrote it.
`Executing`: a slot in use executes a command that was submitted. `Cut`: what a DELETE
cancelled has ended, before and after its acknowledgement, and a route that is not
the incarnation it prepared is of a later command; this is why an acknowledgement
that finds another generation is truthful. `Left`: a command that lost its
incarnation stays bound to it while it can be replayed, and that incarnation is not
back. Most steps are *quiet* (no row appears, none that is outstanding changes its
bond) or only bind one row, publish one generation, or remove the route; one lemma for each kind
(`QuietBonds`, `BindBonds`, `PlaceBonds`, `RemoveBonds`) shows that the bonds survive, and
one lemma per handler says of which kind it is. From `IInv`: `TypeCorrect`, `Deleted`,
`Binding`, `DemandIsOwned`, and the action properties `Replay` and `OneAnswer`.

**Parking and waking** (`ParkingProofs`). Every safety property of the `parking` run is
proved. None is inductive: each rests on what the journals say at the step the holder
of the lock has reached, and on what survives when that holder dies there. `IInv` has four
parts. `Typed` adds to the types the bounds that a later step relies on. `Journal` says, for
each step, what the lifecycle journal says (`Stages`), which processes may live and that
a capture being undone is not complete (`Custody`), that the volume is mounted or failed
under whatever runs or is about to (`Underneath`), how limit and claim stand between
their two writes (`Space`), and that an ended sentry left a capture with its layers (`Kept`).
`OffNode` relates the registry's charge to the mount epoch each publisher read: one that may
still uncharge the workspace has read the current epoch only if the volume is published.
`Covered` says that every charge written, or about to be written from a value read
earlier, covers the grant. One leaf per action shows that each part is kept; small lemmas
say what each record update leaves. From `IInv`: `TypeCorrect`, `UnchargedSafety`,
`ClaimSafety`, `RuntimeSafety`, `MountSafety`, `LimitSafety`, `WorkSafety`, and the action property
`CompleteIsFinal`.

**Migration** (`MigrationCallProofs`, `MigrationStepProofs`, `MigrationProofs`). Every safety
property of the `migration` run is proved. `TypeCorrect` needs no discipline; its
strengthening `Typed` adds that a handler carries the phase its step belongs to (`Due`)
and that a migration that has begun has two different workers. The others assume
`Disciplined`, the discipline of that run. Their inductive invariant has three parts.
`World` is the workers' side: at most one migration is at work, and its journal phase says
what source and destination may hold (`Source` before the route is switched,
`Destination` after), with nothing anywhere else; when none is at work the worker the route
names owns the current files (`AtRest`). A source that is fenced keeps the version of its
files equal to the snapshot in the journal until a worker starts to undo the migration, and a source that
serves again implies that the import is gone. `Handling` is the gateways' side: a handler
that may roll back or delete is alone, one that advances holds an entry the journal had
earlier (`Copy`), and an answer it has received is still true (`Heard`), whatever other
handlers did since. `Astray` says the same of a call whose handler has gone: it names the migration that is
at work or the last one that moved the sandbox, and the journal has reached the phase
in which that call is made, so that landing late it finds either the state it was sent for or a
worker that ignores it. A step of a gateway moves the journal *onward* (`Onward`: same
workers, a later phase), which is what keeps the other handlers' copies and the calls in flight
legitimate. One lemma per worker call and per step (`XKept`) shows that the three parts
are kept. From them: `OwnerSafe`, `CopySafe`, `CleanSafe`, and the action property
`RollbackSafe`. Neither half of the discipline can be dropped: `MCMigrationOverlap` and
`MCMigrationStranded` (without "alone") and `MCMigrationHalfUndone` (without "through") of
the table in section 3 break `OneCurrentOwner`, `EndsClean` and `RouteHasCopy`.

**Only model-checked:** the liveness properties (out of the prover's reach), and
`NoStaleCheckpoint`, `DetachedIsCurrent` and `SingleLive` of `Fleet`, which hold only for
the operations and the bounds of their runs.

## 5. What is not modelled

* *Incomplete inventories*: every inventory of `Fleet` lists all sandboxes of its worker.
  `heartbeat_proves_route_absent` is covered for complete ones.
* *Waking a portable park on another worker* and the admission queue of wakes.
* *Which sandbox is moved*, and the transfer of its files: `Migration` moves one sandbox whose
  snapshot is published.
* *In `Parking`*: deletion of a sandbox, pausing, sandboxes without split memory, overlap
  claims of reflinked files, import of a volume, and admission of the sum of all claims
  against the node's disk. Three windows that crashes open have no property of
  their own: a resync that writes a stale claim (`direct_warden.py:2810`), a generation left incomplete by a crash between
  `abort_hibernate` and its cleanup, and a workspace charged although it is still
  published after a crash between `reserve_workspace_for_mount` and the mount.
* *In `Migration`*: a soft-drain move that was rolled back keeps its stable id with a complete
  journal, so that the same id in the next cycle is answered as done.
* *Exec sessions, managed processes, program requests*: rows of the routing store
  that follow a route; they do not decide its ownership.
* *Growth and startup admission, model relay, pause tier, autoscaler*: protocols of their
  own that meet the modelled ones in one outcome each (a rejected create, a sandbox
  that stays running, a drained worker), which is a free choice here.
* *Images, environments, chunk store, registry retention, builds, networking, CLI,
  dashboard, metrics*: content conversion, subprocesses, kernel configuration and
  observation, with little state that several actors share. They are most of the
  repository's lines.
* *Snapshot references* in the registry and resource accounting.
* *Reads* that change nothing, HTTP parsing and authentication.
