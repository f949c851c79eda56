# A TLA+ model of the OCI Ultimate Migration Tool

The migration tool is one Python service on an OCI instance (the *migration tool VM*, or
*helper*). It reads the disks of a virtual machine at its source, writes them to OCI volumes
that are attached to the helper, and gives the volumes to a new instance. This directory
holds TLA+ modules of the parts in which order and failure matter, the TLC configurations
that check them, and TLAPS proofs. Paths below are relative to `src/helper/helper_app/`
unless they start with `docs/`.

## The system

| component | state | operations | hard behaviour |
|---|---|---|---|
| `jobs/runner.py` | `_running`, `_cancel_requested`, `_sessions`, the slot counter and its condition, a thread pool | submit (one per kind), cleanup, resume_finalize, request_cancel, `_run_*_safely`, `_finish` | several tasks and requests on one job, failure at each step, slots, restart |
| `jobs/store.py` | the SQLite table of whole job documents | put, get, active_for_vm, delete_finished | lost updates: every writer writes its whole copy |
| `api/routes_jobs.py`, `api/routes_setup.py` | none | create, cancel, finalize, finish installation, purge, concurrency | read, test and write with a task in between |
| `sessions.py` | store of sessions; per session `_pins`, `_dead`, backends | create, get, logout, sweep, close_all; pin, unpin, kill | logout and expiry against jobs that use the connection |
| `oci/provision.py`, `oci/cleanup.py`, `disk/devices.py` | fields of the job record; `_attach_lock`; OCI and the kernel of the helper | prepare, finalize, cleanup, device discovery | asynchronous calls, waits that fail, a crash between a call and the save, two jobs on one helper |
| `disk/pipeline.py`, `disk/writer.py`, `disk/vmdk_stream.py` | bounded queue, worker, error and stop flag, file descriptor | feed, finish, abort, close | reader and worker against failure and cancel |
| `disk/copy_common.py`, `disk/vhd_range_copy.py` and the other range copies | iterator, stop event, failures; the SAS and its lock | run_workers, copy_ranges, refresh | many workers, one URL that expires |
| `azure/`, `aws/`, `gcp/`, `olvm/`, `nutanix/`, `proxmox/`, `hyperv/`, `vsphere/` | temporary source resources (grants, snapshots, images, leases, NBD servers) and their record | open, refresh, close, release | a crash or cancel between a call and its record; release without a login |
| `jobs/source_cleanup.py` | what the record lists | release_source | best effort, retried |
| `oci/iso_install.py`, `oci/seed_image.py`, `oci/image_import.py` | custom images found by tag | import, launch, finish, finalize | hand-over to a user, reuse across jobs |
| `oci/ova_export.py`, `oci/ova_import.py`, `oci/object_upload.py`, `ova/` | the stopped source instance, a multipart upload | export, import, restore | the source must be given back as it was |
| `console/` | sessions by key, viewers, asyncio tasks, a reaper | open, connect, release, close, reap | await points between look-up and use |
| `guest/` | the copied file system | initramfs, network, cloud agents | shell commands, sequential |
| `runtime_settings.py`, `updater.py`, `ui_password.py`, `auth.py` | small files, a systemd unit | read, write, start | read-modify-write without a lock |
| `disk/qcow.py`, `disk/vhd_image.py`, `nutanix/regions.py`, `ova/tar_index.py` | none | parsing, region merging | boundaries |
| `diagnostics.py`, `logging_config.py`, `sysstat.py`, `redaction.py`, `ui/`, deploy | none that a property is about | reports, a client of the API, Terraform | |

How they interact: a request handler looks up the session, writes the job document and hands
the job to the runner, which pins the session and queues a task. The task waits for a slot,
reads the document *once*, and from then on works on its copy and writes the whole copy back
after every step: `Provisioner.prepare`, the copy of the disks with the source's export, the
guest fix-up, `Provisioner.finalize`. A cancelled task tears down by itself; a job that is
not running is torn down by a task of its own. `_finish` drops whatever the runner keeps
about the job and unpins the session, which closes the source connection if its owner is
gone. A restart marks the jobs in flight as FAILED; cancel and finalize go on from there.

What makes each correct:

* runner and store: each job is in at most one pair of hands, `_running` says whose, the
  record exists and tells the truth while there is work, COMPLETED means that the instance
  serves, every task ends, a cancel in time is honoured;
* slots: none leaks, nobody sleeps beside a free one, the limit holds at every entry;
* sessions: no connection closes under a job, none stays open without an owner;
* provisioning: OCI's rules are respected, every disk gets its own data, the guest and the
  helper never use a disk at the same time, cleanup leaves nothing that is on record;
* copies: COPIED means that everything was written, and the copy ends;
* formats: what is read through a table, a map or a stream is what the guest saw, at its place;
* sources: what is made at the source is on record or undone, it lives as long as it is read, and
  no machine is stopped unasked;
* exports and imports: the source instance comes back whole, an object holds everything or is not
  there, an archive is listed as far as the disks its descriptor names before anything is built for it;
* images: an instance is launched from an image that fits it, whoever imported it;
* guest: the only copy keeps a bootable image, and nothing of it is mounted afterwards;
* consoles, settings, password, update: an answer given stays true across overlaps and restarts.

## The modules

| module | models | extends, uses |
|---|---|---|
| `SlotGate` | `_acquire_slot`, `_release_slot`, `set_max_concurrent` | |
| `Sessions` | `SessionStore`, `UserSession` | |
| `JobControl` | the life of a job: handlers, tasks, records, restart | `SlotGate` as instance `Gate` |
| `SourceExport` | the temporary resources at the nine sources, power-off, release | |
| `DiskCopy` | abstract: what copying a disk promises | |
| `DiskExport` | `_export_disk`, `PipelinedDecoder`, the writer | implements `DiskCopy` |
| `RangeCopy` | `_copy_azure_disk`, `run_workers`, `copy_ranges` | implements `DiskCopy` |
| `NbdPool` | the connections that the readers of a Proxmox disk share | |
| `VmdkStream` | the stream-optimized decoder, against the encoder | |
| `Qcow`, `VirtualDisk` | reading qcow2 images, and chains of VHD and VHDX files | |
| `ReadPlan` | the maps of the other sources: which ranges are read, and written where | |
| `Provision` | prepare, finalize, cleanup, device discovery; OCI and the helper's kernel | |
| `OvaExport`, `ObjectUpload` | the export of an instance with its restore; its multipart upload | |
| `OvaImport` | the import of an OVA, OVF set, VMDK or qcow2 object | |
| `ImageLibrary` | seed and ISO images that jobs share | |
| `GuestFix`, `GuestNetwork` | the fix-up session on the copied boot volume; its network step | |
| `Console` | the manager of remote consoles, OCI's connection, the SSH tunnel | |
| `Desk` | log-ins, the UI password, the settings file | |
| `Updater` | the self-update | |
| `MCJobControl`, `MCProvision`, `MCSessions` | constants and restricted specifications for TLC | |
| `MCJobs`, `MCSlots`, `MCCopies`, `MCVolumes`, `MCSources`, `MCHelper`, `MCImages` | one run each over several of the above | |
| `MCObjects` | the models of `MCImages` that are proved about: all but the formats and the read plans | extended by `MCImages` |
| `SlotGateProofs`, `SessionsProofs`, `JobControlProofs`, `RangeCopyProofs`, `SourceExportProofs`, `ProvisionProofs` | proofs about the module they are named for | |
| `HelperProofs`, `ImageProofs` | proofs about the models of `MCHelper` and `MCObjects` | |

Definitions whose name ends in `Slip` are plausible mistakes in the definition that follows
them: none of them is used by a specification, and each makes a property fail when it takes that
definition's place.

### How one run checks several models

The parts meet only through the job record and OCI, and each model keeps what it needs of these
itself. A run therefore puts models *side by side*, or, as `MCVolumes`, two cases of one model: its module extends one of them, takes the
others as instances over variables of their own, and has a variable (`alone`, `means`, `part`,
`exporting`, `installs`, `which`) that is chosen at the start and says whose steps are taken. The variables of
the others stay at one initial state, so the reachable states are those of the models one
by one, and so are the properties: a conjunct about a model that does not move is true of its
initial state. `MCImages` extends `MCObjects`, which extends `DiskExport`; their other nine models have no liveness and
share the variables `x1` to `x18`, for the same reason. `MCCopies` is `RangeCopy` beside `NbdPool`, `MCSources` is
`SourceExport` beside `OvaExport`. Where two models do interact it is by refinement or by instance:
`JobControl` uses `SlotGate`, and `DiskExport` and `RangeCopy` implement `DiskCopy`.

### State and actions against the code

**SlotGate.** `gate[t]` is where a thread is in `_acquire_slot`: it is about to look, asleep
in `_slots.wait`, in, refused, or done. `migrating` is the counter, `limit` the setting as
`max_concurrent` clamps it. One action is what happens while the condition's lock is held.
The order of the look matters: `Take` does not look at the cancel flag, as in the code, where
a free slot is taken before the flag is tested.

**Sessions.** `place` is the store's side, `dead`, `pins` the session's, `closing` the
decision to close that `unpin` and `kill` take under the lock and carry out after it.
`early` is history: the pins a session got while it was alive.

**JobControl.** `store` is the table. A task (`task[t]`) has its copy of the document and
the place it is at; a request (`handler[h]`) likewise. Every read of the record, every put,
every look at `_running` or the flag and every change of the runner's sets is an action of
its own, because other threads run in between. `Save` replaces the *whole* document by the
task's copy, `CancelNote`, `CleanupPut`, `FinalizePut` and `FinishPut` by the handler's. A
document is reduced to its phase, whether `instance_id` is recorded, and whether all disks
are COPIED, which is what the guards of the code look at. `cloud[j]` is the target instance as it
is: none, launched, serving, or terminated. Tasks of kind "run", "iso", "cleanup" and
"finalize" are the runner's `_run_safely` and its siblings for the other sources (which have the
same control), `_run_iso_safely`, `_cleanup_safely` and `_finalize_safely`.

**SourceExport.** What each source does is a *script*: a sequence of steps (look at the cancel
flag, note in the record, create, wait, drop, ...) transcribed method by method from
`<source>/export.py` and `<source>/client.py`. One action per kind of step runs it (`DoCreate`, `DoWait`, ...), and
`Run` says for each `_run_<source>` of the runner which scripts it runs for the machine, for each disk and
on the way out. `world` is what exists at the source, `info` the record in memory, `record` the stored one, `handles` what only
the export object knows. A create or a delete can fail with or without effect; a restart
leaves `world` and `record`.

**DiskExport.** `pc` is the reading thread, `worker` the decode thread of the attempt,
`queue`, `error`, `stop` the fields of `PipelinedDecoder`. A chunk is its number; `decoded` is
what went through the decoder of this attempt, in order. `pipelined` is the job's
setting. Errors are of two kinds, those the `except` clause of `_export_disk` retries and
others. `Close` may fail (fsync).

**RangeCopy.** `pending`, `stopped`, `failure` are the locals of `run_workers`, `sas` the URL
the workers read, `valid` the grant Azure accepts at the moment, `renewing` the holder of
`refresh_lock`, `recent` whether the last renewal is less than 30 seconds ago. Before the ranges are listed `expires_soon`
looks at the one time of expiry that the job keeps, which is that of the last renewal of any of its disks: the SAS of this disk
may be renewed though it is good (`List`), or have expired and not be renewed, and Azure refuses the list (`ListRefused`). A cancel
is also seen while Azure grants a SAS (`ListCancelled`, `GrantCancelled`).

**NbdPool.** `idle` is the queue, `open` the counter under the lock, `conns` the connections
that exist at the node. A reader gives its connection back or drops it.

**VmdkStream, Qcow, VirtualDisk, ReadPlan.** A disk is a few sectors or clusters, each zero or data. `Init`
chooses an image and how it is laid out; the actions are the reads of the code, and the
result is compared with what the guest saw, a definition written from the format and not from the
code (`Guest`, `Shown`, `Encode`, `content`). `VmdkStream` feeds the decoder pieces of any of
three lengths, also across sectors; `Qcow` groups clusters in the order in which they lie in the file; `VirtualDisk` follows a leaf through
its parents, with the slots for bitmaps in the block table of a VHDX; `ReadPlan` has the pages, joins
and cuts of the regions of Prism (`nutanix/regions.py`, both versions), of OLVM extents, of `qemu-img map`, of EBS blocks, and the
downloads without a map.

**Provision.** The record (`instId`, `volId`, `helperAtt`, `targetAtt`, `device`, `phase`,
`copied`) is kept apart from OCI (`inst`, `exists`, `help`, `targ`) and the helper's kernel
(`sys`): a call changes OCI, the save that follows changes the record, and `InstanceSettles`,
`TargetSettles`, `HelperSettles` and `Appear` finish what OCI was asked for at any later
time. `Trouble` fails any call or wait, with or without effect; `AttemptFails` fails one
attempt of the cleanup, which goes on with the next; `Unlucky` is a call that OCI refuses or a
device that cannot be identified. What OCI refuses is taken from `tests/fake_oci.py`.

**OvaExport.** `inst` and `source` are the instance and what it has attached, `helper` what the
tool VM has, `listed` what the record says of that. `step` is the call the task makes next and the volume it is about;
`Run` (with `PrepareExport`) and `Restore` say which call comes after it, depending on what the code finds at that moment (a data
volume that is not shareable is converted or detached), and `Needless` which calls are left out (a stopped instance is not stopped again). **ObjectUpload** is the writer of one volume:
parts, `close`, `abort`, and the list `_open_writers` the exporter keeps of them.

**OvaImport.** An object of the bucket has what an upload can get wrong as fields (a missing or
stray VMDK, a boot order, a dangling reference, a cut-off archive, a header that ends the listing and only matters if a disk comes after it). `Layout` is `parse_ova_layout`;
the actions after it are `prepare_placeholder` and the copy loop.

**ImageLibrary.** Images have a state, a mode, the schema's data volume type and a shape
entry; two jobs walk through `ensure_seed_image` or the ISO import, with every call a step.

**GuestFix.** What is mounted and active, and what the session has noted of it, are kept apart; an
image of a kernel has the drivers or not, or is lost; the kernels to do are a set, and `Turn` says whose turn it is. Any command may
fail: a mount that took too long may be made all the same, `umount` and `umount -l` may both fail, `vgchange -an` may, and `left`
is history of what that leaves. udev may activate the guest's groups before the session notes them (`UdevActivates`). Where there is no staging
directory a `dracut` that fails may leave anything in place of the image, and `RemoveTree` goes into what is still mounted. **GuestNetwork** walks through `apply`: `had` are the files the guest came with or
got, `written` and `labelled` those that the step wrote and labelled (in any order: each is labelled by itself).

**Console.** A coroutine runs until it awaits, so every action ends at an await. `sessions[k]`
is the manager's dictionary, `create[s]` the thread of `_create`, `conns` what OCI has, `bridge[v]` a WebSocket bridge with
the number of SSH hops it holds open. **Desk** has the hash file and its copy in memory, the
settings file (`torn` from the truncation to the write, which may fail: `StoreFails`), the sessions and cookies.
**Updater** has `src`, `venv` and `running`: what is checked out, installed, and running.

**DiskCopy** is the abstract specification of a disk's copy: `written` grows while the disk
is being copied, COPIED is entered only with everything written, and nothing is written after
it. The refinements map `written` to the set of decoded chunks and to the chunks written.

## What is checked

| run | instance | shows |
|---|---|---|
| `jobs` | two migrations of one machine, or a migration and an ISO installation; two tasks, one request at a time, one restart | `BookkeepingAgrees`, `CompletedIsServing`, `WorkIsRecorded`, `OneMigrationPerVm`; refinement: `UsesGate` |
| `slots` | three tasks, cap 2, every limit, cancel and restart; or two whole migrations, one slot, the second may be cancelled | `SlotAccounting`, `NoLostWakeup`, `GrowsWithinLimit`; liveness: `WaitersServed`, `TasksEndAsAsked` |
| `copies` | three chunks, two workers, two attempts, a fault, an expiry; or three NBD readers | `EachChunkOnce`, `ThreadsKeepOrder`, `NothingTakenAfterFailure`; liveness: `CopiesEnd`; refinement: `ImplementsDiskCopy` |
| `volumes` | one job with boot and data disk, all options, two faults, one restart; or two jobs, one with a data disk, no faults | `CallsGo`, `GuestAlone`, `JobsEndWhole`, `OwnVolume`; liveness: `PairSettles` |
| `sessions` | two sessions, jobs, requests | `EarlyPinProtects`; liveness: `ConnectionsEnd` |
| `sources` | nine sources, one or two disks, two attempts, one restart; or an OVA export of three volumes, two faults | `SourceTraced`, `ExportKeepsInstance`, `StopsOnlyWithConsent`; liveness: `AllGivenBack` |
| `helper` | two requests, one viewer, two keys of one instance; or two browsers and two changes; or two requests to update, three commits | `ConsolesHeld`, `ConsoleOpens`, `SettingsFound`, `ChangesAreWhole` |
| `images` | a stream of four chunks with a queue of two; or one of nine models, see below | `StreamKeepsOrder`, `UploadsWhole`, `LaunchedAsNeeded`, `ImportWhole`, `DisksReadBack`, `GuestStaysWhole`; liveness: `StreamEnds`; refinement: `StreamImplementsDiskCopy` |
| `stale_cancel` | two migrations, as `jobs` | violated: `CompletedStays` |
| `wrong_volume` | two jobs with volumes of one size | violated: `OwnVolumeAlways` |
| `retry_finalize` | one job, all options, a failing wait | violated: `FinalizeIdempotent` |
| `ova_boot` | an archive of two disks, no faults | violated: `GoodObjectIsImported` |

The properties with a name of their own in an `MC` module, and `BookkeepingAgrees`, `StreamKeepsOrder` and
`SourceTraced`, are conjunctions of properties that the
models state; the comment of each says of which. Each `TypeOK` is among them. Every conjunct that
is not a type has a `Slip` in its model that breaks it.

### Bounds, and why they are enough

* `jobs`: `Task` bounds the tasks handed to the pool in a behaviour: two are enough for a run and a
  cleanup or finalize of the same job, a run and a run, a cleanup and a second cleanup. `Cap = 1` makes
  the two migrations wait for each other. One request is in flight at a time; it may stop
  between any two of its steps while tasks and the restart go on. `MaxRestarts = 1`. Tasks are symmetric.
  Next to an ISO installation the migration is only created and run: what is asked of a migration later
  on is asked of the two migrations (`OnlyCreated`).
* `slots`: with three tasks and a limit of one or two there are at once a holder, a sleeper and a
  third task that may overtake; every change of the limit crosses the number of holders both
  ways. With whole migrations restarts are off (a restart ends all tasks) and requests that start more tasks on a job than
  run and cleanup are left out; the tasks are used in a fixed order. No symmetry, as liveness is checked.
* `copies`: three chunks for two threads: one thread gets two of them, or the third is left
  when one fails. `Faults = 1` next to one expiry separates the two causes of a retry;
  two requests per chunk are the fewest with a retry. Three readers for a pool of three, five connections and five reads: a
  connection can be dropped and replaced twice. As the settings give the pool one place per reader, no reader
  ever waits for a connection: the wait that `Reserve` enters and `Get` ends is in the model and is not reached, as `NobodyWaits` says.
* `volumes`: two faults fail a first attempt and its retry, or a job and one attempt of its
  cleanup; one restart at every point. Two sizes of the same or another value are all that
  `device_size_matches` tells apart. Two jobs meet at the lock and the scan, the data disk of one in
  the middle; `PlainSpec` fixes their options (shareable attachments, started at the end), as they do not
  touch the helper, and `PairNext` has neither faults nor a restart, as the one job has them. Both are behaviours of
  `Provision` with the same constants: where one job is alone, the other does not begin.
* `sessions`: two of everything lets `Pop` take one or both sessions, two jobs share a session,
  and a second request pin a session while it is being killed. A session is created once.
* `sources`: two disks where what is made for one disk may outlive it or meet the next one (Azure, AWS, OLVM,
  Proxmox), one where the script is the same for each; two attempts of a disk; one restart; any
  number of failing calls and of repeated clean-ups. The export has a boot volume and two data volumes of any kind (shareable, not
  shareable, emulated), `MaxFaults = 2`, one restart.
* `helper`: two requests are enough for an open beside an open, a close or a replace; two sessions let a
  key be used again; one viewer stays behind or leaves. Two changes of two values overlap in every
  order. Three commits: one that runs, one that is fetched, one that is pushed meanwhile. Requests are
  symmetric: none of these properties is a liveness property. One fault or restart.
* `images`: four chunks of the stream are two more than the queue holds, so the reader meets a full queue with
  the worker in any place, and two attempts leave the worker of one beside the other. A disk of up to five or six sectors has a last grain that is cut off and one of zeros; two tables; a
  request that is split because it is too long; a VHDX table with two bitmap slots; pages that end in the middle of a region; a
  volume as large as the disk or not. Two jobs in the library, two kernels, two groups, room for
  up to three units in /boot, of which a generic image takes two and a host-only one takes one. In the fix-up two commands or writes may fail, the failing
  `vgchange -an` not counted: two are what a failed installation takes to lose an image. One or two faults for each other model, given in the `.cfg` or in the module's instances.

### Fairness

* `SlotGate`: a thread that is awake looks, and a wait of one second ends
  (`wait(timeout=1.0)`). Nothing is assumed of the holders, except where `WaiterAdmitted` says
  so in its own premise.
* `Sessions`: a logout goes on from pop to kill, and the thread that decided to close closes:
  both are straight-line code. Jobs need not end.
* `JobControl`: every task takes steps: calls to OCI and to the sources have timeouts.
  Requests and users are not fair.
* `DiskExport`, `RangeCopy`: reader, worker and download threads take steps: reads have timeouts, and
  a write returns some day.
* `Provision`: threads run, and OCI finishes what it was asked for; its failure is
  `Trouble`, which is not fair.
* `SourceExport`: the task takes steps, a transfer that nobody finishes expires, and *somebody repeats
  the cleanup with a log-in*, as the job's message asks (`docs/limitations.md`, "Retry cleanup"). A deletion that is tried again and
  again works some day: strong fairness, as each attempt ends whether it worked or not. Without the last two, nothing
  would be released, and the code does not claim it.
* `OvaExport`: the task takes steps, and somebody asks for the cleanup of an export that ended
  without COMPLETED. Failures are bounded by `MaxFaults`.

`CHECK_DEADLOCK FALSE` is set where the system may come to rest: all tasks used up, the copy
over, the service shut down, all jobs done.

### What the four violations say

`stale_cancel`. *"Completed migrations cannot be cancelled through this endpoint."*
(`docs/limitations.md:46`.) `cancel_job` tests the copy it read, then puts that copy back. A task
that saves COMPLETED in between is overwritten.

`wrong_volume`. The lock around the attachment of boot volumes serialises boot volumes only.
A data volume of another job that appears during the wait, of the same size, is the "one new disk".
`OwnVolume`, in `volumes`, holds under the condition that the sizes differ and
that nobody gave up a wait while its disk could still appear.

`retry_finalize`. *"it is idempotent and needs no source session"*
(`docs/architecture.md:210`). An attachment is on record before it is waited for, and a
retry skips what is on record. `CompletedWhole`, a part of `JobsEndWhole`, shows that a finalize which
is called once ends with everything attached and the instance as asked for.

`ova_boot`. *"The tool reads the OVF descriptor (... boot disk)"* (`docs/how-it-works.md:532`). The
placeholder is built as if the first disk were the boot disk, and attached by the flag that the
descriptor sets. `ImportWhole`, in `images`, is what does hold of the import.

### Stated, known not to hold, without a run of their own

Each is stated next to what does hold; the run that checks the latter is named.

* `OneTaskPerJob` (`JobControl`, in `jobs`) with `Handler = {h1, h2}`: two cancels, or a cancel and a
  finalize retry, that both find the job not running each start a task.
* `FinishedInstanceStays`, `IdleMeansFinished` (`JobControl`): a cleanup that is queued when the
  user reports an ISO installation as done terminates the instance; a cancel whose note is put
  after INSTALLING was saved leaves the job in PROVISIONING for ever.
* `HeadroomKept` (`SlotGate`): migrations that wait for a slot occupy pool threads beyond the limit
  and leave none for cleanups.
* `ClosedOnlyAfterJobs` (`Sessions`): a session killed between the request's look-up and the
  job's pin is closed under the job. `EarlyPinProtects` is what does hold.
* `CopiedIsSynced` (`DiskExport`): COPIED is saved before the fsync, whose failure fails the
  export but leaves the status.
* `NothingWritesAfterClose` (`DiskExport`): a write that takes longer than the 30 seconds `abort`
  waits goes on after the descriptor is closed. `ClosedAfterWorker` says that nothing else does.
* `CancelLeavesNothing` (`SourceExport`, in `sources` as `NothingLeftBehind`) for AWS, Azure and
  Nutanix: what is recorded only after the wait for it (`aws/export.py:65`, the grant in `azure/export.py:92`, the recovery
  point and the image of Nutanix) is left when the wait is cancelled. `docs/how-it-works.md:427-428` says *"The snapshots are
  deleted when the job finishes, fails or is cancelled."* A lease of vSphere that is not ready in time is likewise
  neither completed nor aborted (`vsphere/export.py:114`).
* `CompletedLeavesHelper` (`OvaExport`): the restore passes over a failed detach from the helper, also on its way
  to COMPLETED, which no cleanup follows.
* `ObjectIsWhole` (`ObjectUpload`) with two exports at a time: `cleanup` aborts every open writer of the
  exporter, and the other export's upload starts anew with its last part. The runner has one exporter (`jobs/runner.py:113`).
* `LaunchPinned` (`ImageLibrary`) with jobs that overlap: an image is AVAILABLE before it has its schema, and
  two jobs repair it to different devices. `LaunchPinnedAlone` and `LaunchFits` hold.
* `WatchedIsKept`, `ClosedIsDeleted`, `OneLiveSession` (`Console`): the reaper closes by key what it looked at before an
  await; a cancelled creation goes on in its thread, and nobody deletes the connection it makes
  (`docs/how-it-works.md:583`); two requests with different keys of one instance both create (`:595`).
* `SavedIsFoundAlways` (`Desk`): two handlers that read, merge and write the settings file at the same time, or a
  restart between truncation and write, lose a change. `SavedIsFound` excepts them. So does a write that fails when the file
  has been emptied, on a full disk (`runtime_settings.py:60-66`: a logged warning): a limit that was answered as saved *earlier* is
  lost. Both properties take that as an exception, as `StoreFails` forgets what was saved; the next limit that is saved is found.
* That nothing is mounted or active after the guest fix-up, and that every kernel keeps its image (`GuestFix`). `NothingLeft` excepts
  what `left` names: a mount that `umount` and `umount -l` both failed on (`guest/initramfs.py:209-214`), a group that
  `vgchange -an` failed on (`:859-863`), a mount that was made after its time-out, and groups that udev had activated
  when the session gave up before it noted them (`:557-582`). `rmtree` of the mount point then goes into such a mount (`:864-868`).
  `ImagesKept` excepts a guest without a staging directory, whose image `dracut --force` writes in place, for one failure;
  the two failures after which the backup of an image is removed although it could not be copied back; and images under a mount
  that `rmtree` goes into.
* That a SAS which expires costs no attempt (`RangeCopy`): `ExpirySurvived` is about the threads. One that expired before the ranges are
  listed costs an attempt when the SAS of another disk of the job was renewed meanwhile (`jobs/runner.py:645`,
  `azure/export.py:97`), and every other attempt while the job's time of expiry is not near.
* `GuestIsCopied` (`Qcow`) with `Preallocated = TRUE`: a cluster that reads as zeros and kept its place in the file is
  copied with what lies there.

### Assumptions of the models

* `JobControl`: the copy, prepare and finalize inside a task are one step per save;
  what they do to OCI is in `Provision`. A teardown may fail as a whole or succeed. A resumed
  finalize works on a record that says FAILED until its first save, so `WorkIsRecorded` speaks of
  runs and ISO jobs. `OneMigrationPerVm` speaks of runs: a resumed finalize does not touch the source.
* `SourceExport`: the copy of a disk is one step with three outcomes; two resources of one kind and disk are told
  apart by the attempt that made them, where their names differ. The machine is turned off by the job only.
* `DiskExport`: the decoder notices at `finish` that the stream ended early. `VmdkStream` says when:
  not if the stream breaks off exactly between two markers (`disk/vmdk_stream.py:206`).
* `RangeCopy`: a request that was refused has reached `refresh` within the 30 seconds of the
  renewal, and a SAS lasts longer than that. Whether the job's time of expiry is near is any outcome, as it is that of any disk.
* `Provision`: volumes of a job are taken in any order where the code takes them by index;
  `TERMINATE` takes effect at once; a copy writes all disks in one step.
* `OvaExport`, `OvaImport`: a wait for a state is part of the call before it. Finalizing and cleaning up an
  import are those of `Provision` and one step here.
* `VmdkStream` and the other formats: a sector is zero or data; which data does not matter, only whose.
* `GuestNetwork`: a legacy `network` service on a guest without systemd counts as handled when the udev rules are
  disabled, as in the code (`docs/limitations.md:25`: "RHEL 6 style guests without systemd (udev rule only)").
* `Console`: one instance, whose two keys are its job and itself.

## What is proved

For every number of tasks, jobs, sessions, requests, disks, chunks, workers, attempts and restarts, from the modules'
named assumptions on their constants only. These ask for finite sets, positive bounds, values that are not records where
they stand for no record (`NoRecordAssumption`), and what the code itself sees to: a queue of at least one place
(`StreamAssumption`; `PipelinedDecoder` refuses less), at least one worker (`RangeAssumption`), at least one disk and one
attempt (`SourceAssumption`), finitely many disks, each of one job only
(`ProvisionAssumption`; the kernel has a letter for each), a place of the pool for each reader, as one setting gives both
numbers (`PoolAssumption`), a boot volume of an instance that is exported (`ExportAssumption`), finitely many viewers of a
console, which have a counter (`ConsoleAssumption`), a browser (`HelperAssumption`), and an object of at least one part
and of a kind the import knows (`ObjectAssumption`).

* `SlotGateProofs`: `TypeOK`, `SlotAccounting`, `NoLostWakeup` and the action property
  `GrowsWithinLimit`. `SlotAccounting` is inductive with `TypeOK`; its proof goes through the set of
  holders, which `Take` and `Release` change by exactly one element (`HoldersChange`) and
  nothing else changes (`HoldersSame`). `GrowsWithinLimit` follows from it: the counter tested
  by `Take` is the number of holders.
* `SessionsProofs`: `TypeOK` and `EarlyPinProtects`. The latter is not inductive: `PinInv` adds
  that an early pin is among the pins, and that before shutdown only dead sessions are closed.
* `JobControlProofs`, of the runner: `TypeOK`, whose part `TasksTyped` says that no task ever works on a
  missing record; and `ImplementsGate`: every step of `JobControl` is a step of `SlotGate` or
  leaves the gate alone, so that `SlotAccounting`, `NoLostWakeup` and `GrowsWithinLimit` hold of the
  runner. The cancel flags of `SlotGate` are mapped to the tasks whose job is in
  `_cancel_requested`.
* `JobControlProofs`, of the records: `RunningHandled`, without any condition: a job that the runner takes for running has a task that
  will let go of it. And with the condition `[]RequestsApart`, that two requests in flight at the same time are about
  different jobs: `BooksAgree` (`BookkeepingAgrees`), `WorkRecorded` (`WorkIsRecorded`), `CompletedServes`
  (`CompletedIsServing`) and `MachineOnce` (`OneMigrationPerVm`). The condition is not for convenience: without it
  `OneTaskPerJob` is false of the code, as two cancels of one job that both find it idle start two cleanups (see below
  "Stated, known not to hold"), and with it the clients are asked only not to do that; requests about
  different jobs, also of one machine, overlap in any way, with tasks, purges and restarts in between.
  The run has one request at a time, the theorems any number.
  The properties are not inductive. `BookInv` adds that nobody works on a job that a request is about to hand
  to the pool, which `RequestsApart` keeps true until it does (`RequestsFree`). `RecordInv` says what
  every *copy* of a record that is still to be saved may do to it: a request's copy does not settle the record of a job at
  work, and what goes on to the pool is not COMPLETED (`CopiesHarmless`); neither the record nor the copy
  of a job at work is settled (`WorkIsOpen`, `BusyNotDone`); a machine has one claim, the
  request between its save and its submit included (`OneClaimPerVm`). A task's step is first reduced to
  what it does to the record and the copy (`TaskKeepsRecords`), so that one lemma serves the steps of all tasks.
* `ImageProofs`, of the stream: `StreamInOrder` (`StreamKeepsOrder`): what the decoder got is a prefix of the stream in order,
  through the queue, its time-outs, the drain and the end marker, and the descriptor is closed only after the worker;
  and `StreamImplemented` (`StreamImplementsDiskCopy`). The inductive invariant (`StreamInvariant`) relates the threads:
  what each may be at while the other is where it is (`ReaderInv`, `WorkerInv`), and `HandOver`: the number in the
  worker's hand follows what is decoded, the queue follows the hand, and what is
  read follows the queue. It is given up when the stop flag is set, from when on only the last chunk decoded may be out
  of order (`OrderInv`): a worker in a write finishes that write. COPIED needs it at the join: the worker has ended,
  unaborted, the queue is empty, so everything read is decoded.
* `ImageProofs`, of the five other models of `MCObjects`, side by side with each other:
  - `UploadsAreWhole` (`UploadsWhole`), of one export at a time; with two the property is false of the code (see above).
    `UploadInv`: every part that is listed went to the upload that is still there, and there are as many as the
    place of the writer says; while no call failed there is no other upload.
  - `LaunchesFit` (`LaunchedAsNeeded`), of any number of jobs that share the library and overlap in any way. `LibraryInv` says of
    each job that what it has chosen exists, is imported and of its mode (`ImageSound`) and where it may have a placeholder in the
    bucket (`ObjectSound`); and, while everything goes well, that one job is at work at a time and an image has its
    schema when its job is done with it (`CleanInv`). A step of one job changes images that others have chosen: what it may do to
    them is stated apart (`StepImages`), so that one lemma (`OthersStay`) serves all the other jobs in the steps of each.
  - `ImportsWhole` (`ImportWhole`), for archives of any number of disks. `ImportInv`: the disks of the job are those of an object
    that was found readable, and nothing is built before they are (`LayoutRead`); a disk that is still to be copied does not
    count as copied (`StillToCopy`).
  - `GuestKeptWhole` (`GuestStaysWhole`), for any number of kernels and volume groups, with up to two failures. `GuestInv`: what is
    mounted or active has been noted down or is among what `left` names, and when the notes are empty only the latter is still
    there (`Noted`); while kernels are rebuilt, each has its drivers,
    or its turn is to come, or it cannot have them, and one is left for want of room only when another was rebuilt, the default
    one never (`Surveyed`). `NetworkInv` (`Given`): a stack whose step has gone well has its files, and what `setfattr` has
    passed over has its label unless one failed; also with up to two failures. What is excepted of the fix-up is listed above.
* `HelperProofs`, of the three models of `MCHelper`, each of which runs as by itself (`EachByItself`):
  - `ConsolesAreHeld` (`ConsolesHeld`) and `OpensAgain` (`ConsoleOpens`). `ConsoleInv`: a session is under one key, the one its
    bridges know it by (`Keyed`); its counter is not above the number of viewers that have a bridge to it (`NotOvercounted`);
    and between its look at the sessions and its registration a request is alone, so that nothing it saw has
    come alive (`Alone`), which is what the lock around both is for.
  - `SettingsAreFound` (`SettingsFound`). `SettingsInv` follows the limit from what was answered to the file through the copy
    of the file that a handler is about to write back. A save that cannot open the file is covered; one that fails or is cut
    off after it has emptied the file is an exception of the property.
  - `ChangesWhole` (`ChangesAreWhole`), an action property of the password and the self-update. `PasswordInv`: memory and file
    differ only between the two steps of one handler; `Noted`: the sessions a handler is about to end are no younger than
    its note of them; `UpdateInv`: with systemd there is one script at a time, and the one that restarts has installed what is
    checked out.
* `SourceExportProofs`: `ConsentFirst` (the action property `StopsOnlyWithConsent`) and `MigrationTraced`
  (`SourceTraced`), for all nine sources. What the scripts have in common is proved of them first (`Shape`): which kinds of
  step stand at which place; what is listed first is noted directly before its `Create`; what only the
  export object knows is kept directly after it; nothing is taken away after something was made. Then
  `SourceInv`: the task runs a script of that shape (`Placed`); it goes to turn the machine off with consent only
  (`AskedFor`); what is listed first is in the stored record *and in the task's*, which overwrites
  the stored one with its next save (`Traced`); what the disks of an earlier script or attempt are copied from exists
  or is still to be made by the rest of the script (`Sourced`); and while no call failed, whatever exists is what
  the release will find, but for one thing made in this very step (`Tidy`). The last is for the sources that can name
  what they make (`NamesWhatItMakes`); for the others the property is false of the code.
* `SourceExportProofs`, of the export of an instance: `ExportKept` (`ExportKeepsInstance`), for any number and kinds of volumes.
  `ExportInv` says what has been taken apart before each call of the run (`RunSound`: the data volumes one after the other, the
  instance running while one is still to be attached as shareable, then stopped, then without its boot volume), and what is back
  before each call of the restore (`RestoreSound`); that nothing is taken apart before the record knows the volumes
  (`InstanceSound`); and that without a failure the record names what is on the helper (`HelperSound`). `CallAccepted` follows: OCI
  refuses a call only after something failed. So a step either succeeds (`PassesKept`) or is one of a job in trouble, and the
  restore starts from any state of it (`RaiseKept`, `RestoreBegins`): it looks at what is attached, not at what was done.
* `ProvisionProofs`, for any number of jobs and disks, faults and restarts: `CallsAreAccepted` (`CallsGo`), `EndsWhole`
  (`JobsEndWhole`), `GuestNeverShares` (`GuestAlone`), and `EachItsVolume` (`OwnVolume`). Three groups of invariants, each
  with the ones before it:
  - `ProvisionInv`. The record has what the place of the thread takes it to have (`Recorded`), the kernel has each
    attached disk once (`KernelInv`). `GuestAlone` is not inductive: `GuestInv` adds that the helper has nothing of a copied migration
    that the record does not name, so that the finalize which detaches what is on record detaches everything before it starts
    the instance, and that the instance is stopped from the detachment of its boot volume on. `LockInv`: a
    boot disk is attached and searched for under the lock.
  - `OwnInv`. Of the boot disks only that of the holder of the lock has come since its scan: every other that
    is attached was found, and so was visible to the scan (`SeenInv`). That is the reason for the lock around
    *both* the attachment and the search. That a search never ends for want of a device letter is a pigeonhole argument
    (`FreePath`). `EachItsVolume` has the hypothesis `SizesDiffer`, and `OwnVolume` the premise that no wait was given up:
    `wrong_volume` shows that the code does not do without the first, a late disk of an abandoned wait is the second.
  - `EndsInv`. What the target has at each place of prepare and of a finalize that is not called again (`PlugInv`,
    `BootInv`, `TargetInv`), from which `CallsGo` and the end of a migration follow (`EndInv`); everything attached is on
    record or a stray (`TraceInv`), and what a cleanup without a failed attempt has taken away by its place (`Cleaned`).

  Each `Step` lemma takes one group through the actions of a job one by one, those of failure and cancellation included;
  `SettleKeeps` and `RestartKeeps` do the same for OCI, the kernel and the restart.
* `RangeCopyProofs`: `RangeTypeCorrect`; `EveryChunkOnce` (`EachChunkOnce`);
  `NoneTakenAfterFailure` (`NothingTakenAfterFailure`); `CopyImplemented`
  (`ImplementsDiskCopy`: `Spec => Copy!Spec`); `OrderKept` (`ThreadsKeepOrder`). `EachChunkOnce` is not inductive: that a
  disk's chunks are all accounted for at the join needs that an ended worker without a
  failure leaves nothing pending, that the stop flag is set exactly after a failure, that a
  worker holds a chunk exactly between `Take` and its end (`Carrying`), and that an attempt
  starts with nothing written (`Phases`). `StepShape` reduces the nine worker steps to four
  effects on the chunks (kept, taken, done, dropped); the invariant is then kept by each of
  the four. That a disk is COPIED only with every chunk written (`JoinCopied`) uses the
  assumption that there is at least one worker, which the code grants (`max(1, ...)`).
  `OrderKept` is about the two models of `MCCopies` side by side, each of which runs as by itself (`SideBySide`).
  That no thread gives up for expiries alone (`ExpirySurvived`) is a count: as long as nothing else failed and nobody cancelled, the
  requests a thread has made for its chunk are at most one more than the expiries, and no more than these once it was refused or
  while the SAS is not valid (`RequestsInv`). What carries it is `GrantInv`: a renewal, which revokes the SAS that others are using, begins only
  after an expiry that no thread has answered; when the window of 30 seconds is over nobody who was refused before is left.
  For the pool, `PlacesInv` counts: `_open` is the readers that connect or read and the idle connections, and with the
  readers that still need a place, or gave theirs back and have not closed the connection, it is not above the number
  of readers, because a reader needs a place only after it met an empty queue, when it is in neither group. From this follow
  `NobodyWaits` and, with where each connection is (`OpenInv`), `ConnectionsClosed`.

The proofs speak of the specifications `Spec` of the models; `OrderKept`, `ExportKept` and the theorems of `HelperProofs` and of the
models of `MCObjects` speak of the specifications that put several side by side, which the runs check (`ObjectsSpec` is the part
of that of `images` that moves these models). Each inductive invariant was first checked by TLC on an instance of its module.

Not provable with this prover, and left to TLC: all liveness properties (`WaitersServed`, `TasksEndAsAsked`, `CopiesEnd`,
`PairSettles`, `ConnectionsEnd`, `AllGivenBack`, `StreamEnds`), as they rest on fairness; and `DisksReadBack`,
as what the recursive definitions and the folds of the formats compute needs induction over data. All other properties of the passing runs are stated by a theorem.

## Not modelled

Inventory, preflight, log-ins to the sources, mapping tables, formatting, diagnostics, the UI and the deployment have no
behaviour over time. Of the formats, the parsing of headers and the codecs are data. The cloud clean-ups of the
guest edit single files. The creation of OVA export jobs and their place in the pool are not part of
`JobControl`, so that two exports of one instance (`api/routes_jobs.py:649`) are a hazard without a property. What a
part leaves out is in its note in `PROJECT.json`.

## What is left

1. OVA export and import jobs as kinds of tasks of `JobControl`.
2. The cloud clean-ups of the guest as steps of `GuestFix` of their own.
