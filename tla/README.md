# Verification of KikiAOSP

TLA+ models, TLC runs and TLAPS proofs for the programs of this repository: the
native OTA updater, the camera provider and the release pipeline (build, incremental retries,
system package, native package, promotion) of the `kikiaosp_test` device. Every definition was translated from the source; the
file `PROJECT.json` maps each one to the lines it stands for, and lists the
runs, the slips ("mutants") that show each property can fail, the hazards of
the code and the theorems.

## The system and its parts

| Part | State it keeps | Operations | Talks to |
|---|---|---|---|
| OTA updater service (`UpdateService.java`) | preferences `pendingSequence`, `stage`, `rebootReady`, `acceptedSequence`; staging files; fields `installing`, `candidate`, `stageFile` | check, install, apply, resume, reboot; `onCreate`; the two engine callbacks | update_engine (binder), boot properties, the activity and the control receiver (intents) |
| Control receiver (`ControlReceiver.java`) | none | BOOT_COMPLETED and shell broadcasts become commands | updater |
| Update activity (`UpdateActivity.java`) | the status text | sends commands, shows text | updater |
| Camera sessions (`SurfaceCamera`) | configured streams | configure, capture requests, close | transport |
| Camera transport (`SurfaceCameraTransport`) | port descriptor, owner | acquire, capture, release, all under one mutex | the Windows bridge over virtio-serial |
| Frame copies (`copyToYuv`, `copyToScaledNv12`, `copyToRgba`) | none | scale and convert a frame into a buffer | gralloc buffers |
| Release preparation, build, packaging (`scripts/*-clean-release.py`, `build-boot-payload.py`) | `prepare.json`, `build-audit.json`, worktrees, checkout, output, boot payload | prepare, build, resume, package | git, repo, nix, the AOSP build |
| Retries and incremental seeds (`resume-native-release.py`, `seed-incremental-release.py`) | a new record over an old checkout, or over a copy of one; modification times | retry, seed, resume | the release build's records and trees |
| System package and its validator (`package-clean-release.py`, `system-package.py`) | the staged images, the licence files, the ZIP and what stands beside it | stage, write, read back, validate, publish | the release build's images |
| Native A/B packaging, promotion | proof files, copied records | package, complete, promote | the release build's records |
| Storage accounting | four system properties | inventory of both slots; Settings readers | init triggers, updater's refresh property |
| Synchronous PCM output (patch) | the open ALSA proxies | write, reopen and retry | ALSA |
| Boot scripts, scanout, test UI, probes, demo app | none that others read | run once | init, DRM, surfaces |
| Product configuration, overlays, prebuilts, vendored patch | - | - | the build |

How they interact: the release build makes the system whose sequence the updater
compares; the updater hands a payload to update_engine, which writes the
inactive slot; the host's virtual bootloader chooses the slot at a restart; a
native startup check sets `sys.kiki.ota.boot_verified`, which the updater
waits for. A successful installation also asks init to run the storage
inventory again. The camera is independent of the updater.

### What is hard in it

- **Updater.** Two threads edit the same preferences: the single worker, which
  runs the commands, and the main thread, which runs `onCreate` and the engine's
  callbacks. `clearPending()` is called by both. update_engine outlives the
  process; the process and the machine can die between any two commits; a new
  slot may be refused, or booted and then abandoned. Correct means: no
  downgrade and no duplicate reaches the engine; an update is recorded as
  installed only when it runs for good; a failed one can be installed again but
  is not resubmitted by itself; the only fallback slot is not overwritten; an
  interrupted update is taken up or given up; no flag is stuck.
- **Camera transport.** One port, several sessions, a mutex held during blocking
  reads, a peer that refuses, sends garbage or hangs up, and a stream in which a
  failed exchange may leave bytes. Correct means: the old sensor is released
  before the new one opens; a session never gets the other sensor's picture; the
  HAL and the bridge agree when nothing is under way; no call keeps the mutex.
- **Frame copies.** Index arithmetic with scaling, chroma subsampling, padding
  and two layouts. Correct means: no access out of bounds, and a complete
  picture in every buffer that is reported as filled.
- **Release build.** Hours of steps over directories, resumed after failures,
  with the record rewritten in place, and a checkout and an output that remain
  editable. Correct means: a package holds what it claims; the record never
  claims work that was lost; patches are never applied twice; a build can be
  finished or says that it needs a hand.
- **Native packages.** A package is made in one pass over a dozen files, finished by
  another program when the pass failed, and promoted long afterwards; files are put
  back or exchanged by hand in between. Correct means: what is delivered is one audited
  build, what is published is the tested one, and a signed catalog is not replaced.
- **Retries and seeds.** An output directory is used again after files were copied over it,
  some of them with their old modification times, and the build system trusts these times. Times
  are set back one file after the other while the files can be edited; the audits look at some files
  by name only. Correct means: no change is missed, and a package that is made afterwards holds the commit that
  its record claims.
- **System packages.** Gigabytes are copied, hashed, written and read back, in chunks and in a
  format with three sizes of integers. Correct means: licences are complete, the kernel that is
  hashed is the kernel in the image, and whatever the producer writes the validator accepts. The
  images are audited, and copied later from paths that stay writable.

## Modules

| Module | Models |
|---|---|
| `SlotUpdate` | the abstract promise: two slots, and when a payload may be written and an update recorded |
| `KikiUpdater` | `UpdateService.java` and `ControlReceiver.java` with the engine and the bootloader; implements `SlotUpdate` |
| `UpdaterHistory` | `KikiUpdater` with two history variables, for what holds except after one known event |
| `MCKikiUpdater` | symmetry of the staging files for TLC |
| `SurfaceCamera` | the sessions, the transport and the bridge |
| `MCSurfaceCamera` | two rear sessions and a front one |
| `FrameCopy` | the three copy loops, one iteration per step |
| `ReleaseBuild` | preparation, build, boot payload and packaging |
| `ReleaseRetry` | retries and seeds over the trees of a release, with the build system's notion of what is out of date |
| `MCReleaseRetry` | five commits that change, add and delete device files, patches and an overlay |
| `SystemPackage` | the system package: staging, licences, ZIP layout, validator, what stands beside it |
| `MCSystemPackage` | every short text, and boot images around a page |
| `NativePackage` | native packaging, completion of a failed package, promotion |
| `MCNativePackage` | the sequences of three builds |
| `KikiUpdaterProofs`, `UpdaterHistoryProofs`, `SurfaceCameraProofs`, `FrameCopyProofs`, `ReleaseBuildProofs`, `ReleaseRetryProofs`, `SystemPackageProofs`, `NativePackageProofs` | theorems about these modules |

### KikiUpdater

Variables are the preferences, the staging files (each with the sequence of the
authentic package in it, or unverifiable), the service's fields, a label per
thread, the queue of engine callbacks, the engine and the slots. A step ends
where the other thread, the engine or a crash can observe it: at each preference
commit, file operation, assignment of `installing` and engine call. A downloaded,
copied, half written or damaged package is one of the values of a file.
`Installed` is `completeInstalled()`, `Busy` the guard of `download` and
`applyOffline`, `Acceptable` the comparison in `apply()`, `CatchFailure` and
`CleanupStageFile` the catch block of `onStartCommand`.

Outside the repository, modelled from how the service uses them: update_engine
(progress, success, failure, one payload at a time, status callback on bind), the
delivery of its callbacks, the death of the process, the startup checks and the
virtual bootloader (`ChooseSlot`). Left out: the status text, the notification,
the two properties the service only writes (`sys.kiki.ota.imported`,
`sys.kiki.storage.refresh`), and the cryptography, which becomes "authentic or
not".

`UpdaterHistory` remembers whether a trial boot was announced by `rebootReady` and whether a payload
has outlived the updater's process in this boot. `FallbackPreserved` and `DuplicateOnlyOfOrphan` are
stated relative to these two events, which the code does not survive (they are hazards, one is finding
1), so that everything around them is still covered with all crashes allowed.

### SurfaceCamera

Each session has a label; `lock` is the mutex while an exchange is under way.
A request line and each reply message is one step. Faults are a constant: the
bridge may refuse an OPEN, send garbage in place of a header, hang up with the
unsent replies lost, and reconnect. `resetLocked()` closes the port, and any part
of what was already in it may still be there when it is reopened. A reply read as
what it is not (a line read as a frame, or the reverse) leaves garbage behind, and
a frame completed with bytes of a later message is "mixed". `RightSensor` speaks of
whole frames only: a mixed frame has no sensor. The bridge's order (OPEN releases
the old sensor, CLOSED is sent once it is released) is that of `camera/README.md`.

### FrameCopy

Samples have no value: `memory` records, for each address written, the set of
frame bytes that went into it. `InBounds` speaks of every access and
`PictureComplete` compares the finished buffer with the definition of the
picture, so a wrong base, stride, step or rounding shows.

### ReleaseBuild

Commits are numbers; an image is the device commit it was built from and whether
the files had been edited. `WriteRecord` is `stamp.write_text()`: the old record is
gone before the new one is whole. Applying the integration, making the boot
payload and writing the two records are two steps each, so a kill can fall in
between. Developers commit and edit (and undo edits) at any time, and build in the
output between runs. The programs run one at a time, which is an assumption: none of them takes a
lock. A build beside the packaging is in `SystemPackage`. An audit script
compares parts of the files, so an edit may pass it and may not. Edits are of device files, which packaging
compares byte by byte; patched upstream files and overlays are what their commit has here, and it
compares overlays by name only, which `ReleaseRetry` has. Left out: the
explicit recoveries of `prepare-clean-release.py`, the upstream pins, the property
checks, and what is in the ZIP besides images and boot payload.

A package that was made of an edited file whose edit has been undone is exempt
(`PackagesHoldClaims` says so): nothing in the code could see it.

### ReleaseRetry

There is no clock. For each item (a device file, or an upstream file that a patch or overlay
changes) the state is its text, the text its output was built from, and whether the file is
newer than that output; `Outdated` is what the build system makes. `Retry`, `Sync`, `Compare`,
`SetBack`, `Patch`, `AuditIntegration`, `WriteRecord` are the stretches of
`resume-native-release.py`, `Seed`, `Relink`, `Sync`, `Reverse`, `Apply` those of
`seed-incremental-release.py`, `Build`, `Compile`, `CheckInputs` a resumed build, and `Packageable` the
audit of packaging. `Compare` and `SetBack` take one file after the other (lines 82 and 83), and a
developer may edit any of them before, between and after. `RunDies` cuts any step, a synchronisation after any of
the files, the storage repair between its patch and its overlay; `Refused` is a file that differs, or the last
audit. Both leave the times that were set back until then.
Which pairs of commits a retry permits (lines 39 to 72, name by name) is the constant
`Reviewed`.

`UpstreamAudited` is as loose as `audit-aosp-integration.sh`. It compares overlays, which are untracked
files, by name (lines 529 to 532). It compares patched files by name, and each patch must come out of its files,
so that a text is accepted for another that is a part of it (`Within`). The device files are compared byte by byte, by
the programs themselves (`DeviceAsFrozen`). Developers edit device files only.

What the model shows of the code, besides the properties:

- A kill, or a refusal by a late check, between the synchronisation and the new record leaves a checkout that
  no record describes; the tools refuse it from then on, and `cp -a` of the synchronisation
  leaves deleted files, so it is repaired by hand. A failure there is safe, not recoverable.
- A seed's record names the kernel repository's HEAD while its kernel result is whatever has been built, and
  says version 0.3.0, which `--resume` of this revision refuses. A copy that holds
  `.kiki-native-inputs` of another kernel blocks its seed.
- `IncrementalSound` has two exemptions. `backdated`: an edit that is taken back with an older time, by a
  copy that keeps times or because the file then gets its old one back. `raced`: a file that is edited after
  line 82 compared it and before line 83 sets its time back looks as old as what was compared, and the edit is not
  built. The comment at `resume-native-release.py:79` says that times are kept "only for files proven
  byte-identical before and after sync", which this edit escapes. Once the edit is undone, the file is again what was built.
- `PackagesHoldClaims` has three exemptions. `undone`: an edit that was built and taken back with an older time hides in the output. `inherited`: a seed
  synchronises the device files and replaces three patches
  (`seed-incremental-release.py:70` to 94); every other patch or overlay stays as it was. Seeded to a commit that changes
  the text of an overlay, the copy passes each audit, and its package claims a commit that it does not hold,
  although `README.md:29` says of packaging that it checks the complete integrated tree again. `astray`: a record `r1`
  still in phase building is retried to `r2`, then `r1` is resumed; it builds what the checkout now holds, the sources of `r2`. After
  a retry back to the first commit (`r3`) every audit of `r1` passes again, and its package
  holds an image of `r2`, although `build-clean-release.py:111` says that a resume builds the frozen sources.
- A retry does not need such an exemption for the patches it brings in: they have files of their own, whose names
  the audit compares (`AuditAssumption`).

### SystemPackage

Sizes are counted in units in which the model stays small and no boundary is lost: bytes of a text
(kinds of UTF-8 byte), bytes of a small page, and for the archive a unit in which one header counts one.
A licence is UTF-8 as a whole (`WellFormed`): `license_parts()` decodes it before it cuts.
`Listed`, `End`, `Length` are what Python's `zipfile` writes, with its two limits (`Small`,
2^31-1, above which it adds ZIP64 fields, and `Sentinel`, 2^32-1); `Redirected`, `Directory`,
`LocalAt`, `NamesAccepted` are `raw_zip_names()`. `ReadChunk` is the loop that hashes the kernel
and looks at the ramdisk's first bytes as the chunks go by. A killed run leaves what it has written.

Images can be built again at any moment. `Audit` compares them with the record; a boot payload that was made anew brings its
own recipe, which has to name the same kernel (`AsRecorded`). `Copy` takes them later, from the same paths, and
nothing but the kernel is compared again (`KernelLocked`, `system-package.py:313`). So an image that is built
between lines 343 and 364 of `package-clean-release.py` is published without an audit, with a kernel that is checked,
although its line 3 says "ONLY from finished, audited clean build inputs". No property is stated of
the images for this reason; it is listed as a hazard. Left out: the JSON schema, `version()`,
`validate_lock()` and the limit on the total size, which are predicates of one document.

### NativePackage

`files` is what is in the package and in the public directory, each image being the build it
comes from. A build's bytes and its device commit are one identity: two builds of one commit with
other bytes are not told apart. `Write` is the one way a run makes a file: absent, half written,
whole, and never over an existing one for those opened exclusively. The labels are the files
in the order the programs write them. `Authentic` and `SourceAsProven` are the hash
comparisons of completion and promotion, `OperatorChanges` the hand that puts images back,
exchanges or removes files between runs. The audit of the release record at the start is
`ReleaseBuild`'s `Package`. Left out: the formats and schemas, the signatures (a signature is
the catalog it signs), the adaptation of the Android tool, and the receipt.

## Runs

| Run | Bounds | Shows |
|---|---|---|
| `updater_safety` | sequences 1..3, two files, one progress message queued, both crashes | types; `NoDowngrade`, `AcceptedRuns`, `FailedUpdateRetryable`, `NoResubmitAfterRollback`; `FallbackPreserved` and `DuplicateOnlyOfOrphan`; implements `SlotUpdate` |
| `updater_liveness` | sequences 1..2, one file, both crashes | `ResumeDecides`, `InstallingEnds`, `VerifiedUpdateCompletes` |
| `updater_restart` | process deaths only | violation of `ActiveDuplicateRejected` (finding 1) |
| `updater_race` | no crash | violation of `ReadyRecorded` (finding 2) |
| `camera` | three sessions, two messages queued, all faults | types; `RightSensor`; until an exchange fails, `SensorHandedOver` and `InStep`; until a hang-up, `MutexReleased` |
| `frame_copy` | frame 12 x 8, every even stream size in it, rows padded by 0 or 2 | types; `InBounds`, `PictureComplete` |
| `release_build` | two commits per repository, three kills | types; `PackagesHoldClaims`, `RecordNotAhead`, `IntegratedOnce`, `BuildEnds` |
| `release_retry` | two device files, three patches, one overlay, five commits, three records, two edits (one before a third record) | types; `IncrementalSound`, `PackagesHoldClaims` |
| `system_package` | texts of up to five code points, limit five bytes; pages of 4, chunks of 6 bytes; four members, four sizes; one rebuild | types; `LicencesWhole`, `BootReadExactly`, `ProducedAccepted` |
| `system_zip64` | the same | violation of `Zip64Supported` (finding 4) |
| `native_package` | three builds, two of the same sequence, two failures, three changes by hand | types; `DeliveredAsAudited`, `PublishedAsTested`, `EvidenceKept` |
| `native_failed` | one failure, no change by hand | violation of `FailedContainerCompletable` (finding 3) |

Why the bounds are enough. Three sequences give an update, a newer one and a
running one that is neither; with two files a second package can be staged while
the first is pending. Further progress messages repeat what one does. A third
session adds no new pair of owners beyond same sensor and other sensor, both present. An
exchange has one request and at most two replies under way, so a queue of two holds
a whole exchange plus what a reset left. 12 x 8 makes every ratio of scaling between 1 and 6,
divisors and non-divisors, and its chroma rows and columns are enough for the first, an inner and
the last pair; the proofs lift `InBounds` to every size. Two commits are an old and a
new one; three kills let one run be killed, its resumption killed, and once more. A package
that failed needs two changes by hand before it can be completed (its images back, its
payload away), so three leave one for a wrong image; two failures are one of the package and one of
its completion. Three records are a release, its retry and a retry or seed of either, which is what the
exemptions of `PackagesHoldClaims` need to appear; two edits are one and its undoing, or two
files. Each exemption of the two properties is reached: without any one of them TLC finds a violation. Of the upstream items one is what a seed replaces, one an overlay, one a patch of which a commit has a part only, one a
patch that a retry brings in: every way in which the audit can see, or not see, a difference. Five code points of up to four bytes overflow a limit of five bytes several times and at
every offset in a code point; kernels of 1, 3, 4, 5, 8 and 9 bytes are below, at and
above one and two pages and unaligned to chunks of 6 (9 and a ramdisk of 5 exceed the limits); the sizes 2, 15, 25
and 45 with limits 20 and 41 put each header on every side of both limits.

`release_retry` is bounded by three action constraints. `OriginalLeft`: only a finished release is copied, and once
source and output were copied, nobody works in the originals. Behaviours that alternate between both trees are therefore not
explored; the two trees share nothing but the records. `FewEdits`: at most one edit comes with three records, and a copy is made of a
release that was retried or edited once before, not both. `UpstreamTogether`: a build that fails has made all the patched files, or none,
and any of the device files. Nobody builds in a copy whose out link still
leads to the original output, which the operator's instructions exclude. The kernels and
the staging files are symmetric.

CHECK_DEADLOCK is off only for `release_build`, `release_retry`, the two runs of `SystemPackage` and the two
of `NativePackage`, where everything may be done or the run may have failed for good.

### Fairness

- `KikiUpdater!FairSpec`: weak fairness of the main looper's steps, of the worker's
  steps and of the engine ending its payload. The looper and the single-thread
  executor run while the process lives; the engine reports every payload. Nothing is
  assumed of the user, of crashes or of the startup checks, so the liveness
  properties count only on the broadcast and the engine.
- `SurfaceCamera!FairSpec`: an exchange under way goes on and the bridge answers.
  `MutexReleased` asks it of a bridge that has not hung up: one that hangs up and is
  reconnected before the reader looks leaves it waiting, as the code's blocking reads do.
- `ReleaseBuild!FairSpec`: a run that is not killed goes on, and the operator resumes
  an unfinished build again and again (strong fairness, as kills and edits
  interrupt it). New builds, packaging and developers are not assumed to act.

No fairness is stated for retries, system packages and native packages: their properties are
safety properties, and a run that stops is one of their cases.

### Findings

1. `docs/RELEASE_0_3_ALPHA.md` reports that an active duplicate submission is
   rejected. When only the updater's process dies, `installing` is lost while
   update_engine goes on, and a second package passes the guards until the first
   callback arrives (`updater_restart`). This is the only way: `DuplicateOnlyOfOrphan` holds in
   `updater_safety`, with power losses, which stop the engine too, and all other crashes.
2. The callback for NEED_REBOOT clears `installing` before it commits `rebootReady`.
   A command that fails in between sees neither and clears the record of the
    installed update (`updater_race`).
3. `complete-native-full.py` is to finish a failed package, its complete container included.
   It compares the staged images first, and `package-native-ab.py` removes them before it runs the
   Android tool: a package that failed in the tool or later cannot be completed (`native_failed`).
   With the images put back by hand it can, once: the adapted tool and the payload it leaves
   are never written over.
4. `RELEASE_FORMAT.md:12` promises ZIP64 when necessary. `zipfile` adds the ZIP64 record when the
   directory begins above 2^31-1 but writes the sentinel into the old record only above
   2^32-1; `system-package.py:178` looks at the sentinel alone, so a package whose directory begins
   between 2 and 4 GiB is refused by the program that just wrote it (`system_zip64`).
   `ProducedAccepted` shows that nothing else it writes is.

## Proofs

Proved by TLAPS for every value of the constants, under the named assumptions about them, which
TLC evaluates on the instances: `MaxSequence` positive, `NoStage` not a file; a sensor for each
session, `NoSession` not a session; even frame sizes
and paddings; `None` and `Partial` unlike the values they stand beside; device files and upstream files
disjoint, and a reviewed change of an upstream file an addition (`RetryAssumption`); no patch comes out of a file without
any, and one that a retry brings has a file of its own (`AuditAssumption`); a developer's experiment
a text of no commit (`ExperimentAssumption`); licence texts that are not empty and are UTF-8 as a whole
(`LicenceAssumption`), the bound on rebuilds a number (`BoundAssumption`); chunks not smaller than a page
(`BootAssumption`), the limits in order (`ArchiveAssumption`).

None of the properties is inductive alone. In each module the invariant adds, label by label, what
the program has established and what still holds of it while others act.

- `KikiUpdaterProofs`: `TypeCorrect`, `NeverDowngrades`, `AcceptedAlwaysRuns`, `FailedStaysRetryable`,
  `NeverResubmits` and `Refinement` (the updater implements `SlotUpdate`). That a payload is newer when it is
  submitted rests on a comparison made several steps before: `CheckedStaysNewer` (between `apply()`'s
  comparison and the submission the file's sequence stays above `current()`), `RecordNotStale` (a recorded
  transaction), `IdleEmpty` (an idle engine has no payload) and `SlotsOrdered` (how
  running, other, failed and accepted sequences are ordered in each boot state). The refinement
  maps the preferences and threads away; each step is a step of the abstract machine or a stutter
  (`RefinementStep`), and `CompleteRefines` treats `completeInstalled()`, which both threads run.
  `NeverResubmits` rests on `BoundLoops` (the service is bound while its looper runs, and a rollback cleared the
  record before) and `Claimed` (a later record belongs to a payload under way, or waiting, until a thread clears it).
- `UpdaterHistoryProofs`: `KeepsFallback` and `RejectsDuplicates`. `Undisturbed`: an announced trial has an idle engine,
  no message and no thread past a guard. `Covered`: `installing` covers a payload from its submission to the
  callback that ends it; `Told` says which messages can be in the queue for that.
- `SurfaceCameraProofs`: `TypeCorrect`, `GivesRightSensor`, `HandsSensorOver`, `StaysInStep`. What earlier exchanges left
  in the port is described by the messages between one READY and the next: they are of one sensor (`Coherent`), the
  last ones of the sensor that is open (`Latest`), and what the owner can read as a frame before a READY or
  garbage is its own (`OwnFrames`, `OwnSensor`). `Exchanged` lists, for each label, the one request or the replies that
  are in the port while nothing has failed.
- `FrameCopyProofs`: `TypeCorrect`, `NeverOutOfBounds` and `PicturesComplete`. `Inv` adds that the loop counters
  are inside the rectangle of the loop that runs, which depends on the format; the rest is arithmetic
  lemmas about scaling, pairs and cells of a padded buffer. `Drawn` says which pixel of the frame is in each
  cell that the running loop, or one before it, has passed; no later iteration writes such a cell (`PixelsApart`,
  `CellsApart`, `BlocksApart`), and the last one has passed them all.
- `ReleaseBuildProofs`: `TypeCorrect`, `RecordNeverAhead`, `PackagesAsClaimed`, `IntegratesOnce`. `Done` says
  what a phase means for the directories; `CopyDone` that the run's copy of the record claims no more, `StampDone` the same
  of the file, `InOrder` that no record precedes its directories, `ImagesOfCheckout` that images are
  of the integrated commit or of an edit.
- `ReleaseRetryProofs`: `TypeCorrect`, `IncrementalBuildsSound` and `ClaimsHold`. One step makes a file older again;
  `SyncReady` and `TimesKept` say that a time is only set back if the file had the text the output was
  built from when the time was looked up, `Watched` that between a comparison and its time the file is what was compared,
  or an experiment that `raced` knows, or undone. `PInv` follows the texts from the tree into the images: a tree that no retry has
  changed since its record holds the commit or an experiment (`CurrentSound`), so what is built from it does, and
  an experiment in the images is still in the tree; a retry starts only where there is none (`ReadyToLeave`), so what it
  leaves behind holds the commit (`LeftSound`); and as no device file is ever removed, a tree without a file never had
  it (`NeverThere`). For patches and overlays the audit is too weak to start from, so the invariant follows what each tool brings
  into a tree: it holds its record's texts but for what retries have added and a seed has taken over (`Grown`, `RecordsGrown`, `CloneText`, and
  `Integrating` while a tool runs). The exemption `astray` is needed for `LeftSound`, `undone` for the sentence about experiments,
  `inherited` for `Integrating`.
- `SystemPackageProofs`: `TypeCorrect`, `ReadsExactly`, `ProducedIsAccepted`, `LicencesStayWhole`.
  `ReadSoFar`: the digest holds exactly the kernel bytes before the offset. `Splitting`: the parts that are cut off so
  far, with the rest behind them, are the file, and the rest is UTF-8 as a whole. A cut moves back at most three bytes
  to the start of a character (`CutFacts`), so what is left is UTF-8 again. The parts are put together by a recursive function; that it
  has a value on each prefix is part of the invariant, as the cuts add one part at a time. The archive's invariant says where each header lies and that its
  listing is the one `zipfile` makes for it, so that the reader finds an offset behind the right number of fields.
- `NativePackageProofs`: `TypeCorrect`, `DeliversAsAudited`, `PublishesAsTested`, `KeepsEvidence`. `Making` and
  `PromotingTested` say which files are, at each label, already the job's or the tested build's, `ProofOfOneBuild` that a proof is of one build whatever
  becomes of the files it names, `SignedOnce` that a run signs where nothing was signed, `Placed` that a
  run works in a directory of its own. Nobody changes files while a run works; the model says so.

Only model-checked: all liveness, which is out of the prover's reach. Every invariant and action property of the passing
runs is a theorem.

## Not modelled

- **Storage accounting**: a oneshot inventory that init starts, four properties and their readers in
  Settings. Which trigger is lost while the inventory runs is decided by init, which is not in the repository, and
  a wrong size is only displayed. Two hazards are listed for it.
- **Synchronous PCM output**: a patch with one retry loop; the thread that runs it and the ALSA functions
  that decide it are outside the repository.
- **Release source collector**: one pass that copies and hashes sources and keeps no state between steps.
- **Predicates without steps** of modelled programs: SemVer `version()`, `validate_lock()`, the JSON schema, the
  total size and the `raw_erofs` check of the package; formats, signatures and the adapted Android
  tool of native packages; manifest pins and property checks of the release; the text of status messages.
- **The explicit recoveries** of `prepare-clean-release.py` (relative remotes, missing indexes): they are run by
  hand in a state that `ReleaseBuild` reaches and calls `NeedsHand`.
- **Edits of upstream files and overlays** by developers: in `ReleaseRetry` their texts change through the tools alone.
  Two programs at once, other than a build beside packaging (`SystemPackage`).
- **The colour arithmetic** of `copyToRgba` and the camera's metadata.
- Boot scripts, display and HWC fragments, scanout, test UI and probes, demo app, the patterns of the audits, development
  repacking, configuration and vendored data: straight-line I/O, or fragments of programs that are not in the
  repository. The reasons are in `PROJECT.json`.

What would be worth doing next: a trailer in the camera protocol would make a cut frame detectable and `RightSensor`
could then speak of every frame.

## Checking it

    tlc -config KikiUpdater_safety.cfg UpdaterHistory.tla   # each run of PROJECT.json
    tlapm KikiUpdaterProofs.tla
    tlapm UpdaterHistoryProofs.tla
    tlapm SurfaceCameraProofs.tla
    tlapm FrameCopyProofs.tla
    tlapm ReleaseBuildProofs.tla
    tlapm ReleaseRetryProofs.tla
    tlapm SystemPackageProofs.tla
    tlapm NativePackageProofs.tla
