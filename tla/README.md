# MatteLoop: verification project

TLA+ models of MatteLoop, a desktop application (Python, Qt) that cuts a range
out of a video, removes its background with an ONNX model and renders an
animated WebP. The modules are translated from the code under
`src/matteloop/`; line numbers in comments and in `PROJECT.json` are that
code's.

## 1. The system

| Part | State it keeps | Operations | Hard because |
|---|---|---|---|
| Application reducer (`core/state.py`, `ui/store.py`) | one immutable `AppState`: source, preview, artifact, job and edited-cuts states, the settings | 22 events, each one `reduce()` | answers of superseded jobs and sources come at any time; a state that breaks a rule raises inside the dispatch |
| Job scheduler and contexts (`jobs/context.py`) | the active job; per job a terminal state and a cancellation | claim, cancel, checkpoint, acknowledge, commit, fail, complete | shared by the GUI thread and the workers; cancel races publication |
| Preview and render controllers, workers (`ui/preview_controller/*`, `ui/render_controller.py`, `ui/render_worker.py`, `ui/worker_thread.py`) | active job ids, contexts, pending dialogs and probes | click, probe, dialogs, claim, cancel, notifications, thread end | GUI handlers, worker threads and queued signals interleave; a request waits in dialogs while the editor changes |
| Segmentation host (`jobs/segmentation_host.py`) | child process, pipe, shared-memory slot, the active request and three flags, four locks | start, segment, cancel, replace, close; the child's loop | another process that may crash, hang or answer late; cleanup that may fail |
| Model sessions, cache, download, dialog (`jobs/models/*`, `ui/model_manager/*`) | the active session, pending cleanup, weights and parts on disk | prepare, fetch, remove, redownload, close | partial downloads, two instances, a client that does not close |
| Execution providers (`core/execution_providers.py`, the loading in `jobs/segmentation_host.py`, `ui/controller.py`) | the setting, what it is to follow, the child's session, what was reported last | pick, prove and load a weight, reuse, fall back at the start or at a frame, report, reconcile | the weight may change while it is read; reports, timers and the next job overlap |
| Cut workspaces (`jobs/workspace/*`) | cut sets on disk with manifests, stages, locks | stage, promote, snapshot, scan, delete, recover | crashes between renames; the user edits frames; two processes |
| Bound directories (`jobs/workspace/_filesystem.py`, `jobs/models/cache_fs.py`) | open handles, owners of failed closes | bind a path, act on an entry, close | other programs rename what was checked; closes fail |
| Services (`jobs/render.py`, `jobs/encoding.py`) | scratch, stage and recovery files | preview, render, rebuild, publish | the output is replaced atomically or rolled back |
| WebP encoding (`core/webp.py`) | temporaries, the current scale | encode, validate, shrink until it fits | merged delays, byte limits, files rewritten meanwhile |
| Playback (`jobs/playback.py`, `ui/playback_controller.py`) | play sessions, a mailbox, what the canvas holds | play, pause, drag, loop | late frames; a stop waits for a still |
| Timeline and filmstrip (`core/timeline.py`, `ui/timeline.py`, `ui/controller.py`, `jobs/thumbnails.py`, `jobs/cache.py`) | range, playhead, rate; workers and a cache directory | drags, resets, loads, decodes | superseded workers; two indexes of one directory |
| Result stage and crop (`ui/transform_stage.py`, `ui/result_player.py`, `ui/crop_canvas.py`, `core/crop.py`, `core/transform.py`) | the open cut, its facts and frames; the crop | open, reframe, edit, play, drag | facts and frames answer late; rectangle arithmetic at edges |
| Updates (`updates.py`, `ui/update_*`) | offered, ready and armed release, its files | check, download, arm, install | deaths and shutdowns during a download |
| Workspace migration (`jobs/workspace_migration.py`, `ui/workspace_controller.py`) | legacy and cached directories, the copy between them | read, look for the key, copy, compare, rename, remove | the user edits what is copied; deaths; a second instance clears away copies |
| Probing, codecs, widgets, packaging | little or none | | see section 6 |

How they interact. The GUI thread owns the store. A click builds a request,
dispatches it, claims the scheduler and starts a worker thread; the worker
prepares a model session, calls a service, and the service calls the
segmentation host for every frame and commits through the job's context.
Notifications travel back as queued Qt signals, in order, to the controller,
which dispatches them to the reducer. The context and the host are the only
objects two threads use at once. Playback, the exact frame, the filmstrip, the
result stage and the updater each keep workers of their own beside that, which
share nothing with a job but the flag that one is running.

What makes each part correct is stated as properties in its module, and the
places where the code is most exposed are the `hazards` of `PROJECT.json`, each
with the property that would catch it; those no property covers are in
section 4.

## 2. Modules

`AppReducer` has no variables: one operator `On<Event>` per event of
`reduce()`, from state to state. `AppStore` dispatches any event at any time;
`JobLifecycle` dispatches what the controllers dispatch. Both use the same
operators. `JobContext` is the contract of `jobs/context.py`; `JobLifecycle`
instantiates it, uses its actions, and is shown to implement it. `CutPromotion`
is shown to implement `CutStore`.

| Module | Models | State | Actions |
|---|---|---|---|
| `AppReducer` | `core/state.py`, `core/parameters.py` | | `OnX` for every event, `FreshState`, capabilities (`CanEdit`, `CanPreview`, `CanRender`) |
| `AppStore` | `ui/store.py` over it | `app` | one per event, with arguments nobody vouches for |
| `JobContext` | `jobs/context.py` | `active`, `terminal`, `committed` | `Claim`, `RequestCancel`, `AcknowledgeCancel`, `Commit`, `Fail`, `Complete` |
| `JobLifecycle` | controllers, workers, the services as the context sees them | the above and each worker's position, the signal queue, dialogs and probes | GUI handlers, worker steps, `Deliver` |
| `SegmentationHost` | `jobs/segmentation_host.py` | locks held between steps, process, slot, flags, calls, pipe, child | the steps of `segment`, `cancel`, `start`, `replace_model`, `close`, and of the child |
| `CutStore` | what promotion promises of one cache key | `current` | `Publish` |
| `CutPromotion` | `promote_cut_set`, `_recover_promotion`, `CutWorkspace.open`, `detect_external_edits` | what is in the target, the stages and the backups, the marker, the promotion locks, each thread's position | every file operation of a promotion and of a recovery, `Crash`, `EditFrame` |
| `CutJobs` | `RenderService` and `PreviewService` over one durable set: scans, snapshots, unions, deletion | the set and its manifest, the job, two scans, the key lock | the job's steps, `Scan`, `List`, `Delete`, `OtherPromotes`, `EditFrame` |
| `OutputPublication` | `AtomicOutputPublisher.publish` with `_publication.py`, `_recovery.py`, `_locking.py` | names, files and their bytes, locks, each writer's position and locals | every file operation of a publication, deaths, the user |
| `WebPFit` | `core/webp.py` as `jobs/encoding.py` runs it | the job, the candidates, the snapshot, the output, the temporaries | check, snapshot, encode, shrink, prepare, tidy, replace, confirm, clean up, `RewriteFrame`, cancel |
| `ModelStore` | `jobs/models/download.py`, `session.py`, the model manager's controller and workers | files, names, the operation of each instance, the session | each step of a download, removal, batch, start and close; deaths |
| `BoundDirectory` | binding a path, owners of failed closes | the tree, the handle table, each bind, the registry | open a component, close, retain, drain, `Redirect` |
| `BoundEntries` | the operations on a bound directory's entries | names, nodes, the call | look, open, check, act, what others put there |
| `UpdateFlow` | `updates.py`, `ui/update_*` | the running version, the controller, two workers, files, the process | check, download steps, offers, quit, arm, `Dies`, `StartAgain` |
| `Playback` | `jobs/playback.py`, `ui/playback_controller.py` | shown state, controller, held frame, workers, mailbox, signals | worker steps, handlers, drags, stills, jobs |
| `ResultStage` | `ui/transform_stage.py`, `ui/result_player.py`, `jobs/transform_store.py` | parameters, controller, fact and frame workers, player, files, sidecar | results, edits, debounce, scans, the loop |
| `CropEditor` | `core/crop.py`, `ui/crop_canvas.py`, `core/transform.py`, `jobs/transform_stage.py`, framing of `core/geometry.py` | canvas, crop, facts, wishes, staged frames | presses, drags, keys, fields, aspect, framing, jobs |
| `Timeline` | `core/timeline.py`, its reducer, `ui/controller.py`'s source frame workers | load, timeline, rate, shown frame, timer, workers | edits, rate changes, `FrameTimeout`, decodes, answers |
| `Filmstrip` | `ui/timeline.py`'s strip, `jobs/thumbnails.py`, `jobs/cache.py` | widget, tiles, workers, posted results, the directory | present, resize, rewrite, get, decode, put, evict |
| `ExecutionProviders` | the proof and loading of a weight in `jobs/segmentation_host.py`, `ModelSessionManager.prepare`, `ui/preview_controller/runtime.py`, `ui/render_worker.py`, the reconciliation of `ui/controller.py` | the setting and its timer, the job, its signals, the session, the child, the weights' files | look, open, read, prove, build, `Infer`, `FallBack`, the job's steps, `PickProvider`, `DeliverSignal`, `Reconcile`, `Tamper` |
| `Migration` | `jobs/workspace_migration.py` and its worker | the files of four directories, what the user saved last, pin, saved transform, stage, outcome, sweeper | each step of a migration, `RewriteLegacyFrame`, `JobPromotes`, `OtherSweeps`, failures, deaths |

`MC*` modules only add TLC's constants, symmetry and the choice described in
section 3. `*_proofs` modules hold theorems. The modules from `CutJobs` on end
in one property, `<Module>Correct`: the conjunction of the named invariants and
action properties that stand before it, each with its comment.

### Abstractions

All editor values are one member of `Settings`, because the reducer only ever
compares them and hands them on. An error is a boolean (there is one or there
is not). Focus intents, wording, stages of progress that move no phase, and the
summary kept of an artifact are left out. In `JobLifecycle` a job's request has
the job's identity (both are fresh uuids). In `SegmentationHost` a frame is the
request it belongs to plus whether it needs the larger slot; a locked region is
one step except where another thread or the child can act inside it.

In `CutPromotion` a directory is the job whose frames it holds, how often they
were edited, and what its manifest records; a hash is the pair of job and
rewrites. A crash ends the process: what was written stays written (the code
synchronizes files and directories, and the loss of unsynchronized writes is not
modelled). Operations that fail, fail before or after their effect.

* `CutJobs`: a frame is what it shows and the identity of its file. Promotion
  and publication are one step each, since `CutPromotion` and
  `OutputPublication` look inside them. Scratch that the operations remove at
  once on an error and the `finally` blocks remove again is removed by the
  latter only. All requests ask for the same cuts and threshold.
* `OutputPublication`: files are nodes with bytes; a check of inode, size, time
  and hash is a comparison of these. Any check that does not hold fails the
  step. Handles that cannot be closed are left out.
* `WebPFit`: what a size weighs is open, within `Weights`; a scale is a number
  of `ScaleUnit`-ths, finer than the smallest side has pixels (`ScaleIsFine`: the
  code's is a Decimal of eighty digits, `core/geometry.py:888`); pixels are
  compared exactly; the RIFF container is the sequence of its chunks.
* `ModelStore`: a cancelled download, a failing disk and a failing connection
  take the same way out. An instance has one operation at a time, as the
  manager's lock enforces; who waits for it is not modelled. `taken` remembers
  the models that lost a whole weight to the user or to an instance that takes
  back what it promoted. Every removal of a part or of a weight may fail, as it
  may in `download.py:186`, `288`, `307` and `364`; `stuck` remembers the files
  that stayed because of it, and a file put in their place is not one of them.
* `BoundDirectory`: a POSIX close that fails may have released the descriptor
  or not, and its number is kept. The creation of missing directories is left
  out.
* `BoundEntries`: on Windows an operation acts through the handle it opened,
  whatever name its node has by then; on POSIX it acts by name on what is there
  by then. The check of a POSIX operation is by name too, so that what it removes
  need not be what it looked at, and the removal that undoes a failed `mkdir` on
  Windows opens the name again. `TakesWhatItOpened` promises no more than that.
* `UpdateFlow`: the unlink of a part, the sweep at the start and the
  synchronization of the directory after the rename may fail; `stuck` remembers
  the versions whose part stayed because of it. One instance; the setting that checks at the start, the
  capability probe and the bounded GUI wait inside `cancel_download` are left
  out (the wait at shutdown is not).
* `Playback`: times are half frames, so that a range may begin between two. The
  shutdown's wait and the conversion of pixels are left out, and a worker reads
  the range once in a hold instead of at every tick of it.
* `ResultStage`: a generation counter is what it decides, a live flag; what a
  superseded worker still posts is dropped where the code drops it.
  Confirmations are left out.
* `CropEditor`: the pointer moves by half pixels of the source; scale, zoom,
  inset and hit testing of the widget are left out, and so are trimming,
  percentages and presets.
* `Timeline`: timestamps are integers and `Second` is divisible by the rates,
  so that intervals are exact as the code's fractions are. `MaxRate` is the
  code's 240: a clip too short for one frame at it has no timeline. Grabbing,
  geometry and timecode text are left out.
* `Filmstrip`: opening the cache (cleaning temporaries, reading the index,
  evicting) is one step. It may fail at any point, an eviction half done
  included, and the worker then goes on without a cache; so may a use of it, and
  the worker then decodes, or sends what it has. A source that is gone when its
  worker takes the fingerprint ends the worker without a tile; that, the pixmap
  cache, painting and the shutdown's wait are left out.
* `Migration`: a frame is how often the user rewrote it, and of a manifest only
  the pin is kept. A scan of a set, and its comparison with an earlier one, is
  one step; copying and removing go file by file. The cached set of a key is
  under its readable name or, from older versions, under the key; free names are
  not searched. The listing of the legacy folders is left out.
* `ExecutionProviders`: of a weight's bytes it matters whether the catalog's
  digest matches and, if not, whether the size does; a file that is removed or
  exchanged is seen by its identity, one that is rewritten in place is not. A
  download is one step. A job is a preview, a render or a rebuild from its click
  to the delivery of its end; cancels and the parts of a service that touch no
  frame are left out, and a job may end after any frame.

### Steps

Steps are cut where another thread, process or program can tell. In
`JobLifecycle` every GUI handler is one step, and a worker's steps are
separated at each read and transition of the context and at each signal. In
`SegmentationHost` the cancelling thread holds the wire and lifecycle locks over
two steps, the start handshake over several, and a call that awaits its answer
holds neither. In `CutPromotion`, `OutputPublication`, `ModelStore` and
`BoundDirectory` every file operation is a step, and removing a tree is two. In
the modules of the interface a handler of the GUI thread is one step, a worker
steps where it reads or posts something shared, and what it posts waits until
the GUI thread takes it.

## 3. Runs

| Run | Bounds | Shows |
|---|---|---|
| `store` | 2 sources, 2 requests, 2 jobs, 2 settings | no sequence of events makes `reduce()` raise; previews and artifacts survive failures |
| `lifecycle` | 2 sources and 2 jobs of any kind, three of the four in one behaviour, 2 settings | one worker at the host, current previews show the settings, only committed results are shown, no lost terminal notification, no job for a source the editor no longer shows, and `JobContext` is implemented |
| `liveness` | 1 source, 2 jobs, 1 setting | cancels are answered; published output is shown |
| `segmentation` | 3 requests of 2 jobs, 1 larger frame, 2 children | one child, no lost segment, no stale message, own pixels, cancels end requests, every call returns |
| `cuts` | 2 frames, 2 writes of a frame, one dialog of this or another instance | unions, snapshots, marks and cleanup of a job over a set that is edited, deleted and replaced |
| `storage` | see below | the job slot, weights, bound directories, entries, promotion, publication, migration |
| `interface` | see below | updates, playback, result stage, crop, timeline, filmstrip, WebP fit, execution providers |
| `unlock`, `settings`, `promotion_lock`, `promotion_edited`, `crop_corner` | as small as the counterexample allows | the disagreements below |

The components of `storage`, and those of `interface`, share no state with one
another. A behaviour of such a run chooses one of them at the start
(`component`), only that one steps, and the others wait in one of their initial
states. So each is explored as if it were alone, and the states of one are not
multiplied with those of another.

| Component | Bounds |
|---|---|
| `JobContext` | 4 jobs for the slot |
| `ModelStore` | 2 models, one of them shared with a second instance; two operations of the owner, one of the other, where all three happen without deaths, failing removals and clients that do not close; 2 inodes; a weight that was there, damaged or not, or none |
| `BoundDirectory` | 2 binds of a path of two components, 4 handles, a registry of 1, 2 failed closes, 1 change by others, both platforms |
| `BoundEntries` | 2 names, 3 nodes, 2 calls, both platforms |
| `CutPromotion` | 3 jobs and 2 crashes; or 2 jobs, a crash, a rescan and either an edit or a misread directory; one opener; exchange or renames; a readable name |
| `OutputPublication` | 2 writers, alike (symmetry), 2 publications, 1 change by the user or 1 death, one attempt to restore, hard links |
| `Migration` | 2 frames, 2 migrations, 1 rewrite, 2 failures, deaths or promotions; no cached set, or one under either name |
| `UpdateFlow` | 3 versions, 2 starts, 2 checks, both only in the second start, 2 inodes |
| `Playback` | 2 frames, 2 sessions, 3 steps of the user, 1 late tick, the whole video or half of its last frame as range |
| `ResultStage` | 2 cuts of 3 and 2 frames, 2 framings, 2 crops, 2 ranges, a budget of 2 frames, 3 edits |
| `CropEditor` | videos of 3×2 and 2×2, 2 boxes of visible pixels, 3 rotations, 2 ratios, cover, pad and keep, 4 pointer moves, 4 edits |
| `Timeline` | a clip of 5 timestamps, one that needs a raised rate and one too short for any, 2 output rates, 3 edits of one source, or 2 and another source |
| `Filmstrip` | 2 layouts, 2 workers, room for two small images or a large one, 1 rewrite of the source or a cache that does not open |
| `WebPFit` | 5 sequences of one to three frames, 3 sizes, 2 limits or none, 3 encodings |
| `ExecutionProviders` | one accelerator beside the CPU, 2 models, 2 jobs, 2 weight files, 1 change of them by others or 1 pick |

Why the bounds are enough. Two of everything is what it takes for a late or
foreign identity: the old job and the new one, the old source and the new one,
a superseded worker and its successor, this instance and another. Three
requests give the host two frames of one job and one of another, so that a
job's second frame meets what is left of its first and the next job what is
left of both; two children give one replacement. Each job and request is used
once, as uuids are. Three promotions of a key are a first one, a replacement,
and one that meets what a failed replacement left; two crashes let a recovery
die that a crash made necessary. Two failed closes are one that fills the
registry and one that meets it full. Two versions after the running one let a
newer release appear while another is ready, and two starts let a package be
found by a process that did not download it. Two writes of a frame let an edit
come before a scan and another after its snapshot. The capped counters are the
constants named `Max...`, `RestoreAttempts`, the record `Bounds` of
`CutPromotion`, and the named bounds of `MCStorage` and `MCInterface`, which keep
disturbances that have little to do with one another out of one behaviour. Each safety property of the runs is
also proved without a bound (section 5), those of `CutPromotion` under
`PromotesAlone`.

Sets rendered today have readable names, and promotion then holds the lock of
that name while a recovery holds the lock of the key. `storage` has such a name
and leaves out exactly the behaviours in which an opener has the key's lock while
the promotion has its own (`PromotesAlone`): nothing in the code sees to that, so
it is a limit of what `storage` shows, and `promotion_lock` shows how the cuts
are lost without it. Where the directory is named by its key the two locks are
one, and `PromotesAlone` always holds. `CalmKeepsCuts`, `OpenedIsRecovered` and `PublishesAtomically`
speak of behaviours without edits and misread directories, `BackupsAreMarked`
of all.

Deadlock. The store and the host never stop. In the other runs everything may
stop: every job has ended, the window was closed, or a bound was reached.

Fairness. `JobLifecycle` assumes that the event loop delivers queued signals
(`Deliver`) and that a worker that can go on does: its thread is started with
the claim, and every call it makes returns or raises, the host's by its
timeouts. Nothing obliges the user, a source, or a probe. `SegmentationHost`
assumes that threads inside the client go on (`_receive_child_unlocked` ends
with a timeout, so that a silent child cannot stop them) and nothing of the
child. No other run assumes fairness: "settled" properties speak of states in
which no worker is left, and do not say that such a state is reached.

Every property of a passing run has mutants in `PROJECT.json`, and a conjunction
has one for each of its parts: a definition with a plausible mistake (a dropped
check, a forgotten reset, a swapped order) under which TLC finds the property
violated. Mutants stand before the definition they replace and are marked in a
comment.

## 4. Disagreements and exposures

Each of these is a run whose property TLC refutes.

* `unlock`. The controllers dispatch the request before they claim the
  scheduler; when the claim raises, the editor is locked by a job that does not
  exist, for ever. It raises because `RenderWorker` and `PreviewWorker` report a
  failure before their `finally` block releases the scheduler, and because a
  cancel requested after the worker looked for one, and before it ended, is
  neither acknowledged nor failed, so that the slot is never released.
* `settings`. A render is captured before the reuse probe; the editor stays open
  meanwhile, and only the source is compared when the job starts.
* `promotion_lock`. Promotion locks the path it publishes, with a readable
  name; recovery, opening, rescanning and validating lock the path of the cache
  key. A recovery that looked at the directories before the swap removes the new
  set after it, while the promotion removes the old one.
* `promotion_edited`. Without an atomic exchange the old set is found again by
  the hash of its manifest, if its frames agree with it. When a frame was edited
  by hand they do not, and the recovery removes the backup.
* `crop_corner`. With an aspect lock, dragging the west or north corner of a
  crop whose opposite corner is near the frame's edge raises in `CropSpec`
  before the clamp that the function promises.

Behaviours of the code, in the models or beside them, that no property of a run
forbids:

* The host sends a cancel before it notes that it did
  (`jobs/segmentation_host.py:442`); an acknowledgement in between is taken for
  unsolicited and the healthy child is killed. The request ends all the same.
* After an exchange the path of the stage holds the old set. If a recovery takes
  the new one for invalid, removes it, and then fails, the job removes the old
  one as its own unpublished stage (`_cut_ops.py:160`).
* A directory that could not be read is taken for an invalid one
  (`_manifest_io.py:309`). A recovery that meets one can roll back a published
  set, or unlink the marker while the target is half removed.
* A stage whose job died before the marker was written stays for ever
  (`_models.py:163`), against `docs/designs/matteloop-desktop-app.md:443`.
* The path of an opened set is looked up after the lock was released and may be
  moved by then (`_models.py:208`).
* A part whose removal failed stays in the cache: of a model until the next
  download of that model, which raises when it cannot remove it either
  (`jobs/models/download.py:186`), and of an update until a sweep, which is logged
  when it fails and left out when the start ends before it
  (`ui/update_velopack.py:56`, `105`). A file that was promoted in place of the verified one and could not
  be removed stays at the weight's name (`download.py:288`); the next download
  and the loading check its digest again.
* POSIX removals act by name (`jobs/models/cache_fs.py:930`): what another process
  puts there after the look is removed, a directory excepted. On Windows the
  removal that undoes a failed `mkdir` opens the name again and may take another's
  empty directory.
* An anchor that was created but not written, after a death or on a full disk,
  makes every later publication under that name fail (`_recovery.py:477`).
* `publish` can raise after the output is in place, because a handle could not
  be closed (`jobs/render.py:859`).
* A bind that fails swallows a failed close (`_filesystem.py:178`), and the
  owners of failed closes that were deferred or attached to an error are never
  drained outside of tests.
* Two instances that download one update replace the package by whatever is at
  the part's name (`updates.py:240`), which may be what the other one is still
  writing; `updates.py:164` says "Fetch, verify, and atomically publish".
* The dialog asks the model manager for its active model on the GUI thread
  (`ui/model_manager/_dialog.py:321`), and the manager holds its lock while a
  job's `prepare` downloads. `docs/designs/matteloop-desktop-app.md:384`
  disables removal while a session is active; the controller refuses only while
  a job runs.
* A commit publishes under the context's lock (`jobs/context.py:378`), so that a
  cancel click waits for it. Edited cuts found while a preview runs are
  forgotten when it is cancelled (`core/state.py:695`).
* The setting follows every report of a worker (`ui/controller.py:622`), the
  user's own pick included: a request that was captured before a pick takes it
  back when it ends, and so does the timer that fires after one. A rebuild
  prepares nothing and reports what was prepared last, the CPU in a new process
  (`ui/render_worker.py:79`, `ui/preview_controller/runtime.py:138`), so that it
  puts the CPU in the place of the user's accelerator. And a fallback at the start
  stales the preview it was made for.
* After a fallback at a frame the session goes on to say the accelerator
  (`jobs/segmentation_host.py:1052`): the next job uses it, and reports and records
  the accelerator although the CPU computes. `ReportIsOfTheSession` allows that.
* The rate of a clip shorter than one output frame is raised in the timeline
  and not in the parameters (`core/state.py:404`): the settings show another
  rate than requests take, against the design's "mirrors timeline values" (205).
* When the exact frame cannot be decoded, the former one stays without a word
  (`ui/timeline.py:204`); when the still of a stopped playback cannot, the hold
  stays until the next move (`ui/playback_controller.py:616`).
* Between the opening of a cut and its facts, a frame load takes the new cut
  with the former one's plan (`ui/transform_stage.py:552`); it is superseded
  when the facts arrive.
* A drag goes on over a video that was replaced (`ui/crop_canvas.py:247`). A very
  flat crop is padded to a side of 0 pixels, which the resampling refuses in
  the render (`core/transform.py:120`).
* Two workers keep two indexes of the thumbnail directory and together may
  leave more in it than its limit (design, 166); workers do not pause during
  jobs (design, 138 and 173).
* A second instance takes the copy of a running migration for a dead one and
  removes it (`jobs/workspace_migration.py:267`). It holds the directory open and
  goes on after the rename into place, and the migration then removes the legacy
  set as well. `NotSwept` excludes this from the properties of `Migration`.
* A frame that is saved while the legacy set is being removed is removed with it
  (`overtaken`), and the saved transform of a legacy set replaces the one of the
  cache (`jobs/workspace_migration.py:444`).
* Once one side of the frames is at the minimum, the fit encodes the same size
  again until the encodes are used up (`core/webp.py:411`; design, 429).

## 5. Proofs

TLAPS checks these for every value of the constants.

* `AppStore_proofs`. `Typing`, `NoInvalidState`, `LastResultVisible`,
  `ShownPreviewKept`, `ArtifactKept`. The four validity checks of `AppState`
  are not inductive: that a failed preview may restore what the job's snapshot
  holds is only safe if the snapshot itself is valid for the current source.
  The inductive invariant `IInv` therefore adds `Consistent`: no preview runs
  while no source is ready; a running preview is the current job's, under its
  request, and its snapshot is a valid preview of the current source with the
  result that is shown; a valid artifact belongs to the source. The proof has
  one typing lemma per handler, one preservation step per action, and the action
  properties follow from the invariant.
  `AppReducer_proofs` has the lemmas of the handlers apart from any store: what
  each returns is typed and coherent, and which leave the current job alone. The
  proofs of both modules that dispatch to the reducer rest on them.
* `JobLifecycle_proofs`. `Typing`, `HostIsExclusive`, `CurrentIsCurrent`,
  `ShownIsCommitted`, `TerminalNotLost`, `JobHasShownSource`. A property of what is
  shown depends on what is on its way, so `IInv` follows a job through its whole
  life: the slot holds the one worker between its claim and its release
  (`SlotInv`); where a worker is says what its context has become (`WorkerInv`);
  a notification in the queue is of a job in a state that can have sent it, and
  in the order it was sent (`QueueInv`); the job the reducer shows is one that
  runs or whose end is queued (`ShownJobInv`, `TerminalSentInv`).
  `LifecycleImplementsContext` maps every step of the composition to a step of
  `JobContext` or to a stutter.
* `SegmentationHost_proofs`. `AtMostOneChild` and `SegmentsAreHeld` from the
  conjunction of the two, which is inductive: a process or a segment is forgotten
  only once it is gone. `AcceptedCancelWins` needs more, `IInv`: a request in
  flight owns the operation, the active request is one that can still be reached,
  who holds the wire and lifecycle locks is sending a cancel or starting a
  child, and a request whose cancel is admitted is active with the cancel on
  record, acknowledged, cut off from the child, or over without output.
  `Typing` needs that each message and each position names a request of its own
  kind. `PipeIsClean` and `OutputsAreOwn` come from `Wire`: which messages may be
  on the pipe for each pair of positions of the client and the child
  (`Protocol`), that an answer is for the request that is awaited
  (`AnswersAreOwn`), that a cancel on the pipe is of the request it follows
  (`CancelsMatch`), and that the slot holds the frame of the request the child
  works on until its answer is read (`ContentMatches`). `WhatComputesIsWhatIsSaid`
  (`ExecutionProviders`), from `EpInv`: bytes that reached the session were proven
  in the same read, whatever happens to the names; a child that looks or loads at
  its start is one a job waits for, and one that loads at a frame is of a job that
  awaits its answer; the session that is kept is the child's while it lives, and
  what was reported is what it runs on unless it fell back; what is pending is what
  was said last, and its timer is set whenever no job runs.
* `CutPromotion_proofs`. The theorems are about behaviours in which no opener has
  the lock of the key while a promotion has the one of its name
  (`[]PromotesAlone`), under either naming. Of sets named by their key that is a
  fact (`KeyNamesPromoteAlone`: the two are one lock); of those that have a
  readable name, as all rendered today, it is an assumption the code does not
  secure, and the run `promotion_lock` refutes the same statements without it.
  As far as these statements go, that interleaving is all that is wrong with
  the locks. `BackupsStayMarked` holds through edits, misread directories, failures and
  crashes; its invariant `Always` says where the thread in a locked region is and
  that it alone is there (`Control`), what the directories and the records of a
  thread can hold (`Records`, `Counted`), what each thread knows of the marker on
  disk (`Marked`), and that a backup is that of the job the marker names
  (`BackedUp`). `CutsAreKept`, `WhatIsOpenedIsRecovered`
  and the refinement `PromotionImplementsStore` speak of behaviours without edits
  and misreads; they add `Calmly`: what the disk holds for each state of the
  marker, what the promotion relies on at each step, and that from each step of a
  recovery the kept set survives to its end, wherever it crashes.
* `CutJobs_proofs`. `CutsAndOutputAgree`. The hard part is that the frames of a
  rebuild stood together. The job cannot see that; it sees that a rescan found
  every frame as it copied it. `CutInv` says why this is enough (`MeetsTheLost`):
  every write gives a file a new identity, so that a frame that was replaced after
  its copy never comes back, and as long as the set has not stood since the last
  copy the rescan has such a frame ahead of it. The other parts: a manifest that
  was read keeps its union and its mark as long as its directory stands, and a
  directory put in its place is a new one (`SetInv`, `ViewInv`); who holds the
  lock is in a scan that locks (`Turns`); what the job has at hand and owes at
  each step (`JobInv`).
  `FitKeepsWhatItWasGiven` (`WebPFit`), from `FitInv`
  and `Reasons`: an encode is accepted and light enough before the rename, the
  temporaries there are at each step, what the file holds is the encoding of the
  frames, and where no scale shrinks the frames are as they came
  (`SideIsLargeEnough` and `SideIsSmallest` are the arithmetic of the smallest
  scale, rounded up). Below them is what the encoder does to any sequence of
  frames: merging equal pictures (`MergedShows`), splitting what lasts too long
  (`AllPiecesShow`), and encoding each run once to repeat its chunk
  (`AnimationIsEmitted`) show at each millisecond what the frames show, so the
  encoder's reading of its file finds the duration, the delays and the pixels it
  expects (`OwnFileIsAccepted`).
* `Storage_proofs`. `ContextKeepsItsPromise` (`JobContext`), from `Ownership`,
  `CancelPrecludesCommit` and `Finality`, and these from the invariant that the
  active job is exactly the live one.
  `HandlesAreAccountedFor` (`BoundDirectory`): each open handle has one owner, a
  bind, a retained failure or the registry, and what a bind holds is the chain of
  directories its path led to. `OnlyTheOpenedIsTaken` (`BoundEntries`): on
  Windows a call that passed its check holds a node of the kind it accepts
  (`CallHolds`), and nodes keep their kind, so that what it takes is that one
  whatever happened to the names; on POSIX the kernel refuses a directory to
  `unlink`, and that is all there is to rely on. `NothingIsLost`
  (`Migration`): that the frames are kept is not inductive, since the removal
  takes them one by one; `MigrationInv` adds that the legacy set is the user's
  until then, that the copy holds what was read, that a cached set stands when the
  comparison begins, that it holds the user's last frames once the comparison has
  succeeded, and that the transform goes before the set. `WeightsAndSessionAgree`
  (`ModelStore`), from `ModelStoreInv`: who is past the check of its bytes holds a
  whole inode of its own, a part is its instance's, while one instance promotes
  the other has put nothing at the name, a weight that was found or downloaded is
  there or was taken, and the session is the active or the pending one. What
  stands unverified at a weight's name, or as a part without a download, is the
  file of a removal that failed (`stuck`).
  `OutputsAreKept` (`OutputPublication`): a writer's transaction begins when the
  anchor names the lock it holds, and no later step of anybody changes the anchor
  or takes that lock, even when the directory with the lock is cleaned away; so
  two transactions would need two holders of one lock. `PublicationInv` adds, for
  each step of a writer the user has not touched, what stands at the output and at
  the recovery (`OutputStands`, `RecoveryStands`, `CommitStands`, `EndStands`),
  and that a slot that is written has no other name (`SlotStands`). The proof
  shows for each step that it is a `GoodStep`: it leaves the other writers what
  they rely on, and outside its transaction it moves nothing that has a name.
* `Interface_proofs`. `OnlyWholeUpdates` (`UpdateFlow`), from `UpdateInv`: which
  file stands at which name and what a descriptor that is open stands for, which
  worker has reached which step of a download, what the dialog offers, and that a
  part without a download is one whose removal failed (`stuck`).
  `CanvasFollowsPlayback` (`Playback`): each handler of the GUI thread leaves the
  view steady, the session it belongs to, its generation and its transport telling
  the same story (`Steady`), and moves no session that was started
  (`PlaysStay`), while the worker's steps keep what it has announced and whether
  it was stopped. `StageShowsTheCut` (`ResultStage`), from `StageInv`: the live
  analysis is of the open cut as it is framed, facts shown without an analysis are
  of the current cut, and a load with nothing ahead that starts another is of the
  frame asked for. `FrameFollowsThePlayhead` (`Timeline`): the rate and the range are
  arithmetic, a quotient rounded half up lies within the bounds it was taken from;
  the exact frame needs `FrameIsOnItsWay`, that a frame which is not the
  playhead's has a timer armed, a worker running or a load ahead of it; a ready
  source without a timeline has no playhead to follow.
  `StripFillsWithItsSource` (`Filmstrip`): a worker that is not cancelled hands over
  or has failed every sample it is through with, with a cache or without, and what a thumbnail was
  before it reached the widget, a file another strip wrote included, says which
  source, layout and sample it shows (`FilmInv`); the directory names no image
  twice, and the index of a worker that is alone in it, and that no use of it has
  failed, is the directory
  (`CacheInv`), whose bytes, a sum over a sequence, grow by what is written and
  shrink by what is evicted.
  `CropIsShownAndStaged` (`CropEditor`) is arithmetic of rectangles below and a
  short invariant above: whatever is resized, moved, fitted or centred is a whole
  rectangle, in the frame when it began there and is valid (`CandidateFits`);
  what an orientation maps to the raw video and back is the same rectangle
  (`DrawnIsTheCrop`); a scaled frame reaches at least, or at most, as far as the
  target on each side (`ScaledSides`). `CropInv` keeps that the overlay shows the
  stored crop, that a drag starts from a view that was shown, and what was staged
  last.

The assumptions on constants are the named ones of the modules: `None`,
`Nothing`, `Absent` and the like are none of the values they stand beside, and
the bounds are numbers. `FramingsAreAccepted` (`CropEditor`) takes the framings to
be ones that `FramingPlan` does not refuse (`core/geometry.py:222`): their
framed size is a pair of numbers at the smallest final size or above.
`ScaleIsFine` (`WebPFit`) says that the steps of a scale are finer than the smallest
side has pixels. The inductive invariants are ordinary state predicates,
and TLC finds them true on the bounds of the runs: that is how they were found
before they were proved.

What holds of a sequence of any length is proved one element at a time. The
library's induction theorems take an operator and cannot be used; `Induction` is
the same over a set of numbers, from the well-foundedness of `<`, and
`BuiltOneByOne` over a set of sequences closed under `Append`. The operators they
are used on are recursive functions or `FlattenSeq`; no module declares a
recursive operator. For each of these functions a lemma says what one more
element adds (`FlattenAppends`, `MergedAppends`, `DelaySumAppends`).

Model-checked only:

* liveness under fairness, which the prover does not reach (`CancelIsAnswered`,
  `PublishedIsShown`, `CallsReturn`);
* what the runs that expect a violation refute.

## 6. Not modelled, and the plan

Left for later:

1. The listing of the legacy folders before a migration, and the names it looks
   for.
2. The second instance of `UpdateFlow`, and the wait of the GUI thread for the
   model manager's lock.

Partly modelled parts say in `PROJECT.json` which operations they lack.

Left out for good: probing and decoding with PyAV (`jobs/source.py`), whose
callers are in `Playback`, `Timeline` and `Filmstrip`; the codecs of requests
and settings; pixel processing in Pillow and NumPy; layout geometry, widgets,
wording and painting; packaging and start-up wiring. They keep no state that a
step of another part could find wrong, or are bindings to libraries.
