# ocibuilder: a verification development

ocibuilder is a command-line builder of OCI container images written in C++ (after buildah).
Every command (`build`, `pull`, `push`, `tag`, `rmi`, `config`, ...) is a process of its own: there is
no daemon. What the processes share is two directories:

* `oci_images/oci_registry`, the **image store**: `index.json`, one record per image name, and
  `blobs/sha256`, one file per manifest, config and layer;
* `oci_images/overlay`, the **layer store**: `layers.json`, the list of the layers, and one directory
  per layer with its files unpacked;

and, with `push` and `pull`, a registry. The stores are loaded whole at the start of a command, changed in memory and written back whole. This
directory holds TLA+ modules of the two stores, of the commands that change them, of a push and of the
stages, locks and semaphore of a build, TLC configurations that check them, and theorems about them
that TLAPS checks.

Paths below are relative to the repository root (`src/src/...` in `PROJECT.json`, where the directory
`src/` holds the repository).

## 1. The system

### Components

| component | code | state | operations | hard behaviour |
|---|---|---|---|---|
| image store | `storage/storage/storage.cpp` (`ImageStore`) | `index.json`; in memory `images`, `byid`, `byname`, `bydigest` | open (`newImageStore`, `load`), `lookup`, `newtag`, `Delete`, `Save` | no lock is taken; whole-file rewrite; stale maps while one `rmi` works through its arguments; an index whose manifest is missing cannot be opened |
| image copy | `image/types/copy.cpp`, `image/buildah/image.cpp` | temporary files `config.json`, `manifest.json`, `blobs` in `blobs/sha256` | `copyLayers`, `SaveConfig`, `UploadManifest`, merge into the index | blobs before the record; temporary names shared by all processes; results nobody looks at |
| pull | `cmd/pull/pull.cpp`, `network/network.cpp` | files in `blobs/sha256` | `pullManifestAndBlob`, `pullConfig`, `pullBlob`, index update, unpacking of layers | lost and wrong blobs; a file that is there counts as whole; a manifest is rewritten in place |
| config | `cmd/config/config.cpp`, `image/buildah/add.cpp` | as image copy | `openBuilder`, `Builder::Save` | removes the manifest file before it renames the new one |
| tag, rmi | `cmd/tag/tag.cpp`, `cmd/rmi/rmi.cpp` | - | `newtag`, `Delete` by name and by id, several arguments | files shared by names, histories and images |
| layer store | `storage/storage/layers.cpp`, `image/buildah/image.cpp` (`NewImageSource`), `image/buildah/tar.cpp` | `layers.json`, the layer directories | `create`, `extractTarGz`, `lookup`, `deleteLayer`, renaming of directories, `savelayer` | whole-file rewrite with no lock; several steps per layer; crash between them; layers unpacked file by file over what is there; copies repeated after directories were moved; directories identified by the digest of a tar of them |
| graph driver | `filesys/graphdriver/driver.cpp`, `storage/storage/overlay.cpp` | - | makes the directories of a layer | - |
| Store facade, container store | `storage/storage/storage.cpp` | names of the containers of one command, in memory; two lock files | `Load`, `CreateContainer` | a container name used by two stages; locks that are not given back |
| build, stages | `cmd/build/build.cpp`, `cmd/build/imagebuildah/*.cpp` | platforms, stages, container, image id | `Prepare`, `Execute`, `commit`, read-back of the manifest, `waitForStage` | errors of a stage; images of stages that are not committed; images that vanish meanwhile |
| retry | `image/buildah/retry.cpp` | - | `IfNecessary` around the copy of a build and two requests of a push | operations repeated after a success; the last exception swallowed |
| push | `cmd/push/push.cpp` | none of its own | check, HEAD, POST, PATCH, PUT of each blob, PUT of the manifest | requests and answers lost, or awaited for ever; files that change between check and upload; two pushes at once |
| registry client | `network/network.cpp`, `registry/*` | the location of the upload | one function per request | exceptions caught on the way; answers worded in several ways |
| weighted semaphore | `utils/common/semaphore.cpp` | held weight, queue of waiters | `Acquire`, `TryAcquire`, `Release`, `notifyWaiters` | a mutex locked twice by one thread; giving up while others wait; an exception after the count was changed |
| lock file | `storage/lockfile/lockfile.cpp` | counter, two mutexes, a file lock | `Lock`, `RLock`, `Unlock`, `Touch` | reference counts; what is unlocked when |
| login, logout | `cmd/login`, `cmd/logout`, `security/` | `auth.json` | read whole, truncate, write | no lock; see section 5 |
| parsers, command line, names, configuration, logger | `utils/`, `image/shortnames`, `image/types/reference`, `config/` | none, or one file | sequential functions | boundary cases of text |

### How they interact

A build looks its base image up in the image store (`libimage`), opens the layer store and adds a
working layer, runs the instructions in it, and calls `NewImageSource`, which turns the layers into
tars, renames their directories after the tars' digests and saves `layers.json`. `Image` in
`copy.cpp` then stores the blobs in the image store and merges the record into `index.json` as it is
at that moment. `pull` writes the blobs and the record first, then creates and unpacks the layers one
by one and saves `layers.json` after each. `tag`, `rmi` and `config` change the image store only;
`rmi` never touches the layer store. A build runs its stages in one thread, one after the other, and
repeats the copy of an image that throws (`retry`); a push repeats two of its requests in the same way.
There are no messages or callbacks between processes: all interaction is by files and by the registry,
and a process sees the files of another between any two of its own steps. The two lock files that exist
are taken while the stores are opened, not while they are used.

### What makes each part correct

* image store: what the index refers to is stored; what is stored is referred to; a name stands for
  one record; a command changes only the names it is about; the store can be opened again;
* image copy and pull: no record before its blobs, whatever runs beside and wherever a process dies;
* layer store: what `layers.json` lists is unpacked; an image has all the layers of its base, in
  order, and the new layer on top; every layer of a new image has its directory;
* push: a tag of the registry never names a manifest whose blobs are not all there; a push fails only for a
  reason, ends unless an answer never comes, and succeeds when it is repeated;
* build stages: a build that reports success has recorded an image; it fails only for a reason, and ends;
* semaphore: shares are never more than there are and none gets lost; who has given up is not waited for; a call returns;
* lock file: opening the stores ends for every command, whatever happens to the others, and who has a file waits for none.

`PROJECT.json` lists every component under `components` and every hazard we found, at its line, under
`hazards`; those no property covers yet say why.

## 2. The modules

| module | what it is |
|---|---|
| `ImageStore` | the image store with the commands build, pull, tag, config, rmi and a reader, by any number of processes |
| `Catalog` | the abstract specification: names and the manifests each has stood for, one atomic step per command |
| `StoreCatalog` | the refinement mapping from `ImageStore` to `Catalog` |
| `MCImageStore`, `MCStoreScenarios`, `MCStoreDamage` | the instances of `ImageStore` and `StoreCatalog` for TLC: one by constants, five uses of the store of which a behavior takes one, and two that damage it |
| `ImageStoreProofs` | type correctness of `ImageStore`, lemmas on sequences and records; no record before its blobs; a name is recorded once; a command keeps the names it has loaded |
| `CatalogProofs` | `ImageStore` implements `Catalog` |
| `IntactProofs` | no file an image needs is removed, also when images are rebuilt, or with any commands as long as no manifest is named twice, and none is left behind |
| `LayerStore` | the layer store with pull and build, by any number of processes that may die and builds that repeat their attempts |
| `MCLayerStore`, `MCLayerScenarios` | the instances of `LayerStore` for TLC |
| `LayerProofs` | what the list of layers names is unpacked, and so are the layers of a new image, which keeps the base layers the build knows; the last two also for one command at a time over layers made elsewhere; type correctness of `LayerStore` |
| `Push` | pushes to a registry, request by request, with requests and answers lost or awaited for ever, damaged files and crashes |
| `Repository` | the abstract specification: what those who pull may rely on |
| `MCPush` | the instances of `Push` for TLC |
| `PushProofs` | type correctness and causes of failure of `Push`, that it implements `Repository`, and that a push does not go on for ever |
| `BuildStages` | the stages of one build, with its retries and failures |
| `WeightedSemaphore` | threads over the weighted semaphore |
| `LockFile` | the lock files of the stores, as commands open them |
| `MCBuildStages`, `MCBuildScenarios` | the instances of the last three for TLC |
| `BuildProofs` | type correctness, success and failure of `BuildStages`, and that a build does not go on for ever; the scenarios of the semaphore and the locks as instances of the next two |
| `SemaphoreProofs` | shares of `WeightedSemaphore` are accounted for, and its queue has the threads that wait |
| `LockProofs` | who has a file of `LockFile` is inside `lockHandle`, and nobody who has one waits for one |

### ImageStore and the code

State. `index` is `index.json`: records with a name (`org.opencontainers.image.ref.name`), a digest, a
history (`historyTags`) and a position `pos`, since the maps `byname` and `byid` keep the *last* record
that matches. `blobs` and `torn` are the files of `blobs/sha256`, whole or holding something else;
`staged` the temporary files. Per process, `pc` and `cmd` say where its command stands, `mem` is its copy
of the store (`images` and `bydigest`; an object that `Delete` has erased from `images` is kept as not
`live`, because `byname` still finds it), `job` is the operation under way, `out` what it will write.

Digests are members of sets; `ConfigOf` and `LayersOf` give what a manifest names. A full name has a
short form (what follows the last `/`, `ShortOf`), and a short name a local form (`localhost/` in front,
`LocalName`), as `parseJson` and the commands make them. The id of an image is the digest of its config.

Actions. `Open` is `newImageStore` with `load` (`OpenFails` when `parseJson` throws; `load` saves at once
when two records share a short name); `Truncate` and `Write` are the two halves of `Save`; `Tag` is
`newtag`; `RmiName`, `RmiHistory`, `RmiHead` are `Delete` of a name, one step per manifest of the history
and one for the head; `RmiId` is `Delete` of an id; `RmiNameThrows` and `RmiIdThrows` are the exceptions of
the parser on the way. `Build`, `Pull` and `Config` begin an upload; its blobs go through `Fetch` or `Stage`,
`Hash`, then `KeepFile`, `Unlink`, `Rename`, or `Tear` and `Rewrite` (a manifest that pull rewrites in place);
`LoseBlob`, `LoseConfig`, `Abandon`, `FileGone`, `ConfigFails` are the failures, each with what the code does
next; `BuildRecord`, `PullRecord`, `ConfigRecord` are the index updates of the three commands. `Crash` ends
a process between two steps; `Exit` is the end of a command.

### Catalog and StoreCatalog

`Catalog` has one variable, a function from names to non-empty sequences of manifests, oldest first.
`StoreCatalog` reads it off the index: the history of a record, then its digest. Between truncating and
writing the index a command's step counts as taken, so that the mapping uses what the process is about to write.

### LayerStore and the code

State. `layersjson` is the set of ids that `layers.json` lists, `dirs` what the directory of each id
holds, given as the digest that a tar of it has, `images` the layer digests (`diffIDs`) of the recorded
images. Per process, `mem` is its `layerStore`: objects with the key they have in `byid` and their id,
which `NewImageSource` changes while the key stays; `job` the image or build under way. An image takes part as
long as there is room for another layer on it (`Bases`, `MaxLayers`). `writer` is the process that unpacks into a
directory and has been alone there since it began; it decides, together with `LostBlobs`, whether all files are
sure to be there at the end.

`Repack[l]` is the digest of a tar made here of the files of layer `l`. `createTar` sorts the paths
and fixes times and modes, so a layer made here packs to itself, and a layer of another tool to some other
digest that then packs to itself (`LayerAssumption`).

Actions. `PullImage` is the record that `pull` saves first; `PullLoad` is `getLayerStoreLocked` and
`load`; `PullCreate` is `layerStore::create` with the directories of the driver. `extractTarGz` is `Unpack`, from which
on the directory lacks files (`Partial`), be the layer listed or not, and `Unpacked`, after the last file; between the
two other processes run, and this one may die. `UnpackLost` is a blob that is missing or has another digest. What
`extractTarGz` returns is only printed, so each is followed by `savelayer`. `Build` stands for `CreateContainer` and the instructions of
the Dockerfile; then, layer by layer, `Drop` is a layer that `lookup` does not find, `Tar` is
`newTarDigester`, `Move` the renaming or removal of the directory with the change of the list (`Deleted` is `deleteLayer`),
`PackThrows` the exceptions when another process, or an earlier attempt, has moved the directory, or the tar cannot
be written; `BuildSave`, `Truncate` and `Write` are
`savelayer`; `Publish` is the rest of `Image`, whose steps are those of `ImageStore`.

A build copies its image in attempts (`retryCopyImage`, `IfNecessary`). After one that throws, `Again` begins
`NewImageSource` anew with the layers of the base and the working layer the build set out with (`Restarted`), but
with the `layerStore` as the attempt left it: ids changed, keys gone from `byid`, directories renamed. So a later
attempt may leave out what it no longer finds, take a directory for another's, or throw where the first did not.

### Push, Repository and the code

State. `whole` are the files of the local store that match their digest; `remote` and `tags` are the
registry; `upload` is the upload that `loginAuth.location` of each process leads to: whether there is
one, what has been sent to it, and whether the location is the one the registry gave last. `dialect` is how
the registry words its `Location` headers, which decides whether the client can use them. `pc` and `job`
say where each process stands, `result` how its last push ended. `lost` is a history variable: the faults that
hit its requests, those that no attempt repeats and those that one does; nothing but `FailureHasCause` reads it.

Actions. Each request is one step, with an outcome: answered, lost on the way, or carried out with the answer
lost (`Outcomes`). `CheckBlob` is `isCorrect`; `HeadBlob`, `InitUpload`, `PatchBlob`, `PutBlob`,
`VerifyBlob`, `ConfirmBlob` are `ifBlobExists`, `initUpload`, `uploadBlobChunk`, `finalizeUpload` and the two
checks after it; `CheckManifest`, `PutManifest`, `HeadManifest` are the end of `pushCmd`. An exception
that a function catches itself looks like a success to `RetryIfNecessary`; an uncaught one ends the process.
`Retry` is `IfNecessary`: once the first attempt has thrown, `MaxRetry` more follow, also after one that
succeeds. `Hang` is a request whose answer never comes, while nobody closes the connection: the calls of the client
are synchronous and set no timeout, so the process waits for ever, whether or not the registry has done what was
asked. `Damage` is another command at work on the local store; `Crash` the end of the process, and `Kill` that of
one that hangs.

The registry is the environment, modelled as far as the client relies on it. It is *not* relied on to look
whether the blobs of a manifest are there: that none is missing is what the order of the client's requests
achieves, and what the refinement of `Repository` states. `Repository` has two atomic steps: a blob is
stored, and a tag gets a manifest all of whose blobs are stored. The mapping is `stored <- remote`,
`named <- tags`; every other step of a push is a stutter.

### BuildStages and the code

State. `request` is what the user asked for: the stages (what each is built FROM and how many
instructions it has), `-t`, `--layers`, the platforms. `platform` and `stage` are the loops of `build.cpp` and
`executor.cpp`; `container` says whether the fixed container name is taken; `tries` and `copied` belong
to `RetryIfNecessary` and `retryCopyImage`; `id` is what `Execute` returns. `recorded` and `kept` are the
build's own share of the image store: it has recorded an image, and that is still there.

Actions. `Start`; `Prepare` (`From`, `prepare`, `newBuilder`), `Run` (the instructions, and whether `Execute`
comes to `commit`), `Copy` (one attempt of `Image`: it records, throws, or gives up with nothing),
`Digest` (the manifest is parsed), `ReadBack` (`buildStage` opens the manifest again) with `Advance` to the
next stage, platform or the end. `Remove` is an `rmi` by another command at any time. The contents of
the stores are those of `ImageStore` and `LayerStore`: the upload of the former and the layers of the
latter happen within `Copy`.

`waitForStage` and with it the semaphore and `terminatedStage` play no part: a build whose last stage is not its
first never comes so far (`MultiStage`). `WeightedSemaphore` is therefore a module of its own.

### WeightedSemaphore, LockFile and the code

Each call of the semaphore locks `mu`, so that its critical section is one step; `Acquire` that has to wait is two
(`Acquire`, `GiveUp`), with the one millisecond between them. `notifyWaiters` locks `mu` again: the step
that comes to it ends in `Hang`, with `mu` the thread's own for ever. `held` is what callers were told, less what they
released; the code has no such variable, and nothing in it keeps a caller from releasing more than it has, which a
thread of the model may do by `MaxOver`. A release of more than is taken ends in the exception, with `cur` reduced.
The program itself never makes a semaphore (`build.cpp:127` in `imagebuildah` only replaces one that is set), and its
one call is a `Release` of a share nobody acquired (`executor.cpp:808`), in `waitForStage`.

In `LockFile` a command locks `storage.lock` while the driver is created and `containers.lock` when the
container store is opened. `Enter` is `lock` up to the call that waits for the file, `Leave` the rest of
`lockHandle`, which unlocks the file, and of `lock`; `Loaded` the unlocking of `graph_lock`; `End` a return, an
exception or the death of the process.

## 3. What TLC checks

Each run asks one question. All instances are explored completely, without symmetry reduction. A run over
*scenarios* checks several instances at once: the initial states fix a variable `scenario`, each step
belongs to the module instance it names, and each property speaks of the scenario it is about.

| run | instance | shows |
|---|---|---|
| `StoreScenarios` | `aliases`: one process, names that are new, two of three manifests share a layer; `rebuild`: one process, histories, two names with one short form, rmi of two arguments; `reuse`: one process, all commands, everything used again, rmi of two arguments; `races`: build and pull beside build and rmi of one name; `crash`: build and tag beside tag, either may die | `StoreIntact`: no sequence of commands removes a file that is still needed. `NoGarbage`: and none leaves one behind. `HistoriesIntact`: `StoreIntact` where records have histories (`rebuild`). `ReusedIntact`: `IntactUnlessShared` (`reuse`): as long as the index names no manifest twice, what it refers to is stored. `RecordedOnce`: `NamesUnique` in `races`, also after commands took each other's temporary files. `CrashComplete`: `HistoryComplete` (`crash`): the index refers to stored blobs only, at every moment |
| `StoreDamage` | `failures`: one process, all commands, two names, taken names, a lossy registry and failing writes; `deaths`: two processes that build and rmi one image and may die anywhere | `TypeOK`; `NamesUnique` and `KeepsNames` in a damaged store; `CatalogSpec`: every command is one step of `Catalog`; `RecordedOnceAfterDeaths`: `NamesUnique` in `deaths`, also after a death between truncating and writing the index |
| `LayerScenarios` | `races`: one process that pulls beside one that builds, a second attempt, failing attempts, deaths; `builds`: two that build, one of which also pulls, nothing fails; `alone`: one process, a foreign layer, an image with it twice, repeated pulls, lost blobs, a second attempt, deaths, three layers | `LayerTypeOK`. As long as no layer is pulled over itself (`FreshPulls`): `ListedUnlessAgain`: the list is never ahead of the files; `KeptUnlessAgain`: a build that knows its base keeps all of it, in order, in every attempt; `BuiltUnlessAgain`: each layer of a new image has its directory, which holds the files of the digest. `AloneUnpacked`: the last also after layers were pulled over themselves, for foreign layers and one command at a time |
| `PushFaults` | two pushes of one image to one tag, with or without `--format`, three dialects, two faults, one repetition | `PushTypeOK`; `FailureHasCause`; `RepositorySpec`: the refinement; `PushAdvances`: no step sets a push back; `PushEnds`: a push ends, or waits for an answer that never comes; `Resumed`: a push that failed, or hung and was killed, succeeds when it is repeated |
| `BuildScenarios` | `stages`: Dockerfiles of up to three stages, two platforms, three attempts, four faults; `semaphore`: three threads, two shares, releases of one share too many; `locks`: three commands | `BuildTypeOK`; `SuccessRecorded`; `FailureHasCause`; `SharesAccounted`; `WaitersQueued`: nobody who has given up is left in the queue, where he would block every later call; `OwnersInside`: who has a lock is about to give it back; `BuildAdvances`: no step sets a build back; `BuildEnds`, `CallsReturn`, `StoresOpened`: builds end, calls of the semaphore return as long as nobody releases or asks for several shares, every command gets its stores opened |

Seven runs state what the code's documentation says and find it violated; `PROJECT.json` quotes the lines:

* `RmiBreaksAlias` (`Reloadable`): build, tag, rebuild, rmi. `Delete` removes every manifest of the
  history, also one that another tag still names; `parseJson` then throws for every later command.
* `BuildsRace` (`HistoryComplete`): two builds share `config.json` and `manifest.json`; the mutex that is
  to prevent it is a local variable. A record then names a manifest whose layers were never stored.
* `ForeignBase` (`BaseKept`): a pulled image of another tool is built FROM twice. The first build renames
  the layer after its own tar, the second does not find it, says so and records an image without it.
* `PushStale` (`SuccessNamesImage`): an image is pushed to a tag, then another, whose PUT of the manifest is lost. The
  tag still names the first, `ifManifestExists` only asks whether there is one, and the push prints "Push success!!".
* `MultiStage` (`AllStagesBuilt`): a Dockerfile of two stages fails although nothing goes wrong: a stage that is
  not the last has no name to commit under, or no image to read back.
* `LocksRace` (`WritersExclude`): `lockHandle` unlocks the file before it returns, so that two commands are
  between `Lock` and `Unlock` at once.
* `ReleaseHangs` (`ReleaseNotifies`): one thread acquires a share and releases it. `Release` calls `notifyWaiters`
  with `mu` locked, which locks `mu` again: nobody is notified, and every later call waits for `mu`.

Three more divergences show with the same modules and have no run: `rmi` of one name *twice* in one command, whose
second argument finds the erased record through `byname`, so that files of another name go; two commands
that overlap, of which the later `Save` drops the record of the first (nothing locks the store between
load and save); and `rmi` of an *id* whose record has a history, which steps the record back and removes the
manifest and the config of the head but none of its layers (`src/src/storage/storage/storage.cpp:1336-1377`),
so that `NoGarbage` is claimed only where no record has a history. `tag` with a short name that a record of another registry has erases that record (`lookup` of
the short name); what is claimed of `KeepsNames` and `NoGarbage` therefore excludes such pairs of names.

These also bound what the passing runs and the theorems can claim: `StoreIntact` holds only
as long as no manifest is named twice, `HistoryComplete` without two builds, `KeptUnlessAgain` for bases the process knows,
`FailureHasCause` of builds for one stage.

### Bounds, and why they are enough

* `Procs`, `Pushers`, `Commands`: two, three for locks. All conflicts are between two processes that
  overlap; a third adds no new pair of steps. Three threads make a queue of two behind a holder.
* `Names`, `Manifests`: one to three names and one to three manifests: enough for two names of one
  image, two images of one layer, a record with history next to one without. Two names with one
  short form, which make `load` rewrite the index, are in scenario `rebuild`. In scenario `reuse` three manifests over two
  layers let one be shared by images and by names, and the other not. Scenario `deaths` has one manifest, so that
  deaths between any two steps of two processes stay countable; `races` has two.
* `MaxArgs`: arguments of one rmi, one or two; the second sees what the first left in memory. `CatalogSpec` is
  checked with one: the ids in `byid` are stale for a second.
* `MaxPos`, `MaxHistory`: records in the index and length of a history; an operation that would exceed
  them is not taken.
* `Reuse`, `FreshBuilds`, `WriteErrors`, `LossyRegistry`, `Crashes`: which freedoms an instance has, so that it
  asks one question. `FreshBuilds` makes every build a new image, as the time in its config does.
* `CommandsOf`: which commands a process of the layer store runs. In `races` one pulls and one builds, so that deaths and
  attempts stay countable; `builds` has the pairs that are missing.
* `MaxLayers`: layers of an image; two and three give a base layer below and above another.
* `Contents`, `PullImages`: what builds produce and what a registry has. Scenarios `races` and `builds` and the
  theorems about several processes keep them apart: a pull that died leaves a directory with files missing, which a build
  of a layer of that name would take for its own.
* `CopyFails`: whether an attempt to copy may throw, or give up with nothing, where nothing in the module makes it.
* `LostBlobs`: whether a pulled layer may be missing or broken.
* `MaxRetry`: attempts after the first, 3 in the code. One for pushes and layers and two for builds let an attempt fail, one
  succeed after a failure, and all fail. `MaxFaults` is larger than `MaxRetry`, so that both sides of the
  bound in `FailureHasCause` occur. A fault is a request or answer that is lost or awaited for ever, a damaged file,
  a crash, a failed step, a removal; the killing of a push that hangs is none.
* `Dialects`: how a registry may word a location: as the client expects, with the state parameter spelt
  otherwise, or without host and port.
* `Formats`: whether `--format` may be given, which asks for a manifest of version 1. `PushStale` leaves it out, for with
  it push does not look at the tag at all.
* `MaxStages`, `MaxPlatforms`: three stages let a middle one be used, or not; two platforms build a Dockerfile again.
* `Size`: two shares, so that a call may ask for one, all, or more than there are; one for `ReleaseHangs`.
* `MaxOver`: how many shares more than it has a thread may release; one lets `cur` go below zero.

### Fairness

`ImageStore` and `LayerStore` state none, and no liveness is claimed of them: a user may stop a command at any
point, and their commands wait for nothing. Where something is waited for:

* `Push`: `WF_vars(Step(p))`: a process that is not dead runs on; each of its calls blocks on nothing but a
  connection. That a connection answers or fails is *not* assumed: one that does neither is the step `Hang`, after which the
  push takes no step of its own, and `PushEnds` says no more than that it ends or hangs. `WF_vars(Kill(p))` and
  `WF_vars(Repeat(p))` are the user: who sees a push hang kills it, and who sees one fail repeats it. Only `Resumed` needs
  them; faults end because there are at most `MaxFaults`.
* `BuildStages`: `WF_vars(Step)`: one thread, which waits for nothing but files.
* `WeightedSemaphore`: `WF_vars(Step(t))`: a thread that can run runs. A critical section is one step, so that `mu` is
  found locked only when its owner hangs, and weak fairness is enough. `CallsReturn` assumes that callers ask
  for one share at a time and release nothing, for a release of what was acquired hangs (`ReleaseHangs`), and so may an
  `Acquire` of several shares that gives up at the head of the queue.
* `LockFile`: `WF_vars(Step(c))`: a process that is not dead runs on; weak is enough, since
  every command locks each file once, so that in the end nobody competes for it any more. `End` is not fair: a
  command may work for ever with its stores open.

`BuildScenarios`, `MultiStage`, `LocksRace` and `ReleaseHangs` have `CHECK_DEADLOCK FALSE`: a build that has ended, threads
behind a hung one, and commands that have ended do nothing more. All other instances check deadlock.

## 4. What is proved

The theorems hold for every number of processes, names, digests, layers, stages and faults, and every bound.

Image store:

* `TypeCorrect` (`ImageStoreProofs`): `Spec => []TypeOK`, from `NameAssumption`, `DigestAssumption`,
  `CommandAssumption` and `BoundAssumption`. `TypeOK` is not inductive: a step that records an image needs its
  `job` to hold a manifest and a name, which `Job` alone does not say. `TypeInv` adds `UploadOK`: past the
  state `idle` of an upload the command is build, pull or config and its job is filled. Lemmas show
  that objects, lookups, compacted indexes and `RemoveFirst` of a history keep records records.
* `UploadsBeforeRecords` (`ImageStoreProofs`): `SafeUse => (Spec => []HistoryComplete)`, where `SafeUse` is the
  use the counterexamples leave: no rmi, a registry that delivers and files that can be written, no
  crash of a command that rewrites a file in place, no two processes that run the same uploading
  command. The invariant `SafeInv` says that the index *and every copy of it in a process* refer to stored
  manifests only (else a `Save` of stale memory would break it). Its part `CleanInv`, which holds with rmi too,
  says that all blobs of an upload outside `todo` and the one in hand are stored, and that a temporary file holds
  the blob its process staged.
  `SafeFrame` shows once that a step of one process preserves this for the others.
* `NamesRecordedOnce` (`ImageStoreProofs`): `DistinctShorts => (Spec => []NamesUnique)`, with crashes, damage
  and any number of processes. `DistinctShorts` says that no two names have one short form and that names, short
  names and ids differ. `NameInv`: names are unique in the index, in each process's memory (erased objects
  included) and in what it is about to write. The work is in `LookupName`: what is looked up by a name
  or a short name is *the* object of that name, so the record that tag and pull replace is the right one.
* `LoadedNamesKept`: `DistinctShorts /\ Alone => (Spec => []KeepsNames)`: a process that is alone (`Alone`: one process)
  writes every name it has loaded, unless it runs rmi. `KeepInv` adds that the index and what is about to be
  written have the names in memory; with a second process build merges into an index that another `Save` may
  have emptied, and the property fails.
* `StoreKeepsCatalog` (`CatalogProofs`): `SingleUse => (Spec => CatalogSpec)`: a process that is alone, never killed
  between two steps, gives rmi one argument and uses names with distinct short forms keeps a catalog, whatever
  is lost, torn or not written. `FreshInv` adds to `NameInv` that no two records have one place, that the objects
  in memory are exactly the records of the file until the command decides what to write, and that rmi, on its way
  through a history, still has the record it set out to delete. A step that decides what to write is then one
  operation of the catalog (`BuildPublishes`, `ConfigPublishes`, `PullRefreshes`, `TagAliases`, `RmiNameForgets`,
  `RmiHeadForgets`, `RmiIdRetreats`, over three lemmas on sets of records: `OneAssigned`, `OneForgotten`,
  `Retreated`); all other steps leave the catalog alone, the writing of the index included (`CompactCatalog`).
  Each hypothesis is needed: a second process or a death loses records, a second argument of rmi finds
  ids and erased objects in memory, and two names of one short form make lookups ambiguous.
* `NothingNeededRemoved` (`IntactProofs`): `IntactUse => (Spec => []StoreIntact)`, where `IntactUse` is `SingleUse`
  with names that build, pull and tag do not reuse, no config, a registry that delivers and files that can be
  written: then no record gets a history, which is where the counterexample `RmiBreaksAlias` comes from. Between
  the first file that rmi removes and the index it writes, the index names what is gone; `IntactAt` therefore says for
  each place a command can be at which records count: those of the index, those about to be written, or those of
  the index but the one rmi is removing, none of which may share its config. `bydigest` must be the digests of the
  index when an operation begins, since `Delete` takes from it which layers others use. The invariant rests
  on `FreshInv` (memory is the file) and `CleanInv` (uploads are stored).
* `NothingLeftBehind`: `IntactUse /\ OneManifest => (Spec => []NoGarbage)`. `TidyAt` gives every file an owner at
  each place: a record that counts, the image rmi is removing, or the upload under way. A layer that stays
  when its image goes has, by `UnusedLayers`, another manifest that names it (`OtherOwner`). `OneManifest`, no
  two manifests over one config, is needed where rmi erases a name alone because another record has its id.
* `OnlySharingHurts`: `QuietUse => (Spec => IntactUnlessShared)`, with `IntactUnlessShared == []Unshared => []StoreIntact`
  and `QuietUse`: one process, nothing failing, `OneManifest`. Build, pull, tag and config may use every name again,
  names may share a short name, and rmi may have any number of arguments, by name or id. `Unshared` says that no
  manifest occurs twice in the index, neither in the head and history of one record nor in those of two. So
  the one way to lose a file is the one `RmiBreaksAlias` shows: two names, or one name twice, for one manifest.
  A behavior may stop in any state, so that damage before the first shared manifest is ruled out, too. What the first
  proof rests on is gone here: the objects in memory are no longer the records of the file, `bydigest` is not
  what the index refers to while rmi works through a history, and a record that falls back to its previous
  digest keeps the id of the later one. `QuietInv` says of a command that adds images that what the index refers to
  is stored, shared or not; `RmiAt` says of an rmi that its memory, without the objects it has erased, and what it is about to write
  share nothing and are stored (`Stands`), and that objects of one id are one object. On the way through a history this
  holds of the objects rmi leaves alone (`Spared`), which share no manifest with the history and whose manifests are
  all in `bydigest`, so that no layer of theirs is removed. `Unshared` is used where rmi loads the index.
  `OneManifest` is needed since rmi removes the config, which another image with the same one still needs.
* `RebuildsUnshared` and `RebuiltStoreIntact`: `RebuildUse => (Spec => []Unshared)` and hence `RebuildUse => (Spec =>
  []StoreIntact)`: `QuietUse` with build, rmi and `images`, every build a new image (`FreshBuilds`, as its time makes
  it). `RebuildInv` adds to `QuietInv` that the index and what is about to be written share nothing, and that the image
  under way is in no record. With tag both are false (`RmiBreaksAlias`): two names then share a history.

Layer store:

* `LayerTypeCorrect` (`LayerProofs`): `Spec => []LayerTypeOK`, whoever made the layers.
* `ListedLayersUnpacked`: `OwnUse => (Spec => ListedUnlessAgain)`: layers made here, blobs that
  unpack, and no layer both pulled and built; any number of processes, crashes and attempts. `ListedUnlessAgain` is
  `[]FreshPulls => []ListedUnpacked`, where `FreshPulls` says that no pull unpacks over a layer that is whole, or that another
  pull is at: if one does, files of a listed layer are missing for a while, or for good when it dies. `ListedUnpacked`
  speaks of the file only, while a `savelayer` may write a list loaded long before. `LayerInv` therefore says that
  whole directories stay whole and that every layer a process *holds* is whole but the one it has at
  hand: the layer being unpacked, whose `writer` it is, or the working layer, whose directory has the content its build
  gave it and is nobody else's. `LayerFrame` reduces a step to what it does to directories and to its own process.
* `BuiltLayersUnpacked`: `OwnUse => (Spec => BuiltUnlessAgain)`, from the same invariant and the part of it
  that says that what a build has packed so far, in this attempt, is whole.
* `KnownBasesKept`: `OwnUse => (Spec => KeptUnlessAgain)`. `ImageInv` says how far a build is
  (`Progress`): what it has packed, followed by what it has still to pack, is the base with the new layer on
  top, since an own layer packs to itself and no layer the build knows is dropped. What makes this hold in the attempts
  after one that threw: an own layer keeps its directory and its key, whatever is renamed over it, until the working
  layer is moved, and from then on no attempt gets past the working layer, whose directory is gone.
* `AloneLayersUnpacked`: `AloneUse => (Spec => []ResultUnpacked)`: one process over layers of any tool, which may pack to
  other digests here, in any number of attempts and with layers pulled over themselves. Blobs may be lost and commands may
  die, unless a layer that is pulled is also one that builds make (`Pulled \cap Made \subseteq {Partial}`). `AloneInv` says
  that a directory holds what its name says, or what is called so wherever it is packed (`Made`), and that a directory of
  such a name holds just that, or is being unpacked (`Filling`). The disjointness is needed: a pull that dies while it
  unpacks leaves an incomplete directory under the name that a build of just that content finds taken, and trusts.
* `AloneBasesKept`: `BaseUse => (Spec => []KnownBaseKept)`: one process that is never killed and finds all blobs, layers of
  any tool, but in no image a layer beside the one it packs to (`Unmixed`). `BaseInv` adds to `AloneInv` that each directory
  holds what its layer packs to, or nothing (`PacksRight`), and that what is packed, followed by what the rest will pack to,
  is what the base packs to (`OnWay`). With a death or a lost blob a pulled layer may be packed while files are missing;
  and of two layers of one image that pack alike, the second takes the first out of `byid`, so that a second attempt
  leaves it out.

Push and build:

* `PushTypeCorrect` and `FailuresHaveCauses` (`PushProofs`): `Spec => []PushTypeOK`, `Spec => []FailureHasCause`. The
  invariant says of a push without a cause to fail (`OnCourse`) that its upload is open and holds the blob, or the
  blob is on the registry already, and that each attempt to close the upload was hit by a fault of its own.
* `RegistryIsRepository`: `Spec => RepositorySpec`: each step of a push is a step of `Repository` or a stutter. The
  invariant says that every part of the manifest that a process no longer has in `todo` is on the registry.
  `TagsComplete`: whoever resolves a tag finds every blob of its manifest.
* `PushesAdvance`: `Spec => PushAdvances`, and `BuildsAdvance` (`BuildProofs`): `Spec => BuildAdvances`. These are the
  variants behind `PushEnds` and `BuildEnds`: each step of a push ends it, leaves it hanging, takes a blob off
  `todo`, or makes `Distance` less, a number made of where it stands and the attempts it has left; no step of
  anything else sets it back. A build comes to its next platform or its next stage, or its `Distance` gets less. So
  neither goes on for ever, for any image, registry, number of pushes and `MaxRetry`. That a step is
  always possible, and taken, is what remains to TLC (`PushEnds`, `BuildEnds`).
* `BuildTypeCorrect`, `SuccessMeansRecorded`, `FailuresHaveCauses` (`BuildProofs`): for any Dockerfiles, platforms,
  retries and faults. The invariant says that a build with a copied manifest or an `id` has recorded a named image; and of a
  build without a cause to fail, that every repetition of the copy is owed to a failed copy, unless one has succeeded.

Semaphore and lock files:

* `SharesAlwaysAccounted` (`SemaphoreProofs`): `SemaphoreUse => (Spec => []SharesAccounted)`, where `SemaphoreUse` says
  that there are finitely many threads and `Size` is a natural number: the shares taken are the sum of those
  the threads were told they have less those they released, which may be negative, and never more than `Size`.
  `ShareInv` adds the types. `CountInRange`: if nobody releases more than he has (`MaxOver = 0`), `cur` stays in `0..Size`,
  so that the exception of `Release` does not occur; `HolderInv` says that a thread in `Release` still holds what it
  gives back.
  The property sums with a fold; `TotalIsFold` and the lemmas before it say what a fold over a finite set is when one
  element changes. The library's induction theorems cannot be used for that (see below); `Smallest` takes their place: a
  collection of subsets of a finite set that is not empty has one with none of its members an element smaller.
* `QueueHasWaiters`: `SemaphoreUse => (Spec => []WaitersQueued)`: in the queue are exactly the threads that wait, each
  once. `Joined` and `Left` say what a queue is after an `Append` and a `RemoveAt`. Since `Acquire` and `TryAcquire`
  give shares only when the queue is empty, an entry left behind would fail every later call.
* `OwnersAlwaysInside` (`LockProofs`): `LockUse => (Spec => []OwnersInside)` for any number of commands, with `LockUse ==
  None \notin Commands`: a command has a file if and only if it is inside `lockHandle` of that file. It follows
  (`NobodyHoldsAndWaits`) that a command that waits for one file has none, so that commands never wait in a circle:
  the safety behind `StoresOpened`.
* `ScenarioQueues` and `ScenarioLocks` (`BuildProofs`): the same for the instances in `MCBuildScenarios`, whose steps are
  shown to be steps of the instances the theorems are about (`Parts`).

Before each proof TLC checked the inductive invariant as an invariant of the corresponding runs.

The other properties with a name of their own in the modules of the scenarios are those of an instance, and what they
say for that instance the theorems say for all: `RecordedOnce` and `RecordedOnceAfterDeaths` are `NamesUnique`
(`NamesRecordedOnce`), `CrashComplete` is `HistoryComplete` (`UploadsBeforeRecords`), `HistoriesIntact` is `StoreIntact` (`RebuiltStoreIntact`),
`ReusedIntact` is `IntactUnlessShared` (`OnlySharingHurts`), and `AloneUnpacked` is `ResultUnpacked`
(`AloneLayersUnpacked`). The instances satisfy the hypotheses, as their constants show.

Only model-checked: the liveness properties `PushEnds`, `Resumed`, `BuildEnds`, `CallsReturn` and `StoresOpened`, and
what the runs refute. Out of the prover's reach, and left to TLC:
liveness under fairness, ENABLED, and induction over data with the theorems of the library, which take an operator
as a parameter (over finite sets a least set serves, see above); the modules with proofs use no RECURSIVE operator.

## 5. What is abstracted, and what is left out

In `ImageStore`:

* the bytes of two writers of one temporary file do not mix: the file holds one blob or another, and
  what was hashed may differ from what is renamed;
* a step of `Delete` groups the removals of the files of one manifest; an exception falls between steps;
* `pull --all-tags` (a loop over the modelled path) and pull from a local folder are not modelled;
* `pullConfig` and `pullManifestAndBlob` fall off their end after an exception, which leaves their result
  undefined; the model takes the outcome in which the command ends;
* a build is one attempt of `Image`; what is retried, and what the user is told, is in `BuildStages`, and what a later
  attempt finds of the layers in `LayerStore`;
* a manifest file that holds another whole manifest counts as one the parser throws at (`Loadable`), while the code reads
  it and goes on with the other's layers; and `RmiHistory` throws at any torn manifest it would have to read, although
  `layerIsUnused` stops at the first manifest that has the layer;
* sizes, media types, times and annotations other than the name are left out.

In `LayerStore`:

* `Move` looks for the directory and renames it in one step; renames and removals succeed;
* a directory in which files are missing is `Partial`, whichever they are, and all such directories pack alike. While a layer
  is unpacked it is `Partial` from the first step on, also where the files written are those that were there. A process
  that shared a directory with another, or whose directory was moved meanwhile, may leave either outcome;
* two processes that pull one layer share the temporary tar of `extractTarGz`; this, too, may be either outcome;
* the two halves of `savelayer` are steps, but the bytes of two processes that write `layers.json` at once do not mix, and
  a `savelayer` that cannot open the file is left out;
* `layers.json` is a set: a layer listed twice counts once;
* images are never removed, since `rmi` leaves the layer store alone; an image with `MaxLayers` layers is no base;
* a missing base config and a build FROM a folder are not modelled; nor is the temporary directory that
  two builds of one second share.

In `Push` and `BuildStages`:

* tokens, TLS, redirection and the delays between attempts are left out; a blob is sent with one PATCH, as the
  code does;
* the registry never forgets a blob, and refuses a manifest only if it is none;
* what instructions do to the config is data; a base image is there or it is not;
* the attempts of `BuildStages.Copy` are independent, each may record or not: what one leaves to the next is in `LayerStore`;
* `--layers` runs the instructions and commits nothing, as the code does.

In `WeightedSemaphore` releases are bounded (`MaxOver`), and a call that is locked out of `mu` is not told apart from one
that has not begun. In `LockFile` read locks, `Touch` and `Modified`,
which nothing calls, and the two in-process mutexes, which one thread never contends for, are left out.

Not modelled at all, with the reasons: see `components` in `PROJECT.json`. In short: parsers, names,
configuration and the command line are sequential functions on text; save, images, inspect, info and
version only read; the logger appends to a file that no part reads. Six hazards have no property: the
temporary directory that two builds of one second share (`file.cpp:437`), the diff ids that `pull
--all-tags` mixes up (`pull.cpp:187`), the manifest that is not replaced in one step (`add.cpp:108`), the file that counts
as whole because it exists (`network.cpp:1546`), the layer that is pulled over itself (`tar.cpp:428`) and the container name of
a second platform (`storage.cpp:608`); their notes say why.

`login` and `logout` keep `auth.json`: read whole, truncated, written whole, with no lock, so that two of them may
lose an update and a reader may see an empty file. `logout --all` leaves the file empty, and the
parser of a later `logout` throws on it. Nothing else depends on the file, and what it can lose is what
`ImageStore` shows for `index.json`; it has no module.

## 6. Plan

Done, in this order: `ImageStore` with its runs and `TypeCorrect`; `Catalog` and `StoreCatalog`;
`UploadsBeforeRecords`; `LayerStore` and `LayerProofs`; `Push`, `Repository` and `PushProofs`; `BuildStages`,
`WeightedSemaphore` and `LockFile` with `BuildProofs`; names, `CatalogProofs` and
`IntactProofs`; `SemaphoreProofs`, rebuilt images, layers made elsewhere, and the variants of push and build;
`OnlySharingHurts`, `LockProofs` and the queue of the semaphore; unpacking file by file and repeated attempts in
`LayerStore`, answers that never come in `Push`, releases of too much in `WeightedSemaphore`. What would come next:

1. Pure algorithms as functions checked against reference definitions over bounded inputs: continuation
   lines and heredocs of the Dockerfile parser, lookup of subcommands, normalisation of names, the
   dispatch of instructions into the config.
2. `pull --all-tags` and pull from a local folder; `auth.json`.
3. Proofs: what rmi of a name leaves behind when images have histories (`NoGarbage` itself is false there); what
   stays true of `StoreIntact` when two commands run at once and one only adds images.
4. What a lock held from `Open` to `Write` would give: `LockFile` with `Leave` as its comment wants it, composed with
   `ImageStore`, so that the lost update disappears.
5. Composition of `LayerStore` with `ImageStore`: the images of one are the manifests of the other, with
   rmi between a build's lookup of its base and its record.

## 7. Running it

In this directory, with `tlc` and `tlapm` on the path:

    tlc -workers 2 -config StoreDamage.cfg MCStoreDamage.tla
    tlc -workers 2 -config StoreScenarios.cfg MCStoreScenarios.tla
    tlc -workers 2 -config LayerScenarios.cfg MCLayerScenarios.tla
    tlc -workers 2 -config PushFaults.cfg MCPush.tla
    tlc -workers 2 -config BuildScenarios.cfg MCBuildScenarios.tla
    tlapm PushProofs.tla

`PROJECT.json` names the module of each run under `runs`. `StoreScenarios` takes the
longest, three minutes, and the other scenarios one or two; `IntactProofs` takes a quarter of an hour. Definitions that a comment calls a mutant are faulty variants of the definition
next to them; `PROJECT.json` says which property each one breaks, and no specification uses them.
