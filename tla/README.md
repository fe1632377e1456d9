# TLA+ models of the zumastor build tooling

This directory holds TLA+ models of the Python operator scripts under `src/`, the TLC
configurations that check them, and `PROJECT.json`. `PROJECT.json` lists the
components, runs, mutants, the mapping from definitions to source lines, findings and hazards.

## 1. Inventory

The repository is a set of scripts that call external tools (`cowbuilder`, `dpkg-source`,
`wget`, `vzctl`, `dch`). Only one part has state that several steps share and that can go
wrong between steps. That part is the package builder's file queue.

| Component | Source | State | Operations | Interacts with |
|---|---|---|---|---|
| BuildQueue / QueueItem (0.8) | `branches/0.8/openvz/package-builder/builder.py` | `INCOMING_DIR`, `QUEUE_DIR` (persistent); `_queue`, `_cowcreated`, each item's `_incoming`, `_md5`, `_dscobj` (in memory) | `import_incoming`, `validate`, `queue`, `add`, `next`, `size`, `build`, `builddsc`, `finish`, `initbuildenv`, `updatebuildenv` | the uploader (shares `INCOMING_DIR`), other invocations started by cron (share both directories), `cowbuilder` |
| BuildQueue / QueueItem (trunk) | `trunk/openvz/package-builder/builder.py` | same | same; `updatebuildenv` is inlined in `build` | same |
| Descriptor parser | `debian_bundle.deb822.Dsc` (external) | none | parse `.dsc` | called by `dscobject` |
| KernelBuilder | `kernel/ubuntu-package/buildKernels.py` | memoized build directory, source directory, parsed dsc; files of the build tree | `_getFiles`, `_addFlavor` (config, rules, vars, patches), `_abiFixup`, `_updateChangeLog` | `wget`, `dpkg-source`, `sed`, `dch`, `/tmp` |
| flavormaker | `branches/0.8/kernel/ubuntu-package/flavormaker.py` | as KernelBuilder plus options | as KernelBuilder plus per-arch config options and several patch directories | option parser |
| VzHostSetup | `trunk/openvz/package-builder/vzhostsetup.py` | `_vzparams`, `_mirrors`; the VZ instance and apache config on the host | `setup` and the ordered steps it calls | `vzctl`, `vzquota`, `apt-get`, apache |
| setupbigcopy / teardownbigcopy | `testcluster/.../setupbigcopy.py`, `trunk/testcluster/.../teardownbigcopy.py` | subprocess handles | start one install/reinstall per machine, then wait for each | remote install scripts |
| zcbtb | `testcluster/.../zcbtb.py` | loop devices, env vars | read test file, set up loop devices, run test, clean up | `losetup`, `dd` |

**The hard parts** are all in the build queue. The script runs as one thread, but it is
started periodically, and nothing stops two invocations from overlapping. Its two directories
are shared with an uploader that writes `INCOMING_DIR` with no locking. Moving an item is a
series of single-file `os.rename` calls (files first, `.dsc` last). Removing an item is a
series of `os.unlink` calls (`.dsc` first). A crash, or an `OSError` from a rename or unlink
whose file has gone, can stop the process between any two of these calls. Nothing is
journalled, and no later run looks at `QUEUE_DIR`. Two `.dsc` files can list the same file,
as two Debian revisions share an `.orig.tar.gz`.

**What makes the queue correct.**
- Only validated content is built.
- A `.dsc` in `QUEUE_DIR` is never left without its files.
- No upload is built twice.
- Every complete upload is eventually built.
- After a crash, a later run picks up the work (the spec's "idempotent re-entry").

**The other components** are straight-line scripting, but the kernel scripts share `/tmp`
with each other and the host setup is re-run on a host that keeps what earlier runs left.
Their edge cases are listed under "hazards" in `PROJECT.json`:
- the random build-directory loop;
- patches numbered in `os.listdir` order;
- a missing comma in `setupApache`;
- install failures that are only printed.

## 2. Modules

| Module | Models | Checked by |
|---|---|---|
| `BuildQueue` | the 0.8 builder with its environment: overlapping runs, the uploader, crashes, OSError exits | `racing`, `crashes`, `progress`, `orphan`, `shared_orig`, and `refines_trunk` through `BuildQueueTrunk` |
| `QueueSpec` | what a build queue promises, with files and processes abstracted away | refined by `BuildQueueTrunk` |
| `BuildQueueTrunk` | the trunk builder, each operation an `INSTANCE` of the 0.8 action | `refines_trunk` |
| `FlavorMaker` | `flavormaker.py`: option checks and `KernelBuilder.main()` | `fm_order`, `fm_relpath`, and through `BuildKernels` |
| `BuildKernels` | `buildKernels.py`'s two builders in sequence, composed with a concurrent `flavormaker.py` run on one `/tmp` | `bk_host` |
| `VzHostSetup` | `vzhostsetup.py`'s `setup()` across reruns on a host whose state persists | `vz_done`, `vz_proxy`, `vz_rerun` |

Each `MC*` module gives the model values and small definitions a configuration needs.

## 3. Module `BuildQueue` (models `branches/0.8/.../builder.py`)

**State.**
- `incoming` and `queued` map each file name to its content. A name is a `.dsc` (`Pkgs`) or
  a listed file (`Files`). A listed file is `"good"` (complete, with the md5sum the `.dsc`
  records) or `"bad"` (partly uploaded or corrupt), or is absent.
- Each process `p` in `Procs` is one invocation of `__main__`. It has:
  - `pc`, where it is in the script;
  - `todo`, the `.dsc` names of its `os.listdir` not yet tried;
  - `cur` and `pending`, the item being renamed or unlinked and its remaining files;
  - `bq`, `BuildQueue._queue`;
  - `cowcreated`.
- History variables: `builds`, `dscPuts` and the bound counters `uploads` and `crashes`.

**Actions.**
- `Start` is `BuildQueue()` plus the `listdir` and `.dsc` filter.
- `ImportValid` and `ImportInvalid` are one iteration of the import loop:
  `QueueItem(...)` and `validate()`.
- `QueueFile`, `QueueDsc` and their `...Fails` variants are the renames in `queue()`, then
  `add`.
- `ImportDone` and `ImportDoneEmpty` are `if q.size(): q.build()`.
- `InitBuildEnv` is `initbuildenv` plus `updatebuildenv`.
- `BuildNext` is `next()` plus `builddsc`.
- `FinishDsc`, `FinishFile`, `FinishDone` and their `...Fails` variants are `finish()`.
- `BuildLoopExit` ends the loop.
- An OSError or a `Crash` drops the in-memory state (`Exit`).
- The uploader's `UploadBegin`, `UploadEnd` and `UploadDsc` write `INCOMING_DIR`.
  `ConcurrentUploads = FALSE` restricts them to moments when no run is active. This is the
  spec's single-writer discipline.

**Abstractions.**
- md5 is an injective map on contents (collisions are not modelled).
- A `.dsc` is reduced to its `Files` list (`FilesOf`).
- The build outcome is not modelled, because `finish()` is called whatever it is.
- `validate()` reads the directory in one step.

**Fairness** (`FairSpec`) is weak fairness on each process's non-crash steps and on the end
of a started upload. The script is synchronous, and the fairness assumes every external
command returns and that cron keeps starting the script. Crashes and new uploads get no
fairness.

### Runs

All runs use `MCBuildQueue`: descriptors `dA` and `dB`, and files `orig`, `fa` and `fb`. In
`FilesOfShared` both descriptors list `orig`. In `FilesOfDisjoint` they share nothing.
`INCOMING_DIR` starts in any state (108 initial states), so bad, missing and complete files
all occur without uploads.

| Run | Procs | Files | Uploads race runs | MaxUploads | MaxCrashes | Checks | Result |
|---|---|---|---|---|---|---|---|
| `racing` | 2 (symmetric) | shared | yes | 3 | 1 | `AtMostOneBuildPerUpload` | pass, 604k states |
| `crashes` | 1 | shared | yes | 3 | 1 | `QueuedDscComplete` | pass, 57k states |
| `progress` | 1 | disjoint | yes | 2 | 0 | `UploadEventuallyBuilt` (liveness, `FairSpec`) | pass, 9.1k states |
| `orphan` | 1 | disjoint | no | 0 | 1 | `NoOrphanWhenIdle` | violation (finding) |
| `shared_orig` | 1 | shared | no | 0 | 0 | `UploadEventuallyBuilt` | violation (finding) |

**What each run shows.**
- `TypeOK` and `QueueConsistent` of this module are checked by `refines_trunk` (section 4),
  whose actions are this module's.
- **`racing`:** every failure path fires: rename of a file or of the `.dsc`, unlink of
  either. This needs three uploads, enough to re-upload a whole item while another run holds
  it. Even so, no upload is built twice.
- **`crashes`:** one invocation, crashing at any point, with uploads racing it. The
  file-then-`.dsc` rename order and the `.dsc`-then-files unlink order keep in `QUEUE_DIR`
  every file that only that `.dsc` lists. A file two descriptors share (`orig`) is not part of
  the claim: `finish()` of one descriptor unlinks it from under the other, so a `.dsc` that a
  crash stranded in `QUEUE_DIR` can lose it, and `shared_orig` shows the same removal without
  a crash. With two overlapping invocations the claim fails too, because one run's `finish()`
  unlinks files that the other run has just re-queued. The spec's section 5 puts overlapping
  invocations out of contract.
- **`progress`:** every complete upload is eventually built.

**The two violations.** They are real disagreements with the spec (see "findings"):
- **`orphan`:** a crash after `queue()` moved `orig` leaves it in `QUEUE_DIR` for good, and
  `dA.dsc` is stranded in `INCOMING_DIR`. Nothing scans `QUEUE_DIR` (line 94).
- **`shared_orig`:** `dB` is built, and its `finish()` deletes the shared `orig`. `dA`
  never validates again.

Each property has a mutant in `PROJECT.json` that TLC catches under the same configuration:
- a swallowed rename error;
- `finish()` without the `.dsc` unlink;
- `while size() > 1`.

**Why these bounds.** Two descriptors and three files are the least that show a shared
file. Two processes are the least that show overlapping runs. Three uploads are enough to
re-upload a whole descriptor (`.dsc` and two files) while another run holds it. One crash
is enough to place a crash between any two renames or unlinks.

## 4. `QueueSpec` and the trunk builder (`BuildQueueTrunk`)

**`QueueSpec`** is the abstract queue. Each descriptor is in one place at a time:
- `"none"`: not present;
- `"incoming"`: in `INCOMING_DIR`;
- `"queued"`: claimed into `QUEUE_DIR`;
- `"building"`: handed to `cowbuilder` and not yet removed.

It moves `none -> incoming -> queued -> building -> none` one step at a time (`Arrive`,
`Claim`, `Build`, `Consume`). `builds[d]` counts the `Build` steps.

**The trunk builder** (`trunk/openvz/package-builder/builder.py`) has the control of the 0.8
builder step for step. The differences are these:
- logging;
- `os.system` instead of `Popen(...).wait()`, and neither looks at the exit status;
- `updatebuildenv` is inlined in `build()`;
- a `print` of the memoized `dscobject()['source']` before each build, which reads no file.

So `BuildQueueTrunk` declares the same constants and variables, and each of its actions is
`BQ!X(p)` with `BQ == INSTANCE BuildQueue`. The map sends them to the trunk lines.

**The refinement mapping** is `BuildQueue!LocOf`:
- `"incoming"` while the `.dsc` is in `INCOMING_DIR`;
- `"building"` from `next()` until `finish()` unlinks the `.dsc`;
- `"queued"` while only the `.dsc` in `QUEUE_DIR` is left;
- `"none"` otherwise.

The renames and unlinks of listed files are stuttering steps of `QueueSpec`.
`TrunkImplementsQueueSpec` is `QS!Spec` as a `PROPERTY`.

**Run `refines_trunk`.** One invocation at a time, a shared `orig`, three uploads between
runs, no crashes: 3,859 states, pass. The same configuration with disjoint files also passes
(5,621 states). Because the trunk actions are the 0.8 actions, this run checks the 0.8
builder too. It also checks `TypeOK` and `QueueConsistent`, re-exported from `BQ`.
`QueueConsistent` says every item in the run's queue has its `.dsc` and good files in
`QUEUE_DIR`, which rests on `validate()` comparing md5sums. It fails when uploads race a run.
The refinement is meant to hold only within the spec's contract:
- **one invocation at a time** (section 5: overlapping invocations are not supported). With
  two, a run can queue `dA` and then die on the rename race for `fb`. That strands `dA.dsc`
  in `QUEUE_DIR`, and a later upload of `dA` puts it back in `INCOMING_DIR` from `queued`,
  a move `QueueSpec` does not allow;
- **without crashes**, because `orphan` shows what a crash leaves behind;
- **with uploads only between runs**, which is the spec's single-writer discipline. A
  re-upload while an item is queued puts the descriptor in two places at once.

The mutants are caught under this configuration:
- `next(build=False)` (`BuildNextPeek`, which never pops the head): the refinement;
- a dropped `.dsc` filter in `import_incoming`: `TypeOK`;
- `validate` without the md5 comparison: `QueueConsistent`.

## 5. `FlavorMaker` and `BuildKernels` (the kernel flavor scripts)

**State.** Each process in `Procs` is one `KernelBuilder`:
- `opts`, its command line, including the `-p` directories and the `-d` kernel;
- `cand`, the name `_buildDirectory` is trying;
- `bdir`, the memoized `_builddirectory`;
- `srcdir`, the memoized `_original_source_dir`;
- `pdir`, `listing` and `patchno`, the loop of `_addFlavorPatches`;
- `patchset`, the copies made;
- `abicopied` and `changelog`.

Shared by all processes are `tmp`, the `/tmp/kernelbuild.N` directories, and `flavored`.

**Actions.** There is one action per step that can change state or raise, in the code's
order:
- `OptionsValid` and `OptionsInvalid`;
- `PickFree`, then `Mkdir` and `MkdirFails`. `MkdirFails` is the `OSError` when another
  process made the directory between `exists` and `mkdir`;
- `GetFiles` and `GetFilesFails` (an empty `.dsc` gives a `KeyError`);
- `Extract`. `dpkg-source` may print no `extracting` line, and then `srcdir` stays `None`;
- `AddFlavor`, `AddFlavorExists` (the string `raise`) and `AddFlavorNoTree` (`mkdir` under
  `None/`);
- `ListDir` and `ListDirFails`, then `CopyPatch`, `SkipFile`, `DirDone` and `PatchesDone`;
- `AbiFixup` and `AbiFixupFails` (`IndexError` on an empty `debian/abi`);
- `UpdateChangeLog`.

A taken random name (`PickTaken`) changes nothing, so it is a stuttering step.

`ListDir` needs the `-p` directory to be `Listable`: it exists, and its path is not one of
`RelativeDirs`. The first `_sourceDir` call has run `os.chdir` into the build directory
(line 51), and the `_initialpath` saved at line 25 is never used, so a relative path is
looked up inside `/tmp/kernelbuild.N`, where only the fetched files and the unpacked tree are.
`os.listdir` returns the directory in any order (`SetToSeqs`).

**Abstracted.**
- Commands run through `_quietRun` have their exit status ignored, so each is reduced to its
  effect.
- The config, rules and vars text is left out.
- Which abi directory is copied is left out.

**`BuildKernels`** extends `FlavorMaker`. The `KernelBuilder` of `buildKernels.py` has the
same control with fixed data: archlist `i386 amd64`, no `-c` lines, and one fixed patch
directory, which is the one-element case of flavormaker's loop. So:
- `hardy` and `gutsy` are processes with `KernelBuilderArgs`;
- each method of its `KernelBuilder` (`buildDirectory`, `getFiles`, `sourceDir`,
  `addFlavor`, `addFlavorPatches`, `abiFixup`, `updateChangeLog`) is a definition whose
  disjuncts are the `FlavorMaker` actions its code translates, and `BuilderMain(b)`, its
  `main()`, is their disjunction;
- `GutsyStep` is enabled only once `hardy` is `"done"`, because `__main__` calls the second
  `main()` after the first returns, and an exception ends the script;
- the remaining processes are `flavormaker.py` invocations on the same host.

No liveness property is checked here. With a free name always left, the script ends
because of the shape of its loops. The case that matters, all 900 names taken, is out of
reach (see Bounds). The runs therefore use `HostSpec` without fairness.

| Run | Processes | Checks | Result |
|---|---|---|---|
| `bk_host` | `p1` (9 command lines), `hardy`, `gutsy`; 4 names, 1 taken | `DistinctBuildDirs`, `PatchesCopiedOnce` | pass, 30,023 states |
| `fm_order` | `p1` with `-p d1 -p d2` | `PatchOrderKept` | violation (finding) |
| `fm_relpath` | `p1` with `-p d1 -p d2`, `d2` relative | `ExistingPatchDirsListed` | violation (finding) |

**What each run shows.**
- **`bk_host`:** `p1` races either builder for the same name. The command lines cover:
  - both kernels, one with an empty `debian/abi`;
  - a missing `-p d3`;
  - `-n xen`, which `k1` already ships;
  - each of the three rejected command lines.

  `d1` and `d2` both hold `pa`, so the shared `patchno` must keep their copies apart.
- **`fm_order`:** `os.listdir` order gives `000-pb.patch`, then `001-pa.patch`.
- **`fm_relpath`:** `ExistingPatchDirsListed` is an action property: no step out of
  `"listdir"` for a directory that exists where the script was started ends in `"failed"`.
  TLC finds the run that unpacks the source, copies `d1`'s patches, and raises at
  `os.listdir(d2)`. `buildKernels.py` passes an absolute path, so `bk_host` sets
  `RelativeDirs` to `{}`.

**Mutants**, each caught under its run's configuration:
- a `mkdir` that accepts an existing directory: `DistinctBuildDirs`;
- `patchno = 0` per directory: `PatchesCopiedOnce`.

**Bounds.**
- Four names, one taken, leave a free name for each of three processes.
- With all names taken, the loop cannot end, which is the hazard at `buildKernels.py:86`.
  The real case needs all 900 names in `/tmp` to exist. In the model it would only restate
  that `Slots` is full, so it is left as a hazard with a note.
- `FlavorMaker` has no type invariant in these runs. The only place a name outside `Slots`
  could enter is the random draw, and `randint(100, 1000)` would only add a valid,
  harmless `kernelbuild.1000`.
- Four processes (two `flavormaker.py` runs beside the script) did not finish within 15
  minutes.

## 6. `VzHostSetup` (`trunk/openvz/package-builder/vzhostsetup.py`)

**State.** What persists on the host between runs:
- `hostpkgs`;
- `template`: absent, an empty file, or good;
- `guest` 102: exists, created by this run, parameters, quota, running, `sources.list`,
  `/build` dirs;
- `apache`: installed, running, enabled and loaded sites.

Per run there are `pc` and `root`. `Init` is any state earlier runs or the administrator may
leave: a cached or empty template, an old running guest, apache serving the default site.

**Actions.** One per step of `setup()`, with the exits of `checkPreReqs` and the `IOError`s
of `open()`:
- `Start` begins a run;
- `InstallHostPkg` happens between runs;
- a failed command through `_quietRun` has no effect;
- `ApacheSites` models the command list as Python parses it. The missing comma at line 161
  makes `a2dissite 000-default/etc/init.d/apache2 stop` one command, which names no site.

**Fairness** (`FairSpec`):
- weak fairness on `Next`;
- strong fairness on a root rerun, on installing a missing package, and on a fetch or
  install that succeeds. The operator reruns after every failure, and the network does not
  fail forever.

| Run | Checks | Result |
|---|---|---|
| `vz_done` | `FreshGuestWhenDone` | pass, 176 states |
| `vz_proxy` | `ProxyServedWhenDone` | violation (finding, line 161) |
| `vz_rerun` | `RerunSucceeds` (`FairSpec`) | violation (finding, line 88) |

**What each run shows.**
- **`vz_done`:** "Setup Done" always means a guest this run created and configured. It
  rests on `clearOldInstance` destroying the old guest. The mutant that only stops it is
  caught.
- **`vz_proxy`:** on a host where apache was already running, `apache2 start` does nothing.
  The proxy site is enabled but never loaded. With the comma restored the property holds.
- **`vz_rerun`:** a failed `wget -O` leaves an empty template. `aquireVzTemplate` only
  checks readability, so every rerun fails at `setupInstance`.

## 7. Not modelled

- **The `cowbuilder` chroot itself**, including a concurrent `--update`, and hung external
  commands. These are hazards with notes.
- **`QueueItem.__eq__`, `__str__` and the memoized `.dsc` md5:** no control depends on them.
- **A partly written `.dsc`.** `dscobject()` parses whatever of the descriptor is on disk, so a
  cut-off upload validates against a prefix of its `Files` list. The model writes a `.dsc`
  whole (`DscContent`). A truncated one whose missing files are absent would break
  `QueueConsistent` and `QueuedDscComplete` as soon as it is queued, and the spec's section 9
  already names the tolerant parse as a flaw.
  It is a hazard in `PROJECT.json`.
- **The descriptor parser (`debian_bundle.deb822.Dsc`):** an external library, reduced to
  the `Files` list and md5sums.
- **The `%03d` width past 999 patches and the abi choice by string sort.** The first needs
  1000 patches in one flavor. For the second, neither the code nor the spec says which abi
  entry is meant.
- **The autotest tests** (`setupbigcopy`, `teardownbigcopy`, `zcbtb`): harness glue, a fixed
  sequence of shell commands run once per test. `setupbigcopy` starts one install per machine
  and only prints each exit status; `zcbtb` raises when its test file lacks a line. Nothing is
  shared between concurrent actors or kept across invocations, so there is no pair of states
  for a property to relate, and a model would restate the script step for step.
- **The hard-coded `/home/wan/...` patch directory of `buildKernels.py`.** On a host without
  it, `ListDirFails` ends the script after the hardy source is unpacked; `bk_host` keeps the
  directory present so that both builders can get that far.
- **Logging and message text.**
