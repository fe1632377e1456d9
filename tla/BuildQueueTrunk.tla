--------------------------- MODULE BuildQueueTrunk ---------------------------
(***************************************************************************)
(* The build queue of trunk/openvz/package-builder/builder.py.  Its         *)
(* BuildQueue and QueueItem have the control of the branches/0.8 builder   *)
(* step for step: the differences are logging, os.system in place of       *)
(* subprocess.Popen(...).wait() (neither looks at the exit status), the    *)
(* cowbuilder --update inlined in build(), and a print of the memoized     *)
(* dscobject()['source'] before each build, which reads no file.  So each  *)
(* operation here is the corresponding action of BuildQueue, and the       *)
(* trunk builder is checked against QueueSpec on its own.                  *)
(***************************************************************************)
EXTENDS Naturals, Sequences

CONSTANTS Procs, Pkgs, Files, FilesOf, ConcurrentUploads, MaxUploads, MaxCrashes

VARIABLES incoming, queued, pc, todo, cur, pending, bq, cowcreated,
          builds, dscPuts, uploads, crashes

vars == <<incoming, queued, pc, todo, cur, pending, bq, cowcreated,
          builds, dscPuts, uploads, crashes>>

BQ == INSTANCE BuildQueue

(* QueueItem.validate, _validate_files and _md5_file on INCOMING_DIR. *)
validate(d) == BQ!validate(d)

(* __main__: q = BuildQueue(), then import_incoming's listdir and filter. *)
Start(p) == BQ!Start(p)

(* One import_incoming iteration: QueueItem, validate, and on success the  *)
(* start of queue(); an invalid item is left in place.                     *)
ImportValid(p, d) == BQ!ImportValid(p, d)
ImportInvalid(p, d) == BQ!ImportInvalid(p, d)

(* queue(): os.rename of each listed file, then of the .dsc, then add(). *)
QueueFile(p) == BQ!QueueFile(p)
QueueFileFails(p) == BQ!QueueFileFails(p)
QueueDsc(p) == BQ!QueueDsc(p)
QueueDscFails(p) == BQ!QueueDscFails(p)

(* if q.size(): q.build() *)
ImportDone(p) == BQ!ImportDone(p)
ImportDoneEmpty(p) == BQ!ImportDoneEmpty(p)

(* build(): initbuildenv, then the inlined cowbuilder --update. *)
InitBuildEnv(p) == BQ!InitBuildEnv(p)

(* Variant: the loop calls next(build=False) and never pops the head. *)
BuildNextPeek(p) == BQ!BuildNextPeek(p)

(* while size() > 0: item = next(); cowbuilder --build; item.finish() *)
BuildNext(p) == BQ!BuildNext(p)
BuildLoopExit(p) == BQ!BuildLoopExit(p)

(* finish(): os.unlink of the .dsc, then of each listed file. *)
FinishDsc(p) == BQ!FinishDsc(p)
FinishDscFails(p) == BQ!FinishDscFails(p)
FinishFile(p) == BQ!FinishFile(p)
FinishFileFails(p) == BQ!FinishFileFails(p)
FinishDone(p) == BQ!FinishDone(p)

Init == BQ!Init

ProcStep(p) ==
    \/ Start(p)
    \/ \E d \in Pkgs : ImportValid(p, d) \/ ImportInvalid(p, d)
    \/ QueueFile(p) \/ QueueFileFails(p)
    \/ QueueDsc(p) \/ QueueDscFails(p)
    \/ ImportDone(p) \/ ImportDoneEmpty(p)
    \/ InitBuildEnv(p)
    \/ BuildNext(p) \/ BuildLoopExit(p)
    \/ FinishDsc(p) \/ FinishDscFails(p)
    \/ FinishFile(p) \/ FinishFileFails(p)
    \/ FinishDone(p)

(* The same environment as for the 0.8 builder: crashes and the uploader. *)
Next ==
    \/ \E p \in Procs : ProcStep(p) \/ BQ!Crash(p)
    \/ BQ!Upload

Spec == Init /\ [][Next]_vars

QS == INSTANCE QueueSpec WITH loc <- [d \in Pkgs |-> BQ!LocOf(d)]

(* Refinement, crash-free and single-writer: the trunk builder moves each  *)
(* descriptor only along incoming -> queued -> building -> none and builds *)
(* it once per claim, which is what QueueSpec allows.                      *)
TrunkImplementsQueueSpec == QS!Spec

(* The type invariant of the shared BuildQueue state. *)
TypeOK == BQ!TypeOK

(* Safety of the trunk builder: every item its BuildQueue holds still has  *)
(* its descriptor and every validated file in QUEUE_DIR (BuildQueue's      *)
(* QueueConsistent, over the trunk builder's behaviours).                  *)
QueueConsistent == BQ!QueueConsistent

=============================================================================
