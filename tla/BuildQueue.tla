----------------------------- MODULE BuildQueue -----------------------------
(***************************************************************************)
(* The file-based build queue of openvz/package-builder/builder.py         *)
(* (BuildQueue and QueueItem, branches/0.8).                               *)
(*                                                                         *)
(* The two directories INCOMING_DIR and QUEUE_DIR are the persistent       *)
(* state: each maps a file name to its content.  A file name is either a   *)
(* descriptor (a .dsc, the set Pkgs) or a file that descriptors list       *)
(* (the set Files).  Every invocation of the script is a process p in      *)
(* Procs; its BuildQueue and QueueItem objects are in-memory state lost    *)
(* when the process exits, crashes, or dies of an uncaught OSError raised  *)
(* by os.rename or os.unlink.  An uploader outside the script writes into  *)
(* INCOMING_DIR, either only while no run is active (the single-writer     *)
(* discipline) or at any time (ConcurrentUploads).                         *)
(***************************************************************************)
EXTENDS Naturals, Sequences, FiniteSets, SequencesExt

CONSTANTS
    Procs,              \* overlapping invocations of the script
    Pkgs,               \* descriptor (.dsc) file names
    Files,              \* names of the files that descriptors list
    FilesOf,            \* FilesOf[d]: the Files field of d, in order
    ConcurrentUploads,  \* may the uploader write while a run is active?
    MaxUploads,         \* bound on upload operations
    MaxCrashes          \* bound on process crashes

ASSUME /\ Pkgs \cap Files = {}
       /\ FilesOf \in [Pkgs -> Seq(Files)]
       /\ ConcurrentUploads \in BOOLEAN
       /\ MaxUploads \in Nat /\ MaxCrashes \in Nat

Names == Pkgs \cup Files

(* File contents.  A listed file is complete ("good") or partly written    *)
(* or corrupt ("bad"); a descriptor's content is fixed by its name.        *)
Absent == "absent"
FileContent == {"good", "bad"}
DscContent == "dsc"
Content == FileContent \cup {DscContent, Absent}

(* QueueItem._md5_file: the md5 hexdigest of a readable file, None if the  *)
(* file cannot be read.  md5 is taken as collision free, so it is an       *)
(* injective map from contents to digests.                                 *)
Md5 == [good |-> "md5:good", bad |-> "md5:bad", dsc |-> "md5:dsc"]
None == "None"
md5_file(dir, f) == IF dir[f] = Absent THEN None ELSE Md5[dir[f]]

(* The md5sum the descriptor records for each file it lists. *)
RecordedMd5 == Md5["good"]

NoPkg == "NoPkg"

VARIABLES
    incoming,    \* INCOMING_DIR: [Names -> Content]
    queued,      \* QUEUE_DIR:    [Names -> Content]
    pc,          \* where each process is in the script
    todo,        \* import_incoming: the .dsc names of listdir not yet tried
    cur,         \* the QueueItem being queued or finished
    pending,     \* its files still to rename (queue) or unlink (finish)
    bq,          \* BuildQueue._queue, a FIFO of descriptor names
    cowcreated,  \* BuildQueue._cowcreated
    builds,      \* history: builddsc invocations per descriptor
    dscPuts,     \* history: times each descriptor was put into INCOMING_DIR
    uploads,     \* upload operations so far
    crashes      \* crashes so far

procVars == <<pc, todo, cur, pending, bq, cowcreated>>
vars == <<incoming, queued, procVars, builds, dscPuts, uploads, crashes>>

PC == {"idle", "import", "queue", "env", "build", "unlinkdsc", "unlinkfiles"}

-----------------------------------------------------------------------------
(* The whole in-memory state of process p is dropped: the process exited,  *)
(* crashed, or an exception propagated out of __main__.                    *)
Exit(p) ==
    /\ pc' = [pc EXCEPT ![p] = "idle"]
    /\ todo' = [todo EXCEPT ![p] = {}]
    /\ cur' = [cur EXCEPT ![p] = NoPkg]
    /\ pending' = [pending EXCEPT ![p] = <<>>]
    /\ bq' = [bq EXCEPT ![p] = <<>>]
    /\ cowcreated' = [cowcreated EXCEPT ![p] = FALSE]

(* Fault-injection variants, each defined before the operator it stands    *)
(* in for: validate() that only checks the listed files are readable.      *)
validate_readable(d) ==
    /\ md5_file(incoming, d) # None
    /\ \A i \in DOMAIN FilesOf[d] : md5_file(incoming, FilesOf[d][i]) # None

(* QueueItem.validate with _incoming = True: the descriptor is readable in *)
(* INCOMING_DIR and every listed file there has the recorded md5sum.       *)
validate(d) ==
    /\ md5_file(incoming, d) # None
    /\ \A i \in DOMAIN FilesOf[d] : md5_file(incoming, FilesOf[d][i]) = RecordedMd5

(* Variant: the '.dsc' suffix filter of import_incoming is lost. *)
StartUnfiltered(p) ==
    /\ pc[p] = "idle"
    /\ pc' = [pc EXCEPT ![p] = "import"]
    /\ todo' = [todo EXCEPT ![p] = {n \in Names : incoming[n] # Absent}]
    /\ bq' = [bq EXCEPT ![p] = <<>>]
    /\ cowcreated' = [cowcreated EXCEPT ![p] = FALSE]
    /\ UNCHANGED <<incoming, queued, cur, pending, builds, dscPuts, uploads, crashes>>

(* __main__: BuildQueue() then import_incoming's os.listdir, keeping the   *)
(* names that end in '.dsc'.                                               *)
Start(p) ==
    /\ pc[p] = "idle"
    /\ pc' = [pc EXCEPT ![p] = "import"]
    /\ todo' = [todo EXCEPT ![p] = {d \in Pkgs : incoming[d] # Absent}]
    /\ bq' = [bq EXCEPT ![p] = <<>>]
    /\ cowcreated' = [cowcreated EXCEPT ![p] = FALSE]
    /\ UNCHANGED <<incoming, queued, cur, pending, builds, dscPuts, uploads, crashes>>

(* One iteration of the import_incoming loop: QueueItem(file, incoming=    *)
(* True), validate() true, so queue() begins with the dsc's Files list.    *)
ImportValid(p, d) ==
    /\ pc[p] = "import"
    /\ d \in todo[p]
    /\ validate(d)
    /\ pc' = [pc EXCEPT ![p] = "queue"]
    /\ cur' = [cur EXCEPT ![p] = d]
    /\ pending' = [pending EXCEPT ![p] = FilesOf[d]]
    /\ UNCHANGED <<incoming, queued, todo, bq, cowcreated, builds, dscPuts, uploads, crashes>>

(* validate() false: the item is logged as Failed and left in place. *)
ImportInvalid(p, d) ==
    /\ pc[p] = "import"
    /\ d \in todo[p]
    /\ ~validate(d)
    /\ todo' = [todo EXCEPT ![p] = @ \ {d}]
    /\ UNCHANGED <<incoming, queued, pc, cur, pending, bq, cowcreated, builds, dscPuts, uploads, crashes>>

(* QueueItem.queue: os.rename of the next listed file from INCOMING_DIR to *)
(* QUEUE_DIR; rename replaces a file already there.                        *)
QueueFile(p) ==
    LET f == Head(pending[p]) IN
    /\ pc[p] = "queue"
    /\ pending[p] # <<>>
    /\ incoming[f] # Absent
    /\ queued' = [queued EXCEPT ![f] = incoming[f]]
    /\ incoming' = [incoming EXCEPT ![f] = Absent]
    /\ pending' = [pending EXCEPT ![p] = Tail(@)]
    /\ UNCHANGED <<pc, todo, cur, bq, cowcreated, builds, dscPuts, uploads, crashes>>

(* The source of the rename is gone: OSError ends the process. *)
QueueFileFails(p) ==
    /\ pc[p] = "queue"
    /\ pending[p] # <<>>
    /\ incoming[Head(pending[p])] = Absent
    /\ Exit(p)
    /\ UNCHANGED <<incoming, queued, builds, dscPuts, uploads, crashes>>

(* Variant: an OSError of the .dsc rename is swallowed and the item is   *)
(* added to the queue anyway.                                            *)
QueueDscUnchecked(p) ==
    LET d == cur[p] IN
    /\ pc[p] = "queue"
    /\ pending[p] = <<>>
    /\ queued' = [queued EXCEPT ![d] = IF incoming[d] = Absent THEN @ ELSE incoming[d]]
    /\ incoming' = [incoming EXCEPT ![d] = Absent]
    /\ bq' = [bq EXCEPT ![p] = Append(@, d)]
    /\ todo' = [todo EXCEPT ![p] = @ \ {d}]
    /\ pc' = [pc EXCEPT ![p] = "import"]
    /\ cur' = [cur EXCEPT ![p] = NoPkg]
    /\ UNCHANGED <<pending, cowcreated, builds, dscPuts, uploads, crashes>>

(* The rename of the .dsc itself, _incoming = False, then BuildQueue.add. *)
QueueDsc(p) ==
    LET d == cur[p] IN
    /\ pc[p] = "queue"
    /\ pending[p] = <<>>
    /\ incoming[d] # Absent
    /\ queued' = [queued EXCEPT ![d] = incoming[d]]
    /\ incoming' = [incoming EXCEPT ![d] = Absent]
    /\ bq' = [bq EXCEPT ![p] = Append(@, d)]
    /\ todo' = [todo EXCEPT ![p] = @ \ {d}]
    /\ pc' = [pc EXCEPT ![p] = "import"]
    /\ cur' = [cur EXCEPT ![p] = NoPkg]
    /\ UNCHANGED <<pending, cowcreated, builds, dscPuts, uploads, crashes>>

QueueDscFails(p) ==
    /\ pc[p] = "queue"
    /\ pending[p] = <<>>
    /\ incoming[cur[p]] = Absent
    /\ Exit(p)
    /\ UNCHANGED <<incoming, queued, builds, dscPuts, uploads, crashes>>

(* import_incoming returns; __main__ calls build() only if q.size(). *)
ImportDone(p) ==
    /\ pc[p] = "import"
    /\ todo[p] = {}
    /\ bq[p] # <<>>
    /\ pc' = [pc EXCEPT ![p] = "env"]
    /\ UNCHANGED <<incoming, queued, todo, cur, pending, bq, cowcreated, builds, dscPuts, uploads, crashes>>

(* Nothing was queued: the script ends without touching the environment. *)
ImportDoneEmpty(p) ==
    /\ pc[p] = "import"
    /\ todo[p] = {}
    /\ bq[p] = <<>>
    /\ Exit(p)
    /\ UNCHANGED <<incoming, queued, builds, dscPuts, uploads, crashes>>

(* build(): initbuildenv (cowbuilder --create unless _cowcreated), then,   *)
(* as size() > 0, updatebuildenv (cowbuilder --update).                    *)
InitBuildEnv(p) ==
    /\ pc[p] = "env"
    /\ cowcreated' = [cowcreated EXCEPT ![p] = TRUE]
    /\ pc' = [pc EXCEPT ![p] = "build"]
    /\ UNCHANGED <<incoming, queued, todo, cur, pending, bq, builds, dscPuts, uploads, crashes>>

(* Variant: finish() forgets to unlink the descriptor. *)
BuildNextKeepDsc(p) ==
    LET d == Head(bq[p]) IN
    /\ pc[p] = "build"
    /\ bq[p] # <<>>
    /\ bq' = [bq EXCEPT ![p] = Tail(@)]
    /\ cur' = [cur EXCEPT ![p] = d]
    /\ pending' = [pending EXCEPT ![p] = FilesOf[d]]
    /\ builds' = [builds EXCEPT ![d] = @ + 1]
    /\ pc' = [pc EXCEPT ![p] = "unlinkfiles"]
    /\ UNCHANGED <<incoming, queued, todo, cowcreated, dscPuts, uploads, crashes>>

(* Variant: the loop calls next(build=False), which returns the head      *)
(* without popping it.                                                     *)
BuildNextPeek(p) ==
    LET d == Head(bq[p]) IN
    /\ pc[p] = "build"
    /\ bq[p] # <<>>
    /\ cur' = [cur EXCEPT ![p] = d]
    /\ pending' = [pending EXCEPT ![p] = FilesOf[d]]
    /\ builds' = [builds EXCEPT ![d] = @ + 1]
    /\ pc' = [pc EXCEPT ![p] = "unlinkdsc"]
    /\ UNCHANGED <<incoming, queued, todo, bq, cowcreated, dscPuts, uploads, crashes>>

(* The build loop body: item = next() pops the head, builddsc runs         *)
(* cowbuilder on its QUEUE_DIR descriptor, then finish() begins with the   *)
(* descriptor's memoized Files list.                                       *)
BuildNext(p) ==
    LET d == Head(bq[p]) IN
    /\ pc[p] = "build"
    /\ bq[p] # <<>>
    /\ bq' = [bq EXCEPT ![p] = Tail(@)]
    /\ cur' = [cur EXCEPT ![p] = d]
    /\ pending' = [pending EXCEPT ![p] = FilesOf[d]]
    /\ builds' = [builds EXCEPT ![d] = @ + 1]
    /\ pc' = [pc EXCEPT ![p] = "unlinkdsc"]
    /\ UNCHANGED <<incoming, queued, todo, cowcreated, dscPuts, uploads, crashes>>

(* Variant: the loop reads while self.size() > 1. *)
BuildLoopExitEarly(p) ==
    /\ pc[p] = "build"
    /\ Len(bq[p]) <= 1
    /\ Exit(p)
    /\ UNCHANGED <<incoming, queued, builds, dscPuts, uploads, crashes>>

(* while self.size() > 0 is false: build() and the script end. *)
BuildLoopExit(p) ==
    /\ pc[p] = "build"
    /\ bq[p] = <<>>
    /\ Exit(p)
    /\ UNCHANGED <<incoming, queued, builds, dscPuts, uploads, crashes>>

(* QueueItem.finish: os.unlink of the descriptor in QUEUE_DIR. *)
FinishDsc(p) ==
    /\ pc[p] = "unlinkdsc"
    /\ queued[cur[p]] # Absent
    /\ queued' = [queued EXCEPT ![cur[p]] = Absent]
    /\ pc' = [pc EXCEPT ![p] = "unlinkfiles"]
    /\ UNCHANGED <<incoming, todo, cur, pending, bq, cowcreated, builds, dscPuts, uploads, crashes>>

FinishDscFails(p) ==
    /\ pc[p] = "unlinkdsc"
    /\ queued[cur[p]] = Absent
    /\ Exit(p)
    /\ UNCHANGED <<incoming, queued, builds, dscPuts, uploads, crashes>>

(* finish(): os.unlink of the next listed file in QUEUE_DIR. *)
FinishFile(p) ==
    LET f == Head(pending[p]) IN
    /\ pc[p] = "unlinkfiles"
    /\ pending[p] # <<>>
    /\ queued[f] # Absent
    /\ queued' = [queued EXCEPT ![f] = Absent]
    /\ pending' = [pending EXCEPT ![p] = Tail(@)]
    /\ UNCHANGED <<incoming, pc, todo, cur, bq, cowcreated, builds, dscPuts, uploads, crashes>>

FinishFileFails(p) ==
    /\ pc[p] = "unlinkfiles"
    /\ pending[p] # <<>>
    /\ queued[Head(pending[p])] = Absent
    /\ Exit(p)
    /\ UNCHANGED <<incoming, queued, builds, dscPuts, uploads, crashes>>

(* finish() returns; the while loop tests size() again. *)
FinishDone(p) ==
    /\ pc[p] = "unlinkfiles"
    /\ pending[p] = <<>>
    /\ pc' = [pc EXCEPT ![p] = "build"]
    /\ cur' = [cur EXCEPT ![p] = NoPkg]
    /\ UNCHANGED <<incoming, queued, todo, pending, bq, cowcreated, builds, dscPuts, uploads, crashes>>

(* The process is killed (or the machine stops) at any point of a run. *)
Crash(p) ==
    /\ pc[p] # "idle"
    /\ crashes < MaxCrashes
    /\ crashes' = crashes + 1
    /\ Exit(p)
    /\ UNCHANGED <<incoming, queued, builds, dscPuts, uploads>>

-----------------------------------------------------------------------------
(* The uploader: outside the script, it writes files into INCOMING_DIR.    *)
UploadAllowed == ConcurrentUploads \/ \A p \in Procs : pc[p] = "idle"

(* An upload of a listed file starts: the file is (re)created and holds a  *)
(* partial content until the upload ends.                                  *)
UploadBegin(f) ==
    /\ UploadAllowed
    /\ uploads < MaxUploads
    /\ uploads' = uploads + 1
    /\ incoming' = [incoming EXCEPT ![f] = "bad"]
    /\ UNCHANGED <<queued, procVars, builds, dscPuts, crashes>>

UploadEnd(f) ==
    /\ UploadAllowed
    /\ incoming[f] = "bad"
    /\ incoming' = [incoming EXCEPT ![f] = "good"]
    /\ UNCHANGED <<queued, procVars, builds, dscPuts, uploads, crashes>>

(* A descriptor is put into INCOMING_DIR. *)
UploadDsc(d) ==
    /\ UploadAllowed
    /\ uploads < MaxUploads
    /\ incoming[d] = Absent
    /\ uploads' = uploads + 1
    /\ incoming' = [incoming EXCEPT ![d] = DscContent]
    /\ dscPuts' = [dscPuts EXCEPT ![d] = @ + 1]
    /\ UNCHANGED <<queued, procVars, builds, crashes>>

-----------------------------------------------------------------------------
(* INCOMING_DIR may hold anything the uploader left before the first run;  *)
(* QUEUE_DIR starts empty.                                                 *)
Init ==
    /\ incoming \in {dir \in [Names -> Content] :
                        /\ \A f \in Files : dir[f] \in FileContent \cup {Absent}
                        /\ \A d \in Pkgs : dir[d] \in {DscContent, Absent}}
    /\ queued = [n \in Names |-> Absent]
    /\ pc = [p \in Procs |-> "idle"]
    /\ todo = [p \in Procs |-> {}]
    /\ cur = [p \in Procs |-> NoPkg]
    /\ pending = [p \in Procs |-> <<>>]
    /\ bq = [p \in Procs |-> <<>>]
    /\ cowcreated = [p \in Procs |-> FALSE]
    /\ builds = [d \in Pkgs |-> 0]
    /\ dscPuts = [d \in Pkgs |-> IF incoming[d] = Absent THEN 0 ELSE 1]
    /\ uploads = 0
    /\ crashes = 0

(* Every step of a running script except a crash. *)
ProcStep(p) ==
    \/ Start(p)
    \/ \E d \in Pkgs : ImportValid(p, d) \/ ImportInvalid(p, d)
    \/ QueueFile(p) \/ QueueFileFails(p)
    \/ QueueDsc(p) \/ QueueDscFails(p)
    \/ ImportDone(p) \/ ImportDoneEmpty(p)
    \/ InitBuildEnv(p)
    \/ BuildNext(p) \/ BuildLoopExit(p)
    \/ FinishDsc(p) \/ FinishDscFails(p)
    \/ FinishFile(p) \/ FinishFileFails(p)
    \/ FinishDone(p)

Upload ==
    \/ \E f \in Files : UploadBegin(f) \/ UploadEnd(f)
    \/ \E d \in Pkgs : UploadDsc(d)

Next ==
    \/ \E p \in Procs : ProcStep(p) \/ Crash(p)
    \/ Upload

Spec == Init /\ [][Next]_vars

(* A started script runs to its end (every external command it waits for  *)
(* returns), cron starts it again, and an upload that has begun ends.      *)
FairSpec == Spec /\ \A p \in Procs : WF_vars(ProcStep(p))
                 /\ \A f \in Files : WF_vars(UploadEnd(f))

-----------------------------------------------------------------------------
TypeOK ==
    /\ incoming \in [Names -> Content]
    /\ queued \in [Names -> Content]
    /\ pc \in [Procs -> PC]
    /\ todo \in [Procs -> SUBSET Pkgs]
    /\ cur \in [Procs -> Pkgs \cup {NoPkg}]
    /\ pending \in [Procs -> Seq(Files)]
    /\ bq \in [Procs -> Seq(Pkgs)]
    /\ cowcreated \in [Procs -> BOOLEAN]
    /\ builds \in [Pkgs -> Nat]
    /\ dscPuts \in [Pkgs -> Nat]

(* Safety, overlapping runs and the single-writer discipline: every item   *)
(* in a run's BuildQueue still has its descriptor and every listed file,   *)
(* with the md5sum validate() checked, in QUEUE_DIR, so builddsc only ever *)
(* builds what was validated.  It rests on validate() checking md5s and on *)
(* a rename race between two runs killing the loser in queue().            *)
QueueConsistent ==
    \A p \in Procs : \A i \in DOMAIN bq[p] :
        LET d == bq[p][i] IN
        /\ queued[d] = DscContent
        /\ \A f \in ToSet(FilesOf[d]) : queued[f] = "good"

(* Safety across crashes and failed renames/unlinks, for one invocation at *)
(* a time: a descriptor present in QUEUE_DIR always has there every file   *)
(* it lists that no other descriptor lists.  It rests on the order of      *)
(* queue() (files renamed before the .dsc) and of finish() (.dsc unlinked  *)
(* before its files).  A file two descriptors share is left out: finish()  *)
(* of one removes it from under the other (the shared_orig run).           *)
OwnFiles(d) ==
    {f \in ToSet(FilesOf[d]) : \A e \in Pkgs \ {d} : f \notin ToSet(FilesOf[e])}

QueuedDscComplete ==
    \A d \in Pkgs :
        queued[d] # Absent => \A f \in OwnFiles(d) : queued[f] # Absent

(* Safety under overlapping runs and uploads racing them: a descriptor is  *)
(* built at most as many times as it was put into INCOMING_DIR, so the two *)
(* runs of a race never both build one upload.                             *)
AtMostOneBuildPerUpload ==
    \A d \in Pkgs : builds[d] <= dscPuts[d]

(* Crash recovery, as the spec describes it ("idempotent re-entry after    *)
(* crash"): whenever no run is active, QUEUE_DIR holds nothing, i.e. work  *)
(* a crashed run moved there is picked up again by a later run.            *)
NoOrphanWhenIdle ==
    (\A p \in Procs : pc[p] = "idle") => \A n \in Names : queued[n] = Absent

(* A descriptor whose files have all arrived intact. *)
Complete(d) ==
    /\ incoming[d] = DscContent
    /\ \A f \in ToSet(FilesOf[d]) : incoming[f] = "good"

MaxBuilds == MaxUploads + 1

(* Liveness: whenever a descriptor and all of its files sit complete in    *)
(* INCOMING_DIR, a later run builds it (cowbuilder --build is invoked on   *)
(* it once more).                                                          *)
UploadEventuallyBuilt ==
    \A d \in Pkgs, n \in 0..MaxBuilds :
        (Complete(d) /\ builds[d] = n) ~> (builds[d] > n)

-----------------------------------------------------------------------------
(* Refinement mapping to QueueSpec: a descriptor is "incoming" while its   *)
(* .dsc is in INCOMING_DIR, "building" from next() until finish() unlinks  *)
(* its .dsc, "queued" while only its .dsc in QUEUE_DIR is left, and "none" *)
(* otherwise.  The renames and unlinks of listed files are stuttering.     *)
LocOf(d) ==
    CASE incoming[d] # Absent -> "incoming"
      [] queued[d] # Absent /\ \E p \in Procs : pc[p] = "unlinkdsc" /\ cur[p] = d
                             -> "building"
      [] queued[d] # Absent -> "queued"
      [] OTHER -> "none"

=============================================================================
