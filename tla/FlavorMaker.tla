---------------------------- MODULE FlavorMaker ----------------------------
(***************************************************************************)
(* KernelBuilder of branches/0.8/kernel/ubuntu-package/flavormaker.py:     *)
(* the option checks of __main__ and main(), which fetches a kernel        *)
(* source package into a fresh /tmp/kernelbuild.N directory, unpacks it    *)
(* and adds a custom flavor (config, rules, vars and a patchset) to it.    *)
(*                                                                         *)
(* Several invocations (Procs) may run at once; the only state they share  *)
(* is /tmp.  External commands run through _quietRun, whose exit status is *)
(* ignored, so they are abstracted to their effect; the steps that can     *)
(* raise (os.mkdir, open, os.listdir, indexing) are kept with their error  *)
(* paths, and an uncaught exception ends the invocation ("failed").        *)
(***************************************************************************)
EXTENDS Naturals, Sequences, FiniteSets, SequencesExt

CONSTANTS
    Procs,        \* concurrent invocations of flavormaker.py
    Slots,        \* the names random.randrange(100, 1000) can give
    Taken0,       \* /tmp/kernelbuild.N directories left by earlier runs
    OptionSets,   \* the command lines an invocation may be given
    PatchDirSet,  \* the directory names a -p option may give
    DscFiles,     \* the kernel .dsc paths a -d option may give
    Listing,      \* Listing[dir]: what os.listdir(dir) returns, for the dirs that exist
    PatchNames,   \* the names that end in '.patch'
    NameRank,     \* NameRank[f]: position of f in the name order of its dir
    AbiOf,        \* AbiOf[f]: entries of debian/abi in the source package of f
    FlavorNames,  \* the flavor names a -n option may give
    FlavorsOf,    \* FlavorsOf[f]: the debian/binary-custom.d flavors shipped in f
    RelativeDirs  \* the -p directories given as relative paths

ASSUME /\ Taken0 \subseteq Slots
       /\ OptionSets \subseteq [release : BOOLEAN, dscfile : DscFiles \cup {"None"},
                                i386 : BOOLEAN, amd64 : BOOLEAN,
                                patches : Seq(PatchDirSet), name : FlavorNames]
       /\ DOMAIN AbiOf = DscFiles
       /\ FlavorsOf \in [DscFiles -> SUBSET FlavorNames]
       /\ RelativeDirs \subseteq PatchDirSet

None == "None"
Arches == {"i386", "amd64"}

VARIABLES
    tmp,          \* the /tmp/kernelbuild.N directories that exist
    opts,         \* the parsed options of each invocation
    pc,           \* where each invocation is
    cand,         \* _buildDirectory: the possible_directory being tried
    bdir,         \* _builddirectory
    srcdir,       \* _original_source_dir: None, or the unpacked tree
    flavored,     \* build directories to which this model added a flavordir
    pdir,         \* _addFlavorPatches: index of the patch directory
    listing,      \* the rest of os.listdir(srcpatchdir) being walked
    patchno,      \* _addFlavorPatches: patchno
    patchset,     \* the copies in flavordir/patchset
    abicopied,    \* _abiFixup has copied an abi directory
    changelog     \* _updateChangeLog has run dch

vars == <<tmp, opts, pc, cand, bdir, srcdir, flavored, pdir, listing, patchno,
          patchset, abicopied, changelog>>

PC == {"opts", "pick", "mkdir", "getfiles", "extract", "flavor", "listdir",
       "copy", "abi", "changelog", "done", "failed"}

(* The copy of patch f of directory i: '%03d-%s' % (patchno, f) is a       *)
(* different name for every different pair, since '%03d' has no '-', so    *)
(* the name is the pair itself.                                            *)
Copy(n, i, f) == [name |-> <<n, f>>, dir |-> i]

(* __init__: _archlist from the -i and -a flags. *)
ArchList(o) == {a \in Arches : (a = "i386" /\ o.i386) \/ (a = "amd64" /\ o.amd64)}

(* The -p options of an invocation, in order (action='append'). *)
PatchDirs(p) == opts[p].patches

(* os.path.exists(flavordir): the unpacked source ships a flavor of that *)
(* name, or this invocation's tree has it already.                         *)
FlavorDirExists(p) ==
    opts[p].name \in FlavorsOf[opts[p].dscfile] \/ bdir[p] \in flavored

(* os.listdir(srcpatchdir) runs after _sourceDir's os.chdir into the      *)
(* build directory (the saved _initialpath is never restored), so a        *)
(* relative -p path is looked up in /tmp/kernelbuild.N, which holds only   *)
(* the fetched files and the unpacked tree: only an absolute path that     *)
(* exists can be listed.                                                   *)
Listable(d) == d \in DOMAIN Listing /\ d \notin RelativeDirs

Goto(p, l) == pc' = [pc EXCEPT ![p] = l]

(* An exception propagates out of __main__. *)
Fail(p) == Goto(p, "failed")

-----------------------------------------------------------------------------
(* __main__: a missing release or dsc path, or no arch, ends in exit(1). *)
OptionsInvalid(p) ==
    /\ pc[p] = "opts"
    /\ LET o == opts[p] IN ~o.release \/ o.dscfile = None \/ ArchList(o) = {}
    /\ Fail(p)
    /\ UNCHANGED <<tmp, opts, cand, bdir, srcdir, flavored, pdir, listing,
                   patchno, patchset, abicopied, changelog>>

(* The options pass; main() calls _getFiles, whose _descriptionObj asks    *)
(* _buildDirectory for the directory.                                      *)
OptionsValid(p) ==
    /\ pc[p] = "opts"
    /\ LET o == opts[p] IN o.release /\ o.dscfile # None /\ ArchList(o) # {}
    /\ Goto(p, "pick")
    /\ UNCHANGED <<tmp, opts, cand, bdir, srcdir, flavored, pdir, listing,
                   patchno, patchset, abicopied, changelog>>

(* _buildDirectory loop: a random name that exists is skipped. *)
PickTaken(p, n) ==
    /\ pc[p] = "pick"
    /\ n \in tmp
    /\ UNCHANGED vars

(* not os.path.exists(possible_directory): directory is set. *)
PickFree(p, n) ==
    /\ pc[p] = "pick"
    /\ n \notin tmp
    /\ cand' = [cand EXCEPT ![p] = n]
    /\ Goto(p, "mkdir")
    /\ UNCHANGED <<tmp, opts, bdir, srcdir, flavored, pdir, listing, patchno,
                   patchset, abicopied, changelog>>

(* Variant: os.mkdir is replaced by a call that accepts an existing      *)
(* directory (mkdir -p through _quietRun).                                 *)
MkdirTolerant(p) ==
    /\ pc[p] = "mkdir"
    /\ tmp' = tmp \cup {cand[p]}
    /\ bdir' = [bdir EXCEPT ![p] = cand[p]]
    /\ Goto(p, "getfiles")
    /\ UNCHANGED <<opts, cand, srcdir, flavored, pdir, listing, patchno,
                   patchset, abicopied, changelog>>

(* os.mkdir(possible_directory); _builddirectory memoizes it. *)
Mkdir(p) ==
    /\ pc[p] = "mkdir"
    /\ cand[p] \notin tmp
    /\ tmp' = tmp \cup {cand[p]}
    /\ bdir' = [bdir EXCEPT ![p] = cand[p]]
    /\ Goto(p, "getfiles")
    /\ UNCHANGED <<opts, cand, srcdir, flavored, pdir, listing, patchno,
                   patchset, abicopied, changelog>>

(* Another invocation created the directory between the check and the      *)
(* mkdir: OSError.                                                         *)
MkdirFails(p) ==
    /\ pc[p] = "mkdir"
    /\ cand[p] \in tmp
    /\ Fail(p)
    /\ UNCHANGED <<tmp, opts, cand, bdir, srcdir, flavored, pdir, listing,
                   patchno, patchset, abicopied, changelog>>

(* _getFiles: wget of the .dsc, Dsc(open(new_path)), then one wget per     *)
(* listed file (their failures are ignored).                               *)
GetFiles(p) ==
    /\ pc[p] = "getfiles"
    /\ Goto(p, "extract")
    /\ UNCHANGED <<tmp, opts, cand, bdir, srcdir, flavored, pdir, listing,
                   patchno, patchset, abicopied, changelog>>

(* The .dsc could not be fetched: wget -O leaves an empty file, and        *)
(* indexing its Dsc object with 'files' raises KeyError.                   *)
GetFilesFails(p) ==
    /\ pc[p] = "getfiles"
    /\ Fail(p)
    /\ UNCHANGED <<tmp, opts, cand, bdir, srcdir, flavored, pdir, listing,
                   patchno, patchset, abicopied, changelog>>

(* _addFlavor's first _sourceDir call: dpkg-source -x in the build         *)
(* directory; the tree is memoized if a line starts 'dpkg-source:          *)
(* extracting', and stays None if no line does.                            *)
Extract(p) ==
    /\ pc[p] = "extract"
    /\ \E found \in BOOLEAN :
          srcdir' = [srcdir EXCEPT ![p] = IF found THEN bdir[p] ELSE None]
    /\ Goto(p, "flavor")
    /\ UNCHANGED <<tmp, opts, cand, bdir, flavored, pdir, listing, patchno,
                   patchset, abicopied, changelog>>

(* _addFlavor: flavordir does not exist, os.mkdir of it and of patchset,   *)
(* config.<arch> per arch with the -c lines appended, _addFlavorToBuild,   *)
(* _addFlavorRules, _addFlavorVars; then _addFlavorPatches starts with     *)
(* patchno = 0.                                                            *)
AddFlavor(p) ==
    /\ pc[p] = "flavor"
    /\ srcdir[p] # None
    /\ ~FlavorDirExists(p)
    /\ flavored' = flavored \cup {bdir[p]}
    /\ pdir' = [pdir EXCEPT ![p] = 1]
    /\ patchno' = [patchno EXCEPT ![p] = 0]
    /\ Goto(p, "listdir")
    /\ UNCHANGED <<tmp, opts, cand, bdir, srcdir, listing, patchset,
                   abicopied, changelog>>

(* 'Did you already create flavor': raising a string ends the run. *)
AddFlavorExists(p) ==
    /\ pc[p] = "flavor"
    /\ srcdir[p] # None
    /\ FlavorDirExists(p)
    /\ Fail(p)
    /\ UNCHANGED <<tmp, opts, cand, bdir, srcdir, flavored, pdir, listing,
                   patchno, patchset, abicopied, changelog>>

(* _sourceDir returned None: flavordir is <build>/None/debian/...,         *)
(* which does not exist, and os.mkdir raises OSError.                      *)
AddFlavorNoTree(p) ==
    /\ pc[p] = "flavor"
    /\ srcdir[p] = None
    /\ Fail(p)
    /\ UNCHANGED <<tmp, opts, cand, bdir, srcdir, flavored, pdir, listing,
                   patchno, patchset, abicopied, changelog>>

(* for srcpatchdir in self._srcpatchdirs: os.listdir, in an order the      *)
(* file system chooses.                                                    *)
ListDir(p) ==
    /\ pc[p] = "listdir"
    /\ pdir[p] <= Len(PatchDirs(p))
    /\ Listable(PatchDirs(p)[pdir[p]])
    /\ \E order \in SetToSeqs(Listing[PatchDirs(p)[pdir[p]]]) :
          listing' = [listing EXCEPT ![p] = order]
    /\ Goto(p, "copy")
    /\ UNCHANGED <<tmp, opts, cand, bdir, srcdir, flavored, pdir, patchno,
                   patchset, abicopied, changelog>>

(* A -p directory that does not exist: os.listdir raises OSError. *)
ListDirFails(p) ==
    /\ pc[p] = "listdir"
    /\ pdir[p] <= Len(PatchDirs(p))
    /\ ~Listable(PatchDirs(p)[pdir[p]])
    /\ Fail(p)
    /\ UNCHANGED <<tmp, opts, cand, bdir, srcdir, flavored, pdir, listing,
                   patchno, patchset, abicopied, changelog>>

(* A '.patch' file is copied to patchset/'%03d-%s' (cp replaces a file of  *)
(* that name), and patchno is incremented.                                 *)
CopyPatch(p) ==
    LET f == Head(listing[p]) IN
    /\ pc[p] = "copy"
    /\ listing[p] # <<>>
    /\ f \in PatchNames
    /\ patchset' = [patchset EXCEPT ![p] =
                       {c \in @ : c.name # <<patchno[p], f>>} \cup {Copy(patchno[p], pdir[p], f)}]
    /\ patchno' = [patchno EXCEPT ![p] = @ + 1]
    /\ listing' = [listing EXCEPT ![p] = Tail(@)]
    /\ UNCHANGED <<tmp, opts, pc, cand, bdir, srcdir, flavored, pdir,
                   abicopied, changelog>>

(* Any other name is skipped. *)
SkipFile(p) ==
    /\ pc[p] = "copy"
    /\ listing[p] # <<>>
    /\ Head(listing[p]) \notin PatchNames
    /\ listing' = [listing EXCEPT ![p] = Tail(@)]
    /\ UNCHANGED <<tmp, opts, pc, cand, bdir, srcdir, flavored, pdir, patchno,
                   patchset, abicopied, changelog>>

(* Variant: patchno = 0 is set inside the loop over directories, as in the *)
(* single-directory _addFlavorPatches of buildKernels.py.                  *)
DirDoneReset(p) ==
    /\ pc[p] = "copy"
    /\ listing[p] = <<>>
    /\ pdir' = [pdir EXCEPT ![p] = @ + 1]
    /\ patchno' = [patchno EXCEPT ![p] = 0]
    /\ Goto(p, "listdir")
    /\ UNCHANGED <<tmp, opts, cand, bdir, srcdir, flavored, listing,
                   patchset, abicopied, changelog>>

(* The listing is done: the next patch directory. *)
DirDone(p) ==
    /\ pc[p] = "copy"
    /\ listing[p] = <<>>
    /\ pdir' = [pdir EXCEPT ![p] = @ + 1]
    /\ Goto(p, "listdir")
    /\ UNCHANGED <<tmp, opts, cand, bdir, srcdir, flavored, listing, patchno,
                   patchset, abicopied, changelog>>

(* All patch directories are done: main() goes on with _abiFixup. *)
PatchesDone(p) ==
    /\ pc[p] = "listdir"
    /\ pdir[p] > Len(PatchDirs(p))
    /\ Goto(p, "abi")
    /\ UNCHANGED <<tmp, opts, cand, bdir, srcdir, flavored, pdir, listing,
                   patchno, patchset, abicopied, changelog>>

(* _abiFixup: listdir of debian/abi, sorted, [0] is copied by cp -r to a   *)
(* directory named after the package version.                              *)
AbiFixup(p) ==
    /\ pc[p] = "abi"
    /\ AbiOf[opts[p].dscfile] # {}
    /\ abicopied' = [abicopied EXCEPT ![p] = TRUE]
    /\ Goto(p, "changelog")
    /\ UNCHANGED <<tmp, opts, cand, bdir, srcdir, flavored, pdir, listing,
                   patchno, patchset, changelog>>

(* An empty debian/abi: current_abi_list[0] raises IndexError. *)
AbiFixupFails(p) ==
    /\ pc[p] = "abi"
    /\ AbiOf[opts[p].dscfile] = {}
    /\ Fail(p)
    /\ UNCHANGED <<tmp, opts, cand, bdir, srcdir, flavored, pdir, listing,
                   patchno, patchset, abicopied, changelog>>

(* _updateChangeLog: dch -v '<version>~<-v>' on debian/changelog; main()  *)
(* returns.                                                                *)
UpdateChangeLog(p) ==
    /\ pc[p] = "changelog"
    /\ changelog' = [changelog EXCEPT ![p] = TRUE]
    /\ Goto(p, "done")
    /\ UNCHANGED <<tmp, opts, cand, bdir, srcdir, flavored, pdir, listing,
                   patchno, patchset, abicopied>>

-----------------------------------------------------------------------------
(* KernelBuilder.__init__ of every invocation: nothing memoized yet;    *)
(* /tmp as earlier runs left it.                                           *)
KernelBuilderInit ==
    /\ tmp = Taken0
    /\ pc = [p \in Procs |-> "opts"]
    /\ cand = [p \in Procs |-> None]
    /\ bdir = [p \in Procs |-> None]
    /\ srcdir = [p \in Procs |-> None]
    /\ flavored = {}
    /\ pdir = [p \in Procs |-> 0]
    /\ listing = [p \in Procs |-> <<>>]
    /\ patchno = [p \in Procs |-> 0]
    /\ patchset = [p \in Procs |-> {}]
    /\ abicopied = [p \in Procs |-> FALSE]
    /\ changelog = [p \in Procs |-> FALSE]

(* __main__: parse_args gives each invocation one of the command lines. *)
Init == opts \in [Procs -> OptionSets] /\ KernelBuilderInit

ProcStep(p) ==
    \/ OptionsInvalid(p) \/ OptionsValid(p)
    \/ \E n \in Slots : PickFree(p, n)
    \/ Mkdir(p) \/ MkdirFails(p)
    \/ GetFiles(p) \/ GetFilesFails(p)
    \/ Extract(p)
    \/ AddFlavor(p) \/ AddFlavorExists(p) \/ AddFlavorNoTree(p)
    \/ ListDir(p) \/ ListDirFails(p)
    \/ CopyPatch(p) \/ SkipFile(p) \/ DirDone(p) \/ PatchesDone(p)
    \/ AbiFixup(p) \/ AbiFixupFails(p)
    \/ UpdateChangeLog(p)

(* PickTaken leaves every variable unchanged, so it is a stuttering step   *)
(* of [Next]_vars and needs no disjunct.                                   *)
Next == \E p \in Procs : ProcStep(p)

Spec == Init /\ [][Next]_vars

-----------------------------------------------------------------------------
TypeOK ==
    /\ tmp \subseteq Slots
    /\ pc \in [Procs -> PC]
    /\ cand \in [Procs -> Slots \cup {None}]
    /\ bdir \in [Procs -> Slots \cup {None}]
    /\ srcdir \in [Procs -> Slots \cup {None}]
    /\ flavored \subseteq Slots
    /\ \A p \in Procs : pdir[p] \in 0..Len(PatchDirs(p)) + 1
    /\ listing \in [Procs -> Seq(UNION {Listing[d] : d \in DOMAIN Listing})]
    /\ patchno \in [Procs -> Nat]
    /\ abicopied \in [Procs -> BOOLEAN]
    /\ changelog \in [Procs -> BOOLEAN]

(* Safety under concurrent invocations: no two invocations ever work in    *)
(* the same /tmp/kernelbuild.N directory.  _buildDirectory checks          *)
(* os.path.exists and then calls os.mkdir; two invocations can both pass   *)
(* the check, and only the failure of the second os.mkdir separates them.  *)
DistinctBuildDirs ==
    \A p, q \in Procs :
        p # q /\ bdir[p] # None => bdir[p] # bdir[q]

(* The patchset of a finished _addFlavorPatches holds exactly one copy of  *)
(* every '.patch' file of every -p directory and nothing else: patchno is  *)
(* shared by all directories, so two directories holding a patch of the   *)
(* same name never produce the same '%03d-%s' name, which cp would         *)
(* overwrite.                                                              *)
PatchesCopiedOnce ==
    \A p \in Procs : pc[p] \in {"abi", "changelog", "done"} =>
        /\ \A i \in DOMAIN PatchDirs(p) : \A f \in Listing[PatchDirs(p)[i]] \cap PatchNames :
              Cardinality({c \in patchset[p] : c.dir = i /\ c.name[2] = f}) = 1
        /\ \A c \in patchset[p] : c.name[2] \in Listing[PatchDirs(p)[c.dir]] \cap PatchNames

(* The patchset is applied in the order of its '%03d-' numbers, which     *)
(* _addFlavorPatches prefixes to fix that order; patches carry names       *)
(* ordered the way they must be applied, as _abiFixup of the same file     *)
(* assumes when it sorts its os.listdir result: copies from earlier -p     *)
(* directories, and from earlier names in one directory, get lower         *)
(* numbers.                                                                *)
PatchOrderKept ==
    \A p \in Procs : \A c, e \in patchset[p] :
        (\/ c.dir < e.dir
         \/ c.dir = e.dir /\ NameRank[c.name[2]] < NameRank[e.name[2]])
        => c.name[1] < e.name[1]

(* A -p directory that exists where flavormaker.py was started is read:    *)
(* _addFlavorPatches never raises at os.listdir(srcpatchdir) for one of    *)
(* the directories the user named, whether the path is relative or not.    *)
ExistingPatchDirsListed ==
    [][\A p \in Procs :
         (/\ pc[p] = "listdir"
          /\ pdir[p] <= Len(PatchDirs(p))
          /\ PatchDirs(p)[pdir[p]] \in DOMAIN Listing)
         => pc'[p] # "failed"]_vars

=============================================================================
