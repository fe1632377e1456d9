---------------------------- MODULE BuildKernels ----------------------------
(***************************************************************************)
(* kernel/ubuntu-package/buildKernels.py on a build host where             *)
(* flavormaker.py may be run at the same time.                             *)
(*                                                                         *)
(* The KernelBuilder of buildKernels.py has the control of flavormaker's,  *)
(* step for step: the same _buildDirectory loop, memoized _sourceDir and   *)
(* _descriptionObj, _addFlavor with its existence check, _abiFixup and     *)
(* _updateChangeLog.  It differs in data only: the archlist is always      *)
(* i386 and amd64, there are no -c lines, and _addFlavorPatches walks one  *)
(* fixed directory, which is the one-element case of flavormaker's loop.   *)
(* So each builder of the script is a process of FlavorMaker with fixed    *)
(* arguments.  __main__ builds the hardy kernel and then the gutsy one in  *)
(* the same process: an exception in the first ends the script.  Both      *)
(* scripts create their build directories in the one shared /tmp.         *)
(***************************************************************************)
EXTENDS FlavorMaker

CONSTANTS
    Hardy, Gutsy,        \* the two KernelBuilders of __main__, in Procs
    HardyDsc, GutsyDsc,  \* their .dsc paths, in DscFiles
    ZumastorPatches,     \* '/home/wan/zumastor/ddsnap/patches/2.6.24.2/'
    Zumastor             \* the flavor name 'zumastor'

ASSUME {Hardy, Gutsy} \subseteq Procs /\ Hardy # Gutsy

Builders == {Hardy, Gutsy}

(* The flavormaker.py invocations running beside the script. *)
Invocations == Procs \ Builders

(* KernelBuilder(dsc, dist) and main(): a dsc path and a release are      *)
(* given, _addFlavor's default archlist is i386 and amd64, and             *)
(* _addFlavorPatches takes the one fixed directory.                        *)
KernelBuilderArgs(b) ==
    [release |-> TRUE, dscfile |-> IF b = Hardy THEN HardyDsc ELSE GutsyDsc,
     i386 |-> TRUE, amd64 |-> TRUE, patches |-> <<ZumastorPatches>>,
     name |-> Zumastor]

(* Each flavormaker invocation has one of its command lines; the builders *)
(* have their fixed arguments.                                             *)
HostInit ==
    /\ \E o \in [Invocations -> OptionSets] :
          opts = [p \in Procs |-> IF p \in Builders THEN KernelBuilderArgs(p) ELSE o[p]]
    /\ KernelBuilderInit

(* The methods of buildKernels.py's KernelBuilder, for a builder b; each *)
(* is the FlavorMaker action its identical code translates.               *)

(* _buildDirectory: draw random names until one is free, then os.mkdir. *)
buildDirectory(b) == (\E n \in Slots : PickFree(b, n)) \/ Mkdir(b) \/ MkdirFails(b)

(* _descriptionObj and _getFiles: wget of the .dsc from APTMIRROR, Dsc(), *)
(* a wget per listed file.                                                *)
getFiles(b) == GetFiles(b) \/ GetFilesFails(b)

(* _sourceDir: os.chdir and dpkg-source -x, memoized. *)
sourceDir(b) == Extract(b)

(* _addFlavor('zumastor'): the existence check, the mkdirs and config     *)
(* files, _addFlavorToBuild, _addFlavorRules and _addFlavorVars.          *)
addFlavor(b) == AddFlavor(b) \/ AddFlavorExists(b) \/ AddFlavorNoTree(b)

(* _addFlavorPatches(name, srcpatchdir): one os.listdir of the fixed      *)
(* directory, each '.patch' copied as '%03d-%s' from patchno 0.           *)
addFlavorPatches(b) ==
    \/ ListDir(b) \/ ListDirFails(b)
    \/ CopyPatch(b) \/ SkipFile(b) \/ DirDone(b) \/ PatchesDone(b)

(* _abiFixup: the first entry of the sorted debian/abi is copied. *)
abiFixup(b) == AbiFixup(b) \/ AbiFixupFails(b)

(* _updateChangeLog: dch -v '<version>~1'. *)
updateChangeLog(b) == UpdateChangeLog(b)

(* main(): the constructor has returned (its fixed arguments meet every   *)
(* check flavormaker's __main__ makes), then _getFiles, _addFlavor,       *)
(* _abiFixup and _updateChangeLog, in that order (pc orders them).        *)
BuilderMain(b) ==
    \/ OptionsValid(b)
    \/ buildDirectory(b) \/ getFiles(b) \/ sourceDir(b)
    \/ addFlavor(b) \/ addFlavorPatches(b) \/ abiFixup(b) \/ updateChangeLog(b)

(* hardy_2624.main() *)
HardyStep == BuilderMain(Hardy)

(* gutsy_2622.main() runs once hardy_2624.main() has returned. *)
GutsyStep == pc[Hardy] = "done" /\ BuilderMain(Gutsy)

HostNext ==
    \/ \E p \in Invocations : ProcStep(p)
    \/ HardyStep
    \/ GutsyStep

HostSpec == HostInit /\ [][HostNext]_vars

=============================================================================
