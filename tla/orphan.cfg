CONSTANTS
    Procs = {p1}
    dA = dA
    dB = dB
    orig = orig
    fa = fa
    fb = fb
    Pkgs <- MCPkgs
    Files <- MCFiles
    FilesOf <- FilesOfDisjoint
    ConcurrentUploads = FALSE
    MaxUploads = 0
    MaxCrashes = 1
SPECIFICATION Spec
INVARIANT NoOrphanWhenIdle
