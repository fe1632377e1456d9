CONSTANTS
    Procs = {p1}
    dA = dA
    dB = dB
    orig = orig
    fa = fa
    fb = fb
    Pkgs <- MCPkgs
    Files <- MCFiles
    FilesOf <- FilesOfShared
    ConcurrentUploads = FALSE
    MaxUploads = 3
    MaxCrashes = 0
SPECIFICATION Spec
INVARIANT TypeOK QueueConsistent
PROPERTY TrunkImplementsQueueSpec
