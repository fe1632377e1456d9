CONSTANTS
    Procs = {p1}
    dA = dA
    dB = dB
    orig = orig
    fa = fa
    fb = fb
    Pkgs <- MCPkgs
    Files <- MCFiles
    FilesOf <- FilesOfDisjoint
    ConcurrentUploads = TRUE
    MaxUploads = 2
    MaxCrashes = 0
SPECIFICATION FairSpec
PROPERTY UploadEventuallyBuilt
