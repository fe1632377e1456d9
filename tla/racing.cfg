CONSTANTS
    Procs = {p1, p2}
    dA = dA
    dB = dB
    orig = orig
    fa = fa
    fb = fb
    Pkgs <- MCPkgs
    Files <- MCFiles
    FilesOf <- FilesOfShared
    ConcurrentUploads = TRUE
    MaxUploads = 3
    MaxCrashes = 1
SPECIFICATION Spec
SYMMETRY ProcSymmetry
INVARIANT AtMostOneBuildPerUpload
