\* The buildKernels.py script (hardy, then gutsy) and one flavormaker.py
\* invocation p1, sharing /tmp, which holds one kernelbuild.N already.
CONSTANTS
    Procs = {p1, hardy, gutsy}
    Hardy = hardy
    Gutsy = gutsy
    HardyDsc = k1
    GutsyDsc = k3
    ZumastorPatches = zd
    Zumastor = zumastor
    s1 = s1
    s2 = s2
    s3 = s3
    s4 = s4
    d1 = d1
    d2 = d2
    d3 = d3
    zd = zd
    pa = pa
    pb = pb
    readme = readme
    abi1 = abi1
    k1 = k1
    k2 = k2
    k3 = k3
    fz = fz
    xen = xen
    Slots <- MCSlots
    Taken0 = {s1}
    OptionSets <- MCOptions
    PatchDirSet = {d1, d2, d3, zd}
    DscFiles = {k1, k2, k3}
    Listing <- MCListing
    PatchNames <- MCPatchNames
    NameRank <- MCNameRank
    AbiOf <- MCAbiOf
    FlavorNames = {fz, xen, zumastor}
    FlavorsOf <- MCFlavorsOf
    RelativeDirs = {}
SPECIFICATION HostSpec
CHECK_DEADLOCK FALSE
INVARIANT DistinctBuildDirs PatchesCopiedOnce
