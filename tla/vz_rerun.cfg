CONSTANTS
    vzquota = vzquota
    vzctl = vzctl
    python = python
    HostPkgs <- MCHostPkgs
    Installed0 <- MCInstalled0
SPECIFICATION FairSpec
PROPERTY RerunSucceeds
