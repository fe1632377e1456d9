CONSTANTS
    vzquota = vzquota
    vzctl = vzctl
    python = python
    HostPkgs <- MCHostPkgs
    Installed0 <- MCInstalled0
SPECIFICATION Spec
INVARIANT FreshGuestWhenDone
