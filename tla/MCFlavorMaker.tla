---------------------------- MODULE MCFlavorMaker ----------------------------
(* Model values for one flavormaker invocation: three build-directory     *)
(* names, two -p directories that both hold a patch named pa (d1 also     *)
(* holds pb and a README that is not a patch), and one kernel .dsc.       *)
EXTENDS FlavorMaker, TLC

CONSTANTS s1, s2, s3, d1, d2, pa, pb, readme, abi1, k1, fz

MCSlots == {s1, s2, s3}
MCListing == (d1 :> {pa, pb, readme}) @@ (d2 :> {pa})
MCPatchNames == {pa, pb}
MCNameRank == (pa :> 1) @@ (pb :> 2) @@ (readme :> 3)
MCAbiOf == k1 :> {abi1}
MCFlavorsOf == k1 :> {}

(* One command line: -r, -d k1, -i, -p d1 -p d2, -n fz. *)
ValidOptions ==
    {[release |-> TRUE, dscfile |-> k1, i386 |-> TRUE, amd64 |-> FALSE,
      patches |-> <<d1, d2>>, name |-> fz]}

=============================================================================
