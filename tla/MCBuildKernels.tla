---------------------------- MODULE MCBuildKernels ----------------------------
(* The build host: one flavormaker invocation beside the buildKernels.py   *)
(* script.  Four build-directory names, the patch directories of          *)
(* MCFlavorMaker, a fixed directory zd with one patch, and a kernel       *)
(* source k3 for the gutsy builder.                                        *)
EXTENDS BuildKernels, TLC

CONSTANTS s1, s2, s3, s4, d1, d2, d3, zd, pa, pb, readme, abi1, k1, k2, k3, fz, xen

MCSlots == {s1, s2, s3, s4}
MCListing == (d1 :> {pa, pb, readme}) @@ (d2 :> {pa}) @@ (zd :> {pb})
MCPatchNames == {pa, pb}
MCNameRank == (pa :> 1) @@ (pb :> 2) @@ (readme :> 3)
MCAbiOf == (k1 :> {abi1}) @@ (k2 :> {}) @@ (k3 :> {abi1})
MCFlavorsOf == (k1 :> {xen}) @@ (k2 :> {}) @@ (k3 :> {})

Valid(dsc, ps) ==
    [release |-> TRUE, dscfile |-> dsc, i386 |-> TRUE, amd64 |-> FALSE, patches |-> ps,
     name |-> fz]

(* flavormaker.py command lines: for either kernel, with the missing -p   *)
(* d3 or not, one naming the xen flavor k1 already ships, and each of the  *)
(* three that __main__ rejects.                                            *)
MCOptions ==
    {Valid(f, ps) : f \in {k1, k2}, ps \in {<<d1, d2>>, <<d1, d3>>}}
    \cup {[Valid(k1, <<d1, d2>>) EXCEPT !.name = xen],
          [Valid(k1, <<d1, d2>>) EXCEPT !.release = FALSE],
          [Valid(k1, <<d1, d2>>) EXCEPT !.dscfile = None],
          [Valid(k1, <<d1, d2>>) EXCEPT !.i386 = FALSE]}
=============================================================================
