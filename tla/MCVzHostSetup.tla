---------------------------- MODULE MCVzHostSetup ----------------------------
(* Model values for the host setup runs: the three host packages. *)
EXTENDS VzHostSetup

CONSTANTS vzquota, vzctl, python

MCHostPkgs == {vzquota, vzctl, python}
MCInstalled0 == {vzctl, python}
=============================================================================
