------------------------------ MODULE QueueSpec ------------------------------
(***************************************************************************)
(* What the package builder's queue promises, with the files and the       *)
(* processes abstracted away.  Each descriptor is in one place at a time:  *)
(* not present ("none"), waiting in INCOMING_DIR ("incoming"), claimed     *)
(* into QUEUE_DIR ("queued"), or handed to the builder and not yet removed *)
(* ("building").  It moves between these in single steps: it is claimed   *)
(* from incoming, built once from the queue, then consumed.                *)
(***************************************************************************)
EXTENDS Naturals

CONSTANT Pkgs          \* descriptor names

VARIABLES
    loc,               \* loc[d]: where descriptor d is
    builds             \* builds[d]: build attempts of d so far

Loc == {"none", "incoming", "queued", "building"}

Move(d, from, to) ==
    /\ loc[d] = from
    /\ loc' = [loc EXCEPT ![d] = to]

(* A descriptor is put into the incoming directory. *)
Arrive(d) == Move(d, "none", "incoming") /\ UNCHANGED builds

(* A validated descriptor is claimed into the queue. *)
Claim(d) == Move(d, "incoming", "queued") /\ UNCHANGED builds

(* A queued descriptor is built once. *)
Build(d) ==
    /\ Move(d, "queued", "building")
    /\ builds' = [builds EXCEPT ![d] = @ + 1]

(* The built descriptor is removed from the queue. *)
Consume(d) == Move(d, "building", "none") /\ UNCHANGED builds

Init ==
    /\ loc \in [Pkgs -> {"none", "incoming"}]
    /\ builds = [d \in Pkgs |-> 0]

Next == \E d \in Pkgs : Arrive(d) \/ Claim(d) \/ Build(d) \/ Consume(d)

Spec == Init /\ [][Next]_<<loc, builds>>

=============================================================================
