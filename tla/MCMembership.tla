---------------------------- MODULE MCMembership ----------------------------
(***************************************************************************)
(* Membership for TLC.  Each process has an endpoint of its own.  Processes *)
(* are alike until they start: safety runs declare them symmetric, and runs *)
(* of liveness, for which that is unsound, start them in one order instead. *)
(***************************************************************************)
EXTENDS Membership, TLC

CONSTANTS p1, p2, p3, p4

OwnAddress    == [p \in Procs |-> p]
ProcSymmetry  == Permutations(Procs)
AnyOrder      == {}
GivenOrder    == {<<p1, p2>>, <<p2, p3>>, <<p1, p3>>}
=============================================================================
