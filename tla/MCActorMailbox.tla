--------------------------- MODULE MCActorMailbox ---------------------------
(***************************************************************************)
(* ActorMailbox for TLC.  Three threads are enough for one to drain, one to *)
(* push behind its back and one to arrive after the destroy; two ordinary   *)
(* messages are enough for a reordering.  Threads are not declared          *)
(* symmetric, which would be unsound for liveness.                          *)
(***************************************************************************)
EXTENDS ActorMailbox
=============================================================================
