----------------------------- MODULE MCInnerTcp -----------------------------
(***************************************************************************)
(* InnerTcp for TLC.  One sender pushes behind the back of whoever drains,  *)
(* and of two I/O threads one terminates the connection while the other     *)
(* handles a finished write; all three run realSendMessage.  Messages are   *)
(* numbered as they are pushed, so that a second sender would add pushers   *)
(* and no new order of the queue.                                           *)
(***************************************************************************)
EXTENDS InnerTcp
=============================================================================
