----------------------------- MODULE SerialActor -----------------------------
(***************************************************************************)
(* What a stateful actor promises to those who send to it: messages are     *)
(* accepted in some order, their handlers run one at a time and in that     *)
(* order, each at most once, and none starts once the actor is destroyed.   *)
(* ActorMailbox, the lock-free protocol of idgs/actor/stateful_actor.cpp,   *)
(* implements it.                                                           *)
(***************************************************************************)
EXTENDS Naturals, Sequences

CONSTANTS Messages,   \* every message that may be addressed to the actor
          Destroys,   \* those of them whose operation is OP_DESTROY
          NoMsg       \* "no handler is running"

VARIABLES accepted,   \* the messages accepted so far, in order
          begun,      \* how many of them a handler was started for
          busy,       \* the message whose handler is running, or NoMsg
          alive       \* no handler of a destroy message has completed

vars == <<accepted, begun, busy, alive>>

Init ==
  /\ accepted = << >>
  /\ begun = 0
  /\ busy = NoMsg
  /\ alive = TRUE

Accept(m) ==
  /\ accepted' = Append(accepted, m)
  /\ UNCHANGED <<begun, busy, alive>>

Begin ==
  /\ alive
  /\ busy = NoMsg
  /\ begun < Len(accepted)
  /\ begun' = begun + 1
  /\ busy' = accepted[begun + 1]
  /\ UNCHANGED <<accepted, alive>>

End ==
  /\ busy \in Messages \ Destroys
  /\ busy' = NoMsg
  /\ UNCHANGED <<accepted, begun, alive>>

Destroy ==
  /\ busy \in Destroys
  /\ busy' = NoMsg
  /\ alive' = FALSE
  /\ UNCHANGED <<accepted, begun>>

Next ==
  \/ \E m \in Messages : Accept(m)
  \/ Begin
  \/ End
  \/ Destroy

Spec == Init /\ [][Next]_vars
=============================================================================
