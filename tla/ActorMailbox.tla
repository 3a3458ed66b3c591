---------------------------- MODULE ActorMailbox ----------------------------
(***************************************************************************)
(* One stateful session actor (idgs/actor/stateful_actor.cpp) and the       *)
(* threads that deliver messages to it: worker threads that popped the      *)
(* message from the application's queue (ActorWorker::run) and threads that *)
(* send inline (ActorManager::sendMessage calls processMessage itself).     *)
(* There is no lock: a thread pushes its message, tries a few times to move *)
(* `state' from IDLE to ACTIVE, and the one that succeeds handles every     *)
(* message it can pop, those of the other threads included.                 *)
(*                                                                          *)
(* A step is one atomic access to what the threads share.  A handler that   *)
(* sends to its own actor calls process() on top of itself; the nested call *)
(* finds the actor ACTIVE and only pushes, as one more thread would.        *)
(***************************************************************************)
EXTENDS Naturals, Sequences, Functions

CONSTANTS Threads,
          Messages,
          Destroys,         \* messages whose operation is OP_DESTROY
          RetryLockTimes,   \* RETRY_LOCK_TIMES, 5 in the code
          NoMsg

ASSUME MailboxAssumption ==
  /\ Destroys \subseteq Messages
  /\ RetryLockTimes \in Nat \ {0}
  /\ NoMsg \notin Messages

VARIABLES pending,      \* messages on their way to the actor
          pc,           \* where each thread is
          msg,          \* the message each thread carries: the argument of
                        \* process() until it is pushed, then msgPtr
          tries,        \* compare-and-swaps each thread has failed
          state,        \* StatefulActor::state
          queue,        \* StatefulActor::msg_queue
          registered,   \* the actor is in sessionActorMap
          freed,        \* `delete this' has run
          pushed,       \* history: messages in the order they were pushed
          popped,       \* history: how many of them were popped to be handled
          discarded     \* history: messages dropped without being handled

actorVars == <<state, queue, registered, freed>>
history   == <<pushed, popped, discarded>>
vars == <<pending, pc, msg, tries, state, queue, registered, freed,
          pushed, popped, discarded>>

States == {"IDLE", "ACTIVE", "TERMINATE"}

(* The places of a thread that holds the raw pointer getActor returned and  *)
(* is not the one running the actor.                                        *)
Delivering == {"check", "put", "push", "enter"}
(* The places of the thread that won the ACTIVE state.                      *)
Draining   == {"poll", "handle", "leave"}
(* The places inside onDestroy.                                             *)
Destroying == {"clear", "unregister", "delete"}
Running    == Draining \cup Destroying

Places == {"idle", "lookup", "undefined"} \cup Delivering \cup Running

Init ==
  /\ pending = Messages
  /\ pc = [t \in Threads |-> "idle"]
  /\ msg = [t \in Threads |-> NoMsg]
  /\ tries = [t \in Threads |-> 0]
  /\ state = "IDLE"
  /\ queue = << >>
  /\ registered = TRUE
  /\ freed = FALSE
  /\ pushed = << >>
  /\ popped = 0
  /\ discarded = {}

Goto(t, place) == pc' = [pc EXCEPT ![t] = place]

(* The thread is done with the message it carries.                          *)
Return(t) ==
  /\ Goto(t, "idle")
  /\ msg' = [msg EXCEPT ![t] = NoMsg]

Discard(t) ==
  /\ Return(t)
  /\ discarded' = discarded \cup {msg[t]}

(* ActorWorker::run pops a message, or a sender calls processMessage.       *)
Fetch(t) ==
  /\ pc[t] = "idle"
  /\ \E m \in pending :
       /\ pending' = pending \ {m}
       /\ msg' = [msg EXCEPT ![t] = m]
  /\ Goto(t, "lookup")
  /\ UNCHANGED <<tries, actorVars, history>>

(* ActorManager::getActor: the accessor that protects the map entry is      *)
(* released on return, and localProcess goes on with the raw pointer.       *)
GetActor(t) ==
  /\ pc[t] = "lookup"
  /\ \/ /\ registered
        /\ Goto(t, "check")
        /\ UNCHANGED <<msg, discarded>>
     \/ /\ ~registered
        /\ Discard(t)
  /\ UNCHANGED <<pending, tries, actorVars, pushed, popped>>

(* The first test of process().                                             *)
CheckTerminate(t) ==
  /\ pc[t] = "check"
  /\ ~freed
  /\ \/ /\ state = "TERMINATE"
        /\ Discard(t)
     \/ /\ state # "TERMINATE"
        /\ Goto(t, "put")
        /\ UNCHANGED <<msg, discarded>>
  /\ UNCHANGED <<pending, tries, actorVars, pushed, popped>>

(* putMessage tests the state again; when it drops the message, process()   *)
(* still goes on to tryToEntry, without a message of its own.               *)
PutMessage(t) ==
  /\ pc[t] = "put"
  /\ ~freed
  /\ \/ /\ state = "TERMINATE"
        /\ Goto(t, "enter")
        /\ msg' = [msg EXCEPT ![t] = NoMsg]
        /\ discarded' = discarded \cup {msg[t]}
     \/ /\ state # "TERMINATE"
        /\ Goto(t, "push")
        /\ UNCHANGED <<msg, discarded>>
  /\ UNCHANGED <<pending, tries, actorVars, pushed, popped>>

(* Mutant of Push: hands the message over only to an actor nobody runs.     *)
PushUnlessActive(t) ==
  /\ pc[t] = "push"
  /\ ~freed
  /\ IF state = "ACTIVE"
     THEN UNCHANGED <<queue, pushed>>
     ELSE /\ queue' = Append(queue, msg[t])
          /\ pushed' = Append(pushed, msg[t])
  /\ msg' = [msg EXCEPT ![t] = NoMsg]
  /\ Goto(t, "enter")
  /\ UNCHANGED <<pending, tries, state, registered, freed, popped, discarded>>

Push(t) ==
  /\ pc[t] = "push"
  /\ ~freed
  /\ queue' = Append(queue, msg[t])
  /\ pushed' = Append(pushed, msg[t])
  /\ msg' = [msg EXCEPT ![t] = NoMsg]
  /\ Goto(t, "enter")
  /\ UNCHANGED <<pending, tries, state, registered, freed, popped, discarded>>

(* Mutant of TryToEntry: process() calls leave() outside its `if'.          *)
TryToEntryThenLeave(t) ==
  /\ pc[t] = "enter"
  /\ ~freed
  /\ \/ /\ state = "IDLE"
        /\ state' = "ACTIVE"
        /\ tries' = [tries EXCEPT ![t] = 0]
        /\ Goto(t, "poll")
     \/ /\ state # "IDLE"
        /\ tries[t] + 1 < RetryLockTimes
        /\ tries' = [tries EXCEPT ![t] = @ + 1]
        /\ UNCHANGED <<pc, state>>
     \/ /\ state # "IDLE"
        /\ tries[t] + 1 >= RetryLockTimes
        /\ tries' = [tries EXCEPT ![t] = 0]
        /\ Goto(t, "idle")
        /\ state' = IF state = "ACTIVE" THEN "IDLE" ELSE state
  /\ UNCHANGED <<pending, msg, queue, registered, freed, history>>

(* One compare-and-swap of tryToEntry.  A thread whose last one fails       *)
(* returns from process(): it relies on whoever is ACTIVE.                  *)
TryToEntry(t) ==
  /\ pc[t] = "enter"
  /\ ~freed
  /\ \/ /\ state = "IDLE"
        /\ state' = "ACTIVE"
        /\ tries' = [tries EXCEPT ![t] = 0]
        /\ Goto(t, "poll")
     \/ /\ state # "IDLE"
        /\ tries[t] + 1 < RetryLockTimes
        /\ tries' = [tries EXCEPT ![t] = @ + 1]
        /\ UNCHANGED <<pc, state>>
     \/ /\ state # "IDLE"
        /\ tries[t] + 1 >= RetryLockTimes
        /\ tries' = [tries EXCEPT ![t] = 0]
        /\ Goto(t, "idle")
        /\ UNCHANGED state
  /\ UNCHANGED <<pending, msg, queue, registered, freed, history>>

(* Mutant of PopMessage: a stack in place of the queue.                     *)
PopNewest(t) ==
  /\ pc[t] = "poll"
  /\ \/ /\ state = "ACTIVE" /\ queue # << >>
        /\ msg' = [msg EXCEPT ![t] = queue[Len(queue)]]
        /\ queue' = SubSeq(queue, 1, Len(queue) - 1)
        /\ popped' = popped + 1
        /\ Goto(t, "handle")
     \/ /\ ~(state = "ACTIVE" /\ queue # << >>)
        /\ Goto(t, "leave")
        /\ UNCHANGED <<msg, queue, popped>>
  /\ UNCHANGED <<pending, tries, state, registered, freed, pushed, discarded>>

(* The loop condition of process(): state is ACTIVE, which only the thread  *)
(* that runs the actor changes, and try_pop finds a message.                *)
PopMessage(t) ==
  /\ pc[t] = "poll"
  /\ \/ /\ state = "ACTIVE" /\ queue # << >>
        /\ msg' = [msg EXCEPT ![t] = Head(queue)]
        /\ queue' = Tail(queue)
        /\ popped' = popped + 1
        /\ Goto(t, "handle")
     \/ /\ ~(state = "ACTIVE" /\ queue # << >>)
        /\ Goto(t, "leave")
        /\ UNCHANGED <<msg, queue, popped>>
  /\ UNCHANGED <<pending, tries, state, registered, freed, pushed, discarded>>

(* Mutant of HandleMessage: an exception leaves process() without leave().  *)
HandleMessageUncaught(t) ==
  /\ pc[t] = "handle"
  /\ msg[t] \notin Destroys
  /\ Goto(t, "idle")
  /\ msg' = [msg EXCEPT ![t] = NoMsg]
  /\ UNCHANGED <<pending, tries, actorVars, history>>

(* Mutant of HandleMessage: `if' in place of `while', one message per entry.*)
HandleMessageOnce(t) ==
  /\ pc[t] = "handle"
  /\ msg[t] \notin Destroys
  /\ Goto(t, "leave")
  /\ msg' = [msg EXCEPT ![t] = NoMsg]
  /\ UNCHANGED <<pending, tries, actorVars, history>>

(* innerProcess with an ordinary operation: the handler completes, by       *)
(* returning or by throwing, which innerProcess catches.                    *)
HandleMessage(t) ==
  /\ pc[t] = "handle"
  /\ msg[t] \notin Destroys
  /\ Goto(t, "poll")
  /\ msg' = [msg EXCEPT ![t] = NoMsg]
  /\ UNCHANGED <<pending, tries, actorVars, history>>

(* Mutant of OnDestroy: the state is not set to TERMINATE.                  *)
OnDestroyKeepingState(t) ==
  /\ pc[t] = "handle"
  /\ msg[t] \in Destroys
  /\ msg' = [msg EXCEPT ![t] = NoMsg]
  /\ Goto(t, "clear")
  /\ UNCHANGED <<pending, tries, state, queue, registered, freed, history>>

(* innerProcess with OP_DESTROY: the first statement of onDestroy.          *)
OnDestroy(t) ==
  /\ pc[t] = "handle"
  /\ msg[t] \in Destroys
  /\ state' = "TERMINATE"
  /\ msg' = [msg EXCEPT ![t] = NoMsg]
  /\ Goto(t, "clear")
  /\ UNCHANGED <<pending, tries, queue, registered, freed, history>>

ClearQueue(t) ==
  /\ pc[t] = "clear"
  /\ queue' = << >>
  /\ discarded' = discarded \cup Range(queue)
  /\ Goto(t, "unregister")
  /\ UNCHANGED <<pending, msg, tries, state, registered, freed, pushed, popped>>

Unregister(t) ==
  /\ pc[t] = "unregister"
  /\ registered' = FALSE
  /\ Goto(t, "delete")
  /\ UNCHANGED <<pending, msg, tries, state, queue, freed, history>>

(* The destructor clears what was pushed since, and process() returns       *)
(* TERMINATE without touching the object again.                             *)
DeleteThis(t) ==
  /\ pc[t] = "delete"
  /\ queue' = << >>
  /\ discarded' = discarded \cup Range(queue)
  /\ freed' = TRUE
  /\ Goto(t, "idle")
  /\ UNCHANGED <<pending, msg, tries, state, registered, pushed, popped>>

Leave(t) ==
  /\ pc[t] = "leave"
  /\ state' = IF state = "ACTIVE" THEN "IDLE" ELSE state
  /\ Goto(t, "idle")
  /\ UNCHANGED <<pending, msg, tries, queue, registered, freed, history>>

(* A thread that got the pointer before Unregister uses it after            *)
(* DeleteThis.  The memory may still hold the TERMINATE the destructor      *)
(* stored, and the thread returns, or it may hold anything: what the thread *)
(* does then is not defined, and the model says no more of it.              *)
TouchFreed(t) ==
  /\ pc[t] \in Delivering
  /\ freed
  /\ \E place \in {"idle", "undefined"} : Goto(t, place)
  /\ msg' = [msg EXCEPT ![t] = NoMsg]
  /\ discarded' = discarded \cup ({msg[t]} \ {NoMsg})
  /\ tries' = [tries EXCEPT ![t] = 0]
  /\ UNCHANGED <<pending, actorVars, pushed, popped>>

Step(t) ==
  \/ Fetch(t) \/ GetActor(t) \/ CheckTerminate(t) \/ PutMessage(t) \/ Push(t)
  \/ TryToEntry(t) \/ PopMessage(t) \/ HandleMessage(t) \/ OnDestroy(t)
  \/ ClearQueue(t) \/ Unregister(t) \/ DeleteThis(t) \/ Leave(t)
  \/ TouchFreed(t)

Next == \E t \in Threads : Step(t)

Spec == Init /\ [][Next]_vars

(* Every thread that is inside process() keeps being scheduled.             *)
FairSpec == Spec /\ \A t \in Threads : WF_vars(Step(t))

-----------------------------------------------------------------------------
(* The messages some thread carries or the actor's queue holds.             *)
Carried == {msg[t] : t \in Threads} \ {NoMsg}
Queued  == Range(queue)
Begun   == {pushed[i] : i \in 1..popped}

(* Type correctness of the variables (idgs/actor/stateful_actor.h).         *)
TypeOK ==
  /\ pending \subseteq Messages
  /\ pc \in [Threads -> Places]
  /\ msg \in [Threads -> Messages \cup {NoMsg}]
  /\ tries \in [Threads -> 0..(RetryLockTimes - 1)]
  /\ state \in States
  /\ queue \in Seq(Messages)
  /\ registered \in BOOLEAN
  /\ freed \in BOOLEAN
  /\ pushed \in Seq(Messages)
  /\ popped \in 0..Len(pushed)
  /\ discarded \subseteq Messages

(* tryToEntry is the lock of the actor: no two threads are between its      *)
(* success and leave() or the end of onDestroy, so handlers need no locks.  *)
SerialHandling ==
  \A t, u \in Threads : pc[t] \in Running /\ pc[u] \in Running => t = u

(* While the actor is not being destroyed its queue is what was pushed and  *)
(* not yet popped, in order: process() neither loses, repeats nor reorders  *)
(* a message, whichever thread pushed it and whichever popped it.           *)
FifoOnce ==
  state # "TERMINATE" => queue = SubSeq(pushed, popped + 1, Len(pushed))

(* A thread carries a message exactly from Fetch to Push, and while it is   *)
(* in a handler: process() never pushes a message twice or a null one.      *)
CarryInv ==
  \A t \in Threads :
    msg[t] \in Messages <=>
      pc[t] \in {"lookup", "check", "put", "push", "handle"}

(* How `state' tells who runs the actor.                                    *)
OwnerInv ==
  /\ state = "IDLE" => \A t \in Threads : pc[t] \notin Running
  /\ state = "ACTIVE" => \E t \in Threads : pc[t] \in Draining
  /\ \A t \in Threads : pc[t] \in Draining => state = "ACTIVE"
  /\ \A t \in Threads : pc[t] \in Destroying => state = "TERMINATE"
  /\ freed => state = "TERMINATE"

(* Every message is somewhere: on its way, carried, queued, begun, or       *)
(* dropped by one of the exits that log it (or by clear()); a thread that   *)
(* gives up in tryToEntry leaves its message in the queue.  A session actor *)
(* drops messages only when a destroy has begun.                            *)
NothingVanishes ==
  /\ Messages = pending \cup Carried \cup Queued \cup Begun \cup discarded
  /\ discarded # {} => Begun \cap Destroys # {}

(* The inductive invariant of ActorMailboxProofs.                           *)
MailboxInv ==
  /\ TypeOK
  /\ CarryInv
  /\ OwnerInv
  /\ SerialHandling
  /\ FifoOnce

(* While some thread drains the queue, every message in it gets its handler *)
(* or is dropped by a destroy: the loop of process() runs until try_pop     *)
(* fails.  (A message left behind by a thread that gave up in tryToEntry    *)
(* after that failing try_pop waits for the next thread that drains.)       *)
DrainReachesAll ==
  \A m \in Messages :
    (m \in Queued /\ \E t \in Threads : pc[t] \in {"poll", "handle"})
      ~> (m \in Begun \cup discarded)

(* The promise of SerialActor: acceptance is Push, a handler runs from      *)
(* PopMessage to HandleMessage or OnDestroy.                                *)
Busy == IF \E t \in Threads : pc[t] = "handle"
        THEN msg[CHOOSE t \in Threads : pc[t] = "handle"]
        ELSE NoMsg

Serial == INSTANCE SerialActor
  WITH accepted <- pushed, begun <- popped, busy <- Busy,
       alive <- (state # "TERMINATE")

ImplementsSerialActor == Serial!Spec

=============================================================================
