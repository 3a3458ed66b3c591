------------------------- MODULE ActorMailboxProofs -------------------------
(***************************************************************************)
(* ActorMailbox for any number of threads, messages and attempts: typing,   *)
(* mutual exclusion of handlers and the order of the queue are inductive    *)
(* together (popping is well-typed because the queue is the rest of what    *)
(* was pushed, which holds because one thread pops), and with them the      *)
(* mailbox implements SerialActor.                                          *)
(***************************************************************************)
EXTENDS ActorMailbox, SequenceTheorems, TLAPS

-----------------------------------------------------------------------------
(* Lemmas about the rest of a sequence, SubSeq(s, k + 1, Len(s)).           *)

(* Pushing one more message appends it to the rest (tbb queue push).        *)
LEMMA RestOfAppend ==
  ASSUME NEW S, NEW s \in Seq(S), NEW m \in S, NEW k \in 0..Len(s)
  PROVE  SubSeq(Append(s, m), k + 1, Len(Append(s, m)))
           = Append(SubSeq(s, k + 1, Len(s)), m)
<1> DEFINE u == Append(s, m)
           a == SubSeq(u, k + 1, Len(u))
           b == Append(SubSeq(s, k + 1, Len(s)), m)
<1>1. u \in Seq(S) /\ Len(u) = Len(s) + 1 /\ Len(s) \in Nat /\ k \in Nat
  OBVIOUS
<1>2. /\ SubSeq(s, k + 1, Len(s)) \in Seq(S)
      /\ Len(SubSeq(s, k + 1, Len(s))) = Len(s) - k
      /\ \A i \in 1..(Len(s) - k) : SubSeq(s, k + 1, Len(s))[i] = s[k + i]
  BY <1>1
<1>3. /\ a \in Seq(S)
      /\ Len(a) = Len(s) + 1 - k
      /\ \A i \in 1..(Len(s) + 1 - k) : a[i] = u[k + i]
  BY <1>1
<1>4. /\ b \in Seq(S)
      /\ Len(b) = Len(s) + 1 - k
      /\ \A i \in 1..(Len(s) + 1 - k) : b[i] = u[k + i]
  BY <1>1, <1>2
<1> QED  BY <1>3, <1>4, SeqEqual

(* Popping takes the next pushed message and leaves the rest after it.      *)
LEMMA HeadTailOfRest ==
  ASSUME NEW S, NEW s \in Seq(S), NEW k \in 0..Len(s),
         SubSeq(s, k + 1, Len(s)) # << >>
  PROVE  /\ k < Len(s)
         /\ Head(SubSeq(s, k + 1, Len(s))) = s[k + 1]
         /\ Tail(SubSeq(s, k + 1, Len(s))) = SubSeq(s, k + 2, Len(s))
<1>1. k < Len(s)
  BY SubSeqEmpty, SMT
<1>2. k + 1 \in 1..Len(s) /\ Len(s) \in 1..Len(s) /\ k + 1 <= Len(s)
  BY <1>1
<1> QED  BY <1>1, <1>2, HeadTailOfSubSeq

-----------------------------------------------------------------------------
(* Each conjunct of the invariant is preserved; the places a thread can go  *)
(* to are expanded once, here.                                              *)

LEMMA InitInv == Init => MailboxInv
<1> SUFFICES ASSUME Init PROVE MailboxInv
  OBVIOUS
<1> USE MailboxAssumption DEF Init
<1>1. TypeOK
  <2>1. /\ pc \in [Threads -> Places]
        /\ msg \in [Threads -> Messages \cup {NoMsg}]
        /\ state \in States
    BY DEF Places, States
  <2>2. tries \in [Threads -> 0..(RetryLockTimes - 1)]
    OBVIOUS
  <2>3. queue \in Seq(Messages) /\ pushed \in Seq(Messages) /\ popped \in 0..Len(pushed)
    OBVIOUS
  <2>4. registered \in BOOLEAN /\ freed \in BOOLEAN
    OBVIOUS
  <2>5. pending \subseteq Messages /\ discarded \subseteq Messages
    OBVIOUS
  <2> QED  BY <2>1, <2>2, <2>3, <2>4, <2>5 DEF TypeOK
<1>2. CarryInv /\ OwnerInv /\ SerialHandling
  BY DEF CarryInv, OwnerInv, SerialHandling, Running, Draining, Destroying
<1>3. FifoOnce
  BY SubSeqEmpty DEF FifoOnce
<1> QED  BY <1>1, <1>2, <1>3 DEF MailboxInv

(* What a thread carries stays typed, and is NoMsg outside process().       *)
LEMMA StepCarry ==
  ASSUME MailboxInv, NEW t \in Threads, Step(t)
  PROVE  CarryInv'
<1> USE MailboxAssumption
        DEF MailboxInv, TypeOK, CarryInv, Goto, Return, Discard,
            Delivering, actorVars, history
<1>1. CASE Fetch(t)  BY <1>1 DEF Fetch
<1>2. CASE GetActor(t)  BY <1>2 DEF GetActor
<1>3. CASE CheckTerminate(t)  BY <1>3 DEF CheckTerminate
<1>4. CASE PutMessage(t)  BY <1>4 DEF PutMessage
<1>5. CASE Push(t)  BY <1>5 DEF Push
<1>6. CASE TryToEntry(t)  BY <1>6 DEF TryToEntry
<1>7. CASE PopMessage(t)
  <2>1. queue # << >> => Head(queue) \in Messages
    OBVIOUS
  <2> QED  BY <1>7, <2>1 DEF PopMessage
<1>8. CASE HandleMessage(t)  BY <1>8 DEF HandleMessage
<1>9. CASE OnDestroy(t)  BY <1>9 DEF OnDestroy
<1>10. CASE ClearQueue(t)  BY <1>10 DEF ClearQueue
<1>11. CASE Unregister(t)  BY <1>11 DEF Unregister
<1>12. CASE DeleteThis(t)  BY <1>12 DEF DeleteThis
<1>13. CASE Leave(t)  BY <1>13 DEF Leave
<1>14. CASE TouchFreed(t)  BY <1>14 DEF TouchFreed
<1> QED  BY <1>1, <1>2, <1>3, <1>4, <1>5, <1>6, <1>7, <1>8, <1>9, <1>10,
            <1>11, <1>12, <1>13, <1>14 DEF Step

(* The state and the places of the threads agree, and one thread at most    *)
(* runs the actor: the only way in is the CAS from IDLE.                    *)
LEMMA StepOwner ==
  ASSUME MailboxInv, NEW t \in Threads, Step(t)
  PROVE  (OwnerInv /\ SerialHandling)'
<1> USE DEF MailboxInv, TypeOK, OwnerInv, SerialHandling, Goto, Return, Discard,
            Delivering, Running, Draining, Destroying, actorVars, history
<1>1. CASE Fetch(t)  BY <1>1 DEF Fetch
<1>2. CASE GetActor(t)  BY <1>2 DEF GetActor
<1>3. CASE CheckTerminate(t)  BY <1>3 DEF CheckTerminate
<1>4. CASE PutMessage(t)  BY <1>4 DEF PutMessage
<1>5. CASE Push(t)  BY <1>5 DEF Push
<1>6. CASE TryToEntry(t)  BY <1>6 DEF TryToEntry
<1>7. CASE PopMessage(t)  BY <1>7 DEF PopMessage
<1>8. CASE HandleMessage(t)  BY <1>8 DEF HandleMessage
<1>9. CASE OnDestroy(t)  BY <1>9 DEF OnDestroy
<1>10. CASE ClearQueue(t)  BY <1>10 DEF ClearQueue
<1>11. CASE Unregister(t)  BY <1>11 DEF Unregister
<1>12. CASE DeleteThis(t)  BY <1>12 DEF DeleteThis
<1>13. CASE Leave(t)  BY <1>13 DEF Leave
<1>14. CASE TouchFreed(t)  BY <1>14 DEF TouchFreed
<1> QED  BY <1>1, <1>2, <1>3, <1>4, <1>5, <1>6, <1>7, <1>8, <1>9, <1>10,
            <1>11, <1>12, <1>13, <1>14 DEF Step

(* The queue stays the rest of what was pushed until onDestroy clears it.   *)
LEMMA StepFifo ==
  ASSUME MailboxInv, NEW t \in Threads, Step(t)
  PROVE  FifoOnce'
<1> USE DEF MailboxInv, TypeOK, FifoOnce
<1>1. CASE Push(t)
  <2>1. msg[t] \in Messages
    BY <1>1 DEF CarryInv, Push
  <2>2. state' = state /\ popped' = popped
        /\ pushed' = Append(pushed, msg[t]) /\ queue' = Append(queue, msg[t])
    BY <1>1 DEF Push
  <2> QED  BY <2>1, <2>2, RestOfAppend
<1>2. CASE PopMessage(t)
  <2>1. CASE state = "ACTIVE" /\ queue # << >>
    <3>1. /\ popped' = popped + 1 /\ queue' = Tail(queue)
          /\ pushed' = pushed /\ state' = state
      BY <1>2, <2>1 DEF PopMessage
    <3>2. queue = SubSeq(pushed, popped + 1, Len(pushed))
      BY <2>1
    <3>3. queue' = SubSeq(pushed, popped + 2, Len(pushed))
      BY <2>1, <3>1, <3>2, HeadTailOfRest
    <3>4. popped' + 1 = popped + 2
      BY <3>1
    <3> QED  BY <3>1, <3>3, <3>4
  <2>2. CASE ~(state = "ACTIVE" /\ queue # << >>)
    BY <1>2, <2>2 DEF PopMessage
  <2> QED  BY <2>1, <2>2
<1>3. CASE OnDestroy(t) \/ ClearQueue(t) \/ DeleteThis(t)
  BY <1>3 DEF OwnerInv, Destroying, OnDestroy, ClearQueue, DeleteThis
<1>4. CASE TryToEntry(t) \/ Leave(t)
  BY <1>4 DEF OwnerInv, Draining, TryToEntry, Leave, history
<1>5. CASE \/ Fetch(t) \/ GetActor(t) \/ CheckTerminate(t) \/ PutMessage(t)
           \/ HandleMessage(t) \/ Unregister(t) \/ TouchFreed(t)
  BY <1>5 DEF Fetch, GetActor, CheckTerminate, PutMessage, HandleMessage,
              Unregister, TouchFreed, actorVars, history
<1> QED  BY <1>1, <1>2, <1>3, <1>4, <1>5 DEF Step

(* Types: popping needs the order of the queue, discarding needs to know    *)
(* that the thread carries a message.                                       *)
LEMMA StepType ==
  ASSUME MailboxInv, NEW t \in Threads, Step(t)
  PROVE  TypeOK'
<1> USE MailboxAssumption
        DEF MailboxInv, TypeOK, CarryInv, Goto, Return, Discard, Places,
            Delivering, Running, Draining, Destroying, States, actorVars, history
<1>1. CASE Fetch(t)  BY <1>1 DEF Fetch
<1>2. CASE GetActor(t)  BY <1>2 DEF GetActor
<1>3. CASE CheckTerminate(t)  BY <1>3 DEF CheckTerminate
<1>4. CASE PutMessage(t)  BY <1>4 DEF PutMessage
<1>5. CASE Push(t)  BY <1>5 DEF Push
<1>6. CASE TryToEntry(t)
  <2>1. pc' \in [Threads -> Places] /\ state' \in States
    BY <1>6 DEF TryToEntry
  <2>2. tries' \in [Threads -> 0..(RetryLockTimes - 1)]
    <3>1. tries[t] \in Nat
      OBVIOUS
    <3>2. \/ tries' = tries
          \/ tries' = [tries EXCEPT ![t] = 0]
          \/ /\ tries[t] + 1 < RetryLockTimes
             /\ tries' = [tries EXCEPT ![t] = tries[t] + 1]
      BY <1>6 DEF TryToEntry
    <3> QED  BY <3>1, <3>2
  <2>3. UNCHANGED <<pending, msg, queue, registered, freed, history>>
    BY <1>6 DEF TryToEntry
  <2> QED  BY <2>1, <2>2, <2>3
<1>7. CASE PopMessage(t)
  <2>1. CASE state = "ACTIVE" /\ queue # << >>
    <3>1. popped < Len(pushed)
      BY <2>1, HeadTailOfRest DEF FifoOnce
    <3>2. Head(queue) \in Messages /\ Tail(queue) \in Seq(Messages)
      BY <2>1
    <3>3. popped' \in 0..Len(pushed') /\ pushed' \in Seq(Messages)
      BY <1>7, <2>1, <3>1 DEF PopMessage
    <3>4. queue' \in Seq(Messages) /\ msg' \in [Threads -> Messages \cup {NoMsg}]
      <4>1. queue' = Tail(queue) /\ msg' = [msg EXCEPT ![t] = Head(queue)]
        BY <1>7, <2>1 DEF PopMessage
      <4> QED  BY <3>2, <4>1
    <3>5. pc' \in [Threads -> Places]
      BY <1>7, <2>1 DEF PopMessage
    <3>6. UNCHANGED <<pending, tries, state, registered, freed, discarded>>
      BY <1>7 DEF PopMessage
    <3> QED  BY <3>3, <3>4, <3>5, <3>6
  <2>2. CASE ~(state = "ACTIVE" /\ queue # << >>)
    BY <1>7, <2>2 DEF PopMessage
  <2> QED  BY <2>1, <2>2
<1>8. CASE HandleMessage(t)  BY <1>8 DEF HandleMessage
<1>9. CASE OnDestroy(t)  BY <1>9 DEF OnDestroy
<1>10. CASE ClearQueue(t)  BY <1>10 DEF ClearQueue, Range
<1>11. CASE Unregister(t)  BY <1>11 DEF Unregister
<1>12. CASE DeleteThis(t)  BY <1>12 DEF DeleteThis, Range
<1>13. CASE Leave(t)  BY <1>13 DEF Leave
<1>14. CASE TouchFreed(t)  BY <1>14 DEF TouchFreed
<1> QED  BY <1>1, <1>2, <1>3, <1>4, <1>5, <1>6, <1>7, <1>8, <1>9, <1>10,
            <1>11, <1>12, <1>13, <1>14 DEF Step

-----------------------------------------------------------------------------
(* The inductive invariant holds of process(), onDestroy() and the delivery *)
(* of messages, whatever the number of threads.                             *)
THEOREM Invariance == Spec => []MailboxInv
<1>1. Init => MailboxInv
  BY InitInv
<1>2. MailboxInv /\ [Next]_vars => MailboxInv'
  <2> SUFFICES ASSUME MailboxInv, [Next]_vars PROVE MailboxInv'
    OBVIOUS
  <2>1. CASE Next
    <3>1. PICK t \in Threads : Step(t)
      BY <2>1 DEF Next
    <3>2. TypeOK' /\ CarryInv' /\ (OwnerInv /\ SerialHandling)' /\ FifoOnce'
      BY <3>1, StepType, StepCarry, StepOwner, StepFifo
    <3> QED  BY <3>2 DEF MailboxInv
  <2>2. CASE UNCHANGED vars
    BY <2>2 DEF MailboxInv, TypeOK, CarryInv, OwnerInv, SerialHandling,
                FifoOnce, Draining, Destroying, Running, vars
  <2> QED  BY <2>1, <2>2
<1> QED  BY <1>1, <1>2, PTL DEF Spec

(* Type correctness of the actor's state and of the threads' program points.*)
THEOREM TypeCorrect == Spec => []TypeOK
<1>1. MailboxInv => TypeOK
  BY DEF MailboxInv
<1> QED  BY <1>1, Invariance, PTL

(* At most one thread is between tryToEntry and leave() or the end of       *)
(* onDestroy: handlers of a stateful actor never overlap.                   *)
THEOREM HandlersNeverOverlap == Spec => []SerialHandling
<1>1. MailboxInv => SerialHandling
  BY DEF MailboxInv
<1> QED  BY <1>1, Invariance, PTL

(* Until it is destroyed, the actor handles every pushed message once and   *)
(* in the order of the pushes: the queue is what is left of them.           *)
THEOREM QueueIsRestOfPushed == Spec => []FifoOnce
<1>1. MailboxInv => FifoOnce
  BY DEF MailboxInv
<1> QED  BY <1>1, Invariance, PTL

-----------------------------------------------------------------------------
(* Where a message can be: NothingVanishes, message by message.             *)
Somewhere(m) ==
  \/ m \in pending
  \/ \E t \in Threads : msg[t] = m
  \/ m \in Queued
  \/ m \in Begun
  \/ m \in discarded

(* The exits that drop a message are open only after a destroy has begun,   *)
(* and a handler runs on a message that was popped.                         *)
DroppingFollowsDestroy ==
  /\ discarded # {} \/ state = "TERMINATE" \/ ~registered => Begun \cap Destroys # {}
  /\ \A t \in Threads : pc[t] = "handle" => msg[t] \in Begun

KeepInv ==
  /\ MailboxInv
  /\ \A m \in Messages : Somewhere(m)
  /\ DroppingFollowsDestroy

LEMMA KeepIsNothingVanishes == KeepInv => NothingVanishes
<1> SUFFICES ASSUME KeepInv PROVE NothingVanishes
  OBVIOUS
<1> USE MailboxAssumption DEF KeepInv, MailboxInv, TypeOK
<1>1. Carried \subseteq Messages
  BY DEF Carried
<1>2. Queued \subseteq Messages /\ Begun \subseteq Messages
  BY DEF Queued, Begun, Range
<1>3. \A m \in Messages : m \in pending \cup Carried \cup Queued \cup Begun \cup discarded
  BY DEF Somewhere, Carried
<1> QED  BY <1>1, <1>2, <1>3 DEF NothingVanishes, DroppingFollowsDestroy

(* Each step: what it takes from where it was is pushed, begun or dropped.  *)
LEMMA StepKeeps ==
  ASSUME KeepInv, MailboxInv', NEW t \in Threads, Step(t)
  PROVE  KeepInv'
<1> USE MailboxAssumption DEF KeepInv, MailboxInv, TypeOK
<1>1. CASE Push(t)
  <2>1. /\ queue' = Append(queue, msg[t]) /\ pushed' = Append(pushed, msg[t])
        /\ msg' = [msg EXCEPT ![t] = NoMsg] /\ pc[t] = "push" /\ pc' = [pc EXCEPT ![t] = "enter"]
        /\ UNCHANGED <<pending, state, registered, popped, discarded>>
    BY <1>1 DEF Push, Goto
  <2>2. msg[t] \in Messages
    BY <2>1 DEF CarryInv
  <2>3. Begun' = Begun
    <3>1. \A i \in 1..popped : pushed'[i] = pushed[i]
      BY <2>1, <2>2
    <3> QED  BY <2>1, <3>1 DEF Begun
  <2>4. Queued' = Queued \cup {msg[t]}
    <3>1. /\ DOMAIN queue' = DOMAIN queue \cup {Len(queue) + 1}
          /\ \A i \in DOMAIN queue : queue'[i] = queue[i]
          /\ queue'[Len(queue) + 1] = msg[t]
      BY <2>1, <2>2
    <3>2. \A m : (\E i \in DOMAIN queue' : m = queue'[i])
                   <=> m = msg[t] \/ \E i \in DOMAIN queue : m = queue[i]
      BY <3>1
    <3>3. \A m : /\ m \in Queued <=> \E i \in DOMAIN queue : m = queue[i]
                 /\ m \in Queued' <=> \E i \in DOMAIN queue' : m = queue'[i]
      BY Zenon DEF Queued, Range
    <3> QED  BY <3>2, <3>3, Zenon
  <2>5. \A m \in Messages : Somewhere(m)'
    BY <2>1, <2>3, <2>4 DEF Somewhere
  <2>6. DroppingFollowsDestroy'
    BY <2>1, <2>3 DEF DroppingFollowsDestroy
  <2> QED  BY <2>5, <2>6
<1>2. CASE PopMessage(t)
  <2>1. CASE state = "ACTIVE" /\ queue # << >>
    <3>1. /\ msg' = [msg EXCEPT ![t] = Head(queue)] /\ queue' = Tail(queue)
          /\ popped' = popped + 1 /\ pc[t] = "poll" /\ pc' = [pc EXCEPT ![t] = "handle"]
          /\ UNCHANGED <<pending, state, registered, pushed, discarded>>
      BY <1>2, <2>1 DEF PopMessage, Goto
    <3>2. Head(queue) \in Messages /\ msg'[t] = Head(queue)
      BY <2>1, <3>1
    <3>3. msg[t] \notin Messages
      BY <3>1 DEF CarryInv
    <3>4. Head(queue) = pushed[popped + 1]
      BY <2>1, HeadTailOfRest DEF FifoOnce
    <3>5. Begun' = Begun \cup {Head(queue)}
      <4>1. 1..(popped + 1) = 1..popped \cup {popped + 1}
        OBVIOUS
      <4> QED  BY <3>1, <3>4, <4>1 DEF Begun
    <3>6. \A m \in Queued : m = Head(queue) \/ m \in Queued'
      <4> SUFFICES ASSUME NEW m \in Queued, m # Head(queue)
                   PROVE  m \in Queued'
        OBVIOUS
      <4>1. PICK i \in DOMAIN queue : m = queue[i]
        BY DEF Queued, Range
      <4>2. i - 1 \in DOMAIN Tail(queue) /\ Tail(queue)[i - 1] = queue[i]
        BY <2>1, <4>1
      <4> QED  BY <3>1, <4>1, <4>2 DEF Queued, Range
    <3>7. \A m \in Messages : Somewhere(m)'
      BY <3>1, <3>2, <3>3, <3>5, <3>6 DEF Somewhere
    <3>8. DroppingFollowsDestroy'
      BY <3>1, <3>2, <3>5 DEF DroppingFollowsDestroy
    <3> QED  BY <3>7, <3>8
  <2>2. CASE ~(state = "ACTIVE" /\ queue # << >>)
    <3>1. /\ UNCHANGED <<pending, msg, queue, state, registered, pushed, popped, discarded>>
          /\ \A u \in Threads : pc'[u] = "handle" => pc[u] = "handle"
      BY <1>2, <2>2 DEF PopMessage, Goto
    <3>2. Begun' = Begun /\ Queued' = Queued
      BY <3>1 DEF Begun, Queued
    <3>3. \A m \in Messages : Somewhere(m)'
      BY <3>1, <3>2 DEF Somewhere
    <3>4. DroppingFollowsDestroy'
      BY <3>1, <3>2 DEF DroppingFollowsDestroy
    <3> QED  BY <3>3, <3>4
  <2> QED  BY <2>1, <2>2
<1>3. CASE ~Push(t) /\ ~PopMessage(t)
  <2>1. UNCHANGED <<pushed, popped>> /\ Begun' = Begun
    BY <1>3 DEF Step, Fetch, GetActor, CheckTerminate, PutMessage, TryToEntry, HandleMessage,
                OnDestroy, ClearQueue, Unregister, DeleteThis, Leave, TouchFreed, Return, Discard,
                actorVars, history, Begun
  <2>2. /\ discarded \subseteq discarded'
        /\ \A m \in Queued : m \in Queued' \cup discarded'
        /\ \A m \in pending : m \in pending' \/ m = msg'[t]
        /\ \A u \in Threads \ {t} : msg'[u] = msg[u]
        /\ msg[t] \in Messages => msg'[t] = msg[t] \/ msg[t] \in discarded' \cup Begun
    <3> USE DEF Queued, Goto, Return, Discard, Delivering, actorVars, history
    <3>1. CASE Fetch(t)  BY <3>1 DEF Fetch, CarryInv
    <3>2. CASE GetActor(t)  BY <3>2 DEF GetActor
    <3>3. CASE CheckTerminate(t)  BY <3>3 DEF CheckTerminate
    <3>4. CASE PutMessage(t)  BY <3>4 DEF PutMessage
    <3>5. CASE TryToEntry(t)  BY <3>5 DEF TryToEntry
    <3>6. CASE HandleMessage(t)  BY <3>6 DEF HandleMessage, DroppingFollowsDestroy
    <3>7. CASE OnDestroy(t)  BY <3>7 DEF OnDestroy, DroppingFollowsDestroy
    <3>8. CASE ClearQueue(t)  BY <3>8 DEF ClearQueue
    <3>9. CASE Unregister(t)  BY <3>9 DEF Unregister
    <3>10. CASE DeleteThis(t)  BY <3>10 DEF DeleteThis
    <3>11. CASE Leave(t)  BY <3>11 DEF Leave
    <3>12. CASE TouchFreed(t)  BY <3>12 DEF TouchFreed
    <3> QED  BY <1>3, <3>1, <3>2, <3>3, <3>4, <3>5, <3>6, <3>7, <3>8, <3>9, <3>10, <3>11,
                <3>12 DEF Step
  <2>3. \A m \in Messages : Somewhere(m)'
    BY <2>1, <2>2 DEF Somewhere
  <2>4. /\ \A u \in Threads : pc'[u] = "handle" => pc[u] = "handle" /\ msg'[u] = msg[u]
        /\ \/ discarded' = discarded
           \/ Begun \cap Destroys # {}
        /\ state' = "TERMINATE" => Begun \cap Destroys # {}
        /\ ~registered' => Begun \cap Destroys # {}
    <3> USE DEF DroppingFollowsDestroy, OwnerInv, Goto, Return, Discard, Delivering, Destroying,
                actorVars, history
    <3>1. CASE Fetch(t)  BY <3>1 DEF Fetch
    <3>2. CASE GetActor(t)  BY <3>2 DEF GetActor
    <3>3. CASE CheckTerminate(t)  BY <3>3 DEF CheckTerminate
    <3>4. CASE PutMessage(t)  BY <3>4 DEF PutMessage
    <3>5. CASE TryToEntry(t)  BY <3>5 DEF TryToEntry
    <3>6. CASE HandleMessage(t)  BY <3>6 DEF HandleMessage
    <3>7. CASE OnDestroy(t)  BY <3>7 DEF OnDestroy
    <3>8. CASE ClearQueue(t)  BY <3>8 DEF ClearQueue
    <3>9. CASE Unregister(t)  BY <3>9 DEF Unregister
    <3>10. CASE DeleteThis(t)  BY <3>10 DEF DeleteThis
    <3>11. CASE Leave(t)  BY <3>11 DEF Leave
    <3>12. CASE TouchFreed(t)  BY <3>12 DEF TouchFreed
    <3> QED  BY <1>3, <3>1, <3>2, <3>3, <3>4, <3>5, <3>6, <3>7, <3>8, <3>9, <3>10, <3>11,
                <3>12 DEF Step
  <2>5. DroppingFollowsDestroy'
    BY <2>1, <2>4 DEF DroppingFollowsDestroy
  <2> QED  BY <2>3, <2>5
<1> QED  BY <1>1, <1>2, <1>3

(* Every message is on its way, carried by a thread, queued, begun or       *)
(* dropped, and a session actor drops messages only when an OP_DESTROY has  *)
(* been popped: a thread that gives up in tryToEntry loses nothing.         *)
THEOREM NoMessageVanishes == Spec => []NothingVanishes
<1>1. Init /\ MailboxInv => KeepInv
  BY DEF Init, KeepInv, Somewhere, DroppingFollowsDestroy
<1>2. KeepInv /\ MailboxInv' /\ [Next]_vars => KeepInv'
  <2> SUFFICES ASSUME KeepInv, MailboxInv', [Next]_vars
               PROVE  KeepInv'
    OBVIOUS
  <2>1. CASE Next
    BY <2>1, StepKeeps DEF Next
  <2>2. CASE UNCHANGED vars
    BY <2>2 DEF KeepInv, Somewhere, DroppingFollowsDestroy, Queued, Begun, vars
  <2> QED  BY <2>1, <2>2
<1>3. KeepInv => NothingVanishes
  BY KeepIsNothingVanishes
<1> QED  BY <1>1, <1>2, <1>3, Invariance, PTL DEF Spec

-----------------------------------------------------------------------------
(* The refinement.  Since one thread at most is in a handler, the CHOOSE of *)
(* Busy is determined.                                                      *)

LEMMA BusyIsHandled ==
  ASSUME SerialHandling, NEW t \in Threads, pc[t] = "handle"
  PROVE  Busy = msg[t]
<1>1. \A u \in Threads : pc[u] = "handle" => u = t
  BY DEF SerialHandling, Running, Draining
<1>2. (CHOOSE u \in Threads : pc[u] = "handle") = t
  BY <1>1
<1> QED  BY <1>2 DEF Busy

(* A thread that is not in a handler before or after its step leaves the    *)
(* handler of any other thread alone.                                       *)
LEMMA BusyStays ==
  ASSUME SerialHandling, SerialHandling', NEW t \in Threads,
         pc[t] # "handle", pc'[t] # "handle",
         \A u \in Threads \ {t} : pc'[u] = pc[u] /\ msg'[u] = msg[u]
  PROVE  Busy' = Busy
<1>1. CASE \E u \in Threads : pc[u] = "handle"
  <2>1. PICK u \in Threads : pc[u] = "handle"
    BY <1>1
  <2>2. u # t /\ pc'[u] = "handle" /\ msg'[u] = msg[u]
    BY <2>1
  <2>3. Busy = msg[u]
    BY <2>1, BusyIsHandled
  <2>4. \A v \in Threads : pc'[v] = "handle" => v = u
    BY <2>2 DEF SerialHandling, Running, Draining
  <2>5. (CHOOSE v \in Threads : pc'[v] = "handle") = u
    BY <2>2, <2>4
  <2>6. Busy' = msg'[u]
    BY <2>2, <2>5 DEF Busy
  <2> QED  BY <2>2, <2>3, <2>6
<1>2. CASE ~ \E u \in Threads : pc[u] = "handle"
  <2>1. ~ \E u \in Threads : pc'[u] = "handle"
    BY <1>2
  <2> QED  BY <1>2, <2>1 DEF Busy
<1> QED  BY <1>1, <1>2

(* Each step of a thread is a step of SerialActor or a stutter.             *)
LEMMA StepSimulation ==
  ASSUME MailboxInv, MailboxInv', NEW t \in Threads, Step(t)
  PROVE  [Serial!Next]_(Serial!vars)
<1> USE DEF MailboxInv
<1> DEFINE Quiet == pushed' = pushed /\ popped' = popped /\ Busy' = Busy
                    /\ (state' = "TERMINATE" <=> state = "TERMINATE")
<1>1. Quiet => UNCHANGED Serial!vars
  BY DEF Serial!vars
<1>2. ASSUME \/ Fetch(t) \/ GetActor(t) \/ CheckTerminate(t) \/ PutMessage(t)
             \/ TryToEntry(t) \/ ClearQueue(t) \/ Unregister(t)
             \/ DeleteThis(t) \/ Leave(t) \/ TouchFreed(t)
      PROVE  Quiet
  <2>1. /\ pc[t] # "handle" /\ pc'[t] # "handle"
        /\ \A u \in Threads \ {t} : pc'[u] = pc[u] /\ msg'[u] = msg[u]
    BY <1>2 DEF TypeOK, Fetch, GetActor, CheckTerminate, PutMessage, TryToEntry,
                ClearQueue, Unregister, DeleteThis, Leave, TouchFreed,
                Goto, Return, Discard, Delivering
  <2>2. Busy' = Busy
    BY <2>1, BusyStays
  <2>3. pushed' = pushed /\ popped' = popped
    BY <1>2 DEF Fetch, GetActor, CheckTerminate, PutMessage, TryToEntry,
                ClearQueue, Unregister, DeleteThis, Leave, TouchFreed, history
  <2>4. state' = "TERMINATE" <=> state = "TERMINATE"
    BY <1>2 DEF Fetch, GetActor, CheckTerminate, PutMessage, TryToEntry,
                ClearQueue, Unregister, DeleteThis, Leave, TouchFreed, actorVars
  <2> QED  BY <2>2, <2>3, <2>4
<1>3. CASE Push(t)
  <2>1. msg[t] \in Messages /\ pushed' = Append(pushed, msg[t])
        /\ popped' = popped /\ state' = state
    BY <1>3 DEF Push, CarryInv
  <2>2. /\ pc[t] # "handle" /\ pc'[t] # "handle"
        /\ \A u \in Threads \ {t} : pc'[u] = pc[u] /\ msg'[u] = msg[u]
    BY <1>3 DEF TypeOK, Push, Goto
  <2>3. Busy' = Busy
    BY <2>2, BusyStays
  <2>4. Serial!Accept(msg[t])
    BY <2>1, <2>3 DEF Serial!Accept
  <2> QED  BY <2>1, <2>4 DEF Serial!Next
<1>4. CASE PopMessage(t)
  <2>1. CASE state = "ACTIVE" /\ queue # << >>
    <3>1. /\ msg' = [msg EXCEPT ![t] = Head(queue)] /\ popped' = popped + 1
          /\ pushed' = pushed /\ state' = state /\ pc'[t] = "handle"
      BY <1>4, <2>1 DEF PopMessage, Goto, TypeOK
    <3>2. queue = SubSeq(pushed, popped + 1, Len(pushed))
      BY <2>1 DEF FifoOnce
    <3>3. popped < Len(pushed) /\ Head(queue) = pushed[popped + 1]
      BY <2>1, <3>2, HeadTailOfRest DEF TypeOK
    <3>4. Busy = NoMsg
      BY <1>4 DEF PopMessage, SerialHandling, Running, Draining, Busy
    <3>5. msg'[t] = pushed[popped + 1]
      BY <3>1, <3>3 DEF TypeOK
    <3>6. Busy' = msg'[t]
      <4>1. \A u \in Threads : pc'[u] = "handle" => u = t
        BY <3>1 DEF SerialHandling, Running, Draining
      <4>2. (CHOOSE u \in Threads : pc'[u] = "handle") = t
        BY <3>1, <4>1
      <4> QED  BY <3>1, <4>2 DEF Busy
    <3>7. Serial!Begin
      BY <2>1, <3>1, <3>3, <3>4, <3>5, <3>6 DEF Serial!Begin
    <3> QED  BY <3>7 DEF Serial!Next
  <2>2. CASE ~(state = "ACTIVE" /\ queue # << >>)
    <3>1. /\ pc[t] # "handle" /\ pc'[t] # "handle"
          /\ \A u \in Threads \ {t} : pc'[u] = pc[u] /\ msg'[u] = msg[u]
      BY <1>4, <2>2 DEF TypeOK, PopMessage, Goto
    <3>2. Quiet
      BY <1>4, <2>2, <3>1, BusyStays DEF PopMessage
    <3> QED  BY <1>1, <3>2
  <2> QED  BY <2>1, <2>2
<1>5. CASE HandleMessage(t) \/ OnDestroy(t)
  <2>1. Busy = msg[t] /\ msg[t] \in Messages
    BY <1>5, BusyIsHandled DEF HandleMessage, OnDestroy, CarryInv
  <2>2. \A u \in Threads : pc'[u] # "handle"
    BY <1>5 DEF HandleMessage, OnDestroy, Goto, TypeOK, SerialHandling, Running, Draining
  <2>3. Busy' = NoMsg
    BY <2>2 DEF Busy
  <2>4. pushed' = pushed /\ popped' = popped
    BY <1>5 DEF HandleMessage, OnDestroy, history
  <2>5. CASE HandleMessage(t)
    BY <2>1, <2>3, <2>4, <2>5 DEF HandleMessage, actorVars, Serial!End, Serial!Next
  <2>6. CASE OnDestroy(t)
    BY <2>1, <2>3, <2>4, <2>6 DEF OnDestroy, Serial!Destroy, Serial!Next
  <2> QED  BY <1>5, <2>5, <2>6
<1> QED  BY <1>1, <1>2, <1>3, <1>4, <1>5 DEF Step

(* The mailbox keeps the promise of SerialActor: what looks to its senders  *)
(* like one handler at a time, in the order of acceptance, each message     *)
(* once, and none after the destroy.                                        *)
THEOREM Refinement == Spec => ImplementsSerialActor
<1>1. Init => Serial!Init
  BY DEF Init, Serial!Init, Busy
<1>2. MailboxInv /\ MailboxInv' /\ [Next]_vars => [Serial!Next]_(Serial!vars)
  <2> SUFFICES ASSUME MailboxInv, MailboxInv', [Next]_vars
               PROVE  [Serial!Next]_(Serial!vars)
    OBVIOUS
  <2>1. CASE Next
    BY <2>1, StepSimulation DEF Next
  <2>2. CASE UNCHANGED vars
    BY <2>2 DEF vars, Serial!vars, Busy
  <2> QED  BY <2>1, <2>2
<1> QED  BY <1>1, <1>2, Invariance, PTL DEF Spec, ImplementsSerialActor, Serial!Spec
=============================================================================
