--------------------------- MODULE InnerTcpProofs ---------------------------
(***************************************************************************)
(* InnerTcp for any number of threads and messages, any batch size and any  *)
(* RETRY_LOCK_TIMES: one batch at a time is handed to async_write, although *)
(* terminate() stores TERMINATED over WRITING and a handler stores READY    *)
(* over TERMINATED.                                                         *)
(***************************************************************************)
EXTENDS InnerTcp, DataLemmas, TLAPS

(* No connection has been made and no thread has begun.                     *)
LEMMA InitConnection == Init => ConnectionInv
<1> SUFFICES ASSUME Init PROVE ConnectionInv
  OBVIOUS
<1> USE InnerTcpAssumption DEF Init
<1>1. TypeOK
  <2>1. open \in BOOLEAN /\ installed \in BOOLEAN
    BY Zenon
  <2>2. broken \in BOOLEAN /\ peer \in BOOLEAN
    OBVIOUS
  <2>3. /\ role \in {"connect", "accept"} /\ state \in States
        /\ retry \in 0..ConnectRetries /\ popCount \in 0..PopRetries
        /\ pending \subseteq {"connect", "read"}
    BY DEF States, ConnectRetries, PopRetries
  <2>4. /\ pushed \in 0..MaxMessages /\ queue \in Seq(Messages) /\ wire \in Seq(Messages)
        /\ writing \subseteq Seq(Messages) /\ lost \subseteq Messages
    OBVIOUS
  <2>5. /\ pc \in [Threads -> Labels] /\ tries \in [Threads -> Nat]
        /\ after \in [Threads -> {"idle", "written"}]
        /\ batch \in [Threads -> Seq(Messages)]
        /\ \A t \in Threads : Len(batch[t]) <= BatchSize
    BY DEF Labels
  <2> QED  BY <2>1, <2>2, <2>3, <2>4, <2>5 DEF TypeOK
<1>2. OneWriter /\ WritingIsHeld /\ HeldIsWriting /\ MadeFirst
  BY DEF OneWriter, WritingIsHeld, HeldIsWriting, MadeFirst, Holds, Terminating
<1> QED  BY <1>1, <1>2 DEF ConnectionInv

(* Every step keeps the types: what is queued, popped, written and lost are *)
(* messages, and a batch is never larger than BATCH_TCP_MESSAGES.           *)
LEMMA StepType ==
  ASSUME TypeOK, Next
  PROVE  TypeOK'
<1> SUFFICES ASSUME NEW t \in Threads, NextOf(t)
             PROVE  TypeOK'
  BY DEF Next
<1> USE InnerTcpAssumption
        DEF TypeOK, States, Labels, Terminating, Messages, PopRetries, ConnectRetries,
            Goto, RealSend, CallTerminate, Return, connVars
<1>1. CASE Push(t)  BY <1>1 DEF Push
<1>2. CASE GetConnection(t)  BY <1>2 DEF GetConnection
<1>3. CASE LoadState(t)  BY <1>3 DEF LoadState
<1>4. CASE TryWriting(t)
  <2>1. PICK n \in Nat : tries' = [tries EXCEPT ![t] = n]
    <3>1. 0 \in Nat /\ tries[t] + 1 \in Nat
      OBVIOUS
    <3>2. tries' = [tries EXCEPT ![t] = 0] \/ tries' = [tries EXCEPT ![t] = tries[t] + 1]
      BY <1>4 DEF TryWriting
    <3> QED  BY <3>1, <3>2, Zenon
  <2>2. tries' \in [Threads -> Nat]
    BY <2>1, Zenon
  <2>3. state' \in States /\ pc' \in [Threads -> Labels]
    BY <1>4 DEF TryWriting
  <2> QED  BY <1>4, <2>2, <2>3 DEF TryWriting
<1>5. CASE CheckOpen(t)
  <2>1. PICK label \in Labels : pc' = [pc EXCEPT ![t] = label]
    <3>1. pc' = [pc EXCEPT ![t] = "pop"] \/ pc' = [pc EXCEPT ![t] = "terminate"]
      BY <1>5 DEF CheckOpen
    <3> QED  BY <3>1, Zenon
  <2>2. pc' \in [Threads -> Labels]
    BY <2>1, Zenon
  <2>3. after' = after \/ after' = [after EXCEPT ![t] = "idle"]
    BY <1>5 DEF CheckOpen
  <2>4. after' \in [Threads -> {"idle", "written"}]
    BY <2>3
  <2> QED  BY <1>5, <2>2, <2>4 DEF CheckOpen
<1>6. CASE Pop(t)
  <2>1. CASE peer /\ queue # <<>> /\ Len(batch[t]) < BatchSize
    <3>1. Head(queue) \in Messages /\ Tail(queue) \in Seq(Messages)
      BY <2>1
    <3>2. /\ Append(batch[t], Head(queue)) \in Seq(Messages)
          /\ Len(Append(batch[t], Head(queue))) <= BatchSize
      BY <2>1, <3>1
    <3> QED  BY <1>6, <2>1, <3>1, <3>2 DEF Pop
  <2>2. CASE ~(peer /\ queue # <<>> /\ Len(batch[t]) < BatchSize)
    BY <1>6, <2>2 DEF Pop, Got
  <2> QED  BY <2>1, <2>2
<1>7. CASE NoMessage(t)  BY <1>7 DEF NoMessage
<1>8. CASE CountRead(t)  BY <1>8 DEF CountRead
<1>9. CASE CountWrite(t)
  <2>1. popCount' \in 0..PopRetries /\ tries' \in [Threads -> Nat]
    BY <1>9 DEF CountWrite
  <2>2. pc' \in [Threads -> Labels]
    BY <1>9 DEF CountWrite
  <2> QED  BY <1>9, <2>1, <2>2 DEF CountWrite
<1>10. CASE StartWrite(t)
  <2>1. batch[t] \in Seq(Messages) /\ ToSet(batch[t]) \subseteq Messages
    BY DEF ToSet
  <2>2. batch' \in [Threads -> Seq(Messages)] /\ \A u \in Threads : Len(batch'[u]) <= BatchSize
    <3>1. batch' = [batch EXCEPT ![t] = << >>]
      BY <1>10 DEF StartWrite
    <3>2. << >> \in Seq(Messages) /\ Len(<< >>) <= BatchSize
      OBVIOUS
    <3>3. batch' \in [Threads -> Seq(Messages)]
      BY <3>1, <3>2, Zenon
    <3>4. \A u \in Threads : batch'[u] = << >> \/ batch'[u] = batch[u]
      BY <3>1, Zenon
    <3> QED  BY <3>2, <3>3, <3>4, Zenon
  <2>3. writing' \subseteq Seq(Messages) /\ lost' \subseteq Messages
    BY <1>10, <2>1 DEF StartWrite
  <2>4. pc' \in [Threads -> Labels] /\ after' \in [Threads -> {"idle", "written"}]
    <3>1. /\ pc' = [pc EXCEPT ![t] = "idle"] \/ pc' = [pc EXCEPT ![t] = "terminate"]
          /\ after' = after \/ after' = [after EXCEPT ![t] = "idle"]
      BY <1>10 DEF StartWrite
    <3> QED  BY <3>1
  <2> QED  BY <1>10, <2>2, <2>3, <2>4 DEF StartWrite
<1>11. CASE Written(t)  BY <1>11 DEF Written
<1>12. CASE Terminate(t)  BY <1>12 DEF Terminate
<1>13. CASE MarkTerminated(t)  BY <1>13 DEF MarkTerminated
<1>14. CASE Close(t)  BY <1>14 DEF Close
<1>15. CASE Reset(t)  BY <1>15 DEF Reset
<1>16. CASE WriteDone(t)
  <2>1. PICK msgs \in writing :
          /\ writing' = writing \ {msgs}
          /\ wire' = wire \o msgs \/ wire' = wire
          /\ lost' = lost \cup ToSet(msgs) \/ lost' = lost
    BY <1>16 DEF WriteDone
  <2>2. msgs \in Seq(Messages) /\ ToSet(msgs) \subseteq Messages /\ wire \o msgs \in Seq(Messages)
    BY <2>1 DEF ToSet
  <2>3. writing' \subseteq Seq(Messages) /\ wire' \in Seq(Messages) /\ lost' \subseteq Messages
    BY <2>1, <2>2
  <2>4. /\ pc' \in [Threads -> Labels] /\ after' \in [Threads -> {"idle", "written"}]
        /\ broken' \in BOOLEAN
    BY <1>16 DEF WriteDone
  <2> QED  BY <1>16, <2>3, <2>4 DEF WriteDone
<1>17. CASE Connect(t)  BY <1>17 DEF Connect
<1>18. CASE HandleConnect(t)
  <2>1. retry' \in 0..ConnectRetries
    BY <1>18 DEF HandleConnect
  <2>2. /\ pc' \in [Threads -> Labels] /\ after' \in [Threads -> {"idle", "written"}]
        /\ pending' \subseteq {"connect", "read"} /\ state' \in States
    BY <1>18 DEF HandleConnect
  <2> QED  BY <1>18, <2>1, <2>2 DEF HandleConnect
<1>19. CASE Accept(t)  BY <1>19 DEF Accept
<1>20. CASE ReadFailed(t)  BY <1>20 DEF ReadFailed
<1> QED  BY <1>1, <1>2, <1>3, <1>4, <1>5, <1>6, <1>7, <1>8, <1>9, <1>10,
            <1>11, <1>12, <1>13, <1>14, <1>15, <1>16, <1>17, <1>18, <1>19, <1>20 DEF NextOf, Step

(* Every step hands the lock over or gives it back.                         *)
LEMMA StepLock ==
  ASSUME ConnectionInv, Next
  PROVE  (OneWriter /\ HeldIsWriting /\ MadeFirst)'
<1> SUFFICES ASSUME NEW t \in Threads, NextOf(t)
             PROVE  (OneWriter /\ HeldIsWriting /\ MadeFirst)'
  BY DEF Next
<1> USE DEF ConnectionInv, TypeOK, OneWriter, HeldIsWriting, MadeFirst, Holds, Terminating,
            Goto, RealSend, CallTerminate, Return, connVars
<1>1. CASE Push(t)  BY <1>1 DEF Push
<1>2. CASE GetConnection(t)  BY <1>2 DEF GetConnection
<1>3. CASE LoadState(t)  BY <1>3 DEF LoadState
<1>4. CASE TryWriting(t)
  <2>1. /\ UNCHANGED <<after, pending, writing>> /\ pc[t] = "tryWriting"
        /\ \A u \in Threads : u # t => pc'[u] = pc[u]
        /\ \/ state = "READY" /\ state' = "WRITING" /\ pc'[t] = "checkOpen"
           \/ state' = state /\ pc'[t] \in {"tryWriting", "idle"}
    BY <1>4 DEF TryWriting
  <2>2. CASE state = "READY" /\ state' = "WRITING" /\ pc'[t] = "checkOpen"
    <3>1. writing = {} /\ \A u \in Threads : ~Holds(u)
      BY <2>2
    <3>2. \A u \in Threads : Holds(u)' => u = t
      BY <2>1, <3>1
    <3>3. OneWriter'
      BY <2>1, <3>1, <3>2
    <3>4. HeldIsWriting'
      BY <2>2
    <3> QED  BY <2>1, <2>2, <3>3, <3>4
  <2>3. CASE state' = state /\ pc'[t] \in {"tryWriting", "idle"}
    <3>1. \A u \in Threads : Holds(u)' => Holds(u)
      BY <2>1, <2>3
    <3>2. (OneWriter /\ HeldIsWriting)'
      BY <2>1, <2>3, <3>1
    <3> QED  BY <2>1, <2>3, <3>2
  <2> QED  BY <2>1, <2>2, <2>3
<1>5. CASE CheckOpen(t)
  <2>1. /\ UNCHANGED <<state, pending, writing>>
        /\ \A u \in Threads : u # t => pc'[u] = pc[u] /\ after'[u] = after[u]
        /\ pc'[t] = "pop" \/ (pc'[t] = "terminate" /\ after'[t] = "idle")
    BY <1>5 DEF CheckOpen
  <2>2. Holds(t) /\ state \in {"WRITING", "TERMINATED"} /\ "connect" \notin pending
    BY <1>5 DEF CheckOpen
  <2>3. \A u \in Threads : Holds(u)' => Holds(u)
    BY <2>1, <2>2
  <2>4. (OneWriter /\ HeldIsWriting)'
    BY <2>1, <2>3
  <2> QED  BY <2>1, <2>2, <2>4
<1>6. CASE Pop(t)
  <2>1. /\ UNCHANGED <<state, pending, writing, after>> /\ pc[t] = "pop"
        /\ \A u \in Threads : u # t => pc'[u] = pc[u]
        /\ pc'[t] \in {"pop", "noMessage", "startWrite"}
    BY <1>6 DEF Pop, Got
  <2>2. Holds(t) /\ \A u \in Threads : Holds(u)' => Holds(u)
    BY <2>1
  <2>3. (OneWriter /\ HeldIsWriting)'
    BY <2>1, <2>2
  <2> QED  BY <2>1, <2>3
<1>7. CASE NoMessage(t)  BY <1>7 DEF NoMessage
<1>8. CASE CountRead(t)  BY <1>8 DEF CountRead
<1>9. CASE CountWrite(t)
  <2>1. /\ UNCHANGED <<state, pending, writing, after>>
        /\ \A u \in Threads : u # t => pc'[u] = pc[u]
        /\ pc'[t] \in {"tryWriting", "idle"}
    BY <1>9 DEF CountWrite
  <2>2. \A u \in Threads : Holds(u)' => Holds(u)
    BY <2>1
  <2>3. (OneWriter /\ HeldIsWriting)'
    BY <2>1, <2>2
  <2> QED  BY <2>1, <2>3
<1>10. CASE StartWrite(t)
  <2>1. /\ Holds(t) /\ \A u \in Threads : u # t => ~Holds(u)
        /\ writing = {} /\ state \in {"WRITING", "TERMINATED"}
    BY <1>10 DEF StartWrite
  <2>2. /\ state' = state /\ pending' = pending
        /\ \A u \in Threads : u # t => pc'[u] = pc[u] /\ after'[u] = after[u]
        /\ pc'[t] = "idle" \/ (pc'[t] = "terminate" /\ after'[t] = "idle")
    BY <1>10 DEF StartWrite
  <2>3. \A u \in Threads : ~Holds(u)'
    BY <2>1, <2>2
  <2>4. writing' = {batch[t]} \/ writing' = {}
    BY <1>10, <2>1 DEF StartWrite
  <2>5. (OneWriter /\ HeldIsWriting)'
    BY <2>1, <2>2, <2>3, <2>4
  <2> QED  BY <2>1, <2>2, <2>5
<1>11. CASE Written(t)  BY <1>11 DEF Written
<1>12. CASE Terminate(t)
  <2>1. /\ UNCHANGED <<state, pending, writing>>
        /\ \A u \in Threads : u # t => pc'[u] = pc[u] /\ after'[u] = after[u]
        /\ \/ pc'[t] = after[t]
           \/ pc'[t] = "markTerminated" /\ after'[t] = after[t]
    BY <1>12 DEF Terminate
  <2>2. pc[t] = "terminate" /\ after[t] \in {"idle", "written"}
    BY <1>12 DEF Terminate
  <2>3. \A u \in Threads : Holds(u)' => Holds(u)
    BY <2>1, <2>2
  <2>4. (OneWriter /\ HeldIsWriting)'
    BY <2>1, <2>3
  <2> QED  BY <2>1, <2>2, <2>4
<1>13. CASE MarkTerminated(t)  BY <1>13 DEF MarkTerminated
<1>14. CASE Close(t)  BY <1>14 DEF Close
<1>15. CASE Reset(t)  BY <1>15 DEF Reset
<1>16. CASE WriteDone(t)  BY <1>16 DEF WriteDone
<1>17. CASE Connect(t)  BY <1>17 DEF Connect
<1>18. CASE HandleConnect(t)  BY <1>18 DEF HandleConnect
<1>19. CASE Accept(t)  BY <1>19 DEF Accept
<1>20. CASE ReadFailed(t)  BY <1>20 DEF ReadFailed
<1> QED  BY <1>1, <1>2, <1>3, <1>4, <1>5, <1>6, <1>7, <1>8, <1>9, <1>10,
            <1>11, <1>12, <1>13, <1>14, <1>15, <1>16, <1>17, <1>18, <1>19, <1>20 DEF NextOf, Step

(* The state is never WRITING with nobody to take it back.                  *)
LEMMA StepHeld ==
  ASSUME ConnectionInv, Next
  PROVE  WritingIsHeld'
<1> SUFFICES ASSUME NEW t \in Threads, NextOf(t)
             PROVE  WritingIsHeld'
  BY DEF Next
<1> USE DEF ConnectionInv, TypeOK, WritingIsHeld, Holds, Terminating,
            Goto, RealSend, CallTerminate, Return, connVars
<1>1. CASE Push(t)  BY <1>1 DEF Push
<1>2. CASE GetConnection(t)  BY <1>2 DEF GetConnection
<1>3. CASE LoadState(t)  BY <1>3 DEF LoadState
<1>4. CASE TryWriting(t)  BY <1>4 DEF TryWriting
<1>5. CASE CheckOpen(t)  BY <1>5 DEF CheckOpen
<1>6. CASE Pop(t)  BY <1>6 DEF Pop, Got
<1>7. CASE NoMessage(t)  BY <1>7 DEF NoMessage
<1>8. CASE CountRead(t)  BY <1>8 DEF CountRead
<1>9. CASE CountWrite(t)  BY <1>9 DEF CountWrite
<1>10. CASE StartWrite(t)  BY <1>10 DEF StartWrite
<1>11. CASE Written(t)  BY <1>11 DEF Written
<1>12. CASE Terminate(t)  BY <1>12 DEF Terminate
<1>13. CASE MarkTerminated(t)  BY <1>13 DEF MarkTerminated
<1>14. CASE Close(t)  BY <1>14 DEF Close
<1>15. CASE Reset(t)  BY <1>15 DEF Reset
<1>16. CASE WriteDone(t)  BY <1>16 DEF WriteDone
<1>17. CASE Connect(t)  BY <1>17 DEF Connect
<1>18. CASE HandleConnect(t)  BY <1>18 DEF HandleConnect
<1>19. CASE Accept(t)  BY <1>19 DEF Accept
<1>20. CASE ReadFailed(t)  BY <1>20 DEF ReadFailed
<1> QED  BY <1>1, <1>2, <1>3, <1>4, <1>5, <1>6, <1>7, <1>8, <1>9, <1>10,
            <1>11, <1>12, <1>13, <1>14, <1>15, <1>16, <1>17, <1>18, <1>19, <1>20 DEF NextOf, Step

-----------------------------------------------------------------------------
(* The lock protocol of realSendMessage, handleSendMessage and terminate(): *)
(* ConnectionInv holds in every reachable state.                            *)
THEOREM ConnectionInvariance == Spec => []ConnectionInv
<1>1. Init => ConnectionInv
  BY InitConnection
<1>2. ConnectionInv /\ [Next]_vars => ConnectionInv'
  <2> SUFFICES ASSUME ConnectionInv, [Next]_vars
               PROVE  ConnectionInv'
    OBVIOUS
  <2>1. CASE Next
    BY <2>1, StepType, StepLock, StepHeld DEF ConnectionInv
  <2>2. CASE UNCHANGED vars
    BY <2>2 DEF ConnectionInv, TypeOK, OneWriter, WritingIsHeld, HeldIsWriting, MadeFirst,
                Holds, vars, threadVars, connVars
  <2> QED  BY <2>1, <2>2
<1> QED  BY <1>1, <1>2, PTL DEF Spec

(* At most one batch is under way on a connection, from the compare-and-swap*)
(* of realSendMessage to the handler of its write.                          *)
THEOREM SingleWriter == Spec => []OneWriter
<1>1. ConnectionInv => OneWriter
  BY DEF ConnectionInv
<1> QED  BY <1>1, ConnectionInvariance, PTL

(* WRITING is always taken back by somebody: no thread leaves the           *)
(* connection locked.                                                       *)
THEOREM LockIsTakenBack == Spec => []WritingIsHeld
<1>1. ConnectionInv => WritingIsHeld
  BY DEF ConnectionInv
<1> QED  BY <1>1, ConnectionInvariance, PTL

-----------------------------------------------------------------------------
(* What is queued, in a batch, being written and written, in this order, is *)
(* what was pushed: the numbers up to `pushed', without a gap until a batch *)
(* is lost; from then on nothing more is written.                           *)
LastPopped == pushed - Len(queue)    \* the last number that was popped

Consecutive(msgs) == \A i \in DOMAIN msgs : msgs[i] = LastPopped - Len(msgs) + i

Ordered ==
  /\ Len(queue) <= pushed
  /\ \A i \in DOMAIN queue : queue[i] = LastPopped + i
  /\ \A t \in Threads : Consecutive(batch[t])
  /\ \A msgs \in writing : Consecutive(msgs)

(* A batch is filled, and not empty when it is written, by the thread that  *)
(* holds the connection.                                                    *)
BatchIsHeld ==
  /\ \A t \in Threads : batch[t] # <<>> => pc[t] \in {"pop", "startWrite"}
  /\ \A t \in Threads : pc[t] = "startWrite" => batch[t] # <<>>
  /\ \A msgs \in writing : msgs # <<>>

NothingMissing ==
  lost = {} =>
    /\ \A t \in Threads : batch[t] # <<>> => Len(wire) + Len(batch[t]) = LastPopped
    /\ \A msgs \in writing : Len(wire) + Len(msgs) = LastPopped
    /\ writing = {} /\ (\A t \in Threads : batch[t] = <<>>) => Len(wire) = LastPopped

LostIsLast ==
  /\ lost # {} => broken \/ (~open /\ writing = {})
  /\ lost # {} => state # "INITIAL"

DeliveryInv ==
  /\ ConnectionInv
  /\ Ordered
  /\ BatchIsHeld
  /\ NothingMissing
  /\ LostIsLast
  /\ PeerGetsPrefix
  /\ NothingVanishes

(* The messages there are, wherever they are.                               *)
Held == ToSet(queue) \cup ToSet(wire) \cup lost
          \cup (UNION {ToSet(msgs) : msgs \in writing})
          \cup (UNION {ToSet(batch[t]) : t \in Threads})

LEMMA HeldMembers ==
  \A m : m \in Held <=> \/ m \in ToSet(queue)
                        \/ m \in ToSet(wire)
                        \/ m \in lost
                        \/ \E msgs \in writing : m \in ToSet(msgs)
                        \/ \E t \in Threads : m \in ToSet(batch[t])
BY DEF Held

(* NothingVanishes in terms of Held.                                        *)
LEMMA VanishesDef ==
  NothingVanishes <=> Held = 1..pushed /\ (lost # {} => broken \/ ~open)
BY DEF NothingVanishes, Held

(* Nothing is pushed, popped or written, no batch changes hands, and a      *)
(* socket that lost something stays as it is.                               *)
Quiet ==
  /\ UNCHANGED <<writing, queue, pushed, wire, lost, batch>>
  /\ broken' = broken
  /\ state # "INITIAL" => state' # "INITIAL" /\ (~open => ~open')
  /\ \A t \in Threads : batch[t] # <<>> => pc'[t] \in {"pop", "startWrite"}
  /\ \A t \in Threads : pc'[t] = "startWrite" => batch[t] # <<>>

LEMMA QuietStep ==
  ASSUME DeliveryInv, ConnectionInv', Quiet
  PROVE  DeliveryInv'
<1> USE DEF DeliveryInv, Quiet
<1>1. LastPopped' = LastPopped
  BY DEF LastPopped
<1>2. Ordered' /\ NothingMissing'
  BY <1>1 DEF Ordered, NothingMissing, Consecutive
<1>3. BatchIsHeld' /\ PeerGetsPrefix'
  BY DEF BatchIsHeld, PeerGetsPrefix
<1>4. LostIsLast'
  BY DEF LostIsLast
<1>5. NothingVanishes'
  BY <1>4 DEF LostIsLast, NothingVanishes
<1> QED  BY <1>2, <1>3, <1>4, <1>5

(* The steps of a connection that move no message.                          *)
Moves(t) == Push(t) \/ Pop(t) \/ StartWrite(t) \/ WriteDone(t)

LEMMA MostAreQuiet ==
  ASSUME DeliveryInv, NEW t \in Threads, NextOf(t), ~Moves(t)
  PROVE  Quiet
<1> USE DEF Moves, DeliveryInv, ConnectionInv, TypeOK, BatchIsHeld, Quiet, Terminating,
            Goto, RealSend, CallTerminate, Return, connVars
<1>1. CASE GetConnection(t)  BY <1>1 DEF GetConnection
<1>2. CASE LoadState(t)  BY <1>2 DEF LoadState
<1>3. CASE TryWriting(t)  BY <1>3 DEF TryWriting
<1>4. CASE CheckOpen(t)  BY <1>4 DEF CheckOpen
<1>5. CASE NoMessage(t)  BY <1>5 DEF NoMessage
<1>6. CASE CountRead(t)  BY <1>6 DEF CountRead
<1>7. CASE CountWrite(t)  BY <1>7 DEF CountWrite
<1>8. CASE Written(t)  BY <1>8 DEF Written
<1>9. CASE Terminate(t)  BY <1>9 DEF Terminate
<1>10. CASE MarkTerminated(t)  BY <1>10 DEF MarkTerminated
<1>11. CASE Close(t)  BY <1>11 DEF Close
<1>12. CASE Reset(t)  BY <1>12 DEF Reset
<1>13. CASE Connect(t)  BY <1>13 DEF Connect
<1>14. CASE HandleConnect(t)  BY <1>14 DEF HandleConnect
<1>15. CASE Accept(t)  BY <1>15 DEF Accept
<1>16. CASE ReadFailed(t)  BY <1>16 DEF ReadFailed
<1> QED  BY <1>1, <1>2, <1>3, <1>4, <1>5, <1>6, <1>7, <1>8, <1>9, <1>10, <1>11, <1>12, <1>13, <1>14, <1>15, <1>16 DEF NextOf, Step
(* Who holds the connection has the only batch, and nothing is being        *)
(* written; during a write there is no other, and no batch.                 *)
LEMMA OnlyBatch ==
  ASSUME DeliveryInv
  PROVE  /\ \A t \in Threads : Holds(t) =>
              writing = {} /\ \A u \in Threads \ {t} : batch[u] = <<>>
         /\ \A msgs \in writing :
              writing = {msgs} /\ \A u \in Threads : batch[u] = <<>>
<1>1. \A u \in Threads : batch[u] # <<>> => Holds(u)
  BY DEF DeliveryInv, BatchIsHeld, Holds
<1> QED  BY <1>1 DEF DeliveryInv, ConnectionInv, OneWriter

(* What DeliveryInv says, part by part, and the types its proof needs.      *)
DeliveryParts ==
  /\ Ordered /\ BatchIsHeld /\ NothingMissing /\ LostIsLast
  /\ PeerGetsPrefix /\ NothingVanishes /\ HeldIsWriting
  /\ pushed \in Nat /\ pushed <= MaxMessages
  /\ queue \in Seq(Messages) /\ wire \in Seq(Messages) /\ writing \subseteq Seq(Messages)
  /\ pc \in [Threads -> Labels] /\ batch \in [Threads -> Seq(Messages)]

LEMMA DeliveryMeans == ASSUME DeliveryInv PROVE DeliveryParts
BY InnerTcpAssumption DEF DeliveryInv, ConnectionInv, TypeOK, DeliveryParts

LEMMA DeliveryFrom ==
  ASSUME ConnectionInv', Ordered', BatchIsHeld', NothingMissing', LostIsLast',
         PeerGetsPrefix', NothingVanishes'
  PROVE  DeliveryInv'
BY DEF DeliveryInv

(* What appending a message, and taking the first one, makes of a sequence. *)
LEMMA AppendEntries ==
  ASSUME NEW S, NEW s \in Seq(S), NEW e \in S
  PROVE  /\ Len(s) \in Nat /\ Len(Append(s, e)) = Len(s) + 1 /\ Append(s, e) # <<>>
         /\ \A i \in DOMAIN Append(s, e) : \/ i \in DOMAIN s /\ Append(s, e)[i] = s[i]
                                           \/ i = Len(s) + 1 /\ Append(s, e)[i] = e
OBVIOUS

LEMMA TailEntries ==
  ASSUME NEW S, NEW s \in Seq(S), s # <<>>
  PROVE  /\ Len(s) \in Nat \ {0} /\ Len(Tail(s)) = Len(s) - 1 /\ 1 \in DOMAIN s
         /\ Head(s) = s[1] /\ Head(s) \in S
         /\ \A i \in DOMAIN Tail(s) : i \in Nat /\ i + 1 \in DOMAIN s /\ Tail(s)[i] = s[i + 1]
OBVIOUS

LEMMA PushDelivers ==
  ASSUME DeliveryInv, ConnectionInv', NEW t \in Threads, Push(t)
  PROVE  DeliveryInv'
<1>0. DeliveryParts
  BY DeliveryMeans
<1> USE <1>0 DEF DeliveryParts
<1>1. /\ pushed \in Nat /\ pushed' = pushed + 1 /\ pushed + 1 \in Messages
      /\ queue' = Append(queue, pushed + 1)
      /\ UNCHANGED <<state, open, broken, writing, wire, lost, batch>>
  BY InnerTcpAssumption DEF Push, Messages
<1>11. /\ Len(queue) \in Nat /\ Len(queue') = Len(queue) + 1
      /\ \A i \in DOMAIN queue' : \/ i \in DOMAIN queue /\ queue'[i] = queue[i]
                                  \/ i = Len(queue) + 1 /\ queue'[i] = pushed + 1
  BY <1>1, AppendEntries
<1>2. LastPopped' = LastPopped
  BY <1>1, <1>11 DEF LastPopped
<1>3. Ordered'
  <2>1. \A i \in DOMAIN queue' : queue'[i] = LastPopped + i
    <3>1. pushed + 1 = LastPopped + (Len(queue) + 1)
      BY <1>1, <1>11 DEF LastPopped
    <3> QED  BY <1>11, <3>1 DEF Ordered
  <2>2. Len(queue') <= pushed'
    BY <1>1, <1>11 DEF Ordered
  <2> QED  BY <1>1, <1>2, <2>1, <2>2 DEF Ordered, Consecutive
<1>4. BatchIsHeld'
  BY <1>1 DEF BatchIsHeld, Push, Goto
<1>5. NothingMissing' /\ LostIsLast' /\ PeerGetsPrefix'
  BY <1>1, <1>2 DEF NothingMissing, LostIsLast, PeerGetsPrefix
<1>6. NothingVanishes'
  <2>1. ToSet(queue') = ToSet(queue) \cup {pushed + 1}
    <3>1. queue \in Seq(Messages)
      OBVIOUS
    <3>2. pushed + 1 \in Messages
      BY <1>1
    <3> HIDE DEF DeliveryParts
    <3>3. ToSet(Append(queue, pushed + 1)) = ToSet(queue) \cup {pushed + 1}
      BY <3>1, <3>2, ToSetAppend
    <3> QED  BY <1>1, <3>3
  <2>2. Held' = Held \cup {pushed + 1}
    BY <1>1, <2>1 DEF Held
  <2>3. 1..(pushed + 1) = 1..pushed \cup {pushed + 1}
    BY <1>1
  <2> QED  BY <1>1, <2>2, <2>3, VanishesDef DEF NothingVanishes, Held
<1> QED  BY <1>3, <1>4, <1>5, <1>6, DeliveryFrom

LEMMA PopDelivers ==
  ASSUME DeliveryInv, ConnectionInv', NEW t \in Threads, Pop(t),
         peer /\ queue # <<>> /\ Len(batch[t]) < BatchSize
  PROVE  DeliveryInv'
<1>0. DeliveryParts
  BY DeliveryMeans
<1> USE <1>0 DEF DeliveryParts
<1>1. /\ UNCHANGED <<state, open, broken, writing, wire, lost, pushed, pc>>
      /\ queue' = Tail(queue) /\ pc[t] = "pop"
      /\ batch' = [batch EXCEPT ![t] = Append(@, Head(queue))]
  BY DEF Pop
<1>2. /\ queue \in Seq(Messages) /\ Len(queue) \in Nat \ {0} /\ Len(queue') = Len(queue) - 1
      /\ Head(queue) \in Messages /\ Head(queue) = queue[1] /\ 1 \in DOMAIN queue
      /\ \A i \in DOMAIN queue' : i \in Nat /\ i + 1 \in DOMAIN queue /\ queue'[i] = queue[i + 1]
  BY <1>1, TailEntries
<1>3. /\ LastPopped \in Nat /\ LastPopped' = LastPopped + 1
      /\ Head(queue) = LastPopped + 1
  <2>1. Head(queue) = LastPopped + 1
    BY <1>2 DEF Ordered
  <2> QED  BY <1>1, <1>2, <2>1 DEF Ordered, LastPopped
<1>4. /\ batch[t] \in Seq(Messages) /\ Len(batch[t]) \in Nat
      /\ batch'[t] = Append(batch[t], Head(queue)) /\ batch'[t] # <<>>
      /\ Len(batch'[t]) = Len(batch[t]) + 1
      /\ \A u \in Threads \ {t} : batch'[u] = batch[u]
  <2>1. batch[t] \in Seq(Messages) /\ Len(batch[t]) \in Nat
    OBVIOUS
  <2>2. /\ batch'[t] = Append(batch[t], Head(queue))
        /\ \A u \in Threads \ {t} : batch'[u] = batch[u]
    BY <1>1
  <2>3. /\ Append(batch[t], Head(queue)) # <<>>
        /\ Len(Append(batch[t], Head(queue))) = Len(batch[t]) + 1
    BY <1>2, <2>1, AppendEntries
  <2> QED  BY <2>1, <2>2, <2>3
<1>5. writing = {} /\ \A u \in Threads \ {t} : batch[u] = <<>>
  BY <1>1, OnlyBatch DEF Holds
<1>6. Ordered'
  <2>1. Len(queue') <= pushed'
    BY <1>1, <1>2 DEF Ordered
  <2>2. \A i \in DOMAIN queue' : queue'[i] = LastPopped' + i
    <3> SUFFICES ASSUME NEW i \in DOMAIN queue'
                 PROVE  queue'[i] = LastPopped' + i
      OBVIOUS
    <3>1. i \in Nat /\ queue'[i] = queue[i + 1] /\ i + 1 \in DOMAIN queue
      BY <1>1, <1>2
    <3>2. queue[i + 1] = LastPopped + (i + 1)
      BY <3>1 DEF Ordered
    <3> QED  BY <1>3, <3>1, <3>2
  <2>3. Consecutive(batch[t])
    BY DEF Ordered
  <2>4. \A i \in DOMAIN batch'[t] : batch'[t][i] = LastPopped' - Len(batch'[t]) + i
    <3>1. LastPopped' - Len(batch'[t]) = LastPopped - Len(batch[t])
      BY <1>3, <1>4
    <3>2. ASSUME NEW i \in DOMAIN batch'[t]
          PROVE  batch'[t][i] = LastPopped - Len(batch[t]) + i
      <4>1. \/ i \in DOMAIN batch[t] /\ batch'[t][i] = batch[t][i]
            \/ i = Len(batch[t]) + 1 /\ batch'[t][i] = Head(queue)
        BY <1>2, <1>4, AppendEntries
      <4> QED  BY <1>3, <1>4, <2>3, <4>1 DEF Consecutive
    <3> QED  BY <3>1, <3>2
  <2> QED  BY <1>1, <1>4, <1>5, <2>1, <2>2, <2>4 DEF Ordered, Consecutive
<1>7. BatchIsHeld'
  BY <1>1, <1>4 DEF BatchIsHeld
<1>8. NothingMissing'
  <2> SUFFICES ASSUME lost = {}
               PROVE  /\ Len(wire) + Len(batch'[t]) = LastPopped'
    BY <1>1, <1>4, <1>5 DEF NothingMissing
  <2>1. Len(wire) + Len(batch[t]) = LastPopped
    BY <1>5, <1>3 DEF NothingMissing
  <2> QED  BY <1>3, <1>4, <2>1
<1>9. LostIsLast' /\ PeerGetsPrefix'
  BY <1>1 DEF LostIsLast, PeerGetsPrefix
<1>10. NothingVanishes'
  <2>1. ToSet(queue) = {Head(queue)} \cup ToSet(queue')
    BY <1>1, <1>2, ToSetHeadTail
  <2>2. ToSet(batch'[t]) = ToSet(batch[t]) \cup {Head(queue)}
    BY <1>2, <1>4, ToSetAppend
  <2>3. \A m : (\E u \in Threads : m \in ToSet(batch'[u]))
                 <=> m = Head(queue) \/ \E u \in Threads : m \in ToSet(batch[u])
    BY <1>4, <2>2
  <2>4. \A m : m \in Held' <=> m \in Held
    <3>1. \A m : m \in Held' <=> \/ m \in ToSet(queue')
                                 \/ m \in ToSet(wire)
                                 \/ m \in lost
                                 \/ \E msgs \in writing : m \in ToSet(msgs)
                                 \/ \E u \in Threads : m \in ToSet(batch'[u])
      BY <1>1, HeldMembers DEF Held
    <3> QED  BY <2>1, <2>3, <3>1, HeldMembers
  <2> QED  BY <1>1, <2>4, VanishesDef DEF NothingVanishes, Held
<1> QED  BY <1>6, <1>7, <1>8, <1>9, <1>10, DeliveryFrom

LEMMA StartWriteDelivers ==
  ASSUME DeliveryInv, ConnectionInv', NEW t \in Threads, StartWrite(t)
  PROVE  DeliveryInv'
<1>0. DeliveryParts
  BY DeliveryMeans
<1> USE <1>0 DEF DeliveryParts
<1>1. /\ UNCHANGED <<state, open, broken, queue, wire, pushed>>
      /\ pc[t] = "startWrite"
      /\ batch' = [batch EXCEPT ![t] = <<>>]
      /\ LastPopped' = LastPopped
  BY DEF StartWrite, LastPopped
<1>2. /\ batch[t] \in Seq(Messages) /\ batch[t] # <<>> /\ writing = {}
      /\ \A u \in Threads \ {t} : batch[u] = <<>>
  BY <1>1, OnlyBatch DEF Holds, BatchIsHeld
<1>3. \A u \in Threads : batch'[u] = <<>>
  BY <1>1, <1>2
<1>4. state # "INITIAL"
  BY <1>1 DEF HeldIsWriting, Holds
<1>5. CASE open
  <2>1. writing' = {batch[t]} /\ lost' = lost
    BY <1>2, <1>5 DEF StartWrite
  <2>2. Ordered'
    BY <1>1, <1>3, <2>1 DEF Ordered, Consecutive
  <2>3. BatchIsHeld'
    BY <1>2, <1>3, <1>5, <2>1 DEF BatchIsHeld, StartWrite, Goto
  <2>4. NothingMissing'
    BY <1>1, <1>2, <1>3, <2>1 DEF NothingMissing
  <2>5. LostIsLast' /\ PeerGetsPrefix'
    BY <1>1, <1>5, <2>1 DEF LostIsLast, PeerGetsPrefix
  <2>6. NothingVanishes'
    <3>1. \A m : m \in Held' <=> \/ m \in ToSet(queue)
                                 \/ m \in ToSet(wire)
                                 \/ m \in lost
                                 \/ \E msgs \in writing' : m \in ToSet(msgs)
                                 \/ \E u \in Threads : m \in ToSet(batch'[u])
      BY <1>1, <2>1 DEF Held
    <3>2. \A u \in Threads \ {t} : ToSet(batch[u]) = {}
      BY <1>2 DEF ToSet
    <3>3. \A u \in Threads : ToSet(batch'[u]) = {}
      BY <1>3 DEF ToSet
    <3>4. \A m : m \in Held' <=> m \in Held
      BY <1>2, <2>1, <3>1, <3>2, <3>3, HeldMembers
    <3> QED  BY <1>1, <2>1, <3>4, VanishesDef DEF NothingVanishes, Held
  <2> QED  BY <2>2, <2>3, <2>4, <2>5, <2>6, DeliveryFrom
<1>6. CASE ~open
  <2>1. writing' = {} /\ lost' = lost \cup ToSet(batch[t])
    BY <1>2, <1>6 DEF StartWrite
  <2>2. lost' # {}
    BY <1>2, <2>1, ToSetOfSome
  <2>3. Ordered' /\ NothingMissing'
    BY <1>1, <1>3, <2>1, <2>2 DEF Ordered, Consecutive, NothingMissing
  <2>4. BatchIsHeld'
    BY <1>3, <1>2, <1>6, <2>1 DEF BatchIsHeld, StartWrite, CallTerminate, Goto
  <2>5. LostIsLast' /\ PeerGetsPrefix'
    BY <1>1, <1>4, <1>6, <2>1 DEF LostIsLast, PeerGetsPrefix
  <2>6. NothingVanishes'
    <3>1. \A m : m \in Held' <=> \/ m \in ToSet(queue)
                                 \/ m \in ToSet(wire)
                                 \/ m \in lost'
                                 \/ \E msgs \in writing' : m \in ToSet(msgs)
                                 \/ \E u \in Threads : m \in ToSet(batch'[u])
      BY <1>1 DEF Held
    <3>2. \A u \in Threads \ {t} : ToSet(batch[u]) = {}
      BY <1>2 DEF ToSet
    <3>3. \A u \in Threads : ToSet(batch'[u]) = {}
      BY <1>3 DEF ToSet
    <3>4. \A m : m \in Held' <=> m \in Held
      BY <1>2, <2>1, <3>1, <3>2, <3>3, HeldMembers
    <3> QED  BY <1>1, <1>6, <2>1, <3>4, VanishesDef DEF NothingVanishes, Held
  <2> QED  BY <2>3, <2>4, <2>5, <2>6, DeliveryFrom
<1> QED  BY <1>5, <1>6

LEMMA WriteDoneDelivers ==
  ASSUME DeliveryInv, ConnectionInv', NEW t \in Threads, WriteDone(t)
  PROVE  DeliveryInv'
<1>0. DeliveryParts
  BY DeliveryMeans
<1> USE <1>0 DEF DeliveryParts
<1>1. PICK msgs \in writing :
        /\ writing' = writing \ {msgs}
        /\ \/ ~broken /\ wire' = wire \o msgs /\ UNCHANGED <<lost, broken>>
           \/ lost' = lost \cup ToSet(msgs) /\ broken' = TRUE /\ UNCHANGED wire
  BY DEF WriteDone
<1>2. /\ UNCHANGED <<state, open, queue, pushed, batch>>
      /\ LastPopped' = LastPopped
  BY DEF WriteDone, LastPopped
<1>3. /\ writing = {msgs} /\ writing' = {}
      /\ \A u \in Threads : batch[u] = <<>> /\ ToSet(batch[u]) = {}
      /\ msgs \in Seq(Messages) /\ msgs # <<>> /\ wire \in Seq(Messages)
  <2>1. ToSet(<<>>) = {}
    BY DEF ToSet
  <2>2. writing = {msgs} /\ \A u \in Threads : batch[u] = <<>>
    BY <1>1, OnlyBatch
  <2> QED  BY <1>1, <2>1, <2>2 DEF BatchIsHeld
<1>4. state # "INITIAL"
  BY <1>1 DEF HeldIsWriting
<1>5. Ordered'
  BY <1>2, <1>3 DEF Ordered, Consecutive
<1>6. BatchIsHeld'
  BY <1>2, <1>3 DEF BatchIsHeld, WriteDone, CallTerminate, Goto
<1>7. \A m : m \in Held' <=> m \in ToSet(queue) \/ m \in ToSet(wire') \/ m \in lost'
  BY <1>2, <1>3 DEF Held
<1>8. \A m : m \in Held <=> \/ m \in ToSet(queue)
                            \/ m \in ToSet(wire)
                            \/ m \in lost
                            \/ m \in ToSet(msgs)
  BY <1>3, HeldMembers
<1>9. CASE ~broken /\ wire' = wire \o msgs /\ UNCHANGED <<lost, broken>>
  <2>1. lost = {} /\ lost' = {}
    BY <1>1, <1>9 DEF LostIsLast
  <2>2. /\ Len(wire) + Len(msgs) = LastPopped /\ Len(wire) \in Nat /\ Len(msgs) \in Nat
        /\ Len(wire') = Len(wire) + Len(msgs)
    BY <1>1, <1>3, <1>9, <2>1 DEF NothingMissing
  <2>3. NothingMissing' /\ LostIsLast'
    BY <1>2, <1>3, <2>1, <2>2 DEF NothingMissing, LostIsLast
  <2>4. PeerGetsPrefix'
    <3> SUFFICES ASSUME NEW i \in DOMAIN wire'
                 PROVE  wire'[i] = i
      BY DEF PeerGetsPrefix
    <3>1. CASE i <= Len(wire)
      <4>1. i \in DOMAIN wire /\ wire'[i] = wire[i]
        BY <1>3, <1>9, <3>1
      <4> QED  BY <4>1 DEF PeerGetsPrefix
    <3>2. CASE ~(i <= Len(wire))
      <4>1. i \in Nat /\ i - Len(wire) \in 1..Len(msgs) /\ i = Len(wire) + (i - Len(wire))
        BY <1>3, <1>9, <2>2, <3>2
      <4>2. wire'[i] = msgs[i - Len(wire)] /\ i - Len(wire) \in DOMAIN msgs
        <5>1. \A j \in 1..Len(msgs) : (wire \o msgs)[Len(wire) + j] = msgs[j] /\ j \in DOMAIN msgs
          <6> HIDE DEF DeliveryParts
          <6> QED  BY <1>3
        <5>2. (wire \o msgs)[Len(wire) + (i - Len(wire))] = msgs[i - Len(wire)]
          BY <4>1, <5>1, Zenon
        <5> QED  BY <1>9, <4>1, <5>1, <5>2, Zenon
      <4>3. msgs[i - Len(wire)] = LastPopped - Len(msgs) + (i - Len(wire))
        BY <1>1, <4>2 DEF Ordered, Consecutive
      <4> QED  BY <2>2, <4>1, <4>2, <4>3
    <3> QED  BY <3>1, <3>2
  <2>5. NothingVanishes'
    <3>1. ToSet(wire') = ToSet(wire) \cup ToSet(msgs)
      BY <1>3, <1>9, ToSetConcat
    <3>2. \A m : m \in Held' <=> m \in Held
      BY <1>7, <1>8, <1>9, <3>1
    <3> QED  BY <1>2, <2>1, <3>2, VanishesDef DEF NothingVanishes, Held
  <2> QED  BY <1>5, <1>6, <2>3, <2>4, <2>5, DeliveryFrom
<1>10. CASE lost' = lost \cup ToSet(msgs) /\ broken' = TRUE /\ UNCHANGED wire
  <2>1. lost' # {}
    BY <1>3, <1>10, ToSetOfSome
  <2>2. NothingMissing' /\ LostIsLast' /\ PeerGetsPrefix'
    BY <1>2, <1>4, <1>10, <2>1 DEF NothingMissing, LostIsLast, PeerGetsPrefix
  <2>3. NothingVanishes'
    <3>1. \A m : m \in Held' <=> m \in Held
      BY <1>7, <1>8, <1>10
    <3> QED  BY <1>2, <1>10, <3>1, VanishesDef DEF NothingVanishes, Held
  <2> QED  BY <1>5, <1>6, <2>2, <2>3, DeliveryFrom
<1> QED  BY <1>1, <1>9, <1>10

-----------------------------------------------------------------------------
(* DeliveryInv holds in every reachable state: what is queued, in the one   *)
(* batch that is under way and written is what was pushed, in its order.    *)
THEOREM DeliveryInvariance == Spec => []DeliveryInv
<1>1. Init /\ ConnectionInv => DeliveryInv
  <2> SUFFICES ASSUME Init, ConnectionInv PROVE DeliveryInv
    OBVIOUS
  <2> USE DEF Init
  <2>1. BatchIsHeld /\ LostIsLast /\ PeerGetsPrefix
    BY DEF BatchIsHeld, LostIsLast, PeerGetsPrefix
  <2>2. LastPopped = 0 /\ Len(<<>>) = 0
    <3>1. Len(<<>>) = 0
      OBVIOUS
    <3>2. LastPopped = 0 - Len(<<>>)
      BY Zenon DEF LastPopped
    <3>3. 0 - 0 = 0
      OBVIOUS
    <3> QED  BY <3>1, <3>2, <3>3, Zenon
  <2>3. Ordered /\ NothingMissing
    BY <2>2 DEF Ordered, NothingMissing, Consecutive
  <2>4. ToSet(<<>>) = {}
    BY DEF ToSet
  <2>5. NothingVanishes
    <3>1. \A m : m \notin Held
      BY <2>4, HeldMembers
    <3>2. 1..pushed = {}
      OBVIOUS
    <3> QED  BY <3>1, <3>2, VanishesDef
  <2> QED  BY <2>1, <2>3, <2>5 DEF DeliveryInv
<1>2. DeliveryInv /\ ConnectionInv' /\ [Next]_vars => DeliveryInv'
  <2> SUFFICES ASSUME DeliveryInv, ConnectionInv', [Next]_vars
               PROVE  DeliveryInv'
    OBVIOUS
  <2>1. ASSUME NEW t \in Threads, NextOf(t)
        PROVE  DeliveryInv'
    <3>1. CASE Push(t)
      BY <3>1, PushDelivers
    <3>2. CASE Pop(t) /\ peer /\ queue # <<>> /\ Len(batch[t]) < BatchSize
      BY <3>2, PopDelivers
    <3>3. CASE Pop(t) /\ ~(peer /\ queue # <<>> /\ Len(batch[t]) < BatchSize)
      <4>1. Quiet
        BY <3>3 DEF Pop, Got, Goto, Quiet, DeliveryInv, BatchIsHeld, ConnectionInv, TypeOK
      <4> QED  BY <4>1, QuietStep
    <3>4. CASE StartWrite(t)
      BY <3>4, StartWriteDelivers
    <3>5. CASE WriteDone(t)
      BY <3>5, WriteDoneDelivers
    <3>6. CASE ~Moves(t)
      BY <2>1, <3>6, MostAreQuiet, QuietStep
    <3> QED  BY <3>1, <3>2, <3>3, <3>4, <3>5, <3>6 DEF Moves
  <2>2. CASE UNCHANGED vars
    <3>1. Quiet
      BY <2>2 DEF Quiet, vars, threadVars, connVars, DeliveryInv, BatchIsHeld
    <3> QED  BY <3>1, QuietStep
  <2> QED  BY <2>1, <2>2 DEF Next
<1> QED  BY <1>1, <1>2, ConnectionInvariance, PTL DEF Spec

(* What the socket has taken is a prefix of what was sent to the peer: in   *)
(* order, nothing twice and nothing left out.                               *)
THEOREM PeerGetsPrefixAlways == Spec => []PeerGetsPrefix
<1>1. DeliveryInv => PeerGetsPrefix
  BY DEF DeliveryInv
<1> QED  BY <1>1, DeliveryInvariance, PTL

(* No message disappears between sendMessage and the socket, unless it was  *)
(* in the batch of a connection that broke or was closed.                   *)
THEOREM NothingVanishesAlways == Spec => []NothingVanishes
<1>1. DeliveryInv => NothingVanishes
  BY DEF DeliveryInv
<1> QED  BY <1>1, DeliveryInvariance, PTL
=============================================================================
