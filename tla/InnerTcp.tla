------------------------------ MODULE InnerTcp ------------------------------
(***************************************************************************)
(* One connection between two members (idgs/net/inner_tcp_connection.cpp)   *)
(* and the queue of messages for its peer (idgs/net/inner_tcp_server.cpp),  *)
(* on the sending side.  Worker threads push and send; I/O threads connect, *)
(* accept, and run the handlers of finished writes and failed reads.        *)
(*                                                                          *)
(* A step is one access to what threads share: the atomic `state', the      *)
(* queue, the socket, `try_pop_count', the server's table of connections.   *)
(* Messages are numbered in the order in which they are pushed.             *)
(***************************************************************************)
EXTENDS Naturals, Sequences, SequencesExt

CONSTANTS Senders,         \* worker threads that send to the peer
          IoThreads,       \* I/O threads, and the one that calls connect()
          MaxMessages,     \* bound: messages sent
          BatchSize,       \* BATCH_TCP_MESSAGES, from the configuration
          RetryLockTimes   \* RETRY_LOCK_TIMES

ASSUME InnerTcpAssumption ==
  /\ Senders \cap IoThreads = {}
  /\ MaxMessages \in Nat
  /\ BatchSize \in Nat \ {0}
  /\ RetryLockTimes \in Nat \ {0}

VARIABLES role,       \* this side calls connect() or accept()
          state,      \* InnerTcpConnection::state
          open,       \* socket.is_open()
          broken,     \* the socket has failed a write: it fails every later one
          peer,       \* peerMemberId is set, so that getQueue() is not null
          installed,  \* connections[peerId] is this connection
          retry,      \* failed attempts of the connect() under way
          popCount,   \* try_pop_count, up to PopRetries
          pending,    \* asynchronous operations under way: connect, read
          writing,    \* batches handed to async_write and not finished
          queue,      \* queues[peerId]
          pushed,     \* how many messages were pushed
          pc, tries, after, batch,   \* of each thread
          wire,       \* history: what the socket took, in order
          lost        \* history: what was popped and not written

threadVars == <<pc, tries, after, batch>>
connVars == <<role, peer, installed, retry, pending>>
vars == <<state, open, broken, popCount, writing, queue, pushed, wire, lost,
          threadVars, connVars>>

Threads == Senders \cup IoThreads

ConnectRetries == 3
PopRetries == 3

States == {"INITIAL", "CONNECTING", "READY", "WRITING", "TERMINATED"}

Messages == 1..MaxMessages

Terminating == {"terminate", "markTerminated", "close", "reset"}
Labels == {"idle", "getConnection", "load", "tryWriting", "checkOpen", "pop", "noMessage",
           "countRead", "countWrite", "startWrite", "written"} \cup Terminating

Init ==
  /\ role \in {"connect", "accept"}
  /\ state = "INITIAL"
  /\ open = (role = "accept")
  /\ broken = FALSE
  /\ peer = FALSE
  /\ installed = (role = "connect")
  /\ retry = 0
  /\ popCount = 0
  /\ pending = {}
  /\ writing = {}
  /\ queue = <<>>
  /\ pushed = 0
  /\ pc = [t \in Threads |-> "idle"]
  /\ tries = [t \in Threads |-> 0]
  /\ after = [t \in Threads |-> "idle"]
  /\ batch = [t \in Threads |-> <<>>]
  /\ wire = <<>>
  /\ lost = {}

Goto(t, label) == pc' = [pc EXCEPT ![t] = label]

(* realSendMessage() from its beginning.                                    *)
RealSend(t) == Goto(t, "tryWriting")

(* terminate(), and where the caller goes on.                               *)
CallTerminate(t, next) ==
  /\ Goto(t, "terminate")
  /\ after' = [after EXCEPT ![t] = next]

Return(t) ==
  /\ Goto(t, after[t])
  /\ after' = [after EXCEPT ![t] = "idle"]

-----------------------------------------------------------------------------
(* InnerTcpServer::sendMessage                                              *)
Push(t) ==
  /\ pc[t] = "idle" /\ t \in Senders
  /\ pushed < MaxMessages
  /\ pushed' = pushed + 1
  /\ queue' = Append(queue, pushed + 1)
  /\ Goto(t, "getConnection")
  /\ UNCHANGED <<state, open, broken, popCount, writing, wire, lost, tries, after, batch, connVars>>

GetConnection(t) ==
  /\ pc[t] = "getConnection"
  /\ Goto(t, IF installed THEN "load" ELSE "idle")
  /\ UNCHANGED <<state, open, broken, popCount, writing, queue, pushed, wire, lost, tries, after,
                 batch, connVars>>

(* InnerTcpConnection::sendMessage                                          *)
LoadState(t) ==
  /\ pc[t] = "load"
  /\ IF state = "READY" THEN RealSend(t) ELSE Goto(t, "idle")
  /\ UNCHANGED <<state, open, broken, popCount, writing, queue, pushed, wire, lost, tries, after,
                 batch, connVars>>

(* Mutant of TryWriting: the lock is not one.                               *)
TryWritingAnyway(t) ==
  /\ pc[t] = "tryWriting"
  /\ IF state \in {"READY", "WRITING"}
     THEN state' = "WRITING" /\ Goto(t, "checkOpen") /\ tries' = [tries EXCEPT ![t] = 0]
     ELSE /\ UNCHANGED state
          /\ IF tries[t] + 1 < RetryLockTimes
             THEN tries' = [tries EXCEPT ![t] = @ + 1] /\ UNCHANGED pc
             ELSE tries' = [tries EXCEPT ![t] = 0] /\ Goto(t, "idle")
  /\ UNCHANGED <<open, broken, popCount, writing, queue, pushed, wire, lost, after, batch, connVars>>

(* realSendMessage: the compare-and-swap.                                   *)
TryWriting(t) ==
  /\ pc[t] = "tryWriting"
  /\ IF state = "READY"
     THEN state' = "WRITING" /\ Goto(t, "checkOpen") /\ tries' = [tries EXCEPT ![t] = 0]
     ELSE /\ UNCHANGED state
          /\ IF tries[t] + 1 < RetryLockTimes
             THEN tries' = [tries EXCEPT ![t] = @ + 1] /\ UNCHANGED pc
             ELSE tries' = [tries EXCEPT ![t] = 0] /\ Goto(t, "idle")
  /\ UNCHANGED <<open, broken, popCount, writing, queue, pushed, wire, lost, after, batch, connVars>>

(* Mutant of CheckOpen: the lock is kept when the socket is closed.         *)
CheckOpenOnly(t) ==
  /\ pc[t] = "checkOpen"
  /\ Goto(t, IF open THEN "pop" ELSE "idle")
  /\ UNCHANGED <<state, open, broken, popCount, writing, queue, pushed, wire, lost, tries, after,
                 batch, connVars>>

CheckOpen(t) ==
  /\ pc[t] = "checkOpen"
  /\ IF open THEN Goto(t, "pop") /\ UNCHANGED after ELSE CallTerminate(t, "idle")
  /\ UNCHANGED <<state, open, broken, popCount, writing, queue, pushed, wire, lost, tries, batch,
                 connVars>>

Got(t) == IF batch[t] = <<>> THEN "noMessage" ELSE "startWrite"

(* Mutant of Pop: the batch is tested after the pop.                        *)
PopAndForget(t) ==
  /\ pc[t] = "pop"
  /\ IF peer /\ queue # <<>>
     THEN /\ queue' = Tail(queue)
          /\ IF Len(batch[t]) < BatchSize
             THEN batch' = [batch EXCEPT ![t] = Append(@, Head(queue))] /\ UNCHANGED pc
             ELSE Goto(t, Got(t)) /\ UNCHANGED batch
     ELSE Goto(t, Got(t)) /\ UNCHANGED <<queue, batch>>
  /\ UNCHANGED <<state, open, broken, popCount, writing, pushed, wire, lost, tries, after, connVars>>

(* try_pop, until the batch is full or there is nothing, or no queue.       *)
Pop(t) ==
  /\ pc[t] = "pop"
  /\ IF peer /\ queue # <<>> /\ Len(batch[t]) < BatchSize
     THEN /\ batch' = [batch EXCEPT ![t] = Append(@, Head(queue))]
          /\ queue' = Tail(queue)
          /\ UNCHANGED pc
     ELSE Goto(t, Got(t)) /\ UNCHANGED <<queue, batch>>
  /\ UNCHANGED <<state, open, broken, popCount, writing, pushed, wire, lost, tries, after, connVars>>

(* Nothing to send: the lock is released, then it is tried again while      *)
(* ++try_pop_count < 3; the count is a plain int that threads race for.     *)
NoMessage(t) ==
  /\ pc[t] = "noMessage"
  /\ state' = "READY"
  /\ Goto(t, "countRead")
  /\ UNCHANGED <<open, broken, popCount, writing, queue, pushed, wire, lost, tries, after, batch,
                 connVars>>

CountRead(t) ==
  /\ pc[t] = "countRead"
  /\ tries' = [tries EXCEPT ![t] = popCount]
  /\ Goto(t, "countWrite")
  /\ UNCHANGED <<state, open, broken, popCount, writing, queue, pushed, wire, lost, after, batch,
                 connVars>>

CountWrite(t) ==
  /\ pc[t] = "countWrite"
  /\ popCount' = IF tries[t] < PopRetries THEN tries[t] + 1 ELSE PopRetries
  /\ tries' = [tries EXCEPT ![t] = 0]
  /\ IF tries[t] + 1 < PopRetries THEN RealSend(t) ELSE Goto(t, "idle")
  /\ UNCHANGED <<state, open, broken, writing, queue, pushed, wire, lost, after, batch, connVars>>

(* Mutant of StartWrite: READY again as soon as the write has started.      *)
StartWriteReady(t) ==
  /\ pc[t] = "startWrite"
  /\ popCount' = 0
  /\ batch' = [batch EXCEPT ![t] = <<>>]
  /\ IF open
     THEN /\ writing' = writing \cup {batch[t]}
          /\ Goto(t, "idle") /\ state' = "READY"
          /\ UNCHANGED <<lost, after>>
     ELSE /\ lost' = lost \cup ToSet(batch[t])
          /\ CallTerminate(t, "idle")
          /\ UNCHANGED <<state, writing>>
  /\ UNCHANGED <<open, broken, queue, pushed, wire, tries, connVars>>

(* The second test of the socket, then async_write, which ends in the       *)
(* handler: the lock is passed on to it.                                    *)
StartWrite(t) ==
  /\ pc[t] = "startWrite"
  /\ popCount' = 0
  /\ batch' = [batch EXCEPT ![t] = <<>>]
  /\ IF open
     THEN /\ writing' = writing \cup {batch[t]}
          /\ Goto(t, "idle")
          /\ UNCHANGED <<lost, after>>
     ELSE /\ lost' = lost \cup ToSet(batch[t])
          /\ CallTerminate(t, "idle")
          /\ UNCHANGED writing
  /\ UNCHANGED <<state, open, broken, queue, pushed, wire, tries, connVars>>

-----------------------------------------------------------------------------
(* handleSendMessage: after an error it terminates, and goes on all the     *)
(* same, as an `else' is missing.                                           *)
WriteDone(t) ==
  /\ pc[t] = "idle" /\ t \in IoThreads
  /\ \E msgs \in writing :
       /\ writing' = writing \ {msgs}
       /\ \/ /\ ~broken
             /\ wire' = wire \o msgs
             /\ Goto(t, "written")
             /\ UNCHANGED <<lost, broken, after>>
          \/ /\ lost' = lost \cup ToSet(msgs)
             /\ broken' = TRUE
             /\ CallTerminate(t, "written")
             /\ UNCHANGED wire
  /\ UNCHANGED <<state, open, popCount, queue, pushed, tries, batch, connVars>>

(* Mutant of Written: whoever sends next writes what is queued.             *)
WrittenAndDone(t) ==
  /\ pc[t] = "written"
  /\ state' = "READY"
  /\ Goto(t, "idle")
  /\ UNCHANGED <<open, broken, popCount, writing, queue, pushed, wire, lost, tries, after, batch,
                 connVars>>

Written(t) ==
  /\ pc[t] = "written"
  /\ state' = "READY"
  /\ RealSend(t)
  /\ UNCHANGED <<open, broken, popCount, writing, queue, pushed, wire, lost, tries, after, batch,
                 connVars>>

-----------------------------------------------------------------------------
(* connect(), from RpcMemberListener: it fails when there is no endpoint.   *)
Connect(t) ==
  /\ pc[t] = "idle" /\ t \in IoThreads
  /\ role = "connect" /\ state = "INITIAL"
  /\ state' = "CONNECTING"
  /\ peer' = TRUE
  /\ \/ open' = TRUE /\ pending' = {"connect"} /\ UNCHANGED <<pc, after>>
     \/ CallTerminate(t, "idle") /\ UNCHANGED <<open, pending>>
  /\ UNCHANGED <<role, installed, retry, broken, popCount, writing, queue, pushed, wire, lost,
                 tries, batch>>

(* handleConnect: another attempt, the last one failed or the handshake     *)
(* did, or connected.                                                       *)
HandleConnect(t) ==
  /\ pc[t] = "idle" /\ t \in IoThreads
  /\ "connect" \in pending
  /\ \/ /\ retry < ConnectRetries
        /\ retry' = retry + 1
        /\ UNCHANGED <<state, pending, pc, after>>
     \/ /\ pending' = {} /\ retry' = 0
        /\ CallTerminate(t, "idle")
        /\ UNCHANGED state
     \/ /\ pending' = {"read"} /\ retry' = 0
        /\ state' = "READY"
        /\ RealSend(t)
        /\ UNCHANGED after
  /\ UNCHANGED <<role, peer, installed, open, broken, popCount, writing, queue, pushed, wire, lost,
                 tries, batch>>

(* accept(): the handshake fails, or names the peer.                        *)
Accept(t) ==
  /\ pc[t] = "idle" /\ t \in IoThreads
  /\ role = "accept" /\ state = "INITIAL"
  /\ \/ /\ state' = "CONNECTING"
        /\ CallTerminate(t, "idle")
        /\ UNCHANGED <<peer, installed, pending>>
     \/ /\ state' = "READY"
        /\ peer' = TRUE
        /\ installed' = TRUE
        /\ pending' = {"read"}
        /\ RealSend(t)
        /\ UNCHANGED after
  /\ UNCHANGED <<role, retry, open, broken, popCount, writing, queue, pushed, wire, lost, tries,
                 batch>>

(* handleRecvHeader, handleRecvBody: the read under way failed.             *)
ReadFailed(t) ==
  /\ pc[t] = "idle" /\ t \in IoThreads
  /\ "read" \in pending
  /\ pending' = {}
  /\ CallTerminate(t, "idle")
  /\ UNCHANGED <<role, peer, installed, retry, state, open, broken, popCount, writing, queue,
                 pushed, wire, lost, tries, batch>>

-----------------------------------------------------------------------------
(* terminate()                                                              *)
Terminate(t) ==
  /\ pc[t] = "terminate"
  /\ IF state = "TERMINATED" THEN Return(t) ELSE Goto(t, "markTerminated") /\ UNCHANGED after
  /\ UNCHANGED <<state, open, broken, popCount, writing, queue, pushed, wire, lost, tries, batch,
                 connVars>>

MarkTerminated(t) ==
  /\ pc[t] = "markTerminated"
  /\ state' = "TERMINATED"
  /\ Goto(t, "close")
  /\ UNCHANGED <<open, broken, popCount, writing, queue, pushed, wire, lost, tries, after, batch,
                 connVars>>

Close(t) ==
  /\ pc[t] = "close"
  /\ open' = FALSE
  /\ Goto(t, "reset")
  /\ UNCHANGED <<state, broken, popCount, writing, queue, pushed, wire, lost, tries, after, batch,
                 connVars>>

(* Mutant of Reset: the peer is forgotten before it is looked up.           *)
ResetForgotten(t) ==
  /\ pc[t] = "reset"
  /\ peer' = FALSE
  /\ Return(t)
  /\ UNCHANGED <<role, retry, installed, pending, state, open, broken, popCount, writing, queue,
                 pushed, wire, lost, tries, batch>>

Reset(t) ==
  /\ pc[t] = "reset"
  /\ installed' = (installed /\ ~peer)
  /\ peer' = FALSE
  /\ Return(t)
  /\ UNCHANGED <<role, retry, pending, state, open, broken, popCount, writing, queue, pushed, wire,
                 lost, tries, batch>>

-----------------------------------------------------------------------------
(* What a thread does next once it has begun.                               *)
Step(t) ==
  \/ GetConnection(t) \/ LoadState(t) \/ TryWriting(t) \/ CheckOpen(t)
  \/ Pop(t) \/ NoMessage(t) \/ CountRead(t) \/ CountWrite(t) \/ StartWrite(t)
  \/ Written(t) \/ Terminate(t) \/ MarkTerminated(t) \/ Close(t) \/ Reset(t)

NextOf(t) ==
  \/ Push(t) \/ Step(t) \/ WriteDone(t)
  \/ Connect(t) \/ HandleConnect(t) \/ Accept(t) \/ ReadFailed(t)

Next == \E t \in Threads : NextOf(t)

Spec == Init /\ [][Next]_vars

(* Threads that have begun go on; what was started is reported in the end.  *)
Fairness ==
  /\ \A t \in Threads : WF_vars(Step(t))
  /\ WF_vars(\E t \in IoThreads : WriteDone(t))
  /\ WF_vars(\E t \in IoThreads : HandleConnect(t))

LiveSpec == Spec /\ Fairness

-----------------------------------------------------------------------------
(* Types of the connection, its queue and the threads.                      *)
TypeOK ==
  /\ role \in {"connect", "accept"}
  /\ state \in States
  /\ open \in BOOLEAN /\ broken \in BOOLEAN /\ peer \in BOOLEAN /\ installed \in BOOLEAN
  /\ retry \in 0..ConnectRetries
  /\ popCount \in 0..PopRetries
  /\ pending \subseteq {"connect", "read"}
  /\ pushed \in 0..MaxMessages
  /\ queue \in Seq(Messages)
  /\ wire \in Seq(Messages)
  /\ writing \subseteq Seq(Messages)
  /\ lost \subseteq Messages
  /\ pc \in [Threads -> Labels]
  /\ tries \in [Threads -> Nat]
  /\ after \in [Threads -> {"idle", "written"}]
  /\ batch \in [Threads -> Seq(Messages)]
  /\ \A t \in Threads : Len(batch[t]) <= BatchSize

(* Who holds the lock that WRITING stands for: a thread from the successful *)
(* compare-and-swap on, then the write it started, then the write's handler.*)
Holds(t) ==
  \/ pc[t] \in {"checkOpen", "pop", "noMessage", "startWrite", "written"}
  \/ pc[t] \in Terminating /\ after[t] = "written"

(* At most one batch is under way, whatever terminate() does to `state' in  *)
(* between: a handler that failed sets it READY again.                      *)
OneWriter ==
  /\ \A t, u \in Threads : Holds(t) /\ Holds(u) => t = u
  /\ \A a, b \in writing : a = b
  /\ writing # {} => \A t \in Threads : ~Holds(t)

(* WRITING is never left behind with nobody to take it back.                *)
WritingIsHeld ==
  state = "WRITING" =>
    \/ \E t \in Threads : Holds(t) \/ pc[t] \in {"terminate", "markTerminated"}
    \/ writing # {}

(* The lock is held in WRITING, or after somebody else's terminate(); until *)
(* the connection is made nobody holds it and nobody terminates.            *)
HeldIsWriting ==
  (writing # {} \/ \E t \in Threads : Holds(t)) => state \in {"WRITING", "TERMINATED"}

MadeFirst ==
  /\ state = "INITIAL" => pending = {}
  /\ "connect" \in pending => state = "CONNECTING"
  /\ state = "INITIAL" \/ "connect" \in pending => \A t \in Threads : pc[t] \notin Terminating

(* The inductive invariant behind OneWriter: every step of a connection's   *)
(* life hands the lock over or gives it back.                               *)
ConnectionInv == TypeOK /\ OneWriter /\ WritingIsHeld /\ HeldIsWriting /\ MadeFirst

(* The peer gets what was sent from the first message on, without a gap.    *)
PeerGetsPrefix == \A i \in DOMAIN wire : wire[i] = i

(* A message that is neither written nor about to be is in the queue, or it *)
(* was in a batch of a connection that broke.                               *)
NothingVanishes ==
  LET held == ToSet(queue) \cup ToSet(wire) \cup lost
                \cup (UNION {ToSet(msgs) : msgs \in writing})
                \cup (UNION {ToSet(batch[t]) : t \in Threads})
  IN held = 1..pushed /\ (lost # {} => broken \/ ~open)

(* What is queued while a write is under way, or while the connection is    *)
(* being made, is written unless the connection fails.                      *)
QueuedIsWritten ==
  \A m \in Messages :
    (m \in ToSet(queue) /\ (writing # {} \/ state = "CONNECTING"))
      ~> (m \in ToSet(wire) \cup lost \/ state = "TERMINATED" \/ ~open)

(* A connection that is closed is taken out of the server's table, so that  *)
(* sending does not use it again.                                           *)
ClosedIsRemoved == (state = "TERMINATED" /\ ~open) ~> ~installed
=============================================================================
