----------------------------- MODULE Migration -----------------------------
(***************************************************************************)
(* Migration of partitions between the members of a cluster (idgs/sync/ of  *)
(* the store service), over the partition tables of PartitionManager.  The  *)
(* delta of a balance tells each member which partitions it has to get and  *)
(* which to clear; its MigrationTargetActor gets them one after the other   *)
(* from their primary members, store by store, and the MigrationSourceActor *)
(* of a primary counts who is getting what.                                 *)
(*                                                                          *)
(* The transfer of one store is a step of the source and a message that     *)
(* takes its time (module StoreTransfer has its detail).  Stores are those  *)
(* partitioned by table; storeMigrationQueue is left out, as nothing is     *)
(* ever pushed to it (the map never has more entries than there are stores).*)
(***************************************************************************)
EXTENDS PartitionManager

CONSTANTS Stores,      \* the partitioned stores
          MaxChanges,  \* bound: times that processes start or stop
          MaxHurried   \* bound: of these, while migrations are under way

ASSUME MigrationAssumption ==
  /\ Stores # {}
  /\ IsFiniteSet(Stores)
  /\ MaxChanges \in Nat
  /\ MaxHurried \in Nat

NoPart == 0

VARIABLES queue,     \* MigrationTargetActor::partitionQueue
          part,      \* ::partId, NoPart for -1
          source,    \* ::sourceMemberId
          stores,    \* ::storeMigrationMap: the state of each store in it
          receivers, \* the StoreMigrationTargetActors of each member
          targets,   \* MigrationSourceActor::partitionStateMap
          hung,      \* members whose dispatch thread waits for itself
          net,       \* messages from actor to actor: a bag
          rows,      \* the <<partition, store>> a member has all rows of
          filled,    \* partitions that were made, and hold rows somewhere
          changes,   \* history: processes that started or stopped
          waiting,   \* history: joiners whose whole table CPG has not ordered
          answered,  \* history: no table changed while a joiner waited for one,
                     \* no leading member left before it had sent it, and none
                     \* was still to come for an earlier process at its position
          hurried    \* history: changes that came before all had settled

targetVars  == <<queue, part, source, stores, receivers>>
historyVars == <<changes, waiting, answered, hurried>>
vars == <<tableVars, targetVars, targets, hung, net, rows, filled, historyVars>>

Unlisted == {NoMember}   \* a partition without an entry in partitionStateMap

Message(type, from, to, p, s) ==
  [type |-> type, from |-> from, to |-> to, part |-> p, store |-> s, full |-> FALSE]
Full(msg, full) == [msg EXCEPT !.full = full]
AnyStore == CHOOSE s \in Stores : TRUE

NoStores == [s \in {} |-> "READY"]

Init ==
  /\ InitTables
  /\ queue = [m \in Ids |-> << >>]
  /\ part = [m \in Ids |-> NoPart]
  /\ source = [m \in Ids |-> NoMember]
  /\ stores = [m \in Ids |-> NoStores]
  /\ receivers = [m \in Ids |-> {}]
  /\ targets = [m \in Ids |-> [p \in Parts |-> Unlisted]]
  /\ hung = {}
  /\ net = EmptyBag
  /\ rows = [m \in Ids |-> {}]
  /\ filled = {}
  /\ changes = 0
  /\ waiting = {}
  /\ answered = TRUE
  /\ hurried = 0

(* A finite set of numbers in ascending order.                              *)
Ascending(S) ==
  [i \in 1..Cardinality(S) |-> CHOOSE x \in S : Cardinality({y \in S : y < x}) = i - 1]

AllDone ==
  /\ Quiet
  /\ net = EmptyBag
  /\ \A m \in up : part[m] = NoPart

-----------------------------------------------------------------------------
(* nextPartitionMigration with queue q and table tbl: queued partitions     *)
(* without a primary are made on the spot, up to the first that has one.    *)
WithPrimary(q, tbl) == {i \in DOMAIN q : q[i] # NoPart /\ Primary(tbl, q[i]) # NoMember}

Made(q, tbl) ==
  LET first == WithPrimary(q, tbl)
      end   == IF first = {} THEN Len(q) ELSE Min(first) - 1
      made[i \in 0..end] == IF i = 0 THEN << >>
                            ELSE IF q[i] = NoPart THEN made[i - 1]
                            ELSE Append(made[i - 1], q[i])
  IN made[end]

NextPart(q, tbl) ==
  IF WithPrimary(q, tbl) = {} THEN NoPart ELSE q[Min(WithPrimary(q, tbl))]

(* Mutant of AfterNext: what was made stays queued.                         *)
AfterNextKept(q, tbl) ==
  IF WithPrimary(q, tbl) = {} THEN q ELSE SubSeq(q, Min(WithPrimary(q, tbl)) + 1, Len(q))

AfterNext(q, tbl) ==
  IF WithPrimary(q, tbl) = {} THEN << >> ELSE SubSeq(q, Min(WithPrimary(q, tbl)) + 1, Len(q))

StateEvents(m, q, tbl) ==
  [i \in DOMAIN Made(q, tbl) |-> Status(Made(q, tbl)[i], m, "READY")]
  \o (IF NextPart(q, tbl) = NoPart THEN << >>
      ELSE <<Status(NextPart(q, tbl), m, "MIGRATING")>>)

(* Mutant of Requests: stores after the first wait and nobody starts them.  *)
FirstRequest(m, p, from) ==
  IF from \in up THEN {Message("request", m, from, p, AnyStore)} ELSE {}

Requests(m, p, from) ==
  IF from \in up THEN {Message("request", m, from, p, s) : s \in Stores} ELSE {}

Actors(p, from) == {[part |-> p, store |-> s, source |-> from] : s \in Stores}

(* What it does on member m, whose messages so far are msgs and rows held;  *)
(* `locked' when m holds the write lock of the map already: the partition   *)
(* is chosen, and m waits for itself.                                       *)
NextPartition(m, q, tbl, locked, msgs, held) ==
  LET p      == NextPart(q, tbl)
      from   == IF p = NoPart THEN NoMember ELSE Primary(tbl, p)
      starts == p # NoPart /\ ~locked
      made   == ToSet(Made(q, tbl))
  IN /\ queue' = [queue EXCEPT ![m] = AfterNext(q, tbl)]
     /\ part' = [part EXCEPT ![m] = p]
     /\ source' = [source EXCEPT ![m] = from]
     /\ stores' = [stores EXCEPT ![m] = IF starts THEN [s \in Stores |-> "MIGRATING"] ELSE NoStores]
     /\ receivers' = [receivers EXCEPT ![m] = IF starts THEN @ \cup Actors(p, from) ELSE @]
     /\ net' = IF starts THEN msgs (+) SetToBag(Requests(m, p, from)) ELSE msgs
     /\ rows' = [rows EXCEPT ![m] = held \cup ((made \ filled) \X Stores)]
     /\ filled' = filled \cup made
     /\ hung' = IF p # NoPart /\ locked THEN hung \cup {m} ELSE hung

-----------------------------------------------------------------------------
UnchangedMigration == UNCHANGED <<targetVars, targets, hung, net, rows, filled>>

Hurry(settled) ==
  /\ hurried' = IF settled THEN hurried ELSE hurried + 1
  /\ hurried' <= MaxHurried

(* The leading member has yet to tell a process at position m its table, or *)
(* CPG has yet to order what it told it.                                    *)
AnswerDue(m) ==
  \E l \in up :
    \/ \E i \in DOMAIN inbox[l] : inbox[l][i].type = "joined" /\ inbox[l][i].member = m
    \/ \E i \in DOMAIN outbox[l] : outbox[l][i].type = "whole" /\ outbox[l][i].member = m

(* A process starts, with nothing to migrate and no rows.                   *)
MemberJoins(m) ==
  /\ changes < MaxChanges
  /\ Join(m)
  /\ changes' = changes + 1
  /\ waiting' = IF group'.leading = m THEN waiting ELSE waiting \cup {m}
  /\ answered' = (answered /\ ~AnswerDue(m))
  /\ Hurry(AllDone)
  /\ UnchangedMigration

(* Processes stop: what was on its way to them is lost, and of what they    *)
(* sent some.                                                               *)
MembersLeave(gone) ==
  /\ changes < MaxChanges
  /\ Leave(gone)
  /\ changes' = changes + 1
  /\ Hurry(AllDone /\ Cardinality(gone) = 1 /\ Cardinality(up') >= Replicas)
  /\ \E lost \in SUBSET {msg \in BagToSet(net) : msg.from \in gone} :
       net' = [msg \in {x \in BagToSet(net) : x.to \notin gone /\ x \notin lost} |-> net[msg]]
  /\ queue' = [m \in Ids |-> IF m \in gone THEN << >> ELSE queue[m]]
  /\ part' = [m \in Ids |-> IF m \in gone THEN NoPart ELSE part[m]]
  /\ source' = [m \in Ids |-> IF m \in gone THEN NoMember ELSE source[m]]
  /\ stores' = [m \in Ids |-> IF m \in gone THEN NoStores ELSE stores[m]]
  /\ receivers' = [m \in Ids |-> IF m \in gone THEN {} ELSE receivers[m]]
  /\ targets' = [m \in Ids |-> IF m \in gone THEN [p \in Parts |-> Unlisted] ELSE targets[m]]
  /\ rows' = [m \in Ids |-> IF m \in gone THEN {} ELSE rows[m]]
  /\ hung' = hung \ gone
  /\ waiting' = waiting \ gone
  /\ answered' = (answered /\ (group.leading \in gone => waiting' = {}))
  /\ UNCHANGED filled

Ordering(m) ==
  /\ Sequence(m)
  /\ LET event == Head(outbox[m])
     IN /\ waiting' = IF event.type = "whole" THEN waiting \ {event.member} ELSE waiting
        /\ answered' = (answered /\ (event.type \in {"delta", "status"} => waiting = {}))
  /\ UnchangedMigration
  /\ UNCHANGED <<changes, hurried>>

-----------------------------------------------------------------------------
(* The dispatch thread of m, which runs the listeners of the sync service   *)
(* as well.                                                                 *)
Free(m) == m \notin hung

Joining(m)  == Free(m) /\ HandleJoined(m) /\ UnchangedMigration /\ UNCHANGED historyVars
Receiving(m) == Free(m) /\ HandleWhole(m) /\ UnchangedMigration /\ UNCHANGED historyVars
Noting(m)   == Free(m) /\ HandleStatus(m) /\ UnchangedMigration /\ UNCHANGED historyVars

(* The stores of the partition m is getting that it has got, and what is    *)
(* sent to the actors that still receive.                                   *)
Got(m) == {<<part[m], s>> : s \in {x \in DOMAIN stores[m] : stores[m][x] = "READY"}}
Receivers(m, type) ==
  {Message(type, m, m, part[m], s) : s \in {x \in DOMAIN stores[m] : stores[m][x] = "MIGRATING"}}

(* partitionChanged clears what m has to give up (clearPartitionData), adds *)
(* what it has to get, in order, and starts unless it is migrating.  When   *)
(* it gives up what it is getting, nothing goes on to the next partition.   *)
Changing(m) ==
  /\ Free(m)
  /\ HandleDelta(m)
  /\ LET items == NextEvent(m).items
         dels  == {p \in Parts : <<p, m>> \in DelActions(table'[m], items)}
         adds  == {p \in Parts : <<p, m>> \in NewActions(table'[m], items)}
         left  == [i \in DOMAIN queue[m] |-> IF queue[m][i] \in dels THEN NoPart ELSE queue[m][i]]
         q     == left \o Ascending(adds)
         quits == part[m] \in dels
         clear == ((dels \ {part[m]}) \X Stores) \cup (IF quits THEN Got(m) ELSE {})
         kept  == rows[m] \ clear
         cancels == Receivers(m, "cancel")
         finished == IF source[m] \in up THEN {Message("finished", m, source[m], part[m], AnyStore)} ELSE {}
     IN IF part[m] = NoPart
        THEN /\ NextPartition(m, q, table'[m], FALSE, net, kept)
             /\ Multicast(m, StateEvents(m, q, table'[m]))
        ELSE /\ queue' = [queue EXCEPT ![m] = q]
             /\ rows' = [rows EXCEPT ![m] = kept]
             /\ net' = IF quits THEN net (+) SetToBag(cancels \cup finished) ELSE net
             /\ UNCHANGED <<part, source, stores, receivers, hung, filled, outbox>>
  /\ UNCHANGED <<targets, historyVars>>

(* MigrationSourceActor::handleMemberLeave(order[i]): the partitions it was *)
(* the last target of.  Their entries stay, empty.                          *)
ReleasedBy(m, order, i) ==
  LET released == {p \in Parts : /\ order[i] \in targets[m][p]
                                 /\ targets[m][p] \subseteq {order[j] : j \in 1..i}}
  IN [k \in 1..Cardinality(released) |-> Status(Ascending(released)[k], m, "READY")]

(* DataSyncListener::memberStatusChanged.  A target whose source has left   *)
(* queues its partition again and starts the next one, under the lock it    *)
(* has taken: when there is a primary to start from, it never returns.      *)
Leaving(m) ==
  /\ Free(m)
  /\ Faces(m, "left")
  /\ LET event  == NextEvent(m)
         gone   == event.members
         order  == LeaveOrder(event)
         orphan == Departs(event) /\ part[m] # NoPart /\ source[m] \in gone
         q      == Append(queue[m], part[m])
         hangs  == orphan /\ NextPart(q, table[m]) # NoPart
         last   == IF hangs THEN CHOOSE i \in DOMAIN order : order[i] = source[m] ELSE Len(order)
         again(i)  == IF orphan /\ order[i] = source[m] THEN StateEvents(m, q, table[m]) ELSE << >>
         passes(i) == ~(hangs /\ i = last)
         told   == [i \in 1..last |->
                      again(i) \o (IF passes(i) THEN ReleasedBy(m, order, i) ELSE << >>)]
     IN /\ HandleLeft(m, told, ~hangs)
        /\ IF orphan THEN NextPartition(m, q, table[m], TRUE,
                                        net (+) SetToBag(Receivers(m, "sourceLeft")),
                                        rows[m] \ Got(m))
                     ELSE UNCHANGED <<targetVars, hung, net, rows, filled>>
        /\ targets' = IF Departs(event)
                      THEN [targets EXCEPT ![m] = [p \in Parts |->
                              IF @[p] = Unlisted THEN @[p]
                              ELSE @[p] \ {order[i] : i \in {j \in 1..last : passes(j)}}]]
                      ELSE targets
  /\ UNCHANGED historyVars

-----------------------------------------------------------------------------
(* Actors, on the worker threads.                                           *)
Take(msg) ==
  /\ BagIn(msg, net)
  /\ UNCHANGED <<up, group, inbox, table, historyVars>>

Rest(msg) == net (-) SetToBag({msg})
Reply(msg, reply) == IF reply.to \in up THEN Rest(msg) (+) SetToBag({reply}) ELSE Rest(msg)

(* MigrationSourceActor::handleMigrationRequest, with the transfer it       *)
(* starts.  The complete message is underway as long as rows are.           *)
Request(msg) ==
  LET m == msg.to
      p == msg.part
      first == targets[m][p] = Unlisted
      done  == [Message("complete", m, msg.from, p, msg.store) EXCEPT
                  !.full = <<p, msg.store>> \in rows[m]]
  IN /\ msg.type = "request"
     /\ Take(msg)
     /\ targets' = [targets EXCEPT ![m][p] = (IF first THEN {} ELSE @) \cup {msg.from}]
     /\ IF first THEN Multicast(m, <<Status(p, m, "SOURCE")>>) ELSE UNCHANGED outbox
     /\ net' = Reply(msg, done)
     /\ UNCHANGED <<targetVars, hung, rows, filled>>

Receiver(msg, from) == [part |-> msg.part, store |-> msg.store, source |-> from]

(* StoreMigrationTargetActor::handleStoreMigrationComplete.                 *)
Complete(msg) ==
  LET m     == msg.to
      actor == Receiver(msg, msg.from)
      known == actor \in receivers[m]
  IN /\ msg.type = "complete"
     /\ Take(msg)
     /\ receivers' = [receivers EXCEPT ![m] = @ \ {actor}]
     /\ rows' = IF known /\ msg.full
                THEN [rows EXCEPT ![m] = @ \cup {<<msg.part, msg.store>>}] ELSE rows
     /\ net' = IF known THEN Reply(msg, [msg EXCEPT !.type = "storeDone"]) ELSE Rest(msg)
     /\ UNCHANGED <<outbox, queue, part, source, stores, targets, hung, filled>>

(* Mutant of StoresDone: the states of the other stores are not looked at.  *)
AnyStoreDone(map) == TRUE

StoresDone(map) == \A s \in DOMAIN map : map[s] = "READY"

(* MigrationTargetActor::handleStoreMigrationComplete.                      *)
StoreDone(msg) ==
  LET m   == msg.to
      map == [s \in DOMAIN stores[m] |-> IF s = msg.store THEN "READY" ELSE stores[m][s]]
      finished == Message("finished", m, msg.from, part[m], AnyStore)
  IN /\ msg.type = "storeDone"
     /\ Free(m)
     /\ Take(msg)
     /\ IF msg.store \in DOMAIN stores[m] /\ StoresDone(map)
        THEN /\ NextPartition(m, queue[m], table[m], FALSE, Reply(msg, finished), rows[m])
             /\ Multicast(m, <<Status(part[m], m, "READY")>> \o StateEvents(m, queue[m], table[m]))
        ELSE /\ stores' = [stores EXCEPT ![m] = map]
             /\ net' = Rest(msg)
             /\ UNCHANGED <<outbox, queue, part, source, receivers, hung, rows, filled>>
     /\ UNCHANGED targets

(* Mutant of Released: a partition stays a source until it has two targets. *)
ReleasedLate(left) == Cardinality(left) > 1

(* The last target of a partition has it.                                   *)
Released(left) == left = {}

(* handlePartitionMigrationComplete: the last target releases the source.   *)
Finished(msg) ==
  LET m == msg.to
      p == msg.part
      left == targets[m][p] \ {msg.from}
  IN /\ msg.type = "finished"
     /\ Take(msg)
     /\ net' = Rest(msg)
     /\ IF targets[m][p] = Unlisted \/ msg.from \notin targets[m][p]
        THEN UNCHANGED <<targets, outbox>>
        ELSE /\ targets' = [targets EXCEPT ![m][p] = IF Released(left) THEN Unlisted ELSE left]
             /\ IF Released(left) THEN Multicast(m, <<Status(p, m, "READY")>>)
                ELSE UNCHANGED outbox
     /\ UNCHANGED <<targetVars, hung, rows, filled>>

(* StoreMigrationTargetActor::handleCancelMigration and                     *)
(* handleSourceMemberLeave clear the partition.                             *)
StopReceiving(msg) ==
  LET m      == msg.to
      actors == {a \in receivers[m] : a.part = msg.part /\ a.store = msg.store}
      stop   == CHOOSE a \in actors : TRUE
  IN /\ msg.type \in {"cancel", "sourceLeft"}
     /\ msg.from = m
     /\ Take(msg)
     /\ IF actors = {}
        THEN /\ net' = Rest(msg)
             /\ UNCHANGED <<receivers, rows>>
        ELSE /\ receivers' = [receivers EXCEPT ![m] = @ \ {stop}]
             /\ rows' = [rows EXCEPT ![m] = @ \ {<<msg.part, msg.store>>}]
             /\ net' = IF msg.type = "cancel"
                       THEN Reply(msg, [msg EXCEPT !.type = "stop", !.to = stop.source])
                       ELSE Rest(msg)
     /\ UNCHANGED <<outbox, queue, part, source, stores, targets, hung, filled>>

(* MigrationSourceActor::handleCancelMigration stops every transfer of the  *)
(* partition and the store, whoever it is for; some may have ended.         *)
StopSending(msg) ==
  /\ msg.type = "stop"
  /\ Take(msg)
  /\ \E ended \in SUBSET {x \in BagToSet(net) : /\ x.type = "complete" /\ x.from = msg.to
                                             /\ x.part = msg.part /\ x.store = msg.store} :
       net' = [x \in BagToSet(Rest(msg)) \ ended |-> net[x]]
  /\ UNCHANGED <<outbox, targetVars, targets, hung, rows, filled>>

Acts(msg) ==
  \/ Request(msg)
  \/ Complete(msg)
  \/ StoreDone(msg)
  \/ Finished(msg)
  \/ StopReceiving(msg)
  \/ StopSending(msg)

Dispatches(m) ==
  \/ Joining(m)
  \/ Receiving(m)
  \/ Noting(m)
  \/ Changing(m)
  \/ Leaving(m)

MemberStep(m) ==
  \/ Ordering(m)
  \/ Dispatches(m)
  \/ \E msg \in BagToSet(net) : msg.to = m /\ Acts(msg)

Next ==
  \/ \E m \in Ids : MemberJoins(m)
  \/ \E gone \in SUBSET Ids : MembersLeave(gone)
  \/ \E m \in Ids : MemberStep(m)

Spec == Init /\ [][Next]_vars

(* Processes need not start or stop; CPG orders, threads dispatch and       *)
(* messages between running members arrive.                                 *)
FairSpec == Spec /\ \A m \in Ids : WF_vars(MemberStep(m))

-----------------------------------------------------------------------------
(* Types, and an idle target has nothing left to do: what is queued while   *)
(* it is busy is taken when it is done.                                     *)
TypeOK ==
  /\ up \subseteq Ids
  /\ table \in [Ids -> [Parts -> [Cells -> Cell]]]
  /\ part \in [Ids -> Parts \cup {NoPart}]
  /\ targets \in [Ids -> [Parts -> (SUBSET Ids) \cup {Unlisted}]]
  /\ rows \in [Ids -> SUBSET (Parts \X Stores)]
  /\ hung \subseteq up
  /\ \A m \in Ids : part[m] = NoPart => /\ source[m] = NoMember
                                       /\ queue[m] = << >>
                                       /\ stores[m] = NoStores

(* Members that have dispatched the same order have the same table, in the  *)
(* middle of whatever migrations and departures, as long as nothing changed *)
(* a table while a joiner was waiting for its own (it would not be in it),  *)
(* no leading member left a joiner without one, and no joiner got the one   *)
(* meant for a process that was at its position before.                     *)
TablesAgree ==
  answered /\ Quiet => \A m, n \in up : table[m] = table[n]

(* Some running member has the rows of each partition at every moment: the  *)
(* balance, the clearing of what is given up and the migrations leave none  *)
(* without a copy when changes come one at a time.                          *)
RowsSurvive ==
  hurried = 0 => \A p \in filled : \E m \in up : {p} \X Stores \subseteq rows[m]

(* A member whose own table calls it ready, or a source, has the rows: it   *)
(* is where requests are routed and where others migrate from.              *)
ReadyHasRows ==
  hurried = 0 => \A m \in up, p \in Parts :
    MemberState(table[m], p, m) \in {"READY", "SOURCE"} => {p} \X Stores \subseteq rows[m]

(* When everything has ended, every replica is ready, none is left a source *)
(* and no partition is left in the map of the source actors.                *)
AllReady ==
  hurried = 0 /\ AllDone =>
    \A m \in up, p \in Parts :
      /\ targets[m][p] = Unlisted
      /\ \A n \in Holders(table[m], p) : n \in up /\ MemberState(table[m], p, n) = "READY"

(* Migrations end.                                                          *)
MigrationsEnd == hurried = 0 ~> (AllDone \/ hurried # 0)
=============================================================================
