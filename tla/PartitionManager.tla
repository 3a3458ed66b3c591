-------------------------- MODULE PartitionManager --------------------------
(***************************************************************************)
(* The partition tables of the members of a cluster                         *)
(* (idgs/cluster/partition_manager_actor.cpp).  Each member has its own and *)
(* changes it only by what CPG delivers to all of them in one order: that a *)
(* member joined or left, the whole table for a joiner, the delta of a      *)
(* balance, the status of one replica.  The leading member balances.        *)
(*                                                                          *)
(* The membership is that of module Membership, taken where it agrees: the  *)
(* members see the same changes at the same places of the order, a joiner   *)
(* from the place at which it joins.  An event carries the membership of    *)
(* its place, and goes only to the members whose handler does anything.     *)
(* What is left of the order is inbox[m], what CPG has ordered and m has    *)
(* yet to dispatch, and outbox[m], what m has multicast and CPG has yet to  *)
(* order.                                                                   *)
(***************************************************************************)
EXTENDS Balancer, SequencesExt

VARIABLES up,       \* the members whose process runs
          group,    \* the membership at the end of the order
          inbox,
          outbox,
          table     \* PartitionManagerActor::partitions

tableVars == <<up, group, inbox, outbox, table>>

Joined(m, ms)        == [type |-> "joined", member |-> m, group |-> ms]
Left(gone, ms)       == [type |-> "left", members |-> gone, group |-> ms]
Prepared(m)          == [type |-> "prepared", member |-> m]
Whole(m, tbl)        == [type |-> "whole", member |-> m, table |-> tbl]
DeltaEvent(items)    == [type |-> "delta", items |-> items]
Status(p, m, state)  == [type |-> "status", part |-> p, member |-> m, state |-> state]

(* A membership: the state of each member and which one is leading.         *)
NoMembers == [state |-> [m \in Ids |-> "INACTIVE"], leading |-> NoMember]

Available(ms) == {m \in Ids : ms.state[m] # "INACTIVE"}

(* handleLeadingJoinEvent and handleDeltaMemberEvent.                       *)
WithJoined(ms, m) ==
  [state   |-> [ms.state EXCEPT ![m] = "JOINED"],
   leading |-> IF ms.leading = NoMember THEN m ELSE ms.leading]

(* handleLeaveMembers: without a member to select nothing changes.          *)
Successors(ms, gone) == {m \in Ids \ gone : ms.state[m] = "PREPARED"}

WithLeft(ms, gone) ==
  IF ms.leading \in gone /\ Successors(ms, gone) = {} THEN ms
  ELSE [state   |-> [m \in Ids |-> IF m \in gone THEN "INACTIVE" ELSE ms.state[m]],
        leading |-> IF ms.leading \in gone THEN Min(Successors(ms, gone))
                                           ELSE ms.leading]

InitTables ==
  /\ up = {}
  /\ group = NoMembers
  /\ inbox = [m \in Ids |-> << >>]
  /\ outbox = [m \in Ids |-> << >>]
  /\ table = [m \in Ids |-> EmptyTable]

(* The group orders event: every member in `to' will dispatch it.           *)
Ordered(to, event) ==
  inbox' = [m \in Ids |-> IF m \in to THEN Append(inbox[m], event) ELSE inbox[m]]

Quiet == \A m \in up : inbox[m] = << >> /\ outbox[m] = << >>

-----------------------------------------------------------------------------
(* A process joins at the first free position, with an empty table.         *)
Join(m) ==
  /\ Available(group) # Ids
  /\ m = Min(Ids \ Available(group))
  /\ group.leading # NoMember => group.leading \in up
  /\ up' = up \cup {m}
  /\ group' = WithJoined(group, m)
  /\ table' = [table EXCEPT ![m] = EmptyTable]
  /\ Ordered({group'.leading}, Joined(m, group'))
  /\ UNCHANGED outbox

(* Processes stop or crash, and what CPG has not ordered yet is lost.       *)
Leave(gone) ==
  /\ gone # {}
  /\ gone \subseteq up
  /\ gone # up
  /\ up' = up \ gone
  /\ group' = WithLeft(group, gone)
  /\ inbox' = [m \in Ids |-> IF m \in gone THEN << >>
                             ELSE IF m \in up THEN Append(inbox[m], Left(gone, group))
                             ELSE inbox[m]]
  /\ outbox' = [m \in Ids |-> IF m \in gone THEN << >> ELSE outbox[m]]
  /\ UNCHANGED table

(* Mutant of Audience: a member that is not prepared ignores what changes   *)
(* the table.                                                               *)
AudiencePrepared(event) ==
  CASE event.type = "whole"    -> {event.member}
    [] event.type = "prepared" -> {}
    [] OTHER                   -> {m \in up : group.state[m] = "PREPARED"}

(* Who does anything with an event (handleWholePartitionTableEvent is for   *)
(* the joiner, MS_PREPARED only changes the membership).                    *)
Audience(event) ==
  CASE event.type = "whole"    -> {event.member}
    [] event.type = "prepared" -> {}
    [] OTHER                   -> up

(* CPG orders the next message of m.                                        *)
Sequence(m) ==
  /\ outbox[m] # << >>
  /\ LET event == Head(outbox[m])
     IN /\ Ordered(Audience(event) \cap up, event)
        /\ group' = IF event.type = "prepared" /\ group.state[event.member] # "INACTIVE"
                    THEN [group EXCEPT !.state[event.member] = "PREPARED"]
                    ELSE group
  /\ outbox' = [outbox EXCEPT ![m] = Tail(@)]
  /\ UNCHANGED <<up, table>>

-----------------------------------------------------------------------------
(* The dispatch thread of m takes the next event.  Handlers multicast at    *)
(* the end and read only the state of m: waiting for the outbox loses no    *)
(* order that the group could see.                                          *)
NextEvent(m) == Head(inbox[m])

Faces(m, type) == m \in up /\ inbox[m] # << >> /\ NextEvent(m).type = type

Dispatch(m, type) ==
  /\ Faces(m, type)
  /\ outbox[m] = << >>
  /\ inbox' = [inbox EXCEPT ![m] = Tail(@)]
  /\ UNCHANGED <<up, group>>

Multicast(m, events) == outbox' = [outbox EXCEPT ![m] = @ \o events]

(* balance: the delta between the table of m and what the balancer makes of *)
(* it once `changed' has joined or left.                                    *)
Balances(m, available, changed) ==
  {DeltaEvent(Delta(table[m], new)) : new \in Balance(table[m], available, changed)}

(* What the leading member answers a joiner with: its whole table, unless   *)
(* it is the joiner itself, the delta, and the joiner's MS_PREPARED.        *)
WholeFor(m, joiner) == IF joiner = m THEN << >> ELSE <<Whole(joiner, table[m])>>

JoinAnswer(m, joiner, delta) == WholeFor(m, joiner) \o <<delta, Prepared(joiner)>>

(* memberStatusChanged with MS_JOINED, whose work the leading member does.  *)
HandleJoined(m) ==
  /\ Dispatch(m, "joined")
  /\ LET event == NextEvent(m)
     IN \E delta \in Balances(m, Available(event.group), event.member) :
          Multicast(m, JoinAnswer(m, event.member, delta))
  /\ UNCHANGED table

(* handleLeaveMembers goes through the leavers one by one, the old leading  *)
(* member first, and does nothing when it needs a leading member and there  *)
(* is none to select.                                                       *)
LeaveOrder(event) ==
  LET first == event.members \cap {event.group.leading}
  IN SetToSeq(first) \o SetToSeq(event.members \ first)

Departs(event) ==
  event.group.leading \in event.members => Successors(event.group, event.members) # {}

(* memberStatusChanged with MS_INACTIVE: the leading member multicasts a    *)
(* delta for each leaver, all of them from the table as it is.  The call    *)
(* before the old leading member loses its flag only counts (recalculate).  *)
LeaveDeltas(m, event) ==
  LET order == LeaveOrder(event)
      stay(i) == Available(event.group) \ {order[j] : j \in 1..i}
      from(i) == {<<d>> : d \in Balances(m, stay(i), order[i])}
  IN IF WithLeft(event.group, event.members).leading # m
     THEN {[i \in DOMAIN order |-> << >>]}
     ELSE {deltas \in [DOMAIN order -> UNION {from(i) : i \in DOMAIN order}] :
             \A i \in DOMAIN order : deltas[i] \in from(i)}

(* handleLeaveMembers.  For leaver i the other listener multicasts told[i], *)
(* after the partition manager; in the first call for the old leading       *)
(* member it is alone.  It may never return from the last call it has.      *)
HandleLeft(m, told, returns) ==
  /\ Dispatch(m, "left")
  /\ LET event == NextEvent(m)
         order == LeaveOrder(event)
     IN IF Departs(event)
        THEN \E deltas \in LeaveDeltas(m, event) :
               Multicast(m, FlattenSeq([i \in DOMAIN told |->
                 IF order[i] # event.group.leading THEN deltas[i] \o told[i]
                 ELSE IF i = Len(told) /\ ~returns THEN told[i]
                 ELSE told[i] \o deltas[i]]))
        ELSE UNCHANGED outbox
  /\ UNCHANGED table

(* handleWholePartitionTableEvent.                                          *)
HandleWhole(m) ==
  /\ Dispatch(m, "whole")
  /\ table' = [table EXCEPT ![m] = NextEvent(m).table]
  /\ UNCHANGED outbox

(* handleDeltaPartitionEvent, before it tells its listener.                 *)
HandleDelta(m) ==
  /\ Dispatch(m, "delta")
  /\ table' = [table EXCEPT ![m] = ApplyDelta(@, NextEvent(m).items)]

(* handlePartitionStatusChangedEvent.                                       *)
HandleStatus(m) ==
  /\ Dispatch(m, "status")
  /\ LET event == NextEvent(m)
     IN table' = [table EXCEPT ![m] =
                    StatusChanged(@, event.part, event.member, event.state)]
  /\ UNCHANGED outbox

-----------------------------------------------------------------------------
(* getPrimaryMemberId: the first replica that is ready.                     *)
Primary(tbl, p) ==
  LET ready == {r \in Cells : tbl[p][r].state \in {"READY", "SOURCE"}}
  IN IF ready = {} THEN NoMember ELSE tbl[p][Min(ready)].mid

(* getMemberState.                                                          *)
MemberState(tbl, p, m) ==
  LET held == {r \in Cells : tbl[p][r].mid = m}
  IN IF held = {} THEN "INIT" ELSE tbl[p][Min(held)].state

Holders(tbl, p) == {tbl[p][r].mid : r \in Cells} \ {NoMember}
=============================================================================
