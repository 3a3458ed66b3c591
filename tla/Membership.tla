----------------------------- MODULE Membership -----------------------------
(***************************************************************************)
(* The member managers of a cluster (idgs/cluster/member_manager_actor.cpp) *)
(* above the Corosync group (idgs/cluster/adapter/corosync_*.cpp).          *)
(*                                                                          *)
(* CPG gives every process the same sequence of configuration changes and   *)
(* messages, from the change that lets it in: `log' is that sequence and    *)
(* cursor[p] the next entry of p's dispatch thread, which runs the handlers *)
(* of the member manager itself (CorosyncClusterAdapter::processMessage).   *)
(* What a handler multicasts waits in outbox[p] until the group orders it;  *)
(* a crash loses the rest of it.                                            *)
(*                                                                          *)
(* The partition manager hears of each change of a member's state and sends *)
(* messages of its own, which do not touch the membership table; of its     *)
(* listener only the PREPARED status it multicasts for a joiner is here.    *)
(***************************************************************************)
EXTENDS MemberTable, FiniteSets

CONSTANTS Address,           \* the public endpoint each process is configured with
          MaxLeaves,         \* bound: configuration changes that remove processes
          WaitSettled,       \* processes start and leave one change at a time
          LeadingMayLeave,   \* the environment may stop the leading member
          StartsAfter        \* pairs <<p, q>>: q is started after p

ASSUME MembershipAssumption ==
  /\ IsFiniteSet(Procs)
  /\ MaxLeaves \in Nat
  /\ WaitSettled \in BOOLEAN
  /\ LeadingMayLeave \in BOOLEAN
  /\ StartsAfter \subseteq Procs \X Procs

VARIABLES log,         \* what CPG delivers, in its total order
          phase,       \* "new", "starting" (joined, start() not finished),
                       \* "running", "gone"
          cursor,      \* the next entry of log each process dispatches
          outbox,      \* messages given to CPG and not ordered yet
          table,       \* MemberManagerActor::members
          local,       \* MemberManagerActor::localMemberIndex
          cfgLeading   \* MF_LEADING in the flags of the member's own config

vars == <<log, phase, cursor, outbox, table, local, cfgLeading>>

Group == {p \in Procs : phase[p] \in {"starting", "running"}}

(* Entries of the log.                                                      *)
Change(members, left, joined) ==
  [type |-> "change", members |-> members, left |-> left, joined |-> joined]
JoinMsg(p, leading)   == [type |-> "member", proc |-> p, leading |-> leading]
WholeMsg(p, members)  == [type |-> "whole", proc |-> p, table |-> members]
DeltaMsg(p, pos)      == [type |-> "delta", proc |-> p, pos |-> pos]
StatusMsg(pos, state) == [type |-> "status", pos |-> pos, state |-> state]

(* Mutant of IsLocalMember: the host is compared and not the port.          *)
IsLocalHost(p, q) == {p, q} \subseteq Procs

IsLocalMember(p, q) == Address[p] = Address[q]

(* getLocalMember() # NULL                                                  *)
HasLocal(tbl, pos) == pos # NoId /\ pos <= Len(tbl)
Leads(tbl, pos)    == HasLocal(tbl, pos) /\ tbl[pos].leading

IsMember(p)  == phase[p] = "running" /\ HasLocal(table[p], local[p])
IsLeading(p) == phase[p] = "running" /\ Leads(table[p], local[p])

Init ==
  /\ log = << >>
  /\ phase = [p \in Procs |-> "new"]
  /\ cursor = [p \in Procs |-> 1]
  /\ outbox = [p \in Procs |-> << >>]
  /\ table = [p \in Procs |-> << >>]
  /\ local = [p \in Procs |-> NoId]
  /\ cfgLeading = [p \in Procs |-> FALSE]

(* Everything that was sent is ordered and dispatched everywhere.           *)
Settled ==
  \A p \in Group : phase[p] = "running" /\ cursor[p] = Len(log) + 1
                   /\ outbox[p] = << >>

-----------------------------------------------------------------------------
(* CPG and the life of a process.                                           *)

(* CorosyncClusterAdapter::start joins the group and starts the dispatch    *)
(* thread, while Application::start has yet to set `running'.               *)
Start(p) ==
  /\ phase[p] = "new"
  /\ \A q \in Group : Address[q] # Address[p]
  /\ \A q \in Procs : <<q, p>> \in StartsAfter => phase[q] # "new"
  /\ WaitSettled => Settled
  /\ log' = Append(log, Change(Group \cup {p}, {}, {p}))
  /\ phase' = [phase EXCEPT ![p] = "starting"]
  /\ cursor' = [cursor EXCEPT ![p] = Len(log) + 1]
  /\ UNCHANGED <<outbox, table, local, cfgLeading>>

(* The end of Application::start.                                           *)
FinishStart(p) ==
  /\ phase[p] = "starting"
  /\ phase' = [phase EXCEPT ![p] = "running"]
  /\ UNCHANGED <<log, cursor, outbox, table, local, cfgLeading>>

Leaves == Cardinality({i \in DOMAIN log : log[i].type = "change" /\ log[i].left # {}})

Lose(f, procs, value) == [p \in Procs |-> IF p \in procs THEN value ELSE f[p]]

(* Processes stop or crash, together when their node fails; their memory    *)
(* and the messages CPG has not ordered yet are lost.                       *)
Leave(procs) ==
  /\ procs # {}
  /\ procs \subseteq Group
  /\ Leaves < MaxLeaves
  /\ WaitSettled => Settled
  /\ ~LeadingMayLeave => \A p \in procs : ~cfgLeading[p] /\ ~IsLeading(p)
  /\ log' = Append(log, Change(Group \ procs, procs, {}))
  /\ phase' = Lose(phase, procs, "gone")
  /\ cursor' = Lose(cursor, procs, 1)
  /\ outbox' = Lose(outbox, procs, << >>)
  /\ table' = Lose(table, procs, << >>)
  /\ local' = Lose(local, procs, NoId)
  /\ cfgLeading' = Lose(cfgLeading, procs, FALSE)

(* The group orders the next message of p.                                  *)
Order(p) ==
  /\ outbox[p] # << >>
  /\ log' = Append(log, Head(outbox[p]))
  /\ outbox' = [outbox EXCEPT ![p] = Tail(@)]
  /\ UNCHANGED <<phase, cursor, table, local, cfgLeading>>

-----------------------------------------------------------------------------
(* The dispatch thread of p takes the next entry.  Handlers read only the   *)
(* state of p and the entry, so a later entry handled before the messages   *)
(* of an earlier one are ordered gives no log that waiting does not give.   *)
Dispatch(p, type) ==
  /\ p \in Group
  /\ cursor[p] <= Len(log)
  /\ outbox[p] = << >>
  /\ log[cursor[p]].type = type
  /\ cursor' = [cursor EXCEPT ![p] = @ + 1]
  /\ UNCHANGED <<log, phase>>

Multicast(p, messages) == outbox' = [outbox EXCEPT ![p] = messages]

(* deliver() and configChange() drop what arrives before isRunning().       *)
IgnoreWhileStarting(p) ==
  /\ phase[p] = "starting"
  /\ \E type \in {"change", "member", "whole", "delta", "status"} :
       Dispatch(p, type)
  /\ UNCHANGED <<outbox, table, local, cfgLeading>>

(* Mutant of MemberJoined: an index from 0 in place of the position.        *)
MemberJoinedFromZero(p, tbl, pos, joined) ==
  Multicast(p, IF Leads(tbl, pos) THEN <<StatusMsg(joined - 1, "PREPARED")>> ELSE << >>)

(* PartitionManagerActor::memberStatusChanged with MS_JOINED: the leading   *)
(* member multicasts that the joiner is PREPARED.                           *)
MemberJoined(p, tbl, pos, joined) ==
  Multicast(p, IF Leads(tbl, pos) THEN <<StatusMsg(joined, "PREPARED")>> ELSE << >>)

(* Mutant of HandleChange: any process that joins takes the leading flag.   *)
HandleChangeAllLeading(p) ==
  /\ phase[p] = "running"
  /\ Dispatch(p, "change")
  /\ LET event == log[cursor[p]]
     IN /\ table' = [table EXCEPT ![p] =
                       IF event.left # {} /\ HasLocal(@, local[p])
                       THEN LeaveMembers(@, local[p], event.left)
                       ELSE @]
        /\ cfgLeading' = [cfgLeading EXCEPT ![p] = @ \/ event.joined # {}]
        /\ Multicast(p, IF p \in event.joined THEN <<JoinMsg(p, TRUE)>> ELSE << >>)
  /\ UNCHANGED local

(* handleClusterChange: first the members that left, then those that        *)
(* joined; the first process of a group gives itself the leading flag.      *)
HandleChange(p) ==
  /\ phase[p] = "running"
  /\ Dispatch(p, "change")
  /\ LET event   == log[cursor[p]]
         leading == cfgLeading[p] \/
                    (event.joined # {}
                     /\ Cardinality(event.joined) >= Cardinality(event.members))
     IN /\ table' = [table EXCEPT ![p] =
                       IF event.left # {} /\ HasLocal(@, local[p])
                       THEN LeaveMembers(@, local[p], event.left)
                       ELSE @]
        /\ cfgLeading' = [cfgLeading EXCEPT ![p] = leading]
        /\ Multicast(p, IF p \in event.joined THEN <<JoinMsg(p, leading)>>
                                              ELSE << >>)
  /\ UNCHANGED local

(* handleLeadingJoinEvent: every process that sees it adds the member.      *)
HandleLeadingJoin(p) ==
  /\ phase[p] = "running"
  /\ Dispatch(p, "member")
  /\ LET event == log[cursor[p]]
         pos   == AddPos(table[p])
         tbl   == PutMember(table[p], event.proc, TRUE, "JOINED", pos)
         index == IF IsLocalMember(p, event.proc) THEN pos ELSE local[p]
     IN /\ event.leading
        /\ table' = [table EXCEPT ![p] = tbl]
        /\ local' = [local EXCEPT ![p] = index]
        /\ MemberJoined(p, tbl, index, pos)
  /\ UNCHANGED cfgLeading

(* Mutant of HandleNormalJoin: the delta goes out before the whole table.   *)
HandleNormalJoinSwapped(p) ==
  /\ phase[p] = "running"
  /\ Dispatch(p, "member")
  /\ LET event == log[cursor[p]]
     IN /\ ~event.leading
        /\ IF Leads(table[p], local[p])
           THEN /\ Multicast(p, <<DeltaMsg(event.proc, AddPos(table[p])),
                                  WholeMsg(event.proc, table[p])>>)
                /\ table' = [table EXCEPT ![p] = TakePos(@)]
           ELSE UNCHANGED <<outbox, table>>
  /\ UNCHANGED <<local, cfgLeading>>

(* handleNormalJoin, at the leading member only: the whole table is sent    *)
(* before the position is taken, and the delta with the position after it.  *)
HandleNormalJoin(p) ==
  /\ phase[p] = "running"
  /\ Dispatch(p, "member")
  /\ LET event == log[cursor[p]]
     IN /\ ~event.leading
        /\ IF Leads(table[p], local[p])
           THEN /\ Multicast(p, <<WholeMsg(event.proc, table[p]),
                                  DeltaMsg(event.proc, AddPos(table[p]))>>)
                /\ table' = [table EXCEPT ![p] = TakePos(@)]
           ELSE UNCHANGED <<outbox, table>>
  /\ UNCHANGED <<local, cfgLeading>>

(* Mutant of HandleWhole: the joiner skips the members that left.           *)
HandleWholeSkipping(p) ==
  /\ phase[p] = "running"
  /\ Dispatch(p, "whole")
  /\ LET event == log[cursor[p]]
         present == SelectSeq(event.table, LAMBDA m : m.state # "INACTIVE")
     IN table' = [table EXCEPT ![p] =
                    IF IsLocalMember(p, event.proc) THEN @ \o present ELSE @]
  /\ UNCHANGED <<outbox, local, cfgLeading>>

(* handleWholeMemberTableEvent: the joiner appends the table to its own.    *)
HandleWhole(p) ==
  /\ phase[p] = "running"
  /\ Dispatch(p, "whole")
  /\ LET event == log[cursor[p]]
     IN table' = [table EXCEPT ![p] =
                    IF IsLocalMember(p, event.proc) THEN @ \o event.table ELSE @]
  /\ UNCHANGED <<outbox, local, cfgLeading>>

(* handleDeltaMemberEvent: ignored by a process that has no table yet.      *)
HandleDelta(p) ==
  /\ phase[p] = "running"
  /\ Dispatch(p, "delta")
  /\ LET event == log[cursor[p]]
         tbl   == PutMember(table[p], event.proc, FALSE, "JOINED", event.pos)
         index == IF IsLocalMember(p, event.proc) THEN event.pos ELSE local[p]
     IN IF table[p] = << >>
        THEN UNCHANGED <<outbox, table, local>>
        ELSE /\ table' = [table EXCEPT ![p] = tbl]
             /\ local' = [local EXCEPT ![p] = index]
             /\ MemberJoined(p, tbl, index, event.pos)
  /\ UNCHANGED cfgLeading

(* handleMemberStatusEvent: ignored by a process that is no member yet.     *)
HandleStatus(p) ==
  /\ phase[p] = "running"
  /\ Dispatch(p, "status")
  /\ LET event == log[cursor[p]]
     IN table' = [table EXCEPT ![p] =
                    IF HasLocal(@, local[p]) /\ event.pos <= Len(@)
                    THEN SetState(@, event.pos, event.state)
                    ELSE @]
  /\ UNCHANGED <<outbox, local, cfgLeading>>

Handle(p) ==
  \/ IgnoreWhileStarting(p)
  \/ HandleChange(p) \/ HandleLeadingJoin(p) \/ HandleNormalJoin(p)
  \/ HandleWhole(p) \/ HandleDelta(p) \/ HandleStatus(p)

Next ==
  \/ \E p \in Procs : Start(p) \/ FinishStart(p) \/ Order(p) \/ Handle(p)
  \/ \E procs \in SUBSET Procs : Leave(procs)

Spec == Init /\ [][Next]_vars

(* Application::start returns, Corosync orders what it was given, and the   *)
(* dispatch thread of a live process keeps dispatching.                     *)
FairSpec ==
  Spec /\ \A p \in Procs : WF_vars(FinishStart(p)) /\ WF_vars(Order(p))
                           /\ WF_vars(Handle(p))

-----------------------------------------------------------------------------
IsEntry(e) ==
  CASE e.type = "change" ->
         e \in [type : {"change"}, members : SUBSET Procs, left : SUBSET Procs,
               joined : SUBSET Procs]
    [] e.type = "member" -> e.proc \in Procs /\ e.leading \in BOOLEAN
    [] e.type = "whole"  -> e.proc \in Procs /\ e.table \in Seq(Members)
    [] e.type = "delta"  -> e.proc \in Procs /\ e.pos \in Nat \ {NoId}
    [] e.type = "status" -> e.pos \in Nat \ {NoId} /\ e.state \in MemberStates

(* Type correctness of the member managers and of what they exchange.       *)
TypeOK ==
  /\ \A i \in DOMAIN log : IsEntry(log[i])
  /\ phase \in [Procs -> {"new", "starting", "running", "gone"}]
  /\ cursor \in [Procs -> Nat \ {0}]
  /\ \A p \in Procs : \A i \in DOMAIN outbox[p] : IsEntry(outbox[p][i])
  /\ table \in [Procs -> Seq(Members)]
  /\ local \in [Procs -> Nat]
  /\ cfgLeading \in [Procs -> BOOLEAN]

(* At most one live process acts as the leading member, whatever each has   *)
(* dispatched so far: two would answer the same join and balance the        *)
(* partitions twice (handleJoinEvent, memberStatusChanged).                 *)
OneLeading ==
  \A p, q \in Procs : IsLeading(p) /\ IsLeading(q) => p = q

(* No two live members have the same id: findAddPos never gives a position  *)
(* that is in use or promised to a joiner whose delta is still in flight.   *)
UniqueIds ==
  \A p, q \in Procs : IsMember(p) /\ IsMember(q) /\ local[p] = local[q] => p = q

(* The record a member finds at its own id is its own, so that messages to  *)
(* that id come to it (handleDeltaMemberEvent, addMember).                  *)
OwnEntry ==
  \A p \in Procs :
    IsMember(p) => table[p][local[p]].proc = p /\ table[p][local[p]].id = local[p]

(* Once everything is dispatched all members hold the same table.           *)
UnifiedState ==
  Settled => \A p, q \in Procs : IsMember(p) /\ IsMember(q) => table[p] = table[q]

(* Once everything is dispatched no member counts on a process that left.   *)
LeaversInactive ==
  Settled =>
    \A p \in Procs : IsMember(p) =>
      \A i \in DOMAIN table[p] :
        LET member == table[p][i]
        IN member.proc # NoProc /\ member.state \in {"JOINED", "PREPARED", "ACTIVE"}
             => phase[member.proc] # "gone"

(* Once everything is dispatched, a cluster with a PREPARED member has one  *)
(* of its members for leading.                                              *)
LeadingExists ==
  Settled /\ (\E p \in Procs : IsMember(p) /\ table[p][local[p]].state = "PREPARED")
    => \E p \in Procs : IsLeading(p)

(* A member never changes its id (localMemberIndex is read, by reference,   *)
(* by every part of the process).                                           *)
IdIsStable ==
  [][\A p \in Procs :
       local[p] # NoId /\ phase'[p] # "gone" => local'[p] = local[p]]_vars

(* The join message a leading member dispatches makes its sender a PREPARED *)
(* member, unless the sender stops (handleNormalJoin to mcastMemberStatus). *)
BeingAnswered(p) ==
  \E q \in Procs : /\ IsLeading(q)
                   /\ cursor[q] <= Len(log)
                   /\ log[cursor[q]] = JoinMsg(p, FALSE)
Prepared(p) == IsMember(p) /\ table[p][local[p]].state = "PREPARED"
JoinCompletes ==
  \A p \in Procs : BeingAnswered(p) ~> (Prepared(p) \/ phase[p] = "gone")

=============================================================================
