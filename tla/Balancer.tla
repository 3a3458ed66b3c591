------------------------------ MODULE Balancer ------------------------------
(***************************************************************************)
(* The partition balancer (idgs/cluster/balancer/): which members hold the  *)
(* replicas of each partition after a member joined or left, the delta that *)
(* is multicast, and the migrations each member draws from that delta.      *)
(*                                                                          *)
(* Members and partitions are numbered from 1, from 0 in the code; NoMember *)
(* stands for -1.  Members have equal weights, as by default, and a member  *)
(* is in `available' when isAvailable() is true of it.                      *)
(***************************************************************************)
EXTENDS Integers, Sequences, FiniteSetsExt

CONSTANTS MemberCount,   \* the size of the membership table
          Partitions,    \* partition_count
          Replicas       \* max_replica_count

ASSUME BalancerAssumption ==
  /\ MemberCount \in Nat \ {0}
  /\ Partitions \in Nat \ {0}
  /\ Replicas \in Nat \ {0}

NoMember == 0
Ids  == 1..MemberCount
Parts == 1..Partitions
Cells == 1..Replicas

(* idgs.pb.PartitionState in the order of its numbers, which is compared.   *)
PartitionStates == <<"INIT", "MIGRATING", "READY", "SOURCE">>
Rank(state) == CHOOSE n \in DOMAIN PartitionStates : PartitionStates[n] = state

Cell       == [mid : Ids \cup {NoMember}, state : {"INIT", "MIGRATING", "READY", "SOURCE"}]
EmptyCell  == [mid |-> NoMember, state |-> "INIT"]
EmptyTable == [p \in Parts |-> [r \in Cells |-> EmptyCell]]

(* step(n, ...step(2, step(1, base))).  The singleton has TLC evaluate each *)
(* step once, also where it looks for what is enabled.                      *)
Iterate(step(_, _), base, last) ==
  LET f[n \in 0..last] ==
        IF n = 0 THEN base ELSE CHOOSE x \in {step(n, acc) : acc \in {f[n - 1]}} : TRUE
  IN f[last]

-----------------------------------------------------------------------------
(* The counters of MemberWrapper, which increasePartitionCount and          *)
(* decreasePartitionCount keep equal to what the table says.                *)
Count(tbl, m, r) == Cardinality({p \in Parts : tbl[p][r].mid = m})
Total(tbl, m)    == Cardinality({pr \in Parts \X Cells : tbl[pr[1]][pr[2]].mid = m})

(* ceilf(weight / weight_per_part)                                          *)
Expect(available, m) ==
  IF m \in available
  THEN (Partitions + Cardinality(available) - 1) \div Cardinality(available)
  ELSE 0

MaxReplicas(available) == Min({Cardinality(available), Replicas})

MaxPriority == Max({10, Partitions \div 3})

(* What all replicas of a member may come to at a priority.                 *)
TotalQuota(available, m, priority) ==
  LET n == MaxReplicas(available)
  IN Expect(available, m) * n + priority * (1 + (n - 1) \div 2)

CheckMember(tbl, available, p, m) ==
  \A r \in 1..MaxReplicas(available) : tbl[p][r].mid # m

(* setMember: the new member starts at PS_INIT, and the one it replaces     *)
(* moves, with its state, to the next empty replica, when there is one.     *)
SetMember(tbl, available, p, r, m) ==
  LET old    == tbl[p][r]
      free   == {i \in (r + 1)..MaxReplicas(available) : tbl[p][i].mid = NoMember}
      placed == [tbl EXCEPT ![p][r] = [mid |-> m, state |-> "INIT"]]
  IN IF old.mid \in available /\ free # {}
     THEN [placed EXCEPT ![p][Min(free)] = old]
     ELSE placed

SwapMember(tbl, p, r1, r2) ==
  [tbl EXCEPT ![p][r1] = tbl[p][r2], ![p][r2] = tbl[p][r1]]

(* The members that may take replica r of p at a priority, and the lowest   *)
(* priority at which there is one: the search widens one by one.            *)
Takers(tbl, available, p, r, priority) ==
  {m \in available :
     /\ Count(tbl, m, r) < Expect(available, m) + priority
     /\ Total(tbl, m) < TotalQuota(available, m, priority)
     /\ CheckMember(tbl, available, p, m)}

BestTakers(tbl, available, p, r) ==
  LET found == {k \in -4..MaxPriority : Takers(tbl, available, p, r, k) # {}}
  IN IF found = {} THEN {} ELSE Takers(tbl, available, p, r, Min(found))

(* Replica by replica, partition by partition.                              *)
Order(n) == [r |-> 1 + (n - 1) \div Partitions, p |-> 1 + ((n - 1) % Partitions)]

-----------------------------------------------------------------------------
(* Mutant of CutDown: replicas that are too many stay where they are.       *)
KeepAll(tbl, available, leave) == tbl

(* simple_balance, when there are no more members than replicas.  First     *)
(* every partition is cut down to as many replicas as there are members;    *)
(* the test before swapMember reads `mid' where the loop varies `mid2'.     *)
PullForward(tbl, available, leave, p, r) ==
  LET used == {i \in (MaxReplicas(available) + 1)..Replicas : tbl[p][i].mid # NoMember}
  IN IF tbl[p][r].mid \in {NoMember, leave} /\ tbl[p][r].mid # leave /\ used # {}
     THEN SwapMember(tbl, p, r, Min(used))
     ELSE tbl

PullAll(tbl, available, leave, p) ==
  Iterate(LAMBDA r, t : PullForward(t, available, leave, p, r), tbl, MaxReplicas(available))

DropRest(tbl, available, p) ==
  Iterate(LAMBDA i, t : SetMember(t, available, p, MaxReplicas(available) + i, NoMember),
          tbl, Replicas - MaxReplicas(available))

CutDown(tbl, available, leave) ==
  IF Cardinality(available) < Replicas
  THEN Iterate(LAMBDA p, t : DropRest(PullAll(t, available, leave, p), available, p),
               tbl, Partitions)
  ELSE tbl

(* Then every replica that is empty, of the member that left, or of a       *)
(* member with too many, goes to the next taker, members in rotation.       *)
Replace(acc, available, leave, p, r) ==
  LET mid    == acc.tbl[p][r].mid
      takers == BestTakers(acc.tbl, available, p, r)
      turn(m) == (m - 1 - acc.next + MemberCount) % MemberCount
      first  == CHOOSE m \in takers : \A k \in takers : turn(m) <= turn(k)
  IN IF /\ mid \notin {NoMember, leave}
        /\ Count(acc.tbl, mid, r) <= Expect(available, mid)
     THEN acc
     ELSE IF takers # {}
     THEN [tbl  |-> SetMember(acc.tbl, available, p, r, first),
           next |-> first % MemberCount]
     ELSE IF mid = leave
     THEN [acc EXCEPT !.tbl = SetMember(acc.tbl, available, p, r, NoMember)]
     ELSE acc

SimpleBalance(tbl, available, leave) ==
  Iterate(LAMBDA n, acc : Replace(acc, available, leave, Order(n).p, Order(n).r),
          [tbl |-> CutDown(tbl, available, leave), next |-> 0],
          MaxReplicas(available) * Partitions).tbl

(* balanceLeave: replicas that are empty or of the member that left go to a *)
(* taker.  The search starts at a random member, so every best taker may be *)
(* the one, and the result is the set of tables rand() can lead to.         *)
LeaveOutcomes(tbl, available, leave, p, r) ==
  LET takers == BestTakers(tbl, available, p, r)
  IN IF tbl[p][r].mid \notin {NoMember, leave} THEN {tbl}
     ELSE IF takers # {}
     THEN {SetMember(tbl, available, p, r, m) : m \in takers}
     ELSE IF tbl[p][r].mid = leave
     THEN {SetMember(tbl, available, p, r, NoMember)}
     ELSE {tbl}

BalanceLeave(tbl, available, leave) ==
  Iterate(LAMBDA n, tables :
            UNION {LeaveOutcomes(t, available, leave, Order(n).p, Order(n).r) : t \in tables},
          {tbl}, MaxReplicas(available) * Partitions)

JoinPriorities == 8   \* from 4 down to -3
JoinSteps == Len(PartitionStates) * JoinPriorities * Partitions

(* balanceJoin: replica by replica the joiner takes its share from members  *)
(* that have too many, those in an earlier state and with the most first;   *)
(* partitions are tried in rotation, across replicas too.  Step n of a      *)
(* replica is one turn of the innermost loop; only the steps that take a    *)
(* partition change anything, and there is at most one for each.            *)
JoinPart(start, n) == 1 + ((start + n - 1) % Partitions)

Spare(tbl, available, r, n, cell) ==
  LET round    == (n - 1) \div Partitions
      priority == 4 - (round % JoinPriorities)
  IN /\ Rank(cell.state) <= 1 + round \div JoinPriorities
     /\ Count(tbl, cell.mid, r) > Expect(available, cell.mid) + priority
     /\ Total(tbl, cell.mid) > TotalQuota(available, cell.mid, priority)

Takes(tbl, available, join, r, start, n) ==
  LET cell == tbl[JoinPart(start, n)][r]
  IN /\ cell.mid # join
     /\ cell.mid = NoMember \/ Spare(tbl, available, r, n, cell)
     /\ CheckMember(tbl, available, JoinPart(start, n), join)

TakeNext(acc, available, join, r) ==
  LET hits == {n \in (acc.n + 1)..JoinSteps : Takes(acc.tbl, available, join, r, acc.start, n)}
      t    == SetMember(acc.tbl, available, JoinPart(acc.start, Min(hits)), r, join)
  IN IF acc.done \/ hits = {} THEN acc
     ELSE [acc EXCEPT !.tbl = t, !.n = Min(hits),
                      !.done = Count(t, join, r) >= Expect(available, join) - 1]

TakeShare(acc, available, join, r) ==
  LET start == IF acc.done THEN acc.start + acc.n ELSE acc.start
  IN Iterate(LAMBDA k, a : TakeNext(a, available, join, r),
             [acc EXCEPT !.start = start % Partitions, !.n = 0, !.done = FALSE],
             Partitions)

BalanceJoin(tbl, available, join) ==
  Iterate(LAMBDA r, acc : TakeShare(acc, available, join, r),
          [tbl |-> tbl, start |-> 0, n |-> 0, done |-> FALSE],
          MaxReplicas(available)).tbl

(* Mutant of Gain: the signs are the wrong way round.                       *)
Loss(t, m1, m2, r, i) ==
  (Count(t, m1, i) - Count(t, m1, r)) + (Count(t, m2, r) - Count(t, m2, i))

(* How much closer the counts of two members come when they swap replicas.  *)
Gain(t, m1, m2, r, i) ==
  (Count(t, m1, r) - Count(t, m1, i)) + (Count(t, m2, i) - Count(t, m2, r))

(* adjust: swaps replicas of a partition, to fill a gap from behind or when *)
(* it brings the counts of both members closer.                             *)
AdjustCell(tbl, available, p, r) ==
  LET partners ==
        {i \in (r + 1)..MaxReplicas(available) :
           /\ tbl[p][i].mid # NoMember
           /\ \/ tbl[p][r].mid = NoMember
              \/ Gain(tbl, tbl[p][r].mid, tbl[p][i].mid, r, i) >= 2}
  IN IF partners = {} THEN tbl ELSE SwapMember(tbl, p, r, Min(partners))

Adjust(tbl, available) ==
  Iterate(LAMBDA n, t : AdjustCell(t, available, Order(n).p, Order(n).r),
          tbl, MaxReplicas(available) * Partitions)

(* SimplePartitionBalancer::balance after member mid joined or left: the    *)
(* tables it may come to.                                                   *)
Balance(tbl, available, mid) ==
  LET leave == IF mid \in available THEN NoMember ELSE mid
      built == IF Cardinality(available) <= Replicas
               THEN {SimpleBalance(tbl, available, leave)}
               ELSE IF mid \notin available
               THEN BalanceLeave(tbl, available, mid)
               ELSE {BalanceJoin(tbl, available, mid)}
  IN {Adjust(t, available) : t \in built}

-----------------------------------------------------------------------------
NoState == "unchanged"

(* Mutant of Delta: the new state is left out.                              *)
DeltaWithoutState(old, new) ==
  {[part |-> pr[1], pos |-> pr[2],
    old |-> old[pr[1]][pr[2]].mid, new |-> new[pr[1]][pr[2]].mid, state |-> NoState]
   : pr \in {q \in Parts \X Cells : old[q[1]][q[2]].mid # new[q[1]][q[2]].mid}}

(* generatePartitionDeltaList: an item for each cell whose member changed,  *)
(* with the new state when that changed too.                                *)
Delta(old, new) ==
  {[part |-> pr[1], pos |-> pr[2],
    old |-> old[pr[1]][pr[2]].mid, new |-> new[pr[1]][pr[2]].mid,
    state |-> IF new[pr[1]][pr[2]].state # old[pr[1]][pr[2]].state
              THEN new[pr[1]][pr[2]].state ELSE NoState]
   : pr \in {q \in Parts \X Cells : old[q[1]][q[2]].mid # new[q[1]][q[2]].mid}}

(* Mutant of ApplyDelta: has_state() is not asked, and the default is INIT. *)
ApplyDeltaAlways(tbl, delta) ==
  [p \in Parts |-> [r \in Cells |->
     LET items == {d \in delta : d.part = p /\ d.pos = r}
         item  == CHOOSE d \in items : TRUE
     IN IF items = {} THEN tbl[p][r]
        ELSE [mid |-> item.new,
              state |-> IF item.state = NoState THEN "INIT" ELSE item.state]]]

(* PartitionManagerActor::balanceOk applies it to a member's own table.     *)
ApplyDelta(tbl, delta) ==
  [p \in Parts |-> [r \in Cells |->
     LET items == {d \in delta : d.part = p /\ d.pos = r}
         item  == CHOOSE d \in items : TRUE
     IN IF items = {} THEN tbl[p][r]
        ELSE [mid |-> item.new,
              state |-> IF item.state = NoState THEN tbl[p][r].state ELSE item.state]]]

(* handlePartitionStatusChangedEvent: the first cell of the member.         *)
StatusChanged(tbl, p, m, state) ==
  LET held == {r \in Cells : tbl[p][r].mid = m}
  IN IF held = {} THEN tbl ELSE [tbl EXCEPT ![p][Min(held)].state = state]

(* Mutant of DelActions: a replica that only moved is cleared too.          *)
DelActionsOfMoved(tbl, delta) ==
  {<<d.part, d.old>> : d \in {x \in delta : x.old # NoMember}}

(* generateMigrateActionList, on the table the delta was applied to.        *)
DelActions(tbl, delta) ==
  {<<d.part, d.old>> : d \in {x \in delta : x.old # NoMember
                                /\ \A r \in Cells : tbl[x.part][r].mid # x.old}}

NewActions(tbl, delta) ==
  {<<d.part, d.new>> : d \in {x \in delta :
     /\ x.new # NoMember
     /\ \E r \in Cells : tbl[x.part][r].mid = x.new
     /\ \A y \in delta : y.part = x.part => y.old # x.new}}
=============================================================================
