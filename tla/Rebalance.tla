----------------------------- MODULE Rebalance -----------------------------
(***************************************************************************)
(* The partition table as the leading member evolves it when members join   *)
(* and leave one after the other (PartitionManagerActor::memberStatusChanged*)
(* and balanceOk), each change applied before the next one.  Between them   *)
(* members finish migrations in any order; up to MaxBusy changes come while *)
(* some are still to be made.                                               *)
(***************************************************************************)
EXTENDS Balancer, Functions

CONSTANTS MaxChanges,    \* bound: joins and departures
          MaxBusy        \* bound: those that come while migrations are still to be made

ASSUME RebalanceAssumption ==
  /\ MaxChanges \in Nat
  /\ MaxBusy \in Nat

VARIABLES available,   \* the members isAvailable() is true of
          tbl,         \* PartitionManagerActor::partitions
          pending,     \* migrations a member has yet to make: <<partition, member>>
          changes,     \* history: joins and departures so far
          busy,        \* history: those that came while migrations were to be made
          built        \* history: the balancer's own table at the last of them

vars == <<available, tbl, pending, changes, busy, built>>

Init ==
  /\ available = {}
  /\ tbl = EmptyTable
  /\ pending = {}
  /\ changes = 0
  /\ busy = 0
  /\ built = EmptyTable

(* Mutant of Apply: the list of actions is drawn from the table before.     *)
ApplyEarly(new) ==
  LET delta == Delta(tbl, new)
  IN /\ tbl' = ApplyDelta(tbl, delta)
     /\ pending' = (pending \ DelActions(tbl, delta)) \cup NewActions(tbl, delta)

(* handleDeltaPartitionEvent: the delta, then the migrations it asks for.   *)
Apply(new) ==
  LET delta == Delta(tbl, new)
      next  == ApplyDelta(tbl, delta)
  IN /\ tbl' = next
     /\ pending' = (pending \ DelActions(next, delta)) \cup NewActions(next, delta)

(* A member joined (MS_JOINED) or left (MS_INACTIVE) and the leading member *)
(* balances.                                                                *)
Change(m) ==
  LET after == IF m \in available THEN available \ {m} ELSE available \cup {m}
  IN /\ changes < MaxChanges
     /\ pending # {} => busy < MaxBusy
     /\ after # {}
     /\ available' = after
     /\ changes' = changes + 1
     /\ busy' = IF pending = {} THEN busy ELSE busy + 1
     /\ \E new \in Balance(tbl, after, m) : built' = new /\ Apply(new)

(* The new holder of a replica has the data and is PS_READY; it migrates    *)
(* from the primary, and makes an empty partition when there is none.       *)
Migrate(p, m) ==
  /\ <<p, m>> \in pending
  /\ pending' = pending \ {<<p, m>>}
  /\ tbl' = StatusChanged(tbl, p, m, "READY")
  /\ UNCHANGED <<available, changes, busy, built>>

Next ==
  \/ \E m \in Ids : Change(m)
  \/ \E p \in Parts, m \in Ids : Migrate(p, m)

Spec == Init /\ [][Next]_vars

-----------------------------------------------------------------------------
Held(t, p) == {t[p][r].mid : r \in Cells} \ {NoMember}
Ready(t, p) == {t[p][r].mid : r \in {i \in Cells : t[p][i].state = "READY"}} \ {NoMember}

(* Every partition has as many replicas as members allow, on available      *)
(* members only, and no two of them on one member (checkMember).            *)
FullyReplicated ==
  available # {} =>
    \A p \in Parts :
      LET used == {r \in Cells : tbl[p][r].mid # NoMember}
      IN /\ Held(tbl, p) \subseteq available
         /\ Cardinality(used) = MaxReplicas(available)
         /\ IsInjective([r \in used |-> tbl[p][r].mid])

(* Balance is no worse than the bound beyond which the balancer's own test  *)
(* reports an error, for each replica that is in use.                       *)
Balanced ==
  \A r \in 1..(IF available = {} THEN 0 ELSE MaxReplicas(available)), m \in available :
    LET off == Count(tbl, m, r) - Expect(available, m)
        gap == IF off < 0 THEN -off ELSE off
    IN gap <= r + 1 \/ gap <= Partitions \div (5 * Cardinality(available))

(* The delta carries the whole change: applying it gives what the balancer  *)
(* built where the member changed, and leaves alone what keeps its member,  *)
(* with its state, also where the balancer dropped that member and set it   *)
(* again at PS_INIT.                                                        *)
DeltaIsFaithful ==
  [][changes' # changes =>
       \A p \in Parts, r \in Cells :
         tbl'[p][r] = IF tbl[p][r].mid = built'[p][r].mid THEN tbl[p][r] ELSE built'[p][r]]_vars

(* The migration lists are right: a member new to a partition migrates it.  *)
NewHoldersMigrate ==
  [][changes' # changes =>
       \A p \in Parts : \A m \in Held(tbl', p) \ Held(tbl, p) : <<p, m>> \in pending']_vars

(* As long as there are more members than replicas, a balance leaves every  *)
(* partition that was all ready a ready copy on a member that stays:        *)
(* balanceJoin and balanceLeave replace one of its replicas at most.  Where *)
(* a partition has a single replica that one may be the one replaced.       *)
ReadyCopyKept ==
  [][changes' # changes /\ Replicas > 1 /\ Cardinality(available') > Replicas =>
       \A p \in Parts :
         /\ Held(tbl, p) = Ready(tbl, p)
         /\ Held(tbl, p) \cap available' # {}
         => Ready(tbl', p) \cap available' # {}]_vars

(* Every replica is ready once the migrations have ended.                   *)
MigratedIsReady ==
  pending = {} => \A p \in Parts : Held(tbl, p) = Ready(tbl, p)
=============================================================================
