---------------------------- MODULE MCMigration ----------------------------
(* Migration for TLC.                                                       *)
EXTENDS Migration

CONSTANTS s1, s2,
          MaxPending   \* bound: events a member is behind the order
TwoStores == {s1, s2}
OneStore == {s1}

(* A cluster of three members that serves: members 1 and 2 have a replica   *)
(* of every partition, ready, one of each is first for half of them.        *)
Replica(m) == [mid |-> m, state |-> "READY"]
ServingTable ==
  [p \in Parts |-> IF p % 2 = 1 THEN <<Replica(2), Replica(1)>> ELSE <<Replica(1), Replica(2)>>]

InitServing ==
  /\ up = Ids
  /\ group = [state |-> [m \in Ids |-> "PREPARED"], leading |-> 1]
  /\ inbox = [m \in Ids |-> << >>]
  /\ outbox = [m \in Ids |-> << >>]
  /\ table = [m \in Ids |-> ServingTable]
  /\ queue = [m \in Ids |-> << >>]
  /\ part = [m \in Ids |-> NoPart]
  /\ source = [m \in Ids |-> NoMember]
  /\ stores = [m \in Ids |-> NoStores]
  /\ receivers = [m \in Ids |-> {}]
  /\ targets = [m \in Ids |-> [p \in Parts |-> Unlisted]]
  /\ hung = {}
  /\ net = EmptyBag
  /\ rows = [m \in Ids |-> IF m = 3 THEN {} ELSE Parts \X Stores]
  /\ filled = Parts
  /\ changes = 0
  /\ waiting = {}
  /\ answered = TRUE
  /\ hurried = 0

Near == \A m \in Ids : Len(inbox[m]) <= MaxPending

(* Beyond these states no safety property says anything, and none comes     *)
(* back: both histories only ever go one way.                               *)
Promising == answered \/ hurried = 0

ServingSpec == InitServing /\ [][Next]_vars
=============================================================================
