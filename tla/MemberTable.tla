----------------------------- MODULE MemberTable -----------------------------
(***************************************************************************)
(* The membership table of one member and the operations of                 *)
(* idgs/cluster/member_manager_actor.cpp on it.  A table is a sequence of    *)
(* MemberWrapper records; the position is the member id, from 1 here and    *)
(* from 0 in the code, and NoId stands for the code's -1.                   *)
(***************************************************************************)
EXTENDS Naturals, Sequences, FiniteSetsExt

CONSTANTS Procs,    \* processes, each identified by its (node_id, pid)
          NoProc    \* the node_id 0, pid 0 of a record nobody filled

ASSUME TableAssumption == NoProc \notin Procs

NoId == 0

(* idgs.pb.MemberState.  MS_ACTIVE is in the code's tests only: nothing in  *)
(* the repository calls mcastLocalMemberStatus.                             *)
MemberStates == {"INACTIVE", "INITIAL", "TAKEN", "JOINED", "PREPARED", "ACTIVE"}

Members == [proc : Procs \cup {NoProc}, id : Nat, state : MemberStates,
            leading : BOOLEAN]

(* A record std::vector::resize makes.                                      *)
BlankMember == [proc |-> NoProc, id |-> NoId, state |-> "INITIAL",
                leading |-> FALSE]

SetState(table, pos, state) == [table EXCEPT ![pos].state = state]

(* The position findAddPos returns: the first INACTIVE record is reused.    *)
AddPos(table) ==
  LET inactive == {i \in DOMAIN table : table[i].state = "INACTIVE"}
  IN IF inactive # {} THEN Min(inactive) ELSE Len(table) + 1

(* Mutant of TakePos: the position is found and not marked.                 *)
TakeNothing(table) == table

(* findAddPos also marks that position TAKEN; a reused record keeps the     *)
(* process, id and flags of the member that left.                           *)
TakePos(table) ==
  LET pos == AddPos(table)
  IN IF pos <= Len(table)
     THEN SetState(table, pos, "TAKEN")
     ELSE Append(table, [BlankMember EXCEPT !.state = "TAKEN"])

(* Mutant of PutMember: addMember without setId.                            *)
PutWithoutId(table, proc, leading, state, pos) ==
  LET member == [proc |-> proc, id |-> NoId, state |-> state, leading |-> leading]
  IN [i \in 1..Max({Len(table), pos}) |->
        IF i = pos THEN member
        ELSE IF i <= Len(table) THEN table[i] ELSE BlankMember]

(* addMember at a given position, the state set by the caller.              *)
PutMember(table, proc, leading, state, pos) ==
  LET member == [proc |-> proc, id |-> pos, state |-> state, leading |-> leading]
  IN [i \in 1..Max({Len(table), pos}) |->
        IF i = pos THEN member
        ELSE IF i <= Len(table) THEN table[i] ELSE BlankMember]

(* findMember(node_id, pid) for each process of the left list.              *)
PositionsOf(table, procs) ==
  {pos \in DOMAIN table :
     /\ table[pos].proc \in procs
     /\ \A i \in 1..(pos - 1) : table[i].proc # table[pos].proc}

(* Mutant of Electable: a member has to be MS_ACTIVE to be selected.        *)
ElectableActive(table, leavers) ==
  {pos \in DOMAIN table :
     /\ table[pos].id \notin {table[i].id : i \in leavers}
     /\ table[pos].state = "ACTIVE"}

(* The records selectLeading accepts.                                       *)
Electable(table, leavers) ==
  {pos \in DOMAIN table :
     /\ table[pos].id \notin {table[i].id : i \in leavers}
     /\ table[pos].state \in {"PREPARED", "ACTIVE"}}

Deactivate(table, leavers) ==
  [i \in DOMAIN table |->
     IF i \in leavers THEN [table[i] EXCEPT !.state = "INACTIVE"] ELSE table[i]]

(* Mutant of LeaveMembers: done once the leading member has been replaced.  *)
LeaveOnlyLeading(table, local, procs) ==
  LET leavers    == PositionsOf(table, procs)
      leading    == {i \in leavers : table[i].leading}
      candidates == Electable(table, leavers)
  IN IF leading = {} THEN Deactivate(table, leavers)
     ELSE IF candidates = {} THEN table
     ELSE [Deactivate(table, {Min(leading)}) EXCEPT
             ![Min(leading)].leading = FALSE,
             ![Min(candidates)].leading = TRUE]

(* handleLeaveMembers at the member with id local.  When the leading member *)
(* is among those that left, its successor is the first electable record;   *)
(* without one the table stays as it is, and members.at(-1) throws, with    *)
(* the same effect, when that record was never filled.                      *)
LeaveMembers(table, local, procs) ==
  LET leavers    == PositionsOf(table, procs)
      leading    == {i \in leavers : table[i].leading}
      candidates == Electable(table, leavers)
      successor  == table[Min(candidates)].id
      inactive   == Deactivate(table, leavers)
  IN CASE local \in {table[i].id : i \in leavers} -> table
       [] local \notin {table[i].id : i \in leavers} /\ leading = {} -> inactive
       [] OTHER ->
            IF candidates = {} THEN table
            ELSE IF successor = NoId THEN table
            ELSE [inactive EXCEPT ![Min(leading)].leading = FALSE,
                                  ![successor].leading = TRUE]
=============================================================================
