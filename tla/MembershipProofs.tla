-------------------------- MODULE MembershipProofs --------------------------
(***************************************************************************)
(* Membership for any number of processes, any order of starts, any number  *)
(* of leaves that spare the leading member: what the group has ordered, and *)
(* who has dispatched how much of it, decides who leads, which positions    *)
(* are promised, and to whom.                                               *)
(*                                                                          *)
(* The last part is about changes that come one at a time, the leading      *)
(* member leaving too: what each process holds at each point of a change,   *)
(* and that all hold the same once it is over.                              *)
(***************************************************************************)
EXTENDS Membership, DataLemmas

-----------------------------------------------------------------------------
(* What the operations on a membership table return.                        *)
LEMMA MaxOfTwo ==
  ASSUME NEW m \in Nat, NEW n \in Nat
  PROVE  Max({m, n}) = IF m >= n THEN m ELSE n
<1> DEFINE k == IF m >= n THEN m ELSE n
<1>1. k \in {m, n} /\ \A y \in {m, n} : k >= y
  OBVIOUS
<1>2. \A x \in {m, n} : (\A y \in {m, n} : x >= y) => x = k
  OBVIOUS
<1> QED  BY <1>1, <1>2 DEF Max

(* A table is a function from the positions to records.                     *)
LEMMA TableOfRecords ==
  ASSUME NEW n \in Nat, NEW f \in [1..n -> Members]
  PROVE  f \in Seq(Members) /\ Len(f) = n /\ DOMAIN f = 1..n
OBVIOUS

(* findAddPos returns an INACTIVE record, or the end of the table.          *)
LEMMA AddPosFree ==
  ASSUME NEW tbl \in Seq(Members)
  PROVE  /\ AddPos(tbl) \in Nat \ {NoId}
         /\ \/ AddPos(tbl) \in DOMAIN tbl /\ tbl[AddPos(tbl)].state = "INACTIVE"
            \/ AddPos(tbl) = Len(tbl) + 1
<1> DEFINE inactive == {i \in DOMAIN tbl : tbl[i].state = "INACTIVE"}
<1>1. DOMAIN tbl = 1..Len(tbl) /\ Len(tbl) \in Nat
  OBVIOUS
<1>2. inactive \in SUBSET Nat
  BY <1>1
<1>3. CASE inactive # {}
  <2>1. Min(inactive) \in inactive
    BY <1>2, <1>3, MinOfNats
  <2> QED  BY <1>1, <1>3, <2>1 DEF AddPos, NoId
<1>4. CASE inactive = {}
  BY <1>1, <1>4 DEF AddPos, NoId
<1> QED  BY <1>3, <1>4

(* It marks that record TAKEN, and leaves the others.                       *)
LEMMA TakePosTable ==
  ASSUME NEW tbl \in Seq(Members)
  PROVE  /\ TakePos(tbl) \in Seq(Members)
         /\ AddPos(tbl) \in DOMAIN TakePos(tbl)
         /\ Len(TakePos(tbl)) >= Len(tbl)
         /\ TakePos(tbl)[AddPos(tbl)].state = "TAKEN"
         /\ AddPos(tbl) \notin DOMAIN tbl =>
              /\ TakePos(tbl)[AddPos(tbl)] = [BlankMember EXCEPT !.state = "TAKEN"]
         /\ \A i \in DOMAIN TakePos(tbl) :
              /\ i # AddPos(tbl) => i \in DOMAIN tbl /\ TakePos(tbl)[i] = tbl[i]
              /\ i \in DOMAIN tbl => /\ TakePos(tbl)[i].proc = tbl[i].proc
                                     /\ TakePos(tbl)[i].id = tbl[i].id
                                     /\ TakePos(tbl)[i].leading = tbl[i].leading
<1> DEFINE pos == AddPos(tbl)
<1>1. DOMAIN tbl = 1..Len(tbl) /\ Len(tbl) \in Nat /\ pos \in Nat
  BY AddPosFree
<1>2. \A i \in DOMAIN tbl : tbl[i] \in Members
  OBVIOUS
<1>3. CASE pos \in DOMAIN tbl
  <2> DEFINE taken == [tbl EXCEPT ![pos].state = "TAKEN"]
  <2>1. TakePos(tbl) = taken
    BY <1>1, <1>3 DEF TakePos, SetState
  <2>2. taken \in Seq(Members) /\ DOMAIN taken = DOMAIN tbl /\ Len(taken) = Len(tbl)
    BY SMTT(20), <1>1, <1>2, <1>3 DEF Members, MemberStates
  <2>3. /\ taken[pos].state = "TAKEN"
        /\ taken[pos].proc = tbl[pos].proc /\ taken[pos].id = tbl[pos].id
        /\ taken[pos].leading = tbl[pos].leading
    BY <1>2, <1>3 DEF Members
  <2>4. \A i \in DOMAIN tbl : i # pos => taken[i] = tbl[i]
    OBVIOUS
  <2> QED  BY <1>1, <1>3, <2>1, <2>2, <2>3, <2>4
<1>4. CASE pos \notin DOMAIN tbl
  <2> DEFINE blank == [BlankMember EXCEPT !.state = "TAKEN"]
  <2>1. pos = Len(tbl) + 1
    BY <1>4, AddPosFree
  <2>2. TakePos(tbl) = Append(tbl, blank)
    BY <1>1, <2>1 DEF TakePos
  <2>3. blank \in Members /\ blank.state = "TAKEN"
    BY DEF BlankMember, Members, MemberStates, NoId
  <2> HIDE DEF blank
  <2>4. /\ Append(tbl, blank) \in Seq(Members) /\ Len(Append(tbl, blank)) = Len(tbl) + 1
        /\ Append(tbl, blank)[Len(tbl) + 1] = blank
        /\ \A i \in 1..Len(tbl) : Append(tbl, blank)[i] = tbl[i]
    BY <1>1, <2>3
  <2>5. DOMAIN Append(tbl, blank) = 1..(Len(tbl) + 1)
    BY <2>4
  <2>6. \A i \in DOMAIN Append(tbl, blank) : i # pos => i \in DOMAIN tbl
    BY <1>1, <2>1, <2>5
  <2> QED  BY <1>1, <1>4, <2>1, <2>2, <2>3, <2>4, <2>5, <2>6 DEF blank
<1> QED  BY <1>3, <1>4

(* addMember writes one record; a longer table is filled with blank ones.   *)
LEMMA PutMemberTable ==
  ASSUME NEW tbl \in Seq(Members), NEW proc \in Procs, NEW leading \in BOOLEAN,
         NEW state \in MemberStates, NEW pos \in Nat \ {NoId}
  PROVE  LET put == PutMember(tbl, proc, leading, state, pos)
         IN /\ put \in Seq(Members)
            /\ Len(put) >= Len(tbl) /\ pos \in DOMAIN put
            /\ pos <= Len(tbl) + 1 => Len(put) <= Len(tbl) + 1
            /\ pos <= Len(tbl) => Len(put) = Len(tbl)
            /\ put[pos] = [proc |-> proc, id |-> pos, state |-> state, leading |-> leading]
            /\ \A i \in DOMAIN put : i # pos =>
                 IF i \in DOMAIN tbl THEN put[i] = tbl[i] ELSE put[i] = BlankMember
<1> DEFINE put == PutMember(tbl, proc, leading, state, pos)
           member == [proc |-> proc, id |-> pos, state |-> state, leading |-> leading]
           n == IF Len(tbl) >= pos THEN Len(tbl) ELSE pos
<1>1. /\ DOMAIN tbl = 1..Len(tbl) /\ Len(tbl) \in Nat
      /\ \A i \in DOMAIN tbl : tbl[i] \in Members
      /\ pos \in Nat /\ pos >= 1 /\ n \in Nat /\ n >= pos /\ n >= Len(tbl)
  BY DEF NoId
<1>2. Max({Len(tbl), pos}) = n
  BY <1>1, MaxOfTwo
<1>3. member \in Members /\ BlankMember \in Members
  BY DEF Members, BlankMember, MemberStates, NoId
<1> HIDE DEF member
<1>4. put = [i \in 1..n |-> IF i = pos THEN member
                            ELSE IF i <= Len(tbl) THEN tbl[i] ELSE BlankMember]
  BY <1>2 DEF PutMember, member
<1> HIDE DEF put, n
<1>5. \A i \in 1..n : put[i] \in Members
  BY <1>1, <1>3, <1>4
<1>6. put \in Seq(Members) /\ Len(put) = n /\ DOMAIN put = 1..n
  BY <1>1, <1>4, <1>5
<1>7. /\ pos \in 1..n /\ put[pos] = member
      /\ \A i \in 1..n : i # pos =>
           IF i \in DOMAIN tbl THEN put[i] = tbl[i] ELSE put[i] = BlankMember
  BY <1>1, <1>4
<1>8. /\ n >= Len(tbl)
      /\ pos <= Len(tbl) + 1 => n <= Len(tbl) + 1
      /\ pos <= Len(tbl) => n = Len(tbl)
  <2>1. \A a, b \in Nat :
          LET c == IF a >= b THEN a ELSE b
          IN c >= a /\ (b <= a + 1 => c <= a + 1) /\ (b <= a => c = a)
    OBVIOUS
  <2> QED  BY <1>1, <2>1 DEF n
<1> QED  BY <1>6, <1>7, <1>8 DEF put, member

(* The first member of an empty table.                                      *)
LEMMA FirstMember ==
  ASSUME NEW tbl \in Seq(Members), Len(tbl) = 0, NEW proc \in Procs,
         NEW leading \in BOOLEAN, NEW state \in MemberStates
  PROVE  LET put == PutMember(tbl, proc, leading, state, 1)
         IN /\ AddPos(tbl) = 1 /\ Len(put) = 1 /\ DOMAIN put = {1}
            /\ put[1] = [proc |-> proc, id |-> 1, state |-> state, leading |-> leading]
<1>1. DOMAIN tbl = {} /\ 1 \in Nat \ {NoId} /\ 1 <= Len(tbl) + 1
  BY DEF NoId
<1>2. AddPos(tbl) = 1
  <2>1. \/ AddPos(tbl) \in DOMAIN tbl
        \/ AddPos(tbl) = Len(tbl) + 1
    BY AddPosFree
  <2> QED  BY <1>1, <2>1
<1> DEFINE first == 1
           put == PutMember(tbl, proc, leading, state, first)
<1>3. /\ put \in Seq(Members) /\ 1 \in DOMAIN put /\ Len(put) <= 1
      /\ put[1] = [proc |-> proc, id |-> 1, state |-> state, leading |-> leading]
  <2>1. first \in Nat \ {NoId} /\ first = 1
    BY <1>1
  <2> HIDE DEF first
  <2>2. put \in Seq(Members)
    BY <2>1, PutMemberTable
  <2>3. first \in DOMAIN put
    BY <2>1, PutMemberTable
  <2>4. first <= Len(tbl) + 1 => Len(put) <= Len(tbl) + 1
    BY <2>1, PutMemberTable
  <2>5. put[first] = [proc |-> proc, id |-> first, state |-> state, leading |-> leading]
    BY <2>3 DEF PutMember
  <2> HIDE DEF put
  <2> QED  BY <1>1, <2>1, <2>2, <2>3, <2>4, <2>5
<1> HIDE DEF put
<1>4. DOMAIN put = 1..Len(put) /\ Len(put) \in Nat
  BY <1>3
<1>5. Len(put) = 1 /\ DOMAIN put = {1}
  BY <1>3, <1>4
<1> QED  BY <1>2, <1>3, <1>5 DEF put

(* A joiner appends the table it is sent.                                   *)
LEMMA AppendedTable ==
  ASSUME NEW r \in Seq(Members), NEW s \in Seq(Members)
  PROVE  /\ Len(r \o s) >= Len(r)
         /\ \A i \in DOMAIN r : (r \o s)[i] = r[i]
         /\ \A i \in DOMAIN (r \o s) : i \notin DOMAIN r =>
              \E j \in DOMAIN s : (r \o s)[i] = s[j]
<1>1. /\ Len(r) \in Nat /\ Len(s) \in Nat /\ DOMAIN r = 1..Len(r) /\ DOMAIN s = 1..Len(s)
      /\ Len(r \o s) = Len(r) + Len(s) /\ DOMAIN (r \o s) = 1..(Len(r) + Len(s))
      /\ \A i \in 1..Len(r) : (r \o s)[i] = r[i]
      /\ \A i \in 1..Len(s) : (r \o s)[Len(r) + i] = s[i]
  OBVIOUS
<1>2. ASSUME NEW i \in DOMAIN (r \o s), i \notin DOMAIN r
      PROVE  \E j \in DOMAIN s : (r \o s)[i] = s[j]
  <2>1. i - Len(r) \in 1..Len(s) /\ i = Len(r) + (i - Len(r))
    BY <1>1, <1>2
  <2>2. (r \o s)[Len(r) + (i - Len(r))] = s[i - Len(r)]
    BY <1>1, <2>1
  <2> QED  BY <1>1, <2>1, <2>2
<1>3. Len(r \o s) >= Len(r)
  BY <1>1
<1> QED  BY <1>1, <1>2, <1>3

(* Setting a state touches nothing else.                                    *)
LEMMA SetStateTable ==
  ASSUME NEW tbl \in Seq(Members), NEW pos \in Nat, NEW state \in MemberStates
  PROVE  LET set == SetState(tbl, pos, state)
         IN /\ set \in Seq(Members) /\ Len(set) = Len(tbl)
            /\ \A i \in DOMAIN tbl :
                 /\ set[i].proc = tbl[i].proc /\ set[i].id = tbl[i].id
                 /\ set[i].leading = tbl[i].leading
                 /\ set[i].state = tbl[i].state \/ set[i].state = state
<1>1. \A i \in DOMAIN tbl : tbl[i] \in Members
  OBVIOUS
<1>2. \A m \in Members : /\ [m EXCEPT !.state = state] \in Members
                         /\ [m EXCEPT !.state = state].proc = m.proc
                         /\ [m EXCEPT !.state = state].id = m.id
                         /\ [m EXCEPT !.state = state].leading = m.leading
                         /\ [m EXCEPT !.state = state].state = state
  BY DEF Members
<1>3. /\ DOMAIN tbl = 1..Len(tbl) /\ Len(tbl) \in Nat
      /\ SetState(tbl, pos, state)
           = [i \in DOMAIN tbl |-> IF i = pos THEN [tbl[i] EXCEPT !.state = state] ELSE tbl[i]]
  BY DEF SetState
<1>4. SetState(tbl, pos, state) \in [1..Len(tbl) -> Members]
  BY <1>1, <1>2, <1>3
<1>5. SetState(tbl, pos, state) \in Seq(Members) /\ Len(SetState(tbl, pos, state)) = Len(tbl)
  BY <1>3, <1>4, TableOfRecords
<1> QED  BY <1>1, <1>2, <1>3, <1>5

(* handleLeaveMembers changes no process and no id, makes INACTIVE only     *)
(* members that left, and moves no flag while no member that leads leaves.  *)
LEMMA LeaveMembersTable ==
  ASSUME NEW tbl \in Seq(Members), NEW own, NEW procs
  PROVE  LET left == LeaveMembers(tbl, own, procs)
         IN /\ left \in Seq(Members) /\ Len(left) = Len(tbl)
            /\ \A i \in DOMAIN tbl :
                 /\ left[i].proc = tbl[i].proc /\ left[i].id = tbl[i].id
                 /\ \/ left[i].state = tbl[i].state
                    \/ left[i].state = "INACTIVE" /\ tbl[i].proc \in procs
            /\ (\A i \in DOMAIN tbl : tbl[i].leading => tbl[i].proc \notin procs) =>
                 \A i \in DOMAIN tbl : left[i].leading = tbl[i].leading
<1> DEFINE leavers == PositionsOf(tbl, procs)
           leading == {i \in leavers : tbl[i].leading}
           successor == tbl[Min(Electable(tbl, leavers))].id
           inactive == Deactivate(tbl, leavers)
           moved == [inactive EXCEPT ![Min(leading)].leading = FALSE,
                                     ![successor].leading = TRUE]
           left == LeaveMembers(tbl, own, procs)
<1>1. \A i \in DOMAIN tbl : tbl[i] \in Members
  OBVIOUS
<1>2. \A i \in leavers : i \in DOMAIN tbl /\ tbl[i].proc \in procs
  BY DEF PositionsOf
<1>3. \A m \in Members : \A b \in BOOLEAN :
        /\ [m EXCEPT !.state = "INACTIVE"] \in Members
        /\ [m EXCEPT !.state = "INACTIVE"].proc = m.proc
        /\ [m EXCEPT !.state = "INACTIVE"].id = m.id
        /\ [m EXCEPT !.state = "INACTIVE"].leading = m.leading
        /\ [m EXCEPT !.state = "INACTIVE"].state = "INACTIVE"
        /\ [m EXCEPT !.leading = b] \in Members
        /\ [m EXCEPT !.leading = b].proc = m.proc
        /\ [m EXCEPT !.leading = b].id = m.id
        /\ [m EXCEPT !.leading = b].state = m.state
  BY DEF Members, MemberStates
<1>4. /\ inactive \in Seq(Members) /\ Len(inactive) = Len(tbl)
      /\ \A i \in DOMAIN tbl :
           /\ inactive[i].proc = tbl[i].proc /\ inactive[i].id = tbl[i].id
           /\ inactive[i].leading = tbl[i].leading
           /\ \/ inactive[i].state = tbl[i].state
              \/ inactive[i].state = "INACTIVE" /\ i \in leavers
  <2> HIDE DEF leavers
  <2>1. /\ DOMAIN tbl = 1..Len(tbl) /\ Len(tbl) \in Nat
        /\ inactive = [i \in DOMAIN tbl |->
                         IF i \in leavers THEN [tbl[i] EXCEPT !.state = "INACTIVE"] ELSE tbl[i]]
    BY DEF Deactivate
  <2> HIDE DEF inactive
  <2>2. inactive \in [1..Len(tbl) -> Members]
    BY <1>1, <1>3, <2>1
  <2>3. inactive \in Seq(Members) /\ Len(inactive) = Len(tbl)
    BY <2>1, <2>2, TableOfRecords
  <2> QED  BY <1>1, <1>3, <2>1, <2>3
<1> HIDE DEF inactive, leavers
<1>5. ASSUME NEW t \in Seq(Members), NEW x, NEW b \in BOOLEAN
      PROVE  LET flagged == [t EXCEPT ![x].leading = b]
             IN /\ flagged \in Seq(Members) /\ Len(flagged) = Len(t)
                /\ \A i \in DOMAIN t :
                     /\ flagged[i].proc = t[i].proc /\ flagged[i].id = t[i].id
                     /\ flagged[i].state = t[i].state
  <2>1. \A i \in DOMAIN t : t[i] \in Members
    OBVIOUS
  <2> DEFINE flagged == [t EXCEPT ![x].leading = b]
  <2>2. /\ DOMAIN t = 1..Len(t) /\ Len(t) \in Nat
        /\ flagged = [i \in DOMAIN t |-> IF i = x THEN [t[i] EXCEPT !.leading = b] ELSE t[i]]
    <3>1. PICK r : r = [t[x] EXCEPT !.leading = b]
      OBVIOUS
    <3>2. flagged = [t EXCEPT ![x] = r]
      BY <3>1
    <3>3. flagged = [i \in DOMAIN t |-> IF i = x THEN r ELSE t[i]]
      BY <3>2, Zenon
    <3>4. [i \in DOMAIN t |-> IF i = x THEN r ELSE t[i]]
            = [i \in DOMAIN t |-> IF i = x THEN [t[i] EXCEPT !.leading = b] ELSE t[i]]
      BY <3>1
    <3> HIDE DEF flagged
    <3>5. DOMAIN t = 1..Len(t) /\ Len(t) \in Nat
      OBVIOUS
    <3> QED  BY <3>3, <3>4, <3>5
  <2> HIDE DEF flagged
  <2>3. flagged \in [1..Len(t) -> Members]
    BY <1>3, <2>1, <2>2
  <2>4. flagged \in Seq(Members) /\ Len(flagged) = Len(t)
    BY <2>2, <2>3, TableOfRecords
  <2>5. \A i \in DOMAIN t : /\ flagged[i].proc = t[i].proc /\ flagged[i].id = t[i].id
                            /\ flagged[i].state = t[i].state
    BY <1>3, <2>1, <2>2
  <2> QED  BY <2>4, <2>5 DEF flagged
<1> DEFINE replaced == [inactive EXCEPT ![Min(leading)].leading = FALSE]
<1>6. moved = [replaced EXCEPT ![successor].leading = TRUE]
  OBVIOUS
<1>7. /\ moved \in Seq(Members) /\ Len(moved) = Len(tbl)
      /\ \A i \in DOMAIN tbl :
           /\ moved[i].proc = tbl[i].proc /\ moved[i].id = tbl[i].id
           /\ moved[i].state = inactive[i].state
  <2>1. /\ replaced \in Seq(Members) /\ Len(replaced) = Len(tbl)
        /\ \A i \in DOMAIN tbl :
             /\ replaced[i].proc = tbl[i].proc /\ replaced[i].id = tbl[i].id
             /\ replaced[i].state = inactive[i].state
    <3>1. FALSE \in BOOLEAN
      OBVIOUS
    <3> HIDE DEF leading
    <3>2. replaced \in Seq(Members) /\ Len(replaced) = Len(inactive)
      BY <1>4, <1>5, <3>1
    <3>3. \A i \in DOMAIN inactive : /\ replaced[i].proc = inactive[i].proc
                                     /\ replaced[i].id = inactive[i].id
                                     /\ replaced[i].state = inactive[i].state
      BY <1>4, <1>5, <3>1
    <3>4. DOMAIN inactive = DOMAIN tbl
      BY <1>4
    <3> HIDE DEF replaced
    <3> QED  BY <1>4, <3>2, <3>3, <3>4
  <2> HIDE DEF replaced, successor
  <2>2. TRUE \in BOOLEAN
    OBVIOUS
  <2>3. moved \in Seq(Members) /\ Len(moved) = Len(replaced)
    <3> DEFINE flagged == [replaced EXCEPT ![successor].leading = TRUE]
    <3>1. flagged \in Seq(Members) /\ Len(flagged) = Len(replaced)
      BY <1>5, <2>1, <2>2
    <3> QED  BY <1>6, <3>1
  <2>4. \A i \in DOMAIN replaced : /\ moved[i].proc = replaced[i].proc
                                   /\ moved[i].id = replaced[i].id
                                   /\ moved[i].state = replaced[i].state
    <3> DEFINE flagged == [replaced EXCEPT ![successor].leading = TRUE]
    <3>1. \A i \in DOMAIN replaced : /\ flagged[i].proc = replaced[i].proc
                                     /\ flagged[i].id = replaced[i].id
                                     /\ flagged[i].state = replaced[i].state
      BY <1>5, <2>1, <2>2
    <3> QED  BY <1>6, <3>1
  <2>5. DOMAIN replaced = DOMAIN tbl
    BY <2>1
  <2> HIDE DEF moved
  <2> QED  BY <2>1, <2>3, <2>4, <2>5
<1>8. left = tbl \/ left = inactive \/ (leading # {} /\ left = moved)
  BY DEF LeaveMembers, inactive, leavers
<1> HIDE DEF moved, left, leading
<1>9. (\A i \in DOMAIN tbl : tbl[i].leading => tbl[i].proc \notin procs) => leading = {}
  BY <1>2 DEF leading
<1>10. DOMAIN tbl = DOMAIN inactive
  BY <1>4
<1>11. /\ left \in Seq(Members) /\ Len(left) = Len(tbl)
       /\ \A i \in DOMAIN tbl :
            /\ left[i].proc = tbl[i].proc /\ left[i].id = tbl[i].id
            /\ \/ left[i].state = tbl[i].state
               \/ left[i].state = "INACTIVE" /\ tbl[i].proc \in procs
  BY <1>2, <1>4, <1>7, <1>8
<1>12. leading = {} => \A i \in DOMAIN tbl : left[i].leading = tbl[i].leading
  BY <1>4, <1>8
<1> QED  BY <1>9, <1>11, <1>12 DEF left

-----------------------------------------------------------------------------
(* The entries of the log and the queues.                                   *)
Entries ==
  [type : {"change"}, members : SUBSET Procs, left : SUBSET Procs, joined : SUBSET Procs]
  \cup [type : {"member"}, proc : Procs, leading : BOOLEAN]
  \cup [type : {"whole"}, proc : Procs, table : Seq(Members)]
  \cup [type : {"delta"}, proc : Procs, pos : Nat \ {NoId}]
  \cup [type : {"status"}, pos : Nat \ {NoId}, state : MemberStates]

Queues == log \in Seq(Entries) /\ outbox \in [Procs -> Seq(Entries)]

Typed == TypeOK /\ Queues


LEMMA EntryFields ==
  ASSUME NEW e \in Entries
  PROVE  /\ e.type \in {"change", "member", "whole", "delta", "status"}
         /\ e.type = "change" => /\ e.members \in SUBSET Procs
                                 /\ e.left \in SUBSET Procs /\ e.joined \in SUBSET Procs
         /\ e.type = "member" => /\ e.proc \in Procs /\ e.leading \in BOOLEAN
                                 /\ e = JoinMsg(e.proc, e.leading)
         /\ e.type = "whole" => /\ e.proc \in Procs /\ e.table \in Seq(Members)
                                /\ e = WholeMsg(e.proc, e.table)
         /\ e.type = "delta" => /\ e.proc \in Procs /\ e.pos \in Nat \ {NoId}
                                /\ e = DeltaMsg(e.proc, e.pos)
         /\ e.type = "status" => /\ e.pos \in Nat \ {NoId} /\ e.state \in MemberStates
                                 /\ e = StatusMsg(e.pos, e.state)
<1>1. CASE e \in [type : {"change"}, members : SUBSET Procs, left : SUBSET Procs,
                  joined : SUBSET Procs]
  BY <1>1
<1>2. CASE e \in [type : {"member"}, proc : Procs, leading : BOOLEAN]
  BY <1>2 DEF JoinMsg
<1>3. CASE e \in [type : {"whole"}, proc : Procs, table : Seq(Members)]
  BY <1>3 DEF WholeMsg
<1>4. CASE e \in [type : {"delta"}, proc : Procs, pos : Nat \ {NoId}]
  BY <1>4 DEF DeltaMsg
<1>5. CASE e \in [type : {"status"}, pos : Nat \ {NoId}, state : MemberStates]
  BY <1>5 DEF StatusMsg
<1> QED  BY <1>1, <1>2, <1>3, <1>4, <1>5 DEF Entries

LEMMA EntryType == ASSUME NEW e \in Entries PROVE IsEntry(e)
<1>1. e.type = "change" =>
        e \in [type : {"change"}, members : SUBSET Procs, left : SUBSET Procs,
               joined : SUBSET Procs]
  BY DEF Entries
<1> QED  BY <1>1, EntryFields DEF IsEntry

LEMMA MessagesAreEntries ==
  /\ \A m, l, j \in SUBSET Procs : Change(m, l, j) \in Entries
  /\ \A p \in Procs : \A b \in BOOLEAN : JoinMsg(p, b) \in Entries
  /\ \A p \in Procs : \A tbl \in Seq(Members) : WholeMsg(p, tbl) \in Entries
  /\ \A p \in Procs : \A pos \in Nat \ {NoId} : DeltaMsg(p, pos) \in Entries
  /\ \A pos \in Nat \ {NoId} : \A s \in MemberStates : StatusMsg(pos, s) \in Entries
BY DEF Entries, Change, JoinMsg, WholeMsg, DeltaMsg, StatusMsg

LEMMA TypedMeans ==
  ASSUME Typed
  PROVE  /\ log \in Seq(Entries) /\ outbox \in [Procs -> Seq(Entries)]
         /\ phase \in [Procs -> {"new", "starting", "running", "gone"}]
         /\ cursor \in [Procs -> Nat \ {0}] /\ table \in [Procs -> Seq(Members)]
         /\ local \in [Procs -> Nat] /\ cfgLeading \in [Procs -> BOOLEAN]
BY DEF Typed, TypeOK, Queues

(* What dispatching an entry does to the process and nobody else.           *)
LEMMA DispatchStep ==
  ASSUME Typed, NEW p \in Procs, NEW type, Dispatch(p, type)
  PROVE  /\ p \in Group /\ outbox[p] = << >>
         /\ cursor[p] \in DOMAIN log /\ cursor[p] \in Nat \ {0}
         /\ log[cursor[p]] \in Entries /\ log[cursor[p]].type = type
         /\ log' = log /\ phase' = phase
         /\ cursor' = [cursor EXCEPT ![p] = cursor[p] + 1]
<1>1. cursor[p] \in Nat \ {0} /\ log \in Seq(Entries)
  BY DEF Typed, TypeOK, Queues
<1>2. cursor[p] <= Len(log)
  BY DEF Dispatch
<1>3. cursor[p] \in DOMAIN log
  BY <1>1, <1>2
<1>4. log[cursor[p]] \in Entries
  BY <1>1, <1>3
<1> QED  BY <1>1, <1>3, <1>4 DEF Dispatch

(* A multicast gives CPG the messages of one process, in order.             *)
LEMMA MulticastTyped ==
  ASSUME Typed, NEW p \in Procs, NEW messages \in Seq(Entries), Multicast(p, messages)
  PROVE  outbox' \in [Procs -> Seq(Entries)]
BY DEF Typed, Queues, Multicast

LEMMA JoinedTyped ==
  ASSUME NEW p \in Procs, NEW tbl, NEW pos, NEW joined \in Nat \ {NoId},
         MemberJoined(p, tbl, pos, joined)
  PROVE  \E messages \in Seq(Entries) :
           /\ Multicast(p, messages)
           /\ messages = IF Leads(tbl, pos) THEN <<StatusMsg(joined, "PREPARED")>> ELSE << >>
<1>1. StatusMsg(joined, "PREPARED") \in Entries
  BY MessagesAreEntries DEF MemberStates
<1>2. <<StatusMsg(joined, "PREPARED")>> \in Seq(Entries) /\ << >> \in Seq(Entries)
  BY <1>1
<1> QED  BY <1>2 DEF MemberJoined

LEMMA TypedFrom ==
  ASSUME log' \in Seq(Entries), outbox' \in [Procs -> Seq(Entries)],
         phase' \in [Procs -> {"new", "starting", "running", "gone"}],
         cursor' \in [Procs -> Nat \ {0}], table' \in [Procs -> Seq(Members)],
         local' \in [Procs -> Nat], cfgLeading' \in [Procs -> BOOLEAN]
  PROVE  Typed'
<1>1. \A i \in DOMAIN log' : IsEntry(log'[i])
  BY EntryType
<1>2. \A p \in Procs : \A i \in DOMAIN outbox'[p] : IsEntry(outbox'[p][i])
  BY EntryType
<1> QED  BY <1>1, <1>2 DEF Typed, TypeOK, Queues

LEMMA InitTyped == Init => Typed
<1> SUFFICES ASSUME Init PROVE Typed
  OBVIOUS
<1>1. log \in Seq(Entries) /\ outbox \in [Procs -> Seq(Entries)]
  BY DEF Init
<1>2. DOMAIN log = {} /\ \A p \in Procs : DOMAIN outbox[p] = {}
  BY DEF Init
<1> QED  BY <1>1, <1>2 DEF Init, Typed, TypeOK, Queues, NoId

LEMMA GroupStepTyped ==
  ASSUME Typed, NEW p \in Procs, Start(p) \/ FinishStart(p) \/ Order(p)
  PROVE  Typed'
<1>1. CASE Start(p)
  <2>1. Group \cup {p} \in SUBSET Procs
    BY DEF Group
  <2>2. Change(Group \cup {p}, {}, {p}) \in Entries
    BY <2>1, MessagesAreEntries
  <2>3. log' \in Seq(Entries) /\ Len(log) + 1 \in Nat \ {0}
    BY <1>1, <2>2, TypedMeans DEF Start
  <2> QED  BY <1>1, <2>3, TypedMeans, TypedFrom DEF Start
<1>2. CASE FinishStart(p)
  BY <1>2, TypedMeans, TypedFrom DEF FinishStart
<1>3. CASE Order(p)
  <2>1. outbox[p] \in Seq(Entries) /\ outbox[p] # << >>
    BY <1>3, TypedMeans DEF Order
  <2>2. Head(outbox[p]) \in Entries /\ Tail(outbox[p]) \in Seq(Entries)
    BY <2>1
  <2>3. log' \in Seq(Entries) /\ outbox' \in [Procs -> Seq(Entries)]
    BY <1>3, <2>2, TypedMeans DEF Order
  <2> QED  BY <1>3, <2>3, TypedMeans, TypedFrom DEF Order
<1> QED  BY <1>1, <1>2, <1>3

LEMMA LeaveTyped ==
  ASSUME Typed, NEW procs \in SUBSET Procs, Leave(procs)
  PROVE  Typed'
<1>1. Change(Group \ procs, procs, {}) \in Entries
  <2>1. Group \ procs \in SUBSET Procs
    BY DEF Group
  <2> QED  BY <2>1, MessagesAreEntries
<1>2. log' \in Seq(Entries)
  BY <1>1 DEF Leave, Typed, Queues
<1>3. << >> \in Seq(Entries) /\ << >> \in Seq(Members) /\ NoId \in Nat
  BY DEF NoId
<1>4. outbox' \in [Procs -> Seq(Entries)] /\ table' \in [Procs -> Seq(Members)]
  BY <1>3, TypedMeans DEF Leave, Lose
<1>5. /\ phase' \in [Procs -> {"new", "starting", "running", "gone"}]
      /\ cursor' \in [Procs -> Nat \ {0}]
  BY <1>3, TypedMeans DEF Leave, Lose
<1>6. local' \in [Procs -> Nat] /\ cfgLeading' \in [Procs -> BOOLEAN]
  BY <1>3, TypedMeans DEF Leave, Lose
<1> QED  BY <1>2, <1>4, <1>5, <1>6, TypedFrom

LEMMA HandleTyped ==
  ASSUME Typed, NEW p \in Procs, Handle(p)
  PROVE  Typed'
<1> DEFINE event == log[cursor[p]]
<1>1. /\ log \in Seq(Entries) /\ outbox \in [Procs -> Seq(Entries)]
      /\ phase \in [Procs -> {"new", "starting", "running", "gone"}]
      /\ cursor \in [Procs -> Nat \ {0}]
      /\ table \in [Procs -> Seq(Members)] /\ table[p] \in Seq(Members)
      /\ local \in [Procs -> Nat] /\ cfgLeading \in [Procs -> BOOLEAN]
      /\ "JOINED" \in MemberStates /\ TRUE \in BOOLEAN /\ FALSE \in BOOLEAN
      /\ << >> \in Seq(Entries)
  BY DEF Typed, TypeOK, Queues, MemberStates
<1>2. ASSUME NEW type, Dispatch(p, type)
      PROVE  /\ event \in Entries /\ event.type = type /\ log' \in Seq(Entries)
             /\ phase' \in [Procs -> {"new", "starting", "running", "gone"}]
             /\ cursor' \in [Procs -> Nat \ {0}]
  <2>1. cursor[p] + 1 \in Nat \ {0}
    BY <1>1
  <2>2. /\ event \in Entries /\ event.type = type /\ log' = log /\ phase' = phase
        /\ cursor' = [cursor EXCEPT ![p] = cursor[p] + 1]
    BY <1>2, DispatchStep
  <2> QED  BY <1>1, <2>1, <2>2
<1>3. CASE IgnoreWhileStarting(p)
  BY <1>1, <1>2, <1>3, TypedFrom DEF IgnoreWhileStarting
<1>4. CASE HandleChange(p)
  <2>1. /\ event \in Entries /\ event.type = "change"  /\ log' \in Seq(Entries)
        /\ phase' \in [Procs -> {"new", "starting", "running", "gone"}]
        /\ cursor' \in [Procs -> Nat \ {0}] /\ local' = local
    BY <1>2, <1>4 DEF HandleChange
  <2>2. LeaveMembers(table[p], local[p], event.left) \in Seq(Members)
    BY <1>1, LeaveMembersTable
  <2>3. table' \in [Procs -> Seq(Members)]
    BY <1>1, <1>4, <2>2 DEF HandleChange
  <2>4. cfgLeading' \in [Procs -> BOOLEAN]
    BY <1>1, <1>4 DEF HandleChange
  <2>5. \E b \in BOOLEAN :
          Multicast(p, IF p \in event.joined THEN <<JoinMsg(p, b)>> ELSE << >>)
    BY <1>1, <1>4 DEF HandleChange
  <2>6. \A b \in BOOLEAN : <<JoinMsg(p, b)>> \in Seq(Entries)
    BY MessagesAreEntries
  <2>7. \E messages \in Seq(Entries) : Multicast(p, messages)
    BY <1>1, <2>5, <2>6
  <2>8. outbox' \in [Procs -> Seq(Entries)]
    BY <2>7, MulticastTyped
  <2> QED  BY <1>1, <2>1, <2>3, <2>4, <2>8, TypedFrom
<1>5. CASE HandleLeadingJoin(p)
  <2> DEFINE pos == AddPos(table[p])
             tbl == PutMember(table[p], event.proc, TRUE, "JOINED", pos)
             index == IF IsLocalMember(p, event.proc) THEN pos ELSE local[p]
  <2>1. /\ event \in Entries /\ event.type = "member"  /\ log' \in Seq(Entries)
        /\ phase' \in [Procs -> {"new", "starting", "running", "gone"}]
        /\ cursor' \in [Procs -> Nat \ {0}] /\ cfgLeading' = cfgLeading
    BY <1>2, <1>5 DEF HandleLeadingJoin
  <2>2. pos \in Nat \ {NoId}
    BY <1>1, AddPosFree
  <2>3. event.proc \in Procs
    BY <2>1, EntryFields
  <2>4. tbl \in Seq(Members)
    BY <1>1, <2>2, <2>3, PutMemberTable
  <2>5. /\ table' = [table EXCEPT ![p] = tbl] /\ local' = [local EXCEPT ![p] = index]
        /\ MemberJoined(p, tbl, index, pos)
    BY <1>5 DEF HandleLeadingJoin
  <2> HIDE DEF tbl, index, pos
  <2>6. \E messages \in Seq(Entries) : Multicast(p, messages)
    BY <2>2, <2>5, JoinedTyped
  <2>7. outbox' \in [Procs -> Seq(Entries)]
    BY <2>6, MulticastTyped
  <2> QED  BY <1>1, <2>1, <2>2, <2>4, <2>5, <2>7, TypedFrom DEF index
<1>6. CASE HandleNormalJoin(p)
  <2> DEFINE pos == AddPos(table[p])
  <2>1. /\ event \in Entries /\ event.type = "member"  /\ log' \in Seq(Entries)
        /\ phase' \in [Procs -> {"new", "starting", "running", "gone"}]
        /\ cursor' \in [Procs -> Nat \ {0}] /\ cfgLeading' = cfgLeading /\ local' = local
    BY <1>2, <1>6 DEF HandleNormalJoin
  <2>2. /\ WholeMsg(event.proc, table[p]) \in Entries
        /\ DeltaMsg(event.proc, pos) \in Entries
    BY <1>1, <2>1, EntryFields, AddPosFree, MessagesAreEntries
  <2>3. TakePos(table[p]) \in Seq(Members)
    BY <1>1, TakePosTable
  <2>4. CASE /\ Multicast(p, <<WholeMsg(event.proc, table[p]), DeltaMsg(event.proc, pos)>>)
             /\ table' = [table EXCEPT ![p] = TakePos(table[p])]
    <3>1. <<WholeMsg(event.proc, table[p]), DeltaMsg(event.proc, pos)>> \in Seq(Entries)
      BY <2>2
    <3>2. outbox' \in [Procs -> Seq(Entries)]
      BY <2>4, <3>1, MulticastTyped
    <3> QED  BY <1>1, <2>1, <2>3, <2>4, <3>2, TypedFrom
  <2>5. CASE UNCHANGED <<outbox, table>>
    BY <1>1, <2>1, <2>5, TypedFrom
  <2> QED  BY <1>6, <2>4, <2>5 DEF HandleNormalJoin
<1>7. CASE HandleWhole(p)
  <2>1. /\ event \in Entries /\ event.type = "whole"  /\ log' \in Seq(Entries)
        /\ phase' \in [Procs -> {"new", "starting", "running", "gone"}]
        /\ cursor' \in [Procs -> Nat \ {0}] /\ UNCHANGED <<outbox, local, cfgLeading>>
    BY <1>2, <1>7 DEF HandleWhole
  <2>2. event.table \in Seq(Members)
    BY <2>1, EntryFields
  <2>3. table[p] \o event.table \in Seq(Members)
    BY <1>1, <2>2
  <2>4. table' \in [Procs -> Seq(Members)]
    BY <1>1, <1>7, <2>3 DEF HandleWhole
  <2> QED  BY <1>1, <2>1, <2>4, TypedFrom
<1>8. CASE HandleDelta(p)
  <2> DEFINE tbl == PutMember(table[p], event.proc, FALSE, "JOINED", event.pos)
             index == IF IsLocalMember(p, event.proc) THEN event.pos ELSE local[p]
  <2>1. /\ event \in Entries /\ event.type = "delta"  /\ log' \in Seq(Entries)
        /\ phase' \in [Procs -> {"new", "starting", "running", "gone"}]
        /\ cursor' \in [Procs -> Nat \ {0}] /\ cfgLeading' = cfgLeading
    BY <1>2, <1>8 DEF HandleDelta
  <2>2. event.proc \in Procs /\ event.pos \in Nat \ {NoId}
    BY <2>1, EntryFields
  <2>3. tbl \in Seq(Members)
    BY <1>1, <2>2, PutMemberTable
  <2>4. CASE UNCHANGED <<outbox, table, local>>
    BY <1>1, <2>1, <2>4, TypedFrom
  <2>5. CASE /\ table' = [table EXCEPT ![p] = tbl] /\ local' = [local EXCEPT ![p] = index]
             /\ MemberJoined(p, tbl, index, event.pos)
    <3> HIDE DEF tbl, index
    <3>1. \E messages \in Seq(Entries) : Multicast(p, messages)
      BY <2>2, <2>5, JoinedTyped
    <3>2. outbox' \in [Procs -> Seq(Entries)]
      BY <3>1, MulticastTyped
    <3> QED  BY <1>1, <2>1, <2>2, <2>3, <2>5, <3>2, TypedFrom DEF index
  <2> QED  BY <1>8, <2>4, <2>5 DEF HandleDelta
<1>9. CASE HandleStatus(p)
  <2>1. /\ event \in Entries /\ event.type = "status"  /\ log' \in Seq(Entries)
        /\ phase' \in [Procs -> {"new", "starting", "running", "gone"}]
        /\ cursor' \in [Procs -> Nat \ {0}] /\ UNCHANGED <<outbox, local, cfgLeading>>
    BY <1>2, <1>9 DEF HandleStatus
  <2>2. event.pos \in Nat /\ event.state \in MemberStates
    BY <2>1, EntryFields
  <2>3. SetState(table[p], event.pos, event.state) \in Seq(Members)
    BY <1>1, <2>2, SetStateTable
  <2>4. table' \in [Procs -> Seq(Members)]
    BY <1>1, <1>9, <2>3 DEF HandleStatus
  <2> QED  BY <1>1, <2>1, <2>4, TypedFrom
<1> QED  BY <1>3, <1>4, <1>5, <1>6, <1>7, <1>8, <1>9 DEF Handle

LEMMA NextTyped == Typed /\ [Next]_vars => Typed'
<1> SUFFICES ASSUME Typed, [Next]_vars PROVE Typed'
  OBVIOUS
<1>1. CASE UNCHANGED vars
  BY <1>1 DEF vars, Typed, TypeOK, Queues
<1>2. ASSUME NEW p \in Procs, Start(p) \/ FinishStart(p) \/ Order(p) PROVE Typed'
  BY <1>2, GroupStepTyped
<1>3. ASSUME NEW p \in Procs, Handle(p) PROVE Typed'
  BY <1>3, HandleTyped
<1>4. ASSUME NEW procs \in SUBSET Procs, Leave(procs) PROVE Typed'
  BY <1>4, LeaveTyped
<1> QED  BY <1>1, <1>2, <1>3, <1>4 DEF Next

(* Every handler keeps the member tables and what is multicast well formed, *)
(* for any processes, endpoints and order of events.                        *)
THEOREM MembershipTypes == Spec => []TypeOK
<1>1. Spec => []Typed
  BY InitTyped, NextTyped, PTL DEF Spec
<1>2. Typed => TypeOK
  BY DEF Typed
<1> QED  BY <1>1, <1>2, PTL

-----------------------------------------------------------------------------
(* The group: what its order says of who is in it.                          *)
Said(e) ==
  \/ \E i \in DOMAIN log : log[i] = e
  \/ \E p \in Procs : \E m \in DOMAIN outbox[p] : outbox[p][m] = e

IsAlone(e, p)  == e.type = "change" /\ e.joined = {p} /\ e.members = {p}
Joins(e, p)    == e.type = "change" /\ p \in e.joined
Removes(e, p)  == e.type = "change" /\ p \in e.left
LeadingJoin(e) == e.type = "member" /\ e.leading
FromLeading(e) == e.type \in {"whole", "delta", "status"}

(* p has dispatched its own join; f has dispatched that p left.             *)
HasJoined(p)  == \E k \in DOMAIN log : k < cursor[p] /\ Joins(log[k], p)
HasLeft(f, p) == \E k \in DOMAIN log : k < cursor[f] /\ Removes(log[k], p)

(* One process joins at a time.                                             *)
ChangeShape ==
  \A i \in DOMAIN log :
    log[i].type = "change" =>
      log[i].joined = {} \/ \E q \in Procs : log[i].joined = {q} /\ q \in log[i].members

JoinsOnce ==
  \A p \in Procs : \A i \in DOMAIN log : Joins(log[i], p) =>
    phase[p] # "new" /\ \A j \in DOMAIN log : Joins(log[j], p) => i = j

LeavesOnce ==
  \A p \in Procs : \A i \in DOMAIN log : Removes(log[i], p) =>
    phase[p] = "gone" /\ \A j \in DOMAIN log : Removes(log[j], p) => i = j

(* A process is in every configuration it has yet to hear of.               *)
InView ==
  \A p \in Group : \A i \in DOMAIN log :
    i >= cursor[p] /\ log[i].type = "change" => p \in log[i].members

(* Of those that came into an empty group, one at most is still there.      *)
AloneOnce ==
  \A p, q \in Group : \A i, j \in DOMAIN log :
    IsAlone(log[i], p) /\ IsAlone(log[j], q) => p = q

InLog == \A p \in Procs : cursor[p] <= Len(log) + 1

(* The first entry a process dispatches is its own join.                    *)
BeginsWithJoin ==
  \A p \in Procs :
    /\ phase[p] = "new" => table[p] = << >>
    /\ p \in Group => \E i \in DOMAIN log :
         /\ Joins(log[i], p) /\ i <= cursor[p]
         /\ cursor[p] = i => table[p] = << >>

GroupInv ==
  /\ ChangeShape /\ JoinsOnce /\ LeavesOnce /\ InView /\ AloneOnce
  /\ InLog /\ BeginsWithJoin

-----------------------------------------------------------------------------
(* The join messages: the leading flag is of one process, which stays, and  *)
(* a process says once that it joins.                                       *)
Leader(p) == cfgLeading[p] /\ local[p] # NoId

SameOnce(d, e) == d.type = e.type /\ d.type \in {"member", "delta"} /\ d.proc = e.proc
SamePos(d, e)  == d.type = "delta" /\ e.type = "delta" /\ d.pos = e.pos

FlagFromAlone ==
  \A p \in Procs : cfgLeading[p] =>
    phase[p] = "running" /\ \E i \in DOMAIN log : IsAlone(log[i], p)

JoinsTell ==
  \A e \in Entries : Said(e) /\ e.type = "member" =>
    /\ e.leading <=> cfgLeading[e.proc]
    /\ phase[e.proc] = "gone" \/ HasJoined(e.proc)

Senders ==
  \A p \in Procs : \A m \in DOMAIN outbox[p] :
    /\ outbox[p][m].type = "member" => outbox[p][m].proc = p
    /\ outbox[p][m].type # "member" => FromLeading(outbox[p][m]) /\ Leader(p)

SentOnce ==
  /\ \A i, j \in DOMAIN log : SameOnce(log[i], log[j]) => i = j
  /\ \A p \in Procs : \A m \in DOMAIN outbox[p] :
       /\ \A i \in DOMAIN log : ~SameOnce(log[i], outbox[p][m])
       /\ \A n \in DOMAIN outbox[p] : SameOnce(outbox[p][n], outbox[p][m]) => m = n

JoinInv == FlagFromAlone /\ JoinsTell /\ Senders /\ SentOnce

-----------------------------------------------------------------------------
(* The tables: only the leading member's record has the flag, nobody has a  *)
(* table before its join, and a member's own record is what gave it its id. *)
FlagsIn(tbl, flags) ==
  \A i \in DOMAIN tbl : tbl[i].leading => tbl[i].proc \in Procs /\ flags[tbl[i].proc]

LeadingRecords ==
  /\ \A p \in Procs : FlagsIn(table[p], cfgLeading)
  /\ \A e \in Entries : Said(e) /\ e.type = "whole" => FlagsIn(e.table, cfgLeading)

StatusPrepared ==
  \A e \in Entries : Said(e) /\ e.type = "status" => e.state = "PREPARED"

TableLate(p) ==
  table[p] # << >> => \E k \in DOMAIN log : k < cursor[p] /\ LeadingJoin(log[k])

LeadingFirst ==
  /\ \A i \in DOMAIN log : FromLeading(log[i]) =>
       \E k \in DOMAIN log : k < i /\ LeadingJoin(log[k])
  /\ \A p \in Procs : TableLate(p)

OwnRecord(p) ==
  local[p] # NoId =>
    /\ local[p] <= Len(table[p])
    /\ table[p][local[p]].proc = p /\ table[p][local[p]].id = local[p]
    /\ ~cfgLeading[p] =>
         \E i \in DOMAIN log : i < cursor[p] /\ log[i] = DeltaMsg(p, local[p])

LocalEntry == \A p \in Procs : OwnRecord(p)

LeadingLocal == \A p \in Procs : cfgLeading[p] /\ table[p] # << >> => local[p] # NoId

TableInv == LeadingRecords /\ StatusPrepared /\ LeadingFirst /\ LocalEntry /\ LeadingLocal

-----------------------------------------------------------------------------
(* The positions the leading member promises: a position is promised again  *)
(* only when the process it was promised to is gone, and the leading member *)
(* has entered that process and heard that it left.                         *)
Superseded(i) ==
  phase[log[i].proc] = "gone" /\ \A f \in Procs : Leader(f) => i < cursor[f]

Answers ==
  \A e \in Entries : Said(e) /\ e.type \in {"whole", "delta"} =>
    \E f \in Procs :
      /\ Leader(f)
      /\ \E k \in DOMAIN log : k < cursor[f] /\ log[k] = JoinMsg(e.proc, FALSE)
      /\ e.type = "delta" => e.pos <= Len(table[f])

LastGrant ==
  /\ \A i, j \in DOMAIN log : SamePos(log[i], log[j]) /\ i < j => Superseded(i)
  /\ \A p \in Procs : \A m \in DOMAIN outbox[p] : \A i \in DOMAIN log :
       SamePos(log[i], outbox[p][m]) => Superseded(i)

OneGrant ==
  \A p \in Procs : \A m, n \in DOMAIN outbox[p] :
    outbox[p][m].type = "delta" /\ outbox[p][n].type = "delta" => m = n

InactiveLeft ==
  \A f \in Procs : Leader(f) => \A pos \in DOMAIN table[f] :
    table[f][pos].state = "INACTIVE" => HasLeft(f, table[f][pos].proc)

(* The delta of a position is on its way to f.                              *)
Promised(f, pos) ==
  \/ \E i \in DOMAIN log : i >= cursor[f] /\ log[i].type = "delta" /\ log[i].pos = pos
  \/ \E m \in DOMAIN outbox[f] : outbox[f][m].type = "delta" /\ outbox[f][m].pos = pos

PromisedFree ==
  \A f \in Procs : Leader(f) => \A pos \in DOMAIN table[f] : Promised(f, pos) =>
    /\ table[f][pos].state # "INACTIVE"
    /\ table[f][pos].proc = NoProc \/ HasLeft(f, table[f][pos].proc)

GrantEntered ==
  \A f \in Procs : Leader(f) => \A i \in DOMAIN log :
    i < cursor[f] /\ log[i].type = "delta" =>
      phase[log[i].proc] = "gone" \/ table[f][log[i].pos].proc = log[i].proc

GrantInv ==
  /\ Answers /\ LastGrant /\ OneGrant
  /\ InactiveLeft /\ PromisedFree /\ GrantEntered

MembershipInv == Typed /\ GroupInv /\ JoinInv /\ TableInv /\ GrantInv

(* Each process has an endpoint of its own, and the leading member stays.   *)
SteadyLeader ==
  /\ \A p, q \in Procs : Address[p] = Address[q] => p = q
  /\ ~LeadingMayLeave

-----------------------------------------------------------------------------
(* What the invariant says of one process, and what every step keeps.       *)
LEMMA OneFlag ==
  ASSUME GroupInv, JoinInv, NEW p \in Procs, NEW q \in Procs, cfgLeading[p], cfgLeading[q]
  PROVE  p = q
<1>1. p \in Group /\ q \in Group
  BY DEF JoinInv, FlagFromAlone, Group
<1>2. PICK i \in DOMAIN log : IsAlone(log[i], p)
  BY DEF JoinInv, FlagFromAlone
<1>3. PICK j \in DOMAIN log : IsAlone(log[j], q)
  BY DEF JoinInv, FlagFromAlone
<1> QED  BY <1>1, <1>2, <1>3 DEF GroupInv, AloneOnce

LEMMA LogEntry ==
  ASSUME Typed, NEW i \in DOMAIN log
  PROVE  i \in Nat \ {0} /\ i <= Len(log) /\ log[i] \in Entries /\ Said(log[i])
<1>1. log \in Seq(Entries)
  BY TypedMeans
<1> QED  BY <1>1 DEF Said

LEMMA OutboxEntry ==
  ASSUME Typed, NEW p \in Procs, NEW m \in DOMAIN outbox[p]
  PROVE  m \in Nat \ {0} /\ outbox[p][m] \in Entries /\ Said(outbox[p][m])
<1>1. outbox[p] \in Seq(Entries)
  BY TypedMeans
<1> QED  BY <1>1 DEF Said

LEMMA LogGrows ==
  ASSUME Typed, NEW e, log' = Append(log, e)
  PROVE  /\ DOMAIN log' = DOMAIN log \cup {Len(log) + 1} /\ Len(log) \in Nat
         /\ Len(log') = Len(log) + 1
         /\ \A i \in DOMAIN log : i \in Nat /\ i >= 1 /\ i <= Len(log) /\ log'[i] = log[i]
         /\ log'[Len(log) + 1] = e
<1>1. log \in Seq(Entries) /\ Len(log) \in Nat /\ DOMAIN log = 1..Len(log)
  BY TypedMeans
<1>2. /\ Len(Append(log, e)) = Len(log) + 1 /\ DOMAIN Append(log, e) = 1..(Len(log) + 1)
      /\ \A i \in 1..Len(log) : Append(log, e)[i] = log[i]
      /\ Append(log, e)[Len(log) + 1] = e
  BY <1>1
<1>3. 1..(Len(log) + 1) = 1..Len(log) \cup {Len(log) + 1}
  BY <1>1
<1> QED  BY <1>1, <1>2, <1>3

(* Every handler dispatches an entry and sends only what it multicasts.     *)
LEMMA HandleStep ==
  ASSUME Typed, NEW p \in Procs, Handle(p)
  PROVE  /\ \E type : Dispatch(p, type)
         /\ p \in Group /\ outbox[p] = << >>
         /\ cursor[p] \in DOMAIN log /\ log' = log /\ phase' = phase
         /\ cursor' = [cursor EXCEPT ![p] = cursor[p] + 1]
         /\ \A q \in Procs \ {p} :
              /\ outbox'[q] = outbox[q] /\ table'[q] = table[q] /\ local'[q] = local[q]
              /\ cfgLeading'[q] = cfgLeading[q]
         /\ ~HandleChange(p) => cfgLeading' = cfgLeading
<1>1. \E type : Dispatch(p, type)
  BY DEF Handle, IgnoreWhileStarting, HandleChange, HandleLeadingJoin, HandleNormalJoin,
         HandleWhole, HandleDelta, HandleStatus
<1>2. \A q \in Procs \ {p} :
        /\ outbox'[q] = outbox[q] /\ table'[q] = table[q] /\ local'[q] = local[q]
        /\ cfgLeading'[q] = cfgLeading[q]
  BY TypedMeans
     DEF Handle, IgnoreWhileStarting, HandleChange, HandleLeadingJoin, HandleNormalJoin,
         HandleWhole, HandleDelta, HandleStatus, Multicast, MemberJoined
<1>3. ~HandleChange(p) => cfgLeading' = cfgLeading
  BY DEF Handle, IgnoreWhileStarting, HandleLeadingJoin, HandleNormalJoin,
         HandleWhole, HandleDelta, HandleStatus
<1> QED  BY <1>1, <1>2, <1>3, DispatchStep

(* Who acts on its flag in its own record leads the cluster.                *)
LEMMA LeadsAlone ==
  ASSUME Typed, LocalEntry, LeadingRecords, NEW p \in Procs, Leads(table[p], local[p])
  PROVE  Leader(p) /\ table[p] # << >>
<1>1. /\ local[p] # NoId /\ local[p] <= Len(table[p]) /\ table[p][local[p]].leading
      /\ local[p] \in Nat /\ table[p] \in Seq(Members)
  BY TypedMeans DEF Leads, HasLocal
<1>2. local[p] \in DOMAIN table[p]
  BY <1>1 DEF NoId
<1>3. table[p][local[p]].proc = p
  BY <1>1 DEF LocalEntry, OwnRecord
<1> QED  BY <1>1, <1>2, <1>3 DEF LeadingRecords, FlagsIn, Leader

LEMMA LeaderTable ==
  ASSUME Typed, LocalEntry, NEW p \in Procs, local[p] # NoId
  PROVE  /\ local[p] \in DOMAIN table[p] /\ table[p] # << >>
         /\ table[p][local[p]].proc = p /\ table[p] \in Seq(Members)
<1>1. local[p] \in Nat /\ table[p] \in Seq(Members) /\ local[p] <= Len(table[p])
  BY TypedMeans DEF LocalEntry, OwnRecord
<1> QED  BY <1>1 DEF LocalEntry, OwnRecord, NoId

-----------------------------------------------------------------------------
(* What a step keeps, and the invariant of the group.                       *)

(* Nothing is taken back: the log grows, who is gone stays gone, and those  *)
(* who stay go on in the log and keep the leading flag.                     *)
Forward ==
  /\ \A i \in DOMAIN log : i \in DOMAIN log' /\ log'[i] = log[i]
  /\ \A p \in Procs :
       /\ phase[p] = "gone" => phase'[p] = "gone"
       /\ phase'[p] # "gone" => cursor'[p] >= cursor[p] /\ (cfgLeading[p] => cfgLeading'[p])

Steps(p) == Start(p) \/ FinishStart(p) \/ Order(p) \/ Handle(p)

LEMMA StepsForward ==
  ASSUME Typed, InLog, NEW p \in Procs, Steps(p)
  PROVE  Forward /\ \A q \in Procs : phase'[q] = "gone" => phase[q] = "gone"
<1>1. /\ cursor \in [Procs -> Nat \ {0}] /\ phase \in [Procs -> {"new", "starting", "running", "gone"}]
      /\ cfgLeading \in [Procs -> BOOLEAN]
      /\ \A q \in Procs : cursor[q] \in Nat /\ cursor[q] <= Len(log) + 1
  BY TypedMeans DEF InLog
<1>2. CASE Start(p)
  <2>1. \A i \in DOMAIN log : i \in DOMAIN log' /\ log'[i] = log[i]
    BY <1>2, LogGrows DEF Start
  <2>2. /\ phase' = [phase EXCEPT ![p] = "starting"] /\ cursor' = [cursor EXCEPT ![p] = Len(log) + 1]
        /\ phase[p] = "new" /\ cfgLeading' = cfgLeading
    BY <1>2 DEF Start
  <2> QED  BY <1>1, <2>1, <2>2 DEF Forward
<1>3. CASE FinishStart(p)
  BY <1>1, <1>3 DEF FinishStart, Forward
<1>4. CASE Order(p)
  <2>1. \A i \in DOMAIN log : i \in DOMAIN log' /\ log'[i] = log[i]
    BY <1>4, LogGrows DEF Order
  <2> QED  BY <1>1, <1>4, <2>1 DEF Order, Forward
<1>5. CASE Handle(p)
  <2>1. /\ log' = log /\ phase' = phase /\ cursor' = [cursor EXCEPT ![p] = cursor[p] + 1]
        /\ \A q \in Procs \ {p} : cfgLeading'[q] = cfgLeading[q]
    BY <1>5, HandleStep
  <2>2. cfgLeading[p] => cfgLeading'[p]
    <3>1. CASE HandleChange(p)
      BY <1>1, <3>1 DEF HandleChange
    <3>2. CASE ~HandleChange(p)
      BY <1>5, <3>2, HandleStep
    <3> QED  BY <3>1, <3>2
  <2> QED  BY <1>1, <2>1, <2>2 DEF Forward
<1> QED  BY <1>2, <1>3, <1>4, <1>5 DEF Steps

(* Those that leave lose their memory; none of them has the leading flag.   *)
LEMMA LeaveStep ==
  ASSUME Typed, SteadyLeader, NEW procs \in SUBSET Procs, Leave(procs)
  PROVE  /\ Forward
         /\ log' = Append(log, Change(Group \ procs, procs, {}))
         /\ cfgLeading' = cfgLeading
         /\ \A p \in procs : /\ p \in Group /\ phase'[p] = "gone" /\ outbox'[p] = << >>
                             /\ table'[p] = << >> /\ local'[p] = NoId /\ ~cfgLeading[p]
                             /\ cursor'[p] = 1
         /\ \A p \in Procs \ procs :
              /\ phase'[p] = phase[p] /\ outbox'[p] = outbox[p] /\ table'[p] = table[p]
              /\ local'[p] = local[p] /\ cursor'[p] = cursor[p]
<1>1. /\ cursor \in [Procs -> Nat \ {0}] /\ phase \in [Procs -> {"new", "starting", "running", "gone"}]
      /\ cfgLeading \in [Procs -> BOOLEAN]
  BY TypedMeans
<1>2. /\ log' = Append(log, Change(Group \ procs, procs, {}))
      /\ \A p \in procs : p \in Group /\ ~cfgLeading[p]
      /\ phase' = Lose(phase, procs, "gone") /\ cursor' = Lose(cursor, procs, 1)
      /\ outbox' = Lose(outbox, procs, << >>) /\ table' = Lose(table, procs, << >>)
      /\ local' = Lose(local, procs, NoId) /\ cfgLeading' = Lose(cfgLeading, procs, FALSE)
  BY DEF Leave, SteadyLeader
<1>3. \A i \in DOMAIN log : i \in DOMAIN log' /\ log'[i] = log[i]
  BY <1>2, LogGrows
<1>4. /\ \A p \in procs : /\ p \in Group /\ phase'[p] = "gone" /\ outbox'[p] = << >>
                          /\ table'[p] = << >> /\ local'[p] = NoId /\ ~cfgLeading[p]
                          /\ cursor'[p] = 1
      /\ \A p \in Procs \ procs :
           /\ phase'[p] = phase[p] /\ outbox'[p] = outbox[p] /\ table'[p] = table[p]
           /\ local'[p] = local[p] /\ cursor'[p] = cursor[p]
  BY <1>2 DEF Lose
<1>5. cfgLeading' = cfgLeading
  <2>1. \A p \in Procs : (IF p \in procs THEN FALSE ELSE cfgLeading[p]) = cfgLeading[p]
    BY <1>1, <1>2
  <2> QED  BY <1>1, <1>2, <2>1 DEF Lose
<1>6. Forward
  BY <1>1, <1>3, <1>4, <1>5 DEF Forward, Group
<1> QED  BY <1>2, <1>4, <1>5, <1>6

(* What was dispatched has been dispatched.                                 *)
LEMMA ForwardJoined ==
  ASSUME Typed, Typed', Forward, NEW p \in Procs, NEW q
  PROVE  /\ phase[p] = "gone" \/ HasJoined(p) => phase'[p] = "gone" \/ HasJoined(p)'
         /\ phase'[p] # "gone" /\ HasLeft(p, q) => HasLeft(p, q)'
<1>1. /\ cursor[p] \in Nat /\ cursor'[p] \in Nat
      /\ \A i \in DOMAIN log : i \in Nat
  BY TypedMeans, LogEntry DEF Typed, TypeOK
<1>2. \A i \in DOMAIN log : phase'[p] # "gone" /\ i < cursor[p] =>
        i \in DOMAIN log' /\ i < cursor'[p] /\ log'[i] = log[i]
  BY <1>1 DEF Forward
<1> QED  BY <1>2 DEF HasJoined, HasLeft, Forward

LEMMA InitGroup == Init => GroupInv
<1> SUFFICES ASSUME Init PROVE GroupInv
  OBVIOUS
<1>1. DOMAIN log = {} /\ Len(log) = 0 /\ Group = {}
  BY DEF Init, Group
<1>2. \A p \in Procs : cursor[p] = 1 /\ table[p] = << >> /\ phase[p] = "new"
  BY DEF Init
<1>3. ChangeShape /\ JoinsOnce /\ LeavesOnce /\ InView /\ AloneOnce
  BY <1>1 DEF ChangeShape, JoinsOnce, LeavesOnce, InView, AloneOnce
<1>4. InLog /\ BeginsWithJoin
  BY <1>1, <1>2 DEF InLog, BeginsWithJoin
<1> QED  BY <1>3, <1>4 DEF GroupInv

(* An entry that is no change, or nothing, is added to the log.             *)
LEMMA GroupKept ==
  ASSUME Typed, GroupInv, Group' = Group,
         \A p \in Procs : /\ phase[p] = "gone" <=> phase'[p] = "gone"
                          /\ phase[p] = "new" <=> phase'[p] = "new",
         \/ log' = log
         \/ \E e \in Entries : e.type # "change" /\ log' = Append(log, e),
         \A p \in Procs : /\ cursor'[p] \in Nat /\ cursor'[p] <= Len(log') + 1
                          /\ \/ cursor'[p] = cursor[p] /\ table'[p] = table[p]
                             \/ cursor'[p] = cursor[p] + 1 /\ p \in Group
  PROVE  GroupInv'
<1>1. /\ \A i \in DOMAIN log : i \in DOMAIN log' /\ log'[i] = log[i] /\ i \in Nat
      /\ \A i \in DOMAIN log' : log'[i].type = "change" => i \in DOMAIN log
  <2>1. CASE log' = log
    BY <2>1, LogEntry
  <2>2. CASE \E e \in Entries : e.type # "change" /\ log' = Append(log, e)
    BY <2>2, LogGrows
  <2> QED  BY <2>1, <2>2
<1>2. \A p \in Procs : cursor[p] \in Nat /\ cursor'[p] \in Nat /\ cursor'[p] >= cursor[p]
  <2>1. \A p \in Procs : cursor[p] \in Nat
    BY TypedMeans
  <2>2. \A p \in Procs : cursor'[p] = cursor[p] \/ cursor'[p] = cursor[p] + 1
    OBVIOUS
  <2> QED  BY <2>1, <2>2
<1>3. ChangeShape'
  BY <1>1 DEF GroupInv, ChangeShape
<1>4. JoinsOnce' /\ LeavesOnce'
  BY <1>1 DEF GroupInv, JoinsOnce, LeavesOnce, Joins, Removes
<1>5. InView'
  <2> SUFFICES ASSUME NEW p \in Group, NEW i \in DOMAIN log,
                      i >= cursor'[p], log[i].type = "change"
               PROVE  p \in log[i].members
    BY <1>1 DEF InView
  <2>1. p \in Procs
    BY DEF Group
  <2>2. i >= cursor[p]
    BY <1>1, <1>2, <2>1
  <2> QED  BY <2>2 DEF GroupInv, InView
<1>6. AloneOnce'
  BY <1>1 DEF GroupInv, AloneOnce, IsAlone
<1>7. InLog'
  BY DEF InLog
<1>8. BeginsWithJoin'
  <2> SUFFICES ASSUME NEW p \in Procs
               PROVE  /\ phase'[p] = "new" => table'[p] = << >>
                      /\ p \in Group => \E i \in DOMAIN log' :
                           /\ Joins(log'[i], p) /\ i <= cursor'[p]
                           /\ cursor'[p] = i => table'[p] = << >>
    BY DEF BeginsWithJoin
  <2>1. phase'[p] = "new" => p \notin Group /\ table[p] = << >>
    BY DEF Group, GroupInv, BeginsWithJoin
  <2>2. ASSUME p \in Group
        PROVE  \E i \in DOMAIN log' : /\ Joins(log'[i], p) /\ i <= cursor'[p]
                                      /\ cursor'[p] = i => table'[p] = << >>
    <3>1. PICK i \in DOMAIN log : /\ Joins(log[i], p) /\ i <= cursor[p]
                                  /\ cursor[p] = i => table[p] = << >>
      BY <2>2 DEF GroupInv, BeginsWithJoin
    <3>2. i \in DOMAIN log' /\ log'[i] = log[i] /\ i \in Nat
      BY <1>1
    <3>3. i <= cursor'[p] /\ (cursor'[p] = i => table'[p] = << >>)
      BY <1>2, <3>1, <3>2
    <3> QED  BY <3>1, <3>2, <3>3
  <2> QED  BY <2>1, <2>2
<1> QED  BY <1>3, <1>4, <1>5, <1>6, <1>7, <1>8 DEF GroupInv

LEMMA StartKeepsGroup ==
  ASSUME Typed, GroupInv, NEW p \in Procs, Start(p)
  PROVE  GroupInv'
<1> DEFINE n == Len(log) + 1
           e == Change(Group \cup {p}, {}, {p})
<1>1. /\ DOMAIN log' = DOMAIN log \cup {n} /\ n \in Nat /\ Len(log') = n
      /\ \A i \in DOMAIN log : i \in Nat /\ i < n /\ log'[i] = log[i]
      /\ log'[n] = e
  BY LogGrows DEF Start
<1>2. /\ phase[p] = "new" /\ p \notin Group
      /\ phase' = [phase EXCEPT ![p] = "starting"] /\ cursor' = [cursor EXCEPT ![p] = n]
      /\ table' = table
  BY DEF Start, Group
<1>3. phase'[p] = "starting" /\ cursor'[p] = n /\ table'[p] = << >> /\ table[p] = << >>
  BY <1>2, TypedMeans DEF GroupInv, BeginsWithJoin
<1>4. \A q \in Procs \ {p} : phase'[q] = phase[q] /\ cursor'[q] = cursor[q]
  BY <1>2, TypedMeans
<1>5. Group' = Group \cup {p} /\ \A q \in Procs : cursor[q] \in Nat /\ cursor'[q] \in Nat
  BY <1>1, <1>3, <1>4, TypedMeans DEF Group
<1>6. /\ e.type = "change" /\ e.members = Group \cup {p} /\ e.left = {} /\ e.joined = {p}
      /\ \A q : Joins(e, q) <=> q = p
      /\ \A q : ~Removes(e, q)
  BY DEF Change, Joins, Removes
<1> HIDE DEF e, n
<1>7. ChangeShape'
  BY <1>1, <1>6 DEF GroupInv, ChangeShape
<1>8. JoinsOnce'
  <2> SUFFICES ASSUME NEW q \in Procs, NEW i \in DOMAIN log', Joins(log'[i], q)
               PROVE  /\ phase'[q] # "new"
                      /\ \A j \in DOMAIN log' : Joins(log'[j], q) => i = j
    BY DEF JoinsOnce
  <2>1. CASE q = p
    <3>1. \A j \in DOMAIN log : ~Joins(log[j], p)
      BY <1>2 DEF GroupInv, JoinsOnce
    <3> QED  BY <1>1, <1>3, <2>1, <3>1
  <2>2. CASE q # p
    <3>1. i \in DOMAIN log /\ \A j \in DOMAIN log' : Joins(log'[j], q) => j \in DOMAIN log
      BY <1>1, <1>6, <2>2
    <3>2. \A j \in DOMAIN log : log'[j] = log[j]
      BY <1>1
    <3> QED  BY <1>4, <2>2, <3>1, <3>2 DEF GroupInv, JoinsOnce
  <2> QED  BY <2>1, <2>2
<1>9. LeavesOnce'
  <2> SUFFICES ASSUME NEW q \in Procs, NEW i \in DOMAIN log', Removes(log'[i], q)
               PROVE  /\ phase'[q] = "gone"
                      /\ \A j \in DOMAIN log' : Removes(log'[j], q) => i = j
    BY DEF LeavesOnce
  <2>1. i \in DOMAIN log /\ \A j \in DOMAIN log' : Removes(log'[j], q) => j \in DOMAIN log
    BY <1>1, <1>6
  <2>2. \A j \in DOMAIN log : log'[j] = log[j]
    BY <1>1
  <2>3. phase[q] = "gone" /\ q # p
    BY <1>2, <2>1, <2>2 DEF GroupInv, LeavesOnce
  <2> QED  BY <1>4, <2>1, <2>2, <2>3 DEF GroupInv, LeavesOnce
<1>10. InView'
  <2> SUFFICES ASSUME NEW q \in Group \cup {p}, NEW i \in DOMAIN log',
                      i >= cursor'[q], log'[i].type = "change"
               PROVE  q \in log'[i].members
    BY <1>5 DEF InView
  <2>1. CASE i = n
    BY <1>1, <1>6, <2>1
  <2>2. CASE i \in DOMAIN log
    <3>1. q # p
      BY <1>1, <1>3, <2>2
    <3>2. cursor'[q] = cursor[q] /\ q \in Group
      BY <1>4, <3>1 DEF Group
    <3> QED  BY <1>1, <2>2, <3>2 DEF GroupInv, InView
  <2> QED  BY <1>1, <2>1, <2>2
<1>11. AloneOnce'
  <2>1. \A q : IsAlone(e, q) => q = p /\ Group = {}
    BY <1>2, <1>6 DEF IsAlone
  <2>2. \A q : \A i \in DOMAIN log : IsAlone(log[i], q) => q # p
    <3> SUFFICES ASSUME NEW i \in DOMAIN log, IsAlone(log[i], p) PROVE FALSE
      OBVIOUS
    <3>1. Joins(log[i], p)
      BY DEF IsAlone, Joins
    <3> QED  BY <1>2, <3>1 DEF GroupInv, JoinsOnce
  <2> SUFFICES ASSUME NEW q \in Group \cup {p}, NEW r \in Group \cup {p},
                      NEW i \in DOMAIN log', NEW j \in DOMAIN log',
                      IsAlone(log'[i], q), IsAlone(log'[j], r)
               PROVE  q = r
    BY <1>5 DEF AloneOnce
  <2>3. CASE i = n \/ j = n
    BY <1>1, <2>1, <2>3
  <2>4. CASE i # n /\ j # n
    <3>1. i \in DOMAIN log /\ j \in DOMAIN log /\ log'[i] = log[i] /\ log'[j] = log[j]
      BY <1>1, <2>4
    <3>2. q \in Group /\ r \in Group
      BY <2>2, <3>1
    <3> QED  BY <3>1, <3>2 DEF GroupInv, AloneOnce
  <2> QED  BY <2>3, <2>4
<1>12. InLog'
  <2> SUFFICES ASSUME NEW q \in Procs PROVE cursor'[q] <= n + 1
    BY <1>1 DEF InLog
  <2>1. cursor[q] <= n
    BY DEF GroupInv, InLog, n
  <2> QED  BY <1>1, <1>3, <1>4, <1>5, <2>1
<1>13. BeginsWithJoin'
  <2> SUFFICES ASSUME NEW q \in Procs
               PROVE  /\ phase'[q] = "new" => table'[q] = << >>
                      /\ q \in Group \cup {p} => \E i \in DOMAIN log' :
                           /\ Joins(log'[i], q) /\ i <= cursor'[q]
                           /\ cursor'[q] = i => table'[q] = << >>
    BY <1>5 DEF BeginsWithJoin
  <2>1. CASE q = p
    BY <1>1, <1>3, <1>6, <2>1
  <2>2. CASE q # p
    <3>1. phase'[q] = phase[q] /\ cursor'[q] = cursor[q] /\ table'[q] = table[q]
      BY <1>2, <1>4, <2>2
    <3>2. \A i \in DOMAIN log : i \in DOMAIN log' /\ log'[i] = log[i]
      BY <1>1
    <3> QED  BY <2>2, <3>1, <3>2 DEF GroupInv, BeginsWithJoin
  <2> QED  BY <2>1, <2>2
<1> QED  BY <1>7, <1>8, <1>9, <1>10, <1>11, <1>12, <1>13 DEF GroupInv

LEMMA LeaveKeepsGroup ==
  ASSUME Typed, GroupInv, SteadyLeader, NEW procs \in SUBSET Procs, Leave(procs)
  PROVE  GroupInv'
<1> DEFINE n == Len(log) + 1
           e == Change(Group \ procs, procs, {})
<1>1. /\ DOMAIN log' = DOMAIN log \cup {n} /\ n \in Nat /\ Len(log') = n
      /\ \A i \in DOMAIN log : i \in Nat /\ i < n /\ log'[i] = log[i]
      /\ log'[n] = e
  <2>1. log' = Append(log, e)
    BY LeaveStep
  <2> HIDE DEF e
  <2>2. /\ DOMAIN log' = DOMAIN log \cup {n} /\ Len(log) \in Nat /\ Len(log') = n
        /\ \A i \in DOMAIN log : i \in Nat /\ i <= Len(log) /\ log'[i] = log[i]
        /\ log'[n] = e
    BY <2>1, LogGrows
  <2> QED  BY <2>2
<1>2. /\ \A p \in procs : p \in Group /\ phase'[p] = "gone" /\ cursor'[p] = 1
      /\ \A p \in Procs \ procs : /\ phase'[p] = phase[p] /\ cursor'[p] = cursor[p]
                                  /\ table'[p] = table[p]
  BY LeaveStep
<1>3. Group' = Group \ procs /\ \A q \in Procs : cursor[q] \in Nat
  BY <1>2, TypedMeans DEF Group
<1>4. /\ e.type = "change" /\ e.members = Group \ procs /\ e.left = procs /\ e.joined = {}
      /\ \A q : ~Joins(e, q) /\ ~IsAlone(e, q)
      /\ \A q : Removes(e, q) <=> q \in procs
  BY DEF Change, Joins, Removes, IsAlone
<1> HIDE DEF e, n
<1>5. \A q \in procs : phase[q] \notin {"new", "gone"}
  BY <1>2 DEF Group
<1>6. ChangeShape'
  BY <1>1, <1>4 DEF GroupInv, ChangeShape
<1>7. JoinsOnce'
  <2> SUFFICES ASSUME NEW q \in Procs, NEW i \in DOMAIN log', Joins(log'[i], q)
               PROVE  /\ phase'[q] # "new"
                      /\ \A j \in DOMAIN log' : Joins(log'[j], q) => i = j
    BY DEF JoinsOnce
  <2>1. i \in DOMAIN log /\ \A j \in DOMAIN log' : Joins(log'[j], q) => j \in DOMAIN log
    BY <1>1, <1>4
  <2>2. \A j \in DOMAIN log : log'[j] = log[j]
    BY <1>1
  <2>3. phase[q] # "new" /\ \A j \in DOMAIN log : Joins(log[j], q) => i = j
    BY <2>1, <2>2 DEF GroupInv, JoinsOnce
  <2> QED  BY <1>2, <2>1, <2>2, <2>3
<1>8. LeavesOnce'
  <2> SUFFICES ASSUME NEW q \in Procs, NEW i \in DOMAIN log', Removes(log'[i], q)
               PROVE  /\ phase'[q] = "gone"
                      /\ \A j \in DOMAIN log' : Removes(log'[j], q) => i = j
    BY DEF LeavesOnce
  <2>1. CASE q \in procs
    <3>1. \A j \in DOMAIN log : ~Removes(log[j], q)
      BY <1>5, <2>1 DEF GroupInv, LeavesOnce
    <3> QED  BY <1>1, <1>2, <2>1, <3>1
  <2>2. CASE q \notin procs
    <3>1. i \in DOMAIN log /\ \A j \in DOMAIN log' : Removes(log'[j], q) => j \in DOMAIN log
      BY <1>1, <1>4, <2>2
    <3>2. \A j \in DOMAIN log : log'[j] = log[j]
      BY <1>1
    <3> QED  BY <1>2, <2>2, <3>1, <3>2 DEF GroupInv, LeavesOnce
  <2> QED  BY <2>1, <2>2
<1>9. InView'
  <2> SUFFICES ASSUME NEW q \in Group \ procs, NEW i \in DOMAIN log',
                      i >= cursor'[q], log'[i].type = "change"
               PROVE  q \in log'[i].members
    BY <1>3 DEF InView
  <2>1. CASE i = n
    BY <1>1, <1>4, <2>1
  <2>2. CASE i \in DOMAIN log
    <3>1. cursor'[q] = cursor[q]
      BY <1>2 DEF Group
    <3> QED  BY <1>1, <2>2, <3>1 DEF GroupInv, InView
  <2> QED  BY <1>1, <2>1, <2>2
<1>10. AloneOnce'
  <2>1. \A i \in DOMAIN log' : \A q : IsAlone(log'[i], q) => i \in DOMAIN log /\ IsAlone(log[i], q)
    BY <1>1, <1>4
  <2> QED  BY <1>3, <2>1 DEF GroupInv, AloneOnce
<1>11. InLog'
  <2> SUFFICES ASSUME NEW q \in Procs PROVE cursor'[q] <= n + 1
    BY <1>1 DEF InLog
  <2>1. cursor[q] <= n
    BY DEF GroupInv, InLog, n
  <2> QED  BY <1>1, <1>2, <1>3, <2>1
<1>12. BeginsWithJoin'
  <2> SUFFICES ASSUME NEW q \in Procs
               PROVE  /\ phase'[q] = "new" => table'[q] = << >>
                      /\ q \in Group \ procs => \E i \in DOMAIN log' :
                           /\ Joins(log'[i], q) /\ i <= cursor'[q]
                           /\ cursor'[q] = i => table'[q] = << >>
    BY <1>3 DEF BeginsWithJoin
  <2>1. CASE q \in procs
    BY <1>2, <2>1
  <2>2. CASE q \notin procs
    <3>1. phase'[q] = phase[q] /\ cursor'[q] = cursor[q] /\ table'[q] = table[q]
      BY <1>2, <2>2
    <3>2. \A i \in DOMAIN log : i \in DOMAIN log' /\ log'[i] = log[i]
      BY <1>1
    <3> QED  BY <2>2, <3>1, <3>2 DEF GroupInv, BeginsWithJoin
  <2> QED  BY <2>1, <2>2
<1> QED  BY <1>6, <1>7, <1>8, <1>9, <1>10, <1>11, <1>12 DEF GroupInv

LEMMA StepsKeepGroup ==
  ASSUME Typed, GroupInv, Senders, NEW p \in Procs, Steps(p)
  PROVE  GroupInv'
<1>1. CASE Start(p)
  BY <1>1, StartKeepsGroup
<1>2. CASE FinishStart(p)
  <2>1. /\ phase[p] = "starting" /\ phase' = [phase EXCEPT ![p] = "running"]
        /\ UNCHANGED <<log, cursor, table>>
    BY <1>2 DEF FinishStart
  <2>2. Group' = Group
    BY <2>1, TypedMeans DEF Group
  <2> QED  BY <2>1, <2>2, TypedMeans, GroupKept DEF GroupInv, InLog
<1>3. CASE Order(p)
  <2>1. outbox[p] \in Seq(Entries) /\ outbox[p] # << >> /\ log' = Append(log, Head(outbox[p]))
    BY <1>3, TypedMeans DEF Order
  <2>2. 1 \in DOMAIN outbox[p] /\ Head(outbox[p]) = outbox[p][1] /\ outbox[p][1] \in Entries
    BY <2>1
  <2>3. outbox[p][1].type # "change"
    BY <2>2 DEF Senders, FromLeading
  <2>4. UNCHANGED <<phase, cursor, table>> /\ Group' = Group
    BY <1>3 DEF Order, Group
  <2>5. \A q \in Procs : cursor'[q] \in Nat /\ cursor'[q] <= Len(log') + 1
    <3>1. Len(log') = Len(log) + 1 /\ Len(log) \in Nat
      BY <2>1, LogGrows
    <3> QED  BY <2>4, <3>1, TypedMeans DEF GroupInv, InLog
  <2> QED  BY <2>1, <2>2, <2>3, <2>4, <2>5, GroupKept
<1>4. CASE Handle(p)
  <2>1. /\ log' = log /\ phase' = phase /\ cursor' = [cursor EXCEPT ![p] = cursor[p] + 1]
        /\ p \in Group /\ cursor[p] \in DOMAIN log /\ \A q \in Procs \ {p} : table'[q] = table[q]
    BY <1>4, HandleStep
  <2>2. Group' = Group
    BY <2>1 DEF Group
  <2>3. cursor[p] \in Nat /\ cursor[p] <= Len(log) /\ Len(log) \in Nat
    BY <2>1, LogEntry, TypedMeans
  <2>4. \A q \in Procs : cursor'[q] \in Nat /\ cursor'[q] <= Len(log) + 1
    BY <2>1, <2>3, TypedMeans DEF GroupInv, InLog
  <2>5. \A q \in Procs : \/ cursor'[q] = cursor[q] /\ table'[q] = table[q]
                         \/ cursor'[q] = cursor[q] + 1 /\ q \in Group
    BY <2>1, TypedMeans
  <2> QED  BY <2>1, <2>2, <2>4, <2>5, GroupKept
<1> QED  BY <1>1, <1>2, <1>3, <1>4 DEF Steps

-----------------------------------------------------------------------------
(* What a step says, and the invariant of the tables.                       *)
LEMMA HandleSays ==
  ASSUME Typed, NEW p \in Procs, Handle(p), NEW e, Said(e)'
  PROVE  Said(e) \/ \E m \in DOMAIN outbox'[p] : outbox'[p][m] = e
BY HandleStep DEF Said

LEMMA GroupStepSays ==
  ASSUME Typed, NEW p \in Procs, Start(p) \/ FinishStart(p) \/ Order(p),
         NEW e, Said(e)'
  PROVE  Said(e) \/ e.type = "change"
<1>1. CASE Start(p)
  <2> DEFINE c == Change(Group \cup {p}, {}, {p})
  <2>1. log' = Append(log, c) /\ outbox' = outbox /\ c.type = "change"
    BY <1>1 DEF Start, Change
  <2> HIDE DEF c
  <2>2. \A i \in DOMAIN log' : log'[i] = c \/ (i \in DOMAIN log /\ log'[i] = log[i])
    BY <2>1, LogGrows
  <2> QED  BY <2>1, <2>2 DEF Said
<1>2. CASE FinishStart(p)
  BY <1>2 DEF FinishStart, Said
<1>3. CASE Order(p)
  <2>1. /\ outbox[p] \in Seq(Entries) /\ outbox[p] # << >>
        /\ log' = Append(log, Head(outbox[p]))
        /\ outbox' = [outbox EXCEPT ![p] = Tail(outbox[p])]
    BY <1>3, TypedMeans DEF Order
  <2>2. /\ 1 \in DOMAIN outbox[p] /\ Head(outbox[p]) = outbox[p][1]
        /\ \A m \in DOMAIN Tail(outbox[p]) :
             m + 1 \in DOMAIN outbox[p] /\ Tail(outbox[p])[m] = outbox[p][m + 1]
    BY <2>1
  <2>3. \A i \in DOMAIN log' : log'[i] = outbox[p][1] \/ (i \in DOMAIN log /\ log'[i] = log[i])
    BY <2>1, <2>2, LogGrows
  <2>4. \A q \in Procs : \A m \in DOMAIN outbox'[q] :
          \E n \in DOMAIN outbox[q] : outbox'[q][m] = outbox[q][n]
    BY <2>1, <2>2, TypedMeans
  <2> QED  BY <2>2, <2>3, <2>4 DEF Said
<1> QED  BY <1>1, <1>2, <1>3

LEMMA LeaveSays ==
  ASSUME Typed, SteadyLeader, NEW procs \in SUBSET Procs, Leave(procs), NEW e, Said(e)'
  PROVE  Said(e) \/ e.type = "change"
<1> DEFINE c == Change(Group \ procs, procs, {})
<1>1. log' = Append(log, c) /\ c.type = "change"
  BY LeaveStep DEF Change
<1>2. \A q \in Procs : outbox'[q] = outbox[q] \/ outbox'[q] = << >>
  BY LeaveStep
<1> HIDE DEF c
<1>3. \A i \in DOMAIN log' : log'[i] = c \/ (i \in DOMAIN log /\ log'[i] = log[i])
  BY <1>1, LogGrows
<1> QED  BY <1>1, <1>2, <1>3 DEF Said

LEMMA InitTable == Init => TableInv
<1> SUFFICES ASSUME Init PROVE TableInv
  OBVIOUS
<1>1. DOMAIN log = {} /\ \A p \in Procs : DOMAIN outbox[p] = {}
  BY DEF Init
<1>2. \A p \in Procs : table[p] = << >> /\ local[p] = NoId
  BY DEF Init
<1>3. \A e : ~Said(e)
  BY <1>1 DEF Said
<1>4. \A flags : FlagsIn(<< >>, flags)
  BY DEF FlagsIn
<1>5. LeadingRecords /\ StatusPrepared
  BY <1>2, <1>3, <1>4 DEF LeadingRecords, StatusPrepared
<1>6. LeadingFirst /\ LocalEntry /\ LeadingLocal
  BY <1>1, <1>2 DEF LeadingFirst, TableLate, LocalEntry, OwnRecord, LeadingLocal
<1> QED  BY <1>5, <1>6 DEF TableInv

(* One process's table is handled, or none is, and the rest goes forward.   *)
LEMMA TableKept ==
  ASSUME Typed, Typed', TableInv, Forward,
         \A q \in Procs : cfgLeading[q] => phase'[q] # "gone",
         NEW changed \in SUBSET Procs,
         \A q \in Procs \ changed :
           \/ table'[q] = << >> /\ local'[q] = NoId
           \/ /\ table'[q] = table[q] /\ local'[q] = local[q] /\ cfgLeading'[q] = cfgLeading[q]
              /\ phase'[q] # "gone" \/ (cursor'[q] = cursor[q]),
         \A q \in changed :
           /\ FlagsIn(table'[q], cfgLeading')
           /\ TableLate(q)' /\ OwnRecord(q)'
           /\ cfgLeading'[q] /\ table'[q] # << >> => local'[q] # NoId,
         \A e \in Entries : Said(e)' /\ ~Said(e) =>
           /\ e.type = "whole" => FlagsIn(e.table, cfgLeading')
           /\ e.type = "status" => e.state = "PREPARED",
         \A i \in DOMAIN log' : i \notin DOMAIN log /\ FromLeading(log'[i]) =>
           \E k \in DOMAIN log : k < i /\ LeadingJoin(log[k])
  PROVE  TableInv'
<1>1. \A tbl : FlagsIn(tbl, cfgLeading) => FlagsIn(tbl, cfgLeading')
  BY DEF FlagsIn, Forward
<1>2. /\ \A i \in DOMAIN log : i \in DOMAIN log' /\ log'[i] = log[i] /\ i \in Nat
      /\ \A q \in Procs : cursor[q] \in Nat /\ cursor'[q] \in Nat
  BY TypedMeans, LogEntry DEF Forward, Typed, TypeOK
<1>3. LeadingRecords'
  <2>1. \A q \in Procs : FlagsIn(table'[q], cfgLeading')
    <3> SUFFICES ASSUME NEW q \in Procs PROVE FlagsIn(table'[q], cfgLeading')
      OBVIOUS
    <3>1. FlagsIn(<< >>, cfgLeading')
      BY DEF FlagsIn
    <3>2. FlagsIn(table[q], cfgLeading')
      BY <1>1 DEF TableInv, LeadingRecords
    <3> QED  BY <3>1, <3>2
  <2>2. \A e \in Entries : Said(e)' /\ e.type = "whole" => FlagsIn(e.table, cfgLeading')
    BY <1>1 DEF TableInv, LeadingRecords
  <2> QED  BY <2>1, <2>2 DEF LeadingRecords
<1>4. StatusPrepared'
  BY DEF TableInv, StatusPrepared
<1>5. \A q \in Procs \ changed : TableLate(q)' /\ OwnRecord(q)'
  <2> SUFFICES ASSUME NEW q \in Procs \ changed PROVE TableLate(q)' /\ OwnRecord(q)'
    OBVIOUS
  <2>1. CASE table'[q] = << >> /\ local'[q] = NoId
    BY <2>1 DEF TableLate, OwnRecord
  <2>2. CASE /\ table'[q] = table[q] /\ local'[q] = local[q] /\ cfgLeading'[q] = cfgLeading[q]
             /\ phase'[q] # "gone" \/ (cursor'[q] = cursor[q])
    <3>1. cursor'[q] >= cursor[q]
      BY <1>2, <2>2 DEF Forward
    <3>2. \A i \in DOMAIN log : i < cursor[q] => i < cursor'[q]
      BY <1>2, <3>1
    <3>3. TableLate(q) /\ OwnRecord(q)
      BY DEF TableInv, LeadingFirst, LocalEntry
    <3>4. TableLate(q)'
      BY <1>2, <2>2, <3>2, <3>3 DEF TableLate
    <3>5. OwnRecord(q)'
      BY <1>2, <2>2, <3>2, <3>3 DEF OwnRecord
    <3> QED  BY <3>4, <3>5
  <2> QED  BY <2>1, <2>2
<1>6. LeadingFirst'
  <2>1. \A i \in DOMAIN log' : FromLeading(log'[i]) =>
          \E k \in DOMAIN log' : k < i /\ LeadingJoin(log'[k])
    <3> SUFFICES ASSUME NEW i \in DOMAIN log', FromLeading(log'[i])
                 PROVE  \E k \in DOMAIN log : k < i /\ LeadingJoin(log[k])
      BY <1>2
    <3>1. CASE i \in DOMAIN log
      BY <1>2, <3>1 DEF TableInv, LeadingFirst
    <3> QED  BY <3>1
  <2>2. \A q \in Procs : TableLate(q)'
    BY <1>5
  <2> QED  BY <2>1, <2>2 DEF LeadingFirst
<1>7. LocalEntry'
  BY <1>5 DEF LocalEntry
<1>8. LeadingLocal'
  BY DEF TableInv, LeadingLocal
<1> QED  BY <1>3, <1>4, <1>6, <1>7, <1>8 DEF TableInv

LEMMA GroupStepsKeepTable ==
  ASSUME Typed, Typed', GroupInv, JoinInv, TableInv, NEW p \in Procs,
         Start(p) \/ FinishStart(p) \/ Order(p)
  PROVE  TableInv'
<1>1. Forward /\ \A q \in Procs : phase'[q] = "gone" => phase[q] = "gone"
  BY StepsForward DEF Steps, GroupInv
<1>2. \A q \in Procs : cfgLeading[q] => phase'[q] # "gone"
  BY <1>1 DEF JoinInv, FlagFromAlone
<1>3. UNCHANGED <<table, local, cfgLeading>>
  BY DEF Start, FinishStart, Order
<1>4. \A q \in Procs : phase'[q] # "gone" \/ cursor'[q] = cursor[q]
  <2>1. CASE Start(p)
    BY <2>1, TypedMeans DEF Start
  <2>2. CASE FinishStart(p) \/ Order(p)
    BY <2>2 DEF FinishStart, Order
  <2> QED  BY <2>1, <2>2
<1>5. \A e \in Entries : Said(e)' /\ ~Said(e) => e.type = "change"
  BY GroupStepSays
<1>6. \A i \in DOMAIN log' : i \notin DOMAIN log /\ FromLeading(log'[i]) =>
        \E k \in DOMAIN log : k < i /\ LeadingJoin(log[k])
  <2>1. CASE Start(p)
    <3>1. \A i \in DOMAIN log' : i \in DOMAIN log \/ log'[i].type = "change"
      <4> DEFINE e == Change(Group \cup {p}, {}, {p})
      <4>1. log' = Append(log, e) /\ e.type = "change"
        BY <2>1 DEF Start, Change
      <4> HIDE DEF e
      <4> QED  BY <4>1, LogGrows
    <3> QED  BY <3>1 DEF FromLeading
  <2>2. CASE FinishStart(p)
    BY <2>2 DEF FinishStart
  <2>3. CASE Order(p)
    <3>1. outbox[p] \in Seq(Entries) /\ outbox[p] # << >> /\ log' = Append(log, Head(outbox[p]))
      BY <2>3, TypedMeans DEF Order
    <3>2. 1 \in DOMAIN outbox[p] /\ Head(outbox[p]) = outbox[p][1]
      BY <3>1
    <3> SUFFICES ASSUME NEW i \in DOMAIN log', i \notin DOMAIN log, FromLeading(log'[i])
                 PROVE  \E k \in DOMAIN log : k < i /\ LeadingJoin(log[k])
      OBVIOUS
    <3>3. /\ i = Len(log) + 1 /\ log'[i] = outbox[p][1] /\ Len(log) \in Nat
          /\ \A k \in DOMAIN log : k <= Len(log) /\ k \in Nat
      BY <3>1, <3>2, LogGrows
    <3>4. outbox[p][1].type # "member"
      BY <3>3 DEF FromLeading
    <3>5. local[p] # NoId
      BY <3>2, <3>4 DEF JoinInv, Senders, Leader
    <3>6. table[p] # << >>
      BY <3>5, LeaderTable DEF TableInv
    <3> QED  BY <3>3, <3>6 DEF TableInv, LeadingFirst, TableLate
  <2> QED  BY <2>1, <2>2, <2>3
<1> DEFINE changed == {}
<1>7. changed \in SUBSET Procs
  OBVIOUS
<1> QED  BY <1>1, <1>2, <1>3, <1>4, <1>5, <1>6, <1>7, TableKept

LEMMA LeaveKeepsTable ==
  ASSUME Typed, Typed', SteadyLeader, TableInv, JoinInv, NEW procs \in SUBSET Procs, Leave(procs)
  PROVE  TableInv'
<1>1. Forward
  BY LeaveStep
<1>2. \A q \in Procs : cfgLeading[q] => phase'[q] # "gone"
  BY LeaveStep DEF JoinInv, FlagFromAlone
<1>3. \A q \in Procs :
        \/ table'[q] = << >> /\ local'[q] = NoId
        \/ /\ table'[q] = table[q] /\ local'[q] = local[q] /\ cfgLeading'[q] = cfgLeading[q]
           /\ phase'[q] # "gone" \/ (cursor'[q] = cursor[q])
  BY LeaveStep
<1>4. \A e \in Entries : Said(e)' /\ ~Said(e) => e.type = "change"
  BY LeaveSays
<1>5. \A i \in DOMAIN log' : i \in DOMAIN log \/ log'[i].type = "change"
  <2> DEFINE e == Change(Group \ procs, procs, {})
  <2>1. log' = Append(log, e) /\ e.type = "change"
    BY LeaveStep DEF Change
  <2> HIDE DEF e
  <2> QED  BY <2>1, LogGrows
<1>6. \A i \in DOMAIN log' : i \notin DOMAIN log /\ FromLeading(log'[i]) =>
        \E k \in DOMAIN log : k < i /\ LeadingJoin(log[k])
  BY <1>5 DEF FromLeading
<1> DEFINE changed == {}
<1>7. changed \in SUBSET Procs
  OBVIOUS
<1> QED  BY <1>1, <1>2, <1>3, <1>4, <1>6, <1>7, TableKept

LEMMA HandlerKeepsTable ==
  ASSUME Typed, Typed', GroupInv, JoinInv, TableInv, NEW p \in Procs, Handle(p),
         FlagsIn(table'[p], cfgLeading'), TableLate(p)', OwnRecord(p)',
         cfgLeading'[p] /\ table'[p] # << >> => local'[p] # NoId,
         \A m \in DOMAIN outbox'[p] :
           /\ outbox'[p][m].type = "whole" => FlagsIn(outbox'[p][m].table, cfgLeading')
           /\ outbox'[p][m].type = "status" => outbox'[p][m].state = "PREPARED"
  PROVE  TableInv'
<1>1. Forward /\ \A q \in Procs : phase'[q] = "gone" => phase[q] = "gone"
  BY StepsForward DEF Steps, GroupInv
<1>2. \A q \in Procs : cfgLeading[q] => phase'[q] # "gone"
  BY <1>1 DEF JoinInv, FlagFromAlone
<1>3. /\ log' = log
      /\ \A q \in Procs \ {p} : /\ table'[q] = table[q] /\ local'[q] = local[q]
                                /\ cfgLeading'[q] = cfgLeading[q] /\ cursor'[q] = cursor[q]
  BY HandleStep, TypedMeans
<1>4. \A e \in Entries : Said(e)' /\ ~Said(e) =>
        /\ e.type = "whole" => FlagsIn(e.table, cfgLeading')
        /\ e.type = "status" => e.state = "PREPARED"
  BY HandleSays
<1> DEFINE changed == {p}
<1>5. changed \in SUBSET Procs
  OBVIOUS
<1>6. \A i \in DOMAIN log' : i \notin DOMAIN log /\ FromLeading(log'[i]) =>
        \E k \in DOMAIN log : k < i /\ LeadingJoin(log[k])
  BY <1>3
<1>7. \A q \in Procs \ changed :
        \/ table'[q] = << >> /\ local'[q] = NoId
        \/ /\ table'[q] = table[q] /\ local'[q] = local[q] /\ cfgLeading'[q] = cfgLeading[q]
           /\ phase'[q] # "gone" \/ (cursor'[q] = cursor[q])
  BY <1>3
<1>8. \A q \in changed :
        /\ FlagsIn(table'[q], cfgLeading')
        /\ TableLate(q)' /\ OwnRecord(q)'
        /\ cfgLeading'[q] /\ table'[q] # << >> => local'[q] # NoId
  OBVIOUS
<1> HIDE DEF changed
<1> QED  BY <1>1, <1>2, <1>4, <1>5, <1>6, <1>7, <1>8, TableKept, Zenon

(* A process that joins alone has no table yet.                             *)
LEMMA AloneIsFresh ==
  ASSUME GroupInv, NEW p \in Group, cursor[p] \in DOMAIN log, Joins(log[cursor[p]], p)
  PROVE  table[p] = << >>
<1>1. p \in Procs
  BY DEF Group
<1>2. PICK i \in DOMAIN log : /\ Joins(log[i], p) /\ i <= cursor[p]
                              /\ cursor[p] = i => table[p] = << >>
  BY <1>1 DEF GroupInv, BeginsWithJoin
<1>3. i = cursor[p]
  BY <1>1, <1>2 DEF GroupInv, JoinsOnce
<1> QED  BY <1>2, <1>3

(* The join message of the leading member finds no table anywhere.          *)
LEMMA LeadingJoinIsFirst ==
  ASSUME Typed, GroupInv, JoinInv, TableInv, NEW p \in Procs,
         cursor[p] \in DOMAIN log, LeadingJoin(log[cursor[p]])
  PROVE  table[p] = << >> /\ local[p] = NoId
<1> DEFINE c == cursor[p]
<1>1. ASSUME NEW k \in DOMAIN log, LeadingJoin(log[k])
      PROVE  k = c
  <2>1. /\ log[k] \in Entries /\ Said(log[k]) /\ log[c] \in Entries /\ Said(log[c])
        /\ log[k].proc \in Procs /\ log[c].proc \in Procs
    BY <1>1, LogEntry, EntryFields DEF LeadingJoin
  <2>2. cfgLeading[log[k].proc] /\ cfgLeading[log[c].proc]
    BY <1>1, <2>1 DEF JoinInv, JoinsTell, LeadingJoin
  <2>3. log[k].proc = log[c].proc
    BY <2>1, <2>2, OneFlag
  <2> QED  BY <1>1, <2>3 DEF JoinInv, SentOnce, SameOnce, LeadingJoin
<1>2. c \in Nat
  BY LogEntry
<1>3. table[p] = << >>
  BY <1>1, <1>2 DEF TableInv, LeadingFirst, TableLate
<1> QED  BY <1>3, LeaderTable DEF TableInv

(* No answer is for a process with the leading flag.                        *)
LEMMA AnsweredIsNotLeading ==
  ASSUME Typed, JoinInv, Answers, NEW e \in Entries, Said(e), e.type \in {"whole", "delta"}
  PROVE  e.proc \in Procs /\ ~cfgLeading[e.proc]
<1>1. e.proc \in Procs
  BY EntryFields
<1>2. PICK k \in DOMAIN log : log[k] = JoinMsg(e.proc, FALSE)
  BY DEF Answers
<1>3. JoinMsg(e.proc, FALSE) \in Entries /\ Said(JoinMsg(e.proc, FALSE))
  BY <1>2, LogEntry
<1> QED  BY <1>1, <1>3 DEF JoinInv, JoinsTell, JoinMsg

(* The first process of a group is the one that joins.                      *)
LEMMA FlagIsTaken ==
  ASSUME Typed, GroupInv, NEW p \in Procs, HandleChange(p), cfgLeading'[p], ~cfgLeading[p]
  PROVE  IsAlone(log[cursor[p]], p)
<1> DEFINE e == log[cursor[p]]
<1>1. /\ p \in Group /\ cursor[p] \in DOMAIN log /\ cursor[p] \in Nat
      /\ e \in Entries /\ e.type = "change"
  BY DispatchStep DEF HandleChange
<1>2. e.joined # {} /\ Cardinality(e.joined) >= Cardinality(e.members)
  BY TypedMeans DEF HandleChange
<1>3. PICK q \in Procs : e.joined = {q} /\ q \in e.members
  BY <1>1, <1>2 DEF GroupInv, ChangeShape
<1>4. p \in e.members
  BY <1>1 DEF GroupInv, InView
<1>5. IsFiniteSet(e.members)
  BY <1>1, EntryFields, MembershipAssumption, FS_Subset
<1>6. {q} \subseteq e.members /\ Cardinality({q}) = 1
  BY <1>3, FS_Singleton
<1>7. Cardinality({q}) = Cardinality(e.members)
  BY <1>2, <1>3, <1>5, <1>6, FS_Subset, FS_CardinalityType
<1>8. {q} = e.members
  BY <1>5, <1>6, <1>7, FS_Subset
<1> QED  BY <1>1, <1>3, <1>4, <1>8 DEF IsAlone

(* A process takes the leading flag before it has a table.                  *)
LEMMA FlagIsFresh ==
  ASSUME Typed, GroupInv, TableInv, NEW p \in Procs, HandleChange(p),
         cfgLeading'[p], ~cfgLeading[p]
  PROVE  table[p] = << >> /\ local[p] = NoId
<1>1. p \in Group /\ cursor[p] \in DOMAIN log
  BY DispatchStep DEF HandleChange
<1>2. Joins(log[cursor[p]], p)
  BY FlagIsTaken DEF IsAlone, Joins
<1>3. table[p] = << >>
  BY <1>1, <1>2, AloneIsFresh
<1> QED  BY <1>3, LeaderTable DEF TableInv

LEMMA ChangeTable ==
  ASSUME Typed, GroupInv, JoinInv, TableInv, NEW p \in Procs, HandleChange(p)
  PROVE  LET e == log[cursor[p]]
         IN /\ table'[p] \in Seq(Members) /\ Len(table'[p]) = Len(table[p])
            /\ \A i \in DOMAIN table[p] :
                 /\ table'[p][i].proc = table[p][i].proc /\ table'[p][i].id = table[p][i].id
                 /\ table'[p][i].leading = table[p][i].leading
                 /\ \/ table'[p][i].state = table[p][i].state
                    \/ /\ table'[p][i].state = "INACTIVE" /\ table[p][i].proc \in e.left
                       /\ Removes(e, table[p][i].proc)
<1> DEFINE e == log[cursor[p]]
           left == LeaveMembers(table[p], local[p], e.left)
<1>1. /\ cursor[p] \in DOMAIN log /\ e \in Entries /\ e.type = "change"
      /\ e.left \in SUBSET Procs /\ table[p] \in Seq(Members)
  BY DispatchStep, EntryFields, TypedMeans DEF HandleChange
<1>2. table'[p] = table[p] \/ table'[p] = left
  BY TypedMeans DEF HandleChange
<1>3. \A i \in DOMAIN table[p] : table[p][i].leading => table[p][i].proc \notin e.left
  <2> SUFFICES ASSUME NEW i \in DOMAIN table[p], table[p][i].leading, table[p][i].proc \in e.left
               PROVE  FALSE
    OBVIOUS
  <2>1. cfgLeading[table[p][i].proc] /\ table[p][i].proc \in Procs
    BY DEF TableInv, LeadingRecords, FlagsIn
  <2>2. Removes(e, table[p][i].proc)
    BY <1>1 DEF Removes
  <2> QED  BY <1>1, <2>1, <2>2 DEF GroupInv, LeavesOnce, JoinInv, FlagFromAlone
<1>4. /\ left \in Seq(Members) /\ Len(left) = Len(table[p])
      /\ \A i \in DOMAIN table[p] :
           /\ left[i].proc = table[p][i].proc /\ left[i].id = table[p][i].id
           /\ left[i].leading = table[p][i].leading
           /\ \/ left[i].state = table[p][i].state
              \/ left[i].state = "INACTIVE" /\ table[p][i].proc \in e.left
  BY <1>1, <1>3, LeaveMembersTable
<1> HIDE DEF left
<1> QED  BY <1>1, <1>2, <1>4 DEF Removes

LEMMA ChangeKeepsTable ==
  ASSUME Typed, Typed', GroupInv, JoinInv, TableInv, NEW p \in Procs, HandleChange(p)
  PROVE  TableInv'
<1> DEFINE e == log[cursor[p]]
<1>1. Handle(p) /\ local'[p] = local[p]
  BY DEF Handle, HandleChange
<1>2. /\ cursor[p] \in DOMAIN log /\ cursor[p] \in Nat /\ p \in Group /\ log' = log
      /\ cursor'[p] = cursor[p] + 1
  BY <1>1, HandleStep, LogEntry, TypedMeans
<1>3. /\ table[p] \in Seq(Members) /\ table'[p] \in Seq(Members) /\ Len(table'[p]) = Len(table[p])
      /\ DOMAIN table'[p] = DOMAIN table[p]
      /\ \A i \in DOMAIN table[p] :
           /\ table'[p][i].proc = table[p][i].proc /\ table'[p][i].id = table[p][i].id
           /\ table'[p][i].leading = table[p][i].leading
  BY ChangeTable, TypedMeans
<1>4. \A q \in Procs : cfgLeading[q] => cfgLeading'[q]
  BY <1>1, StepsForward, HandleStep DEF Steps, GroupInv, Forward, JoinInv, FlagFromAlone
<1>5. FlagsIn(table'[p], cfgLeading')
  BY <1>3, <1>4 DEF FlagsIn, TableInv, LeadingRecords
<1>6. cfgLeading'[p] /\ ~cfgLeading[p] => table[p] = << >> /\ local[p] = NoId
  BY FlagIsFresh
<1>7. table'[p] = << >> <=> table[p] = << >>
  BY <1>3
<1>8. \A k \in DOMAIN log : k < cursor[p] => k < cursor'[p]
  BY <1>2, LogEntry
<1>9. TableLate(p)'
  BY <1>2, <1>7, <1>8 DEF TableLate, TableInv, LeadingFirst
<1>10. OwnRecord(p)'
  <2> SUFFICES ASSUME local[p] # NoId PROVE OwnRecord(p)'
    BY <1>1 DEF OwnRecord
  <2>1. OwnRecord(p) /\ local[p] \in DOMAIN table[p]
    BY LeaderTable DEF TableInv, LocalEntry
  <2>2. ~cfgLeading'[p] => ~cfgLeading[p]
    BY <1>4
  <2> QED  BY <1>1, <1>2, <1>3, <1>8, <2>1, <2>2 DEF OwnRecord
<1>11. cfgLeading'[p] /\ table'[p] # << >> => local'[p] # NoId
  BY <1>1, <1>6, <1>7 DEF TableInv, LeadingLocal
<1>12. \A m \in DOMAIN outbox'[p] : outbox'[p][m].type = "member"
  BY TypedMeans DEF HandleChange, Multicast, JoinMsg
<1> QED  BY <1>1, <1>5, <1>9, <1>10, <1>11, <1>12, HandlerKeepsTable

LEMMA JoinedSays ==
  ASSUME Typed, NEW p \in Procs, NEW tbl, NEW pos, NEW joined, MemberJoined(p, tbl, pos, joined)
  PROVE  \/ outbox'[p] = << >>
         \/ Leads(tbl, pos) /\ outbox'[p] = <<StatusMsg(joined, "PREPARED")>>
BY TypedMeans DEF MemberJoined, Multicast

LEMMA LeadingJoinTable ==
  ASSUME Typed, SteadyLeader, GroupInv, JoinInv, TableInv, NEW p \in Procs, HandleLeadingJoin(p)
  PROVE  LET r == log[cursor[p]].proc
         IN /\ LeadingJoin(log[cursor[p]]) /\ r \in Procs /\ cfgLeading[r]
            /\ table[p] = << >> /\ local[p] = NoId
            /\ Len(table'[p]) = 1 /\ DOMAIN table'[p] = {1}
            /\ table'[p][1] = [proc |-> r, id |-> 1, state |-> "JOINED", leading |-> TRUE]
            /\ local'[p] = IF p = r THEN 1 ELSE NoId
            /\ \/ outbox'[p] = << >>
               \/ /\ Leads(table'[p], local'[p])
                  /\ outbox'[p] = <<StatusMsg(1, "PREPARED")>>
<1> DEFINE e == log[cursor[p]]
           put == PutMember(table[p], e.proc, TRUE, "JOINED", 1)
<1>1. /\ cursor[p] \in DOMAIN log /\ e \in Entries /\ e.type = "member" /\ e.leading
      /\ e.proc \in Procs /\ Said(e)
  BY DispatchStep, EntryFields, LogEntry DEF HandleLeadingJoin
<1>2. LeadingJoin(e) /\ cfgLeading[e.proc]
  BY <1>1 DEF LeadingJoin, JoinInv, JoinsTell
<1>3. table[p] = << >> /\ local[p] = NoId
  BY <1>1, <1>2, LeadingJoinIsFirst
<1>4. /\ AddPos(table[p]) = 1 /\ Len(put) = 1 /\ DOMAIN put = {1}
      /\ put[1] = [proc |-> e.proc, id |-> 1, state |-> "JOINED", leading |-> TRUE]
  <2>1. /\ table[p] \in Seq(Members) /\ Len(table[p]) = 0
        /\ "JOINED" \in MemberStates /\ TRUE \in BOOLEAN
    BY <1>3, TypedMeans DEF MemberStates
  <2> QED  BY <1>1, <2>1, FirstMember
<1>5. IsLocalMember(p, e.proc) <=> p = e.proc
  BY <1>1 DEF IsLocalMember, SteadyLeader
<1>6. table'[p] = put /\ local'[p] = IF p = e.proc THEN 1 ELSE NoId
  BY <1>3, <1>4, <1>5, TypedMeans DEF HandleLeadingJoin
<1>7. MemberJoined(p, put, local'[p], 1)
  BY <1>3, <1>4, <1>5, <1>6 DEF HandleLeadingJoin
<1>8. /\ outbox'[p] = << >> \/ (Leads(put, local'[p]) /\ outbox'[p] = <<StatusMsg(1, "PREPARED")>>)
  BY <1>7, JoinedSays
<1> HIDE DEF put
<1> QED  BY <1>1, <1>2, <1>3, <1>4, <1>6, <1>8

LEMMA LeadingJoinKeepsTable ==
  ASSUME Typed, Typed', SteadyLeader, GroupInv, JoinInv, TableInv,
         NEW p \in Procs, HandleLeadingJoin(p)
  PROVE  TableInv'
<1> DEFINE r == log[cursor[p]].proc
<1>1. /\ Handle(p) /\ cfgLeading' = cfgLeading
  BY DEF Handle, HandleLeadingJoin
<1>2. /\ cursor[p] \in DOMAIN log /\ cursor[p] \in Nat /\ log' = log /\ cursor'[p] = cursor[p] + 1
  BY <1>1, HandleStep, LogEntry, TypedMeans
<1>3. /\ LeadingJoin(log[cursor[p]]) /\ r \in Procs /\ cfgLeading[r]
      /\ Len(table'[p]) = 1 /\ DOMAIN table'[p] = {1}
      /\ table'[p][1] = [proc |-> r, id |-> 1, state |-> "JOINED", leading |-> TRUE]
      /\ local'[p] = IF p = r THEN 1 ELSE NoId
      /\ outbox'[p] = << >> \/ outbox'[p] = <<StatusMsg(1, "PREPARED")>>
  BY LeadingJoinTable
<1>4. FlagsIn(table'[p], cfgLeading')
  BY <1>1, <1>3 DEF FlagsIn
<1>5. TableLate(p)'
  BY <1>2, <1>3 DEF TableLate
<1>6. OwnRecord(p)'
  BY <1>1, <1>3 DEF OwnRecord
<1>7. cfgLeading'[p] => local'[p] # NoId
  BY <1>1, <1>3, OneFlag DEF NoId
<1>8. \A m \in DOMAIN outbox'[p] :
        outbox'[p][m].type = "status" /\ outbox'[p][m].state = "PREPARED"
  BY <1>3 DEF StatusMsg
<1> QED  BY <1>1, <1>4, <1>5, <1>6, <1>7, <1>8, HandlerKeepsTable

LEMMA NormalJoinKeepsTable ==
  ASSUME Typed, Typed', GroupInv, JoinInv, TableInv, NEW p \in Procs, HandleNormalJoin(p)
  PROVE  TableInv'
<1> DEFINE e == log[cursor[p]]
<1>1. Handle(p) /\ cfgLeading' = cfgLeading /\ local'[p] = local[p]
  BY DEF Handle, HandleNormalJoin
<1>2. /\ cursor[p] \in DOMAIN log /\ cursor[p] \in Nat /\ log' = log /\ cursor'[p] = cursor[p] + 1
      /\ outbox[p] = << >>
  BY <1>1, HandleStep, LogEntry, TypedMeans
<1>3. table[p] \in Seq(Members) /\ FlagsIn(table[p], cfgLeading) /\ TableLate(p) /\ OwnRecord(p)
  BY TypedMeans DEF TableInv, LeadingRecords, LeadingFirst, LocalEntry
<1>4. \A k \in DOMAIN log : k < cursor[p] => k < cursor'[p]
  BY <1>2, LogEntry
<1>5. \/ table'[p] = table[p] /\ outbox'[p] = << >>
      \/ /\ Leads(table[p], local[p]) /\ table'[p] = TakePos(table[p])
         /\ outbox'[p] = <<WholeMsg(e.proc, table[p]), DeltaMsg(e.proc, AddPos(table[p]))>>
  BY <1>2, TypedMeans DEF HandleNormalJoin, Multicast
<1>6. CASE table'[p] = table[p] /\ outbox'[p] = << >>
  <2>1. FlagsIn(table'[p], cfgLeading')
    BY <1>1, <1>3, <1>6
  <2>2. TableLate(p)'
    BY <1>2, <1>3, <1>4, <1>6 DEF TableLate
  <2>3. OwnRecord(p)'
    BY <1>1, <1>2, <1>3, <1>4, <1>6 DEF OwnRecord
  <2>4. cfgLeading'[p] /\ table'[p] # << >> => local'[p] # NoId
    BY <1>1, <1>6 DEF TableInv, LeadingLocal
  <2>5. DOMAIN outbox'[p] = {}
    BY <1>6
  <2> QED  BY <1>1, <2>1, <2>2, <2>3, <2>4, <2>5, HandlerKeepsTable
<1>7. CASE /\ Leads(table[p], local[p]) /\ table'[p] = TakePos(table[p])
           /\ outbox'[p] = <<WholeMsg(e.proc, table[p]), DeltaMsg(e.proc, AddPos(table[p]))>>
  <2>1. /\ Len(table'[p]) >= Len(table[p]) /\ table'[p] \in Seq(Members)
        /\ \A i \in DOMAIN table'[p] :
             /\ i \in DOMAIN table[p] => /\ table'[p][i].proc = table[p][i].proc
                                         /\ table'[p][i].id = table[p][i].id
                                         /\ table'[p][i].leading = table[p][i].leading
             /\ i \notin DOMAIN table[p] => ~table'[p][i].leading
    <3> DEFINE taken == TakePos(table[p])
               pos == AddPos(table[p])
    <3>1. ~[BlankMember EXCEPT !.state = "TAKEN"].leading
      BY DEF BlankMember
    <3>2. /\ taken \in Seq(Members) /\ Len(taken) >= Len(table[p])
          /\ pos \notin DOMAIN table[p] => taken[pos] = [BlankMember EXCEPT !.state = "TAKEN"]
          /\ \A i \in DOMAIN taken :
               /\ i # pos => i \in DOMAIN table[p] /\ taken[i] = table[p][i]
               /\ i \in DOMAIN table[p] => /\ taken[i].proc = table[p][i].proc
                                           /\ taken[i].id = table[p][i].id
                                           /\ taken[i].leading = table[p][i].leading
      BY <1>3, TakePosTable
    <3>3. \A i \in DOMAIN taken : i \notin DOMAIN table[p] => ~taken[i].leading
      BY <3>1, <3>2
    <3> HIDE DEF taken, pos
    <3> QED  BY <1>7, <3>2, <3>3 DEF taken
  <2>2. local[p] # NoId /\ table[p] # << >>
    BY <1>7, LeadsAlone DEF TableInv, Leader
  <2>3. FlagsIn(table'[p], cfgLeading')
    BY <1>1, <1>3, <2>1 DEF FlagsIn
  <2>4. TableLate(p)'
    BY <1>2, <1>3, <1>4, <2>2 DEF TableLate
  <2>5. OwnRecord(p)'
    <3>1. local[p] \in DOMAIN table[p] /\ local[p] \in Nat
      BY <2>2, LeaderTable, TypedMeans DEF TableInv
    <3>2. /\ local[p] \in DOMAIN table'[p] /\ local[p] <= Len(table'[p])
          /\ table'[p][local[p]].proc = table[p][local[p]].proc
          /\ table'[p][local[p]].id = table[p][local[p]].id
      BY <1>3, <2>1, <3>1
    <3> QED  BY <1>1, <1>2, <1>3, <1>4, <3>2 DEF OwnRecord
  <2>6. local'[p] # NoId
    BY <1>1, <2>2
  <2>7. \A m \in DOMAIN outbox'[p] :
          \/ outbox'[p][m].type = "whole" /\ outbox'[p][m].table = table[p]
          \/ outbox'[p][m].type = "delta"
    BY <1>7 DEF WholeMsg, DeltaMsg
  <2> QED  BY <1>1, <1>3, <2>3, <2>4, <2>5, <2>6, <2>7, HandlerKeepsTable
<1> QED  BY <1>5, <1>6, <1>7

(* What a handler leaves at its place is still there.                       *)
LEMMA PassiveKeepsTable ==
  ASSUME Typed, Typed', GroupInv, JoinInv, TableInv, NEW p \in Procs, Handle(p),
         cfgLeading' = cfgLeading, local'[p] = local[p], outbox'[p] = << >>,
         Len(table'[p]) >= Len(table[p]),
         \A i \in DOMAIN table[p] :
           /\ table'[p][i].proc = table[p][i].proc /\ table'[p][i].id = table[p][i].id,
         FlagsIn(table'[p], cfgLeading), TableLate(p)',
         cfgLeading[p] => Len(table'[p]) = Len(table[p])
  PROVE  TableInv'
<1>1. /\ cursor[p] \in DOMAIN log /\ cursor[p] \in Nat /\ log' = log /\ cursor'[p] = cursor[p] + 1
  BY HandleStep, LogEntry, TypedMeans
<1>2. /\ table[p] \in Seq(Members) /\ OwnRecord(p) /\ table'[p] \in Seq(Members)
      /\ local[p] \in Nat
  BY TypedMeans DEF TableInv, LocalEntry, Typed, TypeOK
<1>3. \A k \in DOMAIN log : k < cursor[p] => k < cursor'[p]
  BY <1>1, LogEntry
<1>4. OwnRecord(p)'
  <2> SUFFICES ASSUME local[p] # NoId PROVE OwnRecord(p)'
    BY DEF OwnRecord
  <2>1. local[p] \in DOMAIN table[p] /\ local[p] <= Len(table'[p])
    BY <1>2, LeaderTable DEF TableInv
  <2> QED  BY <1>1, <1>2, <1>3, <2>1 DEF OwnRecord
<1>5. cfgLeading'[p] /\ table'[p] # << >> => local'[p] # NoId
  BY <1>2 DEF TableInv, LeadingLocal
<1>6. DOMAIN outbox'[p] = {}
  OBVIOUS
<1> QED  BY <1>4, <1>5, <1>6, HandlerKeepsTable

LEMMA WholeTable ==
  ASSUME Typed, SteadyLeader, JoinInv, TableInv, Answers, NEW p \in Procs, HandleWhole(p)
  PROVE  LET e == log[cursor[p]]
         IN /\ e.table \in Seq(Members) /\ FlagsIn(e.table, cfgLeading)
            /\ cursor[p] \in DOMAIN log /\ FromLeading(e)
            /\ cfgLeading' = cfgLeading /\ local' = local /\ outbox'[p] = << >>
            /\ \/ table'[p] = table[p]
               \/ ~cfgLeading[p] /\ table'[p] = table[p] \o e.table
<1> DEFINE e == log[cursor[p]]
<1>1. /\ cursor[p] \in DOMAIN log /\ e \in Entries /\ e.type = "whole" /\ outbox[p] = << >>
      /\ e.proc \in Procs /\ e.table \in Seq(Members) /\ Said(e)
  BY DispatchStep, EntryFields, LogEntry DEF HandleWhole
<1>2. IsLocalMember(p, e.proc) => p = e.proc
  BY <1>1 DEF IsLocalMember, SteadyLeader
<1>3. ~cfgLeading[e.proc]
  BY <1>1, AnsweredIsNotLeading
<1>4. /\ cfgLeading' = cfgLeading /\ local' = local /\ outbox'[p] = << >>
      /\ table'[p] = IF IsLocalMember(p, e.proc) THEN table[p] \o e.table ELSE table[p]
  BY <1>1, TypedMeans DEF HandleWhole
<1> QED  BY <1>1, <1>2, <1>3, <1>4 DEF TableInv, LeadingRecords, FromLeading

LEMMA WholeKeepsTable ==
  ASSUME Typed, Typed', SteadyLeader, GroupInv, JoinInv, TableInv, Answers,
         NEW p \in Procs, HandleWhole(p)
  PROVE  TableInv'
<1> DEFINE e == log[cursor[p]]
<1>1. /\ Handle(p) /\ e.table \in Seq(Members) /\ FlagsIn(e.table, cfgLeading) /\ FromLeading(e)
      /\ cfgLeading' = cfgLeading /\ local' = local /\ outbox'[p] = << >>
      /\ table'[p] = table[p] \/ (~cfgLeading[p] /\ table'[p] = table[p] \o e.table)
  BY WholeTable DEF Handle
<1>2. /\ cursor[p] \in DOMAIN log /\ cursor[p] \in Nat /\ log' = log /\ cursor'[p] = cursor[p] + 1
  BY <1>1, HandleStep, LogEntry, TypedMeans
<1>3. table[p] \in Seq(Members) /\ FlagsIn(table[p], cfgLeading)
  BY TypedMeans DEF TableInv, LeadingRecords
<1>4. /\ Len(table'[p]) >= Len(table[p]) /\ FlagsIn(table'[p], cfgLeading)
      /\ \A i \in DOMAIN table[p] : table'[p][i] = table[p][i]
      /\ cfgLeading[p] => Len(table'[p]) = Len(table[p])
  <2>1. CASE table'[p] = table[p]
    BY <1>3, <2>1
  <2>2. CASE ~cfgLeading[p] /\ table'[p] = table[p] \o e.table
    <3>1. /\ Len(table'[p]) >= Len(table[p])
          /\ \A i \in DOMAIN table[p] : table'[p][i] = table[p][i]
          /\ \A i \in DOMAIN table'[p] : i \notin DOMAIN table[p] =>
               \E j \in DOMAIN e.table : table'[p][i] = e.table[j]
      <4> DEFINE whole == table[p] \o e.table
      <4>1. /\ Len(whole) >= Len(table[p])
            /\ \A i \in DOMAIN table[p] : whole[i] = table[p][i]
            /\ \A i \in DOMAIN whole : i \notin DOMAIN table[p] =>
                 \E j \in DOMAIN e.table : whole[i] = e.table[j]
        BY <1>1, <1>3, AppendedTable
      <4> HIDE DEF whole
      <4> QED  BY <2>2, <4>1 DEF whole
    <3>2. FlagsIn(table'[p], cfgLeading)
      BY <1>1, <1>3, <3>1 DEF FlagsIn
    <3> QED  BY <2>2, <3>1, <3>2
  <2> QED  BY <1>1, <2>1, <2>2
<1>5. TableLate(p)'
  <2>1. PICK k \in DOMAIN log : k < cursor[p] /\ LeadingJoin(log[k])
    BY <1>1, <1>2 DEF TableInv, LeadingFirst
  <2> QED  BY <1>2, <2>1, LogEntry DEF TableLate
<1> QED  BY <1>1, <1>4, <1>5, PassiveKeepsTable

LEMMA StatusTable ==
  ASSUME Typed, TableInv, NEW p \in Procs, HandleStatus(p)
  PROVE  /\ cfgLeading' = cfgLeading /\ local' = local /\ outbox'[p] = << >>
         /\ table'[p] \in Seq(Members) /\ Len(table'[p]) = Len(table[p])
         /\ \A i \in DOMAIN table[p] :
              /\ table'[p][i].proc = table[p][i].proc /\ table'[p][i].id = table[p][i].id
              /\ table'[p][i].leading = table[p][i].leading
              /\ table'[p][i].state = table[p][i].state \/ table'[p][i].state = "PREPARED"
<1> DEFINE e == log[cursor[p]]
           set == SetState(table[p], e.pos, e.state)
<1>1. /\ e \in Entries /\ e.type = "status" /\ outbox[p] = << >> /\ Said(e)
      /\ e.pos \in Nat /\ e.state \in MemberStates
  BY DispatchStep, EntryFields, LogEntry DEF HandleStatus
<1>2. e.state = "PREPARED"
  BY <1>1 DEF TableInv, StatusPrepared
<1>3. /\ cfgLeading' = cfgLeading /\ local' = local /\ outbox'[p] = << >>
      /\ table'[p] = table[p] \/ table'[p] = set
  BY <1>1, TypedMeans DEF HandleStatus
<1>4. table[p] \in Seq(Members)
  BY TypedMeans
<1>5. /\ set \in Seq(Members) /\ Len(set) = Len(table[p])
      /\ \A i \in DOMAIN table[p] :
           /\ set[i].proc = table[p][i].proc /\ set[i].id = table[p][i].id
           /\ set[i].leading = table[p][i].leading
           /\ set[i].state = table[p][i].state \/ set[i].state = "PREPARED"
  BY <1>1, <1>2, <1>4, SetStateTable
<1> HIDE DEF set
<1> QED  BY <1>3, <1>4, <1>5

LEMMA StatusKeepsTable ==
  ASSUME Typed, Typed', GroupInv, JoinInv, TableInv, NEW p \in Procs, HandleStatus(p)
  PROVE  TableInv'
<1>1. /\ Handle(p) /\ cfgLeading' = cfgLeading /\ local'[p] = local[p] /\ outbox'[p] = << >>
      /\ table[p] \in Seq(Members) /\ table'[p] \in Seq(Members)
      /\ Len(table'[p]) = Len(table[p]) /\ DOMAIN table'[p] = DOMAIN table[p]
      /\ \A i \in DOMAIN table[p] :
           /\ table'[p][i].proc = table[p][i].proc /\ table'[p][i].id = table[p][i].id
           /\ table'[p][i].leading = table[p][i].leading
  BY StatusTable, TypedMeans DEF Handle
<1>2. /\ cursor[p] \in DOMAIN log /\ cursor[p] \in Nat /\ log' = log /\ cursor'[p] = cursor[p] + 1
  BY <1>1, HandleStep, LogEntry, TypedMeans
<1>3. FlagsIn(table'[p], cfgLeading)
  BY <1>1 DEF TableInv, LeadingRecords, FlagsIn
<1>4. TableLate(p)'
  <2>1. TableLate(p) /\ \A k \in DOMAIN log : k < cursor[p] => k < cursor'[p]
    BY <1>2, LogEntry DEF TableInv, LeadingFirst
  <2> QED  BY <1>1, <1>2, <2>1 DEF TableLate
<1>5. Len(table[p]) \in Nat
  BY <1>1
<1> QED  BY <1>1, <1>3, <1>4, <1>5, PassiveKeepsTable

LEMMA IgnoreKeepsTable ==
  ASSUME Typed, Typed', GroupInv, JoinInv, TableInv, NEW p \in Procs, IgnoreWhileStarting(p)
  PROVE  TableInv'
<1>1. /\ Handle(p) /\ UNCHANGED <<outbox, table, local, cfgLeading>> /\ outbox[p] = << >>
  BY DispatchStep DEF Handle, IgnoreWhileStarting
<1>2. /\ cursor[p] \in DOMAIN log /\ cursor[p] \in Nat /\ log' = log /\ cursor'[p] = cursor[p] + 1
  BY <1>1, HandleStep, LogEntry, TypedMeans
<1>3. FlagsIn(table'[p], cfgLeading)
  BY <1>1 DEF TableInv, LeadingRecords
<1>4. TableLate(p)'
  <2>1. TableLate(p) /\ \A k \in DOMAIN log : k < cursor[p] => k < cursor'[p]
    BY <1>2, LogEntry DEF TableInv, LeadingFirst
  <2> QED  BY <1>1, <1>2, <2>1 DEF TableLate
<1>5. table[p] \in Seq(Members) /\ Len(table[p]) \in Nat
  BY TypedMeans
<1> QED  BY <1>1, <1>3, <1>4, <1>5, PassiveKeepsTable

(* The delta of another process never takes a member's own record.          *)
LEMMA DeltaMissesOwn ==
  ASSUME Typed, GroupInv, JoinInv, TableInv, GrantInv, NEW p \in Group,
         cursor[p] \in DOMAIN log, log[cursor[p]].type = "delta", local[p] # NoId
  PROVE  log[cursor[p]].proc # p /\ log[cursor[p]].pos # local[p]
<1> DEFINE c == cursor[p]
           e == log[c]
<1>1. /\ p \in Procs /\ phase[p] # "gone" /\ c \in Nat /\ e \in Entries /\ Said(e)
      /\ e.proc \in Procs /\ e.pos \in Nat \ {NoId}
  BY LogEntry, EntryFields DEF Group
<1>2. ~cfgLeading[e.proc]
  BY <1>1, AnsweredIsNotLeading DEF GrantInv
<1>3. OwnRecord(p) /\ local[p] \in DOMAIN table[p] /\ table[p][local[p]].proc = p
  BY <1>1, LeaderTable DEF TableInv, LocalEntry
<1>4. CASE cfgLeading[p]
  <2>1. e.pos # local[p]
    <3> SUFFICES ASSUME e.pos = local[p] PROVE FALSE
      OBVIOUS
    <3>1. Promised(p, local[p])
      BY <1>1 DEF Promised
    <3>2. table[p][local[p]].proc = NoProc \/ HasLeft(p, table[p][local[p]].proc)
      BY <1>1, <1>3, <1>4, <3>1 DEF GrantInv, PromisedFree, Leader
    <3>3. HasLeft(p, p)
      BY <1>1, <1>3, <3>2, TableAssumption
    <3> QED  BY <1>1, <3>3 DEF HasLeft, GroupInv, LeavesOnce
  <2> QED  BY <1>2, <1>4, <2>1
<1>5. CASE ~cfgLeading[p]
  <2>1. PICK i \in DOMAIN log : i < c /\ log[i] = DeltaMsg(p, local[p])
    BY <1>3, <1>5 DEF OwnRecord
  <2>2. log[i].type = "delta" /\ log[i].proc = p /\ log[i].pos = local[p] /\ i # c /\ i \in Nat
    BY <1>1, <2>1, LogEntry DEF DeltaMsg
  <2>3. e.proc # p
    BY <1>1, <2>2 DEF JoinInv, SentOnce, SameOnce
  <2>4. e.pos # local[p]
    <3> SUFFICES ASSUME e.pos = local[p] PROVE FALSE
      OBVIOUS
    <3>1. Superseded(i)
      BY <2>1, <2>2 DEF GrantInv, LastGrant, SamePos
    <3> QED  BY <1>1, <2>2, <3>1 DEF Superseded
  <2> QED  BY <2>3, <2>4
<1> QED  BY <1>4, <1>5

LEMMA DeltaTable ==
  ASSUME Typed, SteadyLeader, JoinInv, TableInv, Answers, NEW p \in Procs, HandleDelta(p)
  PROVE  LET e == log[cursor[p]]
         IN /\ cursor[p] \in DOMAIN log /\ e.type = "delta" /\ FromLeading(e)
            /\ e = DeltaMsg(e.proc, e.pos)
            /\ e.proc \in Procs /\ ~cfgLeading[e.proc] /\ e.pos \in Nat \ {NoId}
            /\ cfgLeading' = cfgLeading
            /\ \/ /\ table[p] = << >> /\ table'[p] = table[p] /\ local'[p] = local[p]
                  /\ outbox'[p] = << >>
               \/ /\ table[p] # << >> /\ table'[p] \in Seq(Members)
                  /\ Len(table'[p]) >= Len(table[p]) /\ e.pos \in DOMAIN table'[p]
                  /\ e.pos <= Len(table[p]) => Len(table'[p]) = Len(table[p])
                  /\ table'[p][e.pos] =
                       [proc |-> e.proc, id |-> e.pos, state |-> "JOINED", leading |-> FALSE]
                  /\ \A i \in DOMAIN table'[p] : i # e.pos =>
                       IF i \in DOMAIN table[p] THEN table'[p][i] = table[p][i]
                                                ELSE table'[p][i] = BlankMember
                  /\ local'[p] = IF p = e.proc THEN e.pos ELSE local[p]
                  /\ \/ outbox'[p] = << >>
                     \/ /\ Leads(table'[p], local'[p])
                        /\ outbox'[p] = <<StatusMsg(e.pos, "PREPARED")>>
<1> DEFINE e == log[cursor[p]]
           put == PutMember(table[p], e.proc, FALSE, "JOINED", e.pos)
<1>1. /\ cursor[p] \in DOMAIN log /\ e \in Entries /\ e.type = "delta" /\ Said(e)
      /\ e.proc \in Procs /\ e.pos \in Nat \ {NoId} /\ e = DeltaMsg(e.proc, e.pos)
      /\ outbox[p] = << >>
  BY DispatchStep, EntryFields, LogEntry DEF HandleDelta
<1>2. ~cfgLeading[e.proc] /\ FromLeading(e) /\ cfgLeading' = cfgLeading
  BY <1>1, AnsweredIsNotLeading DEF FromLeading, HandleDelta
<1>3. IsLocalMember(p, e.proc) <=> p = e.proc
  BY <1>1 DEF IsLocalMember, SteadyLeader
<1>4. CASE table[p] = << >>
  <2>1. table' = table /\ local' = local /\ outbox' = outbox
    BY <1>4 DEF HandleDelta
  <2> QED  BY <1>1, <1>2, <1>4, <2>1
<1>5. CASE table[p] # << >>
  <2>1. table[p] \in Seq(Members) /\ "JOINED" \in MemberStates /\ FALSE \in BOOLEAN
    BY TypedMeans DEF MemberStates
  <2>2. put \in Seq(Members)
    BY <1>1, <2>1, PutMemberTable
  <2>3. Len(put) >= Len(table[p]) /\ e.pos \in DOMAIN put
    BY <1>1, <2>1, PutMemberTable
  <2>4. e.pos <= Len(table[p]) => Len(put) = Len(table[p])
    BY <1>1, <2>1, PutMemberTable
  <2>5. put[e.pos] = [proc |-> e.proc, id |-> e.pos, state |-> "JOINED", leading |-> FALSE]
    BY <2>3 DEF PutMember
  <2>6. \A i \in DOMAIN put : i # e.pos =>
          IF i \in DOMAIN table[p] THEN put[i] = table[p][i] ELSE put[i] = BlankMember
    BY <1>1, <2>1, PutMemberTable
  <2>7. /\ table'[p] = put
        /\ local'[p] = IF p = e.proc THEN e.pos ELSE local[p]
    BY <1>3, <1>5, TypedMeans DEF HandleDelta
  <2>8. MemberJoined(p, put, local'[p], e.pos)
    BY <1>3, <1>5, <2>7 DEF HandleDelta
  <2> HIDE DEF put
  <2>9. \/ outbox'[p] = << >>
        \/ Leads(put, local'[p]) /\ outbox'[p] = <<StatusMsg(e.pos, "PREPARED")>>
    BY <2>8, JoinedSays
  <2> QED  BY <1>1, <1>2, <1>5, <2>2, <2>3, <2>4, <2>5, <2>6, <2>7, <2>9
<1> QED  BY <1>4, <1>5

LEMMA DeltaKeepsTable ==
  ASSUME Typed, Typed', SteadyLeader, GroupInv, JoinInv, TableInv, GrantInv,
         NEW p \in Procs, HandleDelta(p)
  PROVE  TableInv'
<1> DEFINE e == log[cursor[p]]
<1>1. Handle(p) /\ Answers
  BY DEF Handle, GrantInv
<1>2. /\ cursor[p] \in DOMAIN log /\ cursor[p] \in Nat /\ log' = log /\ cursor'[p] = cursor[p] + 1
      /\ p \in Group
  BY <1>1, HandleStep, LogEntry, TypedMeans
<1>3. /\ table[p] \in Seq(Members) /\ FlagsIn(table[p], cfgLeading)
      /\ TableLate(p) /\ OwnRecord(p)
  BY TypedMeans DEF TableInv, LeadingRecords, LeadingFirst, LocalEntry
<1>4. \A k \in DOMAIN log : k < cursor[p] => k < cursor'[p]
  BY <1>2, LogEntry
<1>5. CASE table'[p] = table[p] /\ local'[p] = local[p] /\ outbox'[p] = << >> /\ cfgLeading' = cfgLeading
  <2>1. TableLate(p)'
    BY <1>2, <1>3, <1>4, <1>5 DEF TableLate
  <2>2. Len(table[p]) \in Nat
    BY <1>3
  <2> QED  BY <1>1, <1>3, <1>5, <2>1, <2>2, PassiveKeepsTable
<1>6. CASE /\ table[p] # << >> /\ table'[p] \in Seq(Members) /\ cfgLeading' = cfgLeading
           /\ Len(table'[p]) >= Len(table[p]) /\ e.pos \in DOMAIN table'[p]
           /\ table'[p][e.pos] =
                [proc |-> e.proc, id |-> e.pos, state |-> "JOINED", leading |-> FALSE]
           /\ \A i \in DOMAIN table'[p] : i # e.pos =>
                IF i \in DOMAIN table[p] THEN table'[p][i] = table[p][i]
                                         ELSE table'[p][i] = BlankMember
           /\ local'[p] = IF p = e.proc THEN e.pos ELSE local[p]
           /\ \/ outbox'[p] = << >>
              \/ outbox'[p] = <<StatusMsg(e.pos, "PREPARED")>>
           /\ e.type = "delta" /\ e = DeltaMsg(e.proc, e.pos) /\ e.pos \in Nat \ {NoId}
  <2>1. FlagsIn(table'[p], cfgLeading')
    <3>1. ~BlankMember.leading
      BY DEF BlankMember
    <3> QED  BY <1>3, <1>6, <3>1 DEF FlagsIn
  <2>2. TableLate(p)'
    BY <1>2, <1>3, <1>4, <1>6 DEF TableLate
  <2>3. local[p] # NoId => e.proc # p /\ e.pos # local[p]
    BY <1>2, <1>6, DeltaMissesOwn
  <2>4. OwnRecord(p)'
    <3>1. CASE p = e.proc
      <4>1. local'[p] = e.pos /\ e.pos <= Len(table'[p]) /\ log[cursor[p]] = DeltaMsg(p, e.pos)
        BY <1>6, <3>1
      <4>2. cursor[p] < cursor'[p]
        BY <1>2
      <4> QED  BY <1>2, <1>6, <3>1, <4>1, <4>2 DEF OwnRecord
    <3>2. CASE p # e.proc
      <4> SUFFICES ASSUME local[p] # NoId PROVE OwnRecord(p)'
        BY <1>6, <3>2 DEF OwnRecord
      <4>1. local[p] \in DOMAIN table[p] /\ local[p] \in DOMAIN table'[p] /\ local[p] <= Len(table'[p])
        <5>1. local[p] \in DOMAIN table[p] /\ local[p] \in Nat
          BY LeaderTable, TypedMeans DEF TableInv
        <5> QED  BY <1>3, <1>6, <5>1
      <4>2. table'[p][local[p]] = table[p][local[p]] /\ local'[p] = local[p]
        BY <1>6, <2>3, <3>2, <4>1
      <4> QED  BY <1>2, <1>3, <1>4, <1>6, <4>1, <4>2 DEF OwnRecord
    <3> QED  BY <3>1, <3>2
  <2>5. cfgLeading'[p] => local'[p] # NoId
    BY <1>6 DEF TableInv, LeadingLocal
  <2>6. \A m \in DOMAIN outbox'[p] :
          outbox'[p][m].type = "status" /\ outbox'[p][m].state = "PREPARED"
    BY <1>6 DEF StatusMsg
  <2> QED  BY <1>1, <2>1, <2>2, <2>4, <2>5, <2>6, HandlerKeepsTable
<1> QED  BY <1>1, <1>5, <1>6, DeltaTable

LEMMA StepsKeepTable ==
  ASSUME Typed, Typed', SteadyLeader, GroupInv, JoinInv, TableInv, GrantInv,
         NEW p \in Procs, Steps(p)
  PROVE  TableInv'
BY GroupStepsKeepTable, ChangeKeepsTable, LeadingJoinKeepsTable, NormalJoinKeepsTable,
   WholeKeepsTable, DeltaKeepsTable, StatusKeepsTable, IgnoreKeepsTable
   DEF Steps, Handle, GrantInv

-----------------------------------------------------------------------------
(* The join messages: each is sent once, and says who leads.                *)
LEMMA InitJoin == Init => JoinInv
<1> SUFFICES ASSUME Init PROVE JoinInv
  OBVIOUS
<1>1. DOMAIN log = {} /\ \A p \in Procs : DOMAIN outbox[p] = {} /\ ~cfgLeading[p]
  BY DEF Init
<1>2. \A e : ~Said(e)
  BY <1>1 DEF Said
<1> QED  BY <1>1, <1>2 DEF JoinInv, FlagFromAlone, JoinsTell, Senders, SentOnce

LEMMA QuietKeepsJoin ==
  ASSUME Typed, Typed', JoinInv, Forward, cfgLeading' = cfgLeading,
         \/ log' = log
         \/ \E e \in Entries : e.type = "change" /\ log' = Append(log, e),
         \A q \in Procs : /\ outbox'[q] = << >> \/ (outbox'[q] = outbox[q] /\ local'[q] = local[q])
                          /\ cfgLeading[q] /\ phase[q] = "running" => phase'[q] = "running",
         \A e : Said(e)' => Said(e) \/ e.type = "change"
  PROVE  JoinInv'
<1>1. /\ \A i \in DOMAIN log : i \in DOMAIN log' /\ log'[i] = log[i]
      /\ \A i \in DOMAIN log' : log'[i].type # "change" => i \in DOMAIN log
  <2>1. CASE log' = log
    BY <2>1
  <2>2. CASE \E e \in Entries : e.type = "change" /\ log' = Append(log, e)
    BY <2>2, LogGrows
  <2> QED  BY <2>1, <2>2
<1>2. FlagFromAlone'
  <2> SUFFICES ASSUME NEW q \in Procs, cfgLeading[q]
               PROVE  phase'[q] = "running" /\ \E i \in DOMAIN log' : IsAlone(log'[i], q)
    BY DEF FlagFromAlone
  <2>1. phase[q] = "running" /\ \E i \in DOMAIN log : IsAlone(log[i], q)
    BY DEF JoinInv, FlagFromAlone
  <2> QED  BY <1>1, <2>1
<1>3. JoinsTell'
  <2> SUFFICES ASSUME NEW e \in Entries, Said(e)', e.type = "member"
               PROVE  /\ e.leading <=> cfgLeading'[e.proc]
                      /\ phase'[e.proc] = "gone" \/ HasJoined(e.proc)'
    BY DEF JoinsTell
  <2>1. Said(e) /\ e.proc \in Procs
    BY EntryFields
  <2>2. (e.leading <=> cfgLeading[e.proc]) /\ (phase[e.proc] = "gone" \/ HasJoined(e.proc))
    BY <2>1 DEF JoinInv, JoinsTell
  <2> QED  BY <2>1, <2>2, ForwardJoined
<1>4. Senders'
  BY DEF JoinInv, Senders, Leader
<1>5. SentOnce'
  <2>1. \A i, j \in DOMAIN log' : SameOnce(log'[i], log'[j]) => i = j
    <3> SUFFICES ASSUME NEW i \in DOMAIN log', NEW j \in DOMAIN log', SameOnce(log'[i], log'[j])
                 PROVE  i = j
      OBVIOUS
    <3>1. i \in DOMAIN log /\ j \in DOMAIN log
      BY <1>1 DEF SameOnce
    <3> QED  BY <1>1, <3>1 DEF JoinInv, SentOnce
  <2>2. ASSUME NEW q \in Procs, NEW m \in DOMAIN outbox'[q]
        PROVE  /\ \A i \in DOMAIN log' : ~SameOnce(log'[i], outbox'[q][m])
               /\ \A n \in DOMAIN outbox'[q] : SameOnce(outbox'[q][n], outbox'[q][m]) => m = n
    <3>1. outbox'[q] = outbox[q]
      BY <2>2
    <3>2. \A i \in DOMAIN log' : i \notin DOMAIN log => ~SameOnce(log'[i], outbox'[q][m])
      BY <1>1 DEF SameOnce
    <3> QED  BY <1>1, <2>2, <3>1, <3>2 DEF JoinInv, SentOnce
  <2> QED  BY <2>1, <2>2 DEF SentOnce
<1> QED  BY <1>2, <1>3, <1>4, <1>5 DEF JoinInv

LEMMA LeaveKeepsJoin ==
  ASSUME Typed, Typed', SteadyLeader, JoinInv, NEW procs \in SUBSET Procs, Leave(procs)
  PROVE  JoinInv'
<1> DEFINE c == Change(Group \ procs, procs, {})
<1>1. Forward /\ cfgLeading' = cfgLeading /\ log' = Append(log, c)
  BY LeaveStep
<1>2. \A q \in Procs :
        /\ outbox'[q] = << >> \/ (outbox'[q] = outbox[q] /\ local'[q] = local[q])
        /\ cfgLeading[q] /\ phase[q] = "running" => phase'[q] = "running"
  BY LeaveStep
<1>3. c \in Entries /\ c.type = "change"
  <2>1. Group \ procs \in SUBSET Procs
    BY DEF Group
  <2>2. c \in Entries
    BY <2>1, MessagesAreEntries
  <2> QED  BY <2>2 DEF Change
<1>4. \A e : Said(e)' => Said(e) \/ e.type = "change"
  BY LeaveSays
<1> HIDE DEF c
<1> QED  BY <1>1, <1>2, <1>3, <1>4, QuietKeepsJoin

LEMMA OrderStep ==
  ASSUME Typed, NEW p \in Procs, Order(p)
  PROVE  /\ UNCHANGED <<phase, cursor, table, local, cfgLeading>>
         /\ 1 \in DOMAIN outbox[p] /\ outbox[p][1] \in Entries
         /\ log' = Append(log, outbox[p][1])
         /\ \A m \in DOMAIN outbox'[p] : /\ m \in Nat \ {0} /\ m + 1 \in DOMAIN outbox[p]
                                         /\ outbox'[p][m] = outbox[p][m + 1]
         /\ \A q \in Procs \ {p} : outbox'[q] = outbox[q]
<1>1. outbox[p] \in Seq(Entries) /\ outbox[p] # << >>
  BY TypedMeans DEF Order
<1>2. /\ 1 \in DOMAIN outbox[p] /\ Head(outbox[p]) = outbox[p][1] /\ outbox[p][1] \in Entries
      /\ \A m \in DOMAIN Tail(outbox[p]) : /\ m \in Nat \ {0} /\ m + 1 \in DOMAIN outbox[p]
                                           /\ Tail(outbox[p])[m] = outbox[p][m + 1]
  BY <1>1
<1>3. outbox'[p] = Tail(outbox[p]) /\ \A q \in Procs \ {p} : outbox'[q] = outbox[q]
  BY TypedMeans DEF Order
<1> QED  BY <1>2, <1>3 DEF Order

LEMMA OrderKeepsJoin ==
  ASSUME Typed, Typed', GroupInv, JoinInv, NEW p \in Procs, Order(p)
  PROVE  JoinInv'
<1> DEFINE h == outbox[p][1]
           n == Len(log) + 1
<1>1. /\ UNCHANGED <<phase, cursor, table, local, cfgLeading>>
      /\ 1 \in DOMAIN outbox[p] /\ h \in Entries
      /\ \A m \in DOMAIN outbox'[p] : /\ m \in Nat \ {0} /\ m + 1 \in DOMAIN outbox[p]
                                      /\ outbox'[p][m] = outbox[p][m + 1]
      /\ \A q \in Procs \ {p} : outbox'[q] = outbox[q]
  BY OrderStep
<1>2. /\ DOMAIN log' = DOMAIN log \cup {n} /\ n \in Nat /\ log'[n] = h
      /\ \A i \in DOMAIN log : i \in Nat /\ i < n /\ log'[i] = log[i]
  <2>1. log' = Append(log, h)
    BY OrderStep
  <2> HIDE DEF h
  <2> QED  BY <2>1, LogGrows
<1> HIDE DEF n
<1>3. FlagFromAlone'
  BY <1>1, <1>2 DEF JoinInv, FlagFromAlone
<1>4. JoinsTell'
  <2> SUFFICES ASSUME NEW e \in Entries, Said(e)', e.type = "member"
               PROVE  /\ e.leading <=> cfgLeading'[e.proc]
                      /\ phase'[e.proc] = "gone" \/ HasJoined(e.proc)'
    BY DEF JoinsTell
  <2>1. Said(e)
    BY GroupStepSays
  <2>2. (e.leading <=> cfgLeading[e.proc]) /\ (phase[e.proc] = "gone" \/ HasJoined(e.proc))
    BY <2>1 DEF JoinInv, JoinsTell
  <2>3. HasJoined(e.proc) => HasJoined(e.proc)'
    BY <1>1, <1>2 DEF HasJoined
  <2> QED  BY <1>1, <2>2, <2>3
<1>5. Senders'
  BY <1>1 DEF JoinInv, Senders, Leader
<1>6. \A q \in Procs \ {p} : \A m \in DOMAIN outbox[q] : ~SameOnce(h, outbox[q][m])
  <2> SUFFICES ASSUME NEW q \in Procs \ {p}, NEW m \in DOMAIN outbox[q], SameOnce(h, outbox[q][m])
               PROVE  FALSE
    OBVIOUS
  <2> DEFINE e == outbox[q][m]
  <2>1. h.type = e.type /\ h.proc = e.proc /\ q \in Procs
    BY DEF SameOnce
  <2>2. /\ h.type = "member" => h.proc = p
        /\ h.type # "member" => cfgLeading[p]
    BY <1>1 DEF JoinInv, Senders, Leader
  <2>3. /\ e.type = "member" => e.proc = q
        /\ e.type # "member" => cfgLeading[q]
    BY DEF JoinInv, Senders, Leader
  <2> HIDE DEF e, h
  <2> QED  BY <2>1, <2>2, <2>3, OneFlag
<1>7. SentOnce'
  <2>1. \A i, j \in DOMAIN log' : SameOnce(log'[i], log'[j]) => i = j
    <3>1. \A i \in DOMAIN log : ~SameOnce(log[i], h) /\ ~SameOnce(h, log[i])
      BY <1>1 DEF JoinInv, SentOnce, SameOnce
    <3> QED  BY <1>2, <3>1 DEF JoinInv, SentOnce
  <2>2. ASSUME NEW m \in DOMAIN outbox'[p]
        PROVE  /\ \A i \in DOMAIN log' : ~SameOnce(log'[i], outbox'[p][m])
               /\ \A k \in DOMAIN outbox'[p] : SameOnce(outbox'[p][k], outbox'[p][m]) => m = k
    <3>1. ~SameOnce(h, outbox'[p][m])
      BY <1>1 DEF JoinInv, SentOnce
    <3>2. \A i \in DOMAIN log : ~SameOnce(log[i], outbox'[p][m])
      BY <1>1 DEF JoinInv, SentOnce
    <3>3. \A k \in DOMAIN outbox'[p] : SameOnce(outbox'[p][k], outbox'[p][m]) => m + 1 = k + 1
      BY <1>1 DEF JoinInv, SentOnce
    <3> QED  BY <1>1, <1>2, <3>1, <3>2, <3>3
  <2>3. ASSUME NEW q \in Procs \ {p}, NEW m \in DOMAIN outbox'[q]
        PROVE  /\ \A i \in DOMAIN log' : ~SameOnce(log'[i], outbox'[q][m])
               /\ \A k \in DOMAIN outbox'[q] : SameOnce(outbox'[q][k], outbox'[q][m]) => m = k
    BY <1>1, <1>2, <1>6 DEF JoinInv, SentOnce
  <2> QED  BY <2>1, <2>2, <2>3 DEF SentOnce
<1> QED  BY <1>3, <1>4, <1>5, <1>7 DEF JoinInv

LEMMA GroupStepsKeepJoin ==
  ASSUME Typed, Typed', GroupInv, JoinInv, NEW p \in Procs,
         Start(p) \/ FinishStart(p) \/ Order(p)
  PROVE  JoinInv'
<1>1. CASE Start(p)
  <2> DEFINE c == Change(Group \cup {p}, {}, {p})
  <2>1. /\ log' = Append(log, c) /\ phase[p] = "new" /\ phase' = [phase EXCEPT ![p] = "starting"]
        /\ UNCHANGED <<outbox, table, local, cfgLeading>>
    BY <1>1 DEF Start
  <2>2. c \in Entries /\ c.type = "change"
    <3>1. Group \cup {p} \in SUBSET Procs /\ {p} \in SUBSET Procs /\ {} \in SUBSET Procs
      BY DEF Group
    <3>2. c \in Entries
      BY <3>1, MessagesAreEntries
    <3> QED  BY <3>2 DEF Change
  <2>3. Forward
    BY <1>1, StepsForward DEF Steps, GroupInv
  <2>4. \A q \in Procs : phase[q] = "running" => phase'[q] = "running"
    BY <2>1, TypedMeans
  <2>5. \A e : Said(e)' => Said(e) \/ e.type = "change"
    BY <1>1, GroupStepSays
  <2> HIDE DEF c
  <2> QED  BY <2>1, <2>2, <2>3, <2>4, <2>5, QuietKeepsJoin
<1>2. CASE FinishStart(p)
  <2>1. /\ phase' = [phase EXCEPT ![p] = "running"]
        /\ UNCHANGED <<log, outbox, table, local, cfgLeading>>
    BY <1>2 DEF FinishStart
  <2>2. Forward
    BY <1>2, StepsForward DEF Steps, GroupInv
  <2>3. \A q \in Procs : phase[q] = "running" => phase'[q] = "running"
    BY <2>1, TypedMeans
  <2>4. \A e : Said(e)' => Said(e)
    BY <2>1 DEF Said
  <2> QED  BY <2>1, <2>2, <2>3, <2>4, QuietKeepsJoin
<1>3. CASE Order(p)
  BY <1>3, OrderKeepsJoin
<1> QED  BY <1>1, <1>2, <1>3

(* A handler says only what is new, and only the leading member answers.    *)
LEMMA HandlerKeepsJoin ==
  ASSUME Typed, Typed', GroupInv, JoinInv, NEW p \in Procs, Handle(p), FlagFromAlone',
         \A e \in Entries : Said(e) /\ e.type = "member" =>
           (cfgLeading'[e.proc] <=> cfgLeading[e.proc]),
         \A m \in DOMAIN outbox'[p] :
           /\ outbox'[p][m].type = "member" =>
                /\ outbox'[p][m].proc = p /\ HasJoined(p)'
                /\ outbox'[p][m].leading <=> cfgLeading'[p]
           /\ outbox'[p][m].type # "member" => FromLeading(outbox'[p][m]) /\ Leader(p)'
           /\ \A i \in DOMAIN log : ~SameOnce(log[i], outbox'[p][m])
           /\ \A n \in DOMAIN outbox'[p] : SameOnce(outbox'[p][n], outbox'[p][m]) => m = n
  PROVE  JoinInv'
<1>1. /\ log' = log /\ phase' = phase
      /\ \A q \in Procs \ {p} : /\ outbox'[q] = outbox[q] /\ local'[q] = local[q]
                                /\ cfgLeading'[q] = cfgLeading[q]
  BY HandleStep
<1>2. Forward
  BY StepsForward DEF Steps, GroupInv
<1>3. JoinsTell'
  <2> SUFFICES ASSUME NEW e \in Entries, Said(e)', e.type = "member"
               PROVE  /\ e.leading <=> cfgLeading'[e.proc]
                      /\ phase'[e.proc] = "gone" \/ HasJoined(e.proc)'
    BY DEF JoinsTell
  <2>1. CASE Said(e)
    <3>1. /\ e.proc \in Procs /\ (e.leading <=> cfgLeading[e.proc])
          /\ phase[e.proc] = "gone" \/ HasJoined(e.proc)
      BY <2>1, EntryFields DEF JoinInv, JoinsTell
    <3> QED  BY <1>2, <2>1, <3>1, ForwardJoined
  <2>2. CASE \E m \in DOMAIN outbox'[p] : outbox'[p][m] = e
    BY <2>2
  <2> QED  BY <2>1, <2>2, HandleSays
<1>4. Senders'
  <2>1. \A q \in Procs \ {p} : Leader(q) => Leader(q)'
    BY <1>1 DEF Leader
  <2> QED  BY <1>1, <2>1 DEF JoinInv, Senders
<1>5. SentOnce'
  BY <1>1 DEF JoinInv, SentOnce
<1> QED  BY <1>3, <1>4, <1>5 DEF JoinInv

LEMMA FlagKept ==
  ASSUME Typed, JoinInv, NEW p \in Procs, Handle(p), cfgLeading' = cfgLeading
  PROVE  FlagFromAlone'
BY HandleStep DEF JoinInv, FlagFromAlone

(* The answers of a member: with the flag, and the member's own record.     *)
LEMMA AnswersAreLed ==
  ASSUME Typed', TableInv', NEW p \in Procs, Leads(table'[p], local'[p])
  PROVE  Leader(p)'
<1>1. /\ local'[p] # NoId /\ local'[p] <= Len(table'[p]) /\ table'[p][local'[p]].leading
      /\ local'[p] \in Nat /\ table'[p] \in Seq(Members)
  BY DEF Leads, HasLocal, Typed, TypeOK
<1>2. local'[p] \in DOMAIN table'[p]
  BY <1>1 DEF NoId
<1>3. table'[p][local'[p]].proc = p
  BY <1>1 DEF TableInv, LocalEntry, OwnRecord
<1> QED  BY <1>1, <1>2, <1>3 DEF TableInv, LeadingRecords, FlagsIn, Leader

LEMMA SilentKeepsJoin ==
  ASSUME Typed, Typed', GroupInv, JoinInv, TableInv', NEW p \in Procs, Handle(p),
         cfgLeading' = cfgLeading,
         \/ outbox'[p] = << >>
         \/ \E pos : Leads(table'[p], local'[p]) /\ outbox'[p] = <<StatusMsg(pos, "PREPARED")>>
  PROVE  JoinInv'
<1>1. FlagFromAlone'
  BY FlagKept
<1>2. CASE outbox'[p] = << >>
  <2>1. DOMAIN outbox'[p] = {}
    BY <1>2
  <2> QED  BY <1>1, <2>1, HandlerKeepsJoin
<1>3. CASE \E pos : Leads(table'[p], local'[p]) /\ outbox'[p] = <<StatusMsg(pos, "PREPARED")>>
  <2>1. Leader(p)'
    BY <1>3, AnswersAreLed
  <2>2. \A m \in DOMAIN outbox'[p] : outbox'[p][m].type = "status"
    BY <1>3 DEF StatusMsg
  <2>3. \A m \in DOMAIN outbox'[p] : FromLeading(outbox'[p][m])
    BY <2>2 DEF FromLeading
  <2>4. \A m \in DOMAIN outbox'[p] :
          /\ \A i \in DOMAIN log : ~SameOnce(log[i], outbox'[p][m])
          /\ \A n \in DOMAIN outbox'[p] : ~SameOnce(outbox'[p][n], outbox'[p][m])
    BY <2>2 DEF SameOnce
  <2> QED  BY <1>1, <2>1, <2>2, <2>3, <2>4, HandlerKeepsJoin
<1> QED  BY <1>2, <1>3

LEMMA ChangeKeepsJoin ==
  ASSUME Typed, Typed', GroupInv, JoinInv, NEW p \in Procs, HandleChange(p)
  PROVE  JoinInv'
<1> DEFINE c == cursor[p]
           e == log[c]
<1>1. Handle(p) /\ phase[p] = "running"
  BY DEF Handle, HandleChange
<1>2. /\ c \in DOMAIN log /\ c \in Nat /\ p \in Group /\ log' = log /\ cursor'[p] = c + 1
      /\ phase' = phase /\ e \in Entries /\ e.type = "change"
      /\ \A q \in Procs \ {p} : cfgLeading'[q] = cfgLeading[q]
  <2>1. e.type = "change" /\ e \in Entries
    BY DispatchStep DEF HandleChange
  <2> QED  BY <1>1, <2>1, HandleStep, LogEntry, TypedMeans
<1>3. \/ outbox'[p] = << >>
      \/ p \in e.joined /\ outbox'[p] = <<JoinMsg(p, cfgLeading'[p])>>
  BY TypedMeans DEF HandleChange, Multicast
<1>4. FlagFromAlone'
  <2> SUFFICES ASSUME NEW q \in Procs, cfgLeading'[q]
               PROVE  phase[q] = "running" /\ \E i \in DOMAIN log : IsAlone(log[i], q)
    BY <1>2 DEF FlagFromAlone
  <2>1. CASE cfgLeading[q]
    BY <2>1 DEF JoinInv, FlagFromAlone
  <2>2. CASE ~cfgLeading[q]
    <3>1. q = p
      BY <1>2, <2>2
    <3> QED  BY <1>1, <1>2, <2>2, <3>1, FlagIsTaken
  <2> QED  BY <2>1, <2>2
<1>5. ASSUME Joins(e, p), NEW d \in Entries, Said(d), d.type = "member"
      PROVE  d.proc # p
  <2> SUFFICES ASSUME d.proc = p PROVE FALSE
    OBVIOUS
  <2>1. PICK k \in DOMAIN log : k < c /\ Joins(log[k], p)
    BY <1>2, <1>5 DEF JoinInv, JoinsTell, HasJoined, Group
  <2>2. k = c
    BY <1>2, <1>5, <2>1 DEF GroupInv, JoinsOnce
  <2> QED  BY <1>2, <2>1, <2>2
<1>6. ASSUME NEW d \in Entries, Said(d), d.type = "member"
      PROVE  cfgLeading'[d.proc] <=> cfgLeading[d.proc]
  <2>1. d.proc \in Procs
    BY <1>6, EntryFields
  <2>2. CASE d.proc = p /\ cfgLeading'[p] # cfgLeading[p]
    <3>1. cfgLeading'[p] /\ ~cfgLeading[p]
      <4>1. cfgLeading[p] => cfgLeading'[p]
        BY TypedMeans DEF HandleChange
      <4>2. cfgLeading[p] \in BOOLEAN /\ cfgLeading'[p] \in BOOLEAN
        BY DEF Typed, TypeOK
      <4> QED  BY <2>2, <4>1, <4>2
    <3>2. Joins(e, p)
      BY <3>1, FlagIsTaken DEF IsAlone, Joins
    <3> QED  BY <1>5, <1>6, <2>2, <3>2
  <2> QED  BY <1>2, <2>1, <2>2
<1>7. CASE outbox'[p] = << >>
  <2>1. DOMAIN outbox'[p] = {}
    BY <1>7
  <2> QED  BY <1>1, <1>4, <1>6, <2>1, HandlerKeepsJoin
<1>8. CASE p \in e.joined /\ outbox'[p] = <<JoinMsg(p, cfgLeading'[p])>>
  <2>1. Joins(e, p)
    BY <1>2, <1>8 DEF Joins
  <2>2. HasJoined(p)'
    BY <1>2, <2>1 DEF HasJoined
  <2>3. /\ DOMAIN outbox'[p] = {1} /\ outbox'[p][1].type = "member"
        /\ outbox'[p][1].proc = p /\ outbox'[p][1].leading = cfgLeading'[p]
    BY <1>8 DEF JoinMsg
  <2>4. \A i \in DOMAIN log : ~SameOnce(log[i], outbox'[p][1])
    <3> SUFFICES ASSUME NEW i \in DOMAIN log, SameOnce(log[i], outbox'[p][1]) PROVE FALSE
      OBVIOUS
    <3>1. log[i].type = "member" /\ log[i].proc = p
      BY <2>3 DEF SameOnce
    <3> QED  BY <1>5, <2>1, <3>1, LogEntry
  <2> QED  BY <1>1, <1>4, <1>6, <2>2, <2>3, <2>4, HandlerKeepsJoin
<1> QED  BY <1>3, <1>7, <1>8

(* What the leading member answers to a join it dispatches for the first    *)
(* time: nothing was said to this process yet.                              *)
LEMMA NormalJoinStep ==
  ASSUME Typed, NEW p \in Procs, HandleNormalJoin(p)
  PROVE  LET e == log[cursor[p]]
         IN /\ Handle(p) /\ UNCHANGED <<local, cfgLeading>>
            /\ cursor[p] \in DOMAIN log /\ e \in Entries /\ Said(e)
            /\ e = JoinMsg(e.proc, FALSE) /\ e.type = "member" /\ e.proc \in Procs
            /\ AddPos(table[p]) \in Nat \ {NoId}
            /\ \/ ~Leads(table[p], local[p]) /\ table'[p] = table[p] /\ outbox'[p] = << >>
               \/ /\ Leads(table[p], local[p]) /\ table'[p] = TakePos(table[p])
                  /\ outbox'[p] = <<WholeMsg(e.proc, table[p]),
                                    DeltaMsg(e.proc, AddPos(table[p]))>>
<1> DEFINE e == log[cursor[p]]
<1>1. /\ cursor[p] \in DOMAIN log /\ e \in Entries /\ e.type = "member" /\ Said(e)
      /\ e.proc \in Procs /\ ~e.leading /\ e.leading \in BOOLEAN /\ e = JoinMsg(e.proc, e.leading)
      /\ outbox[p] = << >>
  BY DispatchStep, EntryFields, LogEntry DEF HandleNormalJoin
<1>2. e.leading = FALSE /\ e = JoinMsg(e.proc, FALSE)
  BY <1>1
<1>3. AddPos(table[p]) \in Nat \ {NoId}
  BY TypedMeans, AddPosFree
<1>4. \/ ~Leads(table[p], local[p]) /\ table'[p] = table[p] /\ outbox'[p] = << >>
      \/ /\ Leads(table[p], local[p]) /\ table'[p] = TakePos(table[p])
         /\ outbox'[p] = <<WholeMsg(e.proc, table[p]), DeltaMsg(e.proc, AddPos(table[p]))>>
  BY <1>1, TypedMeans DEF HandleNormalJoin, Multicast
<1> QED  BY <1>1, <1>2, <1>3, <1>4 DEF Handle, HandleNormalJoin

LEMMA NormalJoinIsNew ==
  ASSUME Typed, GroupInv, JoinInv, TableInv, Answers, NEW p \in Procs, HandleNormalJoin(p),
         Leads(table[p], local[p])
  PROVE  /\ Leader(p) /\ table[p] # << >>
         /\ \A d \in Entries : Said(d) /\ d.type \in {"whole", "delta"} =>
              d.proc # log[cursor[p]].proc
<1> DEFINE c == cursor[p]
           e == log[c]
<1>1. Leader(p) /\ table[p] # << >>
  BY LeadsAlone DEF TableInv
<1>2. c \in DOMAIN log /\ c \in Nat /\ e = JoinMsg(e.proc, FALSE) /\ e.type = "member"
  BY NormalJoinStep, LogEntry
<1>3. ASSUME NEW d \in Entries, Said(d), d.type \in {"whole", "delta"}, d.proc = e.proc
      PROVE  FALSE
  <2>1. PICK f \in Procs : /\ Leader(f)
                           /\ \E k \in DOMAIN log : k < cursor[f] /\ log[k] = JoinMsg(e.proc, FALSE)
    BY <1>3 DEF Answers
  <2>2. f = p
    BY <1>1, <2>1, OneFlag DEF Leader
  <2>3. PICK k \in DOMAIN log : k < c /\ log[k] = e
    BY <1>2, <2>1, <2>2
  <2>4. k = c
    BY <1>2, <2>3 DEF JoinInv, SentOnce, SameOnce
  <2> QED  BY <1>2, <2>3, <2>4
<1> QED  BY <1>1, <1>3

LEMMA NormalJoinKeepsJoin ==
  ASSUME Typed, Typed', GroupInv, JoinInv, TableInv, Answers,
         NEW p \in Procs, HandleNormalJoin(p)
  PROVE  JoinInv'
<1> DEFINE e == log[cursor[p]]
           whole == WholeMsg(e.proc, table[p])
           delta == DeltaMsg(e.proc, AddPos(table[p]))
<1>1. Handle(p) /\ cfgLeading' = cfgLeading /\ local' = local /\ FlagFromAlone'
  BY NormalJoinStep, FlagKept
<1>2. CASE outbox'[p] = << >>
  <2>1. DOMAIN outbox'[p] = {}
    BY <1>2
  <2> QED  BY <1>1, <2>1, HandlerKeepsJoin
<1>3. CASE Leads(table[p], local[p]) /\ outbox'[p] = <<whole, delta>>
  <2>1. /\ Leader(p) /\ \A d \in Entries : Said(d) /\ d.type \in {"whole", "delta"} => d.proc # e.proc
    BY <1>3, NormalJoinIsNew
  <2>2. Leader(p)'
    BY <1>1, <2>1 DEF Leader
  <2>3. /\ whole.type = "whole" /\ delta.type = "delta" /\ delta.proc = e.proc
        /\ DOMAIN outbox'[p] = {1, 2} /\ outbox'[p][1] = whole /\ outbox'[p][2] = delta
    BY <1>3 DEF WholeMsg, DeltaMsg
  <2> HIDE DEF whole, delta
  <2>4. FromLeading(whole) /\ FromLeading(delta)
    BY <2>3 DEF FromLeading
  <2>5. \A i \in DOMAIN log : ~SameOnce(log[i], whole) /\ ~SameOnce(log[i], delta)
    BY <2>1, <2>3, LogEntry DEF SameOnce
  <2>6. ~SameOnce(whole, delta) /\ ~SameOnce(delta, whole)
    BY <2>3 DEF SameOnce
  <2> QED  BY <1>1, <2>2, <2>3, <2>4, <2>5, <2>6, HandlerKeepsJoin
<1> QED  BY <1>2, <1>3, NormalJoinStep

LEMMA StepsKeepJoin ==
  ASSUME Typed, Typed', SteadyLeader, GroupInv, JoinInv, TableInv, TableInv', Answers,
         NEW p \in Procs, Steps(p)
  PROVE  JoinInv'
<1>1. CASE IgnoreWhileStarting(p)
  <2>1. Handle(p) /\ UNCHANGED <<outbox, cfgLeading>> /\ outbox[p] = << >>
    BY <1>1, DispatchStep DEF Handle, IgnoreWhileStarting
  <2> QED  BY <2>1, SilentKeepsJoin
<1>2. CASE HandleLeadingJoin(p)
  <2>1. Handle(p) /\ cfgLeading' = cfgLeading
    BY <1>2 DEF Handle, HandleLeadingJoin
  <2>2. \/ outbox'[p] = << >>
        \/ Leads(table'[p], local'[p]) /\ outbox'[p] = <<StatusMsg(1, "PREPARED")>>
    BY <1>2, LeadingJoinTable
  <2> QED  BY <2>1, <2>2, SilentKeepsJoin
<1>3. CASE HandleWhole(p)
  <2>1. Handle(p) /\ cfgLeading' = cfgLeading /\ outbox'[p] = << >>
    BY <1>3, WholeTable DEF Handle
  <2> QED  BY <2>1, SilentKeepsJoin
<1>4. CASE HandleDelta(p)
  <2>1. /\ Handle(p) /\ cfgLeading' = cfgLeading
        /\ \/ outbox'[p] = << >>
           \/ /\ Leads(table'[p], local'[p])
              /\ outbox'[p] = <<StatusMsg(log[cursor[p]].pos, "PREPARED")>>
    BY <1>4, DeltaTable DEF Handle
  <2> QED  BY <2>1, SilentKeepsJoin
<1>5. CASE HandleStatus(p)
  <2>1. Handle(p) /\ cfgLeading' = cfgLeading /\ outbox'[p] = << >>
    BY <1>5, StatusTable DEF Handle
  <2> QED  BY <2>1, SilentKeepsJoin
<1> QED  BY <1>1, <1>2, <1>3, <1>4, <1>5, ChangeKeepsJoin, NormalJoinKeepsJoin,
            GroupStepsKeepJoin DEF Steps, Handle

-----------------------------------------------------------------------------
(* The positions: who is promised one, and what the leading member has done *)
(* about it.                                                                *)
LEMMA InitGrant == Init => GrantInv
<1> SUFFICES ASSUME Init PROVE GrantInv
  OBVIOUS
<1>1. DOMAIN log = {} /\ \A p \in Procs : DOMAIN outbox[p] = {} /\ ~cfgLeading[p]
  BY DEF Init
<1>2. /\ \A e : ~Said(e)
      /\ \A p \in Procs : ~Leader(p)
  BY <1>1 DEF Said, Leader
<1>3. Answers /\ LastGrant /\ OneGrant
  BY <1>1, <1>2 DEF Answers, LastGrant, OneGrant
<1>4. InactiveLeft /\ PromisedFree /\ GrantEntered
  BY <1>2 DEF InactiveLeft, PromisedFree, GrantEntered
<1> QED  BY <1>3, <1>4 DEF GrantInv

LEMMA LedByOne ==
  ASSUME GroupInv, JoinInv, NEW f \in Procs, Leader(f)
  PROVE  \A g \in Procs : Leader(g) => g = f
BY OneFlag DEF Leader

(* A position that was promised is one of the leading member's table.       *)
LEMMA PromisedEntry ==
  ASSUME Typed, GroupInv, JoinInv, Answers, NEW p \in Procs, Leader(p),
         NEW e \in Entries, Said(e), e.type = "delta"
  PROVE  e.proc \in Procs /\ e.pos \in DOMAIN table[p] /\ e.pos <= Len(table[p])
<1>1. e.proc \in Procs /\ e.pos \in Nat \ {NoId} /\ table[p] \in Seq(Members)
  BY EntryFields, TypedMeans
<1>2. PICK f \in Procs : Leader(f) /\ e.pos <= Len(table[f])
  BY DEF Answers
<1>3. f = p
  BY <1>2, LedByOne
<1> QED  BY <1>1, <1>2, <1>3 DEF NoId

(* The leading member is not gone, and what it heard it has heard.          *)
LEMMA LeaderStays ==
  ASSUME Typed, Typed', Forward, JoinInv', NEW f \in Procs, Leader(f)'
  PROVE  /\ cursor[f] \in Nat /\ cursor'[f] \in Nat /\ cursor'[f] >= cursor[f]
         /\ \A q : HasLeft(f, q) => HasLeft(f, q)'
<1>1. phase'[f] # "gone"
  BY DEF JoinInv, FlagFromAlone, Leader
<1>2. \A q : HasLeft(f, q) => HasLeft(f, q)'
  BY <1>1, ForwardJoined
<1> QED  BY <1>1, <1>2, TypedMeans DEF Forward, Typed, TypeOK

LEMMA SupersededKept ==
  ASSUME Typed, Typed', Forward, JoinInv', \A f \in Procs : Leader(f)' => Leader(f),
         NEW i \in DOMAIN log, Superseded(i), log[i].type = "delta"
  PROVE  Superseded(i)'
<1>1. log'[i] = log[i] /\ i \in Nat /\ log[i].proc \in Procs
  BY LogEntry, EntryFields DEF Forward
<1>2. phase'[log[i].proc] = "gone"
  BY <1>1 DEF Superseded, Forward
<1>3. ASSUME NEW f \in Procs, Leader(f)' PROVE i < cursor'[f]
  <2>1. i < cursor[f] /\ cursor[f] \in Nat /\ cursor'[f] \in Nat /\ cursor'[f] >= cursor[f]
    BY <1>3, LeaderStays DEF Superseded
  <2> QED  BY <1>1, <2>1
<1> QED  BY <1>1, <1>2, <1>3 DEF Superseded

(* The leading member does nothing, and nothing is answered.                *)
LEMMA GrantKept ==
  ASSUME Typed, Typed', JoinInv', GrantInv, Forward,
         \A f \in Procs : /\ Leader(f)' <=> Leader(f)
                          /\ Leader(f) => table'[f] = table[f] /\ cursor'[f] = cursor[f],
         \/ log' = log
         \/ \E e \in Entries : e.type = "change" /\ log' = Append(log, e),
         \A q \in Procs : \A m \in DOMAIN outbox'[q] :
           outbox'[q][m].type = "delta" => outbox'[q] = outbox[q],
         \A e \in Entries : Said(e)' /\ e.type \in {"whole", "delta"} => Said(e)
  PROVE  GrantInv'
<1>1. /\ \A i \in DOMAIN log : i \in DOMAIN log' /\ log'[i] = log[i]
      /\ \A i \in DOMAIN log' : log'[i].type # "change" => i \in DOMAIN log
  <2>1. CASE log' = log
    BY <2>1
  <2>2. CASE \E e \in Entries : e.type = "change" /\ log' = Append(log, e)
    BY <2>2, LogGrows
  <2> QED  BY <2>1, <2>2
<1>2. \A i \in DOMAIN log : Superseded(i) /\ log[i].type = "delta" => Superseded(i)'
  BY SupersededKept
<1>3. Answers'
  <2> SUFFICES ASSUME NEW e \in Entries, Said(e)', e.type \in {"whole", "delta"}
               PROVE  \E f \in Procs :
                        /\ Leader(f)'
                        /\ \E k \in DOMAIN log' : k < cursor'[f] /\ log'[k] = JoinMsg(e.proc, FALSE)
                        /\ e.type = "delta" => e.pos <= Len(table'[f])
    BY DEF Answers
  <2>1. PICK f \in Procs :
          /\ Leader(f)
          /\ \E k \in DOMAIN log : k < cursor[f] /\ log[k] = JoinMsg(e.proc, FALSE)
          /\ e.type = "delta" => e.pos <= Len(table[f])
    BY DEF GrantInv, Answers
  <2> QED  BY <1>1, <2>1
<1>4. LastGrant'
  <2>1. ASSUME NEW i \in DOMAIN log', NEW j \in DOMAIN log', SamePos(log'[i], log'[j]), i < j
        PROVE  Superseded(i)'
    <3>1. i \in DOMAIN log /\ j \in DOMAIN log /\ log[i].type = "delta"
      BY <1>1, <2>1 DEF SamePos
    <3> QED  BY <1>1, <1>2, <2>1, <3>1 DEF GrantInv, LastGrant
  <2>2. ASSUME NEW q \in Procs, NEW m \in DOMAIN outbox'[q], NEW i \in DOMAIN log',
               SamePos(log'[i], outbox'[q][m])
        PROVE  Superseded(i)'
    <3>1. i \in DOMAIN log /\ log[i].type = "delta" /\ outbox'[q] = outbox[q]
      BY <1>1, <2>2 DEF SamePos
    <3> QED  BY <1>1, <1>2, <2>2, <3>1 DEF GrantInv, LastGrant
  <2> QED  BY <2>1, <2>2 DEF LastGrant
<1>5. OneGrant'
  BY DEF GrantInv, OneGrant
<1>6. ASSUME NEW f \in Procs, Leader(f)', NEW q
      PROVE  HasLeft(f, q) => HasLeft(f, q)'
  BY <1>6, LeaderStays
<1>7. InactiveLeft'
  BY <1>6 DEF GrantInv, InactiveLeft
<1>8. PromisedFree'
  <2> SUFFICES ASSUME NEW f \in Procs, Leader(f)', NEW pos \in DOMAIN table'[f], Promised(f, pos)'
               PROVE  /\ table'[f][pos].state # "INACTIVE"
                      /\ table'[f][pos].proc = NoProc \/ HasLeft(f, table[f][pos].proc)'
    BY DEF PromisedFree
  <2>1. Leader(f) /\ table'[f] = table[f] /\ cursor'[f] = cursor[f]
    OBVIOUS
  <2>2. Promised(f, pos)
    BY <1>1, <2>1 DEF Promised
  <2> QED  BY <1>6, <2>1, <2>2 DEF GrantInv, PromisedFree
<1>9. GrantEntered'
  <2> SUFFICES ASSUME NEW f \in Procs, Leader(f)', NEW i \in DOMAIN log',
                      i < cursor'[f], log'[i].type = "delta"
               PROVE  phase'[log'[i].proc] = "gone" \/ table'[f][log'[i].pos].proc = log'[i].proc
    BY DEF GrantEntered
  <2>1. i \in DOMAIN log /\ log'[i] = log[i] /\ log[i].proc \in Procs
    BY <1>1, LogEntry, EntryFields
  <2>2. Leader(f) /\ table'[f] = table[f] /\ cursor'[f] = cursor[f]
    OBVIOUS
  <2> QED  BY <2>1, <2>2 DEF GrantInv, GrantEntered, Forward
<1> QED  BY <1>3, <1>4, <1>5, <1>7, <1>8, <1>9 DEF GrantInv

LEMMA OrderKeepsGrant ==
  ASSUME Typed, Typed', GroupInv, JoinInv, JoinInv', GrantInv, NEW p \in Procs, Order(p)
  PROVE  GrantInv'
<1> DEFINE h == outbox[p][1]
           n == Len(log) + 1
<1>1. /\ UNCHANGED <<phase, cursor, table, local, cfgLeading>>
      /\ 1 \in DOMAIN outbox[p] /\ h \in Entries
      /\ \A m \in DOMAIN outbox'[p] : /\ m \in Nat \ {0} /\ m + 1 \in DOMAIN outbox[p]
                                      /\ outbox'[p][m] = outbox[p][m + 1]
      /\ \A q \in Procs \ {p} : outbox'[q] = outbox[q]
  BY OrderStep
<1>2. /\ DOMAIN log' = DOMAIN log \cup {n} /\ n \in Nat /\ log'[n] = h
      /\ \A i \in DOMAIN log : i \in Nat /\ i < n /\ log'[i] = log[i]
  <2>1. log' = Append(log, h)
    BY OrderStep
  <2> HIDE DEF h
  <2> QED  BY <2>1, LogGrows
<1>3. \A f \in Procs : cursor[f] \in Nat /\ cursor[f] <= n
  BY TypedMeans DEF GroupInv, InLog
<1> HIDE DEF n
<1>4. Forward
  BY StepsForward DEF Steps, GroupInv
<1>5. \A f \in Procs : Leader(f)' <=> Leader(f)
  BY <1>1 DEF Leader
<1>6. \A i \in DOMAIN log : Superseded(i) /\ log[i].type = "delta" => Superseded(i)'
  BY <1>4, <1>5, SupersededKept
<1>7. \A q \in Procs : \A m \in DOMAIN outbox[q] :
        outbox[q][m].type = "delta" => Leader(q)
  BY DEF JoinInv, Senders
<1>8. Answers'
  <2> SUFFICES ASSUME NEW e \in Entries, Said(e)', e.type \in {"whole", "delta"}
               PROVE  \E f \in Procs :
                        /\ Leader(f)'
                        /\ \E k \in DOMAIN log' : k < cursor'[f] /\ log'[k] = JoinMsg(e.proc, FALSE)
                        /\ e.type = "delta" => e.pos <= Len(table'[f])
    BY DEF Answers
  <2>1. Said(e)
    BY GroupStepSays
  <2>2. PICK f \in Procs :
          /\ Leader(f)
          /\ \E k \in DOMAIN log : k < cursor[f] /\ log[k] = JoinMsg(e.proc, FALSE)
          /\ e.type = "delta" => e.pos <= Len(table[f])
    BY <2>1 DEF GrantInv, Answers
  <2> QED  BY <1>1, <1>2, <1>5, <2>2
<1>9. LastGrant'
  <2>1. ASSUME NEW i \in DOMAIN log', NEW j \in DOMAIN log', SamePos(log'[i], log'[j]), i < j
        PROVE  Superseded(i)'
    <3>1. i \in DOMAIN log
      BY <1>2, <2>1
    <3>2. log[i].type = "delta"
      BY <1>2, <2>1, <3>1 DEF SamePos
    <3>3. CASE j \in DOMAIN log
      BY <1>2, <1>6, <2>1, <3>1, <3>2, <3>3 DEF GrantInv, LastGrant
    <3>4. CASE j = n
      BY <1>1, <1>2, <1>6, <2>1, <3>1, <3>2, <3>4 DEF GrantInv, LastGrant
    <3> QED  BY <1>2, <3>3, <3>4
  <2>2. ASSUME NEW q \in Procs, NEW m \in DOMAIN outbox'[q], NEW i \in DOMAIN log',
               SamePos(log'[i], outbox'[q][m])
        PROVE  Superseded(i)'
    <3>1. PICK k \in DOMAIN outbox[q] : /\ outbox'[q][m] = outbox[q][k]
                                        /\ q = p => k # 1
      BY <1>1, <2>2
    <3>2. Leader(q) /\ outbox[q][k].type = "delta"
      BY <1>7, <2>2, <3>1 DEF SamePos
    <3>3. CASE i \in DOMAIN log
      <4>1. log[i].type = "delta" /\ SamePos(log[i], outbox[q][k])
        BY <1>2, <2>2, <3>1, <3>3 DEF SamePos
      <4> QED  BY <1>6, <3>3, <4>1 DEF GrantInv, LastGrant
    <3>4. CASE i = n
      <4>1. h.type = "delta"
        BY <1>2, <2>2, <3>4 DEF SamePos
      <4>2. Leader(p)
        BY <1>1, <1>7, <4>1
      <4>3. p = q
        BY <3>2, <4>2, LedByOne
      <4> QED  BY <1>1, <3>1, <3>2, <4>1, <4>3 DEF GrantInv, OneGrant
    <3> QED  BY <1>2, <3>3, <3>4
  <2> QED  BY <2>1, <2>2 DEF LastGrant
<1>10. OneGrant'
  <2>1. ASSUME NEW m \in DOMAIN outbox'[p], NEW k \in DOMAIN outbox'[p],
               outbox'[p][m].type = "delta", outbox'[p][k].type = "delta"
        PROVE  m = k
    <3>1. m + 1 = k + 1
      BY <1>1, <2>1 DEF GrantInv, OneGrant
    <3> QED  BY <1>1, <3>1
  <2> QED  BY <1>1, <2>1 DEF GrantInv, OneGrant
<1>11. \A f \in Procs : \A q : Leader(f) /\ HasLeft(f, q) => HasLeft(f, q)'
  BY <1>4, <1>5, LeaderStays
<1>12. InactiveLeft'
  BY <1>1, <1>5, <1>11 DEF GrantInv, InactiveLeft
<1>13. PromisedFree'
  <2> SUFFICES ASSUME NEW f \in Procs, Leader(f), NEW pos \in DOMAIN table[f], Promised(f, pos)'
               PROVE  /\ table[f][pos].state # "INACTIVE"
                      /\ table[f][pos].proc = NoProc \/ HasLeft(f, table[f][pos].proc)'
    BY <1>1, <1>5 DEF PromisedFree
  <2>1. Promised(f, pos)
    <3>1. CASE \E i \in DOMAIN log' : i >= cursor'[f] /\ log'[i].type = "delta" /\ log'[i].pos = pos
      <4>1. PICK i \in DOMAIN log' : i >= cursor[f] /\ log'[i].type = "delta" /\ log'[i].pos = pos
        BY <1>1, <3>1
      <4>2. CASE i \in DOMAIN log
        BY <1>2, <4>1, <4>2 DEF Promised
      <4>3. CASE i = n
        <5>1. h.type = "delta" /\ h.pos = pos
          BY <1>2, <4>1, <4>3
        <5>2. p = f
          BY <1>1, <1>7, <5>1, LedByOne
        <5> QED  BY <1>1, <5>1, <5>2 DEF Promised
      <4> QED  BY <1>2, <4>2, <4>3
    <3>2. CASE \E m \in DOMAIN outbox'[f] : outbox'[f][m].type = "delta" /\ outbox'[f][m].pos = pos
      BY <1>1, <3>2 DEF Promised
    <3> QED  BY <3>1, <3>2 DEF Promised
  <2> QED  BY <1>1, <1>11, <2>1 DEF GrantInv, PromisedFree
<1>14. GrantEntered'
  <2> SUFFICES ASSUME NEW f \in Procs, Leader(f), NEW i \in DOMAIN log',
                      i < cursor[f], log'[i].type = "delta"
               PROVE  phase[log'[i].proc] = "gone" \/ table[f][log'[i].pos].proc = log'[i].proc
    BY <1>1, <1>5 DEF GrantEntered
  <2>1. i \in DOMAIN log /\ log'[i] = log[i]
    BY <1>2, <1>3
  <2> QED  BY <2>1 DEF GrantInv, GrantEntered
<1> QED  BY <1>8, <1>9, <1>10, <1>12, <1>13, <1>14 DEF GrantInv

LEMMA HandlerLeaders ==
  ASSUME Typed, Typed', SteadyLeader, GroupInv, JoinInv, TableInv, Answers,
         NEW p \in Procs, Handle(p), ~HandleLeadingJoin(p)
  PROVE  \A f \in Procs : Leader(f)' <=> Leader(f)
<1>1. \A f \in Procs \ {p} : Leader(f)' <=> Leader(f)
  BY HandleStep DEF Leader
<1>2. CASE HandleChange(p)
  <2>1. local'[p] = local[p] /\ (cfgLeading[p] => cfgLeading'[p])
    BY <1>2, TypedMeans DEF HandleChange
  <2>2. cfgLeading'[p] /\ ~cfgLeading[p] => local[p] = NoId
    BY <1>2, FlagIsFresh
  <2>3. Leader(p)' <=> Leader(p)
    BY <2>1, <2>2 DEF Leader
  <2> QED  BY <1>1, <2>3
<1>3. CASE HandleDelta(p)
  <2>1. /\ cfgLeading' = cfgLeading
        /\ \E r \in Procs : ~cfgLeading[r] /\ (p # r => local'[p] = local[p])
    BY <1>3, DeltaTable
  <2>2. Leader(p)' <=> Leader(p)
    BY <2>1 DEF Leader
  <2> QED  BY <1>1, <2>2
<1>4. CASE IgnoreWhileStarting(p) \/ HandleNormalJoin(p) \/ HandleWhole(p) \/ HandleStatus(p)
  <2>1. cfgLeading' = cfgLeading /\ local' = local
    BY <1>4 DEF IgnoreWhileStarting, HandleNormalJoin, HandleWhole, HandleStatus
  <2> QED  BY <2>1 DEF Leader
<1> QED  BY <1>2, <1>3, <1>4 DEF Handle

LEMMA HandlerAnswers ==
  ASSUME Typed, SteadyLeader, GroupInv, JoinInv, TableInv, Answers,
         NEW p \in Procs, Handle(p), ~(HandleNormalJoin(p) /\ Leads(table[p], local[p]))
  PROVE  \A m \in DOMAIN outbox'[p] : outbox'[p][m].type \in {"member", "status"}
<1>1. CASE HandleChange(p)
  BY <1>1, TypedMeans DEF HandleChange, Multicast, JoinMsg
<1>2. CASE HandleLeadingJoin(p)
  <2>1. outbox'[p] = << >> \/ outbox'[p] = <<StatusMsg(1, "PREPARED")>>
    BY <1>2, LeadingJoinTable
  <2> QED  BY <2>1 DEF StatusMsg
<1>3. CASE HandleDelta(p)
  <2> DEFINE pos == log[cursor[p]].pos
  <2>1. outbox'[p] = << >> \/ outbox'[p] = <<StatusMsg(pos, "PREPARED")>>
    BY <1>3, DeltaTable
  <2> HIDE DEF pos
  <2>2. StatusMsg(pos, "PREPARED").type = "status"
    BY DEF StatusMsg
  <2> HIDE DEF StatusMsg
  <2> QED  BY <2>1, <2>2
<1>4. CASE IgnoreWhileStarting(p) \/ HandleNormalJoin(p) \/ HandleWhole(p) \/ HandleStatus(p)
  <2>1. outbox[p] = << >>
    BY HandleStep
  <2>2. outbox'[p] = << >>
    <3>1. HandleNormalJoin(p) => outbox'[p] = << >>
      BY NormalJoinStep
    <3>2. IgnoreWhileStarting(p) \/ HandleWhole(p) \/ HandleStatus(p) => outbox' = outbox
      BY DEF IgnoreWhileStarting, HandleWhole, HandleStatus
    <3> QED  BY <1>4, <2>1, <3>1, <3>2
  <2>3. DOMAIN outbox'[p] = {}
    BY <2>2
  <2> QED  BY <2>3
<1> QED  BY <1>1, <1>2, <1>3, <1>4 DEF Handle

(* A handler of a process that is not leading.                              *)
LEMMA IdleKeepsGrant ==
  ASSUME Typed, Typed', SteadyLeader, GroupInv, JoinInv, JoinInv', TableInv, GrantInv,
         NEW p \in Procs, Handle(p), ~Leader(p), ~Leader(p)'
  PROVE  GrantInv'
<1>1. Forward
  BY StepsForward DEF Steps, GroupInv
<1>2. /\ log' = log
      /\ \A q \in Procs \ {p} :
           /\ outbox'[q] = outbox[q] /\ table'[q] = table[q] /\ cursor'[q] = cursor[q]
           /\ Leader(q)' <=> Leader(q)
  BY HandleStep, TypedMeans DEF Leader
<1>3. \A m \in DOMAIN outbox'[p] : outbox'[p][m].type \in {"member", "status"}
  <2>1. ~Leads(table[p], local[p])
    BY LeadsAlone DEF TableInv
  <2> QED  BY <2>1, HandlerAnswers DEF GrantInv
<1>4. \A e \in Entries : Said(e)' /\ e.type \in {"whole", "delta"} => Said(e)
  BY <1>3, HandleSays
<1>5. \A q \in Procs : \A m \in DOMAIN outbox'[q] :
        outbox'[q][m].type = "delta" => outbox'[q] = outbox[q]
  BY <1>2, <1>3
<1>6. \A f \in Procs : /\ Leader(f)' <=> Leader(f)
                       /\ Leader(f) => table'[f] = table[f] /\ cursor'[f] = cursor[f]
  BY <1>2
<1> QED  BY <1>1, <1>2, <1>4, <1>5, <1>6, GrantKept

(* The first member of the group leads before anything is promised.         *)
LEMMA LeadingJoinKeepsGrant ==
  ASSUME Typed, Typed', SteadyLeader, GroupInv, JoinInv, JoinInv', TableInv, GrantInv,
         NEW p \in Procs, HandleLeadingJoin(p), Leader(p)'
  PROVE  GrantInv'
<1>1. Handle(p) /\ cfgLeading' = cfgLeading
  BY DEF Handle, HandleLeadingJoin
<1>2. /\ local[p] = NoId /\ DOMAIN table'[p] = {1}
      /\ table'[p][1].state = "JOINED"
  <2> DEFINE r == log[cursor[p]].proc
  <2>1. table'[p][1] = [proc |-> r, id |-> 1, state |-> "JOINED", leading |-> TRUE]
    BY LeadingJoinTable
  <2> HIDE DEF r
  <2>2. local[p] = NoId /\ DOMAIN table'[p] = {1}
    BY LeadingJoinTable
  <2> QED  BY <2>1, <2>2
<1>3. /\ log' = log /\ \A q \in Procs \ {p} : outbox'[q] = outbox[q] /\ local'[q] = local[q]
  BY <1>1, HandleStep
<1>4. cfgLeading[p] /\ \A f \in Procs : cfgLeading[f] => f = p
  BY <1>1, OneFlag DEF Leader
<1>5. \A e \in Entries : Said(e) => e.type \notin {"whole", "delta"}
  BY <1>2, <1>4 DEF GrantInv, Answers, Leader
<1>6. \A m \in DOMAIN outbox'[p] : outbox'[p][m].type \in {"member", "status"}
  <2>1. ~Leads(table[p], local[p])
    BY <1>2 DEF Leads, HasLocal
  <2> QED  BY <1>1, <2>1, HandlerAnswers DEF GrantInv
<1>7. \A e \in Entries : Said(e)' => e.type \notin {"whole", "delta"}
  BY <1>1, <1>5, <1>6, HandleSays
<1>8. \A i \in DOMAIN log : log[i].type # "delta"
  BY <1>5, LogEntry
<1>9. \A q \in Procs : \A m \in DOMAIN outbox'[q] : outbox'[q][m].type # "delta"
  <2>1. \A q \in Procs \ {p} : \A m \in DOMAIN outbox[q] : outbox[q][m].type # "delta"
    BY <1>5, OutboxEntry
  <2> QED  BY <1>3, <1>6, <2>1
<1>10. Answers'
  BY <1>7 DEF Answers
<1>11. LastGrant' /\ OneGrant'
  BY <1>3, <1>8, <1>9 DEF LastGrant, OneGrant, SamePos
<1>12. \A f \in Procs : Leader(f)' => f = p
  BY <1>1, <1>4 DEF Leader
<1>13. InactiveLeft'
  BY <1>2, <1>12 DEF InactiveLeft
<1>14. PromisedFree'
  <2>1. \A f \in Procs : \A pos : ~Promised(f, pos)'
    BY <1>3, <1>8, <1>9 DEF Promised
  <2> QED  BY <2>1 DEF PromisedFree
<1>15. GrantEntered'
  BY <1>3, <1>8 DEF GrantEntered
<1> QED  BY <1>10, <1>11, <1>13, <1>14, <1>15 DEF GrantInv

(* What any handler of the leading member keeps.                            *)
LEMMA LeaderHandles ==
  ASSUME Typed, Typed', SteadyLeader, GroupInv, JoinInv, JoinInv', TableInv, Answers,
         NEW p \in Procs, Handle(p), Leader(p)
  PROVE  /\ ~HandleLeadingJoin(p) /\ ~IgnoreWhileStarting(p)
         /\ log' = log /\ phase' = phase
         /\ cursor[p] \in DOMAIN log /\ cursor[p] \in Nat /\ cursor'[p] = cursor[p] + 1
         /\ \A f \in Procs : (Leader(f)' <=> Leader(f)) /\ (Leader(f) => f = p)
         /\ \A i \in DOMAIN log : /\ i \in Nat
                                  /\ Superseded(i) /\ log[i].type = "delta" => Superseded(i)'
         /\ \A q : HasLeft(p, q) => HasLeft(p, q)'
         /\ \A q \in Procs \ {p} :
              /\ outbox'[q] = outbox[q]
              /\ \A m \in DOMAIN outbox[q] : outbox[q][m].type = "member"
<1>1. phase[p] = "running" /\ local[p] # NoId
  BY DEF Leader, JoinInv, FlagFromAlone
<1>2. ~HandleLeadingJoin(p)
  BY <1>1, LeadingJoinTable
<1>3. ~IgnoreWhileStarting(p)
  BY <1>1 DEF IgnoreWhileStarting
<1>4. \A f \in Procs : (Leader(f)' <=> Leader(f)) /\ (Leader(f) => f = p)
  BY <1>2, HandlerLeaders, LedByOne
<1>5. Forward
  BY StepsForward DEF Steps, GroupInv
<1>6. \A i \in DOMAIN log : /\ i \in Nat
                            /\ Superseded(i) /\ log[i].type = "delta" => Superseded(i)'
  BY <1>4, <1>5, SupersededKept, LogEntry
<1>7. \A q : HasLeft(p, q) => HasLeft(p, q)'
  BY <1>4, <1>5, LeaderStays
<1>8. \A q \in Procs \ {p} : \A m \in DOMAIN outbox[q] : outbox[q][m].type = "member"
  BY <1>4 DEF JoinInv, Senders
<1>9. /\ log' = log /\ phase' = phase
      /\ cursor[p] \in DOMAIN log /\ cursor[p] \in Nat /\ cursor'[p] = cursor[p] + 1
      /\ \A q \in Procs \ {p} : outbox'[q] = outbox[q]
  BY HandleStep, TypedMeans, LogEntry
<1> QED  BY <1>2, <1>3, <1>4, <1>6, <1>7, <1>8, <1>9

LEMMA LeaderAnswers ==
  ASSUME Typed, Typed', SteadyLeader, GroupInv, JoinInv, JoinInv', TableInv, GrantInv,
         NEW p \in Procs, Handle(p), Leader(p), Len(table'[p]) >= Len(table[p])
  PROVE  \A e \in Entries : Said(e) /\ e.type \in {"whole", "delta"} =>
           \E f \in Procs :
             /\ Leader(f)'
             /\ \E k \in DOMAIN log' : k < cursor'[f] /\ log'[k] = JoinMsg(e.proc, FALSE)
             /\ e.type = "delta" => e.pos <= Len(table'[f])
<1>0. Leader(p)' /\ log' = log
  BY LeaderHandles DEF GrantInv
<1> SUFFICES ASSUME NEW e \in Entries, Said(e), e.type \in {"whole", "delta"}
             PROVE  /\ \E k \in DOMAIN log : k < cursor'[p] /\ log[k] = JoinMsg(e.proc, FALSE)
                    /\ e.type = "delta" => e.pos <= Len(table'[p])
  BY <1>0
<1>1. PICK f \in Procs :
        /\ Leader(f)
        /\ \E k \in DOMAIN log : k < cursor[f] /\ log[k] = JoinMsg(e.proc, FALSE)
        /\ e.type = "delta" => e.pos <= Len(table[f])
  BY DEF GrantInv, Answers
<1>2. f = p
  BY <1>1, LedByOne
<1>3. \E k \in DOMAIN log : k < cursor'[p] /\ log[k] = JoinMsg(e.proc, FALSE)
  <2>1. PICK k \in DOMAIN log : k < cursor[p] /\ log[k] = JoinMsg(e.proc, FALSE)
    BY <1>1, <1>2
  <2>2. k \in Nat /\ cursor[p] \in Nat /\ cursor'[p] = cursor[p] + 1
    BY LeaderHandles DEF GrantInv
  <2>3. k < cursor'[p]
    BY <2>1, <2>2
  <2> QED  BY <2>1, <2>3
<1>4. e.type = "delta" => e.pos <= Len(table'[p])
  <2>1. Len(table[p]) \in Nat /\ Len(table'[p]) \in Nat
    BY TypedMeans DEF Typed, TypeOK
  <2>2. e.type = "delta" => e.pos \in Nat
    BY EntryFields
  <2> QED  BY <1>1, <1>2, <2>1, <2>2
<1> QED  BY <1>3, <1>4

LEMMA LeaderGrantsNone ==
  ASSUME Typed, Typed', SteadyLeader, GroupInv, JoinInv, JoinInv', TableInv, GrantInv,
         NEW p \in Procs, Handle(p), Leader(p), Len(table'[p]) >= Len(table[p]),
         \A m \in DOMAIN outbox'[p] : outbox'[p][m].type \in {"member", "status"}
  PROVE  (Answers /\ LastGrant /\ OneGrant)'
<1>1. /\ log' = log
      /\ \A i \in DOMAIN log : Superseded(i) /\ log[i].type = "delta" => Superseded(i)'
      /\ \A q \in Procs \ {p} : outbox'[q] = outbox[q]
  BY LeaderHandles DEF GrantInv
<1>2. Answers'
  <2>1. \A e \in Entries : Said(e)' /\ e.type \in {"whole", "delta"} => Said(e)
    BY HandleSays
  <2>2. \A e \in Entries : Said(e) /\ e.type \in {"whole", "delta"} =>
          \E f \in Procs :
            /\ Leader(f)'
            /\ \E k \in DOMAIN log' : k < cursor'[f] /\ log'[k] = JoinMsg(e.proc, FALSE)
            /\ e.type = "delta" => e.pos <= Len(table'[f])
    BY LeaderAnswers
  <2> QED  BY <2>1, <2>2 DEF Answers
<1>3. LastGrant'
  <2>1. ASSUME NEW i \in DOMAIN log, NEW j \in DOMAIN log, SamePos(log[i], log[j]), i < j
        PROVE  Superseded(i)'
    BY <1>1, <2>1 DEF GrantInv, LastGrant, SamePos
  <2>2. ASSUME NEW q \in Procs, NEW m \in DOMAIN outbox'[q], NEW i \in DOMAIN log,
               SamePos(log[i], outbox'[q][m])
        PROVE  Superseded(i)'
    <3>1. q # p /\ outbox'[q] = outbox[q]
      BY <1>1, <2>2 DEF SamePos
    <3> QED  BY <1>1, <2>2, <3>1 DEF GrantInv, LastGrant, SamePos
  <2> QED  BY <1>1, <2>1, <2>2 DEF LastGrant
<1>4. OneGrant'
  BY <1>1 DEF GrantInv, OneGrant
<1> QED  BY <1>2, <1>3, <1>4

(* The leading member changes the states in its table, and no more.         *)
LEMMA LeaderPassive ==
  ASSUME Typed, Typed', SteadyLeader, GroupInv, JoinInv, JoinInv', TableInv, GrantInv,
         NEW p \in Procs, Handle(p), Leader(p), log[cursor[p]].type # "delta",
         ~(HandleNormalJoin(p) /\ Leads(table[p], local[p])),
         Len(table'[p]) = Len(table[p]),
         \A i \in DOMAIN table[p] :
           /\ table'[p][i].proc = table[p][i].proc
           /\ \/ table'[p][i].state = table[p][i].state
              \/ table'[p][i].state = "PREPARED"
              \/ /\ table'[p][i].state = "INACTIVE"
                 /\ table[p][i].proc \in Procs /\ Removes(log[cursor[p]], table[p][i].proc)
  PROVE  GrantInv'
<1> DEFINE c == cursor[p]
<1>1. /\ log' = log /\ phase' = phase /\ c \in DOMAIN log /\ c \in Nat /\ cursor'[p] = c + 1
      /\ \A f \in Procs : Leader(f)' => f = p
      /\ \A i \in DOMAIN log : i \in Nat
      /\ \A q : HasLeft(p, q) => HasLeft(p, q)'
  BY LeaderHandles DEF GrantInv
<1>2. /\ table[p] \in Seq(Members) /\ table'[p] \in Seq(Members)
      /\ DOMAIN table'[p] = DOMAIN table[p] /\ Len(table[p]) \in Nat
  BY TypedMeans DEF Typed, TypeOK
<1>3. \A m \in DOMAIN outbox'[p] : outbox'[p][m].type \in {"member", "status"}
  BY HandlerAnswers DEF GrantInv
<1>4. (Answers /\ LastGrant /\ OneGrant)'
  BY <1>2, <1>3, LeaderGrantsNone
<1>5. \A q : Removes(log[c], q) => HasLeft(p, q)'
  BY <1>1 DEF HasLeft
<1>6. InactiveLeft'
  <2> SUFFICES ASSUME NEW pos \in DOMAIN table[p], table'[p][pos].state = "INACTIVE"
               PROVE  HasLeft(p, table[p][pos].proc)'
    BY <1>1, <1>2 DEF InactiveLeft
  <2>1. CASE table[p][pos].state = "INACTIVE"
    BY <1>1, <2>1 DEF GrantInv, InactiveLeft
  <2>2. CASE table[p][pos].state # "INACTIVE"
    BY <1>5, <2>2
  <2> QED  BY <2>1, <2>2
<1>7. PromisedFree'
  <2> SUFFICES ASSUME NEW pos \in DOMAIN table[p], Promised(p, pos)'
               PROVE  /\ table'[p][pos].state # "INACTIVE"
                      /\ table[p][pos].proc = NoProc \/ HasLeft(p, table[p][pos].proc)'
    BY <1>1, <1>2 DEF PromisedFree
  <2>1. PICK i \in DOMAIN log : i >= c + 1 /\ log[i].type = "delta" /\ log[i].pos = pos
    BY <1>1, <1>3 DEF Promised
  <2>2. Promised(p, pos)
    <3>1. i >= c
      BY <1>1, <2>1
    <3> QED  BY <2>1, <3>1 DEF Promised
  <2>3. /\ table[p][pos].state # "INACTIVE"
        /\ table[p][pos].proc = NoProc \/ HasLeft(p, table[p][pos].proc)
    BY <2>2 DEF GrantInv, PromisedFree
  <2>4. table'[p][pos].state # "INACTIVE"
    <3> SUFFICES ASSUME table'[p][pos].state = "INACTIVE" PROVE FALSE
      OBVIOUS
    <3>1. table[p][pos].proc \in Procs /\ Removes(log[c], table[p][pos].proc)
      BY <2>3
    <3>2. HasLeft(p, table[p][pos].proc)
      BY <2>3, <3>1, TableAssumption
    <3>3. PICK k \in DOMAIN log : k < c /\ Removes(log[k], table[p][pos].proc)
      BY <3>2 DEF HasLeft
    <3>4. k = c
      BY <1>1, <3>1, <3>3 DEF GroupInv, LeavesOnce
    <3> QED  BY <1>1, <3>3, <3>4
  <2> QED  BY <1>1, <2>3, <2>4
<1>8. GrantEntered'
  <2> SUFFICES ASSUME NEW i \in DOMAIN log, i < c + 1, log[i].type = "delta"
               PROVE  phase[log[i].proc] = "gone" \/ table'[p][log[i].pos].proc = log[i].proc
    BY <1>1 DEF GrantEntered
  <2>1. i < c
    BY <1>1
  <2>2. log[i].pos \in DOMAIN table[p]
    BY LogEntry, PromisedEntry DEF GrantInv
  <2> QED  BY <2>1, <2>2 DEF GrantInv, GrantEntered
<1> QED  BY <1>4, <1>6, <1>7, <1>8 DEF GrantInv

(* The leading member enters the process it promised a position to.         *)
LEMMA LeaderDelta ==
  ASSUME Typed, Typed', SteadyLeader, GroupInv, JoinInv, JoinInv', TableInv, GrantInv,
         NEW p \in Procs, HandleDelta(p), Leader(p)
  PROVE  GrantInv'
<1> DEFINE c == cursor[p]
           r == log[c].proc
           x == log[c].pos
<1>1. Handle(p) /\ Answers
  BY DEF Handle, GrantInv
<1>2. /\ log' = log /\ phase' = phase /\ c \in DOMAIN log /\ c \in Nat /\ cursor'[p] = c + 1
      /\ Leader(p)' /\ \A f \in Procs : Leader(f)' => f = p
      /\ \A i \in DOMAIN log : i \in Nat
      /\ \A q : HasLeft(p, q) => HasLeft(p, q)'
  BY <1>1, LeaderHandles
<1>3. /\ log[c].type = "delta" /\ log[c] \in Entries /\ Said(log[c]) /\ r \in Procs
      /\ x \in DOMAIN table[p] /\ x <= Len(table[p])
  <2>1. log[c].type = "delta"
    BY <1>1, DeltaTable
  <2>2. log[c] \in Entries /\ Said(log[c])
    BY <1>2, LogEntry
  <2> QED  BY <1>1, <2>1, <2>2, PromisedEntry
<1>4. table[p] # << >>
  BY LeaderTable DEF Leader, TableInv
<1>5. /\ DOMAIN table'[p] = DOMAIN table[p] /\ Len(table'[p]) = Len(table[p])
      /\ table'[p][x] = [proc |-> r, id |-> x, state |-> "JOINED", leading |-> FALSE]
      /\ \A i \in DOMAIN table[p] : i # x => table'[p][i] = table[p][i]
  <2>1. /\ table'[p] \in Seq(Members) /\ Len(table'[p]) = Len(table[p])
        /\ table'[p][x] = [proc |-> r, id |-> x, state |-> "JOINED", leading |-> FALSE]
        /\ \A i \in DOMAIN table'[p] : i # x =>
             IF i \in DOMAIN table[p] THEN table'[p][i] = table[p][i]
                                      ELSE table'[p][i] = BlankMember
    BY <1>1, <1>3, <1>4, DeltaTable
  <2>2. DOMAIN table'[p] = DOMAIN table[p]
    BY <2>1, TypedMeans
  <2> QED  BY <2>1, <2>2
<1>6. \A m \in DOMAIN outbox'[p] : outbox'[p][m].type \in {"member", "status"}
  <2>1. ~HandleNormalJoin(p)
    BY <1>3, NormalJoinStep
  <2> QED  BY <1>1, <2>1, HandlerAnswers
<1>7. (Answers /\ LastGrant /\ OneGrant)'
  <2>1. Len(table'[p]) >= Len(table[p])
    BY <1>5, TypedMeans
  <2> QED  BY <1>1, <1>6, <2>1, LeaderGrantsNone
<1> HIDE DEF c, r, x
<1>8. InactiveLeft'
  <2> SUFFICES ASSUME NEW pos \in DOMAIN table[p], table'[p][pos].state = "INACTIVE"
               PROVE  HasLeft(p, table[p][pos].proc)'
    BY <1>2, <1>5 DEF InactiveLeft
  <2>1. pos # x /\ table'[p][pos] = table[p][pos]
    BY <1>5
  <2>2. HasLeft(p, table[p][pos].proc)
    BY <2>1 DEF GrantInv, InactiveLeft
  <2> QED  BY <1>2, <2>1, <2>2
<1>9. ASSUME NEW i \in DOMAIN log, log[i].type = "delta", log[i].pos = x, i # c
      PROVE  i < c /\ phase[log[i].proc] = "gone"
  <2>1. CASE i < c
    <3>1. Superseded(i)
      BY <1>2, <1>3, <1>9, <2>1 DEF GrantInv, LastGrant, SamePos, c, x
    <3> QED  BY <2>1, <3>1 DEF Superseded
  <2>2. CASE c < i
    <3>1. Superseded(c)
      BY <1>2, <1>3, <1>9, <2>2 DEF GrantInv, LastGrant, SamePos, c, x
    <3>2. c < c
      BY <3>1 DEF Superseded, c
    <3> QED  BY <1>2, <3>2
  <2> QED  BY <1>2, <1>9, <2>1, <2>2
<1>10. PromisedFree'
  <2> SUFFICES ASSUME NEW pos \in DOMAIN table[p], Promised(p, pos)'
               PROVE  /\ table'[p][pos].state # "INACTIVE"
                      /\ table'[p][pos].proc = NoProc \/ HasLeft(p, table[p][pos].proc)'
    BY <1>2, <1>5 DEF PromisedFree
  <2>1. PICK i \in DOMAIN log : i >= c + 1 /\ log[i].type = "delta" /\ log[i].pos = pos
    BY <1>2, <1>6 DEF Promised
  <2>2. i >= c /\ i # c
    BY <1>2, <2>1
  <2>3. pos # x
    BY <1>2, <1>9, <2>1, <2>2
  <2>4. table'[p][pos] = table[p][pos] /\ Promised(p, pos)
    BY <1>5, <2>1, <2>2, <2>3 DEF Promised, c
  <2>5. /\ table[p][pos].state # "INACTIVE"
        /\ table[p][pos].proc = NoProc \/ HasLeft(p, table[p][pos].proc)
    BY <2>4 DEF GrantInv, PromisedFree
  <2> QED  BY <1>2, <2>4, <2>5
<1>11. GrantEntered'
  <2> SUFFICES ASSUME NEW i \in DOMAIN log, i < c + 1, log[i].type = "delta"
               PROVE  phase[log[i].proc] = "gone" \/ table'[p][log[i].pos].proc = log[i].proc
    BY <1>2 DEF GrantEntered
  <2>1. CASE i = c
    BY <1>3, <1>5, <2>1 DEF c, r, x
  <2>2. CASE i # c /\ log[i].pos = x
    BY <1>9, <2>2
  <2>3. CASE i # c /\ log[i].pos # x
    <3>1. i < c
      BY <1>2, <2>3
    <3>2. log[i].pos \in DOMAIN table[p]
      BY <1>1, LogEntry, PromisedEntry
    <3>3. table'[p][log[i].pos] = table[p][log[i].pos]
      BY <1>5, <2>3, <3>2
    <3> QED  BY <3>1, <3>3 DEF GrantInv, GrantEntered, c
  <2> QED  BY <2>1, <2>2, <2>3
<1> QED  BY <1>7, <1>8, <1>10, <1>11 DEF GrantInv

(* A position that is given again was promised only to processes that left. *)
LEMMA FreeIsSuperseded ==
  ASSUME Typed, GroupInv, JoinInv, TableInv, GrantInv, NEW p \in Procs, Leader(p),
         NEW i \in DOMAIN log, log[i].type = "delta", log[i].pos = AddPos(table[p])
  PROVE  Superseded(i)
<1> DEFINE a == log[i].pos
<1>1. log[i] \in Entries /\ Said(log[i]) /\ log[i].proc \in Procs /\ i \in Nat /\ cursor[p] \in Nat
  BY LogEntry, EntryFields, TypedMeans
<1>2. a \in DOMAIN table[p] /\ a <= Len(table[p]) /\ table[p] \in Seq(Members)
  BY <1>1, PromisedEntry, TypedMeans DEF GrantInv
<1>3. table[p][a].state = "INACTIVE"
  <2>1. a # Len(table[p]) + 1
    BY <1>2
  <2> QED  BY <1>2, <2>1, AddPosFree
<1> HIDE DEF a
<1>4. i < cursor[p]
  <2> SUFFICES ASSUME i >= cursor[p] PROVE FALSE
    BY <1>1
  <2>1. Promised(p, a)
    BY DEF Promised, a
  <2> QED  BY <1>2, <1>3, <2>1 DEF GrantInv, PromisedFree
<1>5. HasLeft(p, table[p][a].proc)
  BY <1>2, <1>3 DEF GrantInv, InactiveLeft
<1>6. phase[log[i].proc] = "gone"
  <2>1. CASE table[p][a].proc = log[i].proc
    BY <1>1, <1>5, <2>1 DEF HasLeft, GroupInv, LeavesOnce
  <2>2. CASE table[p][a].proc # log[i].proc
    BY <1>4, <2>2 DEF GrantInv, GrantEntered, a
  <2> QED  BY <2>1, <2>2
<1>7. \A f \in Procs : Leader(f) => f = p
  BY LedByOne
<1> QED  BY <1>4, <1>6, <1>7 DEF Superseded

(* The leading member promises a position to the process that joins.        *)
LEMMA LeaderNormalJoin ==
  ASSUME Typed, Typed', SteadyLeader, GroupInv, JoinInv, JoinInv', TableInv, GrantInv,
         NEW p \in Procs, HandleNormalJoin(p), Leads(table[p], local[p])
  PROVE  GrantInv'
<1> DEFINE c == cursor[p]
           r == log[c].proc
           a == AddPos(table[p])
           whole == WholeMsg(r, table[p])
           delta == DeltaMsg(r, a)
<1>1. Handle(p) /\ Answers /\ Leader(p)
  BY LeadsAlone DEF Handle, GrantInv, TableInv
<1>2. /\ log' = log /\ phase' = phase /\ c \in DOMAIN log /\ c \in Nat /\ cursor'[p] = c + 1
      /\ Leader(p)' /\ \A f \in Procs : (Leader(f)' <=> Leader(f)) /\ (Leader(f) => f = p)
      /\ \A i \in DOMAIN log : /\ i \in Nat
                               /\ Superseded(i) /\ log[i].type = "delta" => Superseded(i)'
      /\ \A q : HasLeft(p, q) => HasLeft(p, q)'
      /\ \A q \in Procs \ {p} : \A m \in DOMAIN outbox'[q] : outbox'[q][m].type = "member"
  BY <1>1, LeaderHandles
<1>3. /\ log[c] = JoinMsg(r, FALSE) /\ log[c].type = "member" /\ r \in Procs
      /\ a \in Nat \ {NoId} /\ table'[p] = TakePos(table[p]) /\ outbox'[p] = <<whole, delta>>
      /\ outbox[p] = << >>
  BY <1>1, NormalJoinStep, HandleStep
<1>4. /\ whole.type = "whole" /\ whole.proc = r
      /\ delta.type = "delta" /\ delta.proc = r /\ delta.pos = a
  BY DEF WholeMsg, DeltaMsg
<1>5. /\ table[p] \in Seq(Members) /\ table'[p] \in Seq(Members)
      /\ Len(table[p]) \in Nat /\ Len(table'[p]) \in Nat
      /\ Len(table'[p]) >= Len(table[p]) /\ a \in DOMAIN table'[p] /\ a <= Len(table'[p])
      /\ DOMAIN table[p] \subseteq DOMAIN table'[p]
  <2>1. table[p] \in Seq(Members)
    BY TypedMeans
  <2>2. /\ table'[p] \in Seq(Members) /\ Len(table'[p]) >= Len(table[p])
        /\ a \in DOMAIN table'[p]
    BY <1>3, <2>1, TakePosTable
  <2> QED  BY <2>1, <2>2
<1>6. /\ table'[p][a].state = "TAKEN"
      /\ a \notin DOMAIN table[p] => table'[p][a].proc = NoProc
      /\ a \in DOMAIN table[p] => /\ table'[p][a].proc = table[p][a].proc
                                  /\ table[p][a].state = "INACTIVE"
      /\ \A i \in DOMAIN table'[p] : i # a => i \in DOMAIN table[p] /\ table'[p][i] = table[p][i]
  <2>1. /\ table'[p][a].state = "TAKEN"
        /\ a \notin DOMAIN table[p] => table'[p][a] = [BlankMember EXCEPT !.state = "TAKEN"]
        /\ a \in DOMAIN table[p] => table'[p][a].proc = table[p][a].proc
        /\ \A i \in DOMAIN table'[p] : i # a => i \in DOMAIN table[p] /\ table'[p][i] = table[p][i]
    BY <1>3, <1>5, TakePosTable
  <2>2. a \in DOMAIN table[p] => table[p][a].state = "INACTIVE"
    <3>1. a \in DOMAIN table[p] => a # Len(table[p]) + 1
      BY <1>5
    <3> QED  BY <1>5, <3>1, AddPosFree
  <2> QED  BY <2>1, <2>2 DEF BlankMember
<1>7. \A i \in DOMAIN log : log[i].type = "delta" /\ log[i].pos = a => Superseded(i)'
  BY <1>1, <1>2, FreeIsSuperseded
<1>8. \A d \in Entries : Said(d) /\ d.type \in {"whole", "delta"} => d.proc # r
  BY <1>1, NormalJoinIsNew
<1>upto. c < cursor'[p] /\ \A i \in DOMAIN log : (i < c + 1 => i < c \/ i = c)
                                            /\ (i >= c + 1 => i >= c /\ i # c)
  BY <1>2
<1> HIDE DEF c, r, a, whole, delta
<1>9. \A m \in DOMAIN outbox'[p] : outbox'[p][m] = IF m = 1 THEN whole ELSE delta
  BY <1>3
<1>10. Answers'
  <2> SUFFICES ASSUME NEW e \in Entries, Said(e)', e.type \in {"whole", "delta"}
               PROVE  \E f \in Procs :
                        /\ Leader(f)'
                        /\ \E k \in DOMAIN log' : k < cursor'[f] /\ log'[k] = JoinMsg(e.proc, FALSE)
                        /\ e.type = "delta" => e.pos <= Len(table'[f])
    BY DEF Answers
  <2>1. CASE Said(e)
    BY <1>1, <1>5, <2>1, LeaderAnswers
  <2>2. CASE e = whole \/ e = delta
    <3>1. e.proc = r /\ (e.type = "delta" => e.pos = a)
      BY <1>4, <2>2
    <3>2. c \in DOMAIN log' /\ c < cursor'[p] /\ log'[c] = JoinMsg(e.proc, FALSE)
      BY <1>2, <1>3, <1>upto, <3>1
    <3> QED  BY <1>2, <1>5, <3>1, <3>2
  <2>3. Said(e) \/ \E m \in DOMAIN outbox'[p] : outbox'[p][m] = e
    BY <1>1, HandleSays
  <2> QED  BY <1>9, <2>1, <2>2, <2>3
<1>11. LastGrant'
  <2>1. ASSUME NEW i \in DOMAIN log, NEW j \in DOMAIN log, SamePos(log[i], log[j]), i < j
        PROVE  Superseded(i)'
    BY <1>2, <2>1 DEF GrantInv, LastGrant, SamePos
  <2>2. ASSUME NEW q \in Procs, NEW m \in DOMAIN outbox'[q], NEW i \in DOMAIN log,
               SamePos(log[i], outbox'[q][m])
        PROVE  Superseded(i)'
    <3>1. q = p /\ outbox'[p][m] = delta
      BY <1>2, <1>4, <1>9, <2>2 DEF SamePos
    <3>2. log[i].type = "delta" /\ log[i].pos = a
      BY <1>4, <2>2, <3>1 DEF SamePos
    <3> QED  BY <1>7, <3>2
  <2> QED  BY <1>2, <2>1, <2>2 DEF LastGrant
<1>12. OneGrant'
  <2>1. ASSUME NEW m \in DOMAIN outbox'[p], outbox'[p][m].type = "delta" PROVE m = 2
    BY <1>3, <1>4, <1>9, <2>1
  <2> QED  BY <1>2, <2>1 DEF OneGrant
<1>13. InactiveLeft'
  <2> SUFFICES ASSUME NEW pos \in DOMAIN table'[p], table'[p][pos].state = "INACTIVE"
               PROVE  HasLeft(p, table[p][pos].proc)'
    BY <1>2 DEF InactiveLeft
  <2>1. pos \in DOMAIN table[p] /\ table'[p][pos] = table[p][pos]
    BY <1>6
  <2>2. HasLeft(p, table[p][pos].proc)
    BY <1>1, <2>1 DEF GrantInv, InactiveLeft
  <2> QED  BY <1>2, <2>1, <2>2
<1>14. PromisedFree'
  <2> SUFFICES ASSUME NEW pos \in DOMAIN table'[p], Promised(p, pos)'
               PROVE  /\ table'[p][pos].state # "INACTIVE"
                      /\ table'[p][pos].proc = NoProc \/ HasLeft(p, table[p][pos].proc)'
    BY <1>2 DEF PromisedFree
  <2>1. CASE pos = a
    <3>1. CASE a \notin DOMAIN table[p]
      BY <1>6, <2>1, <3>1
    <3>2. CASE a \in DOMAIN table[p]
      <4>1. HasLeft(p, table[p][a].proc)
        BY <1>1, <1>6, <3>2 DEF GrantInv, InactiveLeft
      <4>2. table'[p][pos].proc = table[p][a].proc /\ table'[p][pos].state = "TAKEN"
        BY <1>6, <2>1, <3>2
      <4> QED  BY <1>2, <4>1, <4>2
    <3> QED  BY <3>1, <3>2
  <2>2. CASE pos # a
    <3>1. pos \in DOMAIN table[p] /\ table'[p][pos] = table[p][pos]
      BY <1>6, <2>2
    <3>2. Promised(p, pos)
      <4>1. \A m \in DOMAIN outbox'[p] : ~(outbox'[p][m].type = "delta" /\ outbox'[p][m].pos = pos)
        BY <1>4, <1>9, <2>2
      <4>2. PICK i \in DOMAIN log : i >= c + 1 /\ log[i].type = "delta" /\ log[i].pos = pos
        BY <1>2, <4>1 DEF Promised
      <4>3. i >= c
        BY <1>upto, <4>2
      <4> QED  BY <4>2, <4>3 DEF Promised, c
    <3>3. /\ table[p][pos].state # "INACTIVE"
          /\ table[p][pos].proc = NoProc \/ HasLeft(p, table[p][pos].proc)
      BY <1>1, <3>1, <3>2 DEF GrantInv, PromisedFree
    <3> QED  BY <1>2, <3>1, <3>3
  <2> QED  BY <2>1, <2>2
<1>15. GrantEntered'
  <2> SUFFICES ASSUME NEW i \in DOMAIN log, i < c + 1, log[i].type = "delta"
               PROVE  phase[log[i].proc] = "gone" \/ table'[p][log[i].pos].proc = log[i].proc
    BY <1>2 DEF GrantEntered
  <2>1. i < c
    BY <1>3, <1>upto
  <2>2. phase[log[i].proc] = "gone" \/ table[p][log[i].pos].proc = log[i].proc
    BY <1>1, <2>1 DEF GrantInv, GrantEntered, c
  <2>3. log[i].pos \in DOMAIN table[p]
    BY <1>1, LogEntry, PromisedEntry
  <2>4. table'[p][log[i].pos].proc = table[p][log[i].pos].proc
    BY <1>5, <1>6, <2>3
  <2> QED  BY <2>2, <2>4
<1> QED  BY <1>10, <1>11, <1>12, <1>13, <1>14, <1>15 DEF GrantInv

LEMMA LeaderKeepsGrant ==
  ASSUME Typed, Typed', SteadyLeader, GroupInv, JoinInv, JoinInv', TableInv, GrantInv,
         NEW p \in Procs, Handle(p), Leader(p)
  PROVE  GrantInv'
<1> DEFINE e == log[cursor[p]]
<1>1. Answers /\ ~HandleLeadingJoin(p) /\ ~IgnoreWhileStarting(p)
  BY LeaderHandles DEF GrantInv
<1>2. table[p] \in Seq(Members)
  BY TypedMeans
<1>3. CASE HandleChange(p)
  <2>1. e \in Entries /\ e.type = "change" /\ e.left \in SUBSET Procs
    BY <1>3, DispatchStep, EntryFields DEF HandleChange
  <2>2. ~HandleNormalJoin(p)
    BY <2>1 DEF HandleNormalJoin, Dispatch
  <2>3. /\ Len(table'[p]) = Len(table[p])
        /\ \A i \in DOMAIN table[p] :
             /\ table'[p][i].proc = table[p][i].proc
             /\ \/ table'[p][i].state = table[p][i].state
                \/ /\ table'[p][i].state = "INACTIVE" /\ table[p][i].proc \in e.left
                   /\ Removes(e, table[p][i].proc)
    BY <1>3, ChangeTable
  <2> HIDE DEF e
  <2>4. \A i \in DOMAIN table[p] :
          /\ table'[p][i].proc = table[p][i].proc
          /\ \/ table'[p][i].state = table[p][i].state
             \/ table'[p][i].state = "PREPARED"
             \/ /\ table'[p][i].state = "INACTIVE"
                /\ table[p][i].proc \in Procs /\ Removes(e, table[p][i].proc)
    BY <2>1, <2>3
  <2>5. log[cursor[p]].type # "delta"
    BY <2>1 DEF e
  <2> QED  BY <2>2, <2>3, <2>4, <2>5, LeaderPassive DEF e
<1>4. CASE HandleNormalJoin(p)
  <2>1. CASE Leads(table[p], local[p])
    BY <1>4, <2>1, LeaderNormalJoin
  <2>2. CASE ~Leads(table[p], local[p])
    <3>1. table'[p] = table[p] /\ e.type = "member"
      BY <1>4, <2>2, NormalJoinStep
    <3>2. Len(table'[p]) = Len(table[p]) /\ log[cursor[p]].type # "delta"
      BY <3>1
    <3> QED  BY <2>2, <3>1, <3>2, LeaderPassive
  <2> QED  BY <2>1, <2>2
<1>5. CASE HandleWhole(p)
  <2>1. e.type = "whole" /\ table'[p] = table[p]
    <3>1. e.type = "whole"
      BY <1>5, DispatchStep DEF HandleWhole
    <3>2. table'[p] = table[p]
      BY <1>1, <1>5, WholeTable DEF Leader
    <3> QED  BY <3>1, <3>2
  <2>2. ~HandleNormalJoin(p)
    BY <2>1 DEF HandleNormalJoin, Dispatch
  <2>3. Len(table'[p]) = Len(table[p]) /\ log[cursor[p]].type # "delta"
    BY <2>1
  <2> QED  BY <2>1, <2>2, <2>3, LeaderPassive
<1>6. CASE HandleDelta(p)
  BY <1>6, LeaderDelta
<1>7. CASE HandleStatus(p)
  <2>1. e.type = "status"
    BY <1>7, DispatchStep DEF HandleStatus
  <2>2. ~HandleNormalJoin(p)
    BY <2>1 DEF HandleNormalJoin, Dispatch
  <2>3. /\ Len(table'[p]) = Len(table[p])
        /\ \A i \in DOMAIN table[p] :
             /\ table'[p][i].proc = table[p][i].proc
             /\ table'[p][i].state = table[p][i].state \/ table'[p][i].state = "PREPARED"
    BY <1>7, StatusTable
  <2> QED  BY <2>1, <2>2, <2>3, LeaderPassive
<1> QED  BY <1>1, <1>3, <1>4, <1>5, <1>6, <1>7 DEF Handle

LEMMA StepsKeepGrant ==
  ASSUME Typed, Typed', SteadyLeader, GroupInv, JoinInv, JoinInv', TableInv, GrantInv,
         NEW p \in Procs, Steps(p)
  PROVE  GrantInv'
<1>1. CASE Start(p)
  <2>1. UNCHANGED <<outbox, table, local, cfgLeading>> /\ phase[p] = "new"
    BY <1>1 DEF Start
  <2>2. \A f \in Procs : /\ Leader(f)' <=> Leader(f)
                         /\ Leader(f) => table'[f] = table[f] /\ cursor'[f] = cursor[f]
    <3>1. ~Leader(p)
      BY <2>1 DEF Leader, JoinInv, FlagFromAlone
    <3>2. \A f \in Procs \ {p} : cursor'[f] = cursor[f]
      BY <1>1, TypedMeans DEF Start
    <3> QED  BY <2>1, <3>1, <3>2 DEF Leader
  <2>3. \E e \in Entries : e.type = "change" /\ log' = Append(log, e)
    <3>1. Group \cup {p} \in SUBSET Procs
      BY DEF Group
    <3>2. Change(Group \cup {p}, {}, {p}) \in Entries
      BY <3>1, MessagesAreEntries
    <3>3. Change(Group \cup {p}, {}, {p}).type = "change"
      BY DEF Change
    <3>4. log' = Append(log, Change(Group \cup {p}, {}, {p}))
      BY <1>1 DEF Start
    <3> QED  BY <3>2, <3>3, <3>4
  <2>4. \A e \in Entries : Said(e)' /\ e.type \in {"whole", "delta"} => Said(e)
    BY <1>1, GroupStepSays
  <2>5. Forward
    BY StepsForward DEF GroupInv
  <2> QED  BY <2>1, <2>2, <2>3, <2>4, <2>5, GrantKept
<1>2. CASE FinishStart(p)
  <2>1. UNCHANGED <<log, cursor, outbox, table, local, cfgLeading>>
    BY <1>2 DEF FinishStart
  <2>2. \A e : Said(e)' <=> Said(e)
    BY <2>1 DEF Said
  <2>3. \A f \in Procs : Leader(f)' <=> Leader(f)
    BY <2>1 DEF Leader
  <2>4. Forward
    BY StepsForward DEF GroupInv
  <2> QED  BY <2>1, <2>2, <2>3, <2>4, GrantKept
<1>3. CASE Order(p)
  BY <1>3, OrderKeepsGrant
<1>4. CASE Handle(p)
  <2>1. CASE Leader(p)
    BY <1>4, <2>1, LeaderKeepsGrant
  <2>2. CASE ~Leader(p) /\ Leader(p)'
    <3>1. HandleLeadingJoin(p)
      BY <1>4, <2>2, HandlerLeaders DEF GrantInv
    <3> QED  BY <2>2, <3>1, LeadingJoinKeepsGrant
  <2>3. CASE ~Leader(p) /\ ~Leader(p)'
    BY <1>4, <2>3, IdleKeepsGrant
  <2> QED  BY <2>1, <2>2, <2>3
<1> QED  BY <1>1, <1>2, <1>3, <1>4 DEF Steps

LEMMA LeaveKeepsGrant ==
  ASSUME Typed, Typed', SteadyLeader, GroupInv, JoinInv, JoinInv', GrantInv,
         NEW procs \in SUBSET Procs, Leave(procs)
  PROVE  GrantInv'
<1>1. /\ Forward /\ log' = Append(log, Change(Group \ procs, procs, {}))
      /\ cfgLeading' = cfgLeading
      /\ \A p \in procs : outbox'[p] = << >> /\ ~cfgLeading[p]
      /\ \A p \in Procs \ procs : /\ outbox'[p] = outbox[p] /\ table'[p] = table[p]
                                  /\ local'[p] = local[p] /\ cursor'[p] = cursor[p]
  BY LeaveStep
<1>2. \A f \in Procs : /\ Leader(f)' <=> Leader(f)
                       /\ Leader(f) => table'[f] = table[f] /\ cursor'[f] = cursor[f]
  BY <1>1 DEF Leader
<1>3. \E e \in Entries : e.type = "change" /\ log' = Append(log, e)
  <2>1. Group \ procs \in SUBSET Procs
    BY DEF Group
  <2>2. Change(Group \ procs, procs, {}) \in Entries
    BY <2>1, MessagesAreEntries
  <2>3. Change(Group \ procs, procs, {}).type = "change"
    BY DEF Change
  <2> QED  BY <1>1, <2>2, <2>3
<1>4. \A e \in Entries : Said(e)' /\ e.type \in {"whole", "delta"} => Said(e)
  BY LeaveSays
<1>5. \A q \in Procs : \A m \in DOMAIN outbox'[q] :
        outbox'[q][m].type = "delta" => outbox'[q] = outbox[q]
  BY <1>1
<1> QED  BY <1>1, <1>2, <1>3, <1>4, <1>5, GrantKept

-----------------------------------------------------------------------------
(* The invariant, and what it says of the members.                          *)
LEMMA InitMembership == Init => MembershipInv
<1> SUFFICES ASSUME Init PROVE MembershipInv
  OBVIOUS
<1>1. DOMAIN log = {} /\ \A p \in Procs : DOMAIN outbox[p] = {}
  BY DEF Init
<1> QED  BY InitTyped, InitGroup, InitJoin, InitTable, InitGrant DEF MembershipInv

(* A step that changes nothing.                                             *)
LEMMA StutterKeeps ==
  ASSUME MembershipInv, UNCHANGED vars
  PROVE  MembershipInv'
<1>1. /\ log' = log /\ phase' = phase /\ cursor' = cursor /\ outbox' = outbox
      /\ table' = table /\ local' = local /\ cfgLeading' = cfgLeading
  BY DEF vars
<1>2. Typed'
  BY NextTyped DEF MembershipInv
<1>3. /\ \A e : Said(e)' <=> Said(e)
      /\ \A p : (Leader(p)' <=> Leader(p)) /\ (HasJoined(p)' <=> HasJoined(p))
      /\ \A p, q : HasLeft(p, q)' <=> HasLeft(p, q)
      /\ \A i : Superseded(i)' <=> Superseded(i)
      /\ \A p, pos : Promised(p, pos)' <=> Promised(p, pos)
      /\ Group' = Group
  BY <1>1 DEF Said, Leader, HasJoined, HasLeft, Superseded, Promised, Group
<1>4. GroupInv'
  BY <1>1, <1>3 DEF MembershipInv, GroupInv, ChangeShape, JoinsOnce, LeavesOnce, InView,
                    AloneOnce, InLog, BeginsWithJoin
<1>5. JoinInv'
  BY <1>1, <1>3 DEF MembershipInv, JoinInv, FlagFromAlone, JoinsTell, Senders, SentOnce
<1>6. TableInv'
  BY <1>1, <1>3 DEF MembershipInv, TableInv, LeadingRecords, StatusPrepared, LeadingFirst,
                    TableLate, LocalEntry, OwnRecord, LeadingLocal
<1>7. GrantInv'
  BY <1>1, <1>3 DEF MembershipInv, GrantInv, Answers, LastGrant, OneGrant, InactiveLeft,
                    PromisedFree, GrantEntered
<1> QED  BY <1>2, <1>4, <1>5, <1>6, <1>7 DEF MembershipInv

LEMMA NextKeepsMembership ==
  ASSUME SteadyLeader, MembershipInv, [Next]_vars
  PROVE  MembershipInv'
<1> USE DEF MembershipInv
<1>1. Typed'
  BY NextTyped
<1>2. ASSUME NEW p \in Procs, Steps(p) PROVE MembershipInv'
  <2>1. GroupInv'
    BY <1>2, StepsKeepGroup DEF JoinInv
  <2>2. TableInv'
    BY <1>1, <1>2, StepsKeepTable
  <2>3. JoinInv'
    BY <1>1, <1>2, <2>2, StepsKeepJoin DEF GrantInv
  <2>4. GrantInv'
    BY <1>1, <1>2, <2>3, StepsKeepGrant
  <2> QED  BY <1>1, <2>1, <2>2, <2>3, <2>4
<1>3. ASSUME NEW procs \in SUBSET Procs, Leave(procs) PROVE MembershipInv'
  <2>1. GroupInv' /\ TableInv' /\ JoinInv'
    BY <1>1, <1>3, LeaveKeepsGroup, LeaveKeepsTable, LeaveKeepsJoin
  <2>2. GrantInv'
    BY <1>1, <1>3, <2>1, LeaveKeepsGrant
  <2> QED  BY <1>1, <2>1, <2>2
<1>4. CASE UNCHANGED vars
  BY <1>4, StutterKeeps
<1> QED  BY <1>2, <1>3, <1>4 DEF Next, Steps

(* MembershipInv holds in every reachable state, for any number of          *)
(* processes with endpoints of their own, started in any order and however  *)
(* late each dispatches, as long as the environment spares the leading one. *)
THEOREM MembershipInvariance ==
  ASSUME SteadyLeader
  PROVE  Spec => []MembershipInv
<1>1. Init => MembershipInv
  BY InitMembership
<1>2. MembershipInv /\ [Next]_vars => MembershipInv'
  BY NextKeepsMembership
<1> QED  BY <1>1, <1>2, PTL DEF Spec

(* Of all live processes one at most answers joins and balances the         *)
(* partitions as the leading member (handleJoinEvent).                      *)
THEOREM OneLeadingAlways ==
  ASSUME SteadyLeader
  PROVE  Spec => []OneLeading
<1>1. MembershipInv => OneLeading
  <2> SUFFICES ASSUME MembershipInv, NEW p \in Procs, NEW q \in Procs,
                      IsLeading(p), IsLeading(q)
               PROVE  p = q
    BY DEF OneLeading
  <2>1. cfgLeading[p] /\ cfgLeading[q]
    BY LeadsAlone DEF MembershipInv, TableInv, IsLeading, Leader
  <2> QED  BY <2>1, OneFlag DEF MembershipInv
<1> QED  BY <1>1, MembershipInvariance, PTL

(* The record a member finds at its own id is its own (addMember).          *)
THEOREM OwnEntryAlways ==
  ASSUME SteadyLeader
  PROVE  Spec => []OwnEntry
<1>1. MembershipInv => OwnEntry
  BY DEF MembershipInv, TableInv, LocalEntry, OwnRecord, OwnEntry, IsMember, HasLocal
<1> QED  BY <1>1, MembershipInvariance, PTL

(* A member whose id the leading member gave, and the leading member.       *)
LEMMA LeadersIdIsItsOwn ==
  ASSUME MembershipInv, NEW p \in Procs, NEW q \in Procs, cfgLeading[p], ~cfgLeading[q],
         local[p] # NoId, local[q] = local[p], phase[q] # "gone"
  PROVE  p = q
<1> DEFINE x == local[p]
<1>1. Typed /\ GroupInv /\ JoinInv /\ TableInv /\ GrantInv /\ Leader(p)
  BY DEF MembershipInv, Leader
<1>2. x \in DOMAIN table[p] /\ table[p][x].proc = p
  BY <1>1, LeaderTable DEF TableInv
<1>3. PICK i \in DOMAIN log : log[i] = DeltaMsg(q, x)
  BY <1>1 DEF TableInv, LocalEntry, OwnRecord
<1>4. log[i].type = "delta" /\ log[i].proc = q /\ log[i].pos = x /\ i \in Nat /\ cursor[p] \in Nat
  BY <1>1, <1>3, LogEntry, TypedMeans DEF DeltaMsg
<1> HIDE DEF x
<1>5. CASE i < cursor[p]
  BY <1>1, <1>2, <1>4, <1>5 DEF GrantInv, GrantEntered
<1>6. CASE i >= cursor[p]
  <2>1. Promised(p, x)
    BY <1>4, <1>6 DEF Promised
  <2>2. table[p][x].proc = NoProc \/ HasLeft(p, table[p][x].proc)
    BY <1>1, <1>2, <2>1 DEF GrantInv, PromisedFree
  <2>3. HasLeft(p, p)
    BY <1>2, <2>2, TableAssumption
  <2>4. phase[p] = "gone"
    BY <1>1, <2>3 DEF HasLeft, GroupInv, LeavesOnce
  <2> QED  BY <1>1, <2>4 DEF JoinInv, FlagFromAlone
<1> QED  BY <1>4, <1>5, <1>6

(* findAddPos gives no two live members the same position, though the delta *)
(* of one may still be on its way while the position of another is freed.   *)
THEOREM UniqueIdsAlways ==
  ASSUME SteadyLeader
  PROVE  Spec => []UniqueIds
<1>1. MembershipInv => UniqueIds
  <2> SUFFICES ASSUME MembershipInv, NEW p \in Procs, NEW q \in Procs,
                      IsMember(p), IsMember(q), local[p] = local[q]
               PROVE  p = q
    BY DEF UniqueIds
  <2>1. /\ local[p] # NoId /\ local[q] # NoId /\ phase[p] # "gone" /\ phase[q] # "gone"
        /\ Typed /\ GroupInv /\ JoinInv
    BY DEF IsMember, HasLocal, MembershipInv
  <2>2. CASE cfgLeading[p] /\ cfgLeading[q]
    BY <2>1, <2>2, OneFlag
  <2>3. CASE cfgLeading[p] /\ ~cfgLeading[q]
    BY <2>1, <2>3, LeadersIdIsItsOwn
  <2>4. CASE ~cfgLeading[p] /\ cfgLeading[q]
    BY <2>1, <2>4, LeadersIdIsItsOwn
  <2>5. CASE ~cfgLeading[p] /\ ~cfgLeading[q]
    <3>1. PICK i \in DOMAIN log : log[i] = DeltaMsg(p, local[p])
      BY <2>1, <2>5 DEF MembershipInv, TableInv, LocalEntry, OwnRecord
    <3>2. PICK j \in DOMAIN log : log[j] = DeltaMsg(q, local[p])
      BY <2>1, <2>5 DEF MembershipInv, TableInv, LocalEntry, OwnRecord
    <3>3. /\ log[i].proc = p /\ log[j].proc = q
          /\ SamePos(log[i], log[j]) /\ SamePos(log[j], log[i])
      BY <3>1, <3>2 DEF DeltaMsg, SamePos
    <3>4. ~(i < j) /\ ~(j < i)
      BY <2>1, <3>3 DEF MembershipInv, GrantInv, LastGrant, Superseded
    <3>5. i = j
      BY <2>1, <3>4, LogEntry
    <3> QED  BY <3>3, <3>5
  <2> QED  BY <2>2, <2>3, <2>4, <2>5
<1> QED  BY <1>1, MembershipInvariance, PTL

(* localMemberIndex, once set, keeps its value as long as the process       *)
(* lives: no later delta and no leading join is for it again.               *)
THEOREM IdIsStableAlways ==
  ASSUME SteadyLeader
  PROVE  Spec => IdIsStable
<1> DEFINE Stable == \A p \in Procs :
                       local[p] # NoId /\ phase'[p] # "gone" => local'[p] = local[p]
<1>1. MembershipInv /\ [Next]_vars => [Stable]_vars
  <2> SUFFICES ASSUME MembershipInv, Next, NEW p \in Procs, local[p] # NoId, phase'[p] # "gone"
               PROVE  local'[p] = local[p]
    OBVIOUS
  <2>1. Typed /\ GroupInv /\ JoinInv /\ TableInv /\ GrantInv
    BY DEF MembershipInv
  <2>2. ASSUME NEW q \in Procs, Start(q) \/ FinishStart(q) \/ Order(q) PROVE local' = local
    BY <2>2 DEF Start, FinishStart, Order
  <2>3. ASSUME NEW q \in Procs, Handle(q) PROVE local'[p] = local[p]
    <3>1. CASE q # p
      BY <2>1, <2>3, <3>1, HandleStep
    <3>2. CASE q = p /\ HandleLeadingJoin(p)
      BY <2>1, <3>2, LeadingJoinTable
    <3>3. CASE q = p /\ HandleDelta(p)
      <4>1. p \in Group /\ cursor[p] \in DOMAIN log
        BY <2>1, <2>3, <3>3, HandleStep
      <4>2. /\ log[cursor[p]].type = "delta"
            /\ local'[p] = local[p] \/ p = log[cursor[p]].proc
        BY <2>1, <3>3, DeltaTable DEF GrantInv
      <4> QED  BY <2>1, <4>1, <4>2, DeltaMissesOwn
    <3>4. CASE /\ q = p
               /\ \/ IgnoreWhileStarting(p) \/ HandleChange(p) \/ HandleNormalJoin(p)
                  \/ HandleWhole(p) \/ HandleStatus(p)
      BY <3>4 DEF IgnoreWhileStarting, HandleChange, HandleNormalJoin, HandleWhole, HandleStatus
    <3> QED  BY <2>3, <3>1, <3>2, <3>3, <3>4 DEF Handle
  <2>4. ASSUME NEW procs \in SUBSET Procs, Leave(procs) PROVE local'[p] = local[p]
    BY <2>1, <2>4, LeaveStep
  <2> QED  BY <2>2, <2>3, <2>4 DEF Next
<1> HIDE DEF Stable
<1>2. Spec => [][Stable]_vars
  BY <1>1, MembershipInvariance, PTL DEF Spec
<1> QED  BY <1>2 DEF IdIsStable, Stable

-----------------------------------------------------------------------------
(* Changes one at a time: a process starts, or processes leave, the leading *)
(* one too, only when everybody has dispatched what the last change brought.*)
Calm == WaitSettled /\ \A p, q \in Procs : Address[p] = Address[q] => p = q

(* A table in which one record leads, that of a member that is in.          *)
Fit(tbl) ==
  /\ \A i \in DOMAIN tbl : /\ tbl[i].id = i /\ tbl[i].proc \in Procs
                           /\ tbl[i].state \in {"PREPARED", "INACTIVE"}
                           /\ tbl[i].leading => tbl[i].state = "PREPARED"
  /\ \A i, j \in DOMAIN tbl : tbl[i].proc = tbl[j].proc => i = j
  /\ \A i, j \in DOMAIN tbl : tbl[i].leading /\ tbl[j].leading => i = j
  /\ tbl # << >> => \E i \in DOMAIN tbl : tbl[i].leading

(* The members in tbl, those that are not, and what the records tell of the *)
(* processes.                                                               *)
Entered(tbl, p) ==
  local[p] \in DOMAIN tbl /\ tbl[local[p]].proc = p /\ tbl[local[p]].state = "PREPARED"
Absent(tbl, p) == local[p] = NoId /\ \A i \in DOMAIN tbl : tbl[i].proc # p
Present(tbl) ==
  \A i \in DOMAIN tbl :
    /\ phase[tbl[i].proc] # "new"
    /\ tbl[i].state = "PREPARED" => tbl[i].proc \in Group /\ local[tbl[i].proc] = i
Has(p, own, tbl) == IF local[p] = NoId THEN Absent(tbl, p) /\ own = << >>
                                       ELSE Entered(tbl, p) /\ own = tbl
Shared(tbl) == Present(tbl) /\ \A p \in Group : Has(p, table[p], tbl)

(* Nothing but a change is on its way, after which all have tbl.            *)
LogEnd == Len(log)
Behind(p) == cursor[p] = LogEnd
AfterChange(tbl, id, event) ==
  IF event.left # {} /\ HasLocal(tbl, id) THEN LeaveMembers(tbl, id, event.left) ELSE tbl
OneChange(e) ==
  /\ e.type = "change"
  /\ \/ e.joined = {}
     \/ \E p \in Group : e = Change(Group, {}, {p}) /\ local[p] = NoId
Awaits(p, tbl) ==
  /\ cursor[p] \in {LogEnd, LogEnd + 1} /\ outbox[p] = << >>
  /\ Behind(p) \/ phase[p] = "starting" => LogEnd \in DOMAIN log /\ OneChange(log[LogEnd])
  /\ phase[p] = "starting" => p \in log[LogEnd].joined
  /\ Behind(p) /\ p \in log[LogEnd].joined => ~cfgLeading[p]
  /\ Has(p, IF Behind(p) THEN AfterChange(table[p], local[p], log[LogEnd]) ELSE table[p], tbl)
Quiet(tbl) == Fit(tbl) /\ Present(tbl) /\ \A p \in Group : Awaits(p, tbl)

(* A process joins with the change at c: how much of it somebody has        *)
(* dispatched, and how much more than the change is ordered.                *)
Told(p, c) == cursor[p] - c
Ordered(c) == LogEnd - c
Round(p, c, script) ==
  /\ p \in Group /\ c \in DOMAIN log /\ log[c] = Change(Group, {}, {p})
  /\ Ordered(c) <= Len(script) /\ \A i \in 1..Ordered(c) : log[c + i] = script[i]
  /\ \A q \in Group : phase[q] = "running" /\ Told(q, c) \in 0..(Ordered(c) + 1)
  /\ Told(p, c) >= 1

(* The leading member, which had tbl before, answers it.                    *)
WithJoined(p, tbl) == PutMember(tbl, p, FALSE, "JOINED", AddPos(tbl))
WithPrepared(p, tbl) == SetState(WithJoined(p, tbl), AddPos(tbl), "PREPARED")
IsTold(p, tbl) == StatusMsg(AddPos(tbl), "PREPARED")
Script(p, tbl) ==
  <<JoinMsg(p, FALSE), WholeMsg(p, tbl), DeltaMsg(p, AddPos(tbl)), IsTold(p, tbl)>>
Joiner(p, tbl, c) ==
  /\ outbox[p] = IF Ordered(c) = 0 THEN <<JoinMsg(p, FALSE)>> ELSE << >>
  /\ local[p] = IF Told(p, c) >= 4 THEN AddPos(tbl) ELSE NoId
  /\ table[p] = IF Told(p, c) <= 2 THEN << >> ELSE IF Told(p, c) = 3 THEN tbl
                ELSE IF Told(p, c) = 4 THEN WithJoined(p, tbl) ELSE WithPrepared(p, tbl)
Follower(q, p, tbl, c) ==
  /\ Entered(tbl, q) /\ ~tbl[local[q]].leading /\ outbox[q] = << >>
  /\ table[q] = IF Told(q, c) <= 3 THEN tbl
                ELSE IF Told(q, c) = 4 THEN WithJoined(p, tbl) ELSE WithPrepared(p, tbl)
Answerer(q, p, tbl, c) ==
  /\ Entered(tbl, q) /\ tbl[local[q]].leading
  /\ table[q] = IF Told(q, c) <= 1 THEN tbl ELSE IF Told(q, c) <= 3 THEN TakePos(tbl)
                ELSE IF Told(q, c) = 4 THEN WithJoined(p, tbl) ELSE WithPrepared(p, tbl)
  /\ outbox[q] = IF Told(q, c) \in {2, 3} /\ Ordered(c) = 1
                 THEN <<WholeMsg(p, tbl), DeltaMsg(p, AddPos(tbl))>>
                 ELSE IF Told(q, c) \in {2, 3} /\ Ordered(c) = 2 THEN <<DeltaMsg(p, AddPos(tbl))>>
                 ELSE IF Told(q, c) = 4 /\ Ordered(c) = 3 THEN <<IsTold(p, tbl)>> ELSE << >>
  /\ Ordered(c) >= 2 => Told(q, c) >= 2
  /\ Ordered(c) >= 4 => Told(q, c) >= 4
Bystander(q, tbl) == Absent(tbl, q) /\ table[q] = << >> /\ outbox[q] = << >>
NormalJoin(p, tbl, c) ==
  /\ Fit(tbl) /\ tbl # << >> /\ Present(tbl) /\ \A i \in DOMAIN tbl : tbl[i].proc # p
  /\ Round(p, c, Script(p, tbl)) /\ Joiner(p, tbl, c)
  /\ \A q \in Group \ {p} :
       Follower(q, p, tbl, c) \/ Answerer(q, p, tbl, c) \/ Bystander(q, tbl)

(* It is alone, and leads.                                                  *)
Alone(p, state) == <<[proc |-> p, id |-> 1, state |-> state, leading |-> TRUE]>>
FirstJoin(p, c) ==
  /\ Group = {p} /\ Round(p, c, <<JoinMsg(p, TRUE), StatusMsg(1, "PREPARED")>>)
  /\ Told(p, c) = 1 => /\ local[p] = NoId /\ table[p] = << >> /\ Ordered(c) <= 1
                       /\ outbox[p] = IF Ordered(c) = 0 THEN <<JoinMsg(p, TRUE)>> ELSE << >>
  /\ Told(p, c) = 2 => /\ local[p] = 1 /\ table[p] = Alone(p, "JOINED")
                       /\ outbox[p] = IF Ordered(c) = 1 THEN <<StatusMsg(1, "PREPARED")>> ELSE << >>
  /\ Told(p, c) = 3 => local[p] = 1 /\ table[p] = Alone(p, "PREPARED") /\ outbox[p] = << >>

(* Nobody leads: the process that was alone missed its own change.          *)
LostJoin(p, c) ==
  /\ Round(p, c, <<JoinMsg(p, FALSE)>>)
  /\ \A q \in Group :
       /\ table[q] = << >> /\ local[q] = NoId
       /\ outbox[q] = IF q = p /\ Ordered(c) = 0 THEN <<JoinMsg(p, FALSE)>> ELSE << >>

Reset ==
  \A p \in Procs \ Group : /\ cursor[p] = 1 /\ outbox[p] = << >> /\ table[p] = << >>
                           /\ local[p] = NoId /\ ~cfgLeading[p]
Rounds ==
  \/ \E tbl \in Seq(Members) : Quiet(tbl)
  \/ \E tbl \in Seq(Members), p \in Procs, c \in Nat : NormalJoin(p, tbl, c)
  \/ \E p \in Procs, c \in Nat : FirstJoin(p, c) \/ LostJoin(p, c)
CalmInv == Typed /\ Reset /\ Rounds

(* What the joiner's record makes of a table.                               *)
LEMMA JoinedTable ==
  ASSUME NEW tbl \in Seq(Members), NEW p \in Procs
  PROVE  LET pos == AddPos(tbl)
             joined == WithJoined(p, tbl)
             prepared == WithPrepared(p, tbl)
         IN /\ pos \in Nat \ {NoId}
            /\ pos \in DOMAIN tbl => tbl[pos].state = "INACTIVE"
            /\ joined \in Seq(Members) /\ prepared \in Seq(Members)
            /\ DOMAIN joined = DOMAIN tbl \cup {pos} /\ DOMAIN prepared = DOMAIN joined
            /\ joined[pos] = [proc |-> p, id |-> pos, state |-> "JOINED", leading |-> FALSE]
            /\ prepared[pos] = [proc |-> p, id |-> pos, state |-> "PREPARED", leading |-> FALSE]
            /\ \A i \in DOMAIN tbl : i # pos => joined[i] = tbl[i] /\ prepared[i] = tbl[i]
<1> DEFINE pos == AddPos(tbl)
           joined == WithJoined(p, tbl)
           prepared == WithPrepared(p, tbl)
           blankless == PutMember(tbl, p, FALSE, "JOINED", pos)
<1>1. /\ pos \in Nat \ {NoId}
      /\ \/ pos \in DOMAIN tbl /\ tbl[pos].state = "INACTIVE"
         \/ pos = Len(tbl) + 1
  BY AddPosFree
<1>2. DOMAIN tbl = 1..Len(tbl) /\ Len(tbl) \in Nat
  OBVIOUS
<1>3. /\ pos <= Len(tbl) + 1
      /\ pos \in DOMAIN tbl => pos <= Len(tbl) /\ tbl[pos].state = "INACTIVE"
  BY <1>1, <1>2
<1> HIDE DEF pos
<1>4. "JOINED" \in MemberStates /\ "PREPARED" \in MemberStates /\ FALSE \in BOOLEAN
  BY DEF MemberStates
<1>5. /\ blankless \in Seq(Members)
      /\ Len(blankless) >= Len(tbl) /\ pos \in DOMAIN blankless
      /\ pos <= Len(tbl) + 1 => Len(blankless) <= Len(tbl) + 1
      /\ pos <= Len(tbl) => Len(blankless) = Len(tbl)
      /\ blankless[pos] = [proc |-> p, id |-> pos, state |-> "JOINED", leading |-> FALSE]
      /\ \A i \in DOMAIN blankless : i # pos =>
           IF i \in DOMAIN tbl THEN blankless[i] = tbl[i] ELSE blankless[i] = BlankMember
  BY <1>1, <1>4, PutMemberTable
<1>6. joined = blankless
  BY DEF WithJoined, pos
<1> HIDE DEF joined, blankless
<1>7. joined \in Seq(Members) /\ DOMAIN joined = 1..Len(joined) /\ Len(joined) \in Nat
  BY <1>5, <1>6
<1>8. DOMAIN joined = DOMAIN tbl \cup {pos}
  <2>1. CASE pos \in DOMAIN tbl
    <3>1. Len(joined) = Len(tbl)
      BY <1>3, <1>5, <1>6, <2>1
    <3> QED  BY <1>2, <1>7, <2>1, <3>1
  <2>2. CASE pos = Len(tbl) + 1
    <3>1. Len(joined) <= Len(tbl) + 1 /\ pos \in 1..Len(joined)
      BY <1>3, <1>5, <1>6, <1>7
    <3>2. Len(joined) = Len(tbl) + 1
      <4>1. \A a, b \in Nat : a <= b + 1 /\ b + 1 \in 1..a => a = b + 1
        OBVIOUS
      <4> QED  BY <1>2, <1>7, <2>2, <3>1, <4>1
    <3> QED  BY <1>2, <1>7, <2>2, <3>2
  <2> QED  BY <1>1, <2>1, <2>2
<1>9. /\ joined[pos] = [proc |-> p, id |-> pos, state |-> "JOINED", leading |-> FALSE]
      /\ \A i \in DOMAIN tbl : i # pos => joined[i] = tbl[i]
  BY <1>5, <1>6, <1>8
<1>10. prepared = [i \in DOMAIN joined |->
                     IF i = pos THEN [joined[i] EXCEPT !.state = "PREPARED"] ELSE joined[i]]
  BY DEF WithPrepared, SetState, pos, joined
<1>11. prepared \in Seq(Members)
  BY <1>1, <1>4, <1>7, SetStateTable DEF WithPrepared, pos, joined
<1>12. [[proc |-> p, id |-> pos, state |-> "JOINED", leading |-> FALSE] EXCEPT !.state = "PREPARED"]
         = [proc |-> p, id |-> pos, state |-> "PREPARED", leading |-> FALSE]
  <2> DEFINE m == [proc |-> p, id |-> pos, state |-> "JOINED", leading |-> FALSE]
  <2>1. m \in Members /\ m.proc = p /\ m.id = pos /\ m.leading = FALSE
    BY <1>1, <1>4 DEF Members
  <2> HIDE DEF m
  <2>2. [m EXCEPT !.state = "PREPARED"]
          = [proc |-> m.proc, id |-> m.id, state |-> "PREPARED", leading |-> m.leading]
    BY <2>1 DEF Members
  <2> QED  BY <2>1, <2>2 DEF m
<1> HIDE DEF prepared
<1>13. DOMAIN prepared = DOMAIN joined /\ pos \in DOMAIN joined
  BY <1>8, <1>10
<1>14. prepared[pos] = [proc |-> p, id |-> pos, state |-> "PREPARED", leading |-> FALSE]
  BY <1>9, <1>10, <1>12, <1>13
<1>15. \A i \in DOMAIN tbl : i # pos => prepared[i] = tbl[i]
  BY <1>8, <1>9, <1>10
<1> QED  BY <1>1, <1>3, <1>7, <1>8, <1>9, <1>11, <1>13, <1>14, <1>15 DEF pos, joined, prepared

(* The place the leading member has taken is as good as a free one.         *)
LEMMA TakenThenPut ==
  ASSUME NEW tbl \in Seq(Members), NEW p \in Procs
  PROVE  PutMember(TakePos(tbl), p, FALSE, "JOINED", AddPos(tbl)) = WithJoined(p, tbl)
<1> DEFINE pos == AddPos(tbl)
           taken == TakePos(tbl)
           n == Len(tbl)
<1>1. /\ pos \in Nat \ {NoId} /\ n \in Nat /\ DOMAIN tbl = 1..n
      /\ pos \in DOMAIN tbl \/ pos = n + 1
  BY AddPosFree
<1>2. /\ taken \in Seq(Members) /\ pos \in DOMAIN taken /\ Len(taken) >= n
      /\ \A i \in DOMAIN taken : i # pos => i \in DOMAIN tbl /\ taken[i] = tbl[i]
  BY TakePosTable
<1>3. Len(taken) = IF pos <= n THEN n ELSE n + 1
  BY <1>1 DEF TakePos, SetState
<1> HIDE DEF pos, taken, n
<1>4. /\ Max({Len(taken), pos}) = IF Len(taken) >= pos THEN Len(taken) ELSE pos
      /\ Max({n, pos}) = IF n >= pos THEN n ELSE pos
  <2>1. Len(taken) \in Nat /\ n \in Nat /\ pos \in Nat
    BY <1>1, <1>2
  <2> QED  BY <2>1, MaxOfTwo
<1>5. Max({Len(taken), pos}) = Max({n, pos}) /\ Max({n, pos}) \in Nat
  BY <1>1, <1>3, <1>4
<1>6. DOMAIN taken = 1..Len(taken)
  BY <1>2
<1>7. \A i \in 1..Max({n, pos}) : i # pos => /\ i <= Len(taken) <=> i <= n
                                             /\ i <= n => taken[i] = tbl[i]
  BY <1>1, <1>2, <1>3, <1>4, <1>6
<1>8. PutMember(taken, p, FALSE, "JOINED", pos) = PutMember(tbl, p, FALSE, "JOINED", pos)
  BY <1>5, <1>7 DEF PutMember, n
<1> QED  BY <1>8 DEF WithJoined, pos, taken

(* Who leads is not changed by a joiner, and the table stays fit.           *)
LEMMA JoinedLeads ==
  ASSUME NEW tbl \in Seq(Members), Fit(tbl), NEW p \in Procs, NEW q, Entered(tbl, q)
  PROVE  /\ local[q] # AddPos(tbl) /\ local[q] # NoId /\ HasLocal(tbl, local[q])
         /\ HasLocal(TakePos(tbl), local[q]) /\ TakePos(tbl) # << >>
         /\ HasLocal(WithJoined(p, tbl), local[q])
         /\ Leads(tbl, local[q]) <=> tbl[local[q]].leading
         /\ Leads(WithJoined(p, tbl), local[q]) <=> tbl[local[q]].leading
<1>1. /\ DOMAIN tbl = 1..Len(tbl) /\ Len(tbl) \in Nat
      /\ local[q] \in DOMAIN tbl /\ tbl[local[q]].state = "PREPARED"
      /\ tbl[local[q]] \in Members
  BY DEF Entered
<1>2. local[q] # NoId /\ local[q] \in Nat /\ HasLocal(tbl, local[q]) /\ local[q] # AddPos(tbl)
  <2>1. AddPos(tbl) \in DOMAIN tbl => tbl[AddPos(tbl)].state = "INACTIVE"
    BY JoinedTable
  <2> QED  BY <1>1, <2>1 DEF HasLocal, NoId
<1>3. /\ TakePos(tbl) \in Seq(Members) /\ Len(TakePos(tbl)) >= Len(tbl)
  BY TakePosTable
<1>4. HasLocal(TakePos(tbl), local[q]) /\ TakePos(tbl) # << >>
  BY <1>1, <1>2, <1>3 DEF HasLocal
<1>5. /\ WithJoined(p, tbl) \in Seq(Members) /\ local[q] \in DOMAIN WithJoined(p, tbl)
      /\ WithJoined(p, tbl)[local[q]] = tbl[local[q]]
  BY <1>1, <1>2, JoinedTable
<1>6. HasLocal(WithJoined(p, tbl), local[q])
  BY <1>2, <1>5 DEF HasLocal
<1> QED  BY <1>1, <1>2, <1>4, <1>5, <1>6 DEF Leads, Members

LEMMA JoinedFit ==
  ASSUME NEW tbl \in Seq(Members), Fit(tbl), tbl # << >>, NEW p \in Procs,
         \A i \in DOMAIN tbl : tbl[i].proc # p
  PROVE  Fit(WithPrepared(p, tbl))
<1> DEFINE new == WithPrepared(p, tbl)
           pos == AddPos(tbl)
<1>1. /\ pos \in DOMAIN tbl => tbl[pos].state = "INACTIVE"
      /\ new \in Seq(Members) /\ DOMAIN new = DOMAIN tbl \cup {pos}
      /\ new[pos] = [proc |-> p, id |-> pos, state |-> "PREPARED", leading |-> FALSE]
      /\ \A i \in DOMAIN tbl : i # pos => new[i] = tbl[i]
  <2>1. (pos \in DOMAIN tbl => tbl[pos].state = "INACTIVE") /\ new \in Seq(Members)
    BY JoinedTable
  <2>2. DOMAIN new = DOMAIN tbl \cup {pos}
    <3>1. DOMAIN WithJoined(p, tbl) = DOMAIN tbl \cup {pos}
      BY JoinedTable
    <3>2. DOMAIN new = DOMAIN WithJoined(p, tbl)
      BY JoinedTable
    <3> QED  BY <3>1, <3>2, Zenon
  <2>3. new[pos] = [proc |-> p, id |-> pos, state |-> "PREPARED", leading |-> FALSE]
    BY JoinedTable
  <2>4. \A i \in DOMAIN tbl : i # pos => new[i] = tbl[i]
    BY JoinedTable
  <2> QED  BY <2>1, <2>2, <2>3, <2>4
<1> HIDE DEF new, pos
<1>2. \A i \in DOMAIN new : i # pos => i \in DOMAIN tbl /\ new[i] = tbl[i]
  BY <1>1
<1>3. \A i \in DOMAIN new : /\ new[i].id = i /\ new[i].proc \in Procs
                            /\ new[i].state \in {"PREPARED", "INACTIVE"}
                            /\ new[i].leading => new[i].state = "PREPARED"
  BY <1>1, <1>2 DEF Fit
<1>4. \A i, j \in DOMAIN new : new[i].proc = new[j].proc => i = j
  BY <1>1, <1>2 DEF Fit
<1>5. \A i, j \in DOMAIN new : new[i].leading /\ new[j].leading => i = j
  BY <1>1, <1>2 DEF Fit
<1>6. \E i \in DOMAIN new : new[i].leading
  <2>1. PICK i \in DOMAIN tbl : tbl[i].leading
    BY DEF Fit
  <2>2. i # pos
    BY <1>1, <2>1 DEF Fit
  <2> QED  BY <1>1, <2>1, <2>2
<1> QED  BY <1>3, <1>4, <1>5, <1>6 DEF Fit, new

(* handleLeaveMembers makes the same table at all that stay, with one       *)
(* record that leads.                                                       *)
LEMMA LeftTable ==
  ASSUME NEW tbl \in Seq(Members), Fit(tbl), NEW procs,
         NEW k \in DOMAIN tbl, tbl[k].proc \notin procs, tbl[k].state = "PREPARED"
  PROVE  LET left == LeaveMembers(tbl, k, procs)
         IN /\ left \in Seq(Members) /\ DOMAIN left = DOMAIN tbl /\ left # << >> /\ Fit(left)
            /\ \A i \in DOMAIN tbl :
                 /\ left[i].proc = tbl[i].proc
                 /\ left[i].state = IF tbl[i].proc \in procs THEN "INACTIVE" ELSE tbl[i].state
            /\ \A m \in DOMAIN tbl :
                 tbl[m].proc \notin procs => LeaveMembers(tbl, m, procs) = left
<1> DEFINE leavers == PositionsOf(tbl, procs)
           leading == {i \in leavers : tbl[i].leading}
           able == Electable(tbl, leavers)
           successor == tbl[Min(able)].id
           inactive == Deactivate(tbl, leavers)
           moved == [inactive EXCEPT ![Min(leading)].leading = FALSE,
                                     ![successor].leading = TRUE]
           left == LeaveMembers(tbl, k, procs)
<1>1. /\ DOMAIN tbl = 1..Len(tbl) /\ Len(tbl) \in Nat /\ \A i \in DOMAIN tbl : tbl[i] \in Members
      /\ \A i \in DOMAIN tbl : tbl[i].id = i
      /\ \A i, j \in DOMAIN tbl : tbl[i].proc = tbl[j].proc => i = j
      /\ \A i, j \in DOMAIN tbl : tbl[i].leading /\ tbl[j].leading => i = j
  BY DEF Fit
<1>2. leavers = {i \in DOMAIN tbl : tbl[i].proc \in procs}
  BY <1>1 DEF PositionsOf
<1> HIDE DEF leavers
<1>3. {tbl[i].id : i \in leavers} = leavers
  BY <1>1, <1>2
<1>4. /\ able = {pos \in DOMAIN tbl : pos \notin leavers /\ tbl[pos].state \in {"PREPARED", "ACTIVE"}}
      /\ k \in able /\ able \in SUBSET Nat
  <2>1. able = {pos \in DOMAIN tbl : /\ tbl[pos].id \notin leavers
                                      /\ tbl[pos].state \in {"PREPARED", "ACTIVE"}}
    BY <1>3 DEF Electable
  <2>2. able = {pos \in DOMAIN tbl : pos \notin leavers /\ tbl[pos].state \in {"PREPARED", "ACTIVE"}}
    BY <1>1, <2>1
  <2> HIDE DEF able
  <2>3. k \notin leavers
    BY <1>2
  <2> QED  BY <1>1, <2>2, <2>3
<1> HIDE DEF able
<1>5. Min(able) \in able
  BY <1>4, MinOfNats
<1>6. successor = Min(able) /\ successor \in DOMAIN tbl /\ successor \notin leavers /\ successor # NoId
      /\ tbl[successor].state = "PREPARED"
  <2>1. /\ Min(able) \in DOMAIN tbl /\ Min(able) \notin leavers
        /\ tbl[Min(able)].state \in {"PREPARED", "ACTIVE"}
    BY <1>4, <1>5
  <2>2. PICK first : first = Min(able)
    OBVIOUS
  <2>3. successor = first
    BY <1>1, <2>1, <2>2
  <2>4. tbl[first].state = "PREPARED"
    BY <2>1, <2>2 DEF Fit
  <2>5. first # NoId
    BY <1>1, <2>1, <2>2 DEF NoId
  <2> QED  BY <2>1, <2>2, <2>3, <2>4, <2>5
<1>7. \A m \in DOMAIN tbl : tbl[m].proc \notin procs =>
        LeaveMembers(tbl, m, procs) = IF leading = {} THEN inactive ELSE moved
  <2> SUFFICES ASSUME NEW m \in DOMAIN tbl, tbl[m].proc \notin procs
               PROVE  LeaveMembers(tbl, m, procs) = IF leading = {} THEN inactive ELSE moved
    OBVIOUS
  <2>1. m \notin leavers
    BY <1>2
  <2>2. m \notin {tbl[i].id : i \in leavers}
    BY <1>3, <2>1
  <2>3. able # {}
    BY <1>4
  <2> HIDE DEF inactive
  <2>4. LeaveMembers(tbl, m, procs) =
          CASE m \in {tbl[i].id : i \in leavers} -> tbl
            [] m \notin {tbl[i].id : i \in leavers} /\ leading = {} -> inactive
            [] OTHER -> IF able = {} THEN tbl ELSE IF successor = NoId THEN tbl ELSE moved
    BY DEF LeaveMembers, inactive, leavers, able
  <2> HIDE DEF leading, successor, moved
  <2>5. CASE leading = {}
    BY <2>2, <2>4, <2>5
  <2>6. CASE leading # {}
    BY <1>6, <2>2, <2>3, <2>4, <2>6
  <2> QED  BY <2>5, <2>6
<1>8. left = IF leading = {} THEN inactive ELSE moved
  BY <1>7
<1>9. \A m \in Members : \A b \in BOOLEAN :
        /\ [m EXCEPT !.state = "INACTIVE"] \in Members
        /\ [m EXCEPT !.state = "INACTIVE"].proc = m.proc
        /\ [m EXCEPT !.state = "INACTIVE"].id = m.id
        /\ [m EXCEPT !.state = "INACTIVE"].leading = m.leading
        /\ [m EXCEPT !.state = "INACTIVE"].state = "INACTIVE"
        /\ [m EXCEPT !.leading = b].proc = m.proc
        /\ [m EXCEPT !.leading = b].id = m.id
        /\ [m EXCEPT !.leading = b].state = m.state
        /\ [m EXCEPT !.leading = b].leading = b
  BY DEF Members, MemberStates
<1>10. /\ DOMAIN inactive = DOMAIN tbl
       /\ \A i \in DOMAIN tbl :
            /\ inactive[i] \in Members
            /\ inactive[i].proc = tbl[i].proc /\ inactive[i].id = i
            /\ inactive[i].leading = tbl[i].leading
            /\ inactive[i].state = IF i \in leavers THEN "INACTIVE" ELSE tbl[i].state
  <2>1. inactive = [i \in DOMAIN tbl |->
                      IF i \in leavers THEN [tbl[i] EXCEPT !.state = "INACTIVE"] ELSE tbl[i]]
    BY DEF Deactivate
  <2> HIDE DEF inactive
  <2>2. ASSUME NEW i \in DOMAIN tbl
        PROVE  /\ inactive[i] \in Members
               /\ inactive[i].proc = tbl[i].proc /\ inactive[i].id = i
               /\ inactive[i].leading = tbl[i].leading
               /\ inactive[i].state = IF i \in leavers THEN "INACTIVE" ELSE tbl[i].state
    <3>1. tbl[i] \in Members /\ tbl[i].id = i
      BY <1>1
    <3>2. inactive[i] = IF i \in leavers THEN [tbl[i] EXCEPT !.state = "INACTIVE"] ELSE tbl[i]
      BY <2>1
    <3>3. CASE i \in leavers
      <4>1. FALSE \in BOOLEAN /\ inactive[i] = [tbl[i] EXCEPT !.state = "INACTIVE"]
        BY <3>2, <3>3
      <4>2. /\ inactive[i] \in Members /\ inactive[i].state = "INACTIVE"
            /\ inactive[i].proc = tbl[i].proc /\ inactive[i].id = tbl[i].id
            /\ inactive[i].leading = tbl[i].leading
        <5>1. \A m \in Members : /\ [m EXCEPT !.state = "INACTIVE"] \in Members
                                 /\ [m EXCEPT !.state = "INACTIVE"].proc = m.proc
                                 /\ [m EXCEPT !.state = "INACTIVE"].id = m.id
                                 /\ [m EXCEPT !.state = "INACTIVE"].leading = m.leading
                                 /\ [m EXCEPT !.state = "INACTIVE"].state = "INACTIVE"
          BY DEF Members, MemberStates
        <5> QED  BY <3>1, <4>1, <5>1
      <4> QED  BY <3>1, <3>3, <4>2
    <3>4. CASE i \notin leavers
      BY <3>1, <3>2, <3>4
    <3> QED  BY <3>3, <3>4
  <2> QED  BY <2>1, <2>2
<1> HIDE DEF inactive
<1>11. left \in Seq(Members) /\ Len(left) = Len(tbl)
  BY LeaveMembersTable
<1>12. DOMAIN left = DOMAIN tbl
  BY <1>1, <1>11
<1>13. ASSUME leading = {}
       PROVE  \A i \in DOMAIN tbl : /\ left[i].proc = tbl[i].proc /\ left[i].id = i
                                    /\ left[i].state = IF i \in leavers THEN "INACTIVE" ELSE tbl[i].state
                                    /\ left[i].leading = tbl[i].leading
                                    /\ tbl[i].leading => i \notin leavers
  <2>1. left = inactive
    BY <1>8, <1>13
  <2>2. \A i \in leavers : ~tbl[i].leading
    BY <1>13
  <2> HIDE DEF left
  <2> QED  BY <1>10, <2>1, <2>2
<1>14. ASSUME leading # {}
       PROVE  \A i \in DOMAIN tbl : /\ left[i].proc = tbl[i].proc /\ left[i].id = i
                                    /\ left[i].state = IF i \in leavers THEN "INACTIVE" ELSE tbl[i].state
                                    /\ left[i].leading = (i = successor)
  <2> DEFINE old == Min(leading)
             replaced == [inactive EXCEPT ![old].leading = FALSE]
  <2>1. left = moved /\ moved = [replaced EXCEPT ![successor].leading = TRUE]
    BY <1>8, <1>14
  <2>2. leading \in SUBSET Nat /\ leading \subseteq leavers /\ \A i \in leading : tbl[i].leading
    BY <1>1, <1>2
  <2>3. old \in leading
    BY <1>14, <2>2, MinOfNats
  <2>4. \A i \in DOMAIN tbl : i # old => tbl[i].leading = FALSE
    <3> SUFFICES ASSUME NEW i \in DOMAIN tbl, i # old PROVE tbl[i].leading = FALSE
      OBVIOUS
    <3>1. old \in DOMAIN tbl /\ tbl[old].leading
      BY <1>2, <2>2, <2>3
    <3>2. ~tbl[i].leading
      BY <1>1, <3>1
    <3>3. tbl[i].leading \in BOOLEAN
      BY <1>1 DEF Members
    <3> QED  BY <3>2, <3>3
  <2>5. old # successor
    BY <1>6, <2>2, <2>3
  <2> HIDE DEF old, successor, moved, left, leading
  <2>6. replaced = [i \in DOMAIN inactive |->
                      IF i = old THEN [inactive[i] EXCEPT !.leading = FALSE] ELSE inactive[i]]
    OBVIOUS
  <2> HIDE DEF replaced
  <2>7. moved = [i \in DOMAIN replaced |->
                   IF i = successor THEN [replaced[i] EXCEPT !.leading = TRUE] ELSE replaced[i]]
    BY <2>1
  <2> SUFFICES ASSUME NEW i \in DOMAIN tbl
               PROVE  /\ left[i].proc = tbl[i].proc /\ left[i].id = i
                      /\ left[i].state = IF i \in leavers THEN "INACTIVE" ELSE tbl[i].state
                      /\ left[i].leading = (i = successor)
    OBVIOUS
  <2>8. left[i] = IF i = successor THEN [inactive[i] EXCEPT !.leading = TRUE]
                  ELSE IF i = old THEN [inactive[i] EXCEPT !.leading = FALSE] ELSE inactive[i]
    BY <1>10, <2>1, <2>5, <2>6, <2>7
  <2>9. inactive[i] \in Members
    BY <1>10
  <2>10. left[i].proc = inactive[i].proc /\ left[i].id = inactive[i].id /\ left[i].state = inactive[i].state
    BY <1>9, <2>8, <2>9
  <2>11. CASE i = successor
    <3>1. left[i].leading = TRUE
      BY <1>9, <2>8, <2>9, <2>11
    <3> QED  BY <1>10, <2>10, <2>11, <3>1
  <2>12. CASE i # successor
    <3>1. left[i].leading = FALSE
      BY <1>9, <1>10, <2>4, <2>8, <2>9, <2>12
    <3> QED  BY <1>10, <2>10, <2>12, <3>1
  <2> QED  BY <2>11, <2>12
<1>15. \A i \in DOMAIN tbl : tbl[i].state \in {"PREPARED", "INACTIVE"} /\ tbl[i].proc \in Procs
                             /\ (tbl[i].leading => tbl[i].state = "PREPARED")
  BY DEF Fit
<1>16. \E i \in DOMAIN tbl : tbl[i].leading
  BY DEF Fit
<1> HIDE DEF left, leading, successor
<1>17. Fit(left)
  <2>1. CASE leading = {}
    <3>1. \A i \in DOMAIN left : /\ left[i].id = i /\ left[i].proc \in Procs
                                 /\ left[i].state \in {"PREPARED", "INACTIVE"}
                                 /\ left[i].leading => left[i].state = "PREPARED"
      BY <1>12, <1>13, <1>15, <2>1
    <3>2. \A i, j \in DOMAIN left : left[i].proc = left[j].proc => i = j
      BY <1>1, <1>12, <1>13, <2>1
    <3>3. \A i, j \in DOMAIN left : left[i].leading /\ left[j].leading => i = j
      BY <1>1, <1>12, <1>13, <2>1
    <3>4. \E i \in DOMAIN left : left[i].leading
      BY <1>12, <1>13, <1>16, <2>1
    <3> QED  BY <3>1, <3>2, <3>3, <3>4 DEF Fit
  <2>2. CASE leading # {}
    <3>1. \A i \in DOMAIN left : /\ left[i].id = i /\ left[i].proc \in Procs
                                 /\ left[i].state \in {"PREPARED", "INACTIVE"}
                                 /\ left[i].leading => left[i].state = "PREPARED"
      BY <1>6, <1>12, <1>14, <1>15, <2>2
    <3>2. \A i, j \in DOMAIN left : left[i].proc = left[j].proc => i = j
      BY <1>1, <1>12, <1>14, <2>2
    <3>3. \A i, j \in DOMAIN left : left[i].leading /\ left[j].leading => i = j
      BY <1>12, <1>14, <2>2
    <3>4. \E i \in DOMAIN left : left[i].leading
      BY <1>6, <1>12, <1>14, <2>2
    <3> QED  BY <3>1, <3>2, <3>3, <3>4 DEF Fit
  <2> QED  BY <2>1, <2>2
<1>18. \A i \in DOMAIN tbl : /\ left[i].proc = tbl[i].proc
                             /\ left[i].state = IF tbl[i].proc \in procs THEN "INACTIVE" ELSE tbl[i].state
  BY <1>2, <1>13, <1>14
<1>19. left # << >>
  BY <1>1, <1>12
<1> HIDE DEF inactive, moved
<1>20. \A m \in DOMAIN tbl : tbl[m].proc \notin procs => LeaveMembers(tbl, m, procs) = left
  BY <1>7, <1>8
<1> QED  BY <1>11, <1>12, <1>17, <1>18, <1>19, <1>20 DEF left

LEMMA CalmFacts ==
  ASSUME Typed
  PROVE  /\ LogEnd \in Nat /\ DOMAIN log = 1..LogEnd /\ Group \subseteq Procs
         /\ \A p \in Procs : /\ cursor[p] \in Nat \ {0} /\ local[p] \in Nat
                             /\ table[p] \in Seq(Members)
         /\ \A p \in Group : phase[p] \in {"starting", "running"}
BY TypedMeans DEF Group, LogEnd

(* The member that leads a table that is not empty.                         *)
LEMMA LeaderThere ==
  ASSUME NEW tbl \in Seq(Members), Fit(tbl), tbl # << >>, Present(tbl)
  PROVE  \E q \in Group : Entered(tbl, q) /\ tbl[local[q]].leading
<1>1. PICK i \in DOMAIN tbl : tbl[i].leading
  BY DEF Fit
<1>2. tbl[i].state = "PREPARED"
  BY <1>1 DEF Fit
<1>3. tbl[i].proc \in Group /\ local[tbl[i].proc] = i
  BY <1>2 DEF Present
<1> QED  BY <1>1, <1>2, <1>3 DEF Entered

LEMMA AnswererThere ==
  ASSUME NEW tbl \in Seq(Members), NEW p \in Procs, NEW c \in Nat, NormalJoin(p, tbl, c)
  PROVE  \E q \in Group \ {p} : Answerer(q, p, tbl, c)
<1>1. PICK q \in Group : Entered(tbl, q) /\ tbl[local[q]].leading
  BY LeaderThere DEF NormalJoin
<1>2. q # p
  BY <1>1 DEF NormalJoin, Entered
<1>3. ~Follower(q, p, tbl, c) /\ ~Bystander(q, tbl)
  BY <1>1 DEF Follower, Bystander, Absent, Entered
<1> QED  BY <1>2, <1>3 DEF NormalJoin

(* When a join is over, all have the table with the joiner.                 *)
LEMMA NormalJoinOver ==
  ASSUME Typed, Settled, NEW tbl \in Seq(Members), NEW p \in Procs, NEW c \in Nat,
         NormalJoin(p, tbl, c)
  PROVE  Fit(WithPrepared(p, tbl)) /\ Shared(WithPrepared(p, tbl))
<1> DEFINE new == WithPrepared(p, tbl)
           pos == AddPos(tbl)
<1>1. /\ p \in Group /\ c \in DOMAIN log /\ Ordered(c) <= 4
      /\ \A q \in Group : Told(q, c) \in 0..(Ordered(c) + 1)
  <2>1. Len(Script(p, tbl)) = 4
    BY DEF Script
  <2> QED  BY <2>1 DEF NormalJoin, Round
<1>2. Ordered(c) \in Nat /\ \A q \in Group : Told(q, c) = Ordered(c) + 1 /\ outbox[q] = << >>
  <2>1. c \in 1..LogEnd /\ LogEnd \in Nat
    BY <1>1, CalmFacts
  <2>2. LogEnd - c \in Nat
    BY <2>1
  <2>3. \A q \in Group : cursor[q] = LogEnd + 1 /\ outbox[q] = << >>
    BY DEF Settled, LogEnd
  <2>4. \A q \in Group : cursor[q] - c = (LogEnd - c) + 1
    BY <2>1, <2>3
  <2> QED  BY <2>2, <2>3, <2>4 DEF Ordered, Told
<1>3. PICK l \in Group \ {p} : Answerer(l, p, tbl, c)
  BY AnswererThere
<1>4. Ordered(c) = 4
  <2>1. Ordered(c) # 0
    <3> SUFFICES ASSUME Ordered(c) = 0 PROVE FALSE
      OBVIOUS
    <3>1. outbox[p] = <<JoinMsg(p, FALSE)>>
      BY DEF NormalJoin, Joiner
    <3>2. outbox[p] = << >>
      BY <1>1, <1>2
    <3>3. \A x : <<x>> # << >>
      OBVIOUS
    <3> QED  BY <3>1, <3>2, <3>3
  <2>2. /\ Ordered(c) = 1 => outbox[l] = <<WholeMsg(p, tbl), DeltaMsg(p, AddPos(tbl))>>
        /\ Ordered(c) = 2 => outbox[l] = <<DeltaMsg(p, AddPos(tbl))>>
        /\ Ordered(c) = 3 => outbox[l] = <<IsTold(p, tbl)>>
    BY <1>2, <1>3 DEF Answerer
  <2>3. Ordered(c) # 1 /\ Ordered(c) # 2 /\ Ordered(c) # 3
    <3>1. outbox[l] = << >>
      BY <1>2
    <3> QED  BY <2>2, <3>1
  <2> QED  BY <1>1, <1>2, <2>1, <2>3
<1>5. \A q \in Group : Told(q, c) = 5
  BY <1>2, <1>4
<1>6. /\ Fit(tbl) /\ tbl # << >> /\ Present(tbl) /\ \A i \in DOMAIN tbl : tbl[i].proc # p
      /\ local[p] = pos /\ table[p] = new
      /\ \A q \in Group \ {p} : \/ Entered(tbl, q) /\ table[q] = new
                                \/ Absent(tbl, q) /\ table[q] = << >>
  <2>1. local[p] = pos /\ table[p] = new
    BY <1>1, <1>5 DEF NormalJoin, Joiner
  <2>2. \A q \in Group \ {p} : \/ Entered(tbl, q) /\ table[q] = new
                               \/ Absent(tbl, q) /\ table[q] = << >>
    BY <1>5 DEF NormalJoin, Follower, Answerer, Bystander
  <2> QED  BY <2>1, <2>2 DEF NormalJoin
<1>7. /\ pos \in Nat \ {NoId} /\ new \in Seq(Members) /\ DOMAIN new = DOMAIN tbl \cup {pos}
      /\ new[pos] = [proc |-> p, id |-> pos, state |-> "PREPARED", leading |-> FALSE]
      /\ \A i \in DOMAIN tbl : i # pos => new[i] = tbl[i]
  BY JoinedTable
<1>8. Fit(new)
  BY <1>6, JoinedFit
<1> HIDE DEF new, pos
<1>9. Present(new)
  <2> SUFFICES ASSUME NEW i \in DOMAIN new
               PROVE  /\ phase[new[i].proc] # "new"
                      /\ new[i].state = "PREPARED" => new[i].proc \in Group /\ local[new[i].proc] = i
    BY DEF Present
  <2>1. CASE i = pos
    <3>1. new[i].proc = p
      BY <1>7, <2>1
    <3>2. local[p] = i
      BY <1>6, <2>1
    <3>3. p \in Group
      BY <1>1
    <3>4. phase[p] \in {"starting", "running"}
      BY <3>3, CalmFacts
    <3> QED  BY <3>1, <3>2, <3>3, <3>4
  <2>2. CASE i # pos
    BY <1>6, <1>7, <2>2 DEF Present
  <2> QED  BY <2>1, <2>2
<1>10. ASSUME NEW q \in Group PROVE Has(q, table[q], new)
  <2>1. CASE q = p
    BY <1>6, <1>7, <2>1 DEF Has, Entered
  <2>2. CASE q # p /\ Entered(tbl, q)
    <3>1. local[q] # pos /\ local[q] # NoId
      BY <1>6, <2>2, JoinedLeads DEF pos
    <3> QED  BY <1>6, <1>7, <2>2, <3>1 DEF Has, Entered, Absent
  <2>3. CASE q # p /\ ~Entered(tbl, q)
    <3>1. Absent(tbl, q) /\ table[q] = << >>
      BY <1>6, <2>3
    <3>2. \A i \in DOMAIN new : new[i].proc # q
      BY <1>7, <2>3, <3>1 DEF Absent
    <3> QED  BY <3>1, <3>2 DEF Has, Absent
  <2> QED  BY <2>1, <2>2, <2>3
<1> QED  BY <1>8, <1>9, <1>10 DEF Shared, new

LEMMA FirstJoinOver ==
  ASSUME Typed, Settled, NEW p \in Procs, NEW c \in Nat, FirstJoin(p, c)
  PROVE  /\ Alone(p, "PREPARED") \in Seq(Members)
         /\ Fit(Alone(p, "PREPARED")) /\ Shared(Alone(p, "PREPARED"))
<1> DEFINE new == Alone(p, "PREPARED")
<1>1. Group = {p} /\ c \in DOMAIN log /\ Ordered(c) <= 2
  <2>1. Len(<<JoinMsg(p, TRUE), StatusMsg(1, "PREPARED")>>) = 2
    OBVIOUS
  <2> QED  BY <2>1 DEF FirstJoin, Round
<1>2. Ordered(c) \in Nat /\ Told(p, c) = Ordered(c) + 1 /\ outbox[p] = << >>
  <2>1. c \in 1..LogEnd /\ LogEnd \in Nat
    BY <1>1, CalmFacts
  <2>2. LogEnd - c \in Nat
    BY <2>1
  <2>3. cursor[p] = LogEnd + 1 /\ outbox[p] = << >>
    BY <1>1 DEF Settled, LogEnd
  <2>4. cursor[p] - c = (LogEnd - c) + 1
    BY <2>1, <2>3
  <2> QED  BY <2>2, <2>3, <2>4 DEF Ordered, Told
<1>3. Told(p, c) = 3
  <2>1. Ordered(c) # 0
    <3>1. Ordered(c) = 0 => outbox[p] = <<JoinMsg(p, TRUE)>>
      BY <1>2 DEF FirstJoin
    <3> QED  BY <1>2, <3>1
  <2>2. Ordered(c) # 1
    <3>1. Ordered(c) = 1 => outbox[p] = <<StatusMsg(1, "PREPARED")>>
      BY <1>2 DEF FirstJoin
    <3> QED  BY <1>2, <3>1
  <2> QED  BY <1>1, <1>2, <2>1, <2>2
<1>4. local[p] = 1 /\ table[p] = new
  BY <1>3 DEF FirstJoin
<1>5. /\ new \in Seq(Members) /\ DOMAIN new = {1}
      /\ new[1] = [proc |-> p, id |-> 1, state |-> "PREPARED", leading |-> TRUE]
  <2>1. [proc |-> p, id |-> 1, state |-> "PREPARED", leading |-> TRUE] \in Members
    BY DEF Members, MemberStates
  <2> QED  BY <2>1 DEF Alone
<1> HIDE DEF new
<1>6. Fit(new)
  BY <1>5 DEF Fit
<1>7. Shared(new)
  <2>1. phase[p] \in {"starting", "running"}
    BY <1>1, CalmFacts
  <2> QED  BY <1>1, <1>4, <1>5, <2>1 DEF Shared, Present, Has, Entered, NoId
<1> QED  BY <1>5, <1>6, <1>7 DEF new

(* Between two changes the members share one table.                         *)
LEMMA SettledShared ==
  ASSUME CalmInv, Settled
  PROVE  \E tbl \in Seq(Members) : Fit(tbl) /\ Shared(tbl)
<1>1. Typed
  BY DEF CalmInv
<1>2. CASE \E tbl \in Seq(Members) : Quiet(tbl)
  <2>1. PICK tbl \in Seq(Members) : Quiet(tbl)
    BY <1>2
  <2>2. \A p \in Group : ~Behind(p)
    BY <1>1, CalmFacts DEF Settled, Behind, LogEnd
  <2>3. \A p \in Group : Has(p, table[p], tbl)
    BY <2>1, <2>2 DEF Quiet, Awaits
  <2> QED  BY <2>1, <2>3 DEF Quiet, Shared
<1>3. CASE \E tbl \in Seq(Members), p \in Procs, c \in Nat : NormalJoin(p, tbl, c)
  <2>1. PICK tbl \in Seq(Members), p \in Procs, c \in Nat : NormalJoin(p, tbl, c)
    BY <1>3
  <2>2. WithPrepared(p, tbl) \in Seq(Members)
    BY JoinedTable
  <2> QED  BY <1>1, <2>1, <2>2, NormalJoinOver
<1>4. CASE \E p \in Procs, c \in Nat : FirstJoin(p, c)
  <2>1. PICK p \in Procs, c \in Nat : FirstJoin(p, c)
    BY <1>4
  <2>2. /\ Alone(p, "PREPARED") \in Seq(Members)
        /\ Fit(Alone(p, "PREPARED")) /\ Shared(Alone(p, "PREPARED"))
    BY <1>1, <2>1, FirstJoinOver
  <2> QED  BY <2>2
<1>5. CASE \E p \in Procs, c \in Nat : LostJoin(p, c)
  <2>1. << >> \in Seq(Members) /\ Fit(<< >>)
    BY DEF Fit
  <2>2. \A p \in Group : table[p] = << >> /\ local[p] = NoId
    BY <1>5 DEF LostJoin
  <2>3. Shared(<< >>)
    BY <2>2 DEF Shared, Present, Has, Absent
  <2> QED  BY <2>1, <2>3
<1> QED  BY <1>2, <1>3, <1>4, <1>5 DEF CalmInv, Rounds

(* A start, or a leave, from there leaves one change to be dispatched.      *)
LEMMA StartKeepsCalm ==
  ASSUME CalmInv, WaitSettled, Typed', NEW p \in Procs, Start(p)
  PROVE  CalmInv'
<1>1. Typed /\ Reset /\ Settled
  BY DEF CalmInv, Start
<1>2. PICK tbl \in Seq(Members) : Fit(tbl) /\ Shared(tbl)
  BY <1>1, SettledShared
<1>20. PICK e : e = Change(Group \cup {p}, {}, {p})
  OBVIOUS
<1>3. /\ phase[p] = "new" /\ log' = Append(log, e)
      /\ phase' = [phase EXCEPT ![p] = "starting"]
      /\ cursor' = [cursor EXCEPT ![p] = LogEnd + 1]
      /\ outbox' = outbox /\ table' = table /\ local' = local /\ cfgLeading' = cfgLeading
  BY <1>20 DEF Start, LogEnd
<1>4. log \in Seq(Entries) /\ LogEnd \in Nat /\ DOMAIN log = 1..LogEnd
  BY <1>1, TypedMeans, CalmFacts
<1>5. LogEnd' = LogEnd + 1 /\ LogEnd' \in DOMAIN log' /\ log'[LogEnd'] = e
  BY <1>3, <1>4 DEF LogEnd
<1>6. /\ phase \in [Procs -> {"new", "starting", "running", "gone"}]
      /\ cursor \in [Procs -> Nat \ {0}]
  BY <1>1, TypedMeans
<1>7. p \notin Group /\ Group' = Group \cup {p}
  BY <1>3, <1>6 DEF Group
<1>8. e.type = "change" /\ e.left = {} /\ e.joined = {p}
  BY <1>20 DEF Change
<1>9. /\ outbox[p] = << >> /\ table[p] = << >> /\ local[p] = NoId /\ ~cfgLeading[p]
  BY <1>1, <1>7 DEF Reset
<1>10. OneChange(e)'
  BY <1>3, <1>7, <1>8, <1>9, <1>20 DEF OneChange
<1>11. ASSUME NEW q \in Group'
       PROVE  Awaits(q, tbl)'
  <2>1. cursor'[q] = LogEnd' /\ outbox'[q] = << >> /\ Behind(q)'
    <3>1. CASE q = p
      BY <1>3, <1>5, <1>6, <1>9, <3>1 DEF Behind
    <3>2. CASE q # p
      <4>1. q \in Group /\ q \in Procs
        BY <1>7, <3>2 DEF Group
      <4>2. cursor[q] = LogEnd + 1 /\ outbox[q] = << >>
        BY <1>1, <4>1 DEF Settled, LogEnd
      <4> QED  BY <1>3, <1>5, <1>6, <3>2, <4>1, <4>2 DEF Behind
    <3> QED  BY <3>1, <3>2
  <2>2. phase'[q] = "starting" => q = p
    BY <1>1, <1>3, <1>6, <1>7 DEF Settled
  <2>3. q = p => ~cfgLeading'[q]
    BY <1>3, <1>9
  <2>4. Has(q, table[q], tbl)'
    <3>1. CASE q = p
      <4>1. \A i \in DOMAIN tbl : tbl[i].proc # p
        BY <1>2, <1>3 DEF Shared, Present
      <4> QED  BY <1>3, <1>9, <3>1, <4>1 DEF Has, Absent
    <3>2. CASE q # p
      <4>1. Has(q, table[q], tbl)
        BY <1>2, <1>7, <3>2 DEF Shared
      <4> QED  BY <1>3, <4>1 DEF Has, Absent, Entered
    <3> QED  BY <3>1, <3>2
  <2>5. AfterChange(table'[q], local'[q], log'[LogEnd']) = table'[q]
    BY <1>5, <1>8 DEF AfterChange
  <2> QED  BY <1>5, <1>8, <1>10, <2>1, <2>2, <2>3, <2>4, <2>5 DEF Awaits, Behind
<1>12. Present(tbl)'
  <2> SUFFICES ASSUME NEW i \in DOMAIN tbl
               PROVE  /\ phase'[tbl[i].proc] # "new"
                      /\ tbl[i].state = "PREPARED" => tbl[i].proc \in Group' /\ local'[tbl[i].proc] = i
    BY DEF Present
  <2>1. phase[tbl[i].proc] # "new" /\ tbl[i].proc \in Procs
    BY <1>2 DEF Shared, Present, Fit
  <2>2. tbl[i].proc # p
    BY <1>3, <2>1
  <2> QED  BY <1>2, <1>3, <1>6, <1>7, <2>1, <2>2 DEF Shared, Present
<1>13. Quiet(tbl)'
  BY <1>2, <1>11, <1>12 DEF Quiet, Fit
<1>14. Reset'
  <2> SUFFICES ASSUME NEW q \in Procs \ Group'
               PROVE  /\ cursor'[q] = 1 /\ outbox'[q] = << >> /\ table'[q] = << >>
                      /\ local'[q] = NoId /\ ~cfgLeading'[q]
    BY DEF Reset
  <2> QED  BY <1>1, <1>3, <1>6, <1>7 DEF Reset
<1> QED  BY <1>13, <1>14 DEF CalmInv, Rounds

LEMMA LeaveKeepsCalm ==
  ASSUME CalmInv, WaitSettled, Typed', NEW procs, Leave(procs)
  PROVE  CalmInv'
<1>1. Typed /\ Reset /\ Settled
  BY DEF CalmInv, Leave
<1>2. PICK tbl \in Seq(Members) : Fit(tbl) /\ Shared(tbl)
  BY <1>1, SettledShared
<1>20. PICK e : e = Change(Group \ procs, procs, {})
  OBVIOUS
<1>3. /\ procs # {} /\ procs \subseteq Group /\ log' = Append(log, e)
      /\ phase' = Lose(phase, procs, "gone") /\ cursor' = Lose(cursor, procs, 1)
      /\ outbox' = Lose(outbox, procs, << >>) /\ table' = Lose(table, procs, << >>)
      /\ local' = Lose(local, procs, NoId) /\ cfgLeading' = Lose(cfgLeading, procs, FALSE)
  BY <1>20 DEF Leave
<1>4. log \in Seq(Entries) /\ LogEnd \in Nat /\ DOMAIN log = 1..LogEnd
  BY <1>1, TypedMeans, CalmFacts
<1>5. LogEnd' = LogEnd + 1 /\ LogEnd' \in DOMAIN log' /\ log'[LogEnd'] = e
  BY <1>3, <1>4 DEF LogEnd
<1>6. Group \subseteq Procs
  BY DEF Group
<1>7. /\ \A q \in procs : /\ phase'[q] = "gone" /\ cursor'[q] = 1 /\ outbox'[q] = << >>
                          /\ table'[q] = << >> /\ local'[q] = NoId /\ ~cfgLeading'[q]
      /\ \A q \in Procs \ procs : /\ phase'[q] = phase[q] /\ cursor'[q] = cursor[q]
                                  /\ outbox'[q] = outbox[q] /\ table'[q] = table[q]
                                  /\ local'[q] = local[q] /\ cfgLeading'[q] = cfgLeading[q]
  BY <1>3, <1>6 DEF Lose
<1>8. Group' = Group \ procs
  BY <1>3, <1>6, <1>7 DEF Group
<1>9. e.type = "change" /\ e.left = procs /\ e.joined = {}
  BY <1>20 DEF Change
<1>10. ASSUME NEW q \in Group'
       PROVE  /\ q \in Group /\ q \in Procs \ procs /\ cursor'[q] = LogEnd' /\ outbox'[q] = << >>
              /\ phase'[q] = "running" /\ Behind(q)' /\ Has(q, table[q], tbl)
  <2>1. q \in Group /\ q \in Procs \ procs
    BY <1>6, <1>8
  <2>2. cursor[q] = LogEnd + 1 /\ outbox[q] = << >> /\ phase[q] = "running"
    BY <1>1, <2>1 DEF Settled, LogEnd
  <2>3. cursor'[q] = LogEnd' /\ outbox'[q] = << >> /\ phase'[q] = "running"
    BY <1>5, <1>7, <2>1, <2>2
  <2> QED  BY <1>2, <2>1, <2>3 DEF Shared, Behind
<1>11. OneChange(e)'
  BY <1>9 DEF OneChange
<1>12. ASSUME NEW new, NEW q \in Group', Has(q, AfterChange(table[q], local[q], log[LogEnd]), new)'
       PROVE  Awaits(q, new)'
  BY <1>5, <1>9, <1>10, <1>11, <1>12 DEF Awaits, Behind
<1>13. ASSUME \E k \in Group' : local[k] # NoId  PROVE Rounds'
  <2>1. PICK k \in Group' : local[k] # NoId
    BY <1>13
  <2>7. PICK new : new = LeaveMembers(tbl, local[k], procs)
    OBVIOUS
  <2>2. local[k] \in DOMAIN tbl /\ tbl[local[k]].proc \notin procs /\ tbl[local[k]].state = "PREPARED"
    BY <1>10, <2>1 DEF Has, Entered
  <2>3. /\ new \in Seq(Members) /\ DOMAIN new = DOMAIN tbl /\ Fit(new)
        /\ \A i \in DOMAIN tbl :
             /\ new[i].proc = tbl[i].proc
             /\ new[i].state = IF tbl[i].proc \in procs THEN "INACTIVE" ELSE tbl[i].state
        /\ \A m \in DOMAIN tbl :
             tbl[m].proc \notin procs => LeaveMembers(tbl, m, procs) = new
    BY <1>2, <2>2, <2>7, LeftTable
  <2>4. Present(new)'
    <3> SUFFICES ASSUME NEW i \in DOMAIN new
                 PROVE  /\ phase'[new[i].proc] # "new"
                        /\ new[i].state = "PREPARED" => new[i].proc \in Group' /\ local'[new[i].proc] = i
      BY DEF Present
    <3>1. /\ i \in DOMAIN tbl /\ new[i].proc = tbl[i].proc /\ tbl[i].proc \in Procs
          /\ phase[tbl[i].proc] # "new"
          /\ tbl[i].state = "PREPARED" => tbl[i].proc \in Group /\ local[tbl[i].proc] = i
      BY <1>2, <2>3 DEF Shared, Present, Fit
    <3>2. CASE tbl[i].proc \in procs
      BY <1>7, <2>3, <3>1, <3>2
    <3>3. CASE tbl[i].proc \notin procs
      BY <1>7, <1>8, <2>3, <3>1, <3>3
    <3> QED  BY <3>2, <3>3
  <2>5. ASSUME NEW q \in Group'
        PROVE  Has(q, AfterChange(table[q], local[q], log[LogEnd]), new)'
    <3>1. /\ local'[q] = local[q] /\ table'[q] = table[q]
      BY <1>7, <1>10
    <3>2. CASE local[q] = NoId
      <4>1. Absent(tbl, q) /\ table[q] = << >>
        BY <1>10, <3>2 DEF Has
      <4>2. AfterChange(table'[q], local'[q], log'[LogEnd']) = table'[q]
        BY <3>1, <3>2 DEF AfterChange, HasLocal
      <4>3. Absent(new, q)'
        BY <2>3, <3>1, <4>1 DEF Absent
      <4> QED  BY <3>1, <3>2, <4>1, <4>2, <4>3 DEF Has
    <3>3. CASE local[q] # NoId
      <4>1. Entered(tbl, q) /\ table[q] = tbl
        BY <1>10, <3>3 DEF Has
      <4>2. /\ local[q] \in DOMAIN tbl /\ tbl[local[q]].proc = q
            /\ tbl[local[q]].state = "PREPARED" /\ q \notin procs
        BY <1>10, <4>1 DEF Entered
      <4>3. local[q] <= Len(tbl)
        BY <4>2
      <4>4. AfterChange(table'[q], local'[q], log'[LogEnd']) = LeaveMembers(tbl, local[q], procs)
        BY <1>3, <1>5, <1>9, <3>1, <3>3, <4>1, <4>3 DEF AfterChange, HasLocal
      <4>5. LeaveMembers(tbl, local[q], procs) = new
        BY <2>3, <4>2
      <4>6. Entered(new, q)'
        BY <2>3, <3>1, <4>2 DEF Entered
      <4> QED  BY <3>1, <3>3, <4>4, <4>5, <4>6 DEF Has
    <3> QED  BY <3>2, <3>3
  <2>6. Quiet(new)'
    BY <1>12, <2>3, <2>4, <2>5 DEF Quiet, Fit
  <2> QED  BY <2>3, <2>6 DEF Rounds
<1>14. ASSUME \A k \in Group' : local[k] = NoId  PROVE Rounds'
  <2>1. << >> \in Seq(Members) /\ Fit(<< >>)' /\ Present(<< >>)'
    BY DEF Fit, Present
  <2>2. ASSUME NEW q \in Group'
        PROVE  Awaits(q, << >>)'
    <3>1. table[q] = << >> /\ local'[q] = NoId /\ table'[q] = << >>
      BY <1>7, <1>10, <1>14 DEF Has
    <3>2. AfterChange(table'[q], local'[q], log'[LogEnd']) = << >>
      BY <3>1 DEF AfterChange, HasLocal
    <3>3. Has(q, AfterChange(table[q], local[q], log[LogEnd]), << >>)'
      BY <3>1, <3>2 DEF Has, Absent
    <3> QED  BY <1>12, <3>3
  <2>3. Quiet(<< >>)'
    BY <2>1, <2>2 DEF Quiet
  <2> QED  BY <2>1, <2>3 DEF Rounds
<1>15. Rounds'
  BY <1>13, <1>14
<1>16. Reset'
  <2> SUFFICES ASSUME NEW q \in Procs \ Group'
               PROVE  /\ cursor'[q] = 1 /\ outbox'[q] = << >> /\ table'[q] = << >>
                      /\ local'[q] = NoId /\ ~cfgLeading'[q]
    BY DEF Reset
  <2> QED  BY <1>1, <1>7, <1>8 DEF Reset
<1> QED  BY <1>15, <1>16 DEF CalmInv

(* A handler moves one process through the log.                             *)
LEMMA HandlerMoves ==
  ASSUME Typed, Reset, NEW p \in Procs, Handle(p)
  PROVE  /\ p \in Group /\ Group' = Group /\ log' = log /\ phase' = phase /\ LogEnd' = LogEnd
         /\ outbox[p] = << >> /\ cursor[p] \in 1..LogEnd /\ cursor'[p] = cursor[p] + 1
         /\ \A q \in Procs \ {p} :
              /\ cursor'[q] = cursor[q] /\ outbox'[q] = outbox[q] /\ table'[q] = table[q]
              /\ local'[q] = local[q] /\ cfgLeading'[q] = cfgLeading[q]
         /\ Reset'
<1>1. /\ p \in Group /\ log' = log /\ phase' = phase /\ outbox[p] = << >>
      /\ cursor[p] \in DOMAIN log /\ cursor' = [cursor EXCEPT ![p] = cursor[p] + 1]
      /\ \A q \in Procs \ {p} : /\ outbox'[q] = outbox[q] /\ table'[q] = table[q]
                                /\ local'[q] = local[q] /\ cfgLeading'[q] = cfgLeading[q]
  BY HandleStep
<1>2. Group' = Group /\ LogEnd' = LogEnd /\ DOMAIN log = 1..LogEnd
  BY <1>1, CalmFacts DEF Group, LogEnd
<1>3. cursor \in [Procs -> Nat \ {0}]
  BY TypedMeans
<1>4. cursor'[p] = cursor[p] + 1 /\ \A q \in Procs \ {p} : cursor'[q] = cursor[q]
  BY <1>1, <1>3
<1>5. Reset'
  BY <1>1, <1>2, <1>4 DEF Reset
<1> QED  BY <1>1, <1>2, <1>4, <1>5

LEMMA InitCalm == Init => CalmInv
<1> SUFFICES ASSUME Init PROVE CalmInv
  OBVIOUS
<1>1. Typed
  BY InitTyped
<1>2. Group = {}
  BY DEF Init, Group
<1>3. Reset
  BY DEF Init, Reset
<1>4. << >> \in Seq(Members) /\ Quiet(<< >>)
  BY <1>2 DEF Quiet, Fit, Present
<1> QED  BY <1>1, <1>3, <1>4 DEF CalmInv, Rounds

(* Only a change that nobody has started to answer finds somebody starting. *)
LEMMA FinishStartKeepsCalm ==
  ASSUME CalmInv, Typed', NEW p \in Procs, FinishStart(p)
  PROVE  CalmInv'
<1>1. Typed /\ Reset /\ Rounds
  BY DEF CalmInv
<1>2. /\ phase[p] = "starting" /\ phase' = [phase EXCEPT ![p] = "running"]
      /\ log' = log /\ cursor' = cursor /\ outbox' = outbox /\ table' = table
      /\ local' = local /\ cfgLeading' = cfgLeading
  BY DEF FinishStart
<1>3. phase \in [Procs -> {"new", "starting", "running", "gone"}]
  BY <1>1, TypedMeans
<1>4. p \in Group /\ Group' = Group /\ LogEnd' = LogEnd
  BY <1>2, <1>3 DEF Group, LogEnd
<1>5. PICK tbl \in Seq(Members) : Quiet(tbl)
  BY <1>1, <1>2, <1>4 DEF Rounds, NormalJoin, FirstJoin, LostJoin, Round
<1>6. \A e : OneChange(e)' = OneChange(e)
  BY <1>2, <1>4 DEF OneChange
<1>7. ASSUME NEW q \in Group PROVE Awaits(q, tbl)'
  <2>1. Awaits(q, tbl)
    BY <1>5 DEF Quiet
  <2>2. phase'[q] = "starting" => phase[q] = "starting"
    BY <1>2, <1>3, <1>4
  <2>3. Behind(q)' = Behind(q)
    BY <1>2, <1>4 DEF Behind
  <2>4. \A own : Has(q, own, tbl)' = Has(q, own, tbl)
    BY <1>2 DEF Has, Entered, Absent
  <2> QED  BY <1>2, <1>4, <1>6, <2>1, <2>2, <2>3, <2>4 DEF Awaits
<1>8. Present(tbl)'
  BY <1>2, <1>3, <1>4, <1>5 DEF Quiet, Present
<1>9. Quiet(tbl)'
  BY <1>4, <1>5, <1>7, <1>8 DEF Quiet, Fit
<1>10. Reset'
  BY <1>1, <1>2, <1>4 DEF Reset
<1> QED  BY <1>9, <1>10 DEF CalmInv, Rounds

LEMMA QuietHandle ==
  ASSUME Typed, Reset, NEW tbl \in Seq(Members), Quiet(tbl), NEW p \in Procs, Handle(p)
  PROVE  Rounds'
<1>1. /\ p \in Group /\ Group' = Group /\ log' = log /\ phase' = phase /\ LogEnd' = LogEnd
      /\ outbox[p] = << >> /\ cursor[p] \in 1..LogEnd /\ cursor'[p] = cursor[p] + 1
      /\ \A q \in Procs \ {p} :
           /\ cursor'[q] = cursor[q] /\ outbox'[q] = outbox[q] /\ table'[q] = table[q]
           /\ local'[q] = local[q] /\ cfgLeading'[q] = cfgLeading[q]
  BY HandlerMoves
<1>2. LogEnd \in Nat /\ Group \subseteq Procs
  BY CalmFacts
<1>3. PICK e : e = log[LogEnd]
  OBVIOUS
<1>4. /\ cursor[p] = LogEnd /\ Behind(p) /\ LogEnd \in DOMAIN log /\ OneChange(e)
      /\ e.type = "change" /\ log[cursor[p]] = e /\ cursor'[p] = LogEnd + 1
  <2>1. cursor[p] \in {LogEnd, LogEnd + 1}
    BY <1>1 DEF Quiet, Awaits
  <2>2. cursor[p] = LogEnd
    BY <1>1, <1>2, <2>1
  <2> QED  BY <1>1, <1>3, <2>2 DEF Quiet, Awaits, Behind, OneChange
<1>5. /\ Has(p, AfterChange(table[p], local[p], e), tbl)
      /\ phase[p] = "starting" => p \in e.joined
      /\ p \in e.joined => ~cfgLeading[p] /\ e = Change(Group, {}, {p}) /\ local[p] = NoId
  <2>1. Awaits(p, tbl)
    BY <1>1 DEF Quiet
  <2>2. p \in e.joined => e = Change(Group, {}, {p}) /\ local[p] = NoId
    BY <1>4 DEF OneChange, Change
  <2> QED  BY <1>3, <1>4, <2>1, <2>2 DEF Awaits
<1>6. IgnoreWhileStarting(p) \/ HandleChange(p)
  BY <1>4 DEF Handle, HandleLeadingJoin, HandleNormalJoin, HandleWhole, HandleDelta, HandleStatus, Dispatch
<1>7. local' = local
  BY <1>6 DEF IgnoreWhileStarting, HandleChange
<1>8. ASSUME outbox'[p] = << >>, Has(p, table[p], tbl)'
      PROVE  Rounds'
  <2>1. LogEnd \in DOMAIN log' /\ log'[LogEnd'] = e /\ OneChange(e)'
    BY <1>1, <1>3, <1>4, <1>7 DEF OneChange
  <2>2. Awaits(p, tbl)'
    <3>1. ~Behind(p)' /\ cursor'[p] = LogEnd' + 1
      BY <1>1, <1>2, <1>4 DEF Behind
    <3> QED  BY <1>1, <1>5, <1>8, <2>1, <3>1 DEF Awaits
  <2>3. ASSUME NEW q \in Group, q # p PROVE Awaits(q, tbl)'
    <3>1. Awaits(q, tbl)
      BY <2>3 DEF Quiet
    <3>2. Behind(q)' = Behind(q)
      BY <1>1, <1>2, <2>3 DEF Behind
    <3>3. \A own : Has(q, own, tbl)' = Has(q, own, tbl)
      BY <1>7 DEF Has, Entered, Absent
    <3>4. /\ cursor'[q] = cursor[q] /\ outbox'[q] = outbox[q] /\ table'[q] = table[q]
          /\ local'[q] = local[q] /\ cfgLeading'[q] = cfgLeading[q]
      BY <1>1, <1>2, <2>3
    <3> QED  BY <1>1, <1>3, <2>1, <3>1, <3>2, <3>3, <3>4 DEF Awaits
  <2>4. Present(tbl)'
    BY <1>1, <1>7 DEF Quiet, Present
  <2>5. Quiet(tbl)'
    BY <1>1, <2>2, <2>3, <2>4 DEF Quiet, Fit
  <2> QED  BY <2>5 DEF Rounds
<1>9. CASE IgnoreWhileStarting(p)
  <2>1. /\ phase[p] = "starting" /\ outbox' = outbox /\ table' = table
    BY <1>9 DEF IgnoreWhileStarting
  <2>2. e.left = {}
    BY <1>5, <2>1 DEF Change
  <2>3. Has(p, table[p], tbl)
    BY <1>5, <2>2 DEF AfterChange
  <2>4. Has(p, table[p], tbl)'
    BY <1>7, <2>1, <2>3 DEF Has, Entered, Absent
  <2> QED  BY <1>1, <1>8, <2>1, <2>4
<1>10. CASE HandleChange(p) /\ p \notin e.joined
  <2>1. outbox'[p] = << >> /\ table'[p] = AfterChange(table[p], local[p], e)
    BY <1>4, <1>10, TypedMeans DEF HandleChange, Multicast, AfterChange
  <2>2. Has(p, table[p], tbl)'
    BY <1>5, <1>7, <2>1 DEF Has, Entered, Absent
  <2> QED  BY <1>8, <2>1, <2>2
<1>11. CASE HandleChange(p) /\ p \in e.joined
  <2>1. /\ e = Change(Group, {}, {p}) /\ local[p] = NoId /\ ~cfgLeading[p]
        /\ e.members = Group /\ e.left = {} /\ e.joined = {p}
    BY <1>5, <1>11 DEF Change
  <2>2. Absent(tbl, p) /\ table[p] = << >>
    BY <1>5, <2>1 DEF Has, AfterChange
  <2>3. /\ phase[p] = "running" /\ table'[p] = << >>
        /\ outbox'[p] = <<JoinMsg(p, Cardinality({p}) >= Cardinality(Group))>>
    <3>1. /\ phase[p] = "running" /\ table' = [table EXCEPT ![p] = table[p]]
          /\ Multicast(p, <<JoinMsg(p, cfgLeading[p] \/ Cardinality({p}) >= Cardinality(Group))>>)
      BY <1>4, <1>11, <2>1 DEF HandleChange
    <3>2. (cfgLeading[p] \/ Cardinality({p}) >= Cardinality(Group)) = (Cardinality({p}) >= Cardinality(Group))
      BY <2>1
    <3> QED  BY <2>2, <3>1, <3>2, TypedMeans DEF Multicast
  <2>4. Cardinality({p}) >= Cardinality(Group) <=> Group = {p}
    <3>1. IsFiniteSet(Group) /\ Cardinality({p}) = 1 /\ Cardinality(Group) \in Nat
      BY <1>2, MembershipAssumption, FS_Subset, FS_Singleton, FS_CardinalityType
    <3>2. ASSUME Group # {p} PROVE ~(1 >= Cardinality(Group))
      <4>1. PICK q \in Group : q # p
        BY <1>1, <3>2
      <4>2. {p, q} \subseteq Group /\ IsFiniteSet({p, q}) /\ Cardinality({p, q}) = 2
        <5>1. /\ IsFiniteSet({p}) /\ IsFiniteSet({p} \cup {q})
              /\ Cardinality({p} \cup {q}) = Cardinality({p}) + 1
          BY <4>1, FS_Singleton, FS_AddElement
        <5>2. {p} \cup {q} = {p, q}
          OBVIOUS
        <5>3. IsFiniteSet({p, q}) /\ Cardinality({p, q}) = Cardinality({p}) + 1
          BY <5>1, <5>2
        <5>4. p \in Group /\ q \in Group
          BY <1>1, <4>1
        <5>5. {p, q} \subseteq Group
          BY <5>4
        <5> QED  BY <3>1, <5>3, <5>5
      <4>3. Cardinality({p, q}) <= Cardinality(Group)
        BY <3>1, <4>2, FS_Subset
      <4> QED  BY <3>1, <4>2, <4>3
    <3>3. ASSUME Group = {p} PROVE Cardinality({p}) >= Cardinality(Group)
      BY <3>1, <3>3
    <3>4. CASE Group = {p}
      BY <3>3, <3>4
    <3>5. CASE Group # {p}
      BY <3>1, <3>2, <3>5
    <3> QED  BY <3>4, <3>5
  <2>5. /\ Ordered(LogEnd)' = 0 /\ Told(p, LogEnd)' = 1
        /\ \A q \in Group : /\ phase'[q] = "running" /\ Told(q, LogEnd)' \in 0..1
                            /\ q # p => outbox'[q] = << >> /\ Has(q, table'[q], tbl)
    <3>1. Ordered(LogEnd)' = 0 /\ Told(p, LogEnd)' = 1
      BY <1>1, <1>2, <1>4 DEF Ordered, Told
    <3>2. ASSUME NEW q \in Group
          PROVE  /\ phase'[q] = "running" /\ Told(q, LogEnd)' \in 0..1
                 /\ q # p => outbox'[q] = << >> /\ Has(q, table'[q], tbl)
      <4>1. Awaits(q, tbl)
        BY DEF Quiet
      <4>2. phase[q] # "starting" \/ q = p
        BY <1>3, <2>1, <4>1 DEF Awaits
      <4>3. phase'[q] = "running"
        BY <1>1, <2>3, <4>2, CalmFacts
      <4>4. Has(q, table[q], tbl) \/ q = p
        BY <1>3, <2>1, <4>1 DEF Awaits, AfterChange
      <4>5. CASE q = p
        BY <3>1, <4>3, <4>5 DEF Told
      <4>6. CASE q # p
        <5>1. cursor'[q] \in {LogEnd, LogEnd + 1} /\ outbox'[q] = << >> /\ table'[q] = table[q]
          BY <1>1, <1>2, <4>1, <4>6 DEF Awaits
        <5>2. cursor'[q] - LogEnd' \in 0..1
          BY <1>1, <1>2, <5>1
        <5> QED  BY <1>1, <4>3, <4>4, <4>6, <5>1, <5>2 DEF Told
      <4> QED  BY <4>5, <4>6
    <3> QED  BY <3>1, <3>2
  <2> DEFINE c == LogEnd
  <2>6. ASSUME NEW script, Len(script) \in Nat
        PROVE  Round(p, LogEnd, script)'
    BY <1>1, <1>3, <1>4, <2>1, <2>5, <2>6 DEF Round
  <2>7. CASE Group = {p}
    <3>1. outbox'[p] = <<JoinMsg(p, TRUE)>>
      <4>1. (Cardinality({p}) >= Cardinality(Group)) = TRUE
        BY <2>4, <2>7
      <4> QED  BY <2>3, <4>1
    <3>2. Len(<<JoinMsg(p, TRUE), StatusMsg(1, "PREPARED")>>) \in Nat
      OBVIOUS
    <3>3. FirstJoin(p, LogEnd)'
      <4>1. Round(p, LogEnd, <<JoinMsg(p, TRUE), StatusMsg(1, "PREPARED")>>)'
        BY <2>6, <3>2
      <4>2. Group' = {p} /\ local'[p] = NoId /\ table'[p] = << >>
        BY <1>1, <1>7, <2>1, <2>3, <2>7
      <4> QED  BY <2>5, <3>1, <4>1, <4>2 DEF FirstJoin
    <3> QED  BY <1>1, <1>2, <3>3 DEF Rounds
  <2>8. CASE Group # {p}
    <3>1. outbox'[p] = <<JoinMsg(p, FALSE)>>
      <4>1. (Cardinality({p}) >= Cardinality(Group)) = FALSE
        BY <2>4, <2>8
      <4> QED  BY <2>3, <4>1
    <3>2. CASE tbl = << >>
      <4>1. \A q \in Group \ {p} : table'[q] = << >> /\ local'[q] = NoId
        BY <1>7, <2>5, <3>2 DEF Has, Entered
      <4>2. Len(<<JoinMsg(p, FALSE)>>) \in Nat
        OBVIOUS
      <4>3. LostJoin(p, LogEnd)'
        BY <1>1, <1>7, <2>1, <2>3, <2>5, <2>6, <3>1, <4>1, <4>2 DEF LostJoin
      <4> QED  BY <1>1, <1>2, <4>3 DEF Rounds
    <3>3. CASE tbl # << >>
      <4>1. Len(Script(p, tbl)) \in Nat
        BY DEF Script
      <4>2. Round(p, LogEnd, Script(p, tbl))'
        BY <2>6, <4>1
      <4>3. Joiner(p, tbl, LogEnd)'
        <5>1. local'[p] = NoId /\ table'[p] = << >>
          BY <1>7, <2>1, <2>3
        <5> QED  BY <2>5, <3>1, <5>1 DEF Joiner
      <4>4. Present(tbl)'
        BY <1>1, <1>7 DEF Quiet, Present
      <4>5. ASSUME NEW q \in Group \ {p}
            PROVE  (Follower(q, p, tbl, LogEnd) \/ Answerer(q, p, tbl, LogEnd) \/ Bystander(q, tbl))'
        <5>1. Has(q, table'[q], tbl) /\ outbox'[q] = << >> /\ Told(q, LogEnd)' \in 0..1
          BY <2>5
        <5>2. CASE local[q] = NoId
          BY <1>7, <5>1, <5>2 DEF Has, Absent, Bystander
        <5>3. CASE local[q] # NoId
          <6>1. Entered(tbl, q)' /\ table'[q] = tbl
            BY <1>7, <5>1, <5>3 DEF Has, Entered
          <6>2. CASE ~tbl[local[q]].leading
            BY <1>7, <5>1, <6>1, <6>2 DEF Follower
          <6>3. CASE tbl[local[q]].leading
            BY <1>7, <2>5, <5>1, <6>1, <6>3 DEF Answerer
          <6> QED  BY <6>2, <6>3
        <5> QED  BY <5>2, <5>3
      <4>6. NormalJoin(p, tbl, LogEnd)'
        BY <1>1, <2>2, <3>3, <4>2, <4>3, <4>4, <4>5 DEF NormalJoin, Quiet, Fit, Absent
      <4> QED  BY <1>1, <1>2, <4>6 DEF Rounds
    <3> QED  BY <3>2, <3>3
  <2> QED  BY <2>7, <2>8
<1> QED  BY <1>6, <1>9, <1>10, <1>11

(* Nobody has anything to send while all wait for a change.                 *)
LEMMA QuietOrder ==
  ASSUME Reset, NEW tbl, Quiet(tbl), NEW p \in Procs, Order(p)
  PROVE  FALSE
BY DEF Reset, Quiet, Awaits, Order

(* How far a join has got.                                                  *)
LEMMA RoundFacts ==
  ASSUME Typed, NEW p \in Procs, NEW c \in Nat, NEW script, Round(p, c, script)
  PROVE  /\ c \in Nat \ {0} /\ LogEnd \in Nat /\ DOMAIN log = 1..LogEnd /\ Ordered(c) \in Nat
         /\ LogEnd = c + Ordered(c)
         /\ \A q \in Group : /\ q \in Procs /\ phase[q] = "running"
                             /\ Told(q, c) \in Nat /\ Told(q, c) <= Ordered(c) + 1
                             /\ cursor[q] = c + Told(q, c)
<1>1. LogEnd \in Nat /\ DOMAIN log = 1..LogEnd /\ c \in 1..LogEnd
  BY CalmFacts DEF Round
<1>2. LogEnd - c \in Nat /\ LogEnd = c + (LogEnd - c)
  BY <1>1
<1>3. ASSUME NEW q \in Group
      PROVE  /\ q \in Procs /\ phase[q] = "running" /\ Told(q, c) \in Nat
             /\ Told(q, c) <= Ordered(c) + 1 /\ cursor[q] = c + Told(q, c)
  <2>1. q \in Procs /\ cursor[q] \in Nat /\ phase[q] = "running"
    BY <1>3, CalmFacts DEF Round
  <2>2. Told(q, c) \in 0..(Ordered(c) + 1)
    BY DEF Round
  <2>3. cursor[q] = c + (cursor[q] - c)
    BY <1>1, <2>1
  <2>4. Ordered(c) \in Nat
    BY <1>2 DEF Ordered
  <2> QED  BY <2>1, <2>2, <2>3, <2>4 DEF Told
<1> QED  BY <1>1, <1>2, <1>3 DEF Ordered

LEMMA RoundHandled ==
  ASSUME Typed, Reset, NEW p \in Procs, NEW c \in Nat, NEW script, Len(script) \in Nat,
         Round(p, c, script), NEW q \in Procs, Handle(q)
  PROVE  /\ q \in Group /\ phase[q] = "running" /\ outbox[q] = << >>
         /\ Told(q, c) \in 0..Ordered(c) /\ (q = p => Told(q, c) >= 1)
         /\ Told(q, c)' = Told(q, c) + 1 /\ Ordered(c)' = Ordered(c)
         /\ \A x \in Group \ {q} : Told(x, c)' = Told(x, c)
         /\ Round(p, c, script)'
<1>1. /\ q \in Group /\ Group' = Group /\ log' = log /\ phase' = phase /\ LogEnd' = LogEnd
      /\ outbox[q] = << >> /\ cursor[q] \in 1..LogEnd /\ cursor'[q] = cursor[q] + 1
      /\ \A x \in Procs \ {q} : cursor'[x] = cursor[x]
  BY HandlerMoves
<1>2. /\ c \in Nat \ {0} /\ LogEnd \in Nat /\ Ordered(c) \in Nat /\ LogEnd = c + Ordered(c)
      /\ \A x \in Group : /\ x \in Procs /\ phase[x] = "running"
                          /\ Told(x, c) \in Nat /\ Told(x, c) <= Ordered(c) + 1
                          /\ cursor[x] = c + Told(x, c)
  BY RoundFacts
<1>3. Told(q, c) \in Nat /\ Told(q, c) <= Ordered(c) /\ Ordered(c)' = Ordered(c)
  <2>1. c + Told(q, c) <= c + Ordered(c)
    BY <1>1, <1>2
  <2>2. Told(q, c) \in Nat
    BY <1>1, <1>2
  <2> QED  BY <1>1, <1>2, <2>1, <2>2 DEF Ordered
<1>4. Told(q, c)' = Told(q, c) + 1
  <2>1. cursor'[q] = c + Told(q, c) + 1
    BY <1>1, <1>2
  <2> HIDE DEF Told
  <2>2. (c + Told(q, c) + 1) - c = Told(q, c) + 1
    BY <1>2, <1>3
  <2>3. Told(q, c)' = cursor'[q] - c
    BY DEF Told
  <2> QED  BY <2>1, <2>2, <2>3
<1>5. \A x \in Group \ {q} : Told(x, c)' = Told(x, c)
  BY <1>1, <1>2 DEF Told
<1>6. /\ p \in Group /\ c \in DOMAIN log /\ log[c] = Change(Group, {}, {p})
      /\ Ordered(c) <= Len(script) /\ \A i \in 1..Ordered(c) : log[c + i] = script[i]
      /\ Told(p, c) >= 1
  BY DEF Round
<1>8. ASSUME NEW x \in Group PROVE phase'[x] = "running" /\ Told(x, c)' \in 0..(Ordered(c) + 1)
  <2>1. CASE x = q
    <3>1. \A t, k \in Nat : t <= k => t + 1 \in 0..(k + 1)
      OBVIOUS
    <3>2. Told(q, c) + 1 \in 0..(Ordered(c) + 1)
      BY <1>2, <1>3, <3>1
    <3> QED  BY <1>1, <1>2, <1>4, <2>1, <3>2
  <2>2. CASE x # q
    <3>1. Told(x, c) \in 0..(Ordered(c) + 1)
      BY DEF Round
    <3> QED  BY <1>1, <1>2, <1>5, <2>2, <3>1
  <2> QED  BY <2>1, <2>2
<1>9. Told(p, c)' >= 1
  <2>1. CASE p = q
    BY <1>3, <1>4, <2>1
  <2>2. CASE p # q
    BY <1>5, <1>6, <2>2
  <2> QED  BY <2>1, <2>2
<1>10. Round(p, c, script)'
  <2>1. /\ p \in Group' /\ c \in DOMAIN log' /\ log'[c] = Change(Group, {}, {p})'
        /\ Ordered(c)' <= Len(script) /\ \A i \in 1..Ordered(c)' : log'[c + i] = script[i]
    BY <1>1, <1>3, <1>6 DEF Change
  <2>2. \A x \in Group' : phase'[x] = "running" /\ Told(x, c)' \in 0..(Ordered(c)' + 1)
    BY <1>1, <1>3, <1>8
  <2> QED  BY <1>9, <2>1, <2>2 DEF Round
<1> QED  BY <1>1, <1>2, <1>3, <1>4, <1>5, <1>6, <1>10

LEMMA RoundEntry ==
  ASSUME Typed, Reset, NEW p \in Procs, NEW c \in Nat, NEW script, Len(script) \in Nat,
         Round(p, c, script), NEW q \in Procs, Handle(q)
  PROVE  \/ Told(q, c) = 0 /\ log[cursor[q]] = Change(Group, {}, {p})
         \/ Told(q, c) # 0 /\ log[cursor[q]] = script[Told(q, c)]
<1>1. q \in Group /\ Told(q, c) \in 0..Ordered(c)
  BY RoundHandled
<1>2. c \in Nat \ {0} /\ Ordered(c) \in Nat /\ cursor[q] = c + Told(q, c)
  BY <1>1, RoundFacts
<1>3. log[c] = Change(Group, {}, {p}) /\ \A i \in 1..Ordered(c) : log[c + i] = script[i]
  BY DEF Round
<1>4. Told(q, c) = 0 => c + Told(q, c) = c
  BY <1>2
<1>5. Told(q, c) # 0 => Told(q, c) \in 1..Ordered(c)
  BY <1>1, <1>2
<1> QED  BY <1>2, <1>3, <1>4, <1>5

(* The next message of the script is ordered.                               *)
LEMMA RoundOrdered ==
  ASSUME Typed, Reset, NEW p \in Procs, NEW c \in Nat, NEW script, Len(script) \in Nat,
         Round(p, c, script), NEW q \in Procs, Order(q),
         Ordered(c) < Len(script), Head(outbox[q]) = script[Ordered(c) + 1]
  PROVE  /\ Ordered(c)' = Ordered(c) + 1 /\ Group' = Group
         /\ \A x \in Group : Told(x, c)' = Told(x, c)
         /\ Round(p, c, script)'
<1>1. /\ log' = Append(log, Head(outbox[q])) /\ phase' = phase /\ cursor' = cursor
  BY DEF Order
<1>2. /\ c \in Nat \ {0} /\ LogEnd \in Nat /\ DOMAIN log = 1..LogEnd /\ Ordered(c) \in Nat
      /\ LogEnd = c + Ordered(c) /\ \A x \in Group : phase[x] = "running"
  BY RoundFacts
<1>3. /\ log \in Seq(Entries) /\ Head(outbox[q]) \in Entries
  <2>1. outbox[q] \in Seq(Entries) /\ outbox[q] # << >>
    BY TypedMeans DEF Order
  <2> QED  BY <2>1, TypedMeans
<1>4. /\ LogEnd' = LogEnd + 1 /\ DOMAIN log' = 1..(LogEnd + 1)
      /\ \A i \in 1..LogEnd : log'[i] = log[i]
      /\ log'[LogEnd + 1] = script[Ordered(c) + 1]
  BY <1>1, <1>3 DEF LogEnd
<1>5. Ordered(c)' = Ordered(c) + 1
  <2>1. (c + Ordered(c) + 1) - c = Ordered(c) + 1
    BY <1>2
  <2> QED  BY <1>2, <1>4, <2>1 DEF Ordered
<1>6. Group' = Group
  BY <1>1 DEF Group
<1>7. \A x \in Group : Told(x, c)' = Told(x, c)
  BY <1>1 DEF Told
<1>8. Round(p, c, script)'
  <2>1. /\ p \in Group /\ c \in DOMAIN log /\ log[c] = Change(Group, {}, {p})
        /\ \A i \in 1..Ordered(c) : log[c + i] = script[i]
        /\ \A x \in Group : Told(x, c) \in 0..(Ordered(c) + 1) /\ Told(p, c) >= 1
    BY DEF Round
  <2>2. ASSUME NEW i \in 1..(Ordered(c) + 1) PROVE log'[c + i] = script[i]
    <3>1. CASE i = Ordered(c) + 1
      <4>1. c + i = LogEnd + 1
        BY <1>2, <3>1
      <4> QED  BY <1>4, <3>1, <4>1
    <3>2. CASE i # Ordered(c) + 1
      <4>1. i \in 1..Ordered(c) /\ c + i \in 1..LogEnd
        BY <1>2, <3>2
      <4> QED  BY <1>4, <2>1, <4>1
    <3> QED  BY <3>1, <3>2
  <2>3. \A x \in Group : Told(x, c) \in 0..(Ordered(c) + 1 + 1)
    BY <1>2, <2>1
  <2>4. c \in DOMAIN log' /\ log'[c] = Change(Group, {}, {p})'
    <3>1. c \in 1..LogEnd /\ c \in 1..(LogEnd + 1)
      BY <1>2
    <3>2. Change(Group, {}, {p})' = Change(Group, {}, {p})
      BY <1>6 DEF Change
    <3> QED  BY <1>4, <2>1, <3>1, <3>2
  <2>5. Ordered(c) + 1 <= Len(script)
    BY <1>2
  <2>6. \A x \in Group' : phase'[x] = "running" /\ Told(x, c)' \in 0..(Ordered(c)' + 1)
    BY <1>1, <1>2, <1>5, <1>6, <1>7, <2>3
  <2>7. Told(p, c)' >= 1
    BY <1>7, <2>1
  <2> QED  BY <1>5, <1>6, <2>1, <2>2, <2>4, <2>5, <2>6, <2>7 DEF Round
<1> QED  BY <1>5, <1>6, <1>7, <1>8

LEMMA ScriptMeans ==
  ASSUME NEW p, NEW tbl
  PROVE  /\ Len(Script(p, tbl)) = 4
         /\ Script(p, tbl)[1] = JoinMsg(p, FALSE) /\ Script(p, tbl)[2] = WholeMsg(p, tbl)
         /\ Script(p, tbl)[3] = DeltaMsg(p, AddPos(tbl)) /\ Script(p, tbl)[4] = IsTold(p, tbl)
BY DEF Script

(* One member alone leads the table.                                        *)
LEMMA OneAnswerer ==
  ASSUME NEW p, NEW tbl \in Seq(Members), Fit(tbl), NEW c, NEW q, NEW l,
         Answerer(q, p, tbl, c), Answerer(l, p, tbl, c)
  PROVE  q = l
BY DEF Answerer, Entered, Fit

(* What is ordered of the join is the next message of its script.           *)
LEMMA NormalJoinOrder ==
  ASSUME Typed, Reset, NEW tbl \in Seq(Members), NEW p \in Procs, NEW c \in Nat,
         NormalJoin(p, tbl, c), NEW q \in Procs, Order(q)
  PROVE  NormalJoin(p, tbl, c)'
<1> DEFINE script == Script(p, tbl)
           k == Ordered(c)
<1>1. /\ outbox[q] # << >> /\ outbox' = [outbox EXCEPT ![q] = Tail(outbox[q])]
      /\ phase' = phase /\ cursor' = cursor /\ table' = table /\ local' = local
  BY DEF Order
<1>2. q \in Group
  BY <1>1 DEF Reset
<1>3. outbox \in [Procs -> Seq(Entries)]
  BY TypedMeans
<1>4. /\ outbox'[q] = Tail(outbox[q]) /\ \A x \in Procs \ {q} : outbox'[x] = outbox[x]
  BY <1>1, <1>3
<1>5. /\ Fit(tbl) /\ tbl # << >> /\ Present(tbl) /\ \A i \in DOMAIN tbl : tbl[i].proc # p
      /\ Round(p, c, script) /\ Joiner(p, tbl, c)
      /\ \A x \in Group \ {p} :
           Follower(x, p, tbl, c) \/ Answerer(x, p, tbl, c) \/ Bystander(x, tbl)
  BY DEF NormalJoin
<1>6. /\ Len(script) = 4 /\ script[1] = JoinMsg(p, FALSE) /\ script[2] = WholeMsg(p, tbl)
      /\ script[3] = DeltaMsg(p, AddPos(tbl)) /\ script[4] = IsTold(p, tbl)
  BY ScriptMeans
<1>7. /\ k \in Nat /\ Group \subseteq Procs /\ p \in Group
      /\ \A x \in Group : Told(x, c) \in Nat /\ Told(x, c) <= k + 1
  BY <1>5, RoundFacts DEF Round
<1> HIDE DEF script, k
<1>8. \A x \in Group : Entered(tbl, x)' = Entered(tbl, x)
  BY <1>1 DEF Entered
<1>9. ASSUME Round(p, c, script)', Group' = Group, Joiner(p, tbl, c)',
             \A x \in Group \ {p} :
               (Follower(x, p, tbl, c) \/ Answerer(x, p, tbl, c) \/ Bystander(x, tbl))'
      PROVE  NormalJoin(p, tbl, c)'
  <2>1. Present(tbl)'
    BY <1>1, <1>5, <1>9 DEF Present
  <2> QED  BY <1>5, <1>9, <2>1 DEF NormalJoin, script, Fit
<1>10. PICK l \in Group \ {p} : Answerer(l, p, tbl, c)
  BY AnswererThere
<1>11. CASE q = p
  <2>1. k = 0 /\ outbox[p] = <<JoinMsg(p, FALSE)>>
    BY <1>1, <1>5, <1>11 DEF Joiner, k
  <2>2. Head(outbox[q]) = script[k + 1] /\ outbox'[p] = << >> /\ k < 4
    <3>1. \A a : Head(<<a>>) = a /\ Tail(<<a>>) = << >>
      OBVIOUS
    <3>2. outbox[q] = <<script[1]>>
      BY <1>6, <1>11, <2>1
    <3>3. k + 1 = 1 /\ k < 4
      BY <2>1
    <3>4. Head(outbox[q]) = script[k + 1]
      BY <3>1, <3>2, <3>3
    <3>5. Tail(outbox[q]) = << >>
      BY <3>1, <3>2
    <3> QED  BY <1>4, <1>11, <3>3, <3>4, <3>5
  <2>3. /\ Ordered(c)' = 1 /\ Group' = Group /\ \A x \in Group : Told(x, c)' = Told(x, c)
        /\ Round(p, c, script)'
    BY <1>5, <1>6, <2>1, <2>2, RoundOrdered DEF k
  <2>4. Joiner(p, tbl, c)'
    <3>1. /\ local[p] = IF Told(p, c) >= 4 THEN AddPos(tbl) ELSE NoId
          /\ table[p] = IF Told(p, c) <= 2 THEN << >> ELSE IF Told(p, c) = 3 THEN tbl
                ELSE IF Told(p, c) = 4 THEN WithJoined(p, tbl) ELSE WithPrepared(p, tbl)
      BY <1>5 DEF Joiner
    <3>2. Told(p, c)' = Told(p, c) /\ local'[p] = local[p] /\ table'[p] = table[p]
      BY <1>1, <1>7, <2>3
    <3>3. outbox'[p] = << >> /\ Ordered(c)' # 0
      BY <2>2, <2>3
    <3> QED  BY <3>1, <3>2, <3>3 DEF Joiner
  <2>5. ASSUME NEW x \in Group \ {p}
        PROVE  (Follower(x, p, tbl, c) \/ Answerer(x, p, tbl, c) \/ Bystander(x, tbl))'
    <3>1. outbox'[x] = outbox[x] /\ Told(x, c)' = Told(x, c)
      BY <1>4, <1>7, <1>11, <2>3
    <3>2. CASE Follower(x, p, tbl, c)
      BY <1>1, <1>8, <3>1, <3>2 DEF Follower
    <3>3. CASE Bystander(x, tbl)
      BY <1>1, <3>1, <3>3 DEF Bystander, Absent
    <3>4. CASE Answerer(x, p, tbl, c)
      <4>1. Told(x, c) \in {0, 1}
        BY <1>7, <2>1
      <4>2. outbox[x] = << >>
        BY <3>4, <4>1 DEF Answerer
      <4> QED  BY <1>1, <1>8, <2>3, <3>1, <3>4, <4>1, <4>2 DEF Answerer
    <3> QED  BY <1>5, <3>2, <3>3, <3>4
  <2> QED  BY <1>9, <2>3, <2>4, <2>5
<1>12. CASE q # p
  <2>1. Answerer(q, p, tbl, c)
    BY <1>1, <1>2, <1>5, <1>12 DEF Follower, Bystander
  <2>2. \/ k = 1 /\ Told(q, c) = 2 /\ outbox[q] = <<script[2], script[3]>>
        \/ k = 2 /\ Told(q, c) \in {2, 3} /\ outbox[q] = <<script[3]>>
        \/ k = 3 /\ Told(q, c) = 4 /\ outbox[q] = <<script[4]>>
    <3>1. Told(q, c) = 3 => k # 1
      BY <1>2, <1>7
    <3> QED  BY <1>1, <1>6, <2>1, <3>1 DEF Answerer, k
  <2>3. Head(outbox[q]) = script[k + 1] /\ k < 4 /\ k \in 1..3
    <3>1. \A a, b : Head(<<a>>) = a /\ Head(<<a, b>>) = a
      OBVIOUS
    <3> QED  BY <2>2, <3>1
  <2>4. /\ Ordered(c)' = k + 1 /\ Group' = Group /\ \A x \in Group : Told(x, c)' = Told(x, c)
        /\ Round(p, c, script)'
    <3>1. Len(script) \in Nat /\ Ordered(c) < Len(script)
      BY <1>6, <2>3 DEF k
    <3>2. Head(outbox[q]) = script[Ordered(c) + 1]
      BY <2>3 DEF k
    <3> QED  BY <1>5, <3>1, <3>2, RoundOrdered DEF k
  <2>5. Joiner(p, tbl, c)'
    <3>1. outbox'[p] = outbox[p] /\ Told(p, c)' = Told(p, c)
      BY <1>4, <1>7, <1>12, <2>4
    <3>2. Ordered(c)' # 0 /\ Ordered(c) # 0
      BY <2>3, <2>4 DEF k
    <3> QED  BY <1>1, <1>5, <3>1, <3>2 DEF Joiner
  <2>6. outbox'[q] = IF k = 1 THEN <<script[3]>> ELSE << >>
    <3>1. \A a, b : Tail(<<a>>) = << >> /\ Tail(<<a, b>>) = <<b>>
      OBVIOUS
    <3>2. CASE k = 1
      <4>1. outbox[q] = <<script[2], script[3]>>
        BY <2>2, <3>2
      <4> QED  BY <1>4, <3>1, <3>2, <4>1
    <3>3. CASE k # 1
      <4>1. outbox[q] = <<script[3]>> \/ outbox[q] = <<script[4]>>
        BY <2>2, <3>3
      <4> QED  BY <1>4, <3>1, <3>3, <4>1
    <3> QED  BY <3>2, <3>3
  <2>7. Answerer(q, p, tbl, c)'
    <3>1. Told(q, c)' = Told(q, c)
      BY <1>2, <2>4
    <3>2. /\ Entered(tbl, q)' /\ tbl[local'[q]].leading
          /\ table'[q] = IF Told(q, c)' <= 1 THEN tbl ELSE IF Told(q, c)' <= 3 THEN TakePos(tbl)
                ELSE IF Told(q, c)' = 4 THEN WithJoined(p, tbl) ELSE WithPrepared(p, tbl)
      BY <1>1, <1>2, <1>8, <2>1, <3>1 DEF Answerer
    <3>3. \/ Ordered(c)' = 2 /\ Told(q, c)' = 2 /\ outbox'[q] = <<DeltaMsg(p, AddPos(tbl))>>
          \/ Ordered(c)' = 3 /\ Told(q, c)' \in {2, 3} /\ outbox'[q] = << >>
          \/ Ordered(c)' = 4 /\ Told(q, c)' = 4 /\ outbox'[q] = << >>
      BY <1>6, <2>2, <2>4, <2>6, <3>1
    <3> QED  BY <3>2, <3>3 DEF Answerer
  <2>8. ASSUME NEW x \in Group \ {p}
        PROVE  (Follower(x, p, tbl, c) \/ Answerer(x, p, tbl, c) \/ Bystander(x, tbl))'
    <3>1. CASE x = q
      BY <2>7, <3>1
    <3>2. CASE x # q
      <4>1. outbox'[x] = outbox[x] /\ Told(x, c)' = Told(x, c)
        BY <1>4, <1>7, <2>4, <3>2
      <4>2. CASE Follower(x, p, tbl, c)
        BY <1>1, <1>8, <4>1, <4>2 DEF Follower
      <4>3. CASE Bystander(x, tbl)
        BY <1>1, <4>1, <4>3 DEF Bystander, Absent
      <4>4. ~Answerer(x, p, tbl, c)
        BY <1>5, <2>1, <3>2, OneAnswerer
      <4> QED  BY <1>5, <4>2, <4>3, <4>4
    <3> QED  BY <3>1, <3>2
  <2> QED  BY <1>9, <2>4, <2>5, <2>8
<1> QED  BY <1>11, <1>12

(* Whoever dispatches the next entry of the join does its part.             *)
LEMMA ChangeHandled ==
  ASSUME Typed, Reset, Calm, NEW tbl \in Seq(Members), NEW p \in Procs, NEW c \in Nat,
         NormalJoin(p, tbl, c), NEW q \in Procs, Handle(q),
         Told(q, c) = 0
  PROVE  /\ outbox[q] = << >> /\ q # p
         /\ log[cursor[q]].left = {} /\ log[cursor[q]].joined = {p} /\ HandleChange(q)
<1>20. PICK script : script = Script(p, tbl)
  OBVIOUS
<1>21. Len(script) = 4
  BY <1>20, ScriptMeans
<1>1. Round(p, c, script) /\ Len(script) \in Nat
  BY <1>20, <1>21 DEF NormalJoin
<1>2. PICK e \in Entries : e = log[cursor[q]]
  BY HandleStep, TypedMeans
<1>3. /\ phase[q] = "running" /\ outbox[q] = << >> /\ q # p
      /\ e = Change(Group, {}, {p})
  <2>1. log[cursor[q]] = Change(Group, {}, {p})
    BY <1>1, RoundEntry
  <2>2. phase[q] = "running" /\ outbox[q] = << >>
    BY <1>1, RoundHandled
  <2>3. q = p => Told(q, c) >= 1
    BY <1>1, RoundHandled
  <2>4. ~(0 >= 1)
    OBVIOUS
  <2> QED  BY <1>2, <2>1, <2>2, <2>3, <2>4
<1>6. HandleChange(q) \/ HandleLeadingJoin(q) \/ HandleNormalJoin(q)
      \/ HandleWhole(q) \/ HandleDelta(q) \/ HandleStatus(q)
  BY <1>3 DEF Handle, IgnoreWhileStarting
<1>7. /\ HandleChange(q) => e.type = "change"
      /\ HandleLeadingJoin(q) => e.type = "member" /\ e.leading
      /\ HandleNormalJoin(q) => e.type = "member"
      /\ HandleWhole(q) => e.type = "whole"
      /\ HandleDelta(q) => e.type = "delta"
      /\ HandleStatus(q) => e.type = "status"
  BY <1>2 DEF HandleChange, HandleLeadingJoin, HandleNormalJoin, HandleWhole, HandleDelta,
              HandleStatus, Dispatch
<1>8. e.type = "change" /\ e.left = {} /\ e.joined = {p} /\ q # p
  BY <1>3 DEF Change
<1>9. HandleChange(q)
  BY <1>6, <1>7, <1>8
<1> QED  BY <1>2, <1>3, <1>8, <1>9

LEMMA EntryHandled ==
  ASSUME Typed, Reset, Calm, NEW tbl \in Seq(Members), NEW p \in Procs, NEW c \in Nat,
         NormalJoin(p, tbl, c), NEW q \in Procs, Handle(q)
  PROVE  \E e \in Entries :
           /\ e = log[cursor[q]] /\ outbox[q] = << >> /\ (IsLocalMember(q, p) <=> q = p)
           /\ Told(q, c) = 1 => e.type = "member" /\ ~e.leading /\ e.proc = p /\ HandleNormalJoin(q)
           /\ Told(q, c) = 2 => e.type = "whole" /\ e.table = tbl /\ e.proc = p /\ HandleWhole(q)
           /\ Told(q, c) = 3 => e.type = "delta" /\ e.pos = AddPos(tbl) /\ e.proc = p /\ HandleDelta(q)
           /\ Told(q, c) = 4 => /\ e.type = "status" /\ e.pos = AddPos(tbl)
                                /\ e.state = "PREPARED" /\ HandleStatus(q)
<1>20. PICK script : script = Script(p, tbl)
  OBVIOUS
<1>21. /\ Len(script) = 4 /\ script[1] = JoinMsg(p, FALSE) /\ script[2] = WholeMsg(p, tbl)
       /\ script[3] = DeltaMsg(p, AddPos(tbl)) /\ script[4] = IsTold(p, tbl)
  BY <1>20, ScriptMeans
<1>1. Round(p, c, script) /\ Len(script) \in Nat
  BY <1>20, <1>21 DEF NormalJoin
<1>2. PICK e \in Entries : e = log[cursor[q]]
  BY HandleStep, TypedMeans
<1>3. /\ phase[q] = "running" /\ outbox[q] = << >> /\ (q = p => Told(q, c) >= 1)
      /\ e = IF Told(q, c) = 0 THEN Change(Group, {}, {p}) ELSE script[Told(q, c)]
  <2>1. /\ Told(q, c) = 0 => log[cursor[q]] = Change(Group, {}, {p})
        /\ Told(q, c) # 0 => log[cursor[q]] = script[Told(q, c)]
    <3>1. Told(q, c) = 0 => log[cursor[q]] = Change(Group, {}, {p})
      BY <1>1, RoundEntry
    <3>2. ASSUME Told(q, c) # 0 PROVE log[cursor[q]] = script[Told(q, c)]
      BY <1>1, <3>2, RoundEntry
    <3> QED  BY <3>1, <3>2
  <2>2. phase[q] = "running" /\ outbox[q] = << >>
    BY <1>1, RoundHandled
  <2>3. q = p => Told(q, c) >= 1
    BY <1>1, RoundHandled
  <2> QED  BY <1>2, <2>1, <2>2, <2>3
<1>5. IsLocalMember(q, p) <=> q = p
  BY DEF Calm, IsLocalMember
<1>6. HandleChange(q) \/ HandleLeadingJoin(q) \/ HandleNormalJoin(q)
      \/ HandleWhole(q) \/ HandleDelta(q) \/ HandleStatus(q)
  BY <1>3 DEF Handle, IgnoreWhileStarting
<1>7. /\ HandleChange(q) => e.type = "change"
      /\ HandleLeadingJoin(q) => e.type = "member" /\ e.leading
      /\ HandleNormalJoin(q) => e.type = "member"
      /\ HandleWhole(q) => e.type = "whole"
      /\ HandleDelta(q) => e.type = "delta"
      /\ HandleStatus(q) => e.type = "status"
  BY <1>2 DEF HandleChange, HandleLeadingJoin, HandleNormalJoin, HandleWhole, HandleDelta,
              HandleStatus, Dispatch
<1>11. ASSUME Told(q, c) = 1
       PROVE  e.type = "member" /\ ~e.leading /\ e.proc = p /\ HandleNormalJoin(q)
  <2>1. e = JoinMsg(p, FALSE)
    BY <1>3, <1>11, <1>21
  <2>2. e.type = "member" /\ ~e.leading /\ e.proc = p
    BY <2>1 DEF JoinMsg
  <2> QED  BY <1>6, <1>7, <2>2
<1>12. ASSUME Told(q, c) = 2
       PROVE  e.type = "whole" /\ e.table = tbl /\ e.proc = p /\ HandleWhole(q)
  <2>1. e = WholeMsg(p, tbl)
    BY <1>3, <1>12, <1>21
  <2>2. e.type = "whole" /\ e.table = tbl /\ e.proc = p
    BY <2>1 DEF WholeMsg
  <2> QED  BY <1>6, <1>7, <2>2
<1>13. ASSUME Told(q, c) = 3
       PROVE  e.type = "delta" /\ e.pos = AddPos(tbl) /\ e.proc = p /\ HandleDelta(q)
  <2>1. e = DeltaMsg(p, AddPos(tbl))
    BY <1>3, <1>13, <1>21
  <2>2. e.type = "delta" /\ e.pos = AddPos(tbl) /\ e.proc = p
    BY <2>1 DEF DeltaMsg
  <2> QED  BY <1>6, <1>7, <2>2
<1>14. ASSUME Told(q, c) = 4
       PROVE  /\ e.type = "status" /\ e.pos = AddPos(tbl)
              /\ e.state = "PREPARED" /\ HandleStatus(q)
  <2>1. e = StatusMsg(AddPos(tbl), "PREPARED")
    BY <1>3, <1>14, <1>21 DEF IsTold
  <2>2. e.type = "status" /\ e.pos = AddPos(tbl) /\ e.state = "PREPARED"
    BY <2>1 DEF StatusMsg
  <2> QED  BY <1>6, <1>7, <2>2
<1> QED  BY <1>2, <1>3, <1>5, <1>11, <1>12, <1>13, <1>14

LEMMA HandlesChange ==
  ASSUME Typed, Reset, Calm, NEW tbl \in Seq(Members), NEW p \in Procs, NEW c \in Nat,
         NormalJoin(p, tbl, c), NEW q \in Procs, Handle(q),
         Told(q, c) = 0
  PROVE  /\ q # p /\ outbox'[q] = << >>
         /\ table'[q] = table[q] /\ local'[q] = local[q]
<1>3. PICK e : e = log[cursor[q]]
  OBVIOUS
<1>4. /\ outbox[q] = << >> /\ q # p
      /\ log[cursor[q]].left = {} /\ log[cursor[q]].joined = {p} /\ HandleChange(q)
  BY ChangeHandled
<1>1. /\ e = log[cursor[q]] /\ outbox[q] = << >>
      /\ e.left = {} /\ e.joined = {p} /\ q # p /\ HandleChange(q)
  BY <1>3, <1>4
<1>2. /\ outbox \in [Procs -> Seq(Entries)] /\ table \in [Procs -> Seq(Members)]
      /\ local \in [Procs -> Nat]
  BY TypedMeans
<1> QED  BY <1>1, <1>2 DEF HandleChange, Multicast

LEMMA HandlesNormalJoin ==
  ASSUME Typed, Reset, Calm, NEW tbl \in Seq(Members), NEW p \in Procs, NEW c \in Nat,
         NormalJoin(p, tbl, c), NEW q \in Procs, Handle(q),
         Told(q, c) = 1
  PROVE  /\ local'[q] = local[q]
         /\ Leads(table[q], local[q]) =>
              /\ outbox'[q] = <<WholeMsg(p, table[q]), DeltaMsg(p, AddPos(table[q]))>>
              /\ table'[q] = TakePos(table[q])
         /\ ~Leads(table[q], local[q]) => outbox'[q] = << >> /\ table'[q] = table[q]
<1>1. PICK e \in Entries :
        /\ e = log[cursor[q]] /\ outbox[q] = << >>
        /\ (IsLocalMember(q, p) <=> q = p)
        /\ ~e.leading /\ e.proc = p /\ HandleNormalJoin(q)
  BY EntryHandled
<1>2. /\ outbox \in [Procs -> Seq(Entries)] /\ table \in [Procs -> Seq(Members)]
      /\ local \in [Procs -> Nat]
  BY TypedMeans
<1> QED  BY <1>1, <1>2 DEF HandleNormalJoin, Multicast

LEMMA HandlesWhole ==
  ASSUME Typed, Reset, Calm, NEW tbl \in Seq(Members), NEW p \in Procs, NEW c \in Nat,
         NormalJoin(p, tbl, c), NEW q \in Procs, Handle(q),
         Told(q, c) = 2
  PROVE  /\ local'[q] = local[q] /\ outbox'[q] = << >>
         /\ table'[q] = IF q = p THEN table[q] \o tbl ELSE table[q]
<1>1. PICK e \in Entries :
        /\ e = log[cursor[q]] /\ outbox[q] = << >>
        /\ (IsLocalMember(q, p) <=> q = p)
        /\ e.table = tbl /\ e.proc = p /\ HandleWhole(q)
  BY EntryHandled
<1>2. /\ outbox \in [Procs -> Seq(Entries)] /\ table \in [Procs -> Seq(Members)]
      /\ local \in [Procs -> Nat]
  BY TypedMeans
<1> QED  BY <1>1, <1>2 DEF HandleWhole

LEMMA HandlesDelta ==
  ASSUME Typed, Reset, Calm, NEW tbl \in Seq(Members), NEW p \in Procs, NEW c \in Nat,
         NormalJoin(p, tbl, c), NEW q \in Procs, Handle(q),
         Told(q, c) = 3
  PROVE  /\ table[q] = << >> => outbox'[q] = << >> /\ table'[q] = << >> /\ local'[q] = local[q]
         /\ table[q] # << >> =>
              /\ table'[q] = PutMember(table[q], p, FALSE, "JOINED", AddPos(tbl))
              /\ q = p => local'[q] = AddPos(tbl)
              /\ q # p => local'[q] = local[q]
              /\ outbox'[q] = IF Leads(table'[q], local'[q]) THEN <<IsTold(p, tbl)>> ELSE << >>
<1>1. PICK e \in Entries :
        /\ e = log[cursor[q]] /\ outbox[q] = << >>
        /\ (IsLocalMember(q, p) <=> q = p)
        /\ e.pos = AddPos(tbl) /\ e.proc = p /\ HandleDelta(q)
  BY EntryHandled
<1>2. /\ outbox \in [Procs -> Seq(Entries)] /\ table \in [Procs -> Seq(Members)]
      /\ local \in [Procs -> Nat]
  BY TypedMeans
<1>3. ASSUME table[q] = << >>
      PROVE  outbox'[q] = << >> /\ table'[q] = << >> /\ local'[q] = local[q]
  BY <1>1, <1>3 DEF HandleDelta
<1>4. ASSUME table[q] # << >>
      PROVE  /\ table'[q] = PutMember(table[q], p, FALSE, "JOINED", AddPos(tbl))
             /\ q = p => local'[q] = AddPos(tbl)
             /\ q # p => local'[q] = local[q]
             /\ outbox'[q] = IF Leads(table'[q], local'[q]) THEN <<IsTold(p, tbl)>> ELSE << >>
  <2>1. PICK put, id : /\ put = PutMember(table[q], p, FALSE, "JOINED", AddPos(tbl))
                       /\ id = IF q = p THEN AddPos(tbl) ELSE local[q]
    OBVIOUS
  <2>2. /\ table' = [table EXCEPT ![q] = put] /\ local' = [local EXCEPT ![q] = id]
        /\ MemberJoined(q, put, id, AddPos(tbl))
    BY <1>1, <1>4, <2>1 DEF HandleDelta
  <2> QED  BY <1>2, <2>1, <2>2 DEF MemberJoined, Multicast, IsTold
<1> QED  BY <1>3, <1>4

LEMMA HandlesStatus ==
  ASSUME Typed, Reset, Calm, NEW tbl \in Seq(Members), NEW p \in Procs, NEW c \in Nat,
         NormalJoin(p, tbl, c), NEW q \in Procs, Handle(q),
         Told(q, c) = 4
  PROVE  /\ local'[q] = local[q] /\ outbox'[q] = << >>
         /\ table'[q] = IF HasLocal(table[q], local[q]) /\ AddPos(tbl) <= Len(table[q])
                        THEN SetState(table[q], AddPos(tbl), "PREPARED") ELSE table[q]
<1>1. PICK e \in Entries :
        /\ e = log[cursor[q]] /\ outbox[q] = << >>
        /\ (IsLocalMember(q, p) <=> q = p)
        /\ e.pos = AddPos(tbl) /\ e.state = "PREPARED" /\ HandleStatus(q)
  BY EntryHandled
<1>2. /\ outbox \in [Procs -> Seq(Entries)] /\ table \in [Procs -> Seq(Members)]
      /\ local \in [Procs -> Nat]
  BY TypedMeans
<1> QED  BY <1>1, <1>2 DEF HandleStatus

(* What the table of a member has to be after that.                         *)
LEMMA MemberHandles ==
  ASSUME NEW tbl \in Seq(Members), Fit(tbl), tbl # << >>, NEW p \in Procs
  PROVE  LET pos == AddPos(tbl)
             joined == WithJoined(p, tbl)
         IN /\ << >> \o tbl = tbl
            /\ PutMember(tbl, p, FALSE, "JOINED", pos) = joined
            /\ PutMember(TakePos(tbl), p, FALSE, "JOINED", pos) = joined
            /\ ~Leads(joined, pos) /\ HasLocal(joined, pos) /\ pos <= Len(joined)
            /\ SetState(joined, pos, "PREPARED") = WithPrepared(p, tbl)
            /\ \A i \in Nat : ~HasLocal(<< >>, i)
            /\ pos # NoId
<1> DEFINE pos == AddPos(tbl)
           joined == WithJoined(p, tbl)
<1>1. /\ pos \in Nat \ {NoId} /\ joined \in Seq(Members) /\ pos \in DOMAIN joined
      /\ joined[pos].leading = FALSE
  <2>1. /\ pos \in Nat \ {NoId} /\ joined \in Seq(Members) /\ DOMAIN joined = DOMAIN tbl \cup {pos}
        /\ joined[pos] = [proc |-> p, id |-> pos, state |-> "JOINED", leading |-> FALSE]
    BY JoinedTable
  <2> QED  BY <2>1
<1>10. /\ PutMember(tbl, p, FALSE, "JOINED", pos) = joined
       /\ SetState(joined, pos, "PREPARED") = WithPrepared(p, tbl)
  BY DEF WithJoined, WithPrepared
<1>2. pos <= Len(joined) /\ HasLocal(joined, pos) /\ ~Leads(joined, pos)
  BY <1>1 DEF HasLocal, Leads
<1>3. PutMember(TakePos(tbl), p, FALSE, "JOINED", pos) = joined
  BY TakenThenPut
<1>4. << >> \o tbl = tbl
  OBVIOUS
<1>5. \A i \in Nat : ~HasLocal(<< >>, i)
  BY DEF HasLocal, NoId
<1> HIDE DEF pos, joined
<1> QED  BY <1>1, <1>2, <1>3, <1>4, <1>5, <1>10 DEF pos, joined

(* The joiner, a member that follows and the one that leads, each at its    *)
(* next entry.                                                              *)
LEMMA JoinerHandles ==
  ASSUME Typed, Reset, Calm, NEW tbl \in Seq(Members), NEW p \in Procs, NEW c \in Nat,
         NormalJoin(p, tbl, c), Handle(p)
  PROVE  Joiner(p, tbl, c)'
<1> DEFINE t == Told(p, c)
           pos == AddPos(tbl)
<1>1. /\ outbox[p] = << >> /\ t \in 1..4 /\ Told(p, c)' = t + 1 /\ Ordered(c)' = Ordered(c)
      /\ Ordered(c) # 0
  <2>1. PICK script : script = Script(p, tbl)
    OBVIOUS
  <2>2. Len(script) = 4 /\ Round(p, c, script) /\ Len(script) \in Nat
    <3>1. Len(script) = 4
      BY <2>1, ScriptMeans
    <3> QED  BY <2>1, <3>1 DEF NormalJoin
  <2>3. /\ outbox[p] = << >> /\ Told(p, c) \in 0..Ordered(c)
        /\ Told(p, c)' = Told(p, c) + 1 /\ Ordered(c)' = Ordered(c)
    BY <2>2, RoundHandled
  <2>4. Told(p, c) >= 1
    BY <2>2 DEF Round
  <2>5. Ordered(c) \in Nat /\ Ordered(c) <= 4
    BY <2>2, RoundFacts DEF Round
  <2> QED  BY <2>3, <2>4, <2>5
<1>2. /\ local[p] = IF t >= 4 THEN pos ELSE NoId
      /\ table[p] = IF t <= 2 THEN << >> ELSE IF t = 3 THEN tbl
                ELSE IF t = 4 THEN WithJoined(p, tbl) ELSE WithPrepared(p, tbl)
  BY DEF NormalJoin, Joiner
<1>3. /\ Fit(tbl) /\ tbl # << >>
  BY DEF NormalJoin
<1>4. /\ << >> \o tbl = tbl
      /\ PutMember(tbl, p, FALSE, "JOINED", pos) = WithJoined(p, tbl)
      /\ ~Leads(WithJoined(p, tbl), pos) /\ HasLocal(WithJoined(p, tbl), pos)
      /\ pos <= Len(WithJoined(p, tbl))
      /\ SetState(WithJoined(p, tbl), pos, "PREPARED") = WithPrepared(p, tbl)
  BY <1>3, MemberHandles
<1>5. ASSUME outbox'[p] = << >>, local'[p] = IF t >= 3 THEN pos ELSE NoId,
             table'[p] = IF t = 1 THEN << >> ELSE IF t = 2 THEN tbl
                         ELSE IF t = 3 THEN WithJoined(p, tbl) ELSE WithPrepared(p, tbl)
      PROVE  Joiner(p, tbl, c)'
  <2>1. /\ t + 1 >= 4 <=> t >= 3
        /\ t + 1 <= 2 <=> t = 1
        /\ t + 1 = 3 <=> t = 2
        /\ t + 1 = 4 <=> t = 3
    BY <1>1
  <2> HIDE DEF t
  <2> QED  BY <1>1, <1>5, <2>1 DEF Joiner, pos
<1>6. CASE t = 1
  <2>1. ~Leads(table[p], local[p])
    BY <1>2, <1>6 DEF Leads, HasLocal
  <2>2. local'[p] = local[p] /\ outbox'[p] = << >> /\ table'[p] = table[p]
    BY <1>6, <2>1, HandlesNormalJoin
  <2> QED  BY <1>2, <1>5, <1>6, <2>2
<1>7. CASE t = 2
  <2>1. local'[p] = local[p] /\ outbox'[p] = << >> /\ table'[p] = table[p] \o tbl
    <3>1. Told(p, c) = 2
      BY <1>7
    <3>2. /\ local'[p] = local[p] /\ outbox'[p] = << >>
          /\ table'[p] = IF p = p THEN table[p] \o tbl ELSE table[p]
      BY <3>1, HandlesWhole
    <3> QED  BY <3>2
  <2> QED  BY <1>2, <1>4, <1>5, <1>7, <2>1
<1>8. CASE t = 3
  <2>1. table[p] = tbl
    BY <1>2, <1>8
  <2>2. /\ table'[p] = PutMember(tbl, p, FALSE, "JOINED", pos) /\ local'[p] = pos
        /\ outbox'[p] = IF Leads(table'[p], local'[p])
                        THEN <<IsTold(p, tbl)>> ELSE << >>
    BY <1>3, <1>8, <2>1, HandlesDelta
  <2>3. table'[p] = WithJoined(p, tbl) /\ local'[p] = pos /\ outbox'[p] = << >>
    BY <1>4, <2>2
  <2> QED  BY <1>5, <1>8, <2>3
<1>9. CASE t = 4
  <2>1. table[p] = WithJoined(p, tbl) /\ local[p] = pos
    BY <1>2, <1>9
  <2>2. /\ local'[p] = local[p] /\ outbox'[p] = << >>
        /\ table'[p] = IF HasLocal(table[p], local[p]) /\ pos <= Len(table[p])
                       THEN SetState(table[p], pos, "PREPARED") ELSE table[p]
    BY <1>9, HandlesStatus
  <2>3. table'[p] = WithPrepared(p, tbl)
    BY <1>4, <2>1, <2>2
  <2> QED  BY <1>5, <1>9, <2>1, <2>2, <2>3
<1> QED  BY <1>1, <1>6, <1>7, <1>8, <1>9

LEMMA MemberHandlesJoin ==
  ASSUME Typed, Reset, Calm, NEW tbl \in Seq(Members), NEW p \in Procs, NEW c \in Nat,
         NormalJoin(p, tbl, c), NEW q \in Procs, q # p, Handle(q)
  PROVE  (Follower(q, p, tbl, c) \/ Answerer(q, p, tbl, c) \/ Bystander(q, tbl))'
         /\ local'[q] = local[q]
<1> DEFINE t == Told(q, c)
           k == Ordered(c)
           pos == AddPos(tbl)
<1>1. /\ outbox[q] = << >> /\ t \in 0..4 /\ t <= k /\ k \in 0..4
      /\ Told(q, c)' = t + 1 /\ Ordered(c)' = k /\ q \in Group
  <2>1. PICK script : script = Script(p, tbl)
    OBVIOUS
  <2>2. Len(script) = 4 /\ Round(p, c, script) /\ Len(script) \in Nat
    <3>1. Len(script) = 4
      BY <2>1, ScriptMeans
    <3> QED  BY <2>1, <3>1 DEF NormalJoin
  <2>3. /\ outbox[q] = << >> /\ Told(q, c) \in 0..Ordered(c) /\ q \in Group
        /\ Told(q, c)' = Told(q, c) + 1 /\ Ordered(c)' = Ordered(c)
    BY <2>2, RoundHandled
  <2>4. Ordered(c) \in Nat /\ Ordered(c) <= 4
    BY <2>2, RoundFacts DEF Round
  <2> QED  BY <2>3, <2>4
<1>2. Fit(tbl) /\ tbl # << >>
  BY DEF NormalJoin
<1>3. /\ PutMember(tbl, p, FALSE, "JOINED", pos) = WithJoined(p, tbl)
      /\ PutMember(TakePos(tbl), p, FALSE, "JOINED", pos) = WithJoined(p, tbl)
      /\ pos <= Len(WithJoined(p, tbl))
      /\ SetState(WithJoined(p, tbl), pos, "PREPARED") = WithPrepared(p, tbl)
      /\ \A i \in Nat : ~HasLocal(<< >>, i)
  BY <1>2, MemberHandles
<1>4. local[q] \in Nat
  BY CalmFacts
<1> HIDE DEF t, k, pos
<1>11. local'[q] = local[q]
  <2>1. CASE t = 0
    BY <2>1, HandlesChange DEF t
  <2>2. CASE t = 1
    BY <2>2, HandlesNormalJoin DEF t
  <2>3. CASE t = 2
    BY <2>3, HandlesWhole DEF t
  <2>4. CASE t = 3
    BY <2>4, HandlesDelta DEF t
  <2>5. CASE t = 4
    BY <2>5, HandlesStatus DEF t
  <2> QED  BY <1>1, <2>1, <2>2, <2>3, <2>4, <2>5
<1>5. CASE Bystander(q, tbl)
  <2>1. table[q] = << >> /\ ~HasLocal(table[q], local[q]) /\ ~Leads(table[q], local[q])
    BY <1>3, <1>4, <1>5 DEF Bystander, Leads
  <2>2. local'[q] = local[q] /\ outbox'[q] = << >> /\ table'[q] = table[q]
    <3>1. t \in {0, 1, 2, 3, 4}
      BY <1>1
    <3>2. CASE t = 0
      BY <2>1, <3>2, HandlesChange DEF t
    <3>3. CASE t = 1
      BY <2>1, <3>3, HandlesNormalJoin DEF t
    <3>4. CASE t = 2
      BY <2>1, <3>4, HandlesWhole DEF t
    <3>5. CASE t = 3
      BY <2>1, <3>5, HandlesDelta DEF t
    <3>6. CASE t = 4
      BY <2>1, <3>6, HandlesStatus DEF t
    <3> QED  BY <3>1, <3>2, <3>3, <3>4, <3>5, <3>6
  <2> QED  BY <1>5, <2>1, <2>2 DEF Bystander, Absent
<1>6. ASSUME Entered(tbl, q)
      PROVE  /\ HasLocal(tbl, local[q]) /\ HasLocal(WithJoined(p, tbl), local[q])
             /\ TakePos(tbl) # << >>
             /\ (Leads(tbl, local[q]) <=> tbl[local[q]].leading)
             /\ (Leads(WithJoined(p, tbl), local[q]) <=> tbl[local[q]].leading)
             /\ local'[q] = local[q] => Entered(tbl, q)'
  <2>1. /\ HasLocal(tbl, local[q]) /\ HasLocal(WithJoined(p, tbl), local[q])
        /\ TakePos(tbl) # << >>
        /\ (Leads(tbl, local[q]) <=> tbl[local[q]].leading)
        /\ (Leads(WithJoined(p, tbl), local[q]) <=> tbl[local[q]].leading)
    BY <1>2, <1>6, JoinedLeads
  <2> QED  BY <1>6, <2>1 DEF Entered
<1>7. CASE Follower(q, p, tbl, c)
  <2>1. /\ Entered(tbl, q) /\ ~tbl[local[q]].leading
        /\ table[q] = IF t <= 3 THEN tbl
                      ELSE IF t = 4 THEN WithJoined(p, tbl) ELSE WithPrepared(p, tbl)
    BY <1>7 DEF Follower, t
  <2>2. ASSUME local'[q] = local[q], outbox'[q] = << >>,
               table'[q] = IF t <= 2 THEN tbl
                           ELSE IF t = 3 THEN WithJoined(p, tbl) ELSE WithPrepared(p, tbl)
        PROVE  Follower(q, p, tbl, c)'
    <3>1. (t + 1 <= 3 <=> t <= 2) /\ (t + 1 = 4 <=> t = 3)
      BY <1>1
    <3>2. Entered(tbl, q)' /\ ~tbl[local'[q]].leading
      BY <1>6, <2>1, <2>2
    <3> QED  BY <1>1, <2>2, <3>1, <3>2 DEF Follower
  <2>3. ASSUME t \in {0, 1, 2} PROVE Follower(q, p, tbl, c)'
    <3>1. table[q] = tbl /\ ~Leads(table[q], local[q])
      BY <1>1, <1>6, <2>1, <2>3
    <3>2. local'[q] = local[q] /\ outbox'[q] = << >> /\ table'[q] = table[q]
      BY <2>3, <3>1, HandlesChange, HandlesNormalJoin, HandlesWhole DEF t
    <3> QED  BY <2>2, <2>3, <3>1, <3>2
  <2>4. ASSUME t = 3 PROVE Follower(q, p, tbl, c)'
    <3>1. table[q] = tbl
      BY <2>1, <2>4
    <3>2. /\ table'[q] = PutMember(tbl, p, FALSE, "JOINED", pos) /\ local'[q] = local[q]
          /\ outbox'[q] = IF Leads(table'[q], local'[q])
                          THEN <<IsTold(p, tbl)>> ELSE << >>
      <4>1. Told(q, c) = 3 /\ table[q] # << >>
        BY <1>2, <2>4, <3>1 DEF t
      <4>2. /\ table'[q] = PutMember(table[q], p, FALSE, "JOINED", AddPos(tbl))
            /\ local'[q] = local[q]
            /\ outbox'[q] = IF Leads(table'[q], local'[q]) THEN <<IsTold(p, tbl)>> ELSE << >>
        BY <4>1, HandlesDelta
      <4> QED  BY <3>1, <4>2 DEF pos
    <3>3. ~Leads(WithJoined(p, tbl), local[q])
      BY <1>6, <2>1
    <3>4. table'[q] = WithJoined(p, tbl) /\ outbox'[q] = << >>
      BY <1>3, <3>2, <3>3
    <3>5. WithJoined(p, tbl) = IF t <= 2 THEN tbl
                               ELSE IF t = 3 THEN WithJoined(p, tbl) ELSE WithPrepared(p, tbl)
      BY <2>4
    <3> QED  BY <2>2, <3>2, <3>4, <3>5
  <2>5. ASSUME t = 4 PROVE Follower(q, p, tbl, c)'
    <3>1. table[q] = WithJoined(p, tbl) /\ HasLocal(table[q], local[q])
      BY <1>6, <2>1, <2>5
    <3>2. /\ local'[q] = local[q] /\ outbox'[q] = << >>
          /\ table'[q] = IF HasLocal(table[q], local[q]) /\ pos <= Len(table[q])
                         THEN SetState(table[q], pos, "PREPARED") ELSE table[q]
      BY <2>5, HandlesStatus DEF t, pos
    <3>3. table'[q] = WithPrepared(p, tbl)
      BY <1>3, <3>1, <3>2
    <3> QED  BY <2>2, <2>5, <3>2, <3>3
  <2>6. t \in {0, 1, 2} \/ t = 3 \/ t = 4
    BY <1>1
  <2>7. Follower(q, p, tbl, c)'
    BY <2>3, <2>4, <2>5, <2>6
  <2> QED  BY <1>11, <2>7
<1>8. CASE Answerer(q, p, tbl, c)
  <2>1. /\ Entered(tbl, q) /\ tbl[local[q]].leading
        /\ table[q] = IF t <= 1 THEN tbl ELSE IF t <= 3 THEN TakePos(tbl)
                ELSE IF t = 4 THEN WithJoined(p, tbl) ELSE WithPrepared(p, tbl)
        /\ (k >= 2 => t >= 2) /\ (k >= 4 => t >= 4)
    BY <1>8 DEF Answerer, t, k
  <2>2. ~(t \in {2, 3} /\ k = 1) /\ ~(t \in {2, 3} /\ k = 2) /\ ~(t = 4 /\ k = 3)
    <3>1. \A a : <<a>> # << >> /\ \A b : <<a, b>> # << >>
      OBVIOUS
    <3> QED  BY <1>1, <1>8, <3>1 DEF Answerer, t, k
  <2>3. local'[q] = local[q]
    BY <1>11
  <2>4. Entered(tbl, q)' /\ tbl[local'[q]].leading
    BY <1>6, <2>1, <2>3
  <2>5. CASE t = 0
    <3>1. outbox'[q] = << >> /\ table'[q] = tbl
      BY <2>1, <2>5, HandlesChange DEF t
    <3>2. k < 2 /\ Told(q, c)' = 1 /\ Ordered(c)' = k
      BY <1>1, <2>1, <2>5
    <3> QED  BY <1>1, <2>3, <2>4, <3>1, <3>2 DEF Answerer
  <2>6. CASE t = 1
    <3>1. table[q] = tbl /\ Leads(table[q], local[q])
      BY <1>6, <2>1, <2>6
    <3>2. /\ outbox'[q] = <<WholeMsg(p, tbl), DeltaMsg(p, AddPos(tbl))>>
          /\ table'[q] = TakePos(tbl)
      BY <2>6, <3>1, HandlesNormalJoin DEF t
    <3>3. k = 1 /\ Told(q, c)' = 2 /\ Ordered(c)' = 1
      BY <1>1, <2>1, <2>6
    <3> QED  BY <2>3, <2>4, <3>2, <3>3 DEF Answerer
  <2>7. CASE t = 2
    <3>1. table'[q] = TakePos(tbl) /\ outbox'[q] = << >>
      BY <2>1, <2>7, HandlesWhole DEF t
    <3>2. k = 3 /\ Told(q, c)' = 3 /\ Ordered(c)' = 3
      BY <1>1, <2>1, <2>2, <2>7
    <3> QED  BY <2>3, <2>4, <3>1, <3>2 DEF Answerer
  <2>8. CASE t = 3
    <3>1. table[q] = TakePos(tbl) /\ table[q] # << >>
      BY <1>6, <2>1, <2>8
    <3>2. /\ table'[q] = PutMember(TakePos(tbl), p, FALSE, "JOINED", pos)
          /\ outbox'[q] = IF Leads(table'[q], local'[q])
                          THEN <<IsTold(p, tbl)>> ELSE << >>
      <4>1. Told(q, c) = 3 /\ table[q] # << >>
        BY <2>8, <3>1 DEF t
      <4>2. /\ table'[q] = PutMember(table[q], p, FALSE, "JOINED", AddPos(tbl))
            /\ outbox'[q] = IF Leads(table'[q], local'[q]) THEN <<IsTold(p, tbl)>> ELSE << >>
        BY <4>1, HandlesDelta
      <4> QED  BY <3>1, <4>2 DEF pos
    <3>3. Leads(WithJoined(p, tbl), local[q])
      BY <1>6, <2>1
    <3>4. table'[q] = WithJoined(p, tbl) /\ outbox'[q] = <<IsTold(p, tbl)>>
      BY <1>3, <2>3, <3>2, <3>3
    <3>5. k = 3 /\ Told(q, c)' = 4 /\ Ordered(c)' = 3
      BY <1>1, <2>1, <2>2, <2>8
    <3> QED  BY <2>3, <2>4, <3>4, <3>5 DEF Answerer
  <2>9. CASE t = 4
    <3>1. table[q] = WithJoined(p, tbl) /\ HasLocal(table[q], local[q])
      BY <1>6, <2>1, <2>9
    <3>2. /\ outbox'[q] = << >>
          /\ table'[q] = IF HasLocal(table[q], local[q]) /\ pos <= Len(table[q])
                         THEN SetState(table[q], pos, "PREPARED") ELSE table[q]
      BY <2>9, HandlesStatus DEF t, pos
    <3>3. table'[q] = WithPrepared(p, tbl)
      BY <1>3, <3>1, <3>2
    <3>4. k = 4 /\ Told(q, c)' = 5 /\ Ordered(c)' = 4
      BY <1>1, <2>9
    <3> QED  BY <2>3, <2>4, <3>2, <3>3, <3>4 DEF Answerer
  <2> QED  BY <1>1, <2>3, <2>5, <2>6, <2>7, <2>8, <2>9
<1> QED  BY <1>1, <1>5, <1>7, <1>8 DEF NormalJoin

LEMMA NormalJoinHandle ==
  ASSUME Typed, Reset, Calm, NEW tbl \in Seq(Members), NEW p \in Procs, NEW c \in Nat,
         NormalJoin(p, tbl, c), NEW q \in Procs, Handle(q)
  PROVE  NormalJoin(p, tbl, c)'
<1>1. PICK script : script = Script(p, tbl)
  OBVIOUS
<1>2. /\ Fit(tbl) /\ tbl # << >> /\ Present(tbl) /\ \A i \in DOMAIN tbl : tbl[i].proc # p
      /\ Round(p, c, script) /\ Joiner(p, tbl, c) /\ p \in Group /\ Len(script) \in Nat
      /\ \A x \in Group \ {p} :
           Follower(x, p, tbl, c) \/ Answerer(x, p, tbl, c) \/ Bystander(x, tbl)
  BY <1>1, ScriptMeans DEF NormalJoin, Round
<1>3. /\ Group' = Group /\ phase' = phase /\ Group \subseteq Procs
      /\ \A x \in Procs \ {q} : /\ outbox'[x] = outbox[x] /\ table'[x] = table[x]
                                /\ local'[x] = local[x]
  BY HandlerMoves, CalmFacts
<1>4. /\ Ordered(c)' = Ordered(c) /\ \A x \in Group \ {q} : Told(x, c)' = Told(x, c)
      /\ Round(p, c, script)'
  BY <1>2, RoundHandled
<1>5. \A x \in Procs \ {p} : local'[x] = local[x]
  BY <1>3, MemberHandlesJoin
<1>6. Present(tbl)'
  <2>1. \A i \in DOMAIN tbl : tbl[i].proc \in Procs \ {p}
    BY <1>2 DEF Fit
  <2> QED  BY <1>2, <1>3, <1>5, <2>1 DEF Present
<1>7. Joiner(p, tbl, c)'
  <2>1. CASE p = q
    BY <2>1, JoinerHandles
  <2>2. CASE p # q
    <3>1. /\ outbox'[p] = outbox[p] /\ table'[p] = table[p] /\ local'[p] = local[p]
          /\ Told(p, c)' = Told(p, c) /\ Ordered(c)' = Ordered(c)
      BY <1>2, <1>3, <1>4, <2>2
    <3> QED  BY <1>2, <3>1 DEF Joiner
  <2> QED  BY <2>1, <2>2
<1>8. ASSUME NEW x \in Group \ {p}
      PROVE  (Follower(x, p, tbl, c) \/ Answerer(x, p, tbl, c) \/ Bystander(x, tbl))'
  <2>1. CASE x = q
    BY <1>3, <2>1, MemberHandlesJoin
  <2>2. CASE x # q
    <3>1. /\ outbox'[x] = outbox[x] /\ table'[x] = table[x] /\ local'[x] = local[x]
          /\ Told(x, c)' = Told(x, c) /\ Ordered(c)' = Ordered(c)
      BY <1>3, <1>4, <2>2
    <3>2. Entered(tbl, x)' = Entered(tbl, x)
      BY <3>1 DEF Entered
    <3>3. CASE Follower(x, p, tbl, c)
      BY <3>1, <3>2, <3>3 DEF Follower
    <3>4. CASE Answerer(x, p, tbl, c)
      BY <3>1, <3>2, <3>4 DEF Answerer
    <3>5. CASE Bystander(x, tbl)
      BY <3>1, <3>5 DEF Bystander, Absent
    <3> QED  BY <1>2, <3>3, <3>4, <3>5
  <2> QED  BY <2>1, <2>2
<1> QED  BY <1>1, <1>2, <1>3, <1>4, <1>6, <1>7, <1>8 DEF NormalJoin, Fit

(* The process that is alone in its group answers itself.                   *)
LEMMA AloneTables ==
  ASSUME NEW p \in Procs
  PROVE  /\ AddPos(<< >>) = 1
         /\ PutMember(<< >>, p, TRUE, "JOINED", 1) = Alone(p, "JOINED")
         /\ Leads(Alone(p, "JOINED"), 1) /\ HasLocal(Alone(p, "JOINED"), 1)
         /\ Len(Alone(p, "JOINED")) = 1
         /\ SetState(Alone(p, "JOINED"), 1, "PREPARED") = Alone(p, "PREPARED")
<1> DEFINE put == PutMember(<< >>, p, TRUE, "JOINED", 1)
           m(state) == [proc |-> p, id |-> 1, state |-> state, leading |-> TRUE]
<1>1. << >> \in Seq(Members) /\ Len(<< >>) = 0 /\ TRUE \in BOOLEAN /\ "JOINED" \in MemberStates
  BY DEF MemberStates
<1>2. AddPos(<< >>) = 1 /\ Len(put) = 1 /\ DOMAIN put = {1} /\ put[1] = m("JOINED")
  BY <1>1, FirstMember
<1>3. put \in Seq(Members)
  <2>1. PICK first : first = 1
    OBVIOUS
  <2>2. first \in Nat \ {NoId}
    BY <2>1 DEF NoId
  <2>3. PutMember(<< >>, p, TRUE, "JOINED", first) \in Seq(Members)
    BY <1>1, <2>2, PutMemberTable
  <2> QED  BY <2>1, <2>3
<1> HIDE DEF put
<1>4. put = Alone(p, "JOINED")
  <2>1. \A s \in Seq(Members) : Len(s) = 1 => s = <<s[1]>>
    OBVIOUS
  <2> QED  BY <1>2, <1>3, <2>1 DEF Alone
<1>5. Alone(p, "JOINED")[1].leading /\ Len(Alone(p, "JOINED")) = 1
  BY DEF Alone
<1>6. SetState(Alone(p, "JOINED"), 1, "PREPARED") = Alone(p, "PREPARED")
  <2>1. [m("JOINED") EXCEPT !.state = "PREPARED"] = m("PREPARED")
    <3>1. PICK a : a = m("JOINED")
      OBVIOUS
    <3>2. a \in Members /\ a.proc = p /\ a.id = 1 /\ a.leading = TRUE
      BY <3>1 DEF Members, MemberStates
    <3>3. [a EXCEPT !.state = "PREPARED"]
            = [proc |-> a.proc, id |-> a.id, state |-> "PREPARED", leading |-> a.leading]
      BY <3>2 DEF Members
    <3> QED  BY <3>1, <3>2, <3>3
  <2>2. Alone(p, "JOINED") = <<m("JOINED")>> /\ Alone(p, "PREPARED") = <<m("PREPARED")>>
    BY DEF Alone
  <2>3. \A a, b : [a EXCEPT !.state = "PREPARED"] = b
          => [<<a>> EXCEPT ![1].state = "PREPARED"] = <<b>>
    OBVIOUS
  <2> HIDE DEF m
  <2> QED  BY <2>1, <2>2, <2>3 DEF SetState
<1>7. Leads(Alone(p, "JOINED"), 1) /\ HasLocal(Alone(p, "JOINED"), 1)
  BY <1>5 DEF Leads, HasLocal, NoId
<1> QED  BY <1>2, <1>4, <1>5, <1>6, <1>7 DEF put

LEMMA FirstJoinFacts ==
  ASSUME Typed, NEW p \in Procs, NEW c \in Nat, FirstJoin(p, c)
  PROVE  \E script :
           /\ script = <<JoinMsg(p, TRUE), StatusMsg(1, "PREPARED")>>
           /\ Len(script) = 2 /\ script[1] = JoinMsg(p, TRUE)
           /\ script[2] = StatusMsg(1, "PREPARED")
           /\ Round(p, c, script) /\ Group = {p} /\ Ordered(c) \in 0..2
           /\ Told(p, c) \in 1..(Ordered(c) + 1)
<1>1. PICK script : script = <<JoinMsg(p, TRUE), StatusMsg(1, "PREPARED")>>
  OBVIOUS
<1>2. /\ Len(script) = 2 /\ script[1] = JoinMsg(p, TRUE)
      /\ script[2] = StatusMsg(1, "PREPARED")
  BY <1>1
<1>3. Round(p, c, script) /\ Group = {p}
  BY <1>1 DEF FirstJoin
<1>4. Ordered(c) \in Nat /\ Told(p, c) \in Nat /\ Told(p, c) <= Ordered(c) + 1
  BY <1>3, RoundFacts
<1>5. Ordered(c) <= 2 /\ Told(p, c) >= 1
  BY <1>2, <1>3 DEF Round
<1>6. Ordered(c) \in 0..2 /\ Told(p, c) \in 1..(Ordered(c) + 1)
  BY <1>4, <1>5
<1> QED  BY <1>1, <1>2, <1>3, <1>6

LEMMA FirstJoinOrder ==
  ASSUME Typed, Reset, NEW p \in Procs, NEW c \in Nat, FirstJoin(p, c),
         NEW q \in Procs, Order(q)
  PROVE  FirstJoin(p, c)'
<1>1. PICK script :
        /\ script = <<JoinMsg(p, TRUE), StatusMsg(1, "PREPARED")>>
        /\ Len(script) = 2 /\ script[1] = JoinMsg(p, TRUE)
        /\ script[2] = StatusMsg(1, "PREPARED")
        /\ Round(p, c, script) /\ Group = {p} /\ Ordered(c) \in 0..2
        /\ Told(p, c) \in 1..(Ordered(c) + 1)
  BY FirstJoinFacts
<1>2. /\ outbox[q] # << >> /\ outbox' = [outbox EXCEPT ![q] = Tail(outbox[q])]
      /\ table' = table /\ local' = local
  BY DEF Order
<1>3. q = p
  BY <1>1, <1>2 DEF Reset
<1>4. \/ Told(p, c) = 1 /\ Ordered(c) = 0 /\ outbox[p] = <<script[1]>>
      \/ Told(p, c) = 2 /\ Ordered(c) = 1 /\ outbox[p] = <<script[2]>>
  <2>1. Told(p, c) \in {1, 2, 3}
    BY <1>1
  <2>2. CASE Told(p, c) = 1
    BY <1>1, <1>2, <1>3, <2>2 DEF FirstJoin
  <2>3. CASE Told(p, c) = 2
    BY <1>1, <1>2, <1>3, <2>3 DEF FirstJoin
  <2>4. CASE Told(p, c) = 3
    BY <1>1, <1>2, <1>3, <2>4 DEF FirstJoin
  <2> QED  BY <2>1, <2>2, <2>3, <2>4
<1>5. /\ Head(outbox[q]) = script[Ordered(c) + 1] /\ Tail(outbox[q]) = << >>
      /\ Ordered(c) < Len(script) /\ Len(script) \in Nat
  <2>1. \A a : Head(<<a>>) = a /\ Tail(<<a>>) = << >>
    OBVIOUS
  <2>2. /\ Ordered(c) < Len(script) /\ Len(script) \in Nat
        /\ outbox[p] = <<script[Ordered(c) + 1]>>
    <3>1. Ordered(c) < 2
      BY <1>4
    <3>2. outbox[p] = <<script[Ordered(c) + 1]>>
      BY <1>4
    <3> QED  BY <1>1, <3>1, <3>2
  <2> QED  BY <1>3, <2>1, <2>2
<1>6. /\ Ordered(c)' = Ordered(c) + 1 /\ Group' = Group /\ Told(p, c)' = Told(p, c)
      /\ Round(p, c, script)'
  BY <1>1, <1>5, RoundOrdered
<1>7. outbox'[p] = << >> /\ local'[p] = local[p] /\ table'[p] = table[p]
  BY <1>2, <1>3, <1>5, TypedMeans
<1>8. CASE Told(p, c) = 1
  <2>1. Ordered(c)' = 1 /\ Told(p, c)' = 1
    BY <1>4, <1>6, <1>8
  <2>2. local[p] = NoId /\ table[p] = << >>
    BY <1>8 DEF FirstJoin
  <2> QED  BY <1>1, <1>6, <1>7, <2>1, <2>2 DEF FirstJoin
<1>9. CASE Told(p, c) = 2
  <2>1. Ordered(c)' = 2 /\ Told(p, c)' = 2
    BY <1>4, <1>6, <1>9
  <2>2. local[p] = 1 /\ table[p] = Alone(p, "JOINED")
    BY <1>9 DEF FirstJoin
  <2> QED  BY <1>1, <1>6, <1>7, <2>1, <2>2 DEF FirstJoin
<1> QED  BY <1>4, <1>8, <1>9

LEMMA FirstJoinHandle ==
  ASSUME Typed, Reset, NEW p \in Procs, NEW c \in Nat, FirstJoin(p, c),
         NEW q \in Procs, Handle(q)
  PROVE  FirstJoin(p, c)'
<1>1. PICK script :
        /\ script = <<JoinMsg(p, TRUE), StatusMsg(1, "PREPARED")>>
        /\ Len(script) = 2 /\ script[1] = JoinMsg(p, TRUE)
        /\ script[2] = StatusMsg(1, "PREPARED")
        /\ Round(p, c, script) /\ Group = {p} /\ Ordered(c) \in 0..2
        /\ Told(p, c) \in 1..(Ordered(c) + 1)
  BY FirstJoinFacts
<1>2. Len(script) \in Nat
  BY <1>1
<1>3. q = p /\ Group' = Group
  BY <1>1, HandlerMoves
<1>4. /\ phase[p] = "running" /\ Told(p, c) \in 0..Ordered(c)
      /\ Told(p, c)' = Told(p, c) + 1 /\ Ordered(c)' = Ordered(c) /\ Round(p, c, script)'
  BY <1>1, <1>2, <1>3, RoundHandled
<1>5. Told(p, c) # 0 => log[cursor[p]] = script[Told(p, c)]
  <2>1. Round(p, c, script)
    BY <1>1
  <2>2. Told(q, c) # 0 => log[cursor[q]] = script[Told(q, c)]
    BY <1>2, <2>1, RoundEntry
  <2> QED  BY <1>3, <2>2
<1>6. /\ outbox \in [Procs -> Seq(Entries)] /\ table \in [Procs -> Seq(Members)]
      /\ local \in [Procs -> Nat]
  BY TypedMeans
<1>7. PICK e : e = log[cursor[p]]
  OBVIOUS
<1>8. /\ HandleChange(p) \/ HandleLeadingJoin(p) \/ HandleNormalJoin(p)
         \/ HandleWhole(p) \/ HandleDelta(p) \/ HandleStatus(p)
      /\ HandleChange(p) => e.type = "change"
      /\ HandleLeadingJoin(p) => e.type = "member"
      /\ HandleNormalJoin(p) => e.type = "member" /\ ~e.leading
      /\ HandleWhole(p) => e.type = "whole"
      /\ HandleDelta(p) => e.type = "delta"
      /\ HandleStatus(p) => e.type = "status"
  BY <1>3, <1>4, <1>7 DEF Handle, IgnoreWhileStarting, HandleChange, HandleLeadingJoin,
     HandleNormalJoin, HandleWhole, HandleDelta, HandleStatus, Dispatch
<1>9. CASE Told(p, c) = 1
  <2>1. /\ local[p] = NoId /\ table[p] = << >> /\ Ordered(c) = 1
    <3>1. local[p] = NoId /\ table[p] = << >> /\ Ordered(c) <= 1
      BY <1>9 DEF FirstJoin
    <3> QED  BY <1>1, <1>4, <1>9, <3>1
  <2>2. e = JoinMsg(p, TRUE)
    <3>1. e = script[Told(p, c)]
      BY <1>5, <1>7, <1>9
    <3> QED  BY <1>1, <1>9, <3>1
  <2>3. e.type = "member" /\ e.leading /\ e.proc = p
    BY <2>2 DEF JoinMsg
  <2>4. HandleLeadingJoin(p) /\ IsLocalMember(p, p)
    BY <1>8, <2>3 DEF IsLocalMember
  <2>5. PICK tbl : tbl = PutMember(<< >>, p, TRUE, "JOINED", 1)
    OBVIOUS
  <2>6. /\ table' = [table EXCEPT ![p] = tbl] /\ local' = [local EXCEPT ![p] = 1]
        /\ MemberJoined(p, tbl, 1, 1)
    BY <1>7, <2>1, <2>3, <2>4, <2>5, AloneTables DEF HandleLeadingJoin
  <2>7. tbl = Alone(p, "JOINED") /\ Leads(tbl, 1)
    BY <2>5, AloneTables
  <2>8. /\ table'[p] = Alone(p, "JOINED") /\ local'[p] = 1
        /\ outbox'[p] = <<StatusMsg(1, "PREPARED")>>
    BY <1>6, <2>6, <2>7 DEF MemberJoined, Multicast
  <2>9. Told(p, c)' = 2 /\ Ordered(c)' = 1 /\ Group' = {p}
    BY <1>1, <1>3, <1>4, <1>9, <2>1
  <2> QED  BY <1>1, <1>4, <2>8, <2>9 DEF FirstJoin
<1>10. CASE Told(p, c) = 2
  <2>1. local[p] = 1 /\ table[p] = Alone(p, "JOINED")
    BY <1>10 DEF FirstJoin
  <2>2. e = StatusMsg(1, "PREPARED")
    BY <1>1, <1>5, <1>7, <1>10
  <2>3. e.type = "status" /\ e.pos = 1 /\ e.state = "PREPARED"
    BY <2>2 DEF StatusMsg
  <2>4. HandleStatus(p)
    BY <1>8, <2>3
  <2>5. HasLocal(table[p], local[p]) /\ 1 <= Len(table[p])
    <3>1. HasLocal(Alone(p, "JOINED"), 1) /\ Len(Alone(p, "JOINED")) = 1
      BY AloneTables
    <3>2. HasLocal(table[p], local[p])
      BY <2>1, <3>1, Zenon
    <3>3. 1 <= Len(table[p])
      <4>1. Len(table[p]) = 1
        BY <2>1, <3>1, Zenon
      <4> QED  BY <4>1
    <3> QED  BY <3>2, <3>3
  <2>6. table'[p] = SetState(table[p], 1, "PREPARED") /\ local'[p] = 1 /\ outbox'[p] = outbox[p]
    BY <1>6, <1>7, <2>1, <2>3, <2>4, <2>5 DEF HandleStatus
  <2>7. outbox[p] = << >>
    BY <1>3, HandlerMoves
  <2>8. table'[p] = Alone(p, "PREPARED")
    BY <2>1, <2>6, AloneTables
  <2>9. Told(p, c)' = 3 /\ Group' = {p}
    BY <1>1, <1>3, <1>4, <1>10
  <2> QED  BY <1>1, <1>4, <2>6, <2>7, <2>8, <2>9 DEF FirstJoin
<1>11. Told(p, c) = 1 \/ Told(p, c) = 2
  BY <1>1, <1>4
<1> QED  BY <1>9, <1>10, <1>11

(* A process whose join nobody answers has nothing to dispatch that matters.*)
LEMMA LostJoinKept ==
  ASSUME Typed, Reset, NEW p \in Procs, NEW c \in Nat, LostJoin(p, c),
         NEW q \in Procs, Order(q) \/ Handle(q)
  PROVE  LostJoin(p, c)'
<1>1. PICK script : script = <<JoinMsg(p, FALSE)>>
  OBVIOUS
<1>2. Len(script) = 1 /\ script[1] = JoinMsg(p, FALSE) /\ Len(script) \in Nat
  BY <1>1
<1>3. /\ Round(p, c, script) /\ p \in Group /\ Group \subseteq Procs
      /\ \A x \in Group :
           /\ table[x] = << >> /\ local[x] = NoId
           /\ outbox[x] = IF x = p /\ Ordered(c) = 0 THEN <<JoinMsg(p, FALSE)>> ELSE << >>
  BY <1>1, CalmFacts DEF LostJoin, Round
<1>4. CASE Order(q)
  <2>1. /\ outbox[q] # << >> /\ outbox' = [outbox EXCEPT ![q] = Tail(outbox[q])]
        /\ table' = table /\ local' = local
    BY <1>4 DEF Order
  <2>2. q \in Group
    BY <2>1 DEF Reset
  <2>3. q = p /\ Ordered(c) = 0 /\ outbox[q] = <<JoinMsg(p, FALSE)>>
    BY <1>3, <2>1, <2>2
  <2>4. /\ Head(outbox[q]) = script[Ordered(c) + 1] /\ Tail(outbox[q]) = << >>
        /\ Ordered(c) < Len(script)
    <3>1. \A a : Head(<<a>>) = a /\ Tail(<<a>>) = << >>
      OBVIOUS
    <3>2. Ordered(c) + 1 = 1 /\ Ordered(c) < 1
      BY <2>3
    <3> QED  BY <1>2, <2>3, <3>1, <3>2
  <2>5. Ordered(c)' = Ordered(c) + 1 /\ Group' = Group /\ Round(p, c, script)'
    BY <1>2, <1>3, <1>4, <2>4, RoundOrdered
  <2>6. Ordered(c)' # 0
    BY <2>3, <2>5
  <2>7. \A x \in Group : outbox'[x] = << >>
    BY <1>3, <2>1, <2>3, <2>4, TypedMeans
  <2> QED  BY <1>1, <1>3, <2>1, <2>5, <2>6, <2>7 DEF LostJoin
<1>5. CASE Handle(q)
  <2>1. /\ q \in Group /\ phase[q] = "running" /\ outbox[q] = << >>
        /\ Told(q, c) \in 0..Ordered(c) /\ (q = p => Told(q, c) >= 1)
        /\ Ordered(c)' = Ordered(c) /\ Round(p, c, script)'
    BY <1>2, <1>3, <1>5, RoundHandled
  <2>2. /\ Group' = Group
        /\ \A x \in Procs \ {q} : /\ outbox'[x] = outbox[x] /\ table'[x] = table[x]
                                  /\ local'[x] = local[x]
    BY <1>5, HandlerMoves
  <2>3. Ordered(c) \in Nat /\ Ordered(c) <= 1
    BY <1>2, <1>3, RoundFacts DEF Round
  <2>4. PICK e : e = log[cursor[q]]
    OBVIOUS
  <2>5. /\ HandleChange(q) \/ HandleLeadingJoin(q) \/ HandleNormalJoin(q)
           \/ HandleWhole(q) \/ HandleDelta(q) \/ HandleStatus(q)
        /\ HandleChange(q) => e.type = "change"
        /\ HandleLeadingJoin(q) => e.type = "member" /\ e.leading
        /\ HandleNormalJoin(q) => e.type = "member"
        /\ HandleWhole(q) => e.type = "whole"
        /\ HandleDelta(q) => e.type = "delta"
        /\ HandleStatus(q) => e.type = "status"
    BY <1>5, <2>1, <2>4 DEF Handle, IgnoreWhileStarting, HandleChange, HandleLeadingJoin,
       HandleNormalJoin, HandleWhole, HandleDelta, HandleStatus, Dispatch
  <2>6. /\ outbox \in [Procs -> Seq(Entries)] /\ table \in [Procs -> Seq(Members)]
        /\ local \in [Procs -> Nat]
    BY TypedMeans
  <2>7. /\ table[q] = << >> /\ local[q] = NoId
        /\ ~HasLocal(table[q], local[q]) /\ ~Leads(table[q], local[q])
    BY <1>3, <2>1 DEF Leads, HasLocal
  <2>8. outbox'[q] = << >> /\ table'[q] = << >> /\ local'[q] = NoId
    <3>1. CASE Told(q, c) = 0
      <4>1. log[cursor[q]] = Change(Group, {}, {p})
        BY <1>2, <1>3, <1>5, <3>1, RoundEntry
      <4>2. e.type = "change" /\ e.left = {} /\ e.joined = {p} /\ q # p
        BY <2>1, <2>4, <3>1, <4>1 DEF Change
      <4>3. HandleChange(q)
        BY <2>5, <4>2
      <4> QED  BY <2>4, <2>6, <2>7, <4>2, <4>3 DEF HandleChange, Multicast
    <3>2. CASE Told(q, c) # 0
      <4>1. log[cursor[q]] = script[Told(q, c)]
        BY <1>2, <1>3, <1>5, <3>2, RoundEntry
      <4>2. Told(q, c) = 1
        BY <2>1, <2>3, <3>2
      <4>3. e = JoinMsg(p, FALSE)
        BY <1>2, <2>4, <4>1, <4>2
      <4>4. e.type = "member" /\ ~e.leading
        BY <4>3 DEF JoinMsg
      <4>5. HandleNormalJoin(q)
        BY <2>5, <4>4
      <4> QED  BY <2>1, <2>7, <4>5 DEF HandleNormalJoin
    <3> QED  BY <3>1, <3>2
  <2>9. ASSUME NEW x \in Group
        PROVE  /\ table'[x] = << >> /\ local'[x] = NoId
               /\ outbox'[x] = IF x = p /\ Ordered(c)' = 0 THEN <<JoinMsg(p, FALSE)>> ELSE << >>
    <3>1. CASE x = q
      <4>1. ~(x = p /\ Ordered(c)' = 0)
        BY <2>1, <2>3, <3>1
      <4> QED  BY <2>8, <3>1, <4>1
    <3>2. CASE x # q
      BY <1>3, <2>1, <2>2, <3>2
    <3> QED  BY <3>1, <3>2
  <2> QED  BY <1>1, <2>1, <2>2, <2>9 DEF LostJoin
<1> QED  BY <1>4, <1>5

LEMMA StepsKeepCalm ==
  ASSUME Calm, CalmInv, NEW p \in Procs, Order(p) \/ Handle(p)
  PROVE  Rounds'
<1>1. Typed /\ Reset
  BY DEF CalmInv
<1>2. CASE \E tbl \in Seq(Members) : Quiet(tbl)
  BY <1>1, <1>2, QuietOrder, QuietHandle
<1>3. CASE \E tbl \in Seq(Members), q \in Procs, c \in Nat : NormalJoin(q, tbl, c)
  <2>1. PICK tbl \in Seq(Members), q \in Procs, c \in Nat : NormalJoin(q, tbl, c)
    BY <1>3
  <2>2. NormalJoin(q, tbl, c)'
    BY <1>1, <2>1, NormalJoinOrder, NormalJoinHandle
  <2> QED  BY <2>2 DEF Rounds
<1>4. CASE \E q \in Procs, c \in Nat : FirstJoin(q, c)
  <2>1. PICK q \in Procs, c \in Nat : FirstJoin(q, c)
    BY <1>4
  <2>2. FirstJoin(q, c)'
    BY <1>1, <2>1, FirstJoinOrder, FirstJoinHandle
  <2> QED  BY <2>2 DEF Rounds
<1>5. CASE \E q \in Procs, c \in Nat : LostJoin(q, c)
  <2>1. PICK q \in Procs, c \in Nat : LostJoin(q, c)
    BY <1>5
  <2>2. LostJoin(q, c)'
    BY <1>1, <2>1, LostJoinKept
  <2> QED  BY <2>2 DEF Rounds
<1> QED  BY <1>2, <1>3, <1>4, <1>5 DEF CalmInv, Rounds

LEMMA CalmStutters ==
  ASSUME CalmInv, UNCHANGED vars
  PROVE  CalmInv'
<1>1. /\ log' = log /\ phase' = phase /\ cursor' = cursor /\ outbox' = outbox
      /\ table' = table /\ local' = local /\ cfgLeading' = cfgLeading
  BY DEF vars
<1>2. Typed /\ Reset /\ Rounds
  BY DEF CalmInv
<1>3. Typed'
  BY <1>1, <1>2 DEF Typed, TypeOK, Queues
<1>4. Group' = Group /\ LogEnd' = LogEnd
  BY <1>1 DEF Group, LogEnd
<1>5. Reset'
  BY <1>1, <1>2, <1>4 DEF Reset
<1>6. \A tbl, p : (Entered(tbl, p)' <=> Entered(tbl, p)) /\ (Absent(tbl, p)' <=> Absent(tbl, p))
  BY <1>1 DEF Entered, Absent
<1>7. \A tbl : Present(tbl)' <=> Present(tbl)
  BY <1>1, <1>4 DEF Present
<1>8. \A p, c, script : Round(p, c, script)' <=> Round(p, c, script)
  BY <1>1, <1>4 DEF Round, Ordered, Told, Change
<1>9. CASE \E tbl \in Seq(Members) : Quiet(tbl)
  <2>1. PICK tbl \in Seq(Members) : Quiet(tbl)
    BY <1>9
  <2>2. ASSUME NEW p \in Group PROVE Awaits(p, tbl)'
    <3>1. Awaits(p, tbl)
      BY <2>1 DEF Quiet
    <3>2. \A e : OneChange(e)' <=> OneChange(e)
      BY <1>1, <1>4 DEF OneChange, Change
    <3>3. \A own : Has(p, own, tbl)' <=> Has(p, own, tbl)
      BY <1>1, <1>6 DEF Has
    <3> QED  BY <1>1, <1>4, <3>1, <3>2, <3>3 DEF Awaits, Behind
  <2>3. Quiet(tbl)'
    BY <1>4, <1>7, <2>1, <2>2 DEF Quiet, Fit
  <2> QED  BY <1>3, <1>5, <2>3 DEF CalmInv, Rounds
<1>10. CASE \E tbl \in Seq(Members), p \in Procs, c \in Nat : NormalJoin(p, tbl, c)
  <2>1. PICK tbl \in Seq(Members), p \in Procs, c \in Nat : NormalJoin(p, tbl, c)
    BY <1>10
  <2>2. Joiner(p, tbl, c)'
    BY <1>1, <1>4, <2>1 DEF NormalJoin, Joiner, Told, Ordered
  <2>3. ASSUME NEW q \in Group \ {p}
        PROVE  (Follower(q, p, tbl, c) \/ Answerer(q, p, tbl, c) \/ Bystander(q, tbl))'
    <3>1. Told(q, c)' = Told(q, c) /\ Ordered(c)' = Ordered(c)
      BY <1>1, <1>4 DEF Told, Ordered
    <3>2. Follower(q, p, tbl, c) \/ Answerer(q, p, tbl, c) \/ Bystander(q, tbl)
      BY <2>1 DEF NormalJoin
    <3>3. CASE Follower(q, p, tbl, c)
      BY <1>1, <1>6, <3>1, <3>3 DEF Follower
    <3>4. CASE Answerer(q, p, tbl, c)
      BY <1>1, <1>6, <3>1, <3>4 DEF Answerer
    <3>5. CASE Bystander(q, tbl)
      BY <1>1, <1>6, <3>5 DEF Bystander
    <3> QED  BY <3>2, <3>3, <3>4, <3>5
  <2>4. NormalJoin(p, tbl, c)'
    BY <1>4, <1>7, <1>8, <2>1, <2>2, <2>3 DEF NormalJoin, Fit
  <2> QED  BY <1>3, <1>5, <2>4 DEF CalmInv, Rounds
<1>11. CASE \E p \in Procs, c \in Nat : FirstJoin(p, c)
  <2>1. PICK p \in Procs, c \in Nat : FirstJoin(p, c)
    BY <1>11
  <2>2. FirstJoin(p, c)'
    BY <1>1, <1>4, <1>8, <2>1 DEF FirstJoin, Told, Ordered
  <2> QED  BY <1>3, <1>5, <2>2 DEF CalmInv, Rounds
<1>12. CASE \E p \in Procs, c \in Nat : LostJoin(p, c)
  <2>1. PICK p \in Procs, c \in Nat : LostJoin(p, c)
    BY <1>12
  <2>2. LostJoin(p, c)'
    BY <1>1, <1>4, <1>8, <2>1 DEF LostJoin, Ordered
  <2> QED  BY <1>3, <1>5, <2>2 DEF CalmInv, Rounds
<1> QED  BY <1>2, <1>9, <1>10, <1>11, <1>12 DEF Rounds

(* What the processes hold, and what is on its way, stays one of these      *)
(* rounds, whoever starts, leaves or dispatches next (handleClusterChange   *)
(* to handleMemberStatusEvent).                                             *)
THEOREM CalmInvariance ==
  ASSUME Calm
  PROVE  Spec => []CalmInv
<1>1. CalmInv /\ [Next]_vars => CalmInv'
  <2> SUFFICES ASSUME CalmInv, [Next]_vars PROVE CalmInv'
    OBVIOUS
  <2>1. Typed /\ Reset /\ Typed' /\ WaitSettled
    BY NextTyped DEF CalmInv, Calm
  <2>2. CASE UNCHANGED vars
    BY <2>2, CalmStutters
  <2>3. ASSUME NEW p \in Procs, Start(p) PROVE CalmInv'
    BY <2>1, <2>3, StartKeepsCalm
  <2>4. ASSUME NEW p \in Procs, FinishStart(p) PROVE CalmInv'
    BY <2>1, <2>4, FinishStartKeepsCalm
  <2>5. ASSUME NEW p \in Procs, Order(p) PROVE CalmInv'
    <3>1. phase' = phase /\ cursor' = cursor /\ table' = table /\ local' = local /\ cfgLeading' = cfgLeading
      BY <2>5 DEF Order
    <3>2. outbox' = [outbox EXCEPT ![p] = Tail(outbox[p])] /\ outbox[p] # << >>
      BY <2>5 DEF Order
    <3>3. p \in Group /\ Group' = Group
      BY <2>1, <3>1, <3>2 DEF Reset, Group
    <3>4. Reset'
      BY <2>1, <3>1, <3>2, <3>3, TypedMeans DEF Reset
    <3> QED  BY <2>1, <2>5, <3>4, StepsKeepCalm DEF CalmInv
  <2>6. ASSUME NEW p \in Procs, Handle(p) PROVE CalmInv'
    <3>1. Reset'
      BY <2>1, <2>6, HandlerMoves
    <3> QED  BY <2>1, <2>6, <3>1, StepsKeepCalm DEF CalmInv
  <2>7. ASSUME NEW procs \in SUBSET Procs, Leave(procs) PROVE CalmInv'
    BY <2>1, <2>7, LeaveKeepsCalm
  <2> QED  BY <2>2, <2>3, <2>4, <2>5, <2>6, <2>7 DEF Next
<1> QED  BY <1>1, InitCalm, PTL DEF Spec

(* Once everything is dispatched all members hold the same table, whichever *)
(* members started or left, the leading one too (handleDeltaMemberEvent,    *)
(* handleLeaveMembers).                                                     *)
THEOREM UnifiedStateAlways ==
  ASSUME Calm
  PROVE  Spec => []UnifiedState
<1>1. CalmInv => UnifiedState
  <2> SUFFICES ASSUME CalmInv, Settled, NEW p \in Procs, NEW q \in Procs,
                      IsMember(p), IsMember(q)
               PROVE  table[p] = table[q]
    BY DEF UnifiedState
  <2>1. PICK tbl \in Seq(Members) : Fit(tbl) /\ Shared(tbl)
    BY SettledShared
  <2>2. ASSUME NEW r \in Procs, IsMember(r) PROVE table[r] = tbl
    BY <2>1, <2>2 DEF IsMember, HasLocal, Group, Shared, Has
  <2> QED  BY <2>2
<1> QED  BY <1>1, CalmInvariance, PTL

(* Then no member counts on a process that left (handleLeaveMembers).       *)
THEOREM LeaversInactiveAlways ==
  ASSUME Calm
  PROVE  Spec => []LeaversInactive
<1>1. CalmInv => LeaversInactive
  <2> SUFFICES ASSUME CalmInv, Settled, NEW p \in Procs, IsMember(p), NEW i \in DOMAIN table[p],
                      table[p][i].state \in {"JOINED", "PREPARED", "ACTIVE"}
               PROVE  phase[table[p][i].proc] # "gone"
    BY DEF LeaversInactive
  <2>1. PICK tbl \in Seq(Members) : Fit(tbl) /\ Shared(tbl)
    BY SettledShared
  <2>2. table[p] = tbl
    BY <2>1 DEF IsMember, HasLocal, Group, Shared, Has
  <2>3. tbl[i].state = "PREPARED"
    BY <2>1, <2>2 DEF Fit
  <2>4. tbl[i].proc \in Group
    BY <2>1, <2>2, <2>3 DEF Shared, Present
  <2> QED  BY <2>2, <2>4 DEF Group
<1> QED  BY <1>1, CalmInvariance, PTL

(* Then a cluster that has a member has a leading member (selectLeading).   *)
THEOREM LeadingExistsAlways ==
  ASSUME Calm
  PROVE  Spec => []LeadingExists
<1>1. CalmInv => LeadingExists
  <2> SUFFICES ASSUME CalmInv, Settled, NEW p \in Procs, IsMember(p)
               PROVE  \E q \in Procs : IsLeading(q)
    BY DEF LeadingExists
  <2>1. PICK tbl \in Seq(Members) : Fit(tbl) /\ Shared(tbl)
    BY SettledShared
  <2>2. Entered(tbl, p)
    BY <2>1 DEF IsMember, HasLocal, Group, Shared, Has
  <2>3. tbl # << >> /\ Present(tbl)
    BY <2>1, <2>2 DEF Entered, Shared
  <2>4. PICK q \in Group : Entered(tbl, q) /\ tbl[local[q]].leading
    BY <2>1, <2>3, LeaderThere
  <2>5. /\ q \in Procs /\ phase[q] = "running" /\ local[q] \in 1..Len(tbl) /\ local[q] # NoId
    BY <2>4 DEF Group, Settled, Entered, NoId
  <2>6. table[q] = tbl
    BY <2>1, <2>4, <2>5 DEF Shared, Has
  <2> QED  BY <2>4, <2>5, <2>6 DEF IsLeading, Leads, HasLocal
<1> QED  BY <1>1, CalmInvariance, PTL
=============================================================================
