-------------------------- MODULE MigrationProofs --------------------------
(***************************************************************************)
(* Migration for any number of members, partitions, replicas and stores,    *)
(* any joins and departures: the members apply the same events in the same  *)
(* order, each at its own pace, so that their partition tables are the same *)
(* once they have dispatched them all; and the types of the variables, with *)
(* the idle MigrationTargetActor that has nothing left to do.               *)
(***************************************************************************)
EXTENDS Migration, DataLemmas

-----------------------------------------------------------------------------
(* What a member's table becomes when it dispatches an event.               *)
Applied(t, e) ==
  CASE e.type = "delta"  -> ApplyDelta(t, e.items)
    [] e.type = "status" -> StatusChanged(t, e.part, e.member, e.state)
    [] e.type = "whole"  -> e.table
    [] OTHER             -> t

(* The first n events of a queue lead from table t to table u.              *)
Leads(t, s, n, u) ==
  \E f : /\ f[0] = t
         /\ f[n] = u
         /\ \A i \in 1..n : f[i] = Applied(f[i - 1], s[i])

LEMMA LeadsNowhere ==
  ASSUME NEW t, NEW s, NEW u, Leads(t, s, 0, u)
  PROVE  t = u
BY DEF Leads

LEMMA LeadsFrom == ASSUME NEW t, NEW s PROVE Leads(t, s, 0, t)
<1> DEFINE f == [i \in {0} |-> t]
<1>1. f[0] = t /\ \A i \in 1..0 : f[i] = Applied(f[i - 1], s[i])
  OBVIOUS
<1> QED  BY <1>1, Zenon DEF Leads

LEMMA LeadsAppend ==
  ASSUME NEW t, NEW s, IsSeq(s), NEW e, NEW u,
         Leads(t, s, Len(s), u)
  PROVE  Leads(t, Append(s, e), Len(s) + 1, Applied(u, e))
<1>1. PICK f : /\ f[0] = t
               /\ f[Len(s)] = u
               /\ \A i \in 1..Len(s) : f[i] = Applied(f[i - 1], s[i])
  BY Zenon DEF Leads
<1> DEFINE g == [i \in 0..(Len(s) + 1) |-> IF i = Len(s) + 1 THEN Applied(u, e) ELSE f[i]]
           r == Append(s, e)
<1>2. /\ Len(s) \in Nat /\ \A i \in 1..Len(s) : r[i] = s[i]
      /\ r[Len(s) + 1] = e
  BY SeqFacts, AppendFacts
<1>3. /\ \A i \in 0..Len(s) : g[i] = f[i]
      /\ g[Len(s) + 1] = Applied(u, e)
  BY <1>2
<1> HIDE DEF g, r
<1>4. g[0] = t
  BY <1>1, <1>2, <1>3
<1>5. ASSUME NEW i \in 1..(Len(s) + 1)
      PROVE  g[i] = Applied(g[i - 1], r[i])
  <2>1. CASE i \in 1..Len(s)
    <3>1. i \in 0..Len(s) /\ i - 1 \in 0..Len(s)
      BY <1>2, <2>1
    <3>2. g[i] = f[i] /\ g[i - 1] = f[i - 1] /\ r[i] = s[i]
      BY <1>2, <1>3, <2>1, <3>1
    <3> QED  BY <1>1, <2>1, <3>2
  <2>2. CASE i = Len(s) + 1
    <3>1. i - 1 = Len(s) /\ Len(s) \in 0..Len(s)
      BY <1>2, <2>2
    <3>2. g[i - 1] = u /\ r[i] = e
      BY <1>1, <1>2, <1>3, <2>2, <3>1
    <3> QED  BY <1>3, <2>2, <3>2
  <2> QED  BY <1>2, <2>1, <2>2
<1>6. Leads(t, r, Len(s) + 1, Applied(u, e))
  BY <1>3, <1>4, <1>5, Zenon DEF Leads
<1> QED  BY <1>6 DEF r

LEMMA LeadsAsFar ==
  ASSUME NEW t, NEW s, IsSeq(s), NEW e, NEW u, NEW n \in 0..Len(s),
         Leads(t, s, n, u)
  PROVE  Leads(t, Append(s, e), n, u)
<1>1. PICK f : /\ f[0] = t
               /\ f[n] = u
               /\ \A i \in 1..n : f[i] = Applied(f[i - 1], s[i])
  BY Zenon DEF Leads
<1>2. \A i \in 1..n : Append(s, e)[i] = s[i]
  BY SeqFacts, AppendFacts
<1>3. \A i \in 1..n : f[i] = Applied(f[i - 1], Append(s, e)[i])
  BY <1>1, <1>2
<1> QED  BY <1>1, <1>3, Zenon DEF Leads

LEMMA LeadsOn ==
  ASSUME NEW t, NEW s, IsSeq(s), s # << >>, NEW n \in 1..Len(s), NEW u,
         Leads(t, s, n, u)
  PROVE  Leads(Applied(t, Head(s)), Tail(s), n - 1, u)
<1>1. PICK f : /\ f[0] = t
               /\ f[n] = u
               /\ \A i \in 1..n : f[i] = Applied(f[i - 1], s[i])
  BY Zenon DEF Leads
<1> DEFINE g == [i \in 0..(n - 1) |-> f[i + 1]]
<1>2. /\ Len(s) \in Nat \ {0} /\ Head(s) = s[1]
      /\ \A i \in 1..(Len(s) - 1) : Tail(s)[i] = s[i + 1]
  BY TailFacts
<1>3. n \in Nat /\ n >= 1 /\ n <= Len(s)
  BY <1>2
<1>4. g[0] = Applied(t, Head(s)) /\ g[n - 1] = u
  <2>1. g[0] = f[0 + 1] /\ g[n - 1] = f[(n - 1) + 1]
    BY <1>3
  <2>2. 0 + 1 = 1 /\ (n - 1) + 1 = n /\ 1 \in 1..n /\ 1 - 1 = 0
    BY <1>3
  <2> QED  BY <1>1, <1>2, <2>1, <2>2
<1>5. ASSUME NEW i \in 1..(n - 1)
      PROVE  g[i] = Applied(g[i - 1], Tail(s)[i])
  <2>1. /\ g[i] = f[i + 1] /\ g[i - 1] = f[(i - 1) + 1]
        /\ i \in 1..(Len(s) - 1) /\ i + 1 \in 1..n /\ (i + 1) - 1 = (i - 1) + 1
    BY <1>3
  <2> QED  BY <1>1, <1>2, <2>1
<1> HIDE DEF g
<1> QED  BY <1>4, <1>5, Zenon DEF Leads

-----------------------------------------------------------------------------
(* What a member multicasts, but the whole table: it tells no joiner        *)
(* anything.                                                                *)
Plain(s) == IsSeq(s) /\ \A i \in DOMAIN s : s[i].type \in {"delta", "status", "prepared"}

LEMMA PlainNone == Plain(<< >>)
BY EmptyFacts DEF Plain

LEMMA PlainOne ==
  ASSUME NEW e, e.type \in {"delta", "status", "prepared"}
  PROVE  Plain(<<e>>)
<1>1. <<e>> \in Seq({e}) /\ DOMAIN <<e>> = {1} /\ <<e>>[1] = e
  OBVIOUS
<1> QED  BY <1>1 DEF Plain, IsSeq

LEMMA StatusIsPlain == \A p, m, s : Status(p, m, s).type = "status"
BY DEF Status

LEMMA PlainConcat ==
  ASSUME NEW r, NEW s, Plain(r), Plain(s)
  PROVE  Plain(r \o s)
<1>1. IsSeq(r) /\ IsSeq(s)
  BY DEF Plain
<1>2. /\ Len(r) \in Nat /\ Len(s) \in Nat
      /\ DOMAIN r = 1..Len(r) /\ DOMAIN s = 1..Len(s)
  BY <1>1, SeqFacts
<1>3. /\ IsSeq(r \o s) /\ DOMAIN (r \o s) = 1..(Len(r) + Len(s))
      /\ \A i \in 1..Len(r) : (r \o s)[i] = r[i]
      /\ \A i \in 1..Len(s) : (r \o s)[Len(r) + i] = s[i]
  BY <1>1, ConcatFacts
<1>4. ASSUME NEW i \in 1..(Len(r) + Len(s))
      PROVE  (r \o s)[i].type \in {"delta", "status", "prepared"}
  <2>1. CASE i \in 1..Len(r)
    BY <1>2, <1>3, <2>1 DEF Plain
  <2>2. CASE i \notin 1..Len(r)
    <3>1. i - Len(r) \in 1..Len(s) /\ Len(r) + (i - Len(r)) = i
      BY <1>2, <2>2
    <3>2. (r \o s)[i] = s[i - Len(r)]
      BY <1>3, <3>1
    <3> QED  BY <1>2, <3>1, <3>2 DEF Plain
  <2> QED  BY <2>1, <2>2
<1> QED  BY <1>3, <1>4 DEF Plain

LEMMA PlainFunction ==
  ASSUME NEW n \in Nat, NEW f, DOMAIN f = 1..n, f = [i \in 1..n |-> f[i]],
         \A i \in 1..n : f[i].type \in {"delta", "status", "prepared"}
  PROVE  Plain(f)
<1>1. f \in [1..n -> {f[i] : i \in 1..n}]
  OBVIOUS
<1>2. IsSeq(f)
  BY <1>1, FunctionIsSeq
<1> QED  BY <1>2 DEF Plain

LEMMA TypedByMembers ==
  ASSUME NEW s, IsSeq(s), NEW S, \A i \in 1..Len(s) : s[i] \in S
  PROVE  s \in Seq(S)
<1>1. PICK T : s \in Seq(T)
  BY DEF IsSeq
<1>2. Len(s) \in Nat /\ s \in [1..Len(s) -> S]
  BY <1>1
<1> QED  BY <1>2

(* What the listeners multicast for several members that leave.             *)
LEMMA PlainFlatten ==
  ASSUME NEW n \in Nat, NEW ss, DOMAIN ss = 1..n, ss = [i \in 1..n |-> ss[i]],
         \A i \in 1..n : Plain(ss[i])
  PROVE  Plain(FlattenSeq(ss))
<1> DEFINE S == UNION {{ss[i][j] : j \in 1..Len(ss[i])} : i \in 1..n}
<1>1. ASSUME NEW i \in 1..n  PROVE ss[i] \in Seq(S)
  <2>1. IsSeq(ss[i])
    BY DEF Plain
  <2>2. \A j \in 1..Len(ss[i]) : ss[i][j] \in S
    OBVIOUS
  <2> HIDE DEF S
  <2> QED  BY <2>1, <2>2, TypedByMembers
<1>2. ASSUME NEW e \in S
      PROVE  e.type \in {"delta", "status", "prepared"}
  <2>0. PICK i \in 1..n : e \in {ss[i][j] : j \in 1..Len(ss[i])}
    BY Zenon
  <2>1. PICK j \in 1..Len(ss[i]) : e = ss[i][j]
    BY <2>0, Zenon
  <2>2. DOMAIN ss[i] = 1..Len(ss[i])
    BY SeqFacts DEF Plain
  <2> QED  BY <2>1, <2>2 DEF Plain
<1> HIDE DEF S
<1>3. ss \in Seq(Seq(S))
  BY <1>1
<1>4. FlattenSeq(ss) \in Seq(S)
  BY <1>3, FlattenType
<1>5. IsSeq(FlattenSeq(ss))
  BY <1>4, Zenon DEF IsSeq
<1>6. \A i \in DOMAIN FlattenSeq(ss) : FlattenSeq(ss)[i] \in S
  BY <1>4
<1> QED  BY <1>2, <1>5, <1>6 DEF Plain

-----------------------------------------------------------------------------
(* The queue of partitions and what is multicast of it.                     *)
LEMMA FirstWithPrimary ==
  ASSUME NEW q, IsSeq(q), NEW tbl, WithPrimary(q, tbl) # {}
  PROVE  Min(WithPrimary(q, tbl)) \in 1..Len(q)
<1>1. DOMAIN q = 1..Len(q) /\ Len(q) \in Nat
  BY SeqFacts
<1>2. WithPrimary(q, tbl) \subseteq 1..Len(q)
  BY <1>1 DEF WithPrimary
<1>3. WithPrimary(q, tbl) \in SUBSET Nat
  BY <1>1, <1>2
<1>4. Min(WithPrimary(q, tbl)) \in WithPrimary(q, tbl)
  BY <1>3, MinOfNats, Zenon
<1> QED  BY <1>2, <1>4

LEMMA MadeTyped ==
  ASSUME NEW S, NEW q \in Seq(S), NEW tbl
  PROVE  Made(q, tbl) \in Seq(S \ {NoPart})
<1> DEFINE first == WithPrimary(q, tbl)
           end   == IF first = {} THEN Len(q) ELSE Min(first) - 1
           Eq(f) == f = [i \in 0..end |-> IF i = 0 THEN << >>
                                          ELSE IF q[i] = NoPart THEN f[i - 1]
                                          ELSE Append(f[i - 1], q[i])]
           made  == CHOOSE f : Eq(f)
<1>1. IsSeq(q)
  BY DEF IsSeq
<1>2. Len(q) \in Nat /\ \A i \in 1..Len(q) : q[i] \in S
  OBVIOUS
<1>3. end \in 0..Len(q)
  BY <1>1, <1>2, FirstWithPrimary
<1>4. Made(q, tbl) = made[end]
  BY Zenon DEF Made
<1> HIDE DEF end, first
<1>5. \A i \in 1..end : q[i] \in S
  BY <1>2, <1>3
<1> DEFINE T == Seq(S \ {NoPart})
           G == [x \in (1..end) \X T |-> IF q[x[1]] = NoPart THEN x[2]
                                         ELSE Append(x[2], q[x[1]])]
           b == << >>
<1>6. b \in T /\ end \in Nat /\ G \in [(1..end) \X T -> T]
  <2>1. ASSUME NEW i \in 1..end, NEW s \in T, q[i] # NoPart  PROVE Append(s, q[i]) \in T
    BY <1>5, <2>1
  <2> HIDE DEF T
  <2>2. ASSUME NEW x \in (1..end) \X T
        PROVE  (IF q[x[1]] = NoPart THEN x[2] ELSE Append(x[2], q[x[1]])) \in T
    BY <2>1
  <2> QED  BY <1>3, <2>2 DEF T
<1> HIDE DEF T, b
<1>7. \A i \in 1..end : \A s \in T :
        G[<<i, s>>] = IF q[i] = NoPart THEN s ELSE Append(s, q[i])
  OBVIOUS
<1> HIDE DEF G
<1>8. PICK f : Evolves(f, T, b, end, G)
  BY <1>6, StepsExist, Zenon
<1>9. Eq(f)
  <2>1. f \in [0..end -> T] /\ f[0] = << >> /\ \A i \in 1..end : f[i] = G[<<i, f[i - 1]>>]
    BY <1>8 DEF Evolves, b
  <2>2. ASSUME NEW i \in 0..end
        PROVE  f[i] = IF i = 0 THEN << >> ELSE IF q[i] = NoPart THEN f[i - 1]
                      ELSE Append(f[i - 1], q[i])
    <3>1. CASE i = 0
      BY <2>1, <3>1
    <3>2. CASE i # 0
      <4>1. i \in 1..end /\ i - 1 \in 0..end
        BY <1>6, <3>2
      <4>2. f[i - 1] \in T /\ f[i] = G[<<i, f[i - 1]>>]
        BY <2>1, <4>1
      <4> QED  BY <1>7, <3>2, <4>1, <4>2
    <3> QED  BY <3>1, <3>2
  <2> QED  BY <2>1, <2>2
<1>10. Eq(made)
  BY <1>9
<1> HIDE DEF made
<1> DEFINE bad == {i \in 0..end : made[i] \notin T}
<1>11. ASSUME bad # {}  PROVE FALSE
  <2> DEFINE k == Min(bad)
  <2>1. bad \in SUBSET Nat
    OBVIOUS
  <2>2. k \in bad /\ \A x \in bad : k <= x
    BY <1>11, <2>1, MinOfNats, Zenon
  <2> HIDE DEF k
  <2>3. k \in 0..end /\ made[k] \notin T
    BY <2>2
  <2>4. made[k] = IF k = 0 THEN << >> ELSE IF q[k] = NoPart THEN made[k - 1]
                  ELSE Append(made[k - 1], q[k])
    BY <1>10, <2>3, Zenon
  <2>5. k # 0
    BY <1>6, <2>3, <2>4 DEF b
  <2>6. k - 1 \in 0..end /\ ~(k <= k - 1) /\ k \in 1..end
    BY <1>6, <2>3, <2>5
  <2>7. made[k - 1] \in T
    BY <2>2, <2>6
  <2>8. q[k] # NoPart => Append(made[k - 1], q[k]) \in T
    BY <1>5, <2>6, <2>7 DEF T
  <2> QED  BY <2>3, <2>4, <2>5, <2>7, <2>8
<1>12. made[end] \in T
  BY <1>6, <1>11
<1> QED  BY <1>4, <1>12 DEF T

LEMMA MadeIsSeq ==
  ASSUME NEW q, IsSeq(q), NEW tbl
  PROVE  IsSeq(Made(q, tbl))
<1>1. PICK S : q \in Seq(S)
  BY DEF IsSeq
<1>2. Made(q, tbl) \in Seq(S \ {NoPart})
  BY <1>1, MadeTyped
<1> QED  BY <1>2 DEF IsSeq

LEMMA StateEventsPlain ==
  ASSUME NEW m, NEW q, IsSeq(q), NEW tbl
  PROVE  Plain(StateEvents(m, q, tbl))
<1> DEFINE n == Len(Made(q, tbl))
           ready == [i \in DOMAIN Made(q, tbl) |-> Status(Made(q, tbl)[i], m, "READY")]
           next == IF NextPart(q, tbl) = NoPart THEN << >>
                   ELSE <<Status(NextPart(q, tbl), m, "MIGRATING")>>
<1>1. n \in Nat /\ DOMAIN Made(q, tbl) = 1..n
  BY MadeIsSeq, SeqFacts
<1>2. Plain(ready)
  <2>1. DOMAIN ready = 1..n /\ ready = [i \in 1..n |-> ready[i]]
    BY <1>1
  <2>2. \A i \in 1..n : ready[i].type = "status"
    BY <1>1, StatusIsPlain
  <2> HIDE DEF ready, n
  <2> QED  BY <1>1, <2>1, <2>2, PlainFunction
<1>3. Plain(next)
  BY PlainNone, PlainOne, StatusIsPlain
<1> HIDE DEF ready, next
<1>4. Plain(ready \o next)
  BY <1>2, <1>3, PlainConcat
<1> QED  BY <1>4 DEF StateEvents, ready, next

LEMMA AfterNextIsSeq ==
  ASSUME NEW q, IsSeq(q), NEW tbl
  PROVE  IsSeq(AfterNext(q, tbl))
<1>1. CASE WithPrimary(q, tbl) = {}
  BY <1>1, EmptyFacts DEF AfterNext
<1>2. CASE WithPrimary(q, tbl) # {}
  <2> DEFINE k == Min(WithPrimary(q, tbl))
  <2>1. k \in 1..Len(q)
    BY <1>2, FirstWithPrimary
  <2>2. PICK S : q \in Seq(S)
    BY DEF IsSeq
  <2> HIDE DEF k
  <2>3. SubSeq(q, k + 1, Len(q)) \in Seq(S)
    BY <2>1, <2>2
  <2>4. AfterNext(q, tbl) = SubSeq(q, k + 1, Len(q))
    BY <1>2 DEF AfterNext, k
  <2> QED  BY <2>3, <2>4 DEF IsSeq
<1> QED  BY <1>1, <1>2

LEMMA PartsFinite == ASSUME NEW S \in SUBSET Parts PROVE IsFiniteSet(S)
<1>1. Partitions \in Nat
  BY BalancerAssumption
<1>2. IsFiniteSet(Parts)
  BY <1>1, FS_Interval DEF Parts
<1> QED  BY <1>2, FS_Subset

LEMMA AscendingIsSeq ==
  ASSUME NEW S \in SUBSET Parts
  PROVE  IsSeq(Ascending(S))
<1>1. Cardinality(S) \in Nat
  BY PartsFinite, FS_CardinalityType
<1> DEFINE n == Cardinality(S)
           f == [i \in 1..n |-> CHOOSE x \in S : Cardinality({y \in S : y < x}) = i - 1]
<1>2. f \in [1..n -> {f[i] : i \in 1..n}]
  OBVIOUS
<1>3. Ascending(S) = f
  BY DEF Ascending
<1> HIDE DEF n, f
<1>4. IsSeq(f)
  BY <1>1, <1>2, FunctionIsSeq DEF n
<1> QED  BY <1>3, <1>4

-----------------------------------------------------------------------------
(* Queues of events and of partitions; what a member multicasts is a table, *)
(* a delta, a status or that a joiner is prepared.                          *)
Queues ==
  /\ inbox = [m \in Ids |-> inbox[m]]
  /\ outbox = [m \in Ids |-> outbox[m]]
  /\ queue = [m \in Ids |-> queue[m]]
  /\ table = [m \in Ids |-> table[m]]
  /\ \A m \in Ids : IsSeq(inbox[m]) /\ IsSeq(outbox[m]) /\ IsSeq(queue[m])
  /\ \A m \in Ids : \A i \in DOMAIN outbox[m] :
       outbox[m][i].type \in {"whole", "delta", "status", "prepared"}
  /\ \A m \in Ids : \A i \in DOMAIN inbox[m] :
       inbox[m][i].type = "left" => inbox[m][i].members \subseteq Ids

QueuesKept == queue' = [m \in Ids |-> queue'[m]] /\ \A m \in Ids : IsSeq(queue'[m])

(* What m multicasts in a step that tells no joiner anything.               *)
SaysPlain(m) == \E s : Plain(s) /\ outbox' = [outbox EXCEPT ![m] = @ \o s]

LEMMA SaysNothing ==
  ASSUME Queues, NEW m \in Ids, outbox' = outbox
  PROVE  SaysPlain(m)
<1>1. PICK S : outbox[m] \in Seq(S)
  BY DEF Queues, IsSeq
<1>2. outbox[m] \o << >> = outbox[m]
  BY <1>1
<1>3. outbox = [outbox EXCEPT ![m] = outbox[m]]
  BY DEF Queues
<1>4. outbox' = [outbox EXCEPT ![m] = @ \o << >>]
  BY <1>2, <1>3
<1> QED  BY <1>4, PlainNone, Zenon DEF SaysPlain

LEMMA SaysThat ==
  ASSUME NEW m, NEW s, Plain(s), Multicast(m, s)
  PROVE  SaysPlain(m)
BY Zenon DEF SaysPlain, Multicast

LEMMA SaysStatus ==
  ASSUME NEW m, NEW p, NEW n, NEW st, Multicast(m, <<Status(p, n, st)>>)
  PROVE  SaysPlain(m)
BY PlainOne, StatusIsPlain, SaysThat

LEMMA QueueChanged ==
  ASSUME Queues, NEW m \in Ids, NEW q, IsSeq(q), queue' = [queue EXCEPT ![m] = q]
  PROVE  QueuesKept
BY DEF Queues, QueuesKept

LEMMA QueueUnchanged == ASSUME Queues, queue' = queue PROVE QueuesKept
BY DEF Queues, QueuesKept

(* A worker that handles a message of the sync service.                     *)
Works(m) ==
  /\ UNCHANGED <<up, group, inbox, table, waiting, answered>>
  /\ SaysPlain(m)
  /\ QueuesKept

LEMMA ActorsWork ==
  ASSUME Queues, NEW msg, msg.to \in Ids, Acts(msg)
  PROVE  Works(msg.to)
<1> DEFINE m == msg.to
<1>1. UNCHANGED <<up, group, inbox, table, waiting, answered>>
  BY DEF Acts, Request, Complete, StoreDone, Finished, StopReceiving, StopSending, Take, historyVars
<1>2. CASE Request(msg)
  <2>1. SaysPlain(m)
    BY <1>2, SaysStatus, SaysNothing DEF Request
  <2>2. QueuesKept
    BY <1>2, QueueUnchanged DEF Request, targetVars
  <2> QED  BY <1>1, <2>1, <2>2 DEF Works
<1>3. CASE Complete(msg)
  BY <1>1, <1>3, SaysNothing, QueueUnchanged DEF Complete, Works
<1>4. CASE StoreDone(msg)
  <2> DEFINE q == queue[m]
             map == [s \in DOMAIN stores[m] |-> IF s = msg.store THEN "READY" ELSE stores[m][s]]
             ends == msg.store \in DOMAIN stores[m] /\ StoresDone(map)
  <2>1. IsSeq(q)
    BY DEF Queues
  <2>2. CASE ends
    <3>1. queue' = [queue EXCEPT ![m] = AfterNext(q, table[m])]
      BY <1>4, <2>2 DEF StoreDone, NextPartition
    <3>2. Multicast(m, <<Status(part[m], m, "READY")>> \o StateEvents(m, q, table[m]))
      BY <1>4, <2>2 DEF StoreDone
    <3>3. Plain(<<Status(part[m], m, "READY")>> \o StateEvents(m, q, table[m]))
      BY <2>1, PlainOne, StatusIsPlain, StateEventsPlain, PlainConcat
    <3>4. SaysPlain(m)
      BY <3>2, <3>3, SaysThat
    <3>5. QueuesKept
      BY <2>1, <3>1, AfterNextIsSeq, QueueChanged
    <3> QED  BY <1>1, <3>4, <3>5 DEF Works
  <2>3. CASE ~ends
    <3>1. outbox' = outbox /\ queue' = queue
      BY <1>4, <2>3 DEF StoreDone
    <3> QED  BY <1>1, <3>1, SaysNothing, QueueUnchanged DEF Works
  <2> QED  BY <2>2, <2>3
<1>5. CASE Finished(msg)
  <2>1. SaysPlain(m)
    BY <1>5, SaysStatus, SaysNothing DEF Finished
  <2>2. QueuesKept
    BY <1>5, QueueUnchanged DEF Finished, targetVars
  <2> QED  BY <1>1, <2>1, <2>2 DEF Works
<1>6. CASE StopReceiving(msg)
  BY <1>1, <1>6, SaysNothing, QueueUnchanged DEF StopReceiving, Works
<1>7. CASE StopSending(msg)
  BY <1>1, <1>7, SaysNothing, QueueUnchanged DEF StopSending, targetVars, Works
<1> QED  BY <1>2, <1>3, <1>4, <1>5, <1>6, <1>7 DEF Acts

-----------------------------------------------------------------------------
(* The dispatch thread.  What it dispatches changes the table of m as it    *)
(* does anybody's; that another member joined is a case of its own.         *)
Dispatched(m) ==
  /\ m \in up
  /\ inbox[m] # << >>
  /\ Head(inbox[m]).type = "joined" => Head(inbox[m]).member = m
  /\ inbox' = [inbox EXCEPT ![m] = Tail(@)]
  /\ table' = [table EXCEPT ![m] = Applied(@, Head(inbox[m]))]
  /\ UNCHANGED <<up, group, waiting, answered>>
  /\ SaysPlain(m)
  /\ QueuesKept

LEMMA IdsFinite == ASSUME NEW S \in SUBSET Ids PROVE IsFiniteSet(S)
<1>1. MemberCount \in Nat
  BY BalancerAssumption
<1>2. IsFiniteSet(Ids)
  BY <1>1, FS_Interval DEF Ids
<1> QED  BY <1>2, FS_Subset

LEMMA LeaveOrderFacts ==
  ASSUME NEW e, e.members \subseteq Ids
  PROVE  /\ IsSeq(LeaveOrder(e))
         /\ \A x \in e.members : \E i \in DOMAIN LeaveOrder(e) : LeaveOrder(e)[i] = x
<1> DEFINE first == e.members \cap {e.group.leading}
           others == e.members \ first
           r == SetToSeq(first)
           s == SetToSeq(others)
           n == Cardinality(first)
           k == Cardinality(others)
<1>1. /\ n \in Nat /\ r \in [1..n -> first] /\ \A x \in first : \E i \in 1..n : r[i] = x
      /\ k \in Nat /\ s \in [1..k -> others] /\ \A x \in others : \E i \in 1..k : s[i] = x
  <2>1. first \in SUBSET Ids /\ others \in SUBSET Ids
    OBVIOUS
  <2>2. IsFiniteSet(first) /\ IsFiniteSet(others)
    BY <2>1, IdsFinite
  <2> HIDE DEF first, others
  <2> QED  BY <2>2, SetToSeqEnumerates
<1>2. LeaveOrder(e) = r \o s
  BY DEF LeaveOrder
<1>3. \A x \in e.members : x \in first \/ x \in others
  OBVIOUS
<1> HIDE DEF first, others, r, s, n, k
<1>4. IsSeq(r) /\ Len(r) = n /\ IsSeq(s) /\ Len(s) = k
  BY <1>1, FunctionIsSeq
<1>5. /\ IsSeq(r \o s) /\ DOMAIN (r \o s) = 1..(n + k)
      /\ \A i \in 1..n : (r \o s)[i] = r[i]
      /\ \A i \in 1..k : (r \o s)[n + i] = s[i]
  BY <1>4, ConcatFacts
<1>6. ASSUME NEW x \in e.members
      PROVE  \E i \in DOMAIN (r \o s) : (r \o s)[i] = x
  <2>1. CASE x \in first
    <3>1. PICK i \in 1..n : r[i] = x
      BY <1>1, <2>1
    <3>2. i \in 1..(n + k)
      BY <1>1
    <3> QED  BY <1>5, <3>1, <3>2
  <2>2. CASE x \in others
    <3>1. PICK i \in 1..k : s[i] = x
      BY <1>1, <2>2
    <3>2. n + i \in 1..(n + k)
      BY <1>1
    <3> QED  BY <1>5, <3>1, <3>2
  <2> QED  BY <1>3, <2>1, <2>2
<1> QED  BY <1>2, <1>5, <1>6

LEMMA BalancesSay ==
  ASSUME NEW m, NEW available, NEW changed, NEW d \in Balances(m, available, changed)
  PROVE  d.type = "delta"
<1>1. \A items : DeltaEvent(items).type = "delta"
  BY DEF DeltaEvent
<1>2. PICK new \in Balance(table[m], available, changed) : d = DeltaEvent(Delta(table[m], new))
  BY Zenon DEF Balances
<1> QED  BY <1>1, <1>2

LEMMA DeltasPlain ==
  ASSUME NEW m, NEW e, NEW deltas \in LeaveDeltas(m, e), NEW i \in DOMAIN LeaveOrder(e)
  PROVE  Plain(deltas[i])
<1> DEFINE order == LeaveOrder(e)
           stay(j) == Available(e.group) \ {order[x] : x \in 1..j}
           from(j) == {<<d>> : d \in Balances(m, stay(j), order[j])}
<1>1. CASE WithLeft(e.group, e.members).leading # m
  <2>1. deltas = [j \in DOMAIN order |-> << >>]
    BY <1>1 DEF LeaveDeltas
  <2> QED  BY <2>1, PlainNone
<1>2. CASE ~(WithLeft(e.group, e.members).leading # m)
  <2>1. deltas[i] \in from(i)
    BY <1>2 DEF LeaveDeltas
  <2>2. PICK d \in Balances(m, stay(i), order[i]) : deltas[i] = <<d>>
    BY <2>1
  <2>3. d.type = "delta"
    BY <2>2, BalancesSay
  <2> QED  BY <2>2, <2>3, PlainOne
<1> QED  BY <1>1, <1>2

LEMMA ReleasedPlain ==
  ASSUME NEW m, NEW order, NEW i
  PROVE  Plain(ReleasedBy(m, order, i))
<1> DEFINE released == {p \in Parts : /\ order[i] \in targets[m][p]
                                      /\ targets[m][p] \subseteq {order[j] : j \in 1..i}}
           n == Cardinality(released)
           f == [k \in 1..n |-> Status(Ascending(released)[k], m, "READY")]
<1>1. released \in SUBSET Parts
  OBVIOUS
<1>2. n \in Nat
  <2> HIDE DEF released
  <2> QED  BY <1>1, PartsFinite, FS_CardinalityType
<1>3. ReleasedBy(m, order, i) = f
  BY DEF ReleasedBy
<1>4. \A k \in 1..n : f[k].type = "status"
  BY StatusIsPlain
<1> HIDE DEF n
<1>5. DOMAIN f = 1..n /\ f = [k \in 1..n |-> f[k]]
  OBVIOUS
<1> HIDE DEF f
<1> QED  BY <1>2, <1>3, <1>4, <1>5, PlainFunction

LEMMA LeavingSays ==
  ASSUME Queues, NEW m \in Ids, Leaving(m)
  PROVE  SaysPlain(m) /\ QueuesKept
<1> DEFINE event == NextEvent(m)
           gone  == event.members
           order == LeaveOrder(event)
           orphan == Departs(event) /\ part[m] # NoPart /\ source[m] \in gone
           q     == Append(queue[m], part[m])
           hangs == orphan /\ NextPart(q, table[m]) # NoPart
           last  == IF hangs THEN CHOOSE i \in DOMAIN order : order[i] = source[m] ELSE Len(order)
           again(i) == IF orphan /\ order[i] = source[m] THEN StateEvents(m, q, table[m]) ELSE << >>
           passes(i) == ~(hangs /\ i = last)
           told  == [i \in 1..last |->
                       again(i) \o (IF passes(i) THEN ReleasedBy(m, order, i) ELSE << >>)]
<1>1. event.members \subseteq Ids
  <2>1. inbox[m] # << >> /\ event.type = "left" /\ event = Head(inbox[m])
    BY DEF Leaving, Faces, NextEvent
  <2>2. IsSeq(inbox[m])
    BY DEF Queues
  <2>3. event = inbox[m][1] /\ 1 \in DOMAIN inbox[m]
    BY <2>1, <2>2, TailFacts, SeqFacts
  <2> QED  BY <2>1, <2>3 DEF Queues
<1>2. IsSeq(order) /\ \A x \in gone : \E i \in DOMAIN order : order[i] = x
  BY <1>1, LeaveOrderFacts
<1>3. Len(order) \in Nat /\ DOMAIN order = 1..Len(order)
  BY <1>2, SeqFacts
<1>4. IsSeq(queue[m]) /\ IsSeq(q)
  BY AppendFacts DEF Queues
<1>5. last \in 0..Len(order)
  <2>1. CASE hangs
    <3>1. \E i \in DOMAIN order : order[i] = source[m]
      BY <1>2, <2>1
    <3> HIDE DEF order, hangs
    <3>2. last \in DOMAIN order
      BY <2>1, <3>1
    <3> QED  BY <1>3, <3>2
  <2>2. CASE ~hangs
    <3> HIDE DEF order, hangs
    <3> QED  BY <1>3, <2>2
  <2> QED  BY <2>1, <2>2
<1>6. ASSUME NEW i \in 1..last  PROVE Plain(told[i])
  <2>1. Plain(again(i))
    BY <1>4, StateEventsPlain, PlainNone
  <2>2. Plain(IF passes(i) THEN ReleasedBy(m, order, i) ELSE << >>)
    BY ReleasedPlain, PlainNone
  <2>3. told[i] = again(i) \o (IF passes(i) THEN ReleasedBy(m, order, i) ELSE << >>)
    OBVIOUS
  <2> HIDE DEF told, again, passes, order
  <2> QED  BY <2>1, <2>2, <2>3, PlainConcat
<1>7. SaysPlain(m)
  <2>1. HandleLeft(m, told, ~hangs)
    BY Zenon DEF Leaving
  <2>2. CASE ~Departs(event)
    <3>1. outbox' = outbox
      BY <2>1, <2>2 DEF HandleLeft
    <3> QED  BY <3>1, SaysNothing
  <2>3. CASE Departs(event)
    <3> DEFINE Joined1(deltas) ==
                 [i \in DOMAIN told |->
                   IF order[i] # event.group.leading THEN deltas[i] \o told[i]
                   ELSE IF i = Len(told) /\ ~(~hangs) THEN told[i]
                   ELSE told[i] \o deltas[i]]
    <3> HIDE DEF told, hangs
    <3>1. PICK deltas \in LeaveDeltas(m, event) : Multicast(m, FlattenSeq(Joined1(deltas)))
      BY <2>1, <2>3, Zenon DEF HandleLeft
    <3>2. DOMAIN told = 1..last /\ last \in Nat
      BY <1>3, <1>5 DEF told
    <3>3. ASSUME NEW i \in 1..last  PROVE Plain(Joined1(deltas)[i])
      <4>1. Plain(told[i])
        BY <1>6
      <4>2. i \in DOMAIN LeaveOrder(event)
        BY <1>3, <1>5
      <4>3. Plain(deltas[i])
        BY <4>2, DeltasPlain
      <4>4. Plain(deltas[i] \o told[i]) /\ Plain(told[i] \o deltas[i])
        BY <4>1, <4>3, PlainConcat
      <4> HIDE DEF event, order, last
      <4> QED  BY <3>2, <4>1, <4>4
    <3>4. DOMAIN Joined1(deltas) = 1..last /\ Joined1(deltas) = [i \in 1..last |-> Joined1(deltas)[i]]
      BY <3>2
    <3> HIDE DEF Joined1, last
    <3>5. Plain(FlattenSeq(Joined1(deltas)))
      BY <3>2, <3>3, <3>4, PlainFlatten
    <3> QED  BY <3>1, <3>5, SaysThat
  <2> QED  BY <2>2, <2>3
<1>8. QueuesKept
  <2>1. CASE orphan
    <3>1. queue' = [queue EXCEPT ![m] = AfterNext(q, table[m])]
      BY <2>1 DEF Leaving, NextPartition
    <3> QED  BY <1>4, <3>1, AfterNextIsSeq, QueueChanged
  <2>2. CASE ~orphan
    <3>1. queue' = queue
      BY <2>2 DEF Leaving, targetVars
    <3> QED  BY <3>1, QueueUnchanged
  <2> QED  BY <2>1, <2>2
<1> QED  BY <1>7, <1>8

LEMMA ChangingSays ==
  ASSUME Queues, NEW m \in Ids, Changing(m)
  PROVE  SaysPlain(m) /\ QueuesKept
<1> DEFINE items == NextEvent(m).items
           dels == {p \in Parts : <<p, m>> \in DelActions(table'[m], items)}
           adds == {p \in Parts : <<p, m>> \in NewActions(table'[m], items)}
           left == [i \in DOMAIN queue[m] |-> IF queue[m][i] \in dels THEN NoPart ELSE queue[m][i]]
           q    == left \o Ascending(adds)
<1>1. IsSeq(q)
  <2>1. IsSeq(queue[m])
    BY DEF Queues
  <2>2. Len(queue[m]) \in Nat /\ DOMAIN queue[m] = 1..Len(queue[m])
    BY <2>1, SeqFacts
  <2>3. left \in [1..Len(queue[m]) -> {left[i] : i \in 1..Len(queue[m])}]
    BY <2>2
  <2>4. adds \in SUBSET Parts
    OBVIOUS
  <2> HIDE DEF left, adds
  <2>5. IsSeq(left)
    BY <2>2, <2>3, FunctionIsSeq
  <2>6. IsSeq(Ascending(adds))
    BY <2>4, AscendingIsSeq
  <2> QED  BY <2>5, <2>6, ConcatFacts
<1>2. CASE part[m] = NoPart
  <2>1. /\ NextPartition(m, q, table'[m], FALSE, net, rows[m] \ ((dels \ {part[m]}) \X Stores
             \cup (IF part[m] \in dels THEN Got(m) ELSE {})))
        /\ Multicast(m, StateEvents(m, q, table'[m]))
    BY <1>2, Zenon DEF Changing
  <2> HIDE DEF q
  <2>2. queue' = [queue EXCEPT ![m] = AfterNext(q, table'[m])]
    BY <2>1 DEF NextPartition
  <2>3. Plain(StateEvents(m, q, table'[m])) /\ IsSeq(AfterNext(q, table'[m]))
    BY <1>1, StateEventsPlain, AfterNextIsSeq
  <2> QED  BY <2>1, <2>2, <2>3, SaysThat, QueueChanged
<1>3. CASE part[m] # NoPart
  <2>1. queue' = [queue EXCEPT ![m] = q] /\ outbox' = outbox
    BY <1>3, Zenon DEF Changing
  <2> QED  BY <1>1, <2>1, SaysNothing, QueueChanged
<1> QED  BY <1>2, <1>3

LEMMA HandlersDispatch ==
  ASSUME Queues, NEW m \in Ids, Receiving(m) \/ Noting(m) \/ Changing(m) \/ Leaving(m)
  PROVE  Dispatched(m)
<1> DEFINE e == Head(inbox[m])
<1>1. CASE Receiving(m)
  <2>1. SaysPlain(m) /\ QueuesKept
    BY <1>1, SaysNothing, QueueUnchanged
    DEF Receiving, HandleWhole, UnchangedMigration, targetVars
  <2>2. e.type = "whole" /\ table' = [table EXCEPT ![m] = e.table]
    BY <1>1 DEF Receiving, HandleWhole, Dispatch, Faces, NextEvent
  <2>3. Applied(table[m], e) = e.table
    BY <2>2 DEF Applied
  <2> QED  BY <1>1, <2>1, <2>2, <2>3
           DEF Receiving, HandleWhole, Dispatch, Faces, NextEvent, Dispatched, historyVars
<1>2. CASE Noting(m)
  <2>1. SaysPlain(m) /\ QueuesKept
    BY <1>2, SaysNothing, QueueUnchanged
    DEF Noting, HandleStatus, UnchangedMigration, targetVars
  <2>2. e.type = "status" /\ table' = [table EXCEPT ![m] = StatusChanged(@, e.part, e.member, e.state)]
    BY <1>2 DEF Noting, HandleStatus, Dispatch, Faces, NextEvent
  <2>3. Applied(table[m], e) = StatusChanged(table[m], e.part, e.member, e.state)
    BY <2>2 DEF Applied
  <2> QED  BY <1>2, <2>1, <2>2, <2>3
           DEF Noting, HandleStatus, Dispatch, Faces, NextEvent, Dispatched, historyVars
<1>3. CASE Changing(m)
  <2>1. SaysPlain(m) /\ QueuesKept
    BY <1>3, ChangingSays
  <2>2. e.type = "delta" /\ table' = [table EXCEPT ![m] = ApplyDelta(@, e.items)]
    BY <1>3 DEF Changing, HandleDelta, Dispatch, Faces, NextEvent
  <2>3. Applied(table[m], e) = ApplyDelta(table[m], e.items)
    BY <2>2 DEF Applied
  <2> QED  BY <1>3, <2>1, <2>2, <2>3
           DEF Changing, HandleDelta, Dispatch, Faces, NextEvent, Dispatched, historyVars
<1>4. CASE Leaving(m)
  <2>1. SaysPlain(m) /\ QueuesKept
    BY <1>4, LeavingSays
  <2>2. /\ e.type = "left" /\ table' = table /\ m \in up /\ inbox[m] # << >>
        /\ inbox' = [inbox EXCEPT ![m] = Tail(@)] /\ UNCHANGED <<up, group>>
    BY <1>4 DEF Leaving, HandleLeft, Dispatch, Faces, NextEvent
  <2>3. Applied(table[m], e) = table[m]
    BY <2>2 DEF Applied
  <2>4. table = [table EXCEPT ![m] = table[m]]
    BY DEF Queues
  <2>5. UNCHANGED <<waiting, answered>>
    BY <1>4 DEF Leaving, historyVars
  <2> QED  BY <2>1, <2>2, <2>3, <2>4, <2>5 DEF Dispatched
<1> QED  BY <1>1, <1>2, <1>3, <1>4

-----------------------------------------------------------------------------
(* Who is a member, and what CPG holds for whom.                            *)
Grouped ==
  /\ group \in [state : [Ids -> {"INACTIVE", "JOINED", "PREPARED"}], leading : Ids \cup {NoMember}]
  /\ up \subseteq Ids
  /\ up \subseteq Available(group)
  /\ waiting \subseteq up
  /\ answered \in BOOLEAN
  /\ group.leading = NoMember => up = {}
  /\ \A m \in Ids \ up : /\ inbox[m] = << >>
                         /\ \A i \in DOMAIN outbox[m] : outbox[m][i].type # "whole"

(* Entry i of what l has yet to dispatch, or to have ordered, is about the  *)
(* table that a process at position j waits for.                            *)
Due(l, i, j)  == /\ i \in DOMAIN inbox[l]
                 /\ inbox[l][i].type = "joined"
                 /\ inbox[l][i].member = j
Told(l, i, j) == /\ i \in DOMAIN outbox[l]
                 /\ outbox[l][i].type = "whole"
                 /\ outbox[l][i].member = j

(* What m has yet to dispatch makes its table u in the end.                 *)
Ends(m, u) == Leads(table[m], inbox[m], Len(inbox[m]), u)
EachEnds   == \A m \in up : \E u : Ends(m, u)

(* The members that have their tables are going to have the same one, which *)
(* is what the leading member tells a joiner.                               *)
Meet(final) == \A m \in up \ waiting : Ends(m, final)

DueInTime(final) ==
  \A l, j \in up : \A i \in Nat : Due(l, i, j) /\ j # l =>
    l = group.leading /\ j \in waiting /\ Leads(table[l], inbox[l], i - 1, final)

ToldInTime(final) ==
  \A l, j \in up : \A i \in Nat : Told(l, i, j) =>
    l = group.leading /\ j \in waiting /\ outbox[l][i].table = final

(* A joiner is answered once.                                               *)
AnswersOnce ==
  \A l, j \in up : \A i, k \in Nat :
    /\ Due(l, i, j) /\ Due(l, k, j) => i = k
    /\ Told(l, i, j) /\ Told(l, k, j) => i = k
    /\ ~(Due(l, i, j) /\ Told(l, k, j))

(* Nobody waits without an answer on its way.                               *)
Served ==
  \A j \in waiting : \E i \in Nat : Due(group.leading, i, j) \/ Told(group.leading, i, j)

Agreed ==
  /\ group.leading \notin waiting
  /\ AnswersOnce
  /\ Served
  /\ \E final : Meet(final) /\ DueInTime(final) /\ ToldInTime(final)

AgreementInv == Queues /\ Grouped /\ EachEnds /\ (answered => Agreed)

LEMMA PlainKeeps ==
  ASSUME Queues, NEW m \in Ids, SaysPlain(m)
  PROVE  /\ outbox' = [n \in Ids |-> outbox'[n]]
         /\ \A n \in Ids : IsSeq(outbox'[n])
         /\ \A n \in Ids : \A i \in DOMAIN outbox'[n] :
              /\ outbox'[n][i].type \in {"whole", "delta", "status", "prepared"}
              /\ outbox'[n][i].type = "whole" =>
                   i \in DOMAIN outbox[n] /\ outbox'[n][i] = outbox[n][i]
         /\ \A n \in Ids \ {m} : outbox'[n] = outbox[n]
         /\ \A l \in Ids, i \in Nat : \A j :
              /\ Told(l, i, j)' => Told(l, i, j) /\ outbox'[l][i] = outbox[l][i]
              /\ Told(l, i, j) => Told(l, i, j)'
<1> DEFINE r == outbox[m]
<1>1. PICK s : Plain(s) /\ outbox' = [outbox EXCEPT ![m] = @ \o s]
  BY Zenon DEF SaysPlain
<1>2. outbox = [n \in Ids |-> outbox[n]] /\ \A n \in Ids : IsSeq(outbox[n])
  BY DEF Queues
<1>3. outbox'[m] = r \o s /\ \A n \in Ids \ {m} : outbox'[n] = outbox[n]
  BY <1>1, <1>2
<1>4. outbox' = [n \in Ids |-> outbox'[n]]
  BY <1>1, <1>2
<1>5. IsSeq(r) /\ IsSeq(s)
  BY <1>1, <1>2 DEF Plain
<1> HIDE DEF r
<1>6. /\ IsSeq(r \o s) /\ DOMAIN (r \o s) = 1..(Len(r) + Len(s))
      /\ \A i \in 1..Len(r) : (r \o s)[i] = r[i]
      /\ \A i \in 1..Len(s) : (r \o s)[Len(r) + i] = s[i]
      /\ Len(r) \in Nat /\ Len(s) \in Nat
      /\ DOMAIN r = 1..Len(r) /\ DOMAIN s = 1..Len(s)
  BY <1>5, ConcatFacts, SeqFacts
<1>7. ASSUME NEW i \in DOMAIN (r \o s)
      PROVE  \/ i \in DOMAIN r /\ (r \o s)[i] = r[i]
             \/ (r \o s)[i].type \in {"delta", "status", "prepared"}
  <2>1. CASE i \in 1..Len(r)
    BY <1>6, <2>1
  <2>2. CASE i \notin 1..Len(r)
    <3>1. i - Len(r) \in DOMAIN s /\ (r \o s)[i] = s[i - Len(r)]
      <4>1. i - Len(r) \in 1..Len(s) /\ Len(r) + (i - Len(r)) = i
        BY <1>6, <2>2
      <4> QED  BY <1>6, <4>1
    <3> QED  BY <1>1, <3>1 DEF Plain
  <2> QED  BY <2>1, <2>2
<1>8. ASSUME NEW n \in Ids, NEW i \in DOMAIN outbox'[n]
      PROVE  /\ outbox'[n][i].type \in {"whole", "delta", "status", "prepared"}
             /\ outbox'[n][i].type = "whole" => i \in DOMAIN outbox[n] /\ outbox'[n][i] = outbox[n][i]
  <2>1. CASE n = m
    BY <1>3, <1>7, <2>1 DEF r, Queues
  <2>2. CASE n # m
    BY <1>3, <2>2 DEF Queues
  <2> QED  BY <2>1, <2>2
<1>9. \A n \in Ids : IsSeq(outbox'[n])
  BY <1>2, <1>3, <1>6
<1>10. ASSUME NEW l \in Ids, NEW i \in Nat, NEW j, Told(l, i, j)'
       PROVE  Told(l, i, j) /\ outbox'[l][i] = outbox[l][i]
  BY <1>8, <1>10 DEF Told
<1>11. ASSUME NEW l \in Ids, NEW i \in Nat, NEW j, Told(l, i, j)
       PROVE  Told(l, i, j)'
  <2>1. CASE l = m
    <3>1. i \in 1..Len(r)
      BY <1>6, <1>11, <2>1 DEF Told, r
    <3>2. i \in DOMAIN outbox'[m] /\ outbox'[m][i] = outbox[m][i]
      BY <1>3, <1>6, <3>1 DEF r
    <3> QED  BY <1>11, <2>1, <3>2 DEF Told
  <2>2. CASE l # m
    BY <1>3, <1>11, <2>2 DEF Told
  <2> QED  BY <2>1, <2>2
<1> QED  BY <1>3, <1>4, <1>8, <1>9, <1>10, <1>11

(* Workers of the sync service change no table and tell no joiner anything. *)
LEMMA WorkAgrees ==
  ASSUME AgreementInv, NEW m \in Ids, Works(m)
  PROVE  AgreementInv'
<1> USE DEF AgreementInv
<1>1. UNCHANGED <<up, group, inbox, table, waiting, answered>> /\ SaysPlain(m) /\ QueuesKept
  BY DEF Works
<1>2. /\ outbox' = [n \in Ids |-> outbox'[n]]
      /\ \A n \in Ids : IsSeq(outbox'[n])
      /\ \A n \in Ids : \A i \in DOMAIN outbox'[n] :
           /\ outbox'[n][i].type \in {"whole", "delta", "status", "prepared"}
           /\ outbox'[n][i].type = "whole" =>
                i \in DOMAIN outbox[n] /\ outbox'[n][i] = outbox[n][i]
      /\ \A n \in Ids \ {m} : outbox'[n] = outbox[n]
      /\ \A l \in Ids, i \in Nat : \A j :
           /\ Told(l, i, j)' => Told(l, i, j) /\ outbox'[l][i] = outbox[l][i]
           /\ Told(l, i, j) => Told(l, i, j)'
  BY <1>1, PlainKeeps
<1>3. Queues'
  BY <1>1, <1>2 DEF Queues, QueuesKept
<1>4. Grouped'
  <2>1. \A n \in Ids \ up : \A i \in DOMAIN outbox'[n] : outbox'[n][i].type # "whole"
    BY <1>2 DEF Grouped
  <2> QED  BY <1>1, <2>1 DEF Grouped, Available
<1>5. EachEnds'
  BY <1>1 DEF EachEnds, Ends
<1>6. ASSUME answered'  PROVE Agreed'
  <2>1. Agreed
    BY <1>1, <1>6
  <2>2. PICK final : Meet(final) /\ DueInTime(final) /\ ToldInTime(final)
    BY <2>1 DEF Agreed
  <2>3. Meet(final)' /\ DueInTime(final)'
    BY <1>1, <2>2 DEF Meet, Ends, DueInTime, Due
  <2>4. ToldInTime(final)'
    <3> SUFFICES ASSUME NEW l \in up', NEW j \in up', NEW i \in Nat, Told(l, i, j)'
                 PROVE  (l = group.leading /\ j \in waiting /\ outbox[l][i].table = final)'
      BY Zenon DEF ToldInTime
    <3>1. l \in up /\ j \in up /\ l \in Ids
      BY <1>1 DEF Grouped
    <3>2. Told(l, i, j) /\ outbox'[l][i] = outbox[l][i]
      BY <1>2, <3>1
    <3> QED  BY <1>1, <2>2, <3>1, <3>2 DEF ToldInTime
  <2>5. AnswersOnce'
    <3> SUFFICES ASSUME NEW l \in up', NEW j \in up', NEW i \in Nat, NEW k \in Nat
                 PROVE  /\ Due(l, i, j)' /\ Due(l, k, j)' => i = k
                        /\ Told(l, i, j)' /\ Told(l, k, j)' => i = k
                        /\ ~(Due(l, i, j)' /\ Told(l, k, j)')
      BY Zenon DEF AnswersOnce
    <3>1. l \in up /\ j \in up /\ l \in Ids
      BY <1>1 DEF Grouped
    <3>2. (Due(l, i, j)' => Due(l, i, j)) /\ (Due(l, k, j)' => Due(l, k, j))
      BY <1>1 DEF Due
    <3>3. (Told(l, i, j)' => Told(l, i, j)) /\ (Told(l, k, j)' => Told(l, k, j))
      BY <1>2, <3>1
    <3> QED  BY <2>1, <3>1, <3>2, <3>3 DEF Agreed, AnswersOnce
  <2>6. Served'
    <3>1. \A j \in waiting' : \E i \in Nat : Due(group.leading, i, j) \/ Told(group.leading, i, j)
      BY <1>1, <2>1 DEF Agreed, Served
    <3>2. (group'.leading = group.leading /\ group.leading \in Ids) \/ waiting' = {}
      BY <1>1 DEF Grouped
    <3>3. \A i, j : Due(group.leading, i, j) => Due(group.leading, i, j)'
      BY <1>1 DEF Due
    <3> QED  BY <1>1, <1>2, <3>1, <3>2, <3>3 DEF Served
  <2> QED  BY <1>1, <2>1, <2>3, <2>4, <2>5, <2>6, Zenon DEF Agreed
<1> QED  BY <1>3, <1>4, <1>5, <1>6


(* What the head of an inbox leaves behind when it is dispatched.           *)
LEMMA Popped ==
  ASSUME Queues, NEW m \in Ids, inbox[m] # << >>, inbox' = [inbox EXCEPT ![m] = Tail(@)]
  PROVE  /\ inbox' = [n \in Ids |-> inbox'[n]]
         /\ \A n \in Ids : IsSeq(inbox'[n])
         /\ \A n \in Ids : \A i \in DOMAIN inbox'[n] :
              inbox'[n][i].type = "left" => inbox'[n][i].members \subseteq Ids
         /\ \A n \in Ids \ {m} : inbox'[n] = inbox[n]
         /\ inbox'[m] = Tail(inbox[m]) /\ Len(inbox'[m]) = Len(inbox[m]) - 1
         /\ Len(inbox[m]) \in Nat \ {0} /\ Head(inbox[m]) = inbox[m][1]
         /\ \A l \in Ids \ {m}, i \in Nat : \A j : Due(l, i, j)' <=> Due(l, i, j)
         /\ \A i \in Nat : \A j :
              /\ Due(m, i, j)' => i + 1 \in 2..Len(inbox[m]) /\ Due(m, i + 1, j)
              /\ Due(m, i, j) /\ i # 1 => i - 1 \in Nat /\ Due(m, i - 1, j)'
<1> DEFINE s == inbox[m]
<1>1. inbox = [n \in Ids |-> inbox[n]] /\ \A n \in Ids : IsSeq(inbox[n])
  BY DEF Queues
<1>2. /\ inbox'[m] = Tail(s) /\ \A n \in Ids \ {m} : inbox'[n] = inbox[n]
      /\ inbox' = [n \in Ids |-> inbox'[n]]
  BY <1>1
<1>3. /\ IsSeq(Tail(s)) /\ Len(Tail(s)) = Len(s) - 1 /\ Head(s) = s[1]
      /\ Len(s) \in Nat \ {0} /\ DOMAIN Tail(s) = 1..(Len(s) - 1)
      /\ \A i \in 1..(Len(s) - 1) : Tail(s)[i] = s[i + 1]
  BY <1>1, TailFacts
<1>4. DOMAIN s = 1..Len(s)
  BY <1>1, SeqFacts
<1>5. \A i \in 1..(Len(s) - 1) : i + 1 \in DOMAIN s /\ i + 1 \in 2..Len(s)
  BY <1>3, <1>4
<1>6. ASSUME NEW n \in Ids, NEW i \in DOMAIN inbox'[n], inbox'[n][i].type = "left"
      PROVE  inbox'[n][i].members \subseteq Ids
  <2>1. CASE n = m
    BY <1>2, <1>3, <1>5, <1>6, <2>1 DEF Queues
  <2>2. CASE n # m
    BY <1>2, <1>6, <2>2 DEF Queues
  <2> QED  BY <2>1, <2>2
<1>7. ASSUME NEW i \in Nat, NEW j, Due(m, i, j)'
      PROVE  i + 1 \in 2..Len(s) /\ Due(m, i + 1, j)
  <2>1. i \in 1..(Len(s) - 1)
    BY <1>2, <1>3, <1>7 DEF Due
  <2>2. inbox'[m][i] = s[i + 1]
    BY <1>2, <1>3, <2>1
  <2> QED  BY <1>5, <1>7, <2>1, <2>2 DEF Due
<1>8. ASSUME NEW i \in Nat, NEW j, Due(m, i, j), i # 1
      PROVE  i - 1 \in Nat /\ Due(m, i - 1, j)'
  <2>1. i - 1 \in 1..(Len(s) - 1) /\ (i - 1) + 1 = i
    BY <1>3, <1>4, <1>8 DEF Due
  <2>2. inbox'[m][i - 1] = s[i]
    BY <1>2, <1>3, <2>1
  <2>3. i - 1 \in DOMAIN inbox'[m]
    BY <1>2, <1>3, <2>1
  <2> QED  BY <1>8, <2>1, <2>2, <2>3 DEF Due
<1>9. \A l \in Ids \ {m}, i \in Nat : \A j : Due(l, i, j)' <=> Due(l, i, j)
  BY <1>2 DEF Due
<1> QED  BY <1>1, <1>2, <1>3, <1>6, <1>7, <1>8, <1>9

(* Dispatching the head of its inbox takes a member where it was going.     *)
LEMMA Advances ==
  ASSUME Queues, Grouped, NEW m \in up, inbox[m] # << >>,
         inbox' = [inbox EXCEPT ![m] = Tail(@)],
         table' = [table EXCEPT ![m] = Applied(@, Head(inbox[m]))],
         UNCHANGED <<up, group, waiting>>
  PROVE  /\ table' = [n \in Ids |-> table'[n]]
         /\ EachEnds => EachEnds'
         /\ \A final : Meet(final) => Meet(final)'
         /\ \A final : DueInTime(final) => DueInTime(final)'
<1> DEFINE s == inbox[m]
           e == Head(s)
<1>0. up' = up /\ up \subseteq Ids /\ m \in Ids
  BY DEF Grouped
<1>1. /\ \A n \in Ids \ {m} : inbox'[n] = inbox[n]
      /\ inbox'[m] = Tail(s) /\ Len(inbox'[m]) = Len(s) - 1
      /\ Len(s) \in Nat \ {0}
      /\ \A l \in Ids \ {m}, i \in Nat : \A j : Due(l, i, j)' <=> Due(l, i, j)
      /\ \A i \in Nat : \A j : Due(m, i, j)' => i + 1 \in 2..Len(s) /\ Due(m, i + 1, j)
  BY <1>0, Popped
<1>2. /\ table' = [n \in Ids |-> table'[n]] /\ table'[m] = Applied(table[m], e)
      /\ \A n \in Ids \ {m} : table'[n] = table[n]
  BY <1>0 DEF Queues
<1>3. ASSUME NEW n \in 1..Len(s), NEW u, Leads(table[m], s, n, u)
      PROVE  Leads(table'[m], inbox'[m], n - 1, u)
  <2>1. IsSeq(s)
    BY <1>0 DEF Queues
  <2>2. Leads(Applied(table[m], e), Tail(s), n - 1, u)
    BY <1>3, <2>1, LeadsOn, Zenon
  <2> QED  BY <1>1, <1>2, <2>2
<1>4. ASSUME NEW n \in Ids, NEW u, Ends(n, u)
      PROVE  Ends(n, u)'
  <2>1. CASE n = m
    <3>1. Len(s) \in 1..Len(s) /\ Leads(table[m], s, Len(s), u)
      BY <1>1, <1>4, <2>1 DEF Ends
    <3>2. Leads(table'[m], inbox'[m], Len(s) - 1, u)
      BY <1>3, <3>1, Zenon
    <3> QED  BY <1>1, <2>1, <3>2 DEF Ends
  <2>2. CASE n # m
    <3>1. table'[n] = table[n] /\ inbox'[n] = inbox[n]
      BY <1>1, <1>2, <2>2
    <3> QED  BY <1>4, <3>1 DEF Ends
  <2> QED  BY <2>1, <2>2
<1> HIDE DEF s, e
<1>5. EachEnds => EachEnds'
  BY <1>0, <1>4 DEF EachEnds
<1>6. ASSUME NEW final, Meet(final)  PROVE Meet(final)'
  BY <1>0, <1>4, <1>6 DEF Meet
<1>7. ASSUME NEW final, DueInTime(final)  PROVE DueInTime(final)'
  <2> SUFFICES ASSUME NEW l \in up', NEW j \in up', NEW i \in Nat, Due(l, i, j)', j # l
               PROVE  (l = group.leading /\ j \in waiting /\ Leads(table[l], inbox[l], i - 1, final))'
    BY Zenon DEF DueInTime
  <2>1. CASE l = m
    <3>1. i + 1 \in 2..Len(s) /\ Due(m, i + 1, j) /\ i + 1 \in Nat
      BY <1>1, <2>1
    <3>2. m = group.leading /\ j \in waiting /\ Leads(table[m], s, (i + 1) - 1, final)
      BY <1>0, <1>7, <2>1, <3>1, Zenon DEF DueInTime, s
    <3>3. (i + 1) - 1 = i /\ i \in 1..Len(s)
      BY <1>1, <3>1
    <3> QED  BY <1>3, <2>1, <3>2, <3>3
  <2>2. CASE l # m
    <3>1. Due(l, i, j) /\ l \in Ids \ {m}
      BY <1>0, <1>1, <2>2
    <3> QED  BY <1>0, <1>1, <1>2, <1>7, <3>1 DEF DueInTime
  <2> QED  BY <2>1, <2>2
<1> QED  BY <1>2, <1>5, <1>6, <1>7

LEMMA DispatchAgrees ==
  ASSUME AgreementInv, NEW m \in Ids, Dispatched(m)
  PROVE  AgreementInv'
<1> USE DEF AgreementInv
<1> DEFINE s == inbox[m]
           e == Head(s)
<1>1. /\ m \in up /\ s # << >> /\ (e.type = "joined" => e.member = m)
      /\ inbox' = [inbox EXCEPT ![m] = Tail(@)]
      /\ table' = [table EXCEPT ![m] = Applied(@, e)]
      /\ UNCHANGED <<up, group, waiting, answered>>
      /\ SaysPlain(m) /\ QueuesKept
  BY DEF Dispatched
<1>2. /\ outbox' = [n \in Ids |-> outbox'[n]]
      /\ \A n \in Ids : IsSeq(outbox'[n])
      /\ \A n \in Ids : \A i \in DOMAIN outbox'[n] :
           /\ outbox'[n][i].type \in {"whole", "delta", "status", "prepared"}
           /\ outbox'[n][i].type = "whole" =>
                i \in DOMAIN outbox[n] /\ outbox'[n][i] = outbox[n][i]
      /\ \A n \in Ids \ {m} : outbox'[n] = outbox[n]
      /\ \A l \in Ids, i \in Nat : \A j :
           /\ Told(l, i, j)' => Told(l, i, j) /\ outbox'[l][i] = outbox[l][i]
           /\ Told(l, i, j) => Told(l, i, j)'
  BY <1>1, PlainKeeps
<1>3. /\ inbox' = [n \in Ids |-> inbox'[n]]
      /\ \A n \in Ids : IsSeq(inbox'[n])
      /\ \A n \in Ids : \A i \in DOMAIN inbox'[n] :
           inbox'[n][i].type = "left" => inbox'[n][i].members \subseteq Ids
      /\ \A n \in Ids \ {m} : inbox'[n] = inbox[n]
      /\ inbox'[m] = Tail(s) /\ Len(inbox'[m]) = Len(s) - 1
      /\ Len(s) \in Nat \ {0} /\ Head(s) = s[1]
      /\ \A l \in Ids \ {m}, i \in Nat : \A j : Due(l, i, j)' <=> Due(l, i, j)
      /\ \A i \in Nat : \A j :
           /\ Due(m, i, j)' => i + 1 \in 2..Len(s) /\ Due(m, i + 1, j)
           /\ Due(m, i, j) /\ i # 1 => i - 1 \in Nat /\ Due(m, i - 1, j)'
  BY <1>1, Popped
<1>4. /\ table' = [n \in Ids |-> table'[n]]
      /\ EachEnds => EachEnds'
      /\ \A final : Meet(final) => Meet(final)'
      /\ \A final : DueInTime(final) => DueInTime(final)'
  BY <1>1, Advances
<1>5. Queues'
  BY <1>1, <1>2, <1>3, <1>4 DEF Queues, QueuesKept
<1>6. Grouped'
  <2>1. \A n \in Ids \ up : \A i \in DOMAIN outbox'[n] : outbox'[n][i].type # "whole"
    BY <1>2 DEF Grouped
  <2>2. \A n \in Ids \ up : inbox'[n] = << >>
    BY <1>1, <1>3 DEF Grouped
  <2> QED  BY <1>1, <2>1, <2>2 DEF Grouped, Available
<1>7. up' = up /\ up \subseteq Ids
  BY <1>1 DEF Grouped
<1> HIDE DEF s, e
<1>8. EachEnds'
  BY <1>4
<1>9. ASSUME answered'  PROVE Agreed'
  <2>1. Agreed
    BY <1>1, <1>9
  <2>2. PICK final : Meet(final) /\ DueInTime(final) /\ ToldInTime(final)
    BY <2>1 DEF Agreed
  <2>3. Meet(final)' /\ DueInTime(final)'
    BY <1>4, <2>2
  <2>4. ToldInTime(final)'
    <3> SUFFICES ASSUME NEW l \in up', NEW j \in up', NEW i \in Nat, Told(l, i, j)'
                 PROVE  (l = group.leading /\ j \in waiting /\ outbox[l][i].table = final)'
      BY Zenon DEF ToldInTime
    <3>1. Told(l, i, j) /\ outbox'[l][i] = outbox[l][i]
      BY <1>2, <1>7
    <3> QED  BY <1>1, <1>7, <2>2, <3>1 DEF ToldInTime
  <2>5. AnswersOnce'
    <3> SUFFICES ASSUME NEW l \in up', NEW j \in up', NEW i \in Nat, NEW k \in Nat
                 PROVE  /\ Due(l, i, j)' /\ Due(l, k, j)' => i = k
                        /\ Told(l, i, j)' /\ Told(l, k, j)' => i = k
                        /\ ~(Due(l, i, j)' /\ Told(l, k, j)')
      BY Zenon DEF AnswersOnce
    <3>1. l \in up /\ j \in up /\ l \in Ids
      BY <1>7
    <3>2. (Told(l, i, j)' => Told(l, i, j)) /\ (Told(l, k, j)' => Told(l, k, j))
      BY <1>2, <3>1
    <3>3. CASE l = m
      <4>1. (Due(l, i, j)' => Due(l, i + 1, j)) /\ (Due(l, k, j)' => Due(l, k + 1, j))
        BY <1>3, <3>3
      <4>2. i + 1 \in Nat /\ k + 1 \in Nat /\ (i + 1 = k + 1 => i = k)
        OBVIOUS
      <4> QED  BY <2>1, <3>1, <3>2, <4>1, <4>2 DEF Agreed, AnswersOnce
    <3>4. CASE l # m
      <4>1. (Due(l, i, j)' => Due(l, i, j)) /\ (Due(l, k, j)' => Due(l, k, j))
        BY <1>3, <3>1, <3>4
      <4> QED  BY <2>1, <3>1, <3>2, <4>1 DEF Agreed, AnswersOnce
    <3> QED  BY <3>3, <3>4
  <2>6. Served'
    <3> SUFFICES ASSUME NEW j \in waiting'
                 PROVE  (\E i \in Nat : Due(group.leading, i, j) \/ Told(group.leading, i, j))'
      BY Zenon DEF Served
    <3> DEFINE l == group.leading
    <3>1. j \in waiting /\ l' = l /\ l \in Ids
      BY <1>1 DEF Grouped
    <3>2. PICK i \in Nat : Due(l, i, j) \/ Told(l, i, j)
      BY <2>1, <3>1 DEF Agreed, Served
    <3>3. CASE Told(l, i, j)
      BY <1>2, <3>1, <3>3
    <3>4. CASE Due(l, i, j) /\ l # m
      BY <1>3, <3>1, <3>4
    <3>5. CASE Due(l, i, j) /\ l = m
      <4>1. i # 1
        BY <1>1, <1>3, <2>1, <3>1, <3>5 DEF Due, e, s, Agreed
      <4>2. i - 1 \in Nat /\ Due(m, i - 1, j)'
        BY <1>3, <3>5, <4>1
      <4> QED  BY <3>1, <3>5, <4>2
    <3> QED  BY <3>2, <3>3, <3>4, <3>5
  <2> QED  BY <1>1, <2>1, <2>3, <2>4, <2>5, <2>6, Zenon DEF Agreed
<1> QED  BY <1>5, <1>6, <1>8, <1>9


(* A joiner that is leading itself needs no table; anybody else is told the *)
(* table of the member that answers, which is what they all end with.       *)
LEMMA JoiningAlone ==
  ASSUME Queues, NEW m \in Ids, Joining(m), NextEvent(m).member = m
  PROVE  Dispatched(m)
<1> DEFINE e == NextEvent(m)
<1>1. /\ m \in up /\ inbox[m] # << >> /\ e.type = "joined" /\ e = Head(inbox[m])
      /\ inbox' = [inbox EXCEPT ![m] = Tail(@)]
      /\ UNCHANGED <<up, group, table, waiting, answered, queue>>
  BY DEF Joining, HandleJoined, Dispatch, Faces, NextEvent, historyVars, UnchangedMigration, targetVars
<1>2. PICK delta \in Balances(m, Available(e.group), e.member) : Multicast(m, JoinAnswer(m, e.member, delta))
  BY DEF Joining, HandleJoined
<1>3. Plain(JoinAnswer(m, e.member, delta))
  <2>1. delta.type = "delta" /\ Prepared(m).type = "prepared"
    BY <1>2, BalancesSay DEF Prepared
  <2>2. Plain(<<delta>>) /\ Plain(<<Prepared(m)>>)
    BY <2>1, PlainOne
  <2>3. Plain(<<delta>> \o <<Prepared(m)>>)
    BY <2>2, PlainConcat
  <2>4. JoinAnswer(m, e.member, delta) = <<delta>> \o <<Prepared(m)>>
    BY DEF JoinAnswer, WholeFor
  <2> QED  BY <2>3, <2>4
<1>4. SaysPlain(m) /\ QueuesKept
  BY <1>1, <1>2, <1>3, SaysThat, QueueUnchanged
<1>5. Applied(table[m], e) = table[m] /\ table = [table EXCEPT ![m] = table[m]]
  BY <1>1 DEF Applied, Queues
<1> QED  BY <1>1, <1>4, <1>5 DEF Dispatched

LEMMA JoiningAgrees ==
  ASSUME AgreementInv, NEW m \in Ids, Joining(m), NextEvent(m).member # m
  PROVE  AgreementInv'
<1> USE DEF AgreementInv
<1> DEFINE s == inbox[m]
           e == NextEvent(m)
           c == e.member
<1>1. /\ m \in up /\ s # << >> /\ e.type = "joined" /\ e = Head(s) /\ outbox[m] = << >>
      /\ inbox' = [inbox EXCEPT ![m] = Tail(@)]
      /\ UNCHANGED <<up, group, table, waiting, answered, queue>>
  BY DEF Joining, HandleJoined, Dispatch, Faces, NextEvent, historyVars, UnchangedMigration, targetVars
<1>2. PICK delta \in Balances(m, Available(e.group), c) : Multicast(m, JoinAnswer(m, c, delta))
  BY DEF Joining, HandleJoined
<1> DEFINE r == JoinAnswer(m, c, delta)
<1>3. /\ IsSeq(r) /\ DOMAIN r = 1..3 /\ r[1].type = "whole" /\ r[1].member = c /\ r[1].table = table[m]
      /\ r[2].type = "delta" /\ r[3].type = "prepared"
  <2>1. delta.type = "delta"
    BY <1>2, BalancesSay
  <2> DEFINE x == Whole(c, table[m])
             y == Prepared(c)
             a == <<x>>
             b == <<delta, y>>
  <2>2. r = a \o b
    BY Zenon DEF JoinAnswer, WholeFor
  <2>3. /\ x.type = "whole" /\ x.member = c /\ x.table = table[m] /\ y.type = "prepared"
    BY DEF Whole, Prepared
  <2> HIDE DEF x, y
  <2>4. a \in Seq({x}) /\ Len(a) = 1 /\ a[1] = x
    OBVIOUS
  <2>5. b \in Seq({delta, y}) /\ Len(b) = 2 /\ b[1] = delta /\ b[2] = y
    OBVIOUS
  <2>6. IsSeq(a) /\ IsSeq(b)
    BY <2>4, <2>5, Zenon DEF IsSeq
  <2> HIDE DEF a, b
  <2>7. /\ IsSeq(a \o b) /\ DOMAIN (a \o b) = 1..(Len(a) + Len(b))
        /\ \A i \in 1..Len(a) : (a \o b)[i] = a[i]
        /\ \A i \in 1..Len(b) : (a \o b)[Len(a) + i] = b[i]
    BY <2>6, ConcatFacts
  <2>8. /\ (a \o b)[1] = x /\ (a \o b)[1 + 1] = delta /\ (a \o b)[1 + 2] = y
    BY <2>4, <2>5, <2>7
  <2> HIDE DEF r
  <2> QED  BY <2>1, <2>2, <2>3, <2>4, <2>5, <2>7, <2>8
<1> HIDE DEF r
<1>4. /\ outbox' = [n \in Ids |-> outbox'[n]] /\ \A n \in Ids \ {m} : outbox'[n] = outbox[n]
      /\ outbox'[m] = r
  <2>1. outbox' = [outbox EXCEPT ![m] = @ \o r]
    BY <1>2 DEF Multicast, r
  <2>2. << >> \o r = r
    BY <1>3 DEF IsSeq
  <2> QED  BY <1>1, <2>1, <2>2 DEF Queues
<1>5. /\ inbox' = [n \in Ids |-> inbox'[n]]
      /\ \A n \in Ids : IsSeq(inbox'[n])
      /\ \A n \in Ids : \A i \in DOMAIN inbox'[n] :
           inbox'[n][i].type = "left" => inbox'[n][i].members \subseteq Ids
      /\ \A n \in Ids \ {m} : inbox'[n] = inbox[n]
      /\ Len(s) \in Nat \ {0} /\ e = s[1]
      /\ \A l \in Ids \ {m}, i \in Nat : \A j : Due(l, i, j)' <=> Due(l, i, j)
      /\ \A i \in Nat : \A j :
           /\ Due(m, i, j)' => i + 1 \in 2..Len(s) /\ Due(m, i + 1, j)
           /\ Due(m, i, j) /\ i # 1 => i - 1 \in Nat /\ Due(m, i - 1, j)'
  BY <1>1, Popped
<1>6. table' = [table EXCEPT ![m] = Applied(@, Head(s))]
  <2>1. Applied(table[m], e) = table[m] /\ table = [table EXCEPT ![m] = table[m]]
    BY <1>1 DEF Applied, Queues
  <2> QED  BY <1>1, <2>1
<1>7. /\ EachEnds => EachEnds'
      /\ \A final : Meet(final) => Meet(final)'
      /\ \A final : DueInTime(final) => DueInTime(final)'
  BY <1>1, <1>6, Advances
<1> HIDE DEF s, e, c
<1>8. Queues'
  <2>1. ASSUME NEW n \in Ids
        PROVE  IsSeq(outbox'[n]) /\ \A i \in DOMAIN outbox'[n] :
                 outbox'[n][i].type \in {"whole", "delta", "status", "prepared"}
    <3>1. CASE n = m
      <4>1. outbox'[n] = r
        BY <1>4, <3>1
      <4>2. \A i \in 1..3 : i = 1 \/ i = 2 \/ i = 3
        OBVIOUS
      <4> QED  BY <1>3, <4>1, <4>2
    <3>2. CASE n # m
      BY <1>4, <3>2 DEF Queues
    <3> QED  BY <3>1, <3>2
  <2> QED  BY <1>1, <1>4, <1>5, <2>1 DEF Queues
<1>9. Grouped'
  BY <1>1, <1>4, <1>5 DEF Grouped, Available
<1>10. up' = up /\ up \subseteq Ids
  BY <1>1 DEF Grouped
<1>11. /\ \A l \in Ids \ {m}, i \in Nat : \A j : Told(l, i, j)' <=> Told(l, i, j)
       /\ \A i \in Nat : \A j : ~Told(m, i, j) /\ (Told(m, i, j)' <=> i = 1 /\ j = c)
  <2>1. \A l \in Ids \ {m}, i \in Nat : \A j : Told(l, i, j)' <=> Told(l, i, j)
    BY <1>4 DEF Told
  <2>2. \A i \in Nat : \A j : ~Told(m, i, j)
    BY <1>1, EmptyFacts DEF Told
  <2>3. ASSUME NEW i \in Nat, NEW j  PROVE Told(m, i, j)' <=> i = 1 /\ j = c
    <3>1. outbox'[m] = r
      BY <1>4
    <3>2. i \in 1..3 <=> i = 1 \/ i = 2 \/ i = 3
      OBVIOUS
    <3> QED  BY <1>3, <3>1, <3>2 DEF Told
  <2> QED  BY <2>1, <2>2, <2>3
<1>12. Due(m, 1, c)
  <2>1. 1 \in DOMAIN s
    BY <1>1, <1>5, SeqFacts DEF Queues, s
  <2> QED  BY <1>1, <1>5, <2>1 DEF Due, s, c
<1>13. ASSUME answered'  PROVE Agreed'
  <2>1. Agreed
    BY <1>1, <1>13
  <2>2. PICK final : Meet(final) /\ DueInTime(final) /\ ToldInTime(final)
    BY <2>1 DEF Agreed
  <2>3. Meet(final)' /\ DueInTime(final)'
    BY <1>7, <2>2
  <2>4. c \in up => m = group.leading /\ c \in waiting /\ table[m] = final
    <3> SUFFICES ASSUME c \in up
                 PROVE  m = group.leading /\ c \in waiting /\ table[m] = final
      OBVIOUS
    <3>1. c # m /\ 1 \in Nat /\ 1 - 1 = 0
      BY DEF c, e
    <3>2. m = group.leading /\ c \in waiting /\ Leads(table[m], inbox[m], 1 - 1, final)
      BY <1>1, <1>12, <2>2, <3>1, Zenon DEF DueInTime
    <3>3. Leads(table[m], inbox[m], 0, final)
      BY <3>1, <3>2
    <3> QED  BY <3>2, <3>3, LeadsNowhere
  <2>5. ToldInTime(final)'
    <3> SUFFICES ASSUME NEW l \in up', NEW j \in up', NEW i \in Nat, Told(l, i, j)'
                 PROVE  (l = group.leading /\ j \in waiting /\ outbox[l][i].table = final)'
      BY Zenon DEF ToldInTime
    <3>1. CASE l = m
      <4>1. i = 1 /\ j = c /\ c \in up
        BY <1>10, <1>11, <3>1
      <4>2. outbox'[m][1].table = table[m]
        BY <1>3, <1>4
      <4> QED  BY <1>1, <2>4, <3>1, <4>1, <4>2
    <3>2. CASE l # m
      BY <1>1, <1>4, <1>10, <1>11, <2>2, <3>2 DEF ToldInTime
    <3> QED  BY <3>1, <3>2
  <2>6. AnswersOnce'
    <3> SUFFICES ASSUME NEW l \in up', NEW j \in up', NEW i \in Nat, NEW k \in Nat
                 PROVE  /\ Due(l, i, j)' /\ Due(l, k, j)' => i = k
                        /\ Told(l, i, j)' /\ Told(l, k, j)' => i = k
                        /\ ~(Due(l, i, j)' /\ Told(l, k, j)')
      BY Zenon DEF AnswersOnce
    <3>1. l \in up /\ j \in up /\ l \in Ids
      BY <1>10
    <3>2. CASE l = m
      <4>1. (Due(l, i, j)' => Due(l, i + 1, j)) /\ (Due(l, k, j)' => Due(l, k + 1, j))
        BY <1>5, <3>2
      <4>2. i + 1 \in Nat /\ k + 1 \in Nat /\ (i + 1 = k + 1 => i = k)
        OBVIOUS
      <4>3. Due(l, i, j)' /\ Due(l, k, j)' => i = k
        BY <2>1, <3>1, <4>1, <4>2 DEF Agreed, AnswersOnce
      <4>4. Told(l, i, j)' /\ Told(l, k, j)' => i = k
        BY <1>11, <3>2
      <4>5. ASSUME Due(l, i, j)', Told(l, k, j)'  PROVE FALSE
        <5>1. j = c /\ Due(m, i + 1, j) /\ i + 1 \in 2..Len(s)
          BY <1>5, <1>11, <3>2, <4>5
        <5>2. i + 1 = 1
          BY <1>1, <1>12, <2>1, <3>1, <4>2, <5>1 DEF Agreed, AnswersOnce
        <5> QED  BY <5>1, <5>2
      <4> QED  BY <4>3, <4>4, <4>5
    <3>3. CASE l # m
      <4>1. /\ Due(l, i, j)' => Due(l, i, j)
            /\ Due(l, k, j)' => Due(l, k, j)
            /\ Told(l, i, j)' => Told(l, i, j)
            /\ Told(l, k, j)' => Told(l, k, j)
        BY <1>5, <1>11, <3>1, <3>3
      <4> QED  BY <2>1, <3>1, <4>1 DEF Agreed, AnswersOnce
    <3> QED  BY <3>2, <3>3
  <2>7. Served'
    <3> SUFFICES ASSUME NEW j \in waiting'
                 PROVE  (\E i \in Nat : Due(group.leading, i, j) \/ Told(group.leading, i, j))'
      BY Zenon DEF Served
    <3> DEFINE l == group.leading
    <3>1. j \in waiting /\ l' = l /\ l \in Ids
      BY <1>1 DEF Grouped
    <3>2. PICK i \in Nat : Due(l, i, j) \/ Told(l, i, j)
      BY <2>1, <3>1 DEF Agreed, Served
    <3>3. CASE l # m
      BY <1>5, <1>11, <3>1, <3>2, <3>3
    <3>4. CASE l = m /\ i # 1
      <4>1. i - 1 \in Nat /\ Due(m, i - 1, j)'
        BY <1>5, <1>11, <3>2, <3>4
      <4> QED  BY <3>1, <3>4, <4>1
    <3>5. CASE l = m /\ i = 1
      <4>1. Due(m, 1, j)
        BY <1>11, <3>2, <3>5
      <4>2. j = c
        BY <1>12, <4>1 DEF Due
      <4>3. Told(m, 1, j)'
        BY <1>11, <4>2
      <4> QED  BY <3>1, <3>5, <4>3
    <3> QED  BY <3>3, <3>4, <3>5
  <2> QED  BY <1>1, <2>1, <2>3, <2>5, <2>6, <2>7, Zenon DEF Agreed
<1> QED  BY <1>7, <1>8, <1>9, <1>13


-----------------------------------------------------------------------------
(* CPG orders what a member has multicast.                                  *)
LEMMA Sent ==
  ASSUME Queues, NEW m \in Ids, outbox[m] # << >>, outbox' = [outbox EXCEPT ![m] = Tail(@)]
  PROVE  /\ outbox' = [n \in Ids |-> outbox'[n]]
         /\ \A n \in Ids : IsSeq(outbox'[n])
         /\ \A n \in Ids : \A i \in DOMAIN outbox'[n] :
              outbox'[n][i].type \in {"whole", "delta", "status", "prepared"}
         /\ \A n \in Ids \ {m} : outbox'[n] = outbox[n]
         /\ \A i \in DOMAIN outbox'[m] : i + 1 \in DOMAIN outbox[m] /\ outbox'[m][i] = outbox[m][i + 1]
         /\ 1 \in DOMAIN outbox[m] /\ Head(outbox[m]) = outbox[m][1]
         /\ \A l \in Ids \ {m}, i \in Nat : \A j : Told(l, i, j)' <=> Told(l, i, j)
         /\ \A i \in Nat : \A j :
              /\ Told(m, i, j)' => /\ i + 1 \in Nat /\ i + 1 # 1 /\ Told(m, i + 1, j)
                                   /\ outbox'[m][i] = outbox[m][i + 1]
              /\ Told(m, i, j) /\ i # 1 => i - 1 \in Nat /\ Told(m, i - 1, j)'
<1> DEFINE s == outbox[m]
<1>1. outbox = [n \in Ids |-> outbox[n]] /\ \A n \in Ids : IsSeq(outbox[n])
  BY DEF Queues
<1>2. /\ outbox'[m] = Tail(s) /\ \A n \in Ids \ {m} : outbox'[n] = outbox[n]
      /\ outbox' = [n \in Ids |-> outbox'[n]]
  BY <1>1
<1>3. /\ IsSeq(Tail(s)) /\ Len(Tail(s)) = Len(s) - 1 /\ Head(s) = s[1]
      /\ Len(s) \in Nat \ {0} /\ DOMAIN Tail(s) = 1..(Len(s) - 1)
      /\ \A i \in 1..(Len(s) - 1) : Tail(s)[i] = s[i + 1]
  BY <1>1, TailFacts
<1>4. DOMAIN s = 1..Len(s) /\ 1 \in 1..Len(s)
  BY <1>1, <1>3, SeqFacts
<1>5. \A i \in 1..(Len(s) - 1) : i + 1 \in DOMAIN s /\ i + 1 \in 2..Len(s)
  BY <1>3, <1>4
<1>6. ASSUME NEW n \in Ids, NEW i \in DOMAIN outbox'[n]
      PROVE  outbox'[n][i].type \in {"whole", "delta", "status", "prepared"}
  <2>1. CASE n = m
    BY <1>2, <1>3, <1>5, <2>1 DEF Queues
  <2>2. CASE n # m
    BY <1>2, <2>2 DEF Queues
  <2> QED  BY <2>1, <2>2
<1>7. ASSUME NEW i \in Nat, NEW j, Told(m, i, j)'
      PROVE  /\ i + 1 \in Nat /\ i + 1 # 1 /\ Told(m, i + 1, j)
             /\ outbox'[m][i] = outbox[m][i + 1]
  <2>1. i \in 1..(Len(s) - 1)
    BY <1>2, <1>3, <1>7 DEF Told
  <2>2. outbox'[m][i] = s[i + 1]
    BY <1>2, <1>3, <2>1
  <2> QED  BY <1>5, <1>7, <2>1, <2>2 DEF Told
<1>8. ASSUME NEW i \in Nat, NEW j, Told(m, i, j), i # 1
      PROVE  i - 1 \in Nat /\ Told(m, i - 1, j)'
  <2>1. i - 1 \in 1..(Len(s) - 1) /\ (i - 1) + 1 = i
    BY <1>3, <1>4, <1>8 DEF Told
  <2>2. outbox'[m][i - 1] = s[i]
    BY <1>2, <1>3, <2>1
  <2>3. i - 1 \in DOMAIN outbox'[m]
    BY <1>2, <1>3, <2>1
  <2> QED  BY <1>8, <2>1, <2>2, <2>3 DEF Told
<1>9. \A l \in Ids \ {m}, i \in Nat : \A j : Told(l, i, j)' <=> Told(l, i, j)
  BY <1>2 DEF Told
<1> QED  BY <1>1, <1>2, <1>3, <1>4, <1>5, <1>6, <1>7, <1>8, <1>9

LEMMA Grows ==
  ASSUME Queues, NEW n \in Ids, NEW e, inbox'[n] = Append(inbox[n], e), table'[n] = table[n],
         e.type = "left" => e.members \subseteq Ids
  PROVE  /\ IsSeq(inbox'[n]) /\ Len(inbox'[n]) = Len(inbox[n]) + 1 /\ Len(inbox[n]) \in Nat
         /\ \A i \in DOMAIN inbox'[n] :
              inbox'[n][i].type = "left" => inbox'[n][i].members \subseteq Ids
         /\ \A u : Ends(n, u) => Ends(n, Applied(u, e))'
         /\ \A i \in Nat : \A j :
              /\ Due(n, i, j) => Due(n, i, j)' /\ i # Len(inbox[n]) + 1
              /\ Due(n, i, j)' => \/ Due(n, i, j)
                                  \/ i = Len(inbox[n]) + 1 /\ e.type = "joined" /\ e.member = j
              /\ i = Len(inbox[n]) + 1 /\ e.type = "joined" /\ e.member = j => Due(n, i, j)'
         /\ \A i \in Nat : \A j, u :
              Due(n, i, j) /\ Leads(table[n], inbox[n], i - 1, u) =>
                Leads(table'[n], inbox'[n], i - 1, u)
         /\ \A u : Ends(n, u) => Leads(table'[n], inbox'[n], Len(inbox[n]), u)
<1> DEFINE s == inbox[n]
           r == Append(s, e)
<1>1. IsSeq(s) /\ Len(s) \in Nat /\ DOMAIN s = 1..Len(s)
  BY SeqFacts DEF Queues
<1>2. /\ IsSeq(r) /\ Len(r) = Len(s) + 1
      /\ DOMAIN r = 1..(Len(s) + 1)
      /\ \A i \in 1..Len(s) : r[i] = s[i]
      /\ r[Len(s) + 1] = e
  BY <1>1, AppendFacts
<1>3. inbox'[n] = r
  OBVIOUS
<1>4. ASSUME NEW u, Ends(n, u)  PROVE Ends(n, Applied(u, e))'
  <2>1. Leads(table[n], s, Len(s), u)
    BY <1>4 DEF Ends
  <2>2. Leads(table[n], r, Len(s) + 1, Applied(u, e))
    BY <1>1, <2>1, LeadsAppend
  <2> HIDE DEF r, s
  <2> QED  BY <1>2, <1>3, <2>2 DEF Ends
<1>5. ASSUME NEW i \in 0..Len(s), NEW u, Leads(table[n], s, i, u)
      PROVE  Leads(table'[n], inbox'[n], i, u)
  <2>1. Leads(table[n], r, i, u)
    BY <1>1, <1>5, LeadsAsFar
  <2> QED  BY <2>1
<1> HIDE DEF r
<1>6. ASSUME NEW i \in DOMAIN inbox'[n], inbox'[n][i].type = "left"
      PROVE  inbox'[n][i].members \subseteq Ids
  <2>1. CASE i \in 1..Len(s)
    BY <1>1, <1>2, <1>3, <1>6, <2>1 DEF Queues
  <2>2. CASE i = Len(s) + 1
    BY <1>2, <1>3, <1>6, <2>2
  <2> QED  BY <1>1, <1>2, <1>3, <2>1, <2>2
<1>7. ASSUME NEW i \in Nat, NEW j
      PROVE  /\ Due(n, i, j) => Due(n, i, j)' /\ i # Len(s) + 1
             /\ Due(n, i, j)' => \/ Due(n, i, j)
                                 \/ i = Len(s) + 1 /\ e.type = "joined" /\ e.member = j
             /\ i = Len(s) + 1 /\ e.type = "joined" /\ e.member = j => Due(n, i, j)'
  <2>1. CASE i \in 1..Len(s)
    <3>1. i \in DOMAIN r /\ i # Len(s) + 1 /\ r[i] = s[i] /\ i \in DOMAIN s
      BY <1>1, <1>2, <2>1
    <3> QED  BY <1>3, <3>1 DEF Due
  <2>2. CASE i = Len(s) + 1
    <3>1. i \in DOMAIN r /\ r[i] = e /\ i \notin DOMAIN s
      BY <1>1, <1>2, <2>2
    <3> QED  BY <1>3, <2>2, <3>1 DEF Due
  <2>3. CASE i \notin 1..(Len(s) + 1)
    <3>1. i \notin DOMAIN r /\ i \notin DOMAIN s /\ i # Len(s) + 1
      BY <1>1, <1>2, <2>3
    <3> QED  BY <1>3, <3>1 DEF Due
  <2> QED  BY <1>1, <2>1, <2>2, <2>3
<1>8. ASSUME NEW i \in Nat, NEW j, NEW u, Due(n, i, j), Leads(table[n], s, i - 1, u)
      PROVE  Leads(table'[n], inbox'[n], i - 1, u)
  <2>1. i - 1 \in 0..Len(s)
    BY <1>1, <1>8 DEF Due
  <2> QED  BY <1>5, <1>8, <2>1
<1>9. ASSUME NEW u, Ends(n, u)  PROVE Leads(table'[n], inbox'[n], Len(s), u)
  <2>1. Len(s) \in 0..Len(s)
    BY <1>1
  <2> QED  BY <1>5, <1>9, <2>1 DEF Ends
<1> QED  BY <1>1, <1>2, <1>3, <1>4, <1>6, <1>7, <1>8, <1>9


(* Everybody who runs gets an event that changes tables, at the same place; *)
(* a table goes to the joiner it is for, who then ends where the others do. *)
LEMMA OrderingAgrees ==
  ASSUME AgreementInv, NEW m \in Ids, Ordering(m)
  PROVE  AgreementInv'
<1> USE DEF AgreementInv
<1>0. PICK e : e = Head(outbox[m])
  OBVIOUS
<1> DEFINE A  == Audience(e) \cap up
           j0 == e.member
<1>1. /\ outbox[m] # << >>
      /\ inbox' = [n \in Ids |-> IF n \in A THEN Append(inbox[n], e) ELSE inbox[n]]
      /\ outbox' = [outbox EXCEPT ![m] = Tail(@)]
      /\ group' = IF e.type = "prepared" /\ group.state[e.member] # "INACTIVE"
                  THEN [group EXCEPT !.state[e.member] = "PREPARED"] ELSE group
      /\ waiting' = IF e.type = "whole" THEN waiting \ {e.member} ELSE waiting
      /\ answered' = (answered /\ (e.type \in {"delta", "status"} => waiting = {}))
      /\ UNCHANGED <<up, table, queue>>
  BY <1>0 DEF Ordering, Sequence, Ordered, UnchangedMigration, targetVars
<1>2. /\ outbox' = [n \in Ids |-> outbox'[n]]
      /\ \A n \in Ids : IsSeq(outbox'[n])
      /\ \A n \in Ids : \A i \in DOMAIN outbox'[n] :
           outbox'[n][i].type \in {"whole", "delta", "status", "prepared"}
      /\ \A n \in Ids \ {m} : outbox'[n] = outbox[n]
      /\ \A i \in DOMAIN outbox'[m] : i + 1 \in DOMAIN outbox[m] /\ outbox'[m][i] = outbox[m][i + 1]
      /\ 1 \in DOMAIN outbox[m] /\ e = outbox[m][1]
      /\ \A l \in Ids \ {m}, i \in Nat : \A j : Told(l, i, j)' <=> Told(l, i, j)
      /\ \A i \in Nat : \A j :
           /\ Told(m, i, j)' => /\ i + 1 \in Nat /\ i + 1 # 1 /\ Told(m, i + 1, j)
                                /\ outbox'[m][i] = outbox[m][i + 1]
           /\ Told(m, i, j) /\ i # 1 => i - 1 \in Nat /\ Told(m, i - 1, j)'
  BY <1>0, <1>1, Sent
<1>3. e.type \in {"whole", "delta", "status", "prepared"} /\ 1 \in Nat
  BY <1>2 DEF Queues
<1> DEFINE same(n) == /\ inbox'[n] = inbox[n]
                      /\ \A i \in Nat : \A j : Due(n, i, j)' <=> Due(n, i, j)
                      /\ \A u : Ends(n, u) => Ends(n, u)'
           more(n) == /\ IsSeq(inbox'[n])
                      /\ \A i \in DOMAIN inbox'[n] :
                           inbox'[n][i].type = "left" => inbox'[n][i].members \subseteq Ids
                      /\ \A i \in Nat : \A j : Due(n, i, j)' <=> Due(n, i, j)
                      /\ \A u : Ends(n, u) => Ends(n, Applied(u, e))'
<1> HIDE DEF A
<1>4. ASSUME NEW n \in Ids, n \notin A  PROVE same(n)
  <2>1. inbox'[n] = inbox[n] /\ table'[n] = table[n]
    BY <1>1, <1>4
  <2> QED  BY <2>1 DEF Due, Ends
<1>5. ASSUME NEW n \in Ids, n \in A  PROVE more(n)
  <2>1. inbox'[n] = Append(inbox[n], e) /\ table'[n] = table[n]
    BY <1>1, <1>5
  <2>2. e.type # "left" /\ e.type # "joined"
    BY <1>3
  <2>3. /\ IsSeq(inbox'[n])
        /\ \A i \in DOMAIN inbox'[n] :
             inbox'[n][i].type = "left" => inbox'[n][i].members \subseteq Ids
        /\ \A u : Ends(n, u) => Ends(n, Applied(u, e))'
        /\ \A i \in Nat : \A j :
             /\ Due(n, i, j) => Due(n, i, j)'
             /\ Due(n, i, j)' => \/ Due(n, i, j)
                                 \/ i = Len(inbox[n]) + 1 /\ e.type = "joined" /\ e.member = j
    BY <2>1, <2>2, Grows
  <2> QED  BY <2>2, <2>3
<1>6. up' = up /\ up \subseteq Ids /\ A \subseteq up
  BY <1>1 DEF Grouped, A
<1>7. Queues'
  <2>1. \A n \in Ids : /\ IsSeq(inbox'[n])
                       /\ \A i \in DOMAIN inbox'[n] :
                            inbox'[n][i].type = "left" => inbox'[n][i].members \subseteq Ids
    BY <1>4, <1>5 DEF Queues
  <2>2. inbox' = [n \in Ids |-> inbox'[n]]
    BY <1>1
  <2> QED  BY <1>1, <1>2, <2>1, <2>2 DEF Queues
<1>8. group'.leading = group.leading /\ Available(group)' = Available(group)
  <2>1. CASE e.type = "prepared" /\ group.state[e.member] # "INACTIVE"
    <3>1. group' = [group EXCEPT !.state[e.member] = "PREPARED"]
      BY <1>1, <2>1
    <3>2. \A n \in Ids : group'.state[n] # "INACTIVE" <=> group.state[n] # "INACTIVE"
      BY <2>1, <3>1 DEF Grouped
    <3> QED  BY <3>1, <3>2 DEF Grouped, Available
  <2>2. CASE ~(e.type = "prepared" /\ group.state[e.member] # "INACTIVE")
    BY <1>1, <2>2 DEF Available
  <2> QED  BY <2>1, <2>2
<1>9. Grouped'
  <2>1. group' \in [state : [Ids -> {"INACTIVE", "JOINED", "PREPARED"}], leading : Ids \cup {NoMember}]
    BY <1>1 DEF Grouped
  <2>2. waiting' \subseteq up' /\ answered' \in BOOLEAN
    BY <1>1, <1>6 DEF Grouped
  <2>3. ASSUME NEW n \in Ids \ up
        PROVE  inbox'[n] = << >> /\ \A i \in DOMAIN outbox'[n] : outbox'[n][i].type # "whole"
    <3>1. inbox'[n] = inbox[n]
      BY <1>4, <1>6
    <3>2. \A i \in DOMAIN outbox'[n] : outbox'[n][i].type # "whole"
      BY <1>2 DEF Grouped
    <3> QED  BY <3>1, <3>2 DEF Grouped
  <2> QED  BY <1>6, <1>8, <2>1, <2>2, <2>3 DEF Grouped
<1>10. EachEnds'
  BY <1>4, <1>5, <1>6 DEF EachEnds
<1>11. \A l \in Ids, i \in Nat : \A j : Due(l, i, j)' <=> Due(l, i, j)
  BY <1>4, <1>5
<1> HIDE DEF same, more
<1>12. ASSUME answered'  PROVE Agreed'
  <2>1. Agreed /\ answered
    BY <1>1, <1>12 DEF Grouped
  <2>2. PICK final : Meet(final) /\ DueInTime(final) /\ ToldInTime(final)
    BY <2>1 DEF Agreed
  <2>3. group'.leading \notin waiting' /\ waiting' \subseteq waiting
    BY <1>1, <1>8, <2>1 DEF Agreed
  <2>4. AnswersOnce'
    <3> SUFFICES ASSUME NEW l \in up', NEW j \in up', NEW i \in Nat, NEW k \in Nat
                 PROVE  /\ Due(l, i, j)' /\ Due(l, k, j)' => i = k
                        /\ Told(l, i, j)' /\ Told(l, k, j)' => i = k
                        /\ ~(Due(l, i, j)' /\ Told(l, k, j)')
      BY Zenon DEF AnswersOnce
    <3>1. l \in up /\ j \in up /\ l \in Ids
      BY <1>6
    <3>2. (Due(l, i, j)' => Due(l, i, j)) /\ (Due(l, k, j)' => Due(l, k, j))
      BY <1>11, <3>1
    <3>3. CASE l = m
      <4>1. (Told(l, i, j)' => Told(l, i + 1, j)) /\ (Told(l, k, j)' => Told(l, k + 1, j))
        BY <1>2, <3>3
      <4>2. i + 1 \in Nat /\ k + 1 \in Nat /\ (i + 1 = k + 1 => i = k)
        OBVIOUS
      <4> QED  BY <2>1, <3>1, <3>2, <4>1, <4>2 DEF Agreed, AnswersOnce
    <3>4. CASE l # m
      <4>1. (Told(l, i, j)' => Told(l, i, j)) /\ (Told(l, k, j)' => Told(l, k, j))
        BY <1>2, <3>1, <3>4
      <4> QED  BY <2>1, <3>1, <3>2, <4>1 DEF Agreed, AnswersOnce
    <3> QED  BY <3>3, <3>4
  <2>5. Served'
    <3> SUFFICES ASSUME NEW j \in waiting'
                 PROVE  (\E i \in Nat : Due(group.leading, i, j) \/ Told(group.leading, i, j))'
      BY Zenon DEF Served
    <3> DEFINE l == group.leading
    <3>1. j \in waiting /\ l' = l /\ l \in Ids
      BY <1>8, <2>3 DEF Grouped
    <3>2. PICK i \in Nat : Due(l, i, j) \/ Told(l, i, j)
      BY <2>1, <3>1 DEF Agreed, Served
    <3>3. CASE Due(l, i, j)
      BY <1>11, <3>1, <3>3
    <3>4. CASE Told(l, i, j) /\ l # m
      BY <1>2, <3>1, <3>4
    <3>5. CASE Told(l, i, j) /\ l = m
      <4>1. i # 1
        <5>1. e.type = "whole" => e.member \notin waiting'
          BY <1>1
        <5>2. i = 1 => e.type = "whole" /\ e.member = j
          BY <1>2, <3>5 DEF Told
        <5> QED  BY <5>1, <5>2
      <4>2. i - 1 \in Nat /\ Told(m, i - 1, j)'
        BY <1>2, <3>5, <4>1
      <4> QED  BY <3>1, <3>5, <4>2
    <3> QED  BY <3>2, <3>3, <3>4, <3>5
  <2>6. ASSUME NEW l \in up', NEW j \in up', NEW i \in Nat, Told(l, i, j)'
        PROVE  /\ l = group'.leading /\ j \in waiting /\ outbox'[l][i].table = final
               /\ j \in waiting'
    <3>1. l \in up /\ j \in up /\ l \in Ids
      BY <1>6
    <3>2. PICK k \in Nat : Told(l, k, j) /\ outbox'[l][i] = outbox[l][k] /\ (l = m => k # 1)
      <4>1. CASE l = m
        BY <1>2, <2>6, <4>1
      <4>2. CASE l # m
        BY <1>2, <2>6, <3>1, <4>2
      <4> QED  BY <4>1, <4>2
    <3>3. l = group.leading /\ j \in waiting /\ outbox[l][k].table = final
      BY <2>2, <3>1, <3>2 DEF ToldInTime
    <3>4. ASSUME e.type = "whole", j = j0  PROVE FALSE
      <4>1. Told(m, 1, j)
        BY <1>2, <3>4 DEF Told
      <4>2. m \in up
        BY <1>2, <3>4 DEF Grouped
      <4>3. m = group.leading
        BY <1>3, <2>2, <3>1, <4>1, <4>2 DEF ToldInTime
      <4>4. k = 1
        BY <1>3, <2>1, <3>1, <3>2, <3>3, <4>1, <4>3 DEF Agreed, AnswersOnce
      <4> QED  BY <3>2, <3>3, <4>3, <4>4
    <3>5. j \in waiting'
      BY <1>1, <3>3, <3>4
    <3> QED  BY <1>8, <3>2, <3>3, <3>5
  <2>7. CASE e.type \in {"delta", "status"}
    <3>1. waiting = {} /\ waiting' = {}
      BY <1>1, <1>12, <2>7
    <3>2. A = up
      BY <2>7 DEF A, Audience
    <3>3. Meet(Applied(final, e))'
      BY <1>5, <1>6, <2>2, <3>1, <3>2 DEF Meet, more
    <3>4. DueInTime(Applied(final, e))'
      <4> SUFFICES ASSUME NEW l \in up', NEW j \in up', NEW i \in Nat, Due(l, i, j)', j # l
                   PROVE  FALSE
        BY Zenon DEF DueInTime
      <4>1. l \in up /\ j \in up /\ Due(l, i, j)
        BY <1>6, <1>11
      <4> QED  BY <2>2, <3>1, <4>1 DEF DueInTime
    <3>5. ToldInTime(Applied(final, e))'
      <4> SUFFICES ASSUME NEW l \in up', NEW j \in up', NEW i \in Nat, Told(l, i, j)'
                   PROVE  FALSE
        BY Zenon DEF ToldInTime
      <4> QED  BY <2>6, <3>1
    <3> QED  BY <2>3, <2>4, <2>5, <3>3, <3>4, <3>5, Zenon DEF Agreed
  <2>8. ToldInTime(final)'
    BY <2>6 DEF ToldInTime
  <2>9. CASE e.type = "prepared"
    <3>1. A = {} /\ waiting' = waiting
      BY <1>1, <2>9 DEF A, Audience
    <3>2. Meet(final)'
      BY <1>4, <1>6, <2>2, <3>1 DEF Meet, same
    <3>3. DueInTime(final)'
      <4>1. inbox' = inbox
        BY <1>1, <3>1 DEF Queues
      <4> QED  BY <1>1, <1>8, <2>2, <3>1, <4>1 DEF DueInTime, Due
    <3> QED  BY <2>3, <2>4, <2>5, <2>8, <3>2, <3>3, Zenon DEF Agreed
  <2>10. CASE e.type = "whole"
    <3>1. A = {j0} \cap up /\ waiting' = waiting \ {j0}
      BY <1>1, <2>10 DEF A, Audience, j0
    <3>2. m \in up
      BY <1>2, <2>10 DEF Grouped
    <3>3. Told(m, 1, j0)
      BY <1>2, <2>10 DEF Told
    <3>4. j0 \in up => m = group.leading /\ j0 \in waiting /\ e.table = final
      BY <1>2, <1>3, <2>2, <3>2, <3>3 DEF ToldInTime
    <3>5. Meet(final)'
      <4> SUFFICES ASSUME NEW n \in up', n \notin waiting'  PROVE Ends(n, final)'
        BY Zenon DEF Meet
      <4>1. CASE n = j0
        <5>1. n \in A /\ n \in Ids /\ n \in up
          BY <1>6, <3>1, <4>1
        <5>2. PICK u : Ends(n, u)
          BY <5>1 DEF EachEnds
        <5>3. Applied(u, e) = final
          BY <2>10, <3>4, <4>1, <5>1 DEF Applied
        <5> QED  BY <1>5, <5>1, <5>2, <5>3 DEF more
      <4>2. CASE n # j0
        <5>1. n \notin A /\ n \in Ids /\ n \in up /\ n \notin waiting
          BY <1>6, <3>1, <4>2
        <5> QED  BY <1>4, <2>2, <5>1 DEF Meet, same
      <4> QED  BY <4>1, <4>2
    <3>6. DueInTime(final)'
      <4> SUFFICES ASSUME NEW l \in up', NEW j \in up', NEW i \in Nat, Due(l, i, j)', j # l
                   PROVE  (l = group.leading /\ j \in waiting /\ Leads(table[l], inbox[l], i - 1, final))'
        BY Zenon DEF DueInTime
      <4>1. l \in up /\ j \in up /\ l \in Ids /\ Due(l, i, j)
        BY <1>6, <1>11
      <4>2. l = group.leading /\ j \in waiting /\ Leads(table[l], inbox[l], i - 1, final)
        BY <2>2, <4>1 DEF DueInTime
      <4>3. j # j0
        BY <1>3, <2>1, <3>3, <3>4, <4>1, <4>2 DEF Agreed, AnswersOnce
      <4>4. l \notin A
        BY <2>1, <3>1, <3>4, <4>2 DEF Agreed
      <4>5. inbox'[l] = inbox[l]
        BY <1>4, <4>1, <4>4 DEF same
      <4> QED  BY <1>1, <1>8, <3>1, <4>2, <4>3, <4>5
    <3> QED  BY <2>3, <2>4, <2>5, <2>8, <3>5, <3>6, Zenon DEF Agreed
  <2> QED  BY <1>3, <2>7, <2>9, <2>10
<1> QED  BY <1>7, <1>9, <1>10, <1>12


-----------------------------------------------------------------------------
(* A process joins: nobody has yet to tell an earlier process at its        *)
(* position anything, and the leading member is to tell it where everybody  *)
(* ends.                                                                    *)
LEMMA MemberJoinsAgrees ==
  ASSUME AgreementInv, NEW c \in Ids, MemberJoins(c)
  PROVE  AgreementInv'
<1> USE DEF AgreementInv
<1> DEFINE l0 == group'.leading
<1>0. PICK e : e = Joined(c, group')
  OBVIOUS
<1>1. /\ Available(group) # Ids /\ c = Min(Ids \ Available(group))
      /\ group.leading # NoMember => group.leading \in up
      /\ up' = up \cup {c}
      /\ group' = WithJoined(group, c)
      /\ table' = [table EXCEPT ![c] = EmptyTable]
      /\ inbox' = [n \in Ids |-> IF n \in {l0} THEN Append(inbox[n], e) ELSE inbox[n]]
      /\ waiting' = IF l0 = c THEN waiting ELSE waiting \cup {c}
      /\ answered' = (answered /\ ~AnswerDue(c))
      /\ UNCHANGED <<outbox, queue>>
  BY <1>0 DEF MemberJoins, Join, Ordered, UnchangedMigration, targetVars
<1>2. e.type = "joined" /\ e.member = c /\ \A u : Applied(u, e) = u
  BY <1>0 DEF Joined, Applied
<1>3. c \in Ids /\ c \notin Available(group) /\ c \notin up
  <2>1. Ids \ Available(group) \in SUBSET Nat /\ Ids \ Available(group) # {}
    BY <1>1 DEF Ids, Available
  <2>2. c \in Ids \ Available(group)
    BY <1>1, <2>1, MinOfNats, Zenon
  <2> QED  BY <2>2 DEF Grouped
<1>4. /\ inbox[c] = << >> /\ \A i \in DOMAIN outbox[c] : outbox[c][i].type # "whole"
      /\ \A i \in Nat : \A j : ~Due(c, i, j) /\ ~Told(c, i, j) /\ ~Told(c, i, j)'
  <2>1. inbox[c] = << >> /\ \A i \in DOMAIN outbox[c] : outbox[c][i].type # "whole"
    BY <1>3 DEF Grouped
  <2> QED  BY <1>1, <2>1, EmptyFacts DEF Due, Told
<1>5. /\ table' = [n \in Ids |-> table'[n]] /\ table'[c] = EmptyTable
      /\ \A n \in Ids \ {c} : table'[n] = table[n]
  BY <1>1, <1>3 DEF Queues
<1>6. /\ l0 = IF group.leading = NoMember THEN c ELSE group.leading
      /\ l0 \in up' /\ l0 \in Ids
      /\ group' \in [state : [Ids -> {"INACTIVE", "JOINED", "PREPARED"}], leading : Ids \cup {NoMember}]
      /\ Available(group) \cup {c} \subseteq Available(group)'
  BY <1>1, <1>3 DEF WithJoined, Grouped, Available
<1>7. \A n \in Ids \ {l0} : inbox'[n] = inbox[n]
  BY <1>1
<1>8. inbox'[l0] = Append(inbox[l0], e)
  BY <1>1, <1>6
<1>9. \A n \in Ids : inbox[n] = << >> => Leads(table'[n], inbox[n], Len(inbox[n]), table'[n])
  BY EmptyFacts, LeadsFrom
<1>10. /\ up' \subseteq Ids /\ up' \subseteq Available(group)' /\ waiting' \subseteq up'
       /\ answered' \in BOOLEAN
  BY <1>1, <1>3, <1>6 DEF Grouped
<1>11. Grouped'
  <2>1. l0 # NoMember
    BY <1>6 DEF Ids, NoMember
  <2>2. \A n \in Ids \ up' : inbox'[n] = << >> /\ \A i \in DOMAIN outbox'[n] : outbox'[n][i].type # "whole"
    BY <1>1, <1>6, <1>7 DEF Grouped
  <2> QED  BY <1>6, <1>10, <2>1, <2>2 DEF Grouped
<1>12. CASE group.leading = NoMember
  <2>1. up = {} /\ waiting = {} /\ l0 = c /\ up' = {c} /\ waiting' = {}
    BY <1>1, <1>6, <1>12 DEF Grouped
  <2> DEFINE r == Append(inbox[c], e)
  <2>2. /\ inbox'[c] = r /\ IsSeq(r) /\ Len(r) = Len(inbox[c]) + 1 /\ Len(inbox[c]) = 0
        /\ DOMAIN r = 1..1 /\ r[1] = e
    <3>1. IsSeq(inbox[c]) /\ Len(inbox[c]) = 0
      BY <1>4, EmptyFacts
    <3> QED  BY <1>8, <2>1, <3>1, AppendFacts
  <2>3. Ends(c, EmptyTable)'
    <3>1. Leads(EmptyTable, inbox[c], Len(inbox[c]), EmptyTable) /\ IsSeq(inbox[c])
      BY <2>2, <1>4, LeadsFrom, EmptyFacts
    <3>2. Leads(EmptyTable, r, Len(inbox[c]) + 1, Applied(EmptyTable, e))
      BY <3>1, LeadsAppend, Zenon
    <3>3. Leads(table'[c], inbox'[c], Len(inbox'[c]), EmptyTable)
      BY <1>2, <1>5, <2>2, <3>2
    <3> QED  BY <3>3 DEF Ends
  <2> HIDE DEF r
  <2>4. Queues'
    <3>1. \A n \in Ids : IsSeq(inbox'[n])
      BY <1>7, <2>1, <2>2 DEF Queues
    <3>2. \A n \in Ids : \A i \in DOMAIN inbox'[n] :
            inbox'[n][i].type = "left" => inbox'[n][i].members \subseteq Ids
      BY <1>2, <1>7, <2>1, <2>2 DEF Queues
    <3>3. inbox' = [n \in Ids |-> inbox'[n]]
      BY <1>1
    <3> QED  BY <1>1, <1>5, <3>1, <3>2, <3>3 DEF Queues
  <2>5. EachEnds'
    BY <2>1, <2>3 DEF EachEnds
  <2>6. Agreed'
    <3>1. l0 \notin waiting' /\ Served'
      BY <2>1 DEF Served
    <3>2. AnswersOnce'
      BY <1>4, <2>1, <2>2 DEF AnswersOnce, Due
    <3>3. Meet(EmptyTable)' /\ DueInTime(EmptyTable)' /\ ToldInTime(EmptyTable)'
      BY <1>4, <2>1, <2>3 DEF Meet, DueInTime, ToldInTime
    <3> QED  BY <3>1, <3>2, <3>3, Zenon DEF Agreed
  <2> QED  BY <1>11, <2>4, <2>5, <2>6
<1>13. CASE group.leading # NoMember
  <2>1. l0 = group.leading /\ l0 \in up /\ l0 # c /\ waiting' = waiting \cup {c}
    <3>1. l0 = group.leading
      BY <1>6, <1>13, Zenon
    <3>2. l0 \in up
      BY <1>1, <1>13, <3>1, Zenon
    <3>3. l0 # c
      BY <1>3, <3>2
    <3> HIDE DEF l0
    <3>4. waiting' = waiting \cup {c}
      BY <1>1, <3>3, Zenon
    <3> QED  BY <3>1, <3>2, <3>3, <3>4
  <2>2. PICK l : l = l0 /\ l \in Ids /\ l \in up
    BY <1>6, <2>1
  <2>3. /\ IsSeq(inbox'[l]) /\ Len(inbox'[l]) = Len(inbox[l]) + 1 /\ Len(inbox[l]) \in Nat
        /\ \A i \in DOMAIN inbox'[l] :
             inbox'[l][i].type = "left" => inbox'[l][i].members \subseteq Ids
        /\ \A u : Ends(l, u) => Ends(l, Applied(u, e))'
        /\ \A i \in Nat : \A j :
             /\ Due(l, i, j) => Due(l, i, j)' /\ i # Len(inbox[l]) + 1
             /\ Due(l, i, j)' => \/ Due(l, i, j)
                                 \/ i = Len(inbox[l]) + 1 /\ e.type = "joined" /\ e.member = j
             /\ i = Len(inbox[l]) + 1 /\ e.type = "joined" /\ e.member = j => Due(l, i, j)'
        /\ \A i \in Nat : \A j, u :
             Due(l, i, j) /\ Leads(table[l], inbox[l], i - 1, u) =>
               Leads(table'[l], inbox'[l], i - 1, u)
        /\ \A u : Ends(l, u) => Leads(table'[l], inbox'[l], Len(inbox[l]), u)
    <3>1. inbox'[l] = Append(inbox[l], e) /\ table'[l] = table[l] /\ e.type # "left"
      BY <1>2, <1>5, <1>8, <2>1, <2>2
    <3> QED  BY <2>2, <3>1, Grows
  <2>4. ASSUME NEW n \in Ids, n # l, n # c
        PROVE  inbox'[n] = inbox[n] /\ table'[n] = table[n] /\ \A u : Ends(n, u) => Ends(n, u)'
    <3>1. inbox'[n] = inbox[n] /\ table'[n] = table[n]
      BY <1>5, <1>7, <2>2, <2>4
    <3> QED  BY <3>1 DEF Ends
  <2>5. inbox'[c] = << >> /\ \A i \in Nat : \A j : ~Due(c, i, j)'
    <3>1. inbox'[c] = << >>
      BY <1>4, <1>7, <2>1
    <3> QED  BY <3>1, EmptyFacts DEF Due
  <2>6. Queues'
    <3>1. \A n \in Ids : IsSeq(inbox'[n])
      BY <2>3, <2>4, <2>5, EmptyFacts DEF Queues
    <3>2. \A n \in Ids : \A i \in DOMAIN inbox'[n] :
            inbox'[n][i].type = "left" => inbox'[n][i].members \subseteq Ids
      BY <2>3, <2>4, <2>5, EmptyFacts DEF Queues
    <3>3. inbox' = [n \in Ids |-> inbox'[n]]
      BY <1>1
    <3> QED  BY <1>1, <1>5, <3>1, <3>2, <3>3 DEF Queues
  <2>7. EachEnds'
    <3> SUFFICES ASSUME NEW n \in up'  PROVE (\E u : Ends(n, u))'
      BY Zenon DEF EachEnds
    <3>1. CASE n = c
      <4>1. Leads(table'[c], inbox'[c], Len(inbox'[c]), table'[c])
        BY <1>4, <1>9, <2>5
      <4> QED  BY <3>1, <4>1 DEF Ends
    <3>2. CASE n # c
      <4>1. n \in up /\ n \in Ids
        BY <1>1, <1>10, <3>2
      <4>2. PICK u : Ends(n, u)
        BY <4>1 DEF EachEnds
      <4> QED  BY <1>2, <2>3, <2>4, <3>2, <4>1, <4>2
    <3> QED  BY <3>1, <3>2
  <2>8. ASSUME answered'  PROVE Agreed'
    <3>1. Agreed /\ ~AnswerDue(c)
      BY <1>1, <2>8 DEF Grouped
    <3>2. PICK final : Meet(final) /\ DueInTime(final) /\ ToldInTime(final)
      BY <3>1 DEF Agreed
    <3>3. \A n \in up : \A i \in Nat : ~Due(n, i, c) /\ ~Told(n, i, c)
      BY <3>1 DEF AnswerDue, Due, Told
    <3>4. l \notin waiting /\ l' = l /\ l = group.leading /\ l = group'.leading
      BY <2>1, <2>2, <3>1 DEF Agreed
    <3>5. ASSUME NEW n \in up', NEW j \in up', NEW i \in Nat, Due(n, i, j)'
          PROVE  \/ n \in up /\ j \in up /\ j # c /\ Due(n, i, j)
                 \/ n = l /\ j = c /\ i = Len(inbox[l]) + 1
      <4>1. n \in up /\ n # c /\ n \in Ids
        BY <1>1, <1>10, <2>5, <3>5
      <4>2. CASE n = l
        <5>1. \/ Due(l, i, j)
              \/ i = Len(inbox[l]) + 1 /\ j = c
          BY <1>2, <2>3, <3>5, <4>2
        <5>2. Due(l, i, j) => j # c
          BY <2>2, <3>3
        <5> QED  BY <1>1, <4>1, <4>2, <5>1, <5>2
      <4>3. CASE n # l
        <5>1. Due(n, i, j)
          BY <2>4, <3>5, <4>1, <4>3 DEF Due
        <5> QED  BY <1>1, <3>3, <4>1, <5>1
      <4> QED  BY <4>2, <4>3
    <3>6. ASSUME NEW n \in up', NEW j \in up', NEW i \in Nat, Told(n, i, j)'
          PROVE  n \in up /\ j \in up /\ j # c /\ Told(n, i, j)
      <4>1. n # c /\ n \in up
        BY <1>1, <1>4, <3>6
      <4>2. Told(n, i, j)
        BY <1>1, <3>6 DEF Told
      <4> QED  BY <1>1, <3>3, <4>1, <4>2
    <3>7. Meet(final)'
      <4> SUFFICES ASSUME NEW n \in up', n \notin waiting'  PROVE Ends(n, final)'
        BY Zenon DEF Meet
      <4>1. n \in up /\ n # c /\ n \notin waiting /\ n \in Ids
        BY <1>1, <1>10, <2>1
      <4>2. Ends(n, final)
        BY <3>2, <4>1 DEF Meet
      <4> QED  BY <1>2, <2>3, <2>4, <4>1, <4>2
    <3>8. DueInTime(final)'
      <4> SUFFICES ASSUME NEW n \in up', NEW j \in up', NEW i \in Nat, Due(n, i, j)', j # n
                   PROVE  (n = group.leading /\ j \in waiting /\ Leads(table[n], inbox[n], i - 1, final))'
        BY Zenon DEF DueInTime
      <4>1. CASE n \in up /\ j \in up /\ j # c /\ Due(n, i, j)
        <5>1. n = group.leading /\ j \in waiting /\ Leads(table[n], inbox[n], i - 1, final)
          BY <3>2, <4>1 DEF DueInTime
        <5> QED  BY <2>1, <2>3, <3>4, <4>1, <5>1
      <4>2. CASE n = l /\ j = c /\ i = Len(inbox[l]) + 1
        <5>1. Ends(l, final)
          BY <2>2, <3>2, <3>4 DEF Meet
        <5>2. i - 1 = Len(inbox[l])
          BY <2>3, <4>2
        <5>3. Leads(table'[l], inbox'[l], i - 1, final)
          BY <2>3, <5>1, <5>2
        <5> QED  BY <2>1, <3>4, <4>2, <5>3
      <4> QED  BY <3>5, <4>1, <4>2
    <3>9. ToldInTime(final)'
      <4> SUFFICES ASSUME NEW n \in up', NEW j \in up', NEW i \in Nat, Told(n, i, j)'
                   PROVE  (n = group.leading /\ j \in waiting /\ outbox[n][i].table = final)'
        BY Zenon DEF ToldInTime
      <4>1. n \in up /\ j \in up /\ Told(n, i, j)
        BY <3>6
      <4> QED  BY <1>1, <2>1, <3>2, <4>1 DEF ToldInTime
    <3>10. AnswersOnce'
      <4> SUFFICES ASSUME NEW n \in up', NEW j \in up', NEW i \in Nat, NEW k \in Nat
                   PROVE  /\ Due(n, i, j)' /\ Due(n, k, j)' => i = k
                          /\ Told(n, i, j)' /\ Told(n, k, j)' => i = k
                          /\ ~(Due(n, i, j)' /\ Told(n, k, j)')
        BY Zenon DEF AnswersOnce
      <4>1. Due(n, i, j)' /\ Due(n, k, j)' => i = k
        BY <3>1, <3>5 DEF Agreed, AnswersOnce
      <4>2. Told(n, i, j)' /\ Told(n, k, j)' => i = k
        BY <3>1, <3>6 DEF Agreed, AnswersOnce
      <4>3. ~(Due(n, i, j)' /\ Told(n, k, j)')
        BY <3>1, <3>5, <3>6 DEF Agreed, AnswersOnce
      <4> QED  BY <4>1, <4>2, <4>3
    <3>11. Served'
      <4> SUFFICES ASSUME NEW j \in waiting'
                   PROVE  (\E i \in Nat : Due(group.leading, i, j) \/ Told(group.leading, i, j))'
        BY Zenon DEF Served
      <4>1. CASE j = c
        <5>1. PICK k \in Nat : k = Len(inbox[l]) + 1
          BY <2>3
        <5>2. Due(l, k, c)'
          BY <1>2, <2>3, <5>1
        <5> QED  BY <3>4, <4>1, <5>2
      <4>2. CASE j # c
        <5>1. PICK i \in Nat : Due(l, i, j) \/ Told(l, i, j)
          BY <2>1, <3>1, <3>4, <4>2 DEF Agreed, Served
        <5>2. Due(l, i, j)' \/ Told(l, i, j)'
          BY <1>1, <2>3, <5>1 DEF Told
        <5> QED  BY <3>4, <5>2
      <4> QED  BY <4>1, <4>2
    <3>12. group'.leading \notin waiting'
      BY <2>1, <3>4
    <3> QED  BY <3>7, <3>8, <3>9, <3>10, <3>11, <3>12, Zenon DEF Agreed
  <2> QED  BY <1>11, <2>6, <2>7, <2>8
<1> QED  BY <1>12, <1>13


(* Processes leave: what a joiner was still to be told by a leading member  *)
(* that leaves, nobody waits for.                                           *)
LEMMA MembersLeaveAgrees ==
  ASSUME AgreementInv, NEW gone \in SUBSET Ids, MembersLeave(gone)
  PROVE  AgreementInv'
<1> USE DEF AgreementInv
<1>0. PICK e : e = Left(gone, group)
  OBVIOUS
<1>1. /\ gone # {} /\ gone \subseteq up /\ up' = up \ gone
      /\ group' = WithLeft(group, gone)
      /\ inbox' = [m \in Ids |-> IF m \in gone THEN << >>
                                 ELSE IF m \in up THEN Append(inbox[m], e) ELSE inbox[m]]
      /\ outbox' = [m \in Ids |-> IF m \in gone THEN << >> ELSE outbox[m]]
      /\ queue' = [m \in Ids |-> IF m \in gone THEN << >> ELSE queue[m]]
      /\ table' = table
      /\ waiting' = waiting \ gone
      /\ answered' = (answered /\ (group.leading \in gone => waiting' = {}))
  BY <1>0 DEF MembersLeave, Leave
<1>2. /\ e.type = "left" /\ e.members = gone /\ e.type # "joined"
      /\ \A u : Applied(u, e) = u
  BY <1>0 DEF Left, Applied
<1>3. up \subseteq Ids /\ up' \subseteq up
  BY <1>1 DEF Grouped
<1>4. ASSUME NEW n \in gone
      PROVE  inbox'[n] = << >> /\ outbox'[n] = << >> /\ queue'[n] = << >>
  BY <1>1
<1>5. ASSUME NEW n \in up'
      PROVE  /\ IsSeq(inbox'[n])
             /\ \A i \in DOMAIN inbox'[n] :
                  inbox'[n][i].type = "left" => inbox'[n][i].members \subseteq Ids
             /\ \A u : Ends(n, u) => Ends(n, u)'
             /\ \A i \in Nat : \A j : Due(n, i, j)' <=> Due(n, i, j)
             /\ \A i \in Nat : \A j, u :
                  Due(n, i, j) /\ Leads(table[n], inbox[n], i - 1, u) =>
                    Leads(table'[n], inbox'[n], i - 1, u)
  <2>1. n \in Ids /\ inbox'[n] = Append(inbox[n], e) /\ table'[n] = table[n]
    BY <1>1, <1>3
  <2>2. /\ IsSeq(inbox'[n]) /\ Len(inbox'[n]) = Len(inbox[n]) + 1 /\ Len(inbox[n]) \in Nat
        /\ \A i \in DOMAIN inbox'[n] :
             inbox'[n][i].type = "left" => inbox'[n][i].members \subseteq Ids
        /\ \A u : Ends(n, u) => Ends(n, Applied(u, e))'
        /\ \A i \in Nat : \A j :
             /\ Due(n, i, j) => Due(n, i, j)' /\ i # Len(inbox[n]) + 1
             /\ Due(n, i, j)' => \/ Due(n, i, j)
                                 \/ i = Len(inbox[n]) + 1 /\ e.type = "joined" /\ e.member = j
             /\ i = Len(inbox[n]) + 1 /\ e.type = "joined" /\ e.member = j => Due(n, i, j)'
        /\ \A i \in Nat : \A j, u :
             Due(n, i, j) /\ Leads(table[n], inbox[n], i - 1, u) =>
               Leads(table'[n], inbox'[n], i - 1, u)
        /\ \A u : Ends(n, u) => Leads(table'[n], inbox'[n], Len(inbox[n]), u)
    BY <1>2, <2>1, Grows
  <2> QED  BY <1>2, <2>2
<1>6. ASSUME NEW n \in Ids \ up
      PROVE  inbox'[n] = inbox[n] /\ outbox'[n] = outbox[n]
  BY <1>1
<1>7. Queues'
  <2>1. \A n \in Ids : n \in gone \/ n \in up' \/ n \in Ids \ up
    BY <1>1
  <2>2. \A n \in Ids : /\ IsSeq(inbox'[n])
                       /\ \A i \in DOMAIN inbox'[n] :
                            inbox'[n][i].type = "left" => inbox'[n][i].members \subseteq Ids
    BY <1>4, <1>5, <1>6, <2>1, EmptyFacts DEF Queues
  <2>3. \A n \in Ids : /\ IsSeq(outbox'[n]) /\ IsSeq(queue'[n])
                       /\ \A i \in DOMAIN outbox'[n] :
                            outbox'[n][i].type \in {"whole", "delta", "status", "prepared"}
    BY <1>1, EmptyFacts DEF Queues
  <2>4. /\ inbox' = [n \in Ids |-> inbox'[n]] /\ outbox' = [n \in Ids |-> outbox'[n]]
        /\ queue' = [n \in Ids |-> queue'[n]]
    BY <1>1
  <2> QED  BY <1>1, <2>2, <2>3, <2>4 DEF Queues
<1>8. group.leading # NoMember
  BY <1>1 DEF Grouped
<1>9. /\ group' \in [state : [Ids -> {"INACTIVE", "JOINED", "PREPARED"}], leading : Ids \cup {NoMember}]
      /\ up' \subseteq Available(group)'
      /\ group'.leading # NoMember
      /\ group.leading \notin gone => group'.leading = group.leading
  <2>1. CASE group.leading \in gone /\ Successors(group, gone) = {}
    BY <1>1, <1>8, <2>1 DEF WithLeft, Grouped, Available
  <2>2. CASE ~(group.leading \in gone /\ Successors(group, gone) = {})
    <3> DEFINE state == [m \in Ids |-> IF m \in gone THEN "INACTIVE" ELSE group.state[m]]
               leading == IF group.leading \in gone THEN Min(Successors(group, gone)) ELSE group.leading
    <3>1. group' = [state |-> state, leading |-> leading]
      BY <1>1, <2>2 DEF WithLeft
    <3>2. state \in [Ids -> {"INACTIVE", "JOINED", "PREPARED"}]
      BY DEF Grouped
    <3>3. leading \in Ids
      <4>1. CASE group.leading \in gone
        <5>1. Successors(group, gone) \in SUBSET Nat /\ Successors(group, gone) # {}
          BY <2>2, <4>1 DEF Successors, Ids
        <5>2. Min(Successors(group, gone)) \in Successors(group, gone)
          BY <5>1, MinOfNats, Zenon
        <5> QED  BY <4>1, <5>2 DEF Successors
      <4>2. CASE group.leading \notin gone
        BY <1>8, <4>2 DEF Grouped
      <4> QED  BY <4>1, <4>2
    <3>4. \A m \in up' : state[m] # "INACTIVE"
      BY <1>1, <1>3 DEF Grouped, Available
    <3>5. leading # NoMember
      BY <3>3 DEF Ids, NoMember
    <3>6. group.leading \notin gone => leading = group.leading
      OBVIOUS
    <3> HIDE DEF state, leading
    <3> QED  BY <1>3, <3>1, <3>2, <3>3, <3>4, <3>5, <3>6 DEF Available
  <2> QED  BY <2>1, <2>2
<1>10. Grouped'
  <2>1. \A n \in Ids \ up' : inbox'[n] = << >> /\ \A i \in DOMAIN outbox'[n] : outbox'[n][i].type # "whole"
    <3>1. \A n \in Ids \ up' : n \in gone \/ n \in Ids \ up
      BY <1>1
    <3> QED  BY <1>4, <1>6, <3>1, EmptyFacts DEF Grouped
  <2>2. up' \subseteq Ids /\ waiting' \subseteq up' /\ answered' \in BOOLEAN
    BY <1>1 DEF Grouped
  <2> QED  BY <1>9, <2>1, <2>2 DEF Grouped
<1>11. EachEnds'
  <2> SUFFICES ASSUME NEW n \in up'  PROVE (\E u : Ends(n, u))'
    BY Zenon DEF EachEnds
  <2>1. PICK u : Ends(n, u)
    BY <1>3 DEF EachEnds
  <2> QED  BY <1>5, <2>1
<1>12. \A n \in up', i \in Nat : \A j : Told(n, i, j)' <=> Told(n, i, j)
  BY <1>1, <1>3 DEF Told
<1>13. ASSUME answered'  PROVE Agreed'
  <2>1. Agreed /\ (group.leading \in gone => waiting' = {})
    BY <1>1, <1>13 DEF Grouped
  <2>2. PICK final : Meet(final) /\ DueInTime(final) /\ ToldInTime(final)
    BY <2>1 DEF Agreed
  <2>3. group'.leading \notin waiting'
    BY <1>1, <1>9, <2>1 DEF Agreed
  <2>4. Meet(final)'
    BY <1>1, <1>3, <1>5, <2>2 DEF Meet
  <2>5. DueInTime(final)'
    <3> SUFFICES ASSUME NEW l \in up', NEW j \in up', NEW i \in Nat, Due(l, i, j)', j # l
                 PROVE  (l = group.leading /\ j \in waiting /\ Leads(table[l], inbox[l], i - 1, final))'
      BY Zenon DEF DueInTime
    <3>1. Due(l, i, j) /\ l \in up /\ j \in up
      BY <1>3, <1>5
    <3>2. l = group.leading /\ j \in waiting /\ Leads(table[l], inbox[l], i - 1, final)
      BY <2>2, <3>1 DEF DueInTime
    <3>3. l \notin gone /\ j \notin gone
      BY <1>1
    <3> QED  BY <1>1, <1>5, <1>9, <3>1, <3>2, <3>3
  <2>6. ToldInTime(final)'
    <3> SUFFICES ASSUME NEW l \in up', NEW j \in up', NEW i \in Nat, Told(l, i, j)'
                 PROVE  (l = group.leading /\ j \in waiting /\ outbox[l][i].table = final)'
      BY Zenon DEF ToldInTime
    <3>1. Told(l, i, j) /\ l \in up /\ j \in up /\ l \in Ids
      BY <1>3, <1>12
    <3>2. l = group.leading /\ j \in waiting /\ outbox[l][i].table = final
      BY <2>2, <3>1 DEF ToldInTime
    <3>3. l \notin gone /\ j \notin gone
      BY <1>1
    <3> QED  BY <1>1, <1>9, <3>1, <3>2, <3>3
  <2>7. AnswersOnce'
    <3> SUFFICES ASSUME NEW l \in up', NEW j \in up', NEW i \in Nat, NEW k \in Nat
                 PROVE  /\ Due(l, i, j)' /\ Due(l, k, j)' => i = k
                        /\ Told(l, i, j)' /\ Told(l, k, j)' => i = k
                        /\ ~(Due(l, i, j)' /\ Told(l, k, j)')
      BY Zenon DEF AnswersOnce
    <3>1. l \in up /\ j \in up
      BY <1>3
    <3>2. /\ Due(l, i, j)' <=> Due(l, i, j)
          /\ Due(l, k, j)' <=> Due(l, k, j)
          /\ Told(l, i, j)' <=> Told(l, i, j)
          /\ Told(l, k, j)' <=> Told(l, k, j)
      BY <1>5, <1>12
    <3> QED  BY <2>1, <3>1, <3>2 DEF Agreed, AnswersOnce
  <2>8. Served'
    <3> SUFFICES ASSUME NEW j \in waiting'
                 PROVE  (\E i \in Nat : Due(group.leading, i, j) \/ Told(group.leading, i, j))'
      BY Zenon DEF Served
    <3> DEFINE l == group.leading
    <3>1. PICK i \in Nat : Due(l, i, j) \/ Told(l, i, j)
      BY <1>1, <2>1 DEF Agreed, Served
    <3>2. l' = l /\ l \notin gone
      BY <1>9, <2>1
    <3>3. l \in up
      <4>1. l \in Ids
        BY <1>8 DEF Grouped
      <4>2. CASE Due(l, i, j)
        BY <4>1, <4>2, EmptyFacts DEF Due, Grouped
      <4>3. CASE Told(l, i, j)
        BY <4>1, <4>3 DEF Told, Grouped
      <4> QED  BY <3>1, <4>2, <4>3
    <3>4. l \in up'
      BY <1>1, <3>2, <3>3
    <3>5. PICK n : n = l
      OBVIOUS
    <3>6. Due(n, i, j)' \/ Told(n, i, j)'
      BY <1>5, <1>12, <3>1, <3>4, <3>5
    <3> QED  BY <3>2, <3>5, <3>6
  <2> QED  BY <2>1, <2>2, <2>3, <2>4, <2>5, <2>6, <2>7, <2>8, Zenon DEF Agreed
<1> QED  BY <1>7, <1>10, <1>11, <1>13


-----------------------------------------------------------------------------
LEMMA AgreesAtFirst == ASSUME Init PROVE AgreementInv
<1>1. /\ up = {} /\ group = NoMembers /\ inbox = [m \in Ids |-> << >>]
      /\ outbox = [m \in Ids |-> << >>] /\ table = [m \in Ids |-> EmptyTable]
      /\ queue = [m \in Ids |-> << >>] /\ waiting = {} /\ answered = TRUE
  BY DEF Init, InitTables
<1>2. Queues
  BY <1>1, EmptyFacts DEF Queues
<1>3. group.leading = NoMember /\ group \in [state : [Ids -> {"INACTIVE", "JOINED", "PREPARED"}], leading : Ids \cup {NoMember}]
  BY <1>1 DEF NoMembers
<1>4. Grouped
  BY <1>1, <1>3, EmptyFacts DEF Grouped
<1>5. EachEnds /\ Agreed
  BY <1>1 DEF EachEnds, Agreed, AnswersOnce, Served, Meet, DueInTime, ToldInTime
<1> QED  BY <1>2, <1>4, <1>5 DEF AgreementInv

LEMMA AgreementKept == AgreementInv /\ [Next]_vars => AgreementInv'
<1> SUFFICES ASSUME AgreementInv, [Next]_vars  PROVE AgreementInv'
  OBVIOUS
<1>1. ASSUME NEW m \in Ids, MemberJoins(m)  PROVE AgreementInv'
  BY <1>1, MemberJoinsAgrees
<1>2. ASSUME NEW gone \in SUBSET Ids, MembersLeave(gone)  PROVE AgreementInv'
  BY <1>2, MembersLeaveAgrees
<1>3. ASSUME NEW m \in Ids, Ordering(m)  PROVE AgreementInv'
  BY <1>3, OrderingAgrees
<1>4. ASSUME NEW m \in Ids, Dispatches(m)  PROVE AgreementInv'
  <2>1. Queues
    BY DEF AgreementInv
  <2>2. CASE Joining(m)
    <3>1. CASE NextEvent(m).member = m
      BY <2>1, <2>2, <3>1, JoiningAlone, DispatchAgrees
    <3>2. CASE NextEvent(m).member # m
      BY <2>2, <3>2, JoiningAgrees
    <3> QED  BY <3>1, <3>2
  <2>3. CASE Receiving(m) \/ Noting(m) \/ Changing(m) \/ Leaving(m)
    BY <2>1, <2>3, HandlersDispatch, DispatchAgrees
  <2> QED  BY <1>4, <2>2, <2>3 DEF Dispatches
<1>5. ASSUME NEW m \in Ids, NEW msg \in BagToSet(net), msg.to = m, Acts(msg)  PROVE AgreementInv'
  <2>1. Works(msg.to)
    BY <1>5, ActorsWork DEF AgreementInv
  <2> QED  BY <1>5, <2>1, WorkAgrees
<1>6. CASE UNCHANGED vars
  <2>1. UNCHANGED <<up, group, inbox, outbox, table, queue, waiting, answered>>
    BY <1>6 DEF vars, tableVars, targetVars, historyVars
  <2>2. Queues'
    BY <2>1, Zenon DEF AgreementInv, Queues
  <2>4. Grouped'
    BY <2>1, Zenon DEF AgreementInv, Grouped, Available
  <2>5. EachEnds'
    BY <2>1, Zenon DEF AgreementInv, EachEnds, Ends
  <2>3. Agreed => Agreed'
    <3>1. \A final : /\ Meet(final) => Meet(final)'
                     /\ DueInTime(final) => DueInTime(final)'
                     /\ ToldInTime(final) => ToldInTime(final)'
      BY <2>1 DEF Meet, Ends, DueInTime, Due, ToldInTime, Told
    <3>2. (AnswersOnce => AnswersOnce') /\ (Served => Served')
      BY <2>1 DEF AnswersOnce, Served, Due, Told
    <3>3. group'.leading = group.leading /\ waiting' = waiting
      BY <2>1
    <3> QED  BY <3>1, <3>2, <3>3 DEF Agreed
  <2> QED  BY <2>1, <2>2, <2>3, <2>4, <2>5 DEF AgreementInv
<1>7. ASSUME NEW m \in Ids, MemberStep(m)  PROVE AgreementInv'
  BY <1>3, <1>4, <1>5, <1>7 DEF MemberStep
<1> QED  BY <1>1, <1>2, <1>6, <1>7 DEF Next

(* Each member's table, with what it has yet to dispatch, is going where    *)
(* the tables of all the others are going (partition_manager_actor.cpp),    *)
(* and what a joiner is told is that table as well.                         *)
THEOREM AgreementInvariance == Spec => []AgreementInv
<1>1. Init => AgreementInv
  BY AgreesAtFirst
<1>2. AgreementInv /\ [Next]_vars => AgreementInv'
  BY AgreementKept
<1> QED  BY <1>1, <1>2, PTL DEF Spec

(* Members that have dispatched everything have the same partition table.   *)
THEOREM TablesAgreeAlways == Spec => []TablesAgree
<1>1. AgreementInv => TablesAgree
  <2> SUFFICES ASSUME AgreementInv, answered, Quiet, NEW m \in up, NEW n \in up
               PROVE  table[m] = table[n]
    BY DEF TablesAgree
  <2>1. Agreed /\ Grouped
    BY DEF AgreementInv
  <2>2. PICK final : Meet(final)
    BY <2>1 DEF Agreed
  <2>3. \A k \in up : inbox[k] = << >> /\ outbox[k] = << >>
    BY DEF Quiet
  <2>4. \A k \in Ids : inbox[k] = << >> /\ \A i \in DOMAIN outbox[k] : outbox[k][i].type # "whole"
    BY <2>1, <2>3, EmptyFacts DEF Grouped
  <2>5. waiting = {}
    <3> SUFFICES ASSUME NEW j \in waiting  PROVE FALSE
      OBVIOUS
    <3>1. group.leading \in Ids
      BY <2>1 DEF Grouped
    <3>2. PICK i \in Nat : Due(group.leading, i, j) \/ Told(group.leading, i, j)
      BY <2>1 DEF Agreed, Served
    <3> QED  BY <2>4, <3>1, <3>2, EmptyFacts DEF Due, Told
  <2>6. ASSUME NEW k \in up  PROVE table[k] = final
    <3>1. Leads(table[k], inbox[k], Len(inbox[k]), final)
      BY <2>2, <2>5 DEF Meet, Ends
    <3>2. Len(inbox[k]) = 0
      BY <2>3, EmptyFacts
    <3>3. Leads(table[k], inbox[k], 0, final)
      BY <3>1, <3>2
    <3> QED  BY <3>3, LeadsNowhere
  <2> QED  BY <2>6
<1> QED  BY <1>1, AgreementInvariance, PTL

-----------------------------------------------------------------------------
(* What stays in T in every step of a loop is in T at its end.              *)
LEMMA LoopStays ==
  ASSUME NEW T, NEW n \in Nat, NEW f, f[0] \in T,
         \A i \in 1..n : f[i - 1] \in T => f[i] \in T
  PROVE  f[n] \in T
<1> DEFINE same == [i \in 0..n |-> T]
<1>1. f[0] \in same[0] /\ f[n] \in same[n] => f[n] \in T
  OBVIOUS
<1>2. \A i \in 1..n : f[i - 1] \in same[i - 1] => f[i] \in same[i]
  <2>1. \A i \in 1..n : i \in 0..n /\ i - 1 \in 0..n
    OBVIOUS
  <2> QED  BY <2>1
<1>3. f[0] \in same[0]
  OBVIOUS
<1> HIDE DEF same
<1> QED  BY <1>1, <1>2, <1>3, StepsStay

-----------------------------------------------------------------------------
(* A balance makes a table of a table (RebalanceProofs shows more of it,    *)
(* where the replicas are apart to begin with).                             *)
Tables == [Parts -> [Cells -> Cell]]

LEMMA ReplicasInUse ==
  ASSUME NEW members \in SUBSET Ids
  PROVE  MaxReplicas(members) \in 0..Replicas /\ Replicas \in Nat
<1>1. Replicas \in Nat /\ IsFiniteSet(members)
  BY BalancerAssumption, IdsFinite
<1>2. PICK k : k = Cardinality(members)
  OBVIOUS
<1>3. {k, Replicas} \in SUBSET Nat /\ {k, Replicas} # {}
  BY <1>1, <1>2, FS_CardinalityType
<1>4. Min({k, Replicas}) \in {k, Replicas} /\ \A x \in {k, Replicas} : Min({k, Replicas}) <= x
  BY <1>3, MinOfNats, Zenon
<1>5. MaxReplicas(members) = Min({k, Replicas})
  BY <1>2 DEF MaxReplicas
<1> QED  BY <1>1, <1>3, <1>4, <1>5

LEMMA OrderOfCells ==
  ASSUME NEW members \in SUBSET Ids, NEW n \in 1..(MaxReplicas(members) * Partitions)
  PROVE  Order(n).r \in 1..MaxReplicas(members) /\ Order(n).p \in Parts
<1> DEFINE q == (n - 1) \div Partitions
           m == (n - 1) % Partitions
<1>1. PICK max \in Nat : max = MaxReplicas(members)
  BY ReplicasInUse
<1>2. Partitions \in Nat /\ Partitions > 0 /\ n \in Int /\ n - 1 \in Nat /\ n - 1 < max * Partitions
  BY <1>1, BalancerAssumption
<1>3. q \in Int /\ m \in 0..(Partitions - 1) /\ n - 1 = Partitions * q + m
  BY <1>2
<1>4. q >= 0 /\ q < max
  BY <1>1, <1>2, <1>3
<1> QED  BY <1>1, <1>2, <1>3, <1>4 DEF Order, Parts

LEMMA SwapMemberTable ==
  ASSUME NEW t \in Tables, NEW p \in Parts, NEW r \in Cells, NEW i \in Cells
  PROVE  SwapMember(t, p, r, i) \in Tables
BY DEF SwapMember, Tables

LEMMA SetMemberTable ==
  ASSUME NEW t \in Tables, NEW members \in SUBSET Ids, NEW p \in Parts, NEW r \in Cells,
         NEW m \in Ids \cup {NoMember}
  PROVE  SetMember(t, members, p, r, m) \in Tables
<1> DEFINE placed == [t EXCEPT ![p][r] = [mid |-> m, state |-> "INIT"]]
           free   == {i \in (r + 1)..MaxReplicas(members) : t[p][i].mid = NoMember}
<1>1. [mid |-> m, state |-> "INIT"] \in Cell
  BY DEF Cell
<1>2. placed \in Tables
  BY <1>1 DEF Tables
<1>3. CASE t[p][r].mid \in members /\ free # {}
  <2>1. MaxReplicas(members) \in 0..Replicas /\ Replicas \in Nat
    BY ReplicasInUse
  <2>2. free \in SUBSET Nat
    BY <2>1 DEF Cells
  <2>3. Min(free) \in free
    BY <1>3, <2>2, MinOfNats
  <2>4. PICK i : i = Min(free)
    OBVIOUS
  <2>5. i \in Cells
    BY <2>1, <2>3, <2>4 DEF Cells
  <2>6. SetMember(t, members, p, r, m) = [placed EXCEPT ![p][i] = t[p][r]]
    BY <1>3, <2>4 DEF SetMember
  <2>7. t[p][r] \in Cell
    BY DEF Tables
  <2> HIDE DEF placed, free
  <2> QED  BY <1>2, <2>5, <2>6, <2>7 DEF Tables
<1>4. CASE ~(t[p][r].mid \in members /\ free # {})
  BY <1>2, <1>4 DEF SetMember
<1> QED  BY <1>3, <1>4

LEMMA AdjustCellTable ==
  ASSUME NEW members \in SUBSET Ids, NEW t \in Tables, NEW p \in Parts,
         NEW r \in 1..MaxReplicas(members)
  PROVE  AdjustCell(t, members, p, r) \in Tables
<1> DEFINE partners ==
        {i \in (r + 1)..MaxReplicas(members) :
           /\ t[p][i].mid # NoMember
           /\ \/ t[p][r].mid = NoMember
              \/ Gain(t, t[p][r].mid, t[p][i].mid, r, i) >= 2}
<1>1. MaxReplicas(members) \in 0..Replicas /\ Replicas \in Nat
  BY ReplicasInUse
<1>2. CASE partners = {}
  BY <1>2 DEF AdjustCell
<1>3. CASE partners # {}
  <2>1. Min(partners) \in partners
    <3>1. partners \in SUBSET Nat
      BY <1>1
    <3> QED  BY <1>3, <3>1, MinOfNats
  <2>2. PICK i : i = Min(partners)
    OBVIOUS
  <2>3. i \in (r + 1)..MaxReplicas(members)
    BY <2>1, <2>2
  <2>4. AdjustCell(t, members, p, r) = SwapMember(t, p, r, i)
    BY <1>3, <2>2 DEF AdjustCell
  <2> HIDE DEF partners
  <2>5. r \in Cells /\ i \in Cells
    BY <1>1, <2>3 DEF Cells
  <2> QED  BY <2>4, <2>5, SwapMemberTable
<1> QED  BY <1>2, <1>3

LEMMA AdjustTable ==
  ASSUME NEW t \in Tables, NEW members \in SUBSET Ids
  PROVE  Adjust(t, members) \in Tables
<1> DEFINE N == MaxReplicas(members) * Partitions
           step(n, u) == AdjustCell(u, members, Order(n).p, Order(n).r)
           next(n, u) == CHOOSE x \in {step(n, v) : v \in {u}} : TRUE
           G == [nu \in (1..N) \X Tables |-> step(nu[1], nu[2])]
<1>1. N \in Nat
  BY ReplicasInUse, BalancerAssumption
<1>2. ASSUME NEW n \in 1..N, NEW u \in Tables  PROVE step(n, u) \in Tables
  BY OrderOfCells, AdjustCellTable
<1>3. Adjust(t, members) =
        (CHOOSE f : f = [n \in 0..N |-> IF n = 0 THEN t ELSE next(n, f[n - 1])])[N]
  BY DEF Adjust, Iterate
<1>4. \A n, u : next(n, u) = step(n, u)
  OBVIOUS
<1> HIDE DEF step, next, N
<1>5. G \in [(1..N) \X Tables -> Tables] /\ \A n \in 1..N, u \in Tables : G[<<n, u>>] = next(n, u)
  BY <1>2, <1>4
<1> HIDE DEF G
<1>6. PICK h : Evolves(h, Tables, t, N, G)
  BY <1>1, <1>5, StepsExist
<1>7. h = [n \in 0..N |-> IF n = 0 THEN t ELSE next(n, h[n - 1])]
  <2>1. h \in [0..N -> Tables] /\ h[0] = t /\ \A n \in 1..N : h[n] = G[<<n, h[n - 1]>>]
    BY <1>6 DEF Evolves
  <2>2. \A n \in 0..N : n = 0 \/ (n \in 1..N /\ h[n - 1] \in Tables)
    BY <1>1, <2>1
  <2> QED  BY <1>5, <2>1, <2>2
<1>8. PICK f : /\ f = [n \in 0..N |-> IF n = 0 THEN t ELSE next(n, f[n - 1])]
               /\ Adjust(t, members) = f[N]
  BY <1>3, <1>7
<1>9. f[0] \in Tables /\ \A n \in 1..N : f[n - 1] \in Tables => f[n] \in Tables
  <2>1. 0 \in 0..N /\ \A n \in 1..N : n \in 0..N /\ n # 0
    BY <1>1
  <2>2. f[0] = t /\ \A n \in 1..N : f[n] = step(n, f[n - 1])
    <3>1. \A n \in 0..N : f[n] = IF n = 0 THEN t ELSE next(n, f[n - 1])
      BY <1>8
    <3> QED  BY <1>4, <2>1, <3>1
  <2> QED  BY <1>2, <2>2
<1> QED  BY <1>1, <1>8, <1>9, LoopStays

LEMMA PullForwardTable ==
  ASSUME NEW members \in SUBSET Ids, NEW leave, NEW t \in Tables, NEW p \in Parts,
         NEW r \in 1..MaxReplicas(members)
  PROVE  PullForward(t, members, leave, p, r) \in Tables
<1> DEFINE used == {i \in (MaxReplicas(members) + 1)..Replicas : t[p][i].mid # NoMember}
<1>1. MaxReplicas(members) \in 0..Replicas /\ Replicas \in Nat
  BY ReplicasInUse
<1>2. CASE PullForward(t, members, leave, p, r) # t
  <2>1. used # {} /\ PullForward(t, members, leave, p, r) = SwapMember(t, p, r, Min(used))
    BY <1>2 DEF PullForward
  <2>2. used \in SUBSET Nat
    BY <1>1
  <2>3. Min(used) \in used
    BY <2>1, <2>2, MinOfNats
  <2>4. Min(used) \in Cells /\ r \in Cells
    BY <1>1, <2>3 DEF Cells
  <2> HIDE DEF used
  <2> QED  BY <2>1, <2>4, SwapMemberTable
<1> QED  BY <1>2

LEMMA PullAllTable ==
  ASSUME NEW members \in SUBSET Ids, NEW leave, NEW t \in Tables, NEW p \in Parts
  PROVE  PullAll(t, members, leave, p) \in Tables
<1> DEFINE N == MaxReplicas(members)
           step(n, u) == PullForward(u, members, leave, p, n)
           next(n, u) == CHOOSE x \in {step(n, v) : v \in {u}} : TRUE
           G == [nu \in (1..N) \X Tables |-> step(nu[1], nu[2])]
<1>1. N \in Nat
  BY ReplicasInUse
<1>2. ASSUME NEW n \in 1..N, NEW u \in Tables  PROVE step(n, u) \in Tables
  BY PullForwardTable
<1>3. PullAll(t, members, leave, p) =
        (CHOOSE f : f = [n \in 0..N |-> IF n = 0 THEN t ELSE next(n, f[n - 1])])[N]
  BY DEF PullAll, Iterate
<1>4. \A n, u : next(n, u) = step(n, u)
  OBVIOUS
<1> HIDE DEF step, next, N
<1>5. G \in [(1..N) \X Tables -> Tables] /\ \A n \in 1..N, u \in Tables : G[<<n, u>>] = next(n, u)
  BY <1>2, <1>4
<1> HIDE DEF G
<1>6. PICK h : Evolves(h, Tables, t, N, G)
  BY <1>1, <1>5, StepsExist
<1>7. h = [n \in 0..N |-> IF n = 0 THEN t ELSE next(n, h[n - 1])]
  <2>1. h \in [0..N -> Tables] /\ h[0] = t /\ \A n \in 1..N : h[n] = G[<<n, h[n - 1]>>]
    BY <1>6 DEF Evolves
  <2>2. \A n \in 0..N : n = 0 \/ (n \in 1..N /\ h[n - 1] \in Tables)
    BY <1>1, <2>1
  <2> QED  BY <1>5, <2>1, <2>2
<1>8. PICK f : /\ f = [n \in 0..N |-> IF n = 0 THEN t ELSE next(n, f[n - 1])]
               /\ PullAll(t, members, leave, p) = f[N]
  BY <1>3, <1>7
<1>9. f[0] \in Tables /\ \A n \in 1..N : f[n - 1] \in Tables => f[n] \in Tables
  <2>1. 0 \in 0..N /\ \A n \in 1..N : n \in 0..N /\ n # 0
    BY <1>1
  <2>2. f[0] = t /\ \A n \in 1..N : f[n] = step(n, f[n - 1])
    <3>1. \A n \in 0..N : f[n] = IF n = 0 THEN t ELSE next(n, f[n - 1])
      BY <1>8
    <3> QED  BY <1>4, <2>1, <3>1
  <2> QED  BY <1>2, <2>2
<1> QED  BY <1>1, <1>8, <1>9, LoopStays

LEMMA DropRestTable ==
  ASSUME NEW members \in SUBSET Ids, NEW t \in Tables, NEW p \in Parts
  PROVE  DropRest(t, members, p) \in Tables
<1> DEFINE max == MaxReplicas(members)
           N == Replicas - max
           step(n, u) == SetMember(u, members, p, max + n, NoMember)
           next(n, u) == CHOOSE x \in {step(n, v) : v \in {u}} : TRUE
           G == [nu \in (1..N) \X Tables |-> step(nu[1], nu[2])]
<1>1. N \in Nat /\ max \in Nat /\ max + N = Replicas
  BY ReplicasInUse
<1>2. ASSUME NEW n \in 1..N, NEW u \in Tables  PROVE step(n, u) \in Tables
  <2>1. max + n \in Cells /\ NoMember \in Ids \cup {NoMember}
    BY <1>1 DEF Cells
  <2> HIDE DEF max
  <2> QED  BY <2>1, SetMemberTable
<1>3. DropRest(t, members, p) =
        (CHOOSE f : f = [n \in 0..N |-> IF n = 0 THEN t ELSE next(n, f[n - 1])])[N]
  BY DEF DropRest, Iterate
<1>4. \A n, u : next(n, u) = step(n, u)
  OBVIOUS
<1> HIDE DEF step, next, N
<1>5. G \in [(1..N) \X Tables -> Tables] /\ \A n \in 1..N, u \in Tables : G[<<n, u>>] = next(n, u)
  BY <1>2, <1>4
<1> HIDE DEF G
<1>6. PICK h : Evolves(h, Tables, t, N, G)
  BY <1>1, <1>5, StepsExist
<1>7. h = [n \in 0..N |-> IF n = 0 THEN t ELSE next(n, h[n - 1])]
  <2>1. h \in [0..N -> Tables] /\ h[0] = t /\ \A n \in 1..N : h[n] = G[<<n, h[n - 1]>>]
    BY <1>6 DEF Evolves
  <2>2. \A n \in 0..N : n = 0 \/ (n \in 1..N /\ h[n - 1] \in Tables)
    BY <1>1, <2>1
  <2> QED  BY <1>5, <2>1, <2>2
<1>8. PICK f : /\ f = [n \in 0..N |-> IF n = 0 THEN t ELSE next(n, f[n - 1])]
               /\ DropRest(t, members, p) = f[N]
  BY <1>3, <1>7
<1>9. f[0] \in Tables /\ \A n \in 1..N : f[n - 1] \in Tables => f[n] \in Tables
  <2>1. 0 \in 0..N /\ \A n \in 1..N : n \in 0..N /\ n # 0
    BY <1>1
  <2>2. f[0] = t /\ \A n \in 1..N : f[n] = step(n, f[n - 1])
    <3>1. \A n \in 0..N : f[n] = IF n = 0 THEN t ELSE next(n, f[n - 1])
      BY <1>8
    <3> QED  BY <1>4, <2>1, <3>1
  <2> QED  BY <1>2, <2>2
<1> QED  BY <1>1, <1>8, <1>9, LoopStays

LEMMA CutDownTable ==
  ASSUME NEW members \in SUBSET Ids, NEW leave, NEW t \in Tables
  PROVE  CutDown(t, members, leave) \in Tables
<1> SUFFICES ASSUME Cardinality(members) < Replicas
             PROVE  CutDown(t, members, leave) \in Tables
  BY DEF CutDown
<1> DEFINE N == Partitions
           step(n, u) == DropRest(PullAll(u, members, leave, n), members, n)
           next(n, u) == CHOOSE x \in {step(n, v) : v \in {u}} : TRUE
           G == [nu \in (1..N) \X Tables |-> step(nu[1], nu[2])]
<1>1. N \in Nat
  BY BalancerAssumption
<1>2. ASSUME NEW n \in 1..N, NEW u \in Tables  PROVE step(n, u) \in Tables
  BY PullAllTable, DropRestTable DEF Parts
<1>3. CutDown(t, members, leave) =
        (CHOOSE f : f = [n \in 0..N |-> IF n = 0 THEN t ELSE next(n, f[n - 1])])[N]
  BY DEF CutDown, Iterate
<1>4. \A n, u : next(n, u) = step(n, u)
  OBVIOUS
<1> HIDE DEF step, next, N
<1>5. G \in [(1..N) \X Tables -> Tables] /\ \A n \in 1..N, u \in Tables : G[<<n, u>>] = next(n, u)
  BY <1>2, <1>4
<1> HIDE DEF G
<1>6. PICK h : Evolves(h, Tables, t, N, G)
  BY <1>1, <1>5, StepsExist
<1>7. h = [n \in 0..N |-> IF n = 0 THEN t ELSE next(n, h[n - 1])]
  <2>1. h \in [0..N -> Tables] /\ h[0] = t /\ \A n \in 1..N : h[n] = G[<<n, h[n - 1]>>]
    BY <1>6 DEF Evolves
  <2>2. \A n \in 0..N : n = 0 \/ (n \in 1..N /\ h[n - 1] \in Tables)
    BY <1>1, <2>1
  <2> QED  BY <1>5, <2>1, <2>2
<1>8. PICK f : /\ f = [n \in 0..N |-> IF n = 0 THEN t ELSE next(n, f[n - 1])]
               /\ CutDown(t, members, leave) = f[N]
  BY <1>3, <1>7
<1>9. f[0] \in Tables /\ \A n \in 1..N : f[n - 1] \in Tables => f[n] \in Tables
  <2>1. 0 \in 0..N /\ \A n \in 1..N : n \in 0..N /\ n # 0
    BY <1>1
  <2>2. f[0] = t /\ \A n \in 1..N : f[n] = step(n, f[n - 1])
    <3>1. \A n \in 0..N : f[n] = IF n = 0 THEN t ELSE next(n, f[n - 1])
      BY <1>8
    <3> QED  BY <1>4, <2>1, <3>1
  <2> QED  BY <1>2, <2>2
<1> QED  BY <1>1, <1>8, <1>9, LoopStays

LEMMA TakersAreMembers ==
  ASSUME NEW t, NEW members, NEW p, NEW r
  PROVE  BestTakers(t, members, p, r) \subseteq members
BY DEF BestTakers, Takers

Turns == [tbl : Tables, next : Nat]

LEMMA ReplaceTable ==
  ASSUME NEW acc \in Turns, NEW members \in SUBSET Ids, NEW leave,
         NEW p \in Parts, NEW r \in 1..MaxReplicas(members)
  PROVE  Replace(acc, members, leave, p, r) \in Turns
<1> DEFINE takers  == BestTakers(acc.tbl, members, p, r)
           turn(m) == (m - 1 - acc.next + MemberCount) % MemberCount
           first   == CHOOSE m \in takers : \A k \in takers : turn(m) <= turn(k)
           new     == Replace(acc, members, leave, p, r)
<1>1. MemberCount \in Nat \ {0} /\ r \in Cells /\ acc.tbl \in Tables /\ acc.next \in Nat
  BY ReplicasInUse, BalancerAssumption DEF Cells, Turns
<1>2. takers \subseteq Ids
  BY TakersAreMembers
<1>3. CASE new = [tbl  |-> SetMember(acc.tbl, members, p, r, first),
                  next |-> first % MemberCount] /\ takers # {}
  <2>1. first \in takers
    <3> DEFINE turns == {turn(m) : m \in takers}
    <3>1. \A m \in takers : m \in Int
      BY <1>2 DEF Ids
    <3>2. turns \in SUBSET Nat /\ turns # {}
      BY <1>1, <1>3, <3>1
    <3>3. Min(turns) \in turns /\ \A x \in turns : Min(turns) <= x
      BY <3>2, MinOfNats, Zenon
    <3>4. \E m \in takers : \A k \in takers : turn(m) <= turn(k)
      BY <3>3
    <3> HIDE DEF takers, turn
    <3> QED  BY <3>4
  <2>2. PICK m : m = first
    OBVIOUS
  <2>3. m \in Ids
    BY <1>2, <2>1, <2>2
  <2> HIDE DEF first, takers
  <2>4. SetMember(acc.tbl, members, p, r, m) \in Tables
    BY <1>1, <2>3, SetMemberTable
  <2>5. m % MemberCount \in Nat
    BY <1>1, <2>3 DEF Ids
  <2> QED  BY <1>3, <2>2, <2>4, <2>5 DEF Turns
<1>4. CASE new = [acc EXCEPT !.tbl = SetMember(acc.tbl, members, p, r, NoMember)]
  <2>1. SetMember(acc.tbl, members, p, r, NoMember) \in Tables
    BY <1>1, SetMemberTable
  <2> QED  BY <1>4, <2>1 DEF Turns
<1>5. CASE new = acc
  BY <1>5
<1> QED  BY <1>3, <1>4, <1>5 DEF Replace

LEMMA SimpleBalanceTable ==
  ASSUME NEW members \in SUBSET Ids, NEW leave, NEW t \in Tables
  PROVE  SimpleBalance(t, members, leave) \in Tables
<1> DEFINE N == MaxReplicas(members) * Partitions
           base == [tbl |-> CutDown(t, members, leave), next |-> 0]
           step(n, acc) == Replace(acc, members, leave, Order(n).p, Order(n).r)
           next(n, u) == CHOOSE x \in {step(n, v) : v \in {u}} : TRUE
           G == [nu \in (1..N) \X Turns |-> step(nu[1], nu[2])]
           run == Iterate(step, base, N)
<1>1. N \in Nat
  BY ReplicasInUse, BalancerAssumption
<1>2. ASSUME NEW n \in 1..N, NEW u \in Turns  PROVE step(n, u) \in Turns
  BY OrderOfCells, ReplaceTable
<1>3. base \in Turns
  BY CutDownTable DEF Turns
<1>4. SimpleBalance(t, members, leave) = run.tbl
  BY DEF SimpleBalance
<1>5. run \in Turns => run.tbl \in Tables
  BY DEF Turns
<1> SUFFICES run \in Turns
  BY <1>4, <1>5
<1>6. run =
        (CHOOSE f : f = [n \in 0..N |-> IF n = 0 THEN base ELSE next(n, f[n - 1])])[N]
  BY DEF run, Iterate
<1>7. \A n, u : next(n, u) = step(n, u)
  OBVIOUS
<1> HIDE DEF step, next, N, base, run
<1>8. G \in [(1..N) \X Turns -> Turns] /\ \A n \in 1..N, u \in Turns : G[<<n, u>>] = next(n, u)
  BY <1>2, <1>7
<1> HIDE DEF G
<1>9. PICK h : Evolves(h, Turns, base, N, G)
  BY <1>1, <1>3, <1>8, StepsExist
<1>10. h = [n \in 0..N |-> IF n = 0 THEN base ELSE next(n, h[n - 1])]
  <2>1. h \in [0..N -> Turns] /\ h[0] = base /\ \A n \in 1..N : h[n] = G[<<n, h[n - 1]>>]
    BY <1>9 DEF Evolves
  <2>2. \A n \in 0..N : n = 0 \/ (n \in 1..N /\ h[n - 1] \in Turns)
    BY <1>1, <2>1
  <2> QED  BY <1>8, <2>1, <2>2
<1>11. PICK f : /\ f = [n \in 0..N |-> IF n = 0 THEN base ELSE next(n, f[n - 1])]
               /\ run = f[N]
  BY <1>6, <1>10
<1>12. f[0] \in Turns /\ \A n \in 1..N : f[n - 1] \in Turns => f[n] \in Turns
  <2>1. 0 \in 0..N /\ \A n \in 1..N : n \in 0..N /\ n # 0
    BY <1>1
  <2>2. f[0] = base /\ \A n \in 1..N : f[n] = step(n, f[n - 1])
    <3>1. \A n \in 0..N : f[n] = IF n = 0 THEN base ELSE next(n, f[n - 1])
      BY <1>11
    <3> QED  BY <1>7, <2>1, <3>1
  <2> QED  BY <1>2, <1>3, <2>2
<1> QED  BY <1>1, <1>11, <1>12, LoopStays

LEMMA LeaveOutcomesTables ==
  ASSUME NEW t \in Tables, NEW members \in SUBSET Ids, NEW leave,
         NEW p \in Parts, NEW r \in 1..MaxReplicas(members)
  PROVE  LeaveOutcomes(t, members, leave, p, r) \subseteq Tables
<1>1. r \in Cells
  BY ReplicasInUse DEF Cells
<1>2. \A m \in BestTakers(t, members, p, r) : m \in Ids \cup {NoMember}
  BY TakersAreMembers
<1>3. \A m \in BestTakers(t, members, p, r) \cup {NoMember} : SetMember(t, members, p, r, m) \in Tables
  BY <1>1, <1>2, SetMemberTable
<1> QED  BY <1>3 DEF LeaveOutcomes

LEMMA BalanceLeaveTables ==
  ASSUME NEW members \in SUBSET Ids, NEW leave, NEW t \in Tables
  PROVE  BalanceLeave(t, members, leave) \in SUBSET Tables
<1> DEFINE N == MaxReplicas(members) * Partitions
           Sets == SUBSET Tables
           base == {t}
           step(n, tables) ==
             UNION {LeaveOutcomes(u, members, leave, Order(n).p, Order(n).r) : u \in tables}
           next(n, u) == CHOOSE x \in {step(n, v) : v \in {u}} : TRUE
           G == [nu \in (1..N) \X Sets |-> step(nu[1], nu[2])]
           run == BalanceLeave(t, members, leave)
<1>1. N \in Nat
  BY ReplicasInUse, BalancerAssumption
<1>2. ASSUME NEW n \in 1..N, NEW u \in Sets  PROVE step(n, u) \in Sets
  <2>1. \A x \in u : LeaveOutcomes(x, members, leave, Order(n).p, Order(n).r) \subseteq Tables
    BY OrderOfCells, LeaveOutcomesTables
  <2> QED  BY <2>1
<1>3. base \in Sets
  OBVIOUS
<1>4. run =
        (CHOOSE f : f = [n \in 0..N |-> IF n = 0 THEN base ELSE next(n, f[n - 1])])[N]
  BY DEF BalanceLeave, Iterate
<1>5. \A n, u : next(n, u) = step(n, u)
  OBVIOUS
<1> HIDE DEF step, next, N, base, run, Sets
<1>6. G \in [(1..N) \X Sets -> Sets] /\ \A n \in 1..N, u \in Sets : G[<<n, u>>] = next(n, u)
  BY <1>2, <1>5
<1> HIDE DEF G
<1>7. PICK h : Evolves(h, Sets, base, N, G)
  BY <1>1, <1>3, <1>6, StepsExist
<1>8. h = [n \in 0..N |-> IF n = 0 THEN base ELSE next(n, h[n - 1])]
  <2>1. h \in [0..N -> Sets] /\ h[0] = base /\ \A n \in 1..N : h[n] = G[<<n, h[n - 1]>>]
    BY <1>7 DEF Evolves
  <2>2. \A n \in 0..N : n = 0 \/ (n \in 1..N /\ h[n - 1] \in Sets)
    BY <1>1, <2>1
  <2> QED  BY <1>6, <2>1, <2>2
<1>9. PICK f : /\ f = [n \in 0..N |-> IF n = 0 THEN base ELSE next(n, f[n - 1])]
               /\ run = f[N]
  BY <1>4, <1>8
<1>10. f[0] \in Sets /\ \A n \in 1..N : f[n - 1] \in Sets => f[n] \in Sets
  <2>1. 0 \in 0..N /\ \A n \in 1..N : n \in 0..N /\ n # 0
    BY <1>1
  <2>2. f[0] = base /\ \A n \in 1..N : f[n] = step(n, f[n - 1])
    <3>1. \A n \in 0..N : f[n] = IF n = 0 THEN base ELSE next(n, f[n - 1])
      BY <1>9
    <3> QED  BY <1>5, <2>1, <3>1
  <2> QED  BY <1>2, <1>3, <2>2
<1> QED  BY <1>1, <1>9, <1>10, LoopStays DEF Sets, run

Shares == [tbl : Tables, start : Nat, n : Nat, done : BOOLEAN]

LEMMA TakeNextTable ==
  ASSUME NEW members \in SUBSET Ids, NEW join \in members,
         NEW acc \in Shares, NEW r \in 1..MaxReplicas(members)
  PROVE  TakeNext(acc, members, join, r) \in Shares
<1> DEFINE hits == {n \in (acc.n + 1)..JoinSteps : Takes(acc.tbl, members, join, r, acc.start, n)}
           t    == SetMember(acc.tbl, members, JoinPart(acc.start, Min(hits)), r, join)
           full == Count(t, join, r) >= Expect(members, join) - 1
<1>1. acc.tbl \in Tables /\ acc.start \in Nat /\ acc.n \in Nat /\ Partitions \in Nat \ {0}
  BY BalancerAssumption DEF Shares
<1>2. CASE acc.done \/ hits = {}
  BY <1>2 DEF TakeNext
<1>3. CASE ~(acc.done \/ hits = {})
  <2>1. hits \in SUBSET Nat
    BY <1>1
  <2>2. Min(hits) \in hits
    BY <1>3, <2>1, MinOfNats
  <2>3. PICK n : n = Min(hits)
    OBVIOUS
  <2>4. n \in Nat /\ n >= 1
    BY <1>1, <2>2, <2>3
  <2>5. JoinPart(acc.start, n) \in Parts /\ r \in Cells
    BY <1>1, <2>4, ReplicasInUse DEF JoinPart, Parts, Cells
  <2>6. t \in Tables
    <3> HIDE DEF hits
    <3> QED  BY <1>1, <2>3, <2>5, SetMemberTable
  <2>7. PICK d \in BOOLEAN : d = full
    <3>1. full = TRUE \/ full = FALSE
      <4>1. CASE full
        BY <4>1, Zenon
      <4>2. CASE ~full
        BY <4>2
      <4> QED  BY <4>1, <4>2
    <3> HIDE DEF full
    <3> QED  BY <3>1
  <2>8. TakeNext(acc, members, join, r) = [acc EXCEPT !.tbl = t, !.n = n, !.done = d]
    BY <1>3, <2>3, <2>7 DEF TakeNext
  <2> HIDE DEF t, full, hits
  <2> QED  BY <2>4, <2>6, <2>8 DEF Shares
<1> QED  BY <1>2, <1>3

LEMMA TakeShareTable ==
  ASSUME NEW members \in SUBSET Ids, NEW join \in members,
         NEW acc \in Shares, NEW r \in 1..MaxReplicas(members)
  PROVE  TakeShare(acc, members, join, r) \in Shares
<1> DEFINE N == Partitions
           begin == IF acc.done THEN acc.start + acc.n ELSE acc.start
           base == [acc EXCEPT !.start = begin % Partitions, !.n = 0, !.done = FALSE]
           step(n, u) == TakeNext(u, members, join, r)
           next(n, u) == CHOOSE x \in {step(n, v) : v \in {u}} : TRUE
           G == [nu \in (1..N) \X Shares |-> step(nu[1], nu[2])]
           run == TakeShare(acc, members, join, r)
<1>1. N \in Nat /\ N > 0
  BY BalancerAssumption
<1>2. ASSUME NEW n \in 1..N, NEW u \in Shares  PROVE step(n, u) \in Shares
  BY TakeNextTable
<1>3. base \in Shares
  <2>1. begin \in Nat
    BY DEF Shares
  <2>2. begin % Partitions \in Nat
    BY <1>1, <2>1
  <2> QED  BY <2>2 DEF Shares
<1>4. run =
        (CHOOSE f : f = [n \in 0..N |-> IF n = 0 THEN base ELSE next(n, f[n - 1])])[N]
  BY DEF run, TakeShare, Iterate
<1>5. \A n, u : next(n, u) = step(n, u)
  OBVIOUS
<1> HIDE DEF step, next, N, base, run
<1>6. G \in [(1..N) \X Shares -> Shares] /\ \A n \in 1..N, u \in Shares : G[<<n, u>>] = next(n, u)
  BY <1>2, <1>5
<1> HIDE DEF G
<1>7. PICK h : Evolves(h, Shares, base, N, G)
  BY <1>1, <1>3, <1>6, StepsExist
<1>8. h = [n \in 0..N |-> IF n = 0 THEN base ELSE next(n, h[n - 1])]
  <2>1. h \in [0..N -> Shares] /\ h[0] = base /\ \A n \in 1..N : h[n] = G[<<n, h[n - 1]>>]
    BY <1>7 DEF Evolves
  <2>2. \A n \in 0..N : n = 0 \/ (n \in 1..N /\ h[n - 1] \in Shares)
    BY <1>1, <2>1
  <2> QED  BY <1>6, <2>1, <2>2
<1>9. PICK f : /\ f = [n \in 0..N |-> IF n = 0 THEN base ELSE next(n, f[n - 1])]
               /\ run = f[N]
  BY <1>4, <1>8
<1>10. f[0] \in Shares /\ \A n \in 1..N : f[n - 1] \in Shares => f[n] \in Shares
  <2>1. 0 \in 0..N /\ \A n \in 1..N : n \in 0..N /\ n # 0
    BY <1>1
  <2>2. f[0] = base /\ \A n \in 1..N : f[n] = step(n, f[n - 1])
    <3>1. \A n \in 0..N : f[n] = IF n = 0 THEN base ELSE next(n, f[n - 1])
      BY <1>9
    <3> QED  BY <1>5, <2>1, <3>1
  <2> QED  BY <1>2, <1>3, <2>2
<1> QED  BY <1>1, <1>9, <1>10, LoopStays DEF run

LEMMA BalanceJoinTable ==
  ASSUME NEW members \in SUBSET Ids, NEW join \in members, NEW t \in Tables
  PROVE  BalanceJoin(t, members, join) \in Tables
<1> DEFINE N == MaxReplicas(members)
           base == [tbl |-> t, start |-> 0, n |-> 0, done |-> FALSE]
           step(n, u) == TakeShare(u, members, join, n)
           next(n, u) == CHOOSE x \in {step(n, v) : v \in {u}} : TRUE
           G == [nu \in (1..N) \X Shares |-> step(nu[1], nu[2])]
           run == Iterate(step, base, N)
<1>1. N \in Nat
  BY ReplicasInUse
<1>2. ASSUME NEW n \in 1..N, NEW u \in Shares  PROVE step(n, u) \in Shares
  BY TakeShareTable
<1>3. base \in Shares
  BY DEF Shares
<1>4. BalanceJoin(t, members, join) = run.tbl
  BY DEF BalanceJoin
<1>5. run \in Shares => run.tbl \in Tables
  BY DEF Shares
<1> SUFFICES run \in Shares
  BY <1>4, <1>5
<1>6. run =
        (CHOOSE f : f = [n \in 0..N |-> IF n = 0 THEN base ELSE next(n, f[n - 1])])[N]
  BY DEF run, Iterate
<1>7. \A n, u : next(n, u) = step(n, u)
  OBVIOUS
<1> HIDE DEF step, next, N, base, run
<1>8. G \in [(1..N) \X Shares -> Shares] /\ \A n \in 1..N, u \in Shares : G[<<n, u>>] = next(n, u)
  BY <1>2, <1>7
<1> HIDE DEF G
<1>9. PICK h : Evolves(h, Shares, base, N, G)
  BY <1>1, <1>3, <1>8, StepsExist
<1>10. h = [n \in 0..N |-> IF n = 0 THEN base ELSE next(n, h[n - 1])]
  <2>1. h \in [0..N -> Shares] /\ h[0] = base /\ \A n \in 1..N : h[n] = G[<<n, h[n - 1]>>]
    BY <1>9 DEF Evolves
  <2>2. \A n \in 0..N : n = 0 \/ (n \in 1..N /\ h[n - 1] \in Shares)
    BY <1>1, <2>1
  <2> QED  BY <1>8, <2>1, <2>2
<1>11. PICK f : /\ f = [n \in 0..N |-> IF n = 0 THEN base ELSE next(n, f[n - 1])]
               /\ run = f[N]
  BY <1>6, <1>10
<1>12. f[0] \in Shares /\ \A n \in 1..N : f[n - 1] \in Shares => f[n] \in Shares
  <2>1. 0 \in 0..N /\ \A n \in 1..N : n \in 0..N /\ n # 0
    BY <1>1
  <2>2. f[0] = base /\ \A n \in 1..N : f[n] = step(n, f[n - 1])
    <3>1. \A n \in 0..N : f[n] = IF n = 0 THEN base ELSE next(n, f[n - 1])
      BY <1>11
    <3> QED  BY <1>7, <2>1, <3>1
  <2> QED  BY <1>2, <1>3, <2>2
<1> QED  BY <1>1, <1>11, <1>12, LoopStays

LEMMA BalanceIsTable ==
  ASSUME NEW members \in SUBSET Ids, NEW mid, NEW t \in Tables, NEW new \in Balance(t, members, mid)
  PROVE  new \in Tables
<1> DEFINE leave == IF mid \in members THEN NoMember ELSE mid
           choices == IF Cardinality(members) <= Replicas
                      THEN {SimpleBalance(t, members, leave)}
                      ELSE IF mid \notin members
                      THEN BalanceLeave(t, members, mid)
                      ELSE {BalanceJoin(t, members, mid)}
<1>1. PICK u \in choices : new = Adjust(u, members)
  BY DEF Balance
<1>2. u \in Tables
  <2> HIDE DEF leave
  <2>1. CASE Cardinality(members) <= Replicas
    BY <1>1, <2>1, SimpleBalanceTable
  <2>2. CASE ~(Cardinality(members) <= Replicas) /\ mid \notin members
    <3>1. u \in BalanceLeave(t, members, mid)
      BY <1>1, <2>2
    <3> QED  BY <3>1, BalanceLeaveTables
  <2>3. CASE ~(Cardinality(members) <= Replicas) /\ mid \in members
    BY <1>1, <2>3, BalanceJoinTable
  <2> QED  BY <2>1, <2>2, <2>3
<1> QED  BY <1>1, <1>2, AdjustTable

-----------------------------------------------------------------------------
(* What is multicast, and what is dispatched.                               *)
States  == {"INIT", "MIGRATING", "READY", "SOURCE"}
Groups  == [state : [Ids -> {"INACTIVE", "JOINED", "PREPARED"}], leading : Ids \cup {NoMember}]
Items   == [part : Parts, pos : Cells, old : Ids \cup {NoMember}, new : Ids \cup {NoMember},
            state : States \cup {NoState}]
Deltas   == [type : {"delta"}, items : SUBSET Items]
Statuses == [type : {"status"}, part : Parts, member : Ids, state : States]
Spoken   == Deltas \cup Statuses \cup [type : {"prepared"}, member : Ids]
                   \cup [type : {"whole"}, member : Ids, table : Tables]
Events   == Spoken \cup [type : {"joined"}, member : Ids, group : Groups]
                   \cup [type : {"left"}, members : SUBSET Ids, group : Groups]

LEMMA StatusTyped ==
  ASSUME NEW p \in Parts, NEW m \in Ids, NEW st \in States
  PROVE  Status(p, m, st) \in Statuses
BY DEF Status, Statuses

LEMMA EventFields ==
  ASSUME NEW e \in Events
  PROVE  /\ e.type = "delta"  => e.items \in SUBSET Items
         /\ e.type = "status" => e.part \in Parts /\ e.member \in Ids /\ e.state \in States
         /\ e.type = "whole"  => e.table \in Tables
         /\ e.type = "joined" => e.member \in Ids /\ e.group \in Groups
         /\ e.type = "left"   => e.members \in SUBSET Ids /\ e.group \in Groups
<1>1. CASE e \in Deltas
  BY <1>1 DEF Deltas
<1>2. CASE e \in Statuses
  BY <1>2 DEF Statuses
<1>3. CASE e \in [type : {"prepared"}, member : Ids]
  BY <1>3
<1>4. CASE e \in [type : {"whole"}, member : Ids, table : Tables]
  BY <1>4
<1>5. CASE e \in [type : {"joined"}, member : Ids, group : Groups]
  BY <1>5
<1>6. CASE e \in [type : {"left"}, members : SUBSET Ids, group : Groups]
  BY <1>6
<1> QED  BY <1>1, <1>2, <1>3, <1>4, <1>5, <1>6 DEF Events, Spoken

(* The changes of a table.                                                  *)
LEMMA DeltaTyped ==
  ASSUME NEW old \in Tables, NEW new \in Tables
  PROVE  Delta(old, new) \in SUBSET Items
<1> SUFFICES ASSUME NEW d \in Delta(old, new)  PROVE d \in Items
  OBVIOUS
<1>1. PICK pr \in Parts \X Cells :
        d = [part |-> pr[1], pos |-> pr[2],
             old |-> old[pr[1]][pr[2]].mid, new |-> new[pr[1]][pr[2]].mid,
             state |-> IF new[pr[1]][pr[2]].state # old[pr[1]][pr[2]].state
                       THEN new[pr[1]][pr[2]].state ELSE NoState]
  BY Zenon DEF Delta
<1>2. PICK p \in Parts, r \in Cells : pr = <<p, r>>
  OBVIOUS
<1>3. old[p][r] \in Cell /\ new[p][r] \in Cell
  BY DEF Tables
<1> QED  BY <1>1, <1>2, <1>3 DEF Items, Cell, States

LEMMA ApplyDeltaTable ==
  ASSUME NEW t \in Tables, NEW delta \in SUBSET Items
  PROVE  ApplyDelta(t, delta) \in Tables
<1> DEFINE items(p, r) == {d \in delta : d.part = p /\ d.pos = r}
           item(p, r) == CHOOSE d \in items(p, r) : TRUE
           cell(p, r) == IF items(p, r) = {} THEN t[p][r]
                         ELSE [mid |-> item(p, r).new,
                               state |-> IF item(p, r).state = NoState THEN t[p][r].state
                                         ELSE item(p, r).state]
<1>1. ASSUME NEW p \in Parts, NEW r \in Cells  PROVE cell(p, r) \in Cell
  <2>1. t[p][r] \in Cell
    BY DEF Tables
  <2>2. CASE items(p, r) # {}
    <3>1. item(p, r) \in items(p, r)
      BY <2>2
    <3>2. PICK d \in Items : d = item(p, r)
      BY <3>1
    <3> HIDE DEF item
    <3> QED  BY <2>1, <2>2, <3>2 DEF Items, Cell, States
  <2> HIDE DEF items, item
  <2> QED  BY <2>1, <2>2
<1>2. ApplyDelta(t, delta) = [p \in Parts |-> [r \in Cells |-> cell(p, r)]]
  BY DEF ApplyDelta
<1> HIDE DEF cell
<1> QED  BY <1>1, <1>2 DEF Tables

LEMMA FirstCell ==
  ASSUME NEW held \in SUBSET Cells, held # {}
  PROVE  Min(held) \in held
<1>1. held \in SUBSET Nat
  BY DEF Cells
<1> QED  BY <1>1, MinOfNats

LEMMA StatusChangedTable ==
  ASSUME NEW t \in Tables, NEW p \in Parts, NEW m, NEW st \in States
  PROVE  StatusChanged(t, p, m, st) \in Tables
<1> DEFINE held == {r \in Cells : t[p][r].mid = m}
<1>1. CASE held = {}
  BY <1>1 DEF StatusChanged
<1>2. CASE held # {}
  <2>1. PICK r \in Cells : r = Min(held)
    BY <1>2, FirstCell
  <2>2. StatusChanged(t, p, m, st) = [t EXCEPT ![p][r].state = st]
    BY <1>2, <2>1 DEF StatusChanged
  <2>3. [t[p][r] EXCEPT !.state = st] \in Cell
    BY DEF Tables, Cell, States
  <2>4. StatusChanged(t, p, m, st) = [t EXCEPT ![p] = [t[p] EXCEPT ![r] = [t[p][r] EXCEPT !.state = st]]]
    BY <2>2 DEF Tables
  <2> QED  BY <2>3, <2>4 DEF Tables
<1> QED  BY <1>1, <1>2

LEMMA PrimaryTyped ==
  ASSUME NEW t \in Tables, NEW p \in Parts
  PROVE  Primary(t, p) \in Ids \cup {NoMember}
<1> DEFINE ready == {r \in Cells : t[p][r].state \in {"READY", "SOURCE"}}
<1>1. CASE ready = {}
  BY <1>1 DEF Primary
<1>2. CASE ready # {}
  <2>1. PICK r \in Cells : r = Min(ready)
    BY <1>2, FirstCell
  <2>2. Primary(t, p) = t[p][r].mid
    BY <1>2, <2>1 DEF Primary
  <2> QED  BY <2>2 DEF Tables, Cell
<1> QED  BY <1>1, <1>2

LEMMA BalancesTyped ==
  ASSUME NEW m, table[m] \in Tables, NEW members \in SUBSET Ids, NEW changed,
         NEW d \in Balances(m, members, changed)
  PROVE  d \in Deltas
<1>1. PICK new \in Balance(table[m], members, changed) : d = DeltaEvent(Delta(table[m], new))
  BY Zenon DEF Balances
<1>2. Delta(table[m], new) \in SUBSET Items
  BY BalanceIsTable, DeltaTyped
<1> QED  BY <1>1, <1>2 DEF DeltaEvent, Deltas

(* The queue of partitions, and what is sent when the next one is taken.    *)
Queued == Parts \cup {NoPart}

LEMMA NextPartTyped ==
  ASSUME NEW q \in Seq(Queued), NEW tbl
  PROVE  /\ NextPart(q, tbl) \in Parts \cup {NoPart}
         /\ AfterNext(q, tbl) \in Seq(Queued)
         /\ NextPart(q, tbl) = NoPart => AfterNext(q, tbl) = << >>
<1>1. CASE WithPrimary(q, tbl) = {}
  BY <1>1 DEF NextPart, AfterNext
<1>2. CASE WithPrimary(q, tbl) # {}
  <2>1. IsSeq(q)
    BY DEF IsSeq
  <2>2. PICK k \in 1..Len(q) : k = Min(WithPrimary(q, tbl))
    BY <1>2, <2>1, FirstWithPrimary
  <2>3. WithPrimary(q, tbl) \in SUBSET Nat
    BY DEF WithPrimary
  <2>4. k \in WithPrimary(q, tbl)
    BY <1>2, <2>2, <2>3, MinOfNats
  <2>5. q[k] \in Parts
    BY <2>4 DEF WithPrimary, Queued
  <2>6. 0 \notin Parts
    BY BalancerAssumption DEF Parts
  <2>7. NextPart(q, tbl) = q[k] /\ AfterNext(q, tbl) = SubSeq(q, k + 1, Len(q))
    BY <1>2, <2>2 DEF NextPart, AfterNext
  <2> QED  BY <2>2, <2>5, <2>6, <2>7 DEF NoPart
<1> QED  BY <1>1, <1>2

LEMMA MadeOfParts ==
  ASSUME NEW q \in Seq(Queued), NEW tbl
  PROVE  Made(q, tbl) \in Seq(Parts)
<1>1. Made(q, tbl) \in Seq(Queued \ {NoPart})
  BY MadeTyped
<1>2. \A i \in 1..Len(Made(q, tbl)) : Made(q, tbl)[i] \in Parts
  BY <1>1 DEF Queued
<1> QED  BY <1>1, <1>2

LEMMA StateEventsTyped ==
  ASSUME NEW m \in Ids, NEW q \in Seq(Queued), NEW tbl
  PROVE  StateEvents(m, q, tbl) \in Seq(Statuses)
<1> DEFINE ready == [i \in DOMAIN Made(q, tbl) |-> Status(Made(q, tbl)[i], m, "READY")]
           next == IF NextPart(q, tbl) = NoPart THEN << >>
                   ELSE <<Status(NextPart(q, tbl), m, "MIGRATING")>>
<1>1. PICK made \in Seq(Parts) : made = Made(q, tbl)
  BY MadeOfParts
<1>2. \A i \in 1..Len(made) : Status(made[i], m, "READY") \in Statuses
  BY StatusTyped DEF States
<1>3. ready \in Seq(Statuses)
  BY <1>1, <1>2
<1>4. NextPart(q, tbl) # NoPart => Status(NextPart(q, tbl), m, "MIGRATING") \in Statuses
  BY NextPartTyped, StatusTyped DEF States
<1>5. next \in Seq(Statuses)
  BY <1>4
<1> HIDE DEF ready, next
<1>6. ready \o next \in Seq(Statuses)
  BY <1>3, <1>5
<1> QED  BY <1>6 DEF StateEvents, ready, next

(* Of a set of numbers there is one with k below it, when there are more.   *)
LEMMA WithBelow ==
  ASSUME NEW S \in SUBSET Parts, NEW k \in Nat, k < Cardinality(S)
  PROVE  \E x \in S : Cardinality({y \in S : y < x}) = k
<1> DEFINE below(x) == {y \in S : y < x}
           n == Cardinality(S)
           bad == {i \in 0..(n - 1) : ~\E x \in S : Cardinality(below(x)) = i}
<1>1. IsFiniteSet(S) /\ n \in Nat
  BY PartsFinite, FS_CardinalityType
<1>2. S \in SUBSET Nat
  BY DEF Parts
<1> HIDE DEF n
<1>3. ASSUME bad # {}  PROVE FALSE
  <2>1. bad \in SUBSET Nat
    OBVIOUS
  <2>2. PICK i \in bad : \A j \in bad : i <= j
    BY <1>3, <2>1, LeastOfNats, Zenon
  <2>3. i \in 0..(n - 1) /\ ~\E x \in S : Cardinality(below(x)) = i
    BY <2>2
  <2>4. CASE i = 0
    <3>1. S # {}
      BY <1>1, <2>3, FS_EmptySet DEF n
    <3>2. PICK x \in S : \A y \in S : x <= y
      BY <1>2, <3>1, LeastOfNats, Zenon
    <3>3. \A y \in S : x \in Nat /\ y \in Nat /\ ~(y < x)
      BY <1>2, <3>2
    <3>4. below(x) = {}
      BY <3>3, Zenon
    <3> QED  BY <2>3, <2>4, <3>4, FS_EmptySet
  <2>5. CASE i # 0
    <3>1. i - 1 \in 0..(n - 1) /\ ~(i <= i - 1)
      BY <1>1, <2>3, <2>5
    <3>2. i - 1 \notin bad
      BY <2>2, <3>1
    <3>3. PICK x \in S : Cardinality(below(x)) = i - 1
      BY <3>1, <3>2
    <3>4. Cardinality(below(x) \cup {x}) = i
      <4>1. IsFiniteSet(below(x)) /\ x \notin below(x)
        BY <1>1, <1>2, FS_Subset
      <4> HIDE DEF below
      <4>2. Cardinality(below(x) \cup {x}) = Cardinality(below(x)) + 1
        BY <4>1, FS_AddElement, Zenon
      <4>3. (i - 1) + 1 = i
        BY <2>3
      <4> QED  BY <3>3, <4>2, <4>3, Zenon
    <3> DEFINE above == {y \in S : x < y}
    <3>5. above # {}
      <4>1. \A y \in S : y < x \/ y = x \/ x < y
        BY <1>2
      <4>2. above = {} => S = below(x) \cup {x}
        BY <4>1, Zenon
      <4>3. above = {} => n = i
        BY <3>4, <4>2, Zenon DEF n
      <4> QED  BY <1>1, <2>3, <4>3
    <3>6. PICK y \in above : \A z \in above : y <= z
      <4>1. above \in SUBSET Nat
        BY <1>2
      <4> QED  BY <3>5, <4>1, LeastOfNats, Zenon
    <3>7. \A z \in S : z < y <=> z < x \/ z = x
      <4>1. x \in Nat /\ y \in Nat /\ x < y
        BY <1>2, <3>6
      <4>2. ASSUME NEW z \in S, x < z  PROVE y <= z
        BY <3>6, <4>2
      <4>3. \A z \in S : z \in Nat
        BY <1>2
      <4> HIDE DEF above
      <4> QED  BY <4>1, <4>2, <4>3
    <3>8. below(y) = below(x) \cup {x}
      BY <3>7, Zenon
    <3> QED  BY <2>3, <3>4, <3>6, <3>8
  <2> QED  BY <2>4, <2>5
<1>4. k \in 0..(n - 1) /\ k \notin bad
  BY <1>1, <1>3 DEF n
<1> QED  BY <1>4

LEMMA AscendingTyped ==
  ASSUME NEW S \in SUBSET Parts
  PROVE  /\ Ascending(S) \in Seq(Parts)
         /\ Cardinality(S) \in Nat /\ Len(Ascending(S)) = Cardinality(S)
<1> DEFINE n == Cardinality(S)
           nth(i) == CHOOSE x \in S : Cardinality({y \in S : y < x}) = i - 1
<1>1. n \in Nat
  BY PartsFinite, FS_CardinalityType
<1>2. ASSUME NEW i \in 1..n  PROVE nth(i) \in Parts
  <2>1. i - 1 \in Nat /\ i - 1 < n
    BY <1>1
  <2>2. \E x \in S : Cardinality({y \in S : y < x}) = i - 1
    BY <2>1, WithBelow
  <2>3. nth(i) \in S
    BY <2>2
  <2> QED  BY <2>3
<1>3. Ascending(S) = [i \in 1..n |-> nth(i)]
  BY DEF Ascending
<1> HIDE DEF n, nth
<1>4. Ascending(S) \in Seq(Parts) /\ Len(Ascending(S)) = n
  BY <1>1, <1>2, <1>3
<1> QED  BY <1>1, <1>4 DEF n

-----------------------------------------------------------------------------
(* The types of the variables.  The messages between actors carry real      *)
(* partitions, as a target that has stores in its map has a partition.      *)
IsMessage(x) ==
  /\ x.from \in Ids /\ x.part \in Parts /\ x.store \in Stores
  /\ x = [type |-> x.type, from |-> x.from, to |-> x.to, part |-> x.part,
          store |-> x.store, full |-> x.full]

AreMessages(bag) == \A x \in DOMAIN bag : IsMessage(x)

OrderTyped ==
  /\ up \subseteq Ids
  /\ group \in Groups
  /\ inbox \in [Ids -> Seq(Events)]
  /\ outbox \in [Ids -> Seq(Spoken)]
  /\ table \in [Ids -> Tables]

TargetsTyped ==
  /\ queue \in [Ids -> Seq(Queued)]
  /\ part \in [Ids -> Queued]
  /\ source \in [Ids -> Ids \cup {NoMember}]
  /\ stores \in [Ids -> {NoStores} \cup [Stores -> {"MIGRATING", "READY"}]]
  /\ rows \in [Ids -> SUBSET (Parts \X Stores)]
  /\ hung \subseteq up
  /\ AreMessages(net)
  /\ \A m \in Ids : part[m] = NoPart => /\ source[m] = NoMember
                                       /\ queue[m] = << >>
                                       /\ stores[m] = NoStores

SourcesTyped == targets \in [Ids -> [Parts -> (SUBSET Ids) \cup {Unlisted}]]

TypeInv == OrderTyped /\ TargetsTyped /\ SourcesTyped

LEMMA MessageTyped ==
  ASSUME NEW type, NEW from \in Ids, NEW to, NEW p \in Parts, NEW s \in Stores
  PROVE  IsMessage(Message(type, from, to, p, s))
BY DEF IsMessage, Message

LEMMA AnyStoreIsStore == AnyStore \in Stores
<1>1. \E s \in Stores : TRUE
  BY MigrationAssumption
<1> QED  BY <1>1 DEF AnyStore

LEMMA MoreMessages ==
  ASSUME NEW bag, AreMessages(bag), NEW S, \A x \in S : IsMessage(x)
  PROVE  AreMessages(bag (+) SetToBag(S))
<1>1. DOMAIN (bag (+) SetToBag(S)) = DOMAIN bag \cup S
  BY SetAdded
<1> QED  BY <1>1 DEF AreMessages

LEMMA FewerMessages ==
  ASSUME AreMessages(net), NEW msg \in BagToSet(net)
  PROVE  AreMessages(Rest(msg)) /\ IsMessage(msg)
<1>1. msg \in DOMAIN net
  BY DEF BagToSet
<1>2. DOMAIN (net (-) SetToBag({msg})) \subseteq DOMAIN net
  BY <1>1, OneTaken
<1> QED  BY <1>1, <1>2 DEF AreMessages, Rest

LEMMA ReplyTyped ==
  ASSUME AreMessages(net), NEW msg \in BagToSet(net), NEW reply, IsMessage(reply)
  PROVE  AreMessages(Reply(msg, reply))
<1>1. AreMessages(Rest(msg))
  BY FewerMessages
<1>2. AreMessages(Rest(msg) (+) SetToBag({reply}))
  BY <1>1, MoreMessages
<1> QED  BY <1>1, <1>2 DEF Reply

(* Multicast and the start of the next partition.                           *)
LEMMA SaysTyped ==
  ASSUME OrderTyped, NEW m \in Ids, NEW s \in Seq(Spoken), Multicast(m, s)
  PROVE  outbox' \in [Ids -> Seq(Spoken)]
<1>1. outbox[m] \o s \in Seq(Spoken)
  BY DEF OrderTyped
<1> QED  BY <1>1 DEF Multicast, OrderTyped

LEMMA StatusesAreSpoken == Seq(Statuses) \subseteq Seq(Spoken)
<1>1. Statuses \subseteq Spoken
  BY DEF Spoken
<1> QED  BY <1>1

LEMMA SaysOneStatus ==
  ASSUME OrderTyped, NEW m \in Ids, NEW p \in Parts, NEW st \in States,
         Multicast(m, <<Status(p, m, st)>>)
  PROVE  outbox' \in [Ids -> Seq(Spoken)]
<1>1. <<Status(p, m, st)>> \in Seq(Statuses)
  BY StatusTyped
<1> QED  BY <1>1, StatusesAreSpoken, SaysTyped

LEMMA StaysOrdered ==
  ASSUME OrderTyped, UNCHANGED <<up, group, inbox, table>>, outbox' \in [Ids -> Seq(Spoken)]
  PROVE  OrderTyped'
BY DEF OrderTyped

LEMMA NextPartitionTyped ==
  ASSUME TargetsTyped, NEW m \in Ids, NEW q \in Seq(Queued), NEW tbl \in Tables, NEW locked \in BOOLEAN,
         NEW msgs, AreMessages(msgs), NEW held \in SUBSET (Parts \X Stores),
         NextPartition(m, q, tbl, locked, msgs, held), up' = up, locked => m \in up
  PROVE  TargetsTyped'
<1> DEFINE p      == NextPart(q, tbl)
           from   == IF p = NoPart THEN NoMember ELSE Primary(tbl, p)
           starts == p # NoPart /\ ~locked
           made   == ToSet(Made(q, tbl))
           map    == IF starts THEN [s \in Stores |-> "MIGRATING"] ELSE NoStores
<1>1. /\ p \in Queued /\ AfterNext(q, tbl) \in Seq(Queued)
      /\ p = NoPart => AfterNext(q, tbl) = << >>
  BY NextPartTyped DEF Queued
<1>2. from \in Ids \cup {NoMember} /\ (p # NoPart => p \in Parts)
  BY <1>1, PrimaryTyped DEF Queued
<1>3. made \subseteq Parts
  <2>1. Made(q, tbl) \in Seq(Parts)
    BY MadeOfParts
  <2> QED  BY <2>1 DEF ToSet
<1>4. map \in {NoStores} \cup [Stores -> {"MIGRATING", "READY"}] /\ (p = NoPart => map = NoStores)
  OBVIOUS
<1>5. held \cup ((made \ filled) \X Stores) \in SUBSET (Parts \X Stores)
  BY <1>3
<1>6. /\ queue' = [queue EXCEPT ![m] = AfterNext(q, tbl)]
      /\ part' = [part EXCEPT ![m] = p]
      /\ source' = [source EXCEPT ![m] = from]
      /\ stores' = [stores EXCEPT ![m] = map]
      /\ net' = IF starts THEN msgs (+) SetToBag(Requests(m, p, from)) ELSE msgs
      /\ rows' = [rows EXCEPT ![m] = held \cup ((made \ filled) \X Stores)]
      /\ hung' = IF p # NoPart /\ locked THEN hung \cup {m} ELSE hung
  BY Zenon DEF NextPartition
<1> HIDE DEF p, made, map
<1>7. AreMessages(net')
  <2>1. starts => \A x \in Requests(m, p, from) : IsMessage(x)
    BY <1>2, MessageTyped DEF Requests
  <2> QED  BY <1>6, <2>1, MoreMessages
<1>8. hung' \subseteq up'
  BY <1>6 DEF TargetsTyped
<1>9. /\ queue' \in [Ids -> Seq(Queued)]
      /\ part' \in [Ids -> Queued]
      /\ source' \in [Ids -> Ids \cup {NoMember}]
      /\ stores' \in [Ids -> {NoStores} \cup [Stores -> {"MIGRATING", "READY"}]]
      /\ rows' \in [Ids -> SUBSET (Parts \X Stores)]
  BY <1>1, <1>2, <1>4, <1>5, <1>6 DEF TargetsTyped
<1>10. \A k \in Ids : part'[k] = NoPart => /\ source'[k] = NoMember
                                          /\ queue'[k] = << >>
                                          /\ stores'[k] = NoStores
  BY <1>1, <1>4, <1>6 DEF TargetsTyped
<1> QED  BY <1>7, <1>8, <1>9, <1>10 DEF TargetsTyped

-----------------------------------------------------------------------------
(* The actors.                                                              *)
LEMMA SourceAdded ==
  ASSUME SourcesTyped, NEW m \in Ids, NEW p \in Parts, NEW S \in (SUBSET Ids) \cup {Unlisted},
         targets' = [targets EXCEPT ![m][p] = S]
  PROVE  SourcesTyped'
BY DEF SourcesTyped

LEMMA RequestTyped ==
  ASSUME TypeInv, NEW msg \in BagToSet(net), msg.to \in Ids, Request(msg)
  PROVE  TypeInv'
<1> DEFINE m == msg.to
           p == msg.part
           first == targets[m][p] = Unlisted
           done  == [Message("complete", m, msg.from, p, msg.store) EXCEPT
                       !.full = <<p, msg.store>> \in rows[m]]
           S == (IF first THEN {} ELSE targets[m][p]) \cup {msg.from}
<1>1. IsMessage(msg) /\ AreMessages(net)
  BY FewerMessages DEF TypeInv, TargetsTyped
<1>2. /\ UNCHANGED <<up, group, inbox, table, targetVars, hung, rows>>
      /\ targets' = [targets EXCEPT ![m][p] = S]
      /\ net' = Reply(msg, done)
      /\ Multicast(m, <<Status(p, m, "SOURCE")>>) \/ UNCHANGED outbox
  BY DEF Request, Take
<1>3. IsMessage(done)
  BY <1>1 DEF IsMessage, Message
<1> HIDE DEF done
<1>4. AreMessages(net')
  BY <1>1, <1>2, <1>3, ReplyTyped
<1>5. TargetsTyped'
  BY <1>2, <1>4 DEF TypeInv, TargetsTyped, targetVars
<1>6. OrderTyped'
  <2>1. outbox' \in [Ids -> Seq(Spoken)]
    BY <1>1, <1>2, SaysOneStatus DEF TypeInv, OrderTyped, IsMessage, States
  <2> QED  BY <1>2, <2>1, StaysOrdered DEF TypeInv
<1>7. SourcesTyped'
  <2>1. targets[m][p] \in (SUBSET Ids) \cup {Unlisted}
    BY <1>1 DEF TypeInv, SourcesTyped, IsMessage
  <2>2. S \in SUBSET Ids
    BY <1>1, <2>1 DEF IsMessage
  <2> HIDE DEF S
  <2> QED  BY <1>1, <1>2, <2>2, SourceAdded DEF TypeInv, IsMessage
<1> QED  BY <1>5, <1>6, <1>7 DEF TypeInv

LEMMA CompleteTyped ==
  ASSUME TypeInv, NEW msg \in BagToSet(net), msg.to \in Ids, Complete(msg)
  PROVE  TypeInv'
<1> DEFINE m == msg.to
           reply == [msg EXCEPT !.type = "storeDone"]
<1>1. IsMessage(msg) /\ AreMessages(net)
  BY FewerMessages DEF TypeInv, TargetsTyped
<1>2. /\ UNCHANGED <<up, group, inbox, table, outbox, queue, part, source, stores, targets, hung>>
      /\ rows' = [rows EXCEPT ![m] = @ \cup {<<msg.part, msg.store>>}] \/ rows' = rows
      /\ net' = Reply(msg, reply) \/ net' = Rest(msg)
  BY DEF Complete, Take
<1>3. IsMessage(reply)
  BY <1>1 DEF IsMessage
<1> HIDE DEF reply
<1>4. AreMessages(net')
  BY <1>1, <1>2, <1>3, ReplyTyped, FewerMessages
<1>5. rows' \in [Ids -> SUBSET (Parts \X Stores)]
  <2>1. rows[m] \cup {<<msg.part, msg.store>>} \in SUBSET (Parts \X Stores)
    BY <1>1 DEF TypeInv, TargetsTyped, IsMessage
  <2> QED  BY <1>2, <2>1 DEF TypeInv, TargetsTyped
<1> QED  BY <1>2, <1>4, <1>5 DEF TypeInv, OrderTyped, TargetsTyped, SourcesTyped

LEMMA StoreDoneTyped ==
  ASSUME TypeInv, NEW msg \in BagToSet(net), msg.to \in Ids, StoreDone(msg)
  PROVE  TypeInv'
<1> DEFINE m   == msg.to
           map == [s \in DOMAIN stores[m] |-> IF s = msg.store THEN "READY" ELSE stores[m][s]]
           finished == Message("finished", m, msg.from, part[m], AnyStore)
           ends == msg.store \in DOMAIN stores[m] /\ StoresDone(map)
<1>1. IsMessage(msg) /\ AreMessages(net) /\ TargetsTyped /\ OrderTyped
  BY FewerMessages DEF TypeInv, TargetsTyped
<1>2. UNCHANGED <<up, group, inbox, table, targets>>
  BY DEF StoreDone, Take
<1>3. CASE ends
  <2>1. /\ NextPartition(m, queue[m], table[m], FALSE, Reply(msg, finished), rows[m])
        /\ Multicast(m, <<Status(part[m], m, "READY")>> \o StateEvents(m, queue[m], table[m]))
    BY <1>3 DEF StoreDone
  <2>2. part[m] \in Parts
    <3>1. stores[m] # NoStores
      BY <1>3 DEF NoStores
    <3> QED  BY <1>1, <3>1 DEF TargetsTyped, Queued
  <2>3. IsMessage(finished)
    BY <2>2, MessageTyped, AnyStoreIsStore
  <2>4. /\ queue[m] \in Seq(Queued) /\ table[m] \in Tables /\ rows[m] \in SUBSET (Parts \X Stores)
    BY <1>1 DEF TargetsTyped, OrderTyped
  <2>5. AreMessages(Reply(msg, finished))
    BY <1>1, <2>3, ReplyTyped
  <2> HIDE DEF finished, map
  <2>6. TargetsTyped'
    BY <1>1, <1>2, <2>1, <2>4, <2>5, NextPartitionTyped
  <2>7. <<Status(part[m], m, "READY")>> \o StateEvents(m, queue[m], table[m]) \in Seq(Statuses)
    <3>1. StateEvents(m, queue[m], table[m]) \in Seq(Statuses)
      BY <2>4, StateEventsTyped
    <3>2. <<Status(part[m], m, "READY")>> \in Seq(Statuses)
      BY <2>2, StatusTyped DEF States
    <3> QED  BY <3>1, <3>2
  <2>8. OrderTyped'
    <3>1. outbox' \in [Ids -> Seq(Spoken)]
      BY <1>1, <2>1, <2>7, StatusesAreSpoken, SaysTyped
    <3> QED  BY <1>1, <1>2, <3>1, StaysOrdered
  <2> QED  BY <1>2, <2>6, <2>8 DEF TypeInv, SourcesTyped
<1>4. CASE ~ends
  <2>1. /\ stores' = [stores EXCEPT ![m] = map]
        /\ net' = Rest(msg)
        /\ UNCHANGED <<outbox, queue, part, source, hung, rows>>
    BY <1>4 DEF StoreDone
  <2>2. map \in {NoStores} \cup [Stores -> {"MIGRATING", "READY"}]
        /\ (stores[m] = NoStores => map = NoStores)
    <3>1. CASE stores[m] = NoStores
      BY <3>1 DEF NoStores
    <3>2. CASE stores[m] # NoStores
      BY <1>1, <3>2 DEF TargetsTyped
    <3> QED  BY <3>1, <3>2
  <2>3. AreMessages(net')
    BY <1>1, <2>1, FewerMessages
  <2> HIDE DEF map
  <2>4. TargetsTyped'
    BY <1>1, <1>2, <2>1, <2>2, <2>3 DEF TargetsTyped
  <2> QED  BY <1>2, <2>1, <2>4 DEF TypeInv, OrderTyped, SourcesTyped
<1> QED  BY <1>3, <1>4

LEMMA FinishedTyped ==
  ASSUME TypeInv, NEW msg \in BagToSet(net), msg.to \in Ids, Finished(msg)
  PROVE  TypeInv'
<1> DEFINE m == msg.to
           p == msg.part
           left == targets[m][p] \ {msg.from}
           known == ~(targets[m][p] = Unlisted \/ msg.from \notin targets[m][p])
<1>1. IsMessage(msg) /\ AreMessages(net)
  BY FewerMessages DEF TypeInv, TargetsTyped
<1>2. /\ UNCHANGED <<up, group, inbox, table, targetVars, hung, rows>>
      /\ net' = Rest(msg)
  BY DEF Finished, Take
<1>3. AreMessages(net')
  BY <1>1, <1>2, FewerMessages
<1>4. TargetsTyped'
  BY <1>2, <1>3 DEF TypeInv, TargetsTyped, targetVars
<1>5. CASE ~known
  <2>1. UNCHANGED <<targets, outbox>>
    BY <1>5 DEF Finished
  <2> QED  BY <1>2, <1>4, <2>1 DEF TypeInv, OrderTyped, SourcesTyped
<1>6. CASE known
  <2>1. /\ targets' = [targets EXCEPT ![m][p] = IF Released(left) THEN Unlisted ELSE left]
        /\ Multicast(m, <<Status(p, m, "READY")>>) \/ UNCHANGED outbox
    BY <1>6 DEF Finished
  <2>2. (IF Released(left) THEN Unlisted ELSE left) \in (SUBSET Ids) \cup {Unlisted}
    <3>1. targets[m][p] \in SUBSET Ids
      BY <1>1, <1>6 DEF TypeInv, SourcesTyped, IsMessage
    <3> QED  BY <3>1
  <2> HIDE DEF left
  <2>3. SourcesTyped'
    BY <1>1, <2>1, <2>2, SourceAdded DEF TypeInv, IsMessage
  <2>4. outbox' \in [Ids -> Seq(Spoken)]
    BY <1>1, <2>1, SaysOneStatus DEF TypeInv, OrderTyped, IsMessage, States
  <2>5. OrderTyped'
    BY <1>2, <2>4, StaysOrdered DEF TypeInv
  <2> QED  BY <1>4, <2>3, <2>5 DEF TypeInv
<1> QED  BY <1>5, <1>6

LEMMA StopReceivingTyped ==
  ASSUME TypeInv, NEW msg \in BagToSet(net), msg.to \in Ids, StopReceiving(msg)
  PROVE  TypeInv'
<1> DEFINE m == msg.to
           stop == CHOOSE a \in {x \in receivers[m] : x.part = msg.part /\ x.store = msg.store} : TRUE
           reply == [msg EXCEPT !.type = "stop", !.to = stop.source]
<1>1. IsMessage(msg) /\ AreMessages(net)
  BY FewerMessages DEF TypeInv, TargetsTyped
<1>2. /\ UNCHANGED <<up, group, inbox, table, outbox, queue, part, source, stores, targets, hung>>
      /\ rows' = [rows EXCEPT ![m] = @ \ {<<msg.part, msg.store>>}] \/ rows' = rows
      /\ net' = Reply(msg, reply) \/ net' = Rest(msg)
  BY DEF StopReceiving, Take
<1>3. IsMessage(reply)
  <2> HIDE DEF stop
  <2>1. PICK to : to = stop.source
    OBVIOUS
  <2>2. reply = [msg EXCEPT !.type = "stop", !.to = to]
    BY <2>1
  <2> HIDE DEF reply
  <2>3. reply = [type |-> "stop", from |-> msg.from, to |-> to, part |-> msg.part,
                 store |-> msg.store, full |-> msg.full]
    BY <1>1, <2>2 DEF IsMessage
  <2> QED  BY <1>1, <2>3 DEF IsMessage
<1> HIDE DEF reply
<1>4. AreMessages(net')
  BY <1>1, <1>2, <1>3, ReplyTyped, FewerMessages
<1>5. rows' \in [Ids -> SUBSET (Parts \X Stores)]
  <2>1. rows \in [Ids -> SUBSET (Parts \X Stores)]
    BY DEF TypeInv, TargetsTyped
  <2>2. rows[m] \ {<<msg.part, msg.store>>} \in SUBSET (Parts \X Stores)
    BY <2>1, Zenon
  <2> QED  BY <1>2, <2>1, <2>2, Zenon
<1> QED  BY <1>2, <1>4, <1>5 DEF TypeInv, OrderTyped, TargetsTyped, SourcesTyped

LEMMA StopSendingTyped ==
  ASSUME TypeInv, NEW msg \in BagToSet(net), StopSending(msg)
  PROVE  TypeInv'
<1>1. AreMessages(Rest(msg))
  BY FewerMessages DEF TypeInv, TargetsTyped
<1>2. /\ UNCHANGED <<up, group, inbox, table, outbox, targetVars, targets, hung, rows>>
      /\ DOMAIN net' \subseteq BagToSet(Rest(msg))
  BY DEF StopSending, Take
<1>3. DOMAIN net' \subseteq DOMAIN Rest(msg)
  BY <1>2 DEF BagToSet
<1>4. AreMessages(net')
  BY <1>1, <1>3 DEF AreMessages
<1> QED  BY <1>2, <1>4 DEF TypeInv, OrderTyped, TargetsTyped, SourcesTyped, targetVars

LEMMA ActorsTyped ==
  ASSUME TypeInv, NEW msg \in BagToSet(net), msg.to \in Ids, Acts(msg)
  PROVE  TypeInv'
BY RequestTyped, CompleteTyped, StoreDoneTyped, FinishedTyped, StopReceivingTyped, StopSendingTyped
DEF Acts

-----------------------------------------------------------------------------
(* The dispatch thread.                                                     *)
LEMMA FacesTyped ==
  ASSUME OrderTyped, NEW m \in Ids, NEW type, Faces(m, type)
  PROVE  /\ m \in up /\ NextEvent(m) \in Events /\ NextEvent(m).type = type
         /\ Tail(inbox[m]) \in Seq(Events)
<1>1. inbox[m] \in Seq(Events) /\ inbox[m] # << >>
  BY DEF Faces, OrderTyped
<1> QED  BY <1>1 DEF Faces, NextEvent

LEMMA DispatchTyped ==
  ASSUME OrderTyped, NEW m \in Ids, NEW type, Dispatch(m, type)
  PROVE  /\ m \in up /\ NextEvent(m) \in Events /\ NextEvent(m).type = type
         /\ inbox' \in [Ids -> Seq(Events)]
         /\ UNCHANGED <<up, group>>
<1>1. Faces(m, type) /\ inbox' = [inbox EXCEPT ![m] = Tail(@)] /\ UNCHANGED <<up, group>>
  BY DEF Dispatch
<1> QED  BY <1>1, FacesTyped DEF OrderTyped

LEMMA UnchangedTyped ==
  ASSUME TargetsTyped, SourcesTyped, UnchangedMigration, up' = up
  PROVE  TargetsTyped' /\ SourcesTyped'
BY DEF TargetsTyped, SourcesTyped, UnchangedMigration, targetVars

LEMMA AvailableAreIds == ASSUME NEW ms PROVE Available(ms) \subseteq Ids
BY DEF Available

LEMMA JoiningTyped ==
  ASSUME TypeInv, NEW m \in Ids, Joining(m)
  PROVE  TypeInv'
<1> DEFINE event == NextEvent(m)
<1>1. OrderTyped /\ Dispatch(m, "joined") /\ UnchangedMigration /\ table' = table
  BY DEF TypeInv, Joining, HandleJoined
<1>2. PICK delta \in Balances(m, Available(event.group), event.member) :
        Multicast(m, JoinAnswer(m, event.member, delta))
  BY DEF Joining, HandleJoined
<1>3. event.member \in Ids /\ up' = up /\ group' = group /\ inbox' \in [Ids -> Seq(Events)]
  BY <1>1, DispatchTyped, EventFields
<1>4. table[m] \in Tables
  BY <1>1 DEF OrderTyped
<1>5. delta \in Spoken
  BY <1>4, AvailableAreIds, BalancesTyped DEF Spoken
<1>6. WholeFor(m, event.member) \in Seq(Spoken)
  <2>1. Whole(event.member, table[m]) \in Spoken
    BY <1>3, <1>4 DEF Whole, Spoken
  <2> QED  BY <2>1 DEF WholeFor
<1>7. Prepared(event.member) \in Spoken
  BY <1>3 DEF Prepared, Spoken
<1>8. JoinAnswer(m, event.member, delta) \in Seq(Spoken)
  BY <1>5, <1>6, <1>7 DEF JoinAnswer
<1>9. outbox' \in [Ids -> Seq(Spoken)]
  BY <1>1, <1>2, <1>8, SaysTyped
<1> QED  BY <1>1, <1>3, <1>9, UnchangedTyped DEF TypeInv, OrderTyped

LEMMA TableChanged ==
  ASSUME OrderTyped, NEW m \in Ids, NEW t \in Tables, table' = [table EXCEPT ![m] = t]
  PROVE  table' \in [Ids -> Tables] /\ table'[m] = t
BY DEF OrderTyped

LEMMA ReceivingTyped ==
  ASSUME TypeInv, NEW m \in Ids, Receiving(m)
  PROVE  TypeInv'
<1> DEFINE event == NextEvent(m)
<1>1. /\ OrderTyped /\ Dispatch(m, "whole") /\ UnchangedMigration /\ outbox' = outbox
      /\ table' = [table EXCEPT ![m] = event.table]
  BY DEF TypeInv, Receiving, HandleWhole
<1>2. event.table \in Tables /\ UNCHANGED <<up, group>> /\ inbox' \in [Ids -> Seq(Events)]
  BY <1>1, DispatchTyped, EventFields
<1>3. table' \in [Ids -> Tables]
  BY <1>1, <1>2, TableChanged
<1> QED  BY <1>1, <1>2, <1>3, UnchangedTyped DEF TypeInv, OrderTyped

LEMMA NotingTyped ==
  ASSUME TypeInv, NEW m \in Ids, Noting(m)
  PROVE  TypeInv'
<1> DEFINE event == NextEvent(m)
           t == StatusChanged(table[m], event.part, event.member, event.state)
<1>1. /\ OrderTyped /\ Dispatch(m, "status") /\ UnchangedMigration /\ outbox' = outbox
      /\ table' = [table EXCEPT ![m] = t]
  BY DEF TypeInv, Noting, HandleStatus
<1>2. /\ event.part \in Parts /\ event.state \in States
      /\ UNCHANGED <<up, group>> /\ inbox' \in [Ids -> Seq(Events)]
  BY <1>1, DispatchTyped, EventFields
<1>3. t \in Tables
  BY <1>1, <1>2, StatusChangedTable DEF OrderTyped
<1>4. table' \in [Ids -> Tables]
  BY <1>1, <1>3, TableChanged
<1> QED  BY <1>1, <1>2, <1>4, UnchangedTyped DEF TypeInv, OrderTyped

(* What m sends to its own actors.                                          *)
LEMMA ReceiversTyped ==
  ASSUME TargetsTyped, NEW m \in Ids, part[m] # NoPart, NEW type, NEW x \in Receivers(m, type)
  PROVE  IsMessage(x)
<1>1. PICK s \in DOMAIN stores[m] : x = Message(type, m, m, part[m], s)
  BY DEF Receivers
<1>2. part[m] \in Parts
  BY DEF TargetsTyped, Queued
<1>3. s \in Stores
  BY <1>1 DEF TargetsTyped, NoStores
<1> QED  BY <1>1, <1>2, <1>3, MessageTyped

LEMMA ChangingTyped ==
  ASSUME TypeInv, NEW m \in Ids, Changing(m)
  PROVE  TypeInv'
<1> DEFINE items == NextEvent(m).items
           dels  == {p \in Parts : <<p, m>> \in DelActions(table'[m], items)}
           adds  == {p \in Parts : <<p, m>> \in NewActions(table'[m], items)}
           left  == [i \in DOMAIN queue[m] |-> IF queue[m][i] \in dels THEN NoPart ELSE queue[m][i]]
           q     == left \o Ascending(adds)
           quits == part[m] \in dels
           clear == ((dels \ {part[m]}) \X Stores) \cup (IF quits THEN Got(m) ELSE {})
           kept  == rows[m] \ clear
           cancels == Receivers(m, "cancel")
           finished == IF source[m] \in up THEN {Message("finished", m, source[m], part[m], AnyStore)} ELSE {}
<1>1. /\ OrderTyped /\ TargetsTyped /\ SourcesTyped /\ Dispatch(m, "delta")
      /\ table' = [table EXCEPT ![m] = ApplyDelta(@, items)]
      /\ targets' = targets
  BY DEF TypeInv, Changing, HandleDelta
<1>2. items \in SUBSET Items /\ UNCHANGED <<up, group>> /\ inbox' \in [Ids -> Seq(Events)]
  BY <1>1, DispatchTyped, EventFields
<1>3. table' \in [Ids -> Tables] /\ table'[m] \in Tables
  <2>1. ApplyDelta(table[m], items) \in Tables
    BY <1>1, <1>2, ApplyDeltaTable DEF OrderTyped
  <2> QED  BY <1>1, <2>1, TableChanged
<1>4. q \in Seq(Queued)
  <2>1. PICK old \in Seq(Queued) : old = queue[m]
    BY <1>1 DEF TargetsTyped
  <2>2. left = [i \in 1..Len(old) |-> IF old[i] \in dels THEN NoPart ELSE old[i]]
    BY <2>1
  <2>3. \A i \in 1..Len(old) : old[i] \in Queued /\ NoPart \in Queued
    BY DEF Queued
  <2> HIDE DEF dels, adds
  <2>4. left \in Seq(Queued)
    BY <2>2, <2>3
  <2>5. adds \subseteq Parts
    BY DEF adds
  <2>6. Ascending(adds) \in Seq(Parts)
    BY <2>5, AscendingTyped
  <2>7. Ascending(adds) \in Seq(Queued)
    BY <2>6 DEF Queued
  <2> HIDE DEF left
  <2> QED  BY <2>4, <2>7
<1>5. kept \in SUBSET (Parts \X Stores)
  BY <1>1 DEF TargetsTyped
<1>6. CASE part[m] = NoPart
  <2>1. /\ NextPartition(m, q, table'[m], FALSE, net, kept)
        /\ Multicast(m, StateEvents(m, q, table'[m]))
    BY <1>6, Zenon DEF Changing
  <2> HIDE DEF q, kept
  <2>2. TargetsTyped'
    BY <1>1, <1>2, <1>3, <1>4, <1>5, <2>1, NextPartitionTyped DEF TargetsTyped
  <2>3. outbox' \in [Ids -> Seq(Spoken)]
    BY <1>1, <1>4, <2>1, StateEventsTyped, StatusesAreSpoken, SaysTyped
  <2> QED  BY <1>1, <1>2, <1>3, <2>2, <2>3 DEF TypeInv, OrderTyped, SourcesTyped
<1>7. CASE part[m] # NoPart
  <2>1. /\ queue' = [queue EXCEPT ![m] = q]
        /\ rows' = [rows EXCEPT ![m] = kept]
        /\ net' = IF quits THEN net (+) SetToBag(cancels \cup finished) ELSE net
        /\ UNCHANGED <<part, source, stores, hung, outbox>>
    BY <1>7, Zenon DEF Changing
  <2>2. \A x \in cancels : IsMessage(x)
    BY <1>1, <1>7, ReceiversTyped
  <2>3. \A x \in finished : IsMessage(x)
    <3>1. part[m] \in Parts
      BY <1>1, <1>7 DEF TargetsTyped, Queued
    <3> QED  BY <3>1, MessageTyped, AnyStoreIsStore
  <2> HIDE DEF q, kept, quits, cancels, finished
  <2>4. AreMessages(net')
    <3>1. \A x \in cancels \cup finished : IsMessage(x)
      BY <2>2, <2>3
    <3>2. AreMessages(net)
      BY <1>1 DEF TargetsTyped
    <3> QED  BY <2>1, <3>1, <3>2, MoreMessages
  <2>5. TargetsTyped'
    BY <1>1, <1>2, <1>4, <1>5, <1>7, <2>1, <2>4 DEF TargetsTyped
  <2> QED  BY <1>1, <1>2, <1>3, <2>1, <2>5 DEF TypeInv, OrderTyped, SourcesTyped
<1> QED  BY <1>6, <1>7

(* Departures, one leaver after the other.                                  *)
LEMMA LeaveDeltasTyped ==
  ASSUME NEW m, table[m] \in Tables, NEW e, NEW deltas \in LeaveDeltas(m, e),
         NEW i \in DOMAIN LeaveOrder(e)
  PROVE  deltas[i] \in Seq(Spoken)
<1> DEFINE order == LeaveOrder(e)
           stay(j) == Available(e.group) \ {order[x] : x \in 1..j}
           from(j) == {<<d>> : d \in Balances(m, stay(j), order[j])}
<1>1. CASE WithLeft(e.group, e.members).leading # m
  <2>1. deltas = [j \in DOMAIN order |-> << >>]
    BY <1>1 DEF LeaveDeltas
  <2> HIDE DEF order
  <2>2. i \in DOMAIN order
    BY DEF order
  <2>3. deltas[i] = << >>
    BY <2>1, <2>2
  <2>4. << >> \in Seq(Spoken)
    OBVIOUS
  <2> QED  BY <2>3, <2>4
<1>2. CASE ~(WithLeft(e.group, e.members).leading # m)
  <2>1. deltas[i] \in from(i)
    BY <1>2 DEF LeaveDeltas
  <2>2. PICK d \in Balances(m, stay(i), order[i]) : deltas[i] = <<d>>
    BY <2>1
  <2>3. stay(i) \in SUBSET Ids
    BY AvailableAreIds
  <2> HIDE DEF stay
  <2>4. d \in Spoken
    BY <2>2, <2>3, BalancesTyped DEF Spoken
  <2> QED  BY <2>2, <2>4
<1> QED  BY <1>1, <1>2

LEMMA ReleasedTyped ==
  ASSUME NEW m \in Ids, NEW order, NEW i
  PROVE  ReleasedBy(m, order, i) \in Seq(Statuses)
<1> DEFINE released == {p \in Parts : /\ order[i] \in targets[m][p]
                                      /\ targets[m][p] \subseteq {order[j] : j \in 1..i}}
           n == Cardinality(released)
<1>1. ReleasedBy(m, order, i) = [k \in 1..n |-> Status(Ascending(released)[k], m, "READY")]
  BY DEF ReleasedBy
<1>2. released \subseteq Parts
  OBVIOUS
<1> HIDE DEF released
<1>3. PICK parts \in Seq(Parts) : parts = Ascending(released) /\ n \in Nat /\ Len(parts) = n
  BY <1>2, AscendingTyped
<1> HIDE DEF n
<1>4. \A k \in 1..n : Status(parts[k], m, "READY") \in Statuses
  BY <1>3, StatusTyped DEF States
<1> QED  BY <1>1, <1>3, <1>4

LEMMA LeavingTold ==
  ASSUME OrderTyped, NEW m \in Ids, NEW last \in Nat, NEW told \in [1..last -> Seq(Spoken)],
         NEW returns, HandleLeft(m, told, returns),
         last <= Len(LeaveOrder(NextEvent(m)))
  PROVE  outbox' \in [Ids -> Seq(Spoken)]
<1> DEFINE event == NextEvent(m)
           order == LeaveOrder(event)
<1>1. event \in Events /\ event.type = "left"
  BY DispatchTyped DEF HandleLeft
<1>2. event.members \subseteq Ids /\ table[m] \in Tables
  BY <1>1, EventFields DEF OrderTyped
<1>3. Len(order) \in Nat /\ DOMAIN order = 1..Len(order)
  BY <1>2, LeaveOrderFacts, SeqFacts
<1>4. CASE ~Departs(event)
  BY <1>4 DEF HandleLeft, OrderTyped
<1>5. CASE Departs(event)
  <2> DEFINE said(deltas) == [i \in DOMAIN told |->
               IF order[i] # event.group.leading THEN deltas[i] \o told[i]
               ELSE IF i = Len(told) /\ ~returns THEN told[i]
               ELSE told[i] \o deltas[i]]
  <2>1. PICK deltas \in LeaveDeltas(m, event) : Multicast(m, FlattenSeq(said(deltas)))
    BY <1>5, Zenon DEF HandleLeft
  <2>2. ASSUME NEW i \in 1..last  PROVE said(deltas)[i] \in Seq(Spoken)
    <3>1. i \in DOMAIN LeaveOrder(event)
      BY <1>3
    <3>2. told[i] \in Seq(Spoken) /\ deltas[i] \in Seq(Spoken)
      BY <1>2, <3>1, LeaveDeltasTyped
    <3>3. deltas[i] \o told[i] \in Seq(Spoken) /\ told[i] \o deltas[i] \in Seq(Spoken)
      BY <3>2
    <3> HIDE DEF event, order
    <3> QED  BY <3>2, <3>3
  <2>3. said(deltas) = [i \in 1..last |-> said(deltas)[i]]
    OBVIOUS
  <2> HIDE DEF said
  <2>4. said(deltas) \in Seq(Seq(Spoken))
    BY <2>2, <2>3
  <2>5. FlattenSeq(said(deltas)) \in Seq(Spoken)
    BY <2>4, FlattenType
  <2> QED  BY <2>1, <2>5, SaysTyped
<1> QED  BY <1>4, <1>5

LEMMA LeavingTyped ==
  ASSUME TypeInv, NEW m \in Ids, Leaving(m)
  PROVE  TypeInv'
<1> DEFINE event == NextEvent(m)
           gone  == event.members
           order == LeaveOrder(event)
           orphan == Departs(event) /\ part[m] # NoPart /\ source[m] \in gone
           q     == Append(queue[m], part[m])
           hangs == orphan /\ NextPart(q, table[m]) # NoPart
           last  == IF hangs THEN CHOOSE i \in DOMAIN order : order[i] = source[m] ELSE Len(order)
           again(i) == IF orphan /\ order[i] = source[m] THEN StateEvents(m, q, table[m]) ELSE << >>
           passes(i) == ~(hangs /\ i = last)
           told  == [i \in 1..last |->
                       again(i) \o (IF passes(i) THEN ReleasedBy(m, order, i) ELSE << >>)]
           passed == {order[i] : i \in {j \in 1..last : passes(j)}}
<1>1. /\ OrderTyped /\ TargetsTyped /\ SourcesTyped
      /\ Faces(m, "left") /\ HandleLeft(m, told, ~hangs)
  BY Zenon DEF TypeInv, Leaving
<1>2. m \in up /\ event \in Events /\ event.type = "left" /\ event.members \subseteq Ids
  BY <1>1, FacesTyped, EventFields
<1>3. /\ Len(order) \in Nat /\ DOMAIN order = 1..Len(order)
      /\ \A x \in gone : \E i \in DOMAIN order : order[i] = x
  BY <1>2, LeaveOrderFacts, SeqFacts
<1>4. q \in Seq(Queued) /\ table[m] \in Tables
  <2>1. queue[m] \in Seq(Queued) /\ part[m] \in Queued
    BY <1>1 DEF TargetsTyped
  <2> QED  BY <1>1, <2>1 DEF OrderTyped
<1>5. last \in 0..Len(order)
  <2>1. CASE hangs
    <3>1. \E i \in DOMAIN order : order[i] = source[m]
      BY <1>3, <2>1
    <3> HIDE DEF order, hangs
    <3>2. last \in DOMAIN order
      BY <2>1, <3>1
    <3> QED  BY <1>3, <3>2
  <2>2. CASE ~hangs
    <3> HIDE DEF order, hangs
    <3> QED  BY <1>3, <2>2
  <2> QED  BY <2>1, <2>2
<1>6. told \in [1..last -> Seq(Spoken)]
  <2>1. ASSUME NEW i \in 1..last  PROVE told[i] \in Seq(Spoken)
    <3>1. again(i) \in Seq(Statuses)
      <4> HIDE DEF q, order
      <4>1. StateEvents(m, q, table[m]) \in Seq(Statuses)
        BY <1>4, StateEventsTyped
      <4>2. << >> \in Seq(Statuses)
        OBVIOUS
      <4> QED  BY <4>1, <4>2
    <3>2. (IF passes(i) THEN ReleasedBy(m, order, i) ELSE << >>) \in Seq(Statuses)
      BY ReleasedTyped
    <3>3. told[i] = again(i) \o (IF passes(i) THEN ReleasedBy(m, order, i) ELSE << >>)
      OBVIOUS
    <3> HIDE DEF told, again, passes, order
    <3>4. told[i] \in Seq(Statuses)
      BY <3>1, <3>2, <3>3
    <3> QED  BY <3>4, StatusesAreSpoken
  <2>2. told = [i \in 1..last |-> told[i]]
    OBVIOUS
  <2> HIDE DEF told
  <2> QED  BY <2>1, <2>2
<1>7. OrderTyped'
  <2>1. Dispatch(m, "left") /\ table' = table
    BY <1>1 DEF HandleLeft
  <2>2. inbox' \in [Ids -> Seq(Events)] /\ UNCHANGED <<up, group>>
    BY <1>1, <2>1, DispatchTyped
  <2>3. outbox' \in [Ids -> Seq(Spoken)]
    <3>1. last \in Nat /\ last <= Len(LeaveOrder(NextEvent(m)))
      BY <1>3, <1>5
    <3> HIDE DEF last, told, hangs
    <3> QED  BY <1>1, <1>6, <3>1, LeavingTold
  <2> QED  BY <1>1, <2>1, <2>2, <2>3 DEF OrderTyped
<1>8. up' = up
  BY <1>1 DEF HandleLeft, Dispatch
<1>9. TargetsTyped'
  <2>1. CASE orphan
    <3>1. NextPartition(m, q, table[m], TRUE, net (+) SetToBag(Receivers(m, "sourceLeft")),
                        rows[m] \ Got(m))
      BY <2>1, Zenon DEF Leaving
    <3>2. AreMessages(net (+) SetToBag(Receivers(m, "sourceLeft")))
      <4>1. \A x \in Receivers(m, "sourceLeft") : IsMessage(x)
        BY <1>1, <2>1, ReceiversTyped
      <4> QED  BY <1>1, <4>1, MoreMessages DEF TargetsTyped
    <3>3. rows[m] \ Got(m) \in SUBSET (Parts \X Stores)
      BY <1>1 DEF TargetsTyped
    <3> HIDE DEF q
    <3> QED  BY <1>1, <1>2, <1>4, <1>8, <3>1, <3>2, <3>3, NextPartitionTyped
  <2>2. CASE ~orphan
    <3>1. UNCHANGED <<targetVars, hung, net, rows, filled>>
      BY <2>2, Zenon DEF Leaving
    <3> QED  BY <1>1, <1>8, <3>1 DEF TargetsTyped, targetVars
  <2> QED  BY <2>1, <2>2
<1>10. SourcesTyped'
  <2>1. targets' = IF Departs(event)
                   THEN [targets EXCEPT ![m] = [p \in Parts |->
                           IF @[p] = Unlisted THEN @[p] ELSE @[p] \ passed]]
                   ELSE targets
    BY Zenon DEF Leaving
  <2> HIDE DEF passed, event
  <2>2. \A p \in Parts : targets[m][p] \in (SUBSET Ids) \cup {Unlisted}
    BY <1>1 DEF SourcesTyped
  <2>3. [p \in Parts |-> IF targets[m][p] = Unlisted THEN targets[m][p] ELSE targets[m][p] \ passed]
          \in [Parts -> (SUBSET Ids) \cup {Unlisted}]
    BY <2>2
  <2> QED  BY <1>1, <2>1, <2>3 DEF SourcesTyped
<1> QED  BY <1>7, <1>9, <1>10 DEF TypeInv

-----------------------------------------------------------------------------
(* The order of the group, and processes that start and stop.               *)
LEMMA TypedAtFirst == ASSUME Init PROVE TypeInv
<1>1. OrderTyped
  <2>1. EmptyTable \in Tables
    BY DEF EmptyTable, EmptyCell, Tables, Cell
  <2>2. NoMembers \in Groups
    BY DEF NoMembers, Groups
  <2> QED  BY <2>1, <2>2 DEF Init, InitTables, OrderTyped
<1>2. TargetsTyped
  <2>1. AreMessages(net)
    BY DEF Init, AreMessages, EmptyBag, SetToBag
  <2>2. << >> \in Seq(Queued) /\ NoPart \in Queued
    BY DEF Queued
  <2> QED  BY <2>1, <2>2 DEF Init, InitTables, TargetsTyped
<1>3. SourcesTyped
  BY DEF Init, SourcesTyped
<1> QED  BY <1>1, <1>2, <1>3 DEF TypeInv

LEMMA OrderingTyped ==
  ASSUME TypeInv, NEW m \in Ids, Ordering(m)
  PROVE  TypeInv'
<1> DEFINE event == Head(outbox[m])
           to == Audience(event) \cap up
<1>1. /\ OrderTyped /\ UnchangedMigration /\ UNCHANGED <<up, table>>
      /\ outbox[m] # << >> /\ outbox' = [outbox EXCEPT ![m] = Tail(@)]
      /\ Ordered(to, event)
      /\ group' = IF event.type = "prepared" /\ group.state[event.member] # "INACTIVE"
                  THEN [group EXCEPT !.state[event.member] = "PREPARED"]
                  ELSE group
  BY DEF TypeInv, Ordering, Sequence
<1>2. event \in Spoken /\ Tail(outbox[m]) \in Seq(Spoken)
  <2>1. outbox[m] \in Seq(Spoken)
    BY <1>1 DEF OrderTyped
  <2> QED  BY <1>1, <2>1
<1> HIDE DEF event
<1>3. outbox' \in [Ids -> Seq(Spoken)]
  BY <1>1, <1>2 DEF OrderTyped
<1>4. inbox' \in [Ids -> Seq(Events)]
  <2>1. event \in Events
    BY <1>2 DEF Events
  <2>2. \A k \in Ids : Append(inbox[k], event) \in Seq(Events)
    BY <1>1, <2>1 DEF OrderTyped
  <2> HIDE DEF to
  <2> QED  BY <1>1, <2>2 DEF Ordered, OrderTyped
<1>5. group' \in Groups
  <2>1. CASE event.type = "prepared"
    <3>1. event.member \in Ids
      BY <1>2, <2>1 DEF Spoken, Deltas, Statuses
    <3>2. [group EXCEPT !.state[event.member] = "PREPARED"] \in Groups
      BY <1>1, <3>1 DEF OrderTyped, Groups
    <3> QED  BY <1>1, <3>2 DEF OrderTyped
  <2>2. CASE event.type # "prepared"
    BY <1>1, <2>2 DEF OrderTyped
  <2> QED  BY <2>1, <2>2
<1> QED  BY <1>1, <1>3, <1>4, <1>5, UnchangedTyped DEF TypeInv, OrderTyped

LEMMA MemberJoinsTyped ==
  ASSUME TypeInv, NEW m \in Ids, MemberJoins(m)
  PROVE  TypeInv'
<1> DEFINE event == Joined(m, group')
<1>1. /\ OrderTyped /\ TargetsTyped /\ SourcesTyped /\ UnchangedMigration
      /\ up' = up \cup {m} /\ group' = WithJoined(group, m)
      /\ table' = [table EXCEPT ![m] = EmptyTable]
      /\ Ordered({group'.leading}, event) /\ outbox' = outbox
  BY DEF TypeInv, MemberJoins, Join
<1>2. group' \in Groups
  BY <1>1 DEF OrderTyped, Groups, WithJoined
<1>3. table' \in [Ids -> Tables]
  <2>1. EmptyTable \in Tables
    BY DEF EmptyTable, EmptyCell, Tables, Cell
  <2> QED  BY <1>1, <2>1, TableChanged
<1>4. inbox' \in [Ids -> Seq(Events)]
  <2>1. event \in Events
    BY <1>2 DEF Joined, Events
  <2> HIDE DEF event
  <2>2. \A k \in Ids : Append(inbox[k], event) \in Seq(Events)
    BY <1>1, <2>1 DEF OrderTyped
  <2> QED  BY <1>1, <2>2 DEF Ordered, OrderTyped
<1>5. OrderTyped'
  BY <1>1, <1>2, <1>3, <1>4 DEF OrderTyped
<1>6. TargetsTyped' /\ SourcesTyped'
  BY <1>1 DEF UnchangedMigration, TargetsTyped, SourcesTyped, targetVars
<1> QED  BY <1>5, <1>6 DEF TypeInv

LEMMA GroupWithoutTyped ==
  ASSUME NEW ms \in Groups, NEW gone
  PROVE  WithLeft(ms, gone) \in Groups
<1>1. CASE ms.leading \in gone /\ Successors(ms, gone) = {}
  BY <1>1 DEF WithLeft
<1>2. CASE ~(ms.leading \in gone /\ Successors(ms, gone) = {})
  <2> DEFINE states  == [m \in Ids |-> IF m \in gone THEN "INACTIVE" ELSE ms.state[m]]
             leading == IF ms.leading \in gone THEN Min(Successors(ms, gone)) ELSE ms.leading
  <2>1. leading \in Ids \cup {NoMember}
    <3>1. CASE ms.leading \in gone
      <4>1. Successors(ms, gone) \in SUBSET Nat /\ Successors(ms, gone) # {}
        BY <1>2, <3>1 DEF Successors, Ids
      <4>2. Min(Successors(ms, gone)) \in Successors(ms, gone)
        BY <4>1, MinOfNats
      <4> QED  BY <3>1, <4>2 DEF Successors
    <3>2. CASE ms.leading \notin gone
      BY <3>2 DEF Groups
    <3> QED  BY <3>1, <3>2
  <2>2. states \in [Ids -> {"INACTIVE", "JOINED", "PREPARED"}]
    BY DEF Groups
  <2>3. WithLeft(ms, gone) = [state |-> states, leading |-> leading]
    BY <1>2 DEF WithLeft
  <2> HIDE DEF states, leading
  <2> QED  BY <2>1, <2>2, <2>3 DEF Groups
<1> QED  BY <1>1, <1>2

LEMMA MembersLeaveTyped ==
  ASSUME TypeInv, NEW gone \in SUBSET Ids, MembersLeave(gone)
  PROVE  TypeInv'
<1> DEFINE event == Left(gone, group)
<1>1. /\ OrderTyped /\ TargetsTyped /\ SourcesTyped
      /\ up' = up \ gone /\ group' = WithLeft(group, gone) /\ table' = table
      /\ inbox' = [m \in Ids |-> IF m \in gone THEN << >>
                                 ELSE IF m \in up THEN Append(inbox[m], event) ELSE inbox[m]]
      /\ outbox' = [m \in Ids |-> IF m \in gone THEN << >> ELSE outbox[m]]
  BY DEF TypeInv, MembersLeave, Leave
<1>2. /\ queue' = [m \in Ids |-> IF m \in gone THEN << >> ELSE queue[m]]
      /\ part' = [m \in Ids |-> IF m \in gone THEN NoPart ELSE part[m]]
      /\ source' = [m \in Ids |-> IF m \in gone THEN NoMember ELSE source[m]]
      /\ stores' = [m \in Ids |-> IF m \in gone THEN NoStores ELSE stores[m]]
      /\ targets' = [m \in Ids |-> IF m \in gone THEN [p \in Parts |-> Unlisted] ELSE targets[m]]
      /\ rows' = [m \in Ids |-> IF m \in gone THEN {} ELSE rows[m]]
      /\ hung' = hung \ gone
  BY DEF MembersLeave
<1>3. AreMessages(net')
  <2>1. DOMAIN net' \subseteq BagToSet(net)
    BY DEF MembersLeave
  <2>2. PICK lost \in SUBSET {msg \in BagToSet(net) : msg.from \in gone} :
          net' = [msg \in {x \in BagToSet(net) : x.to \notin gone /\ x \notin lost} |-> net[msg]]
    BY Zenon DEF MembersLeave
  <2> QED  BY <1>1, <2>1 DEF AreMessages, TargetsTyped, BagToSet
<1>4. inbox' \in [Ids -> Seq(Events)]
  <2>1. event \in Events
    BY <1>1 DEF Left, Events, OrderTyped
  <2> HIDE DEF event
  <2>2. \A k \in Ids : Append(inbox[k], event) \in Seq(Events) /\ << >> \in Seq(Events)
    BY <1>1, <2>1 DEF OrderTyped
  <2> QED  BY <1>1, <2>2 DEF OrderTyped
<1>5. OrderTyped'
  <2>1. << >> \in Seq(Spoken)
    OBVIOUS
  <2>2. outbox' \in [Ids -> Seq(Spoken)]
    BY <1>1, <2>1 DEF OrderTyped
  <2>3. group' \in Groups
    BY <1>1, GroupWithoutTyped DEF OrderTyped
  <2> QED  BY <1>1, <1>4, <2>2, <2>3 DEF OrderTyped
<1>6. TargetsTyped'
  <2>1. << >> \in Seq(Queued) /\ NoPart \in Queued
    BY DEF Queued
  <2>2. /\ queue' \in [Ids -> Seq(Queued)]
        /\ part' \in [Ids -> Queued]
        /\ source' \in [Ids -> Ids \cup {NoMember}]
    BY <1>1, <1>2, <2>1 DEF TargetsTyped
  <2>3. /\ stores' \in [Ids -> {NoStores} \cup [Stores -> {"MIGRATING", "READY"}]]
        /\ rows' \in [Ids -> SUBSET (Parts \X Stores)]
        /\ hung' \subseteq up'
    BY <1>1, <1>2 DEF TargetsTyped
  <2>4. ASSUME NEW m \in Ids, part'[m] = NoPart
        PROVE  source'[m] = NoMember /\ queue'[m] = << >> /\ stores'[m] = NoStores
    BY <1>1, <1>2, <2>4 DEF TargetsTyped
  <2> QED  BY <1>3, <2>2, <2>3, <2>4 DEF TargetsTyped
<1>7. SourcesTyped'
  BY <1>1, <1>2 DEF SourcesTyped
<1> QED  BY <1>5, <1>6, <1>7 DEF TypeInv

LEMMA TypeInvKept == TypeInv /\ [Next]_vars => TypeInv'
<1> SUFFICES ASSUME TypeInv, [Next]_vars  PROVE TypeInv'
  OBVIOUS
<1>1. ASSUME NEW m \in Ids, MemberJoins(m)  PROVE TypeInv'
  BY <1>1, MemberJoinsTyped
<1>2. ASSUME NEW gone \in SUBSET Ids, MembersLeave(gone)  PROVE TypeInv'
  BY <1>2, MembersLeaveTyped
<1>3. ASSUME NEW m \in Ids, MemberStep(m)  PROVE TypeInv'
  <2>1. CASE Ordering(m)
    BY <2>1, OrderingTyped
  <2>2. CASE Dispatches(m)
    BY <2>2, JoiningTyped, ReceivingTyped, NotingTyped, ChangingTyped, LeavingTyped DEF Dispatches
  <2>3. CASE \E msg \in BagToSet(net) : msg.to = m /\ Acts(msg)
    BY <2>3, ActorsTyped
  <2> QED  BY <1>3, <2>1, <2>2, <2>3 DEF MemberStep
<1>4. CASE UNCHANGED vars
  BY <1>4 DEF TypeInv, OrderTyped, TargetsTyped, SourcesTyped, AreMessages, vars, tableVars, targetVars
<1> QED  BY <1>1, <1>2, <1>3, <1>4 DEF Next

(* The variables of a cluster, what is in order and what is in flight have  *)
(* their types through every migration, join and departure.                 *)
THEOREM TypeInvariance == Spec => []TypeInv
<1>1. Init => TypeInv
  BY TypedAtFirst
<1> QED  BY <1>1, TypeInvKept, PTL DEF Spec

(* TypeOK: a member's table stays a table and the MigrationTargetActor that *)
(* is getting no partition has no source, nothing queued and no store in    *)
(* its storeMigrationMap (nextPartitionMigration empties what it leaves).   *)
THEOREM TypesAlways == Spec => []TypeOK
<1>1. TypeInv => TypeOK
  BY DEF TypeInv, OrderTyped, TargetsTyped, SourcesTyped, TypeOK, Tables, Queued
<1> QED  BY <1>1, TypeInvariance, PTL
=============================================================================
