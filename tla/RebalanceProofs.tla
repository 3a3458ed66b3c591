--------------------------- MODULE RebalanceProofs ---------------------------
(***************************************************************************)
(* Rebalance for any number of members, partitions and replicas, and any    *)
(* number of joins and departures, migrations finished or not: replicas     *)
(* stay apart, on members that are there, and the delta and the migrations  *)
(* drawn from it are right.  First what the balancer makes of a table, for   *)
(* any table.                                                               *)
(***************************************************************************)
EXTENDS Rebalance, DataLemmas

-----------------------------------------------------------------------------
(* How many replicas are used, and in which order they are gone through.    *)
LEMMA MaxReplicasBound ==
  ASSUME NEW members \in SUBSET Ids
  PROVE  /\ IsFiniteSet(members) /\ Cardinality(members) \in Nat
         /\ MaxReplicas(members) \in 0..Replicas
         /\ MaxReplicas(members) <= Cardinality(members)
         /\ Cardinality(members) <= Replicas => MaxReplicas(members) = Cardinality(members)
         /\ Cardinality(members) >= Replicas => MaxReplicas(members) = Replicas
<1>1. MemberCount \in Nat /\ IsFiniteSet(Ids) /\ Replicas \in Nat
  BY BalancerAssumption, FS_Interval DEF Ids
<1>2. IsFiniteSet(members) /\ Cardinality(members) \in Nat
  BY <1>1, FS_Subset, FS_CardinalityType
<1> DEFINE c == Cardinality(members)
<1>3. PICK k : k = c
  OBVIOUS
<1>4. {k, Replicas} \in SUBSET Nat /\ {k, Replicas} # {}
  BY <1>1, <1>2, <1>3
<1>5. Min({k, Replicas}) \in {k, Replicas} /\ \A x \in {k, Replicas} : Min({k, Replicas}) <= x
  BY <1>4, MinOfNats, Zenon
<1>6. MaxReplicas(members) = Min({k, Replicas})
  BY <1>3 DEF MaxReplicas
<1> QED  BY <1>1, <1>2, <1>3, <1>5, <1>6

LEMMA OrderOfCells ==
  ASSUME NEW max \in 0..Replicas, NEW n \in 1..(max * Partitions)
  PROVE  Order(n).r \in 1..max /\ Order(n).p \in Parts
<1> DEFINE q == (n - 1) \div Partitions
           m == (n - 1) % Partitions
<1>1. Partitions \in Nat /\ Partitions > 0 /\ max \in Nat /\ n \in Int /\ n - 1 \in Nat
      /\ n - 1 < max * Partitions
  BY BalancerAssumption
<1>2. q \in Int /\ m \in 0..(Partitions - 1) /\ n - 1 = Partitions * q + m
  BY <1>1
<1>3. q >= 0
  BY <1>1, <1>2
<1>4. q < max
  BY <1>1, <1>2
<1> QED  BY <1>1, <1>2, <1>3, <1>4 DEF Order, Parts

-----------------------------------------------------------------------------
(* The replicas of a partition: on members of S, in the first k places, and *)
(* no two of them on one member.                                            *)
Row == [Cells -> Cell]

Spread(S, k) ==
  {row \in Row :
     /\ \A r \in Cells : /\ row[r].mid \in S \cup {NoMember}
                         /\ r > k => row[r].mid = NoMember
     /\ \A r, i \in Cells : row[r].mid = row[i].mid /\ row[r].mid # NoMember => r = i}

Tables       == [Parts -> Row]
Tidy(S, k) == [Parts -> Spread(S, k)]

(* The tables with every replica of t, in its partition if not in its place.*)
Rearranged(t) ==
  {u \in Tables : \A p \in Parts, r \in Cells : \E i \in Cells : u[p][i] = t[p][r]}

LEMMA TidyIsTable ==
  ASSUME NEW S, NEW k, NEW t \in Tidy(S, k)
  PROVE  t \in Tables
BY DEF Tidy, Spread, Tables

LEMMA SwapMemberTable ==
  ASSUME NEW t \in Tables, NEW p \in Parts, NEW r \in Cells, NEW i \in Cells,
         NEW S, NEW k \in Nat
  PROVE  /\ SwapMember(t, p, r, i) \in Tables
         /\ t[p] \in Spread(S, k) /\ r <= k /\ i <= k =>
              SwapMember(t, p, r, i) = [t EXCEPT ![p] = SwapMember(t, p, r, i)[p]]
              /\ SwapMember(t, p, r, i)[p] \in Spread(S, k)
<1> DEFINE u == SwapMember(t, p, r, i)
<1>1. /\ u \in Tables
      /\ u = [t EXCEPT ![p] = [@ EXCEPT ![r] = t[p][i], ![i] = t[p][r]]]
  BY DEF SwapMember, Tables, Row
<1>2. /\ u[p] \in Row
      /\ u[p][r] = t[p][i] /\ u[p][i] = t[p][r]
      /\ \A j \in Cells \ {r, i} : u[p][j] = t[p][j]
  BY <1>1 DEF Tables, Row
<1>3. u = [t EXCEPT ![p] = u[p]]
  BY <1>1 DEF Tables
<1>4. ASSUME t[p] \in Spread(S, k), r <= k, i <= k
      PROVE  u[p] \in Spread(S, k)
  <2> DEFINE from(j) == IF j = r THEN i ELSE IF j = i THEN r ELSE j
  <2> HIDE DEF u
  <2>1. \A j \in Cells : from(j) \in Cells /\ u[p][j].mid = t[p][from(j)].mid
    BY <1>2
  <2>2. /\ \A j, h \in Cells : from(j) = from(h) => j = h
        /\ \A j \in Cells : j > k => from(j) = j
    BY <1>4 DEF Cells
  <2> HIDE DEF from
  <2>3. \A j \in Cells : /\ u[p][j].mid \in S \cup {NoMember}
                         /\ j > k => u[p][j].mid = NoMember
    BY <1>4, <2>1, <2>2 DEF Spread
  <2>4. \A j, h \in Cells : u[p][j].mid = u[p][h].mid /\ u[p][j].mid # NoMember => j = h
    BY <1>4, <2>1, <2>2 DEF Spread
  <2> QED  BY <1>2, <2>3, <2>4 DEF Spread
<1> QED  BY <1>1, <1>3, <1>4


LEMMA SwapRearranges ==
  ASSUME NEW t \in Tables, NEW p \in Parts, NEW r \in Cells, NEW i \in Cells
  PROVE  SwapMember(t, p, r, i) \in Rearranged(t)
<1> DEFINE u == SwapMember(t, p, r, i)
<1>1. /\ u \in Tables
      /\ u = [t EXCEPT ![p] = [@ EXCEPT ![r] = t[p][i], ![i] = t[p][r]]]
  BY DEF SwapMember, Tables, Row
<1>2. /\ u[p][r] = t[p][i] /\ u[p][i] = t[p][r]
      /\ \A j \in Cells \ {r, i} : u[p][j] = t[p][j]
      /\ \A q \in Parts \ {p} : u[q] = t[q]
  BY <1>1 DEF Tables, Row
<1> HIDE DEF u
<1>3. \A q \in Parts, j \in Cells : \E h \in Cells : u[q][h] = t[q][j]
  BY <1>2
<1> QED  BY <1>1, <1>3 DEF Rearranged, u

(* setMember, as a change of the row.                                       *)
LEMMA SetMemberRow ==
  ASSUME NEW t \in Tables, NEW members \in SUBSET Ids, NEW p \in Parts, NEW r \in Cells,
         NEW m \in Ids \cup {NoMember}
  PROVE  /\ SetMember(t, members, p, r, m) \in Tables
         /\ \A q \in Parts \ {p} : SetMember(t, members, p, r, m)[q] = t[q]
         /\ SetMember(t, members, p, r, m)[p][r].mid = m
         /\ \/ \A i \in Cells \ {r} : SetMember(t, members, p, r, m)[p][i] = t[p][i]
            \/ \E i \in Cells \ {r} :
                 /\ i <= MaxReplicas(members) /\ r < i
                 /\ t[p][i].mid = NoMember /\ t[p][r].mid \in members
                 /\ SetMember(t, members, p, r, m)[p][i] = t[p][r]
                 /\ \A j \in Cells \ {r, i} : SetMember(t, members, p, r, m)[p][j] = t[p][j]
<1> DEFINE cell   == [mid |-> m, state |-> "INIT"]
           placed == [t EXCEPT ![p][r] = cell]
           free   == {i \in (r + 1)..MaxReplicas(members) : t[p][i].mid = NoMember}
           u      == SetMember(t, members, p, r, m)
<1>1. cell \in Cell /\ cell.mid = m
  BY DEF Cell
<1> HIDE DEF cell
<1>2. /\ placed \in Tables /\ placed[p][r] = cell
      /\ \A q \in Parts \ {p} : placed[q] = t[q]
      /\ \A i \in Cells \ {r} : placed[p][i] = t[p][i]
  BY <1>1 DEF Tables, Row
<1>3. CASE t[p][r].mid \in members /\ free # {}
  <2>1. MaxReplicas(members) \in 0..Replicas /\ Replicas \in Nat
    BY MaxReplicasBound, BalancerAssumption
  <2>2. free \in SUBSET Nat
    BY <2>1 DEF Cells
  <2>3. Min(free) \in free
    BY <1>3, <2>2, MinOfNats
  <2>4. PICK i : i = Min(free)
    OBVIOUS
  <2>5. /\ i \in Cells \ {r} /\ i <= MaxReplicas(members) /\ r < i
        /\ t[p][i].mid = NoMember
    BY <2>1, <2>3, <2>4 DEF Cells
  <2>6. u = [placed EXCEPT ![p][i] = t[p][r]]
    BY <1>3, <2>4 DEF SetMember, cell
  <2> HIDE DEF placed, u, free
  <2>7. /\ u \in Tables /\ u[p][i] = t[p][r] /\ u[p][r] = placed[p][r]
        /\ \A q \in Parts \ {p} : u[q] = placed[q]
        /\ \A j \in Cells \ {r, i} : u[p][j] = placed[p][j]
    BY <1>2, <2>5, <2>6 DEF Tables, Row
  <2> QED  BY <1>1, <1>2, <1>3, <2>5, <2>7 DEF u
<1>4. CASE ~(t[p][r].mid \in members /\ free # {})
  <2>1. u = placed
    BY <1>4 DEF SetMember, cell
  <2> QED  BY <1>1, <1>2, <2>1
<1> QED  BY <1>3, <1>4

(* The steps of the balancer: a member of the cluster that has no replica of *)
(* p yet, or nobody, is set where nothing is held beyond place k.           *)
Sets(t, u, members, S, p, r, m, k) ==
  /\ members \in SUBSET Ids /\ members \subseteq S
  /\ k \in Nat /\ MaxReplicas(members) <= k
  /\ t \in Tables /\ p \in Parts /\ r \in Cells /\ t[p] \in Spread(S, k)
  /\ m \in members \cup {NoMember}
  /\ m # NoMember => CheckMember(t, members, p, m) /\ k = MaxReplicas(members) /\ r <= k
  /\ u = SetMember(t, members, p, r, m)

(* They keep p's replicas apart, and leave no more on members that are not  *)
(* there.                                                                   *)
LEMMA SetMemberSpread ==
  ASSUME NEW t, NEW u, NEW members, NEW S, NEW p, NEW r, NEW m, NEW k,
         Sets(t, u, members, S, p, r, m, k)
  PROVE  /\ u[p] \in Spread(S, k)
         /\ u[p][r].mid \in members \cup {NoMember}
         /\ \A i \in Cells : t[p][i].mid \in members \cup {NoMember} =>
              u[p][i].mid \in members \cup {NoMember}
<1>0. /\ members \in SUBSET Ids /\ members \subseteq S
      /\ k \in Nat /\ MaxReplicas(members) <= k
      /\ t \in Tables /\ p \in Parts /\ r \in Cells /\ t[p] \in Spread(S, k)
      /\ m \in members \cup {NoMember}
      /\ m # NoMember => CheckMember(t, members, p, m) /\ k = MaxReplicas(members) /\ r <= k
      /\ u = SetMember(t, members, p, r, m)
  BY DEF Sets
<1>1. m \in Ids \cup {NoMember}
  BY <1>0
<1>3. /\ u \in Tables /\ u[p][r].mid = m
      /\ \/ \A i \in Cells \ {r} : u[p][i] = t[p][i]
         \/ \E i \in Cells \ {r} :
              /\ i <= MaxReplicas(members) /\ r < i
              /\ t[p][i].mid = NoMember /\ t[p][r].mid \in members
              /\ u[p][i] = t[p][r]
              /\ \A j \in Cells \ {r, i} : u[p][j] = t[p][j]
  BY <1>0, <1>1, SetMemberRow
<1>4. u[p] \in Row
  BY <1>0, <1>3 DEF Tables
<1>5. /\ \A j \in Cells : /\ t[p][j].mid \in S \cup {NoMember}
                          /\ j > k => t[p][j].mid = NoMember
      /\ \A j, h \in Cells : t[p][j].mid = t[p][h].mid /\ t[p][j].mid # NoMember => j = h
  BY <1>0 DEF Spread
<1>6. m # NoMember => r <= k /\ \A j \in Cells : t[p][j].mid # m
  <2> SUFFICES ASSUME m # NoMember, NEW j \in Cells  PROVE t[p][j].mid # m
    BY <1>0
  <2>1. CheckMember(t, members, p, m) /\ k = MaxReplicas(members)
    BY <1>0
  <2>2. j \in 1..MaxReplicas(members) \/ j > k
    BY <1>0, <2>1 DEF Cells
  <2> QED  BY <1>5, <2>1, <2>2 DEF CheckMember
<1>7. CASE \A i \in Cells \ {r} : u[p][i] = t[p][i]
  <2>1. \A j \in Cells : /\ u[p][j].mid \in S \cup {NoMember}
                         /\ j > k => u[p][j].mid = NoMember
    BY <1>0, <1>3, <1>5, <1>6, <1>7 DEF Cells
  <2>2. \A j, h \in Cells : u[p][j].mid = u[p][h].mid /\ u[p][j].mid # NoMember => j = h
    BY <1>0, <1>3, <1>5, <1>6, <1>7
  <2> QED  BY <1>0, <1>3, <1>4, <1>7, <2>1, <2>2 DEF Spread
<1>8. ASSUME NEW i \in Cells \ {r},
             i <= MaxReplicas(members), r < i,
             t[p][i].mid = NoMember, t[p][r].mid \in members,
             u[p][i] = t[p][r],
             \A j \in Cells \ {r, i} : u[p][j] = t[p][j]
      PROVE  /\ u[p] \in Spread(S, k)
             /\ \A j \in Cells : t[p][j].mid \in members \cup {NoMember} =>
                  u[p][j].mid \in members \cup {NoMember}
  <2>0. i <= k /\ ~(i > k) /\ r <= k /\ ~(r > k)
    BY <1>0, <1>8, MaxReplicasBound DEF Cells
  <2>1. \A j \in Cells : /\ u[p][j].mid \in S \cup {NoMember}
                         /\ j > k => u[p][j].mid = NoMember
    BY <1>0, <1>3, <1>5, <1>8, <2>0
  <2>2. \A j, h \in Cells : u[p][j].mid = u[p][h].mid /\ u[p][j].mid # NoMember => j = h
    BY <1>0, <1>3, <1>5, <1>6, <1>8
  <2> QED  BY <1>0, <1>3, <1>4, <1>8, <2>1, <2>2 DEF Spread
<1>9. u[p][r].mid \in members \cup {NoMember}
  BY <1>0, <1>3
<1> QED  BY <1>3, <1>7, <1>8, <1>9

-----------------------------------------------------------------------------
(* adjust                                                                   *)
LEMMA AdjustCellKeeps ==
  ASSUME NEW members \in SUBSET Ids, NEW t \in Tables, NEW p \in Parts,
         NEW r \in 1..MaxReplicas(members), NEW S
  PROVE  /\ AdjustCell(t, members, p, r) \in Rearranged(t)
         /\ t \in Tidy(S, MaxReplicas(members)) =>
              AdjustCell(t, members, p, r) \in Tidy(S, MaxReplicas(members))
<1> DEFINE partners ==
        {i \in (r + 1)..MaxReplicas(members) :
           /\ t[p][i].mid # NoMember
           /\ \/ t[p][r].mid = NoMember
              \/ Gain(t, t[p][r].mid, t[p][i].mid, r, i) >= 2}
<1>1. MaxReplicas(members) \in 0..Replicas /\ Replicas \in Nat
  BY MaxReplicasBound, BalancerAssumption
<1>2. r \in Cells
  BY <1>1 DEF Cells
<1>3. CASE partners = {}
  <2>1. AdjustCell(t, members, p, r) = t
    BY <1>3 DEF AdjustCell
  <2> QED  BY <2>1 DEF Rearranged
<1>4. CASE partners # {}
  <2>1. partners \in SUBSET Nat
    BY <1>1
  <2>2. Min(partners) \in partners
    BY <1>4, <2>1, MinOfNats
  <2>3. PICK i : i = Min(partners)
    OBVIOUS
  <2>4. i \in Cells /\ i <= MaxReplicas(members)
    <3>1. i \in (r + 1)..MaxReplicas(members)
      BY <2>2, <2>3
    <3> HIDE DEF partners
    <3> QED  BY <1>1, <1>2, <3>1 DEF Cells
  <2>5. AdjustCell(t, members, p, r) = SwapMember(t, p, r, i)
    BY <1>4, <2>3 DEF AdjustCell
  <2> HIDE DEF partners
  <2>6. PICK k \in Nat : k = MaxReplicas(members)
    BY <1>1
  <2>7. PICK u : u = SwapMember(t, p, r, i)
    OBVIOUS
  <2>8. /\ u \in Tables
        /\ t[p] \in Spread(S, k) => u = [t EXCEPT ![p] = u[p]] /\ u[p] \in Spread(S, k)
    BY <1>2, <2>4, <2>6, <2>7, SwapMemberTable
  <2>9. u \in Rearranged(t)
    BY <1>2, <2>4, <2>7, SwapRearranges
  <2> QED  BY <2>5, <2>6, <2>7, <2>8, <2>9 DEF Tidy
<1> QED  BY <1>3, <1>4

LEMMA AdjustKeeps ==
  ASSUME NEW t \in Tables, NEW members \in SUBSET Ids, NEW S
  PROVE  /\ Adjust(t, members) \in Rearranged(t)
         /\ t \in Tidy(S, MaxReplicas(members)) =>
              Adjust(t, members) \in Tidy(S, MaxReplicas(members))
<1> DEFINE N == MaxReplicas(members) * Partitions
           step(n, u) == AdjustCell(u, members, Order(n).p, Order(n).r)
           next(n, u) == CHOOSE x \in {step(n, v) : v \in {u}} : TRUE
           G == [nu \in (1..N) \X Tables |-> step(nu[1], nu[2])]
<1>1. MaxReplicas(members) \in 0..Replicas /\ N \in Nat
  BY MaxReplicasBound, BalancerAssumption
<1>2. ASSUME NEW n \in 1..N, NEW u \in Tables
      PROVE  /\ step(n, u) \in Rearranged(u)
             /\ u \in Tidy(S, MaxReplicas(members)) =>
                  step(n, u) \in Tidy(S, MaxReplicas(members))
  <2>1. Order(n).r \in 1..MaxReplicas(members) /\ Order(n).p \in Parts
    BY <1>1, OrderOfCells
  <2> QED  BY <2>1, AdjustCellKeeps
<1>3. Adjust(t, members) =
        (CHOOSE f : f = [n \in 0..N |-> IF n = 0 THEN t ELSE next(n, f[n - 1])])[N]
  BY DEF Adjust, Iterate
<1>4. \A n, u : next(n, u) = step(n, u)
  OBVIOUS
<1> HIDE DEF step, next, N
<1>5. G \in [(1..N) \X Tables -> Tables] /\ \A n \in 1..N, u \in Tables : G[<<n, u>>] = next(n, u)
  BY <1>2, <1>4 DEF Rearranged
<1> HIDE DEF G
<1>6. PICK h : Evolves(h, Tables, t, N, G)
  BY <1>1, <1>5, StepsExist
<1>7. h = [n \in 0..N |-> IF n = 0 THEN t ELSE next(n, h[n - 1])]
  <2>1. h \in [0..N -> Tables] /\ h[0] = t /\ \A n \in 1..N : h[n] = G[<<n, h[n - 1]>>]
    BY <1>6 DEF Evolves
  <2>2. ASSUME NEW n \in 0..N  PROVE h[n] = IF n = 0 THEN t ELSE next(n, h[n - 1])
    <3>1. n = 0 \/ (n \in 1..N /\ n - 1 \in 0..N)
      BY <1>1
    <3> QED  BY <1>5, <2>1, <3>1
  <2> QED  BY <2>1, <2>2
<1>8. PICK f : /\ f = [n \in 0..N |-> IF n = 0 THEN t ELSE next(n, f[n - 1])]
               /\ Adjust(t, members) = f[N]
  BY <1>3, <1>7
<1>9. f[0] = t /\ \A n \in 1..N : f[n] = step(n, f[n - 1])
  BY <1>1, <1>4, <1>8
<1> DEFINE T == [n \in 0..N |->
                   {u \in Rearranged(t) : t \in Tidy(S, MaxReplicas(members)) =>
                                             u \in Tidy(S, MaxReplicas(members))}]
<1>10. f[N] \in T[N]
  <2>1. f[0] \in T[0]
    BY <1>1, <1>9 DEF Rearranged
  <2>2. ASSUME NEW n \in 1..N, f[n - 1] \in T[n - 1]
        PROVE  f[n] \in T[n]
    <3>1. n - 1 \in 0..N /\ n \in 0..N /\ f[n] = step(n, f[n - 1])
      BY <1>1, <1>9
    <3>2. f[n - 1] \in Rearranged(t) /\ f[n - 1] \in Tables
      BY <2>2, <3>1 DEF Rearranged
    <3>3. f[n] \in Rearranged(f[n - 1])
      BY <1>2, <3>1, <3>2
    <3>4. f[n] \in Rearranged(t)
      BY <3>2, <3>3 DEF Rearranged
    <3> QED  BY <1>2, <2>2, <3>1, <3>2, <3>4
  <2> HIDE DEF T
  <2> QED  BY <1>1, <2>1, <2>2, StepsStay
<1> QED BY <1>1, <1>8, <1>10


-----------------------------------------------------------------------------
(* simple_balance: cutting down to as many replicas as there are members.   *)
LEMMA PullForwardKeeps ==
  ASSUME NEW members \in SUBSET Ids, NEW leave, NEW t \in Tables, NEW p \in Parts,
         NEW r \in 1..MaxReplicas(members), NEW S
  PROVE  /\ PullForward(t, members, leave, p, r) \in Tables
         /\ \A q \in Parts \ {p} : PullForward(t, members, leave, p, r)[q] = t[q]
         /\ t[p] \in Spread(S, Replicas) =>
              PullForward(t, members, leave, p, r)[p] \in Spread(S, Replicas)
<1> DEFINE used == {i \in (MaxReplicas(members) + 1)..Replicas : t[p][i].mid # NoMember}
<1>1. MaxReplicas(members) \in 0..Replicas /\ Replicas \in Nat
  BY MaxReplicasBound, BalancerAssumption
<1>2. r \in Cells
  BY <1>1 DEF Cells
<1>3. CASE PullForward(t, members, leave, p, r) = t
  BY <1>3
<1>4. CASE PullForward(t, members, leave, p, r) # t
  <2>1. /\ used # {}
        /\ PullForward(t, members, leave, p, r) = SwapMember(t, p, r, Min(used))
    BY <1>4 DEF PullForward
  <2>2. used \in SUBSET Nat
    BY <1>1
  <2>3. Min(used) \in used
    BY <2>1, <2>2, MinOfNats
  <2>4. PICK i : i = Min(used)
    OBVIOUS
  <2>5. i \in Cells /\ i <= Replicas /\ r <= Replicas
    BY <1>1, <2>3, <2>4 DEF Cells
  <2>6. PICK u : u = SwapMember(t, p, r, i)
    OBVIOUS
  <2>7. /\ u \in Tables
        /\ t[p] \in Spread(S, Replicas) => u = [t EXCEPT ![p] = u[p]] /\ u[p] \in Spread(S, Replicas)
    BY <1>1, <1>2, <2>5, <2>6, SwapMemberTable
  <2>8. \A q \in Parts \ {p} : u[q] = t[q]
    BY <1>2, <2>5, <2>6 DEF SwapMember, Tables, Row
  <2> QED  BY <2>1, <2>4, <2>6, <2>7, <2>8
<1> QED  BY <1>3, <1>4

LEMMA PullAllKeeps ==
  ASSUME NEW members \in SUBSET Ids, NEW leave, NEW t \in Tables, NEW p \in Parts, NEW S
  PROVE  /\ PullAll(t, members, leave, p) \in Tables
         /\ \A q \in Parts \ {p} : PullAll(t, members, leave, p)[q] = t[q]
         /\ t[p] \in Spread(S, Replicas) =>
              PullAll(t, members, leave, p)[p] \in Spread(S, Replicas)
<1> DEFINE N == MaxReplicas(members)
           step(n, u) == PullForward(u, members, leave, p, n)
           next(n, u) == CHOOSE x \in {step(n, v) : v \in {u}} : TRUE
           G == [nu \in (1..N) \X Tables |-> step(nu[1], nu[2])]
<1>1. N \in Nat
  BY MaxReplicasBound, BalancerAssumption
<1>2. ASSUME NEW n \in 1..N, NEW u \in Tables
      PROVE  /\ step(n, u) \in Tables
             /\ \A q \in Parts \ {p} : step(n, u)[q] = u[q]
             /\ u[p] \in Spread(S, Replicas) => step(n, u)[p] \in Spread(S, Replicas)
  BY PullForwardKeeps
<1>3. PullAll(t, members, leave, p) =
        (CHOOSE f : f = [n \in 0..N |-> IF n = 0 THEN t ELSE next(n, f[n - 1])])[N]
  BY DEF PullAll, Iterate
<1>4. \A n, u : next(n, u) = step(n, u)
  OBVIOUS
<1> HIDE DEF step, next, N
<1>5. G \in [(1..N) \X Tables -> Tables] /\ \A n \in 1..N, u \in Tables : G[<<n, u>>] = next(n, u)
  BY <1>2, <1>4
<1> HIDE DEF G
<1>6. PICK h : Evolves(h, Tables, t, N, G)
  BY <1>1, <1>5, StepsExist
<1>7. h = [n \in 0..N |-> IF n = 0 THEN t ELSE next(n, h[n - 1])]
  <2>1. h \in [0..N -> Tables] /\ h[0] = t /\ \A n \in 1..N : h[n] = G[<<n, h[n - 1]>>]
    BY <1>6 DEF Evolves
  <2>2. ASSUME NEW n \in 0..N  PROVE h[n] = IF n = 0 THEN t ELSE next(n, h[n - 1])
    <3>1. n = 0 \/ (n \in 1..N /\ n - 1 \in 0..N)
      BY <1>1
    <3> QED  BY <1>5, <2>1, <3>1
  <2> QED  BY <2>1, <2>2
<1>8. PICK f : /\ f = [n \in 0..N |-> IF n = 0 THEN t ELSE next(n, f[n - 1])]
               /\ PullAll(t, members, leave, p) = f[N]
  BY <1>3, <1>7
<1>9. f[0] = t /\ \A n \in 1..N : f[n] = step(n, f[n - 1])
  BY <1>1, <1>4, <1>8
<1> DEFINE T == [n \in 0..N |->
                   {u \in Tables :
                      /\ \A q \in Parts \ {p} : u[q] = t[q]
                      /\ t[p] \in Spread(S, Replicas) => u[p] \in Spread(S, Replicas)}]
<1>10. f[N] \in T[N]
  <2>1. f[0] \in T[0] /\ \A n \in 1..N : f[n - 1] \in T[n - 1] => f[n] \in T[n]
    BY <1>1, <1>2, <1>9
  <2> HIDE DEF T
  <2> QED  BY <1>1, <2>1, StepsStay
<1> QED BY <1>1, <1>8, <1>10

LEMMA DropRestKeeps ==
  ASSUME NEW members \in SUBSET Ids, NEW t \in Tables, NEW p \in Parts,
         NEW S, members \subseteq S
  PROVE  /\ DropRest(t, members, p) \in Tables
         /\ \A q \in Parts \ {p} : DropRest(t, members, p)[q] = t[q]
         /\ t[p] \in Spread(S, Replicas) =>
              DropRest(t, members, p)[p] \in Spread(S, MaxReplicas(members))
<1> DEFINE max == MaxReplicas(members)
           N == Replicas - max
           step(n, u) == SetMember(u, members, p, max + n, NoMember)
           next(n, u) == CHOOSE x \in {step(n, v) : v \in {u}} : TRUE
           G == [nu \in (1..N) \X Tables |-> step(nu[1], nu[2])]
<1>1. max \in Nat /\ N \in Nat /\ max + N = Replicas /\ Replicas \in Nat
  BY MaxReplicasBound, BalancerAssumption
<1>2. ASSUME NEW n \in 1..N, NEW u \in Tables
      PROVE  /\ step(n, u) \in Tables
             /\ \A q \in Parts \ {p} : step(n, u)[q] = u[q]
             /\ step(n, u)[p][max + n].mid = NoMember
             /\ \A i \in Cells \ {max + n} : step(n, u)[p][i] = u[p][i]
             /\ u[p] \in Spread(S, Replicas) => step(n, u)[p] \in Spread(S, Replicas)
  <2>1. max + n \in Cells /\ NoMember \in Ids \cup {NoMember} /\ max <= Replicas
    BY <1>1 DEF Cells
  <2>2. PICK r : r = max + n
    OBVIOUS
  <2>3. PICK v : v = step(n, u)
    OBVIOUS
  <2>4. /\ v \in Tables
        /\ \A q \in Parts \ {p} : v[q] = u[q]
        /\ v[p][r].mid = NoMember
        /\ \/ \A i \in Cells \ {r} : v[p][i] = u[p][i]
           \/ \E i \in Cells \ {r} : i <= max /\ r < i
    BY <2>1, <2>2, <2>3, SetMemberRow
  <2>5. ~\E i \in Cells \ {r} : i <= max /\ r < i
    BY <1>1, <2>2 DEF Cells
  <2>6. u[p] \in Spread(S, Replicas) => v[p] \in Spread(S, Replicas)
    <3> SUFFICES ASSUME u[p] \in Spread(S, Replicas)  PROVE v[p] \in Spread(S, Replicas)
      OBVIOUS
    <3>1. Sets(u, v, members, S, p, r, NoMember, Replicas)
      BY <1>1, <2>1, <2>2, <2>3 DEF Sets
    <3> QED  BY <3>1, SetMemberSpread
  <2> QED  BY <2>2, <2>3, <2>4, <2>5, <2>6
<1>3. DropRest(t, members, p) =
        (CHOOSE f : f = [n \in 0..N |-> IF n = 0 THEN t ELSE next(n, f[n - 1])])[N]
  BY DEF DropRest, Iterate
<1>4. \A n, u : next(n, u) = step(n, u)
  OBVIOUS
<1> HIDE DEF step, next, N
<1>5. G \in [(1..N) \X Tables -> Tables] /\ \A n \in 1..N, u \in Tables : G[<<n, u>>] = next(n, u)
  BY <1>2, <1>4
<1> HIDE DEF G
<1>6. PICK h : Evolves(h, Tables, t, N, G)
  BY <1>1, <1>5, StepsExist
<1>7. h = [n \in 0..N |-> IF n = 0 THEN t ELSE next(n, h[n - 1])]
  <2>1. h \in [0..N -> Tables] /\ h[0] = t /\ \A n \in 1..N : h[n] = G[<<n, h[n - 1]>>]
    BY <1>6 DEF Evolves
  <2>2. ASSUME NEW n \in 0..N  PROVE h[n] = IF n = 0 THEN t ELSE next(n, h[n - 1])
    <3>1. n = 0 \/ (n \in 1..N /\ n - 1 \in 0..N)
      BY <1>1
    <3> QED  BY <1>5, <2>1, <3>1
  <2> QED  BY <2>1, <2>2
<1>8. PICK f : /\ f = [n \in 0..N |-> IF n = 0 THEN t ELSE next(n, f[n - 1])]
               /\ DropRest(t, members, p) = f[N]
  BY <1>3, <1>7
<1>9. f[0] = t /\ \A n \in 1..N : f[n] = step(n, f[n - 1])
  BY <1>1, <1>4, <1>8
<1> DEFINE T == [n \in 0..N |->
                   {u \in Tables :
                      /\ \A q \in Parts \ {p} : u[q] = t[q]
                      /\ t[p] \in Spread(S, Replicas) => u[p] \in Spread(S, Replicas)
                      /\ \A i \in Cells : max < i /\ i <= max + n => u[p][i].mid = NoMember}]
<1>10. f[N] \in T[N]
  <2>1. f[0] \in T[0]
    BY <1>1, <1>9 DEF Cells
  <2>2. ASSUME NEW n \in 1..N, f[n - 1] \in T[n - 1]
        PROVE  f[n] \in T[n]
    <3>1. n - 1 \in 0..N /\ n \in 0..N /\ f[n - 1] \in Tables
      BY <1>1, <2>2
    <3>2. \A i \in Cells : max < i /\ i <= max + n => i = max + n \/ i <= max + (n - 1)
      BY <1>1 DEF Cells
    <3>3. \A i \in Cells : max < i /\ i <= max + n => f[n][p][i].mid = NoMember
      BY <1>2, <1>9, <2>2, <3>1, <3>2
    <3> QED  BY <1>2, <1>9, <2>2, <3>1, <3>3
  <2> HIDE DEF T
  <2> QED  BY <1>1, <2>1, <2>2, StepsStay
<1>11. /\ f[N] \in Tables /\ \A q \in Parts \ {p} : f[N][q] = t[q]
       /\ t[p] \in Spread(S, Replicas) => f[N][p] \in Spread(S, Replicas)
       /\ \A i \in Cells : i > max => f[N][p][i].mid = NoMember
  BY <1>1, <1>10 DEF Cells
<1> HIDE DEF T
<1>12. t[p] \in Spread(S, Replicas) => f[N][p] \in Spread(S, max)
  BY <1>11 DEF Spread
<1> QED BY <1>8, <1>11, <1>12

LEMMA CutDownKeeps ==
  ASSUME NEW members \in SUBSET Ids, NEW leave, NEW t \in Tables, NEW S, members \subseteq S
  PROVE  /\ CutDown(t, members, leave) \in Tables
         /\ t \in Tidy(S, Replicas) =>
              CutDown(t, members, leave) \in Tidy(S, MaxReplicas(members))
<1> DEFINE max == MaxReplicas(members)
           N == Partitions
           step(n, u) == DropRest(PullAll(u, members, leave, n), members, n)
           next(n, u) == CHOOSE x \in {step(n, v) : v \in {u}} : TRUE
           G == [nu \in (1..N) \X Tables |-> step(nu[1], nu[2])]
<1>1. N \in Nat /\ Parts = 1..N
  BY BalancerAssumption DEF Parts
<1>2. ASSUME NEW n \in 1..N, NEW u \in Tables
      PROVE  /\ step(n, u) \in Tables
             /\ \A q \in Parts \ {n} : step(n, u)[q] = u[q]
             /\ u[n] \in Spread(S, Replicas) => step(n, u)[n] \in Spread(S, max)
  <2>1. n \in Parts
    BY <1>1
  <2>2. PICK v : v = PullAll(u, members, leave, n)
    OBVIOUS
  <2>3. /\ v \in Tables /\ \A q \in Parts \ {n} : v[q] = u[q]
        /\ u[n] \in Spread(S, Replicas) => v[n] \in Spread(S, Replicas)
    <3>1. /\ PullAll(u, members, leave, n) \in Tables
          /\ \A q \in Parts \ {n} : PullAll(u, members, leave, n)[q] = u[q]
          /\ u[n] \in Spread(S, Replicas) => PullAll(u, members, leave, n)[n] \in Spread(S, Replicas)
      BY <2>1, PullAllKeeps, Zenon
    <3> QED  BY <2>2, <3>1
  <2>4. /\ DropRest(v, members, n) \in Tables
        /\ \A q \in Parts \ {n} : DropRest(v, members, n)[q] = v[q]
        /\ v[n] \in Spread(S, Replicas) => DropRest(v, members, n)[n] \in Spread(S, max)
    BY <2>1, <2>3, DropRestKeeps
  <2> QED  BY <2>2, <2>3, <2>4
<1>20. CASE ~(Cardinality(members) < Replicas)
  <2>1. Cardinality(members) >= Replicas
    BY <1>20, MaxReplicasBound, BalancerAssumption
  <2>2. CutDown(t, members, leave) = t /\ MaxReplicas(members) = Replicas
    BY <1>20, <2>1, MaxReplicasBound DEF CutDown
  <2> QED  BY <2>2
<1> SUFFICES ASSUME Cardinality(members) < Replicas
             PROVE  /\ CutDown(t, members, leave) \in Tables
                    /\ t \in Tidy(S, Replicas) => CutDown(t, members, leave) \in Tidy(S, max)
  BY <1>20
<1>3. CutDown(t, members, leave) =
        (CHOOSE f : f = [n \in 0..N |-> IF n = 0 THEN t ELSE next(n, f[n - 1])])[N]
  BY DEF CutDown, Iterate
<1>4. \A n, u : next(n, u) = step(n, u)
  OBVIOUS
<1> HIDE DEF step, next, N
<1>5. G \in [(1..N) \X Tables -> Tables] /\ \A n \in 1..N, u \in Tables : G[<<n, u>>] = next(n, u)
  BY <1>2, <1>4
<1> HIDE DEF G
<1>6. PICK h : Evolves(h, Tables, t, N, G)
  BY <1>1, <1>5, StepsExist
<1>7. h = [n \in 0..N |-> IF n = 0 THEN t ELSE next(n, h[n - 1])]
  <2>1. h \in [0..N -> Tables] /\ h[0] = t /\ \A n \in 1..N : h[n] = G[<<n, h[n - 1]>>]
    BY <1>6 DEF Evolves
  <2>2. ASSUME NEW n \in 0..N  PROVE h[n] = IF n = 0 THEN t ELSE next(n, h[n - 1])
    <3>1. n = 0 \/ (n \in 1..N /\ n - 1 \in 0..N)
      BY <1>1
    <3> QED  BY <1>5, <2>1, <3>1
  <2> QED  BY <2>1, <2>2
<1>8. PICK f : /\ f = [n \in 0..N |-> IF n = 0 THEN t ELSE next(n, f[n - 1])]
               /\ CutDown(t, members, leave) = f[N]
  BY <1>3, <1>7
<1>9. f[0] = t /\ \A n \in 1..N : f[n] = step(n, f[n - 1])
  BY <1>1, <1>4, <1>8
<1> DEFINE T == [n \in 0..N |->
                   {u \in Tables :
                      t \in Tidy(S, Replicas) =>
                        \A q \in Parts : u[q] \in Spread(S, IF q <= n THEN max ELSE Replicas)}]
<1>10. f[N] \in T[N]
  <2>1. f[0] \in T[0]
    BY <1>1, <1>9 DEF Tidy
  <2>2. ASSUME NEW n \in 1..N, f[n - 1] \in T[n - 1]
        PROVE  f[n] \in T[n]
    <3>1. n - 1 \in 0..N /\ n \in 0..N /\ n \in Parts /\ f[n - 1] \in Tables
          /\ f[n] = step(n, f[n - 1]) /\ ~(n <= n - 1) /\ n <= n
      BY <1>1, <1>9, <2>2
    <3>2. \A q \in Parts \ {n} : q <= n <=> q <= n - 1
      BY <1>1
    <3>3. ASSUME t \in Tidy(S, Replicas), NEW q \in Parts
          PROVE  f[n][q] \in Spread(S, IF q <= n THEN max ELSE Replicas)
      <4>1. \A x \in Parts : f[n - 1][x] \in Spread(S, IF x <= n - 1 THEN max ELSE Replicas)
        BY <2>2, <3>1, <3>3
      <4>2. CASE q = n
        BY <1>2, <3>1, <4>1, <4>2
      <4>3. CASE q # n
        BY <1>2, <3>1, <3>2, <4>1, <4>3
      <4> QED  BY <4>2, <4>3
    <3>4. f[n] \in Tables
      BY <1>2, <3>1
    <3> QED  BY <3>1, <3>3, <3>4
  <2> HIDE DEF T
  <2> QED  BY <1>1, <2>1, <2>2, StepsStay
<1>11. ASSUME t \in Tidy(S, Replicas), NEW q \in Parts  PROVE f[N][q] \in Spread(S, max)
  BY <1>1, <1>10, <1>11
<1>12. f[N] \in Tables
  BY <1>1, <1>10
<1>13. t \in Tidy(S, Replicas) => f[N] \in Tidy(S, max)
  BY <1>11, <1>12 DEF Tidy, Tables
<1> QED BY <1>8, <1>12, <1>13


-----------------------------------------------------------------------------
(* Replica r of p is given to a member that is there and has none of p, or  *)
(* to nobody.                                                               *)
Given(t, u, members, p, r) ==
  \E m \in members \cup {NoMember} :
    /\ m # NoMember => CheckMember(t, members, p, m)
    /\ u = SetMember(t, members, p, r, m)

Here(t, members, p, r) == t[p][r].mid \in members \cup {NoMember}

LEMMA GivenKeeps ==
  ASSUME NEW members \in SUBSET Ids, NEW t \in Tables, NEW p \in Parts,
         NEW r \in 1..MaxReplicas(members), NEW u, Given(t, u, members, p, r),
         NEW S, members \subseteq S
  PROVE  /\ u \in Tables
         /\ t \in Tidy(S, MaxReplicas(members)) =>
              /\ u \in Tidy(S, MaxReplicas(members))
              /\ Here(u, members, p, r)
              /\ \A q \in Parts, i \in Cells : Here(t, members, q, i) => Here(u, members, q, i)
<1>1. PICK m \in members \cup {NoMember} :
        /\ m # NoMember => CheckMember(t, members, p, m)
        /\ u = SetMember(t, members, p, r, m)
  BY DEF Given
<1>2. PICK k \in Nat : k = MaxReplicas(members)
  BY MaxReplicasBound, BalancerAssumption
<1>3. r \in Cells /\ r <= k /\ m \in Ids \cup {NoMember} /\ MaxReplicas(members) <= k
  BY <1>2, MaxReplicasBound, BalancerAssumption DEF Cells
<1>4. u \in Tables /\ \A q \in Parts \ {p} : u[q] = t[q]
  BY <1>1, <1>3, SetMemberRow
<1>5. ASSUME t \in Tidy(S, k)
      PROVE  /\ u[p] \in Spread(S, k)
             /\ u[p][r].mid \in members \cup {NoMember}
             /\ \A i \in Cells : t[p][i].mid \in members \cup {NoMember} =>
                  u[p][i].mid \in members \cup {NoMember}
  <2>1. t[p] \in Spread(S, k)
    BY <1>5 DEF Tidy
  <2>2. Sets(t, u, members, S, p, r, m, k)
    BY <1>1, <1>2, <1>3, <2>1 DEF Sets
  <2> QED  BY <2>2, SetMemberSpread
<1>6. t \in Tidy(S, k) => u \in Tidy(S, k)
  BY <1>4, <1>5 DEF Tidy, Tables
<1> QED  BY <1>2, <1>4, <1>5, <1>6 DEF Here

LEMMA BestTakersAreTakers ==
  ASSUME NEW t, NEW members, NEW p, NEW r, NEW m \in BestTakers(t, members, p, r)
  PROVE  m \in members /\ CheckMember(t, members, p, m)
BY DEF BestTakers, Takers

(* Every replica that is in use is gone through.                            *)
LEMMA AllInOrder ==
  ASSUME NEW max \in Nat, NEW r \in 1..max, NEW p \in Parts
  PROVE  \E n \in 1..(max * Partitions) : Order(n).r = r /\ Order(n).p = p
<1>1. Partitions \in Nat /\ Partitions > 0 /\ p \in 1..Partitions /\ r \in Nat /\ r >= 1 /\ r <= max
  BY BalancerAssumption DEF Parts
<1> DEFINE n == (r - 1) * Partitions + p
<1>2. PICK b \in Nat : b = (r - 1) * Partitions
  BY <1>1
<1>3. (max - (r - 1)) * Partitions >= Partitions
  BY <1>1
<1>4. max * Partitions = b + (max - (r - 1)) * Partitions
  BY <1>1, <1>2
<1>5. n \in 1..(max * Partitions)
  BY <1>1, <1>2, <1>3, <1>4
<1>6. (n - 1) \div Partitions = r - 1 /\ (n - 1) % Partitions = p - 1
  BY <1>1
<1>7. Order(n).r = r /\ Order(n).p = p
  BY <1>1, <1>6 DEF Order
<1> QED  BY <1>5, <1>7

(* Who is left in a table that has been gone through is there.              *)
LEMMA TidyHere ==
  ASSUME NEW members \in SUBSET Ids, NEW S, NEW t \in Tidy(S, MaxReplicas(members)),
         \A n \in 1..(MaxReplicas(members) * Partitions) :
           Here(t, members, Order(n).p, Order(n).r)
  PROVE  t \in Tidy(members, MaxReplicas(members))
<1>1. PICK k \in Nat : k = MaxReplicas(members)
  BY MaxReplicasBound, BalancerAssumption
<1>2. ASSUME NEW p \in Parts, NEW r \in Cells  PROVE t[p][r].mid \in members \cup {NoMember}
  <2>1. CASE r > k
    BY <1>1, <2>1 DEF Tidy, Spread
  <2>2. CASE ~(r > k)
    <3>1. r \in 1..k
      BY <1>1, <2>2 DEF Cells
    <3>2. PICK n \in 1..(k * Partitions) : Order(n).r = r /\ Order(n).p = p
      BY <3>1, AllInOrder
    <3> QED  BY <1>1, <3>2 DEF Here
  <2> QED  BY <2>1, <2>2
<1>3. ASSUME NEW p \in Parts  PROVE t[p] \in Spread(members, k)
  <2>1. t[p] \in Spread(S, k)
    BY <1>1 DEF Tidy
  <2> QED  BY <1>2, <2>1 DEF Spread
<1>4. t \in Tables
  BY TidyIsTable
<1> QED  BY <1>1, <1>3, <1>4 DEF Tidy, Tables

-----------------------------------------------------------------------------
(* simple_balance: giving replicas to the next taker.                       *)
Turns == [tbl : Tables, next : Nat]

LEMMA ReplaceGives ==
  ASSUME NEW acc \in Turns, NEW members \in SUBSET Ids, NEW leave,
         NEW p \in Parts, NEW r \in 1..MaxReplicas(members)
  PROVE  /\ Replace(acc, members, leave, p, r) \in Turns
         /\ \/ /\ Replace(acc, members, leave, p, r).tbl = acc.tbl
               /\ acc.tbl[p][r].mid # leave
            \/ Given(acc.tbl, Replace(acc, members, leave, p, r).tbl, members, p, r)
<1> DEFINE mid     == acc.tbl[p][r].mid
           takers  == BestTakers(acc.tbl, members, p, r)
           turn(m) == (m - 1 - acc.next + MemberCount) % MemberCount
           first   == CHOOSE m \in takers : \A k \in takers : turn(m) <= turn(k)
           new     == Replace(acc, members, leave, p, r)
<1>1. MemberCount \in Nat \ {0} /\ r \in Cells /\ acc.tbl \in Tables /\ acc.next \in Nat
  BY MaxReplicasBound, BalancerAssumption DEF Cells, Turns
<1>2. \A m \in takers : m \in members /\ CheckMember(acc.tbl, members, p, m)
  BY BestTakersAreTakers
<1>3. CASE mid \notin {NoMember, leave} /\ Count(acc.tbl, mid, r) <= Expect(members, mid)
  BY <1>3 DEF Replace
<1>4. CASE /\ ~(mid \notin {NoMember, leave} /\ Count(acc.tbl, mid, r) <= Expect(members, mid))
           /\ takers # {}
  <2>1. first \in takers
    <3> DEFINE turns == {turn(m) : m \in takers}
    <3>0. \A m \in takers : m \in Ids
      BY <1>2, Zenon
    <3>1. \A m \in takers : m \in Int
      BY <3>0 DEF Ids
    <3>2. turns \in SUBSET Nat /\ turns # {}
      BY <1>1, <1>4, <3>1
    <3>3. Min(turns) \in turns /\ \A x \in turns : Min(turns) <= x
      BY <3>2, MinOfNats, Zenon
    <3>4. \E m \in takers : \A k \in takers : turn(m) <= turn(k)
      BY <3>3
    <3> HIDE DEF takers, turn
    <3> QED  BY <3>4
  <2>2. new = [tbl |-> SetMember(acc.tbl, members, p, r, first), next |-> first % MemberCount]
    BY <1>4 DEF Replace
  <2>3. PICK m : m = first
    OBVIOUS
  <2> HIDE DEF first
  <2>4. m \in members /\ m \in Ids \cup {NoMember} /\ CheckMember(acc.tbl, members, p, m)
    BY <1>2, <2>1, <2>3
  <2>5. SetMember(acc.tbl, members, p, r, m) \in Tables
    BY <1>1, <2>4, SetMemberRow
  <2>6. m % MemberCount \in Nat
    BY <1>1, <2>4 DEF Ids, NoMember
  <2> QED  BY <2>2, <2>3, <2>4, <2>5, <2>6 DEF Given, Turns
<1>5. CASE /\ ~(mid \notin {NoMember, leave} /\ Count(acc.tbl, mid, r) <= Expect(members, mid))
           /\ takers = {} /\ mid = leave
  <2>1. new = [acc EXCEPT !.tbl = SetMember(acc.tbl, members, p, r, NoMember)]
    BY <1>5 DEF Replace
  <2>2. SetMember(acc.tbl, members, p, r, NoMember) \in Tables
    BY <1>1, SetMemberRow
  <2>3. NoMember \in members \cup {NoMember}
    OBVIOUS
  <2> QED  BY <2>1, <2>2, <2>3 DEF Given, Turns
<1>6. CASE /\ ~(mid \notin {NoMember, leave} /\ Count(acc.tbl, mid, r) <= Expect(members, mid))
           /\ takers = {} /\ mid # leave
  BY <1>6 DEF Replace
<1> QED  BY <1>3, <1>4, <1>5, <1>6

LEMMA SimpleBalanceKeeps ==
  ASSUME NEW members \in SUBSET Ids, NEW leave, NEW t \in Tables
  PROVE  /\ SimpleBalance(t, members, leave) \in Tables
         /\ t \in Tidy(members \cup {leave}, Replicas) =>
              SimpleBalance(t, members, leave) \in Tidy(members, MaxReplicas(members))
<1> DEFINE max == MaxReplicas(members)
           S == members \cup {leave}
           N == max * Partitions
           base == [tbl |-> CutDown(t, members, leave), next |-> 0]
           step(n, acc) == Replace(acc, members, leave, Order(n).p, Order(n).r)
           next(n, u) == CHOOSE x \in {step(n, v) : v \in {u}} : TRUE
           G == [nu \in (1..N) \X Turns |-> step(nu[1], nu[2])]
           run == Iterate(step, base, N)
<1>1. max \in 0..Replicas /\ N \in Nat
  BY MaxReplicasBound, BalancerAssumption
<1>2. /\ base \in Turns /\ base.tbl = CutDown(t, members, leave)
      /\ t \in Tidy(S, Replicas) => base.tbl \in Tidy(S, max)
  BY CutDownKeeps DEF Turns
<1>3. ASSUME NEW n \in 1..N, NEW acc \in Turns
      PROVE  /\ step(n, acc) \in Turns
             /\ acc.tbl \in Tidy(S, max) =>
                  /\ step(n, acc).tbl \in Tidy(S, max)
                  /\ Here(step(n, acc).tbl, members, Order(n).p, Order(n).r)
                  /\ \A q \in Parts, i \in Cells :
                       Here(acc.tbl, members, q, i) => Here(step(n, acc).tbl, members, q, i)
  <2>1. PICK p \in Parts, r \in 1..max : Order(n).p = p /\ Order(n).r = r
    BY <1>1, OrderOfCells
  <2>2. PICK new : new = Replace(acc, members, leave, p, r)
    OBVIOUS
  <2>3. /\ new \in Turns
        /\ \/ new.tbl = acc.tbl /\ acc.tbl[p][r].mid # leave
           \/ Given(acc.tbl, new.tbl, members, p, r)
    BY <2>2, ReplaceGives
  <2>4. step(n, acc) = new
    BY <2>1, <2>2
  <2>5. acc.tbl \in Tables /\ members \subseteq S /\ r \in Cells
    BY <1>1, BalancerAssumption DEF Turns, Cells
  <2>6. CASE new.tbl = acc.tbl /\ acc.tbl[p][r].mid # leave
    <3>1. acc.tbl \in Tidy(S, max) => Here(acc.tbl, members, p, r)
      BY <2>5, <2>6 DEF Tidy, Spread, Here
    <3> QED  BY <2>1, <2>3, <2>4, <2>6, <3>1
  <2>7. CASE Given(acc.tbl, new.tbl, members, p, r)
    <3>1. acc.tbl \in Tidy(S, max) =>
              /\ new.tbl \in Tidy(S, max)
              /\ Here(new.tbl, members, p, r)
              /\ \A q \in Parts, i \in Cells : Here(acc.tbl, members, q, i) => Here(new.tbl, members, q, i)
      BY <2>5, <2>7, GivenKeeps
    <3> QED  BY <2>1, <2>3, <2>4, <3>1
  <2> QED  BY <2>3, <2>6, <2>7
<1>4. SimpleBalance(t, members, leave) = run.tbl
  BY DEF SimpleBalance
<1>5. run =
        (CHOOSE f : f = [n \in 0..N |-> IF n = 0 THEN base ELSE next(n, f[n - 1])])[N]
  BY DEF run, Iterate
<1>6. \A n, u : next(n, u) = step(n, u)
  OBVIOUS
<1> HIDE DEF step, next, N
<1>7. G \in [(1..N) \X Turns -> Turns] /\ \A n \in 1..N, u \in Turns : G[<<n, u>>] = next(n, u)
  BY <1>3, <1>6
<1> HIDE DEF G
<1>8. PICK h : Evolves(h, Turns, base, N, G)
  BY <1>1, <1>7, <1>2, StepsExist
<1>9. h = [n \in 0..N |-> IF n = 0 THEN base ELSE next(n, h[n - 1])]
  <2>1. h \in [0..N -> Turns] /\ h[0] = base /\ \A n \in 1..N : h[n] = G[<<n, h[n - 1]>>]
    BY <1>8 DEF Evolves
  <2>2. ASSUME NEW n \in 0..N  PROVE h[n] = IF n = 0 THEN base ELSE next(n, h[n - 1])
    <3>1. n = 0 \/ (n \in 1..N /\ n - 1 \in 0..N)
      BY <1>1
    <3> QED  BY <1>7, <2>1, <3>1
  <2> QED  BY <2>1, <2>2
<1>10. PICK f : /\ f = [n \in 0..N |-> IF n = 0 THEN base ELSE next(n, f[n - 1])]
               /\ run = f[N]
  BY <1>5, <1>9
<1>11. f[0] = base /\ \A n \in 1..N : f[n] = step(n, f[n - 1])
  BY <1>1, <1>6, <1>10
<1> HIDE DEF base, run
<1> DEFINE T == [n \in 0..N |->
                   {acc \in Turns :
                      t \in Tidy(S, Replicas) =>
                        /\ acc.tbl \in Tidy(S, max)
                        /\ \A i \in 1..n : Here(acc.tbl, members, Order(i).p, Order(i).r)}]
<1>12. f[N] \in T[N]
  <2>1. f[0] \in T[0]
    BY <1>1, <1>2, <1>11
  <2>2. ASSUME NEW n \in 1..N, f[n - 1] \in T[n - 1]
        PROVE  f[n] \in T[n]
    <3>1. n - 1 \in 0..N /\ n \in 0..N /\ f[n] = step(n, f[n - 1]) /\ f[n - 1] \in Turns
      BY <1>1, <1>11, <2>2
    <3>2. f[n] \in Turns
      BY <1>3, <3>1
    <3>3. ASSUME t \in Tidy(S, Replicas), NEW i \in 1..n
          PROVE  /\ f[n].tbl \in Tidy(S, max)
                 /\ Here(f[n].tbl, members, Order(i).p, Order(i).r)
      <4>1. f[n - 1].tbl \in Tidy(S, max)
        BY <2>2, <3>1, <3>3
      <4>2. i \in 1..N
        BY <1>1, <3>1
      <4>3. PICK p \in Parts, r \in 1..max : Order(i).p = p /\ Order(i).r = r
        BY <1>1, <4>2, OrderOfCells DEF N
      <4>4. r \in Cells
        BY <1>1, BalancerAssumption DEF Cells
      <4>5. i # n => Here(f[n - 1].tbl, members, p, r)
        <5>1. i # n => i \in 1..(n - 1)
          BY <3>1
        <5> QED  BY <2>2, <3>1, <3>3, <4>3, <5>1
      <4> QED  BY <1>3, <3>1, <4>1, <4>3, <4>4, <4>5
    <3>4. 1 \in 1..n
      BY <3>1
    <3> QED  BY <3>1, <3>2, <3>3, <3>4
  <2> HIDE DEF T
  <2> QED  BY <1>1, <2>1, <2>2, StepsStay
<1>13. /\ f[N] \in Turns
       /\ t \in Tidy(S, Replicas) =>
            /\ f[N].tbl \in Tidy(S, max)
            /\ \A i \in 1..N : Here(f[N].tbl, members, Order(i).p, Order(i).r)
  <2>1. T[N] = {acc \in Turns :
                  t \in Tidy(S, Replicas) =>
                    /\ acc.tbl \in Tidy(S, max)
                    /\ \A i \in 1..N : Here(acc.tbl, members, Order(i).p, Order(i).r)}
    BY <1>1
  <2> HIDE DEF T
  <2> QED  BY <1>12, <2>1
<1> HIDE DEF T
<1>14. t \in Tidy(S, Replicas) => f[N].tbl \in Tidy(members, max)
  BY <1>13, TidyHere DEF N
<1> QED BY <1>4, <1>10, <1>13, <1>14 DEF Turns


-----------------------------------------------------------------------------
(* balanceLeave                                                             *)
LEMMA OutcomesAreGiven ==
  ASSUME NEW t \in Tables, NEW members \in SUBSET Ids, NEW leave,
         NEW p \in Parts, NEW r \in 1..MaxReplicas(members),
         NEW u \in LeaveOutcomes(t, members, leave, p, r)
  PROVE  \/ u = t /\ t[p][r].mid # leave
         \/ Given(t, u, members, p, r)
<1> DEFINE takers == BestTakers(t, members, p, r)
<1>1. CASE t[p][r].mid \notin {NoMember, leave}
  BY <1>1 DEF LeaveOutcomes
<1>2. CASE t[p][r].mid \in {NoMember, leave} /\ takers # {}
  <2>1. PICK m \in takers : u = SetMember(t, members, p, r, m)
    BY <1>2 DEF LeaveOutcomes
  <2>2. m \in members /\ CheckMember(t, members, p, m)
    BY <2>1, BestTakersAreTakers
  <2> QED  BY <2>1, <2>2 DEF Given
<1>3. CASE t[p][r].mid \in {NoMember, leave} /\ takers = {} /\ t[p][r].mid = leave
  <2>1. u = SetMember(t, members, p, r, NoMember)
    BY <1>3 DEF LeaveOutcomes
  <2>2. NoMember \in members \cup {NoMember}
    OBVIOUS
  <2> QED  BY <2>1, <2>2 DEF Given
<1>4. CASE t[p][r].mid \in {NoMember, leave} /\ takers = {} /\ t[p][r].mid # leave
  BY <1>4 DEF LeaveOutcomes
<1> QED  BY <1>1, <1>2, <1>3, <1>4

(* The tables with every replica of t, in its place, except those of leave. *)
AfterLeave(t, leave) ==
  {u \in Tables : \A p \in Parts, r \in Cells :
                    t[p][r].mid \notin {leave, NoMember} => u[p][r] = t[p][r]}

LEMMA OutcomesKeepRest ==
  ASSUME NEW t \in Tables, NEW members \in SUBSET Ids, NEW leave, leave \notin members,
         NEW p \in Parts, NEW r \in 1..MaxReplicas(members),
         NEW u \in LeaveOutcomes(t, members, leave, p, r)
  PROVE  u \in AfterLeave(t, leave)
<1> DEFINE takers == BestTakers(t, members, p, r)
<1>1. r \in Cells /\ NoMember \notin members
  BY MaxReplicasBound, BalancerAssumption DEF Cells, Ids, NoMember
<1>2. CASE u = t
  BY <1>2 DEF AfterLeave
<1>3. CASE u # t
  <2>1. t[p][r].mid \in {NoMember, leave}
    BY <1>3 DEF LeaveOutcomes
  <2>2. PICK m \in members \cup {NoMember} : u = SetMember(t, members, p, r, m)
    <3>1. CASE takers # {}
      <4>1. PICK m \in takers : u = SetMember(t, members, p, r, m)
        BY <2>1, <3>1 DEF LeaveOutcomes
      <4> QED  BY <4>1, BestTakersAreTakers
    <3>2. CASE takers = {}
      BY <1>3, <2>1, <3>2 DEF LeaveOutcomes
    <3> QED  BY <3>1, <3>2
  <2>3. m \in Ids \cup {NoMember}
    OBVIOUS
  <2>4. /\ u \in Tables
        /\ \A q \in Parts \ {p} : u[q] = t[q]
        /\ \/ \A i \in Cells \ {r} : u[p][i] = t[p][i]
           \/ t[p][r].mid \in members
    BY <1>1, <2>2, <2>3, SetMemberRow
  <2>5. \A i \in Cells \ {r} : u[p][i] = t[p][i]
    BY <1>1, <2>1, <2>4
  <2>6. \A q \in Parts, i \in Cells : t[q][i].mid \notin {leave, NoMember} => u[q][i] = t[q][i]
    BY <2>1, <2>4, <2>5
  <2> QED  BY <2>4, <2>6 DEF AfterLeave
<1> QED  BY <1>2, <1>3

LEMMA BalanceLeaveKeeps ==
  ASSUME NEW members \in SUBSET Ids, NEW leave, NEW t \in Tables
  PROVE  /\ BalanceLeave(t, members, leave) \in SUBSET Tables
         /\ leave \notin members =>
              BalanceLeave(t, members, leave) \subseteq AfterLeave(t, leave)
         /\ t \in Tidy(members \cup {leave}, MaxReplicas(members)) =>
              BalanceLeave(t, members, leave) \subseteq Tidy(members, MaxReplicas(members))
<1> DEFINE max == MaxReplicas(members)
           S == members \cup {leave}
           N == max * Partitions
           step(n, tables) ==
             UNION {LeaveOutcomes(u, members, leave, Order(n).p, Order(n).r) : u \in tables}
           next(n, u) == CHOOSE x \in {step(n, v) : v \in {u}} : TRUE
           G == [nu \in (1..N) \X (SUBSET Tables) |-> step(nu[1], nu[2])]
           base == {t}
<1>1. max \in 0..Replicas /\ N \in Nat /\ Replicas \in Nat
  BY MaxReplicasBound, BalancerAssumption
<1>2. ASSUME NEW n \in 1..N, NEW u \in Tables,
             NEW new \in LeaveOutcomes(u, members, leave, Order(n).p, Order(n).r)
      PROVE  /\ new \in Tables
             /\ u \in Tidy(S, max) =>
                  /\ new \in Tidy(S, max)
                  /\ Here(new, members, Order(n).p, Order(n).r)
                  /\ \A q \in Parts, i \in Cells :
                       Here(u, members, q, i) => Here(new, members, q, i)
  <2>1. PICK p \in Parts, r \in 1..max : Order(n).p = p /\ Order(n).r = r
    BY <1>1, OrderOfCells
  <2>2. members \subseteq S /\ r \in Cells
    BY <1>1 DEF Cells
  <2>3. \/ new = u /\ u[p][r].mid # leave
        \/ Given(u, new, members, p, r)
    BY <2>1, OutcomesAreGiven
  <2>4. CASE new = u /\ u[p][r].mid # leave
    <3>1. u \in Tidy(S, max) => Here(u, members, p, r)
      BY <2>2, <2>4 DEF Tidy, Spread, Here
    <3> QED  BY <2>1, <2>4, <3>1
  <2>5. CASE Given(u, new, members, p, r)
    <3>1. /\ new \in Tables
          /\ u \in Tidy(S, max) =>
              /\ new \in Tidy(S, max)
              /\ Here(new, members, p, r)
              /\ \A q \in Parts, i \in Cells : Here(u, members, q, i) => Here(new, members, q, i)
      BY <2>2, <2>5, GivenKeeps
    <3> QED  BY <2>1, <3>1
  <2> QED  BY <2>3, <2>4, <2>5
<1>3. \A n \in 1..N, tables \in SUBSET Tables : step(n, tables) \in SUBSET Tables
  BY <1>2
<1>4. base \in SUBSET Tables
  OBVIOUS
<1>5. BalanceLeave(t, members, leave) =
        (CHOOSE f : f = [n \in 0..N |-> IF n = 0 THEN base ELSE next(n, f[n - 1])])[N]
  BY DEF BalanceLeave, Iterate
<1>6. \A n, u : next(n, u) = step(n, u)
  OBVIOUS
<1> HIDE DEF step, next, N
<1>7. /\ G \in [(1..N) \X (SUBSET Tables) -> (SUBSET Tables)]
      /\ \A n \in 1..N, u \in (SUBSET Tables) : G[<<n, u>>] = next(n, u)
  BY <1>3, <1>6
<1> HIDE DEF G
<1>8. PICK h : Evolves(h, (SUBSET Tables), base, N, G)
  BY <1>1, <1>7, <1>4, StepsExist
<1>9. h = [n \in 0..N |-> IF n = 0 THEN base ELSE next(n, h[n - 1])]
  <2>1. h \in [0..N -> (SUBSET Tables)] /\ h[0] = base /\ \A n \in 1..N : h[n] = G[<<n, h[n - 1]>>]
    BY <1>8 DEF Evolves
  <2>2. ASSUME NEW n \in 0..N  PROVE h[n] = IF n = 0 THEN base ELSE next(n, h[n - 1])
    <3>1. n = 0 \/ (n \in 1..N /\ n - 1 \in 0..N)
      BY <1>1
    <3> QED  BY <1>7, <2>1, <3>1
  <2> QED  BY <2>1, <2>2
<1>10. PICK f : /\ f = [n \in 0..N |-> IF n = 0 THEN base ELSE next(n, f[n - 1])]
               /\ BalanceLeave(t, members, leave) = f[N]
  BY <1>5, <1>9
<1>11. f[0] = base /\ \A n \in 1..N : f[n] = step(n, f[n - 1])
  <2> HIDE DEF base
  <2>1. 0 \in 0..N /\ \A n \in 1..N : n \in 0..N /\ n # 0
    BY <1>1
  <2>2. \A n \in 0..N : f[n] = IF n = 0 THEN base ELSE next(n, f[n - 1])
    BY <1>10
  <2> QED  BY <1>6, <2>1, <2>2
<1> HIDE DEF base
<1> DEFINE T == [n \in 0..N |->
                   {tables \in SUBSET Tables :
                      t \in Tidy(S, max) =>
                        \A u \in tables :
                          /\ u \in Tidy(S, max)
                          /\ \A i \in 1..n : Here(u, members, Order(i).p, Order(i).r)}]
<1>12. f[N] \in T[N]
  <2>1. f[0] \in T[0]
    <3>1. f[0] = {t} /\ {t} \in SUBSET Tables
      BY <1>4, <1>11 DEF base
    <3>2. t \in Tidy(S, max) =>
            \A u \in {t} : /\ u \in Tidy(S, max)
                          /\ \A i \in 1..0 : Here(u, members, Order(i).p, Order(i).r)
      OBVIOUS
    <3>3. T[0] = {tables \in SUBSET Tables :
                    t \in Tidy(S, max) =>
                      \A u \in tables :
                        /\ u \in Tidy(S, max)
                        /\ \A i \in 1..0 : Here(u, members, Order(i).p, Order(i).r)}
      BY <1>1
    <3> QED  BY <3>1, <3>2, <3>3
  <2>2. ASSUME NEW n \in 1..N, f[n - 1] \in T[n - 1]
        PROVE  f[n] \in T[n]
    <3>1. n - 1 \in 0..N /\ n \in 0..N /\ f[n] = step(n, f[n - 1]) /\ f[n - 1] \in SUBSET Tables
      BY <1>1, <1>11, <2>2
    <3>2. f[n] \in SUBSET Tables
      BY <1>3, <3>1
    <3>3. ASSUME t \in Tidy(S, max), NEW new \in f[n]
          PROVE  /\ new \in Tidy(S, max)
                 /\ \A i \in 1..n : Here(new, members, Order(i).p, Order(i).r)
      <4>1. PICK u \in f[n - 1] :
              new \in LeaveOutcomes(u, members, leave, Order(n).p, Order(n).r)
        BY <3>1, <3>3 DEF step
      <4>2. u \in Tables /\ u \in Tidy(S, max)
            /\ \A i \in 1..(n - 1) : Here(u, members, Order(i).p, Order(i).r)
        BY <2>2, <3>1, <3>3, <4>1
      <4>3. /\ new \in Tidy(S, max)
            /\ Here(new, members, Order(n).p, Order(n).r)
            /\ \A q \in Parts, i \in Cells :
                 Here(u, members, q, i) => Here(new, members, q, i)
        BY <1>2, <4>1, <4>2
      <4>4. ASSUME NEW i \in 1..n  PROVE Here(new, members, Order(i).p, Order(i).r)
        <5>1. i \in 1..N /\ (i # n => i \in 1..(n - 1))
          BY <1>1, <3>1
        <5>2. PICK p \in Parts, r \in 1..max : Order(i).p = p /\ Order(i).r = r
          BY <1>1, <5>1, OrderOfCells DEF N
        <5>3. r \in Cells
          BY <1>1 DEF Cells
        <5> QED  BY <4>2, <4>3, <5>1, <5>2, <5>3
      <4> QED  BY <4>3, <4>4
    <3> QED  BY <3>1, <3>2, <3>3
  <2> HIDE DEF T
  <2> QED  BY <1>1, <2>1, <2>2, StepsStay
<1>13. /\ f[N] \in SUBSET Tables
       /\ t \in Tidy(S, max) =>
            \A u \in f[N] :
              /\ u \in Tidy(S, max)
              /\ \A i \in 1..N : Here(u, members, Order(i).p, Order(i).r)
  <2>1. T[N] = {tables \in SUBSET Tables :
                  t \in Tidy(S, max) =>
                    \A u \in tables :
                      /\ u \in Tidy(S, max)
                      /\ \A i \in 1..N : Here(u, members, Order(i).p, Order(i).r)}
    BY <1>1
  <2> HIDE DEF T
  <2> QED  BY <1>12, <2>1
<1> HIDE DEF T
<1>14. t \in Tidy(S, max) => \A u \in f[N] : u \in Tidy(members, max)
  BY <1>13, TidyHere DEF N
<1>15. ASSUME leave \notin members  PROVE f[N] \in SUBSET AfterLeave(t, leave)
  <2> DEFINE R == [n \in 0..N |-> SUBSET AfterLeave(t, leave)]
  <2>1. f[0] \in R[0]
    BY <1>1, <1>11 DEF base, AfterLeave
  <2>2. ASSUME NEW n \in 1..N, f[n - 1] \in R[n - 1]
        PROVE  f[n] \in R[n]
    <3>1. n - 1 \in 0..N /\ n \in 0..N /\ f[n] = step(n, f[n - 1])
      BY <1>1, <1>11
    <3>2. f[n - 1] \in SUBSET AfterLeave(t, leave)
      BY <2>2, <3>1
    <3>3. ASSUME NEW new \in f[n]  PROVE new \in AfterLeave(t, leave)
      <4>1. PICK u \in f[n - 1] :
              new \in LeaveOutcomes(u, members, leave, Order(n).p, Order(n).r)
        BY <3>1, <3>3 DEF step
      <4>2. u \in AfterLeave(t, leave) /\ u \in Tables
        BY <3>2, <4>1 DEF AfterLeave
      <4>3. PICK p \in Parts, r \in 1..max : Order(n).p = p /\ Order(n).r = r
        BY <1>1, OrderOfCells DEF N
      <4>4. new \in AfterLeave(u, leave)
        BY <1>15, <4>1, <4>2, <4>3, OutcomesKeepRest
      <4> QED  BY <4>2, <4>4 DEF AfterLeave
    <3> QED  BY <3>1, <3>3
  <2> HIDE DEF R
  <2>3. f[N] \in R[N]
    BY <1>1, <2>1, <2>2, StepsStay
  <2> QED  BY <1>1, <2>3 DEF R
<1> QED BY <1>10, <1>13, <1>14, <1>15

-----------------------------------------------------------------------------
(* balanceJoin                                                              *)
Shares == [tbl : Tables, start : Nat, n : Nat, done : BOOLEAN]

(* The tables with every replica of t in its partition, except one at most, *)
(* for which the joiner is in it.                                           *)
AfterJoin(t, members, join) ==
  {u \in Tables : \A p \in Parts :
     \/ u[p] = t[p]
     \/ /\ ~CheckMember(u, members, p, join)
        /\ \E x \in Cells : \A r \in Cells \ {x} :
             t[p][r].mid # NoMember => \E i \in Cells : u[p][i] = t[p][r]}

(* The shares whose table is as tidy as u is, and lost no more.             *)
AsTidy(u, members, join) ==
  {acc \in Shares :
     /\ u \in Tidy(members, MaxReplicas(members)) =>
          acc.tbl \in Tidy(members, MaxReplicas(members))
     /\ \A t \in Tables : u \in AfterJoin(t, members, join) => acc.tbl \in AfterJoin(t, members, join)}

LEMMA AsTidyAdds ==
  ASSUME NEW members, NEW join, NEW u, NEW acc \in AsTidy(u, members, join),
         NEW new \in AsTidy(acc.tbl, members, join)
  PROVE  new \in AsTidy(u, members, join)
BY DEF AsTidy

LEMMA TakenIsJoined ==
  ASSUME NEW members \in SUBSET Ids, NEW join \in members, NEW p \in Parts,
         NEW r \in 1..MaxReplicas(members), NEW u \in Tables,
         CheckMember(u, members, p, join),
         NEW t \in Tables, u \in AfterJoin(t, members, join)
  PROVE  SetMember(u, members, p, r, join) \in AfterJoin(t, members, join)
<1>1. r \in Cells /\ join \in Ids \cup {NoMember} /\ NoMember \notin members
  BY MaxReplicasBound, BalancerAssumption DEF Cells, Ids, NoMember
<1>2. PICK new : new = SetMember(u, members, p, r, join)
  OBVIOUS
<1>3. /\ new \in Tables
      /\ \A q \in Parts \ {p} : new[q] = u[q]
      /\ new[p][r].mid = join
      /\ \/ \A i \in Cells \ {r} : new[p][i] = u[p][i]
         \/ \E i \in Cells \ {r} :
              /\ u[p][i].mid = NoMember
              /\ \A j \in Cells \ {r, i} : new[p][j] = u[p][j]
  BY <1>1, <1>2, SetMemberRow
<1>4. u[p] = t[p]
  BY DEF AfterJoin
<1>5. ~CheckMember(new, members, p, join)
  BY <1>3 DEF CheckMember
<1>6. \A j \in Cells \ {r} : u[p][j].mid # NoMember => new[p][j] = u[p][j]
  BY <1>3
<1>7. ASSUME NEW q \in Parts \ {p}
      PROVE  new[q] = u[q] /\ (CheckMember(new, members, q, join) <=> CheckMember(u, members, q, join))
  BY <1>3 DEF CheckMember
<1> QED  BY <1>1, <1>2, <1>3, <1>4, <1>5, <1>6, <1>7 DEF AfterJoin

LEMMA TakeNextKeeps ==
  ASSUME NEW members \in SUBSET Ids, NEW join \in members,
         NEW acc \in Shares, NEW r \in 1..MaxReplicas(members)
  PROVE  TakeNext(acc, members, join, r) \in AsTidy(acc.tbl, members, join)
<1> DEFINE hits == {n \in (acc.n + 1)..JoinSteps : Takes(acc.tbl, members, join, r, acc.start, n)}
           t    == SetMember(acc.tbl, members, JoinPart(acc.start, Min(hits)), r, join)
           new  == TakeNext(acc, members, join, r)
<1>1. acc.tbl \in Tables /\ acc.start \in Nat /\ acc.n \in Nat /\ Partitions \in Nat \ {0}
  BY BalancerAssumption DEF Shares
<1>2. CASE acc.done \/ hits = {}
  <2>1. new = acc
    BY <1>2 DEF TakeNext
  <2> QED  BY <2>1 DEF AsTidy
<1>3. CASE ~(acc.done \/ hits = {})
  <2>1. hits \in SUBSET Nat
    BY <1>1
  <2>2. Min(hits) \in hits
    BY <1>3, <2>1, MinOfNats
  <2>3. PICK n : n = Min(hits)
    OBVIOUS
  <2>4. n \in Nat /\ n >= 1 /\ Takes(acc.tbl, members, join, r, acc.start, n)
    BY <1>1, <2>2, <2>3
  <2>5. PICK p : p = JoinPart(acc.start, n)
    OBVIOUS
  <2>6. p \in Parts
    BY <1>1, <2>4, <2>5 DEF JoinPart, Parts
  <2>7. /\ new.tbl = t /\ new.n = n /\ new.start = acc.start /\ new.done \in BOOLEAN
        /\ new = [tbl |-> new.tbl, start |-> new.start, n |-> new.n, done |-> new.done]
    <3> DEFINE full == Count(t, join, r) >= Expect(members, join) - 1
    <3>1. new = [acc EXCEPT !.tbl = t, !.n = Min(hits), !.done = full]
      BY <1>3 DEF TakeNext
    <3>2. full \in BOOLEAN
      <4>1. CASE full
        <5>1. full = TRUE
          BY <4>1
        <5> HIDE DEF full
        <5> QED  BY <5>1
      <4>2. CASE ~full
        <5>1. full = FALSE
          BY <4>2
        <5> HIDE DEF full
        <5> QED  BY <5>1
      <4> QED  BY <4>1, <4>2
    <3> HIDE DEF full
    <3>3. PICK d \in BOOLEAN : d = full
      BY <3>2
    <3>4. new = [acc EXCEPT !.tbl = t, !.n = n, !.done = d]
      BY <2>3, <3>1, <3>3
    <3>5. acc = [tbl |-> acc.tbl, start |-> acc.start, n |-> acc.n, done |-> acc.done]
      BY DEF Shares
    <3> HIDE DEF new, t, hits
    <3> QED  BY <3>4, <3>5
  <2>8. t = SetMember(acc.tbl, members, p, r, join)
    BY <2>3, <2>5
  <2> HIDE DEF hits, t, new
  <2>9. CheckMember(acc.tbl, members, p, join)
    BY <2>4, <2>5 DEF Takes
  <2>10. Given(acc.tbl, t, members, p, r)
    BY <2>8, <2>9 DEF Given
  <2>11. /\ t \in Tables
         /\ acc.tbl \in Tidy(members, MaxReplicas(members)) =>
              t \in Tidy(members, MaxReplicas(members))
    BY <1>1, <2>6, <2>10, GivenKeeps
  <2>12. new \in Shares
    BY <1>1, <2>4, <2>7, <2>11 DEF Shares
  <2>13. \A u \in Tables : acc.tbl \in AfterJoin(u, members, join) => t \in AfterJoin(u, members, join)
    BY <1>1, <2>6, <2>8, <2>9, TakenIsJoined
  <2> QED  BY <2>7, <2>11, <2>12, <2>13 DEF new, AsTidy
<1> QED  BY <1>2, <1>3

LEMMA TakeShareKeeps ==
  ASSUME NEW members \in SUBSET Ids, NEW join \in members,
         NEW acc \in Shares, NEW r \in 1..MaxReplicas(members)
  PROVE  TakeShare(acc, members, join, r) \in AsTidy(acc.tbl, members, join)
<1> DEFINE max == MaxReplicas(members)
           N == Partitions
           begin == IF acc.done THEN acc.start + acc.n ELSE acc.start
           base == [acc EXCEPT !.start = begin % Partitions, !.n = 0, !.done = FALSE]
           step(n, u) == TakeNext(u, members, join, r)
           next(n, u) == CHOOSE x \in {step(n, v) : v \in {u}} : TRUE
           G == [nu \in (1..N) \X Shares |-> step(nu[1], nu[2])]
           run == Iterate(step, base, N)
<1>1. N \in Nat /\ N > 0
  BY BalancerAssumption
<1>2. base \in Shares /\ base.tbl = acc.tbl
  <2>1. begin \in Nat
    BY DEF Shares
  <2>2. begin % Partitions \in Nat
    BY <1>1, <2>1
  <2> QED  BY <2>2 DEF Shares
<1>3. ASSUME NEW n \in 1..N, NEW u \in Shares
      PROVE  step(n, u) \in AsTidy(u.tbl, members, join)
  BY TakeNextKeeps
<1>4. TakeShare(acc, members, join, r) = run
  BY DEF TakeShare
<1>5. run =
        (CHOOSE f : f = [n \in 0..N |-> IF n = 0 THEN base ELSE next(n, f[n - 1])])[N]
  BY DEF run, Iterate
<1>6. \A n, u : next(n, u) = step(n, u)
  OBVIOUS
<1> HIDE DEF step, next, N
<1>7. G \in [(1..N) \X Shares -> Shares] /\ \A n \in 1..N, u \in Shares : G[<<n, u>>] = next(n, u)
  BY <1>3, <1>6 DEF AsTidy
<1> HIDE DEF G
<1>8. PICK h : Evolves(h, Shares, base, N, G)
  BY <1>1, <1>7, <1>2, StepsExist
<1>9. h = [n \in 0..N |-> IF n = 0 THEN base ELSE next(n, h[n - 1])]
  <2>1. h \in [0..N -> Shares] /\ h[0] = base /\ \A n \in 1..N : h[n] = G[<<n, h[n - 1]>>]
    BY <1>8 DEF Evolves
  <2>2. ASSUME NEW n \in 0..N  PROVE h[n] = IF n = 0 THEN base ELSE next(n, h[n - 1])
    <3>1. n = 0 \/ (n \in 1..N /\ n - 1 \in 0..N)
      BY <1>1
    <3> QED  BY <1>7, <2>1, <3>1
  <2> QED  BY <2>1, <2>2
<1>10. PICK f : /\ f = [n \in 0..N |-> IF n = 0 THEN base ELSE next(n, f[n - 1])]
               /\ run = f[N]
  BY <1>5, <1>9
<1>11. f[0] = base /\ \A n \in 1..N : f[n] = step(n, f[n - 1])
  <2> HIDE DEF base, run
  <2>1. 0 \in 0..N /\ \A n \in 1..N : n \in 0..N /\ n # 0
    BY <1>1
  <2>2. \A n \in 0..N : f[n] = IF n = 0 THEN base ELSE next(n, f[n - 1])
    BY <1>10
  <2> QED  BY <1>6, <2>1, <2>2
<1> HIDE DEF base, run
<1> DEFINE T == [n \in 0..N |-> AsTidy(acc.tbl, members, join)]
<1>12. f[N] \in T[N]
  <2>1. f[0] \in T[0]
    BY <1>1, <1>2, <1>11 DEF AsTidy
  <2>2. ASSUME NEW n \in 1..N, f[n - 1] \in T[n - 1]
        PROVE  f[n] \in T[n]
    <3>1. n - 1 \in 0..N /\ n \in 0..N /\ f[n] = step(n, f[n - 1])
      BY <1>1, <1>11
    <3>2. f[n - 1] \in AsTidy(acc.tbl, members, join) /\ f[n - 1] \in Shares
      BY <2>2, <3>1 DEF AsTidy
    <3>3. f[n] \in AsTidy(f[n - 1].tbl, members, join)
      BY <1>3, <3>1, <3>2
    <3> QED  BY <3>1, <3>2, <3>3, AsTidyAdds
  <2> HIDE DEF T
  <2> QED  BY <1>1, <2>1, <2>2, StepsStay
<1> QED  BY <1>1, <1>4, <1>10, <1>12

LEMMA BalanceJoinKeeps ==
  ASSUME NEW members \in SUBSET Ids, NEW join \in members, NEW t \in Tables
  PROVE  /\ BalanceJoin(t, members, join) \in Tables
         /\ BalanceJoin(t, members, join) \in AfterJoin(t, members, join)
         /\ t \in Tidy(members, MaxReplicas(members)) =>
              BalanceJoin(t, members, join) \in Tidy(members, MaxReplicas(members))
<1> DEFINE max == MaxReplicas(members)
           N == max
           base == [tbl |-> t, start |-> 0, n |-> 0, done |-> FALSE]
           step(n, u) == TakeShare(u, members, join, n)
           next(n, u) == CHOOSE x \in {step(n, v) : v \in {u}} : TRUE
           G == [nu \in (1..N) \X Shares |-> step(nu[1], nu[2])]
           run == Iterate(step, base, N)
<1>1. N \in Nat
  BY MaxReplicasBound, BalancerAssumption
<1>2. base \in Shares /\ base.tbl = t
  BY DEF Shares
<1>3. ASSUME NEW n \in 1..N, NEW u \in Shares
      PROVE  step(n, u) \in AsTidy(u.tbl, members, join)
  BY TakeShareKeeps
<1>4. BalanceJoin(t, members, join) = run.tbl
  BY DEF BalanceJoin
<1>5. run =
        (CHOOSE f : f = [n \in 0..N |-> IF n = 0 THEN base ELSE next(n, f[n - 1])])[N]
  BY DEF run, Iterate
<1>6. \A n, u : next(n, u) = step(n, u)
  OBVIOUS
<1> HIDE DEF step, next, N
<1>7. G \in [(1..N) \X Shares -> Shares] /\ \A n \in 1..N, u \in Shares : G[<<n, u>>] = next(n, u)
  BY <1>3, <1>6 DEF AsTidy
<1> HIDE DEF G
<1>8. PICK h : Evolves(h, Shares, base, N, G)
  BY <1>1, <1>7, <1>2, StepsExist
<1>9. h = [n \in 0..N |-> IF n = 0 THEN base ELSE next(n, h[n - 1])]
  <2>1. h \in [0..N -> Shares] /\ h[0] = base /\ \A n \in 1..N : h[n] = G[<<n, h[n - 1]>>]
    BY <1>8 DEF Evolves
  <2>2. ASSUME NEW n \in 0..N  PROVE h[n] = IF n = 0 THEN base ELSE next(n, h[n - 1])
    <3>1. n = 0 \/ (n \in 1..N /\ n - 1 \in 0..N)
      BY <1>1
    <3> QED  BY <1>7, <2>1, <3>1
  <2> QED  BY <2>1, <2>2
<1>10. PICK f : /\ f = [n \in 0..N |-> IF n = 0 THEN base ELSE next(n, f[n - 1])]
               /\ run = f[N]
  BY <1>5, <1>9
<1>11. f[0] = base /\ \A n \in 1..N : f[n] = step(n, f[n - 1])
  <2> HIDE DEF base, run
  <2>1. 0 \in 0..N /\ \A n \in 1..N : n \in 0..N /\ n # 0
    BY <1>1
  <2>2. \A n \in 0..N : f[n] = IF n = 0 THEN base ELSE next(n, f[n - 1])
    BY <1>10
  <2> QED  BY <1>6, <2>1, <2>2
<1> HIDE DEF base, run
<1> DEFINE T == [n \in 0..N |-> AsTidy(t, members, join)]
<1>12. f[N] \in T[N]
  <2>1. f[0] \in T[0]
    BY <1>1, <1>2, <1>11 DEF AsTidy
  <2>2. ASSUME NEW n \in 1..N, f[n - 1] \in T[n - 1]
        PROVE  f[n] \in T[n]
    <3>1. n - 1 \in 0..N /\ n \in 0..N /\ f[n] = step(n, f[n - 1])
      BY <1>1, <1>11
    <3>2. f[n - 1] \in AsTidy(t, members, join) /\ f[n - 1] \in Shares
      BY <2>2, <3>1 DEF AsTidy
    <3>3. f[n] \in AsTidy(f[n - 1].tbl, members, join)
      BY <1>3, <3>1, <3>2
    <3> QED  BY <3>1, <3>2, <3>3, AsTidyAdds
  <2> HIDE DEF T
  <2> QED  BY <1>1, <2>1, <2>2, StepsStay
<1>13. f[N] \in AsTidy(t, members, join)
  BY <1>1, <1>12
<1>14. t \in AfterJoin(t, members, join)
  BY DEF AfterJoin
<1> QED  BY <1>4, <1>10, <1>13, <1>14 DEF AsTidy, Shares

-----------------------------------------------------------------------------
(* balance: it makes tables of tables, and tidy ones of tidy ones: replicas *)
(* of a partition on different members that are there, in the first places, *)
(* as many at most as there are members.                                    *)
LEMMA BalanceKeeps ==
  ASSUME NEW members \in SUBSET Ids, NEW mid \in Ids, NEW t \in Tables,
         NEW new \in Balance(t, members, mid)
  PROVE  /\ new \in Tables
         /\ t \in Tidy(members \cup {mid}, Replicas) =>
              new \in Tidy(members, MaxReplicas(members))
<1> DEFINE leave == IF mid \in members THEN NoMember ELSE mid
           max == MaxReplicas(members)
           choices == IF Cardinality(members) <= Replicas
                    THEN {SimpleBalance(t, members, leave)}
                    ELSE IF mid \notin members
                    THEN BalanceLeave(t, members, mid)
                    ELSE {BalanceJoin(t, members, mid)}
<1>1. PICK u \in choices : new = Adjust(u, members)
  BY DEF Balance
<1>2. ASSUME u \in Tables, t \in Tidy(members \cup {mid}, Replicas) => u \in Tidy(members, max)
      PROVE  /\ new \in Tables
             /\ t \in Tidy(members \cup {mid}, Replicas) => new \in Tidy(members, max)
  <2>1. /\ Adjust(u, members) \in Tables
        /\ u \in Tidy(members, max) => Adjust(u, members) \in Tidy(members, max)
    BY <1>2, AdjustKeeps DEF Rearranged
  <2> QED  BY <1>1, <1>2, <2>1
<1>3. CASE Cardinality(members) <= Replicas
  <2>1. u = SimpleBalance(t, members, leave)
    BY <1>1, <1>3
  <2>2. t \in Tidy(members \cup {mid}, Replicas) => t \in Tidy(members \cup {leave}, Replicas)
    <3>1. \A m : m \in members \cup {mid} \cup {NoMember} => m \in members \cup {leave} \cup {NoMember}
      OBVIOUS
    <3> HIDE DEF leave
    <3>2. Spread(members \cup {mid}, Replicas) \subseteq Spread(members \cup {leave}, Replicas)
      BY <3>1 DEF Spread
    <3> QED  BY <3>2 DEF Tidy
  <2>3. u \in Tables /\ (t \in Tidy(members \cup {leave}, Replicas) => u \in Tidy(members, max))
    <3>1. PICK l : l = leave
      OBVIOUS
    <3> QED  BY <2>1, <3>1, SimpleBalanceKeeps
  <2> QED  BY <1>2, <2>2, <2>3
<1>4. CASE ~(Cardinality(members) <= Replicas)
  <2>1. max = Replicas
    BY <1>4, MaxReplicasBound, BalancerAssumption
  <2>2. CASE mid \notin members
    <3>1. u \in BalanceLeave(t, members, mid)
      BY <1>1, <1>4, <2>2
    <3> QED  BY <1>2, <2>1, <3>1, BalanceLeaveKeeps
  <2>3. CASE mid \in members
    <3>1. u = BalanceJoin(t, members, mid) /\ members \cup {mid} = members
      BY <1>1, <1>4, <2>3
    <3> QED  BY <1>2, <2>1, <2>3, <3>1, BalanceJoinKeeps
  <2> QED  BY <2>2, <2>3
<1> QED  BY <1>3, <1>4

(* With more members than replicas no replica is lost when a member leaves, *)
(* but those it had, and one of a partition at most when a member joins.    *)
LEMMA BalanceLoses ==
  ASSUME NEW members \in SUBSET Ids, NEW mid \in Ids, NEW t \in Tables,
         NEW new \in Balance(t, members, mid), Cardinality(members) > Replicas
  PROVE  /\ mid \notin members =>
              \A p \in Parts, r \in Cells :
                t[p][r].mid \notin {mid, NoMember} => \E i \in Cells : new[p][i] = t[p][r]
         /\ mid \in members =>
              \A p \in Parts : \E x \in Cells : \A r \in Cells \ {x} :
                t[p][r].mid # NoMember => \E i \in Cells : new[p][i] = t[p][r]
<1>1. ~(Cardinality(members) <= Replicas)
  BY MaxReplicasBound, BalancerAssumption
<1>2. 1 \in Cells
  BY BalancerAssumption DEF Cells
<1>3. CASE mid \notin members
  <2>1. PICK u \in BalanceLeave(t, members, mid) : new = Adjust(u, members)
    BY <1>1, <1>3 DEF Balance
  <2>2. u \in Tables /\ u \in AfterLeave(t, mid)
    BY <1>3, <2>1, BalanceLeaveKeeps
  <2>3. new \in Rearranged(u)
    BY <2>1, <2>2, AdjustKeeps
  <2> QED  BY <1>3, <2>2, <2>3 DEF AfterLeave, Rearranged
<1>4. CASE mid \in members
  <2>1. PICK u : u = BalanceJoin(t, members, mid) /\ new = Adjust(u, members)
    BY <1>1, <1>4 DEF Balance
  <2>2. u \in Tables /\ u \in AfterJoin(t, members, mid)
    BY <1>4, <2>1, BalanceJoinKeeps
  <2>3. new \in Rearranged(u)
    BY <2>1, <2>2, AdjustKeeps
  <2>4. ASSUME NEW p \in Parts
        PROVE  \E x \in Cells : \A r \in Cells \ {x} :
                 t[p][r].mid # NoMember => \E i \in Cells : new[p][i] = t[p][r]
    <3>1. CASE u[p] = t[p]
      <4>1. \A r \in Cells : \E i \in Cells : new[p][i] = t[p][r]
        BY <2>3, <3>1 DEF Rearranged
      <4> QED  BY <1>2, <4>1
    <3>2. CASE u[p] # t[p]
      <4>1. PICK x \in Cells : \A r \in Cells \ {x} :
              t[p][r].mid # NoMember => \E i \in Cells : u[p][i] = t[p][r]
        BY <2>2, <3>2 DEF AfterJoin
      <4>2. \A i \in Cells : \E j \in Cells : new[p][j] = u[p][i]
        BY <2>3 DEF Rearranged
      <4>3. ASSUME NEW r \in Cells \ {x}, t[p][r].mid # NoMember
            PROVE  \E j \in Cells : new[p][j] = t[p][r]
        <5>1. PICK i \in Cells : u[p][i] = t[p][r]
          BY <4>1, <4>3
        <5> QED  BY <4>2, <5>1
      <4> QED  BY <4>3
    <3> QED  BY <3>1, <3>2
  <2> QED  BY <1>4, <2>4
<1> QED  BY <1>3, <1>4

-----------------------------------------------------------------------------
(* The delta: an item for each cell that changes its member, and one only.  *)
Item(t, new, p, r) ==
  [part |-> p, pos |-> r, old |-> t[p][r].mid, new |-> new[p][r].mid,
   state |-> IF new[p][r].state # t[p][r].state THEN new[p][r].state ELSE NoState]

LEMMA DeltaItem ==
  ASSUME NEW t, NEW new, NEW d \in Delta(t, new)
  PROVE  \E p \in Parts, r \in Cells :
           d = Item(t, new, p, r) /\ d.part = p /\ t[p][r].mid # new[p][r].mid
<1>1. PICK pr \in {q \in Parts \X Cells : t[q[1]][q[2]].mid # new[q[1]][q[2]].mid} :
        d = Item(t, new, pr[1], pr[2])
  BY Zenon DEF Delta, Item
<1>2. PICK p \in Parts, r \in Cells : pr = <<p, r>>
  OBVIOUS
<1>3. d = Item(t, new, p, r) /\ t[p][r].mid # new[p][r].mid
  BY <1>1, <1>2
<1>4. d.part = p
  BY <1>3 DEF Item
<1> QED  BY <1>3, <1>4

LEMMA ItemsOfDelta ==
  ASSUME NEW t, NEW new, NEW p \in Parts, NEW r \in Cells
  PROVE  {d \in Delta(t, new) : d.part = p /\ d.pos = r} =
           IF t[p][r].mid = new[p][r].mid THEN {} ELSE {Item(t, new, p, r)}
<1> DEFINE here == {d \in Delta(t, new) : d.part = p /\ d.pos = r}
<1>1. \A d \in Delta(t, new) :
        \E q \in Parts, i \in Cells : d = Item(t, new, q, i) /\ t[q][i].mid # new[q][i].mid
  BY DeltaItem
<1>2. \A q \in Parts, i \in Cells : Item(t, new, q, i).part = q /\ Item(t, new, q, i).pos = i
  BY DEF Item
<1>3. \A d \in here : d = Item(t, new, p, r) /\ t[p][r].mid # new[p][r].mid
  BY <1>1, <1>2
<1>4. t[p][r].mid # new[p][r].mid => Item(t, new, p, r) \in Delta(t, new)
  <2> HAVE t[p][r].mid # new[p][r].mid
  <2> DEFINE pr == <<p, r>>
  <2>1. pr \in Parts \X Cells /\ pr[1] = p /\ pr[2] = r
    OBVIOUS
  <2> HIDE DEF pr
  <2>2. pr \in {q \in Parts \X Cells : t[q[1]][q[2]].mid # new[q[1]][q[2]].mid}
    BY <2>1
  <2>3. Item(t, new, pr[1], pr[2]) \in Delta(t, new)
    BY <2>2 DEF Delta, Item
  <2> QED  BY <2>1, <2>3
<1> QED  BY <1>2, <1>3, <1>4

(* What applying the delta gives: the new cell where the member changes.    *)
LEMMA DeltaApplied ==
  ASSUME NEW t \in Tables, NEW new \in Tables
  PROVE  /\ ApplyDelta(t, Delta(t, new)) \in Tables
         /\ \A p \in Parts, r \in Cells :
              ApplyDelta(t, Delta(t, new))[p][r] =
                IF t[p][r].mid = new[p][r].mid THEN t[p][r] ELSE new[p][r]
<1> DEFINE after == ApplyDelta(t, Delta(t, new))
<1>1. ASSUME NEW p \in Parts, NEW r \in Cells
      PROVE  after[p][r] = IF t[p][r].mid = new[p][r].mid THEN t[p][r] ELSE new[p][r]
  <2> DEFINE items == {d \in Delta(t, new) : d.part = p /\ d.pos = r}
             item  == CHOOSE d \in items : TRUE
  <2>1. after[p][r] = IF items = {} THEN t[p][r]
                      ELSE [mid |-> item.new,
                            state |-> IF item.state = NoState THEN t[p][r].state ELSE item.state]
    BY DEF ApplyDelta
  <2>2. t[p][r] \in Cell /\ new[p][r] \in Cell
    BY DEF Tables, Row
  <2>3. /\ t[p][r] = [mid |-> t[p][r].mid, state |-> t[p][r].state]
        /\ new[p][r] = [mid |-> new[p][r].mid, state |-> new[p][r].state]
        /\ new[p][r].state # NoState
    BY <2>2 DEF Cell, NoState
  <2>4. CASE t[p][r].mid = new[p][r].mid
    <3>1. items = {}
      BY <2>4, ItemsOfDelta
    <3> QED  BY <2>1, <2>4, <3>1
  <2>5. CASE t[p][r].mid # new[p][r].mid
    <3>1. items = {Item(t, new, p, r)}
      BY <2>5, ItemsOfDelta
    <3>2. item = Item(t, new, p, r) /\ items # {}
      BY <3>1
    <3> HIDE DEF item, items
    <3> QED  BY <2>1, <2>3, <2>5, <3>2 DEF Item
  <2> QED  BY <2>4, <2>5
<1>2. after = [p \in Parts |-> [r \in Cells |-> after[p][r]]]
  BY DEF ApplyDelta
<1> HIDE DEF after
<1>3. \A p \in Parts, r \in Cells : after[p][r] \in Cell
  BY <1>1 DEF Tables, Row
<1>4. after \in Tables
  BY <1>2, <1>3 DEF Tables, Row
<1> QED  BY <1>1, <1>4 DEF after

(* Whether a table is tidy its members decide.                              *)
LEMMA TidyByMembers ==
  ASSUME NEW S, NEW k, NEW t \in Tidy(S, k), NEW u \in Tables,
         \A p \in Parts, r \in Cells : u[p][r].mid = t[p][r].mid
  PROVE  u \in Tidy(S, k)
<1>1. ASSUME NEW p \in Parts  PROVE u[p] \in Spread(S, k)
  <2>1. t[p] \in Spread(S, k) /\ u[p] \in Row
    BY DEF Tidy, Tables
  <2> QED  BY <2>1 DEF Spread
<1> QED  BY <1>1 DEF Tidy, Tables

LEMMA TidyGrows ==
  ASSUME NEW S, NEW T, S \subseteq T, NEW k \in Nat, NEW n \in Nat, k <= n,
         NEW t \in Tidy(S, k)
  PROVE  t \in Tidy(T, n)
<1>1. ASSUME NEW p \in Parts  PROVE t[p] \in Spread(T, n)
  <2>1. t[p] \in Spread(S, k)
    BY DEF Tidy
  <2>2. \A r \in Cells : r > n => r > k
    BY DEF Cells
  <2> QED  BY <2>1, <2>2 DEF Spread
<1> QED  BY <1>1 DEF Tidy

LEMMA StatusChangedKeeps ==
  ASSUME NEW t \in Tables, NEW p \in Parts, NEW m, NEW S, NEW k
  PROVE  /\ StatusChanged(t, p, m, "READY") \in Tables
         /\ \A q \in Parts, i \in Cells : StatusChanged(t, p, m, "READY")[q][i].mid = t[q][i].mid
         /\ t \in Tidy(S, k) => StatusChanged(t, p, m, "READY") \in Tidy(S, k)
<1> DEFINE held == {r \in Cells : t[p][r].mid = m}
           u    == StatusChanged(t, p, m, "READY")
<1>1. CASE held = {}
  BY <1>1 DEF StatusChanged
<1>2. CASE held # {}
  <2>1. held \in SUBSET Nat
    BY BalancerAssumption DEF Cells
  <2>2. Min(held) \in held
    BY <1>2, <2>1, MinOfNats
  <2>3. PICK r \in Cells : r = Min(held)
    BY <2>2
  <2>4. u = [t EXCEPT ![p][r].state = "READY"]
    BY <1>2, <2>3 DEF StatusChanged
  <2> HIDE DEF u
  <2>5. /\ u \in Tables
        /\ \A q \in Parts, i \in Cells : u[q][i].mid = t[q][i].mid
    BY <2>4 DEF Tables, Row, Cell
  <2> QED  BY <2>5, TidyByMembers DEF u
<1> QED  BY <1>1, <1>2
-----------------------------------------------------------------------------
(* A table in use: whoever is in it is there, and has one replica at most   *)
(* of a partition, in one of the first places.                              *)
Inv ==
  /\ available \in SUBSET Ids
  /\ tbl \in Tidy(available, MaxReplicas(available))
  /\ built \in Tables

(* Two replicas of a partition are never on one member, and none is on a    *)
(* member that left, or beyond as many as members allow (checkMember, and   *)
(* the loops over max_replica_count): what FullyReplicated says, except     *)
(* that no place is left empty.                                             *)
ReplicasApart ==
  \A p \in Parts :
    /\ Held(tbl, p) \subseteq available
    /\ \A r \in Cells : r > MaxReplicas(available) => tbl[p][r].mid = NoMember
    /\ \A r, i \in Cells : tbl[p][r].mid = tbl[p][i].mid /\ tbl[p][r].mid # NoMember => r = i

LEMMA ChangeGives ==
  ASSUME Inv, NEW m \in Ids, Change(m)
  PROVE  /\ available' \in SUBSET Ids /\ built' \in Tables
         /\ built' \in Tidy(available', MaxReplicas(available'))
         /\ Apply(built')
         /\ tbl' \in Tables
         /\ \A p \in Parts, r \in Cells :
              tbl'[p][r] = IF tbl[p][r].mid = built'[p][r].mid THEN tbl[p][r] ELSE built'[p][r]
<1> DEFINE after == IF m \in available THEN available \ {m} ELSE available \cup {m}
<1>1. available' = after /\ after \in SUBSET Ids
  BY DEF Change, Inv
<1>2. PICK new \in Balance(tbl, after, m) : built' = new /\ Apply(new)
  BY DEF Change
<1>3. tbl \in Tables /\ tbl \in Tidy(after \cup {m}, Replicas)
  <2>1. available \subseteq after \cup {m}
    OBVIOUS
  <2>2. /\ MaxReplicas(available) \in Nat /\ Replicas \in Nat
        /\ MaxReplicas(available) <= Replicas
    BY MaxReplicasBound, BalancerAssumption DEF Inv
  <2> HIDE DEF after
  <2>3. tbl \in Tidy(after \cup {m}, Replicas)
    BY <2>1, <2>2, TidyGrows DEF Inv
  <2> QED  BY <2>3, TidyIsTable DEF Inv
<1> HIDE DEF after
<1>4. new \in Tables /\ new \in Tidy(after, MaxReplicas(after))
  BY <1>1, <1>2, <1>3, BalanceKeeps
<1>5. tbl' = ApplyDelta(tbl, Delta(tbl, new))
  BY <1>2 DEF Apply
<1> QED  BY <1>1, <1>2, <1>3, <1>4, <1>5, DeltaApplied

LEMMA InvKept ==
  ASSUME Inv, [Next]_vars
  PROVE  Inv'
<1>1. ASSUME NEW m \in Ids, Change(m)  PROVE Inv'
  <2>1. /\ available' \in SUBSET Ids /\ built' \in Tables
        /\ built' \in Tidy(available', MaxReplicas(available'))
        /\ tbl' \in Tables
        /\ \A p \in Parts, r \in Cells : tbl'[p][r].mid = built'[p][r].mid
    BY <1>1, ChangeGives
  <2>2. tbl' \in Tidy(available', MaxReplicas(available'))
    BY <2>1, TidyByMembers
  <2> QED  BY <2>1, <2>2 DEF Inv
<1>2. ASSUME NEW p \in Parts, NEW m \in Ids, Migrate(p, m)  PROVE Inv'
  <2>1. tbl \in Tables
    BY TidyIsTable DEF Inv
  <2>2. tbl' \in Tidy(available, MaxReplicas(available))
    BY <1>2, <2>1, StatusChangedKeeps DEF Migrate, Inv
  <2> QED  BY <1>2, <2>2 DEF Migrate, Inv
<1>3. ASSUME UNCHANGED vars  PROVE Inv'
  BY <1>3 DEF Inv, vars
<1> QED  BY <1>1, <1>2, <1>3 DEF Next

LEMMA InvStarts ==
  ASSUME Init
  PROVE  Inv
<1>1. EmptyCell \in Cell
  BY DEF EmptyCell, Cell
<1>2. EmptyTable \in Tables
  BY <1>1 DEF EmptyTable, Tables, Row
<1>3. \A p \in Parts, r \in Cells : EmptyTable[p][r].mid = NoMember
  BY DEF EmptyTable, EmptyCell
<1>4. ASSUME NEW p \in Parts, NEW k  PROVE EmptyTable[p] \in Spread({}, k)
  BY <1>2, <1>3 DEF Spread, Tables
<1>5. EmptyTable \in Tidy({}, MaxReplicas({}))
  BY <1>2, <1>4 DEF Tidy, Tables
<1> QED  BY <1>2, <1>5 DEF Init, Inv

LEMMA InvHolds == Spec => []Inv
<1>1. Init => Inv
  BY InvStarts
<1>2. Inv /\ [Next]_vars => Inv'
  BY InvKept
<1> QED  BY <1>1, <1>2, PTL DEF Spec

(* Replicas stay apart, on members that are there, through any sequence of  *)
(* joins and departures, also while migrations are still to be made.        *)
THEOREM ReplicasStayApart == Spec => []ReplicasApart
<1>1. Inv => ReplicasApart
  <2> SUFFICES ASSUME Inv, NEW p \in Parts
               PROVE  /\ Held(tbl, p) \subseteq available
                      /\ \A r \in Cells : r > MaxReplicas(available) => tbl[p][r].mid = NoMember
                      /\ \A r, i \in Cells :
                           tbl[p][r].mid = tbl[p][i].mid /\ tbl[p][r].mid # NoMember => r = i
    BY DEF ReplicasApart
  <2>1. tbl[p] \in Spread(available, MaxReplicas(available))
    BY DEF Inv, Tidy
  <2> QED  BY <2>1 DEF Spread, Held
<1> QED  BY <1>1, InvHolds, PTL

-----------------------------------------------------------------------------
(* A join or a departure alone counts as a change.                          *)
LEMMA OnlyChangeCounts ==
  ASSUME Inv, [Next]_vars, changes' # changes
  PROVE  \E m \in Ids : Change(m)
BY DEF Next, Migrate, vars

(* Applying the delta gives the member's table what the balancer built, and *)
(* leaves alone the cells that keep their member.                           *)
THEOREM DeltaGivesTheTable == Spec => DeltaIsFaithful
<1>1. Inv /\ [Next]_vars =>
        [changes' # changes =>
          \A p \in Parts, r \in Cells :
            tbl'[p][r] = IF tbl[p][r].mid = built'[p][r].mid
                         THEN tbl[p][r] ELSE built'[p][r]]_vars
  <2> SUFFICES ASSUME Inv, [Next]_vars, changes' # changes,
                      NEW p \in Parts, NEW r \in Cells
               PROVE  tbl'[p][r] = IF tbl[p][r].mid = built'[p][r].mid
                                   THEN tbl[p][r] ELSE built'[p][r]
    OBVIOUS
  <2>1. PICK m \in Ids : Change(m)
    BY OnlyChangeCounts
  <2> QED  BY <2>1, ChangeGives
<1> QED  BY <1>1, InvHolds, PTL DEF Spec, DeltaIsFaithful

(* A member that is new to a partition is told to migrate it.               *)
THEOREM NewHoldersGetData == Spec => NewHoldersMigrate
<1>1. Inv /\ [Next]_vars =>
        [changes' # changes =>
          \A p \in Parts : \A m \in Held(tbl', p) \ Held(tbl, p) : <<p, m>> \in pending']_vars
  <2> SUFFICES ASSUME Inv, [Next]_vars, changes' # changes,
                      NEW p \in Parts, NEW m \in Held(tbl', p) \ Held(tbl, p)
               PROVE  <<p, m>> \in pending'
    OBVIOUS
  <2> DEFINE delta == Delta(tbl, built')
  <2>1. PICK k \in Ids : Change(k)
    BY OnlyChangeCounts
  <2>2. /\ pending' = (pending \ DelActions(tbl', delta)) \cup NewActions(tbl', delta)
        /\ \A r \in Cells : tbl'[p][r] = IF tbl[p][r].mid = built'[p][r].mid
                                         THEN tbl[p][r] ELSE built'[p][r]
    BY <2>1, ChangeGives DEF Apply
  <2>3. PICK r \in Cells : tbl'[p][r].mid = m /\ m # NoMember
    BY DEF Held
  <2>4. \A i \in Cells : tbl[p][i].mid # m
    BY <2>3 DEF Held
  <2>5. built'[p][r].mid = m /\ tbl[p][r].mid # m
    BY <2>2, <2>3, <2>4
  <2>6. PICK d \in delta : d = Item(tbl, built', p, r) /\ d.part = p
    <3>1. tbl[p][r].mid # built'[p][r].mid
      BY <2>5
    <3>2. {d \in delta : d.part = p /\ d.pos = r} = {Item(tbl, built', p, r)}
      BY <3>1, ItemsOfDelta
    <3> QED  BY <3>2
  <2>7. d.new = m
    BY <2>5, <2>6 DEF Item
  <2>8. \A y \in delta : y.part = p => y.old # m
    <3> SUFFICES ASSUME NEW y \in delta, y.part = p  PROVE y.old # m
      OBVIOUS
    <3>1. PICK q \in Parts, i \in Cells : y = Item(tbl, built', q, i) /\ y.part = q
      BY DeltaItem
    <3>2. y.old = tbl[q][i].mid
      BY <3>1 DEF Item
    <3> QED  BY <2>4, <3>1, <3>2
  <2> HIDE DEF delta
  <2>9. <<p, m>> \in NewActions(tbl', delta)
    BY <2>3, <2>6, <2>7, <2>8 DEF NewActions
  <2> QED  BY <2>2, <2>9
<1> QED  BY <1>1, InvHolds, PTL DEF Spec, NewHoldersMigrate

-----------------------------------------------------------------------------
(* Only a member that holds a replica of a partition is still to migrate it.*)
OnlyHoldersMigrate == \A pm \in pending : pm[2] \in Held(tbl, pm[1])

HolderInv ==
  /\ pending \in SUBSET (Parts \X Ids)
  /\ OnlyHoldersMigrate

LEMMA HeldByMembers ==
  ASSUME NEW t, NEW u, NEW p \in Parts, \A r \in Cells : u[p][r].mid = t[p][r].mid
  PROVE  Held(u, p) = Held(t, p)
BY DEF Held

LEMMA HolderInvKept ==
  ASSUME Inv, HolderInv, [Next]_vars
  PROVE  HolderInv'
<1>1. ASSUME NEW m \in Ids, Change(m)  PROVE HolderInv'
  <2> DEFINE delta == Delta(tbl, built')
  <2>1. /\ pending' = (pending \ DelActions(tbl', delta)) \cup NewActions(tbl', delta)
        /\ built' \in Tables
        /\ \A p \in Parts, r \in Cells : tbl'[p][r].mid = built'[p][r].mid
    BY <1>1, ChangeGives DEF Apply
  <2>2. ASSUME NEW pm \in NewActions(tbl', delta)
        PROVE  pm \in Parts \X Ids /\ pm[2] \in Held(tbl', pm[1])
    <3>1. PICK d \in delta : /\ pm = <<d.part, d.new>> /\ d.new # NoMember
                             /\ \E r \in Cells : tbl'[d.part][r].mid = d.new
      BY <2>2 DEF NewActions
    <3>2. d.part \in Parts
      BY <3>1, DeltaItem
    <3> HIDE DEF delta
    <3>3. PICK r \in Cells : tbl'[d.part][r].mid = d.new
      BY <3>1
    <3>4. built'[d.part][r] \in Cell
      BY <2>1, <3>2 DEF Tables, Row
    <3>5. d.new \in Ids
      BY <2>1, <3>1, <3>2, <3>3, <3>4 DEF Cell
    <3>6. d.new \in Held(tbl', d.part)
      BY <3>1, <3>3 DEF Held
    <3> QED  BY <3>1, <3>2, <3>5, <3>6
  <2>3. ASSUME NEW pm \in pending \ DelActions(tbl', delta)
        PROVE  pm \in Parts \X Ids /\ pm[2] \in Held(tbl', pm[1])
    <3>1. pm \in Parts \X Ids /\ pm[2] \in Held(tbl, pm[1])
      BY <2>3 DEF HolderInv, OnlyHoldersMigrate
    <3>2. PICK p \in Parts, k \in Ids : pm = <<p, k>>
      BY <3>1
    <3>3. PICK r \in Cells : tbl[p][r].mid = k /\ k # NoMember
      BY <3>1, <3>2 DEF Held
    <3>4. CASE built'[p][r].mid = k
      BY <2>1, <3>1, <3>2, <3>3, <3>4 DEF Held
    <3>5. CASE built'[p][r].mid # k
      <4>1. PICK d \in delta : d = Item(tbl, built', p, r) /\ d.part = p
        <5>1. tbl[p][r].mid # built'[p][r].mid
          BY <3>3, <3>5
        <5>2. {d \in delta : d.part = p /\ d.pos = r} = {Item(tbl, built', p, r)}
          BY <5>1, ItemsOfDelta
        <5> QED  BY <5>2
      <4>2. d.old = k
        BY <3>3, <4>1 DEF Item
      <4> HIDE DEF delta
      <4>3. ~(\A i \in Cells : tbl'[d.part][i].mid # d.old)
        BY <2>3, <3>2, <3>3, <4>1, <4>2 DEF DelActions
      <4>4. PICK i \in Cells : tbl'[p][i].mid = k
        BY <4>1, <4>2, <4>3
      <4> QED  BY <3>1, <3>2, <3>3, <4>4 DEF Held
    <3> QED  BY <3>4, <3>5
  <2> HIDE DEF delta
  <2> QED  BY <2>1, <2>2, <2>3 DEF HolderInv, OnlyHoldersMigrate
<1>2. ASSUME NEW p \in Parts, NEW m \in Ids, Migrate(p, m)  PROVE HolderInv'
  <2>1. tbl \in Tables
    BY TidyIsTable DEF Inv
  <2>2. \A q \in Parts, r \in Cells : tbl'[q][r].mid = tbl[q][r].mid
    BY <1>2, <2>1, StatusChangedKeeps DEF Migrate
  <2>3. \A pm \in pending' : pm \in pending
    BY <1>2 DEF Migrate
  <2>4. \A q \in Parts : Held(tbl', q) = Held(tbl, q)
    BY <2>2, HeldByMembers
  <2> QED  BY <2>3, <2>4 DEF HolderInv, OnlyHoldersMigrate
<1>3. ASSUME UNCHANGED vars  PROVE HolderInv'
  BY <1>3 DEF HolderInv, OnlyHoldersMigrate, vars, Held
<1> QED  BY <1>1, <1>2, <1>3 DEF Next

(* The lists of migrations never ask for a partition of a member that no    *)
(* longer holds it: what a later delta takes away it also calls off.        *)
THEOREM OnlyHoldersAreAsked == Spec => []OnlyHoldersMigrate
<1>1. Init => HolderInv
  BY DEF Init, HolderInv, OnlyHoldersMigrate
<1>2. Inv /\ HolderInv /\ [Next]_vars => HolderInv'
  BY HolderInvKept
<1>3. HolderInv => OnlyHoldersMigrate
  BY DEF HolderInv
<1> QED  BY <1>1, <1>2, <1>3, InvHolds, PTL DEF Spec

-----------------------------------------------------------------------------
(* With more members than replicas a join takes one replica of a partition  *)
(* at most, and a departure none of those that stay (the loops of           *)
(* balanceJoin and balanceLeave, and adjust): each is there after it, with  *)
(* its state, if not in its place.                                          *)
ReplicasKept ==
  [][changes' # changes /\ Cardinality(available') > Replicas =>
       \A p \in Parts : \E x \in Cells : \A r \in Cells :
         /\ tbl[p][r].mid \in available' \cap available
         /\ r = x => ~(available \subseteq available')
         => \E i \in Cells : tbl'[p][i] = tbl[p][r]]_vars

LEMMA ChangeKeepsReplicas ==
  ASSUME Inv, NEW m \in Ids, Change(m), Cardinality(available') > Replicas, NEW p \in Parts
  PROVE  \E x \in Cells : \A r \in Cells :
           /\ tbl[p][r].mid \in available' \cap available
           /\ r = x => ~(available \subseteq available')
           => \E i \in Cells : tbl'[p][i] = tbl[p][r]
<1> DEFINE after == IF m \in available THEN available \ {m} ELSE available \cup {m}
<1>1. available' = after /\ after \in SUBSET Ids /\ NoMember \notin Ids
  BY BalancerAssumption DEF Change, Inv, Ids, NoMember
<1>2. PICK new \in Balance(tbl, after, m) : built' = new
  BY DEF Change
<1>3. tbl \in Tables
  BY TidyIsTable DEF Inv
<1>4. ASSUME NEW r \in Cells, tbl[p][r].mid # NoMember,
             NEW i \in Cells, built'[p][i] = tbl[p][r]
      PROVE  \E j \in Cells : tbl'[p][j] = tbl[p][r]
  <2>1. tbl'[p][i] = IF tbl[p][i].mid = built'[p][i].mid THEN tbl[p][i] ELSE built'[p][i]
    BY ChangeGives
  <2>2. CASE tbl[p][i].mid = built'[p][i].mid
    <3>1. i = r
      BY <1>4, <2>2 DEF Inv, Tidy, Spread
    <3> QED  BY <2>1, <2>2, <3>1
  <2>3. CASE tbl[p][i].mid # built'[p][i].mid
    BY <1>4, <2>1, <2>3
  <2> QED  BY <2>2, <2>3
<1>5. CASE m \in available
  <2>1. m \notin after /\ ~(available \subseteq after) /\ 1 \in Cells
    BY <1>5, BalancerAssumption DEF Cells
  <2> HIDE DEF after
  <2>2. \A r \in Cells : tbl[p][r].mid \notin {m, NoMember} => \E i \in Cells : new[p][i] = tbl[p][r]
    BY <1>1, <1>2, <1>3, <2>1, BalanceLoses
  <2> QED  BY <1>1, <1>2, <1>4, <2>1, <2>2
<1>6. CASE m \notin available
  <2>1. m \in after /\ available \subseteq after
    BY <1>6
  <2> HIDE DEF after
  <2>2. PICK x \in Cells : \A r \in Cells \ {x} :
          tbl[p][r].mid # NoMember => \E i \in Cells : new[p][i] = tbl[p][r]
    BY <1>1, <1>2, <1>3, <2>1, BalanceLoses
  <2> QED  BY <1>1, <1>2, <1>4, <2>1, <2>2
<1> QED  BY <1>5, <1>6

(* A balance among more members than replicas keeps all replicas of a       *)
(* partition but one on the members that stay, for any table it starts from.*)
THEOREM ReplicasAreKept == Spec => ReplicasKept
<1>1. Inv /\ [Next]_vars =>
        [changes' # changes /\ Cardinality(available') > Replicas =>
           \A p \in Parts : \E x \in Cells : \A r \in Cells :
             /\ tbl[p][r].mid \in available' \cap available
             /\ r = x => ~(available \subseteq available')
             => \E i \in Cells : tbl'[p][i] = tbl[p][r]]_vars
  <2> SUFFICES ASSUME Inv, [Next]_vars, changes' # changes,
                      Cardinality(available') > Replicas, NEW p \in Parts
               PROVE  \E x \in Cells : \A r \in Cells :
                        /\ tbl[p][r].mid \in available' \cap available
                        /\ r = x => ~(available \subseteq available')
                        => \E i \in Cells : tbl'[p][i] = tbl[p][r]
    OBVIOUS
  <2>1. PICK m \in Ids : Change(m)
    BY OnlyChangeCounts
  <2> QED  BY <2>1, ChangeKeepsReplicas
<1> QED  BY <1>1, InvHolds, PTL DEF Spec, ReplicasKept

LEMMA AnotherReplica ==
  ASSUME Inv, FullyReplicated, available # {}, MaxReplicas(available) > 1,
         NEW p \in Parts, NEW x \in Cells
  PROVE  \E r \in Cells \ {x} : tbl[p][r].mid # NoMember
<1> DEFINE used == {r \in Cells : tbl[p][r].mid # NoMember}
<1>1. Cardinality(used) = MaxReplicas(available)
  BY DEF FullyReplicated
<1>2. SUFFICES ASSUME used \subseteq {x}  PROVE FALSE
  OBVIOUS
<1> HIDE DEF used
<1>3. IsFiniteSet({x}) /\ Cardinality({x}) = 1
  BY FS_Singleton
<1>4. Cardinality(used) <= 1
  BY <1>2, <1>3, FS_Subset
<1>5. MaxReplicas(available) \in Nat
  BY MaxReplicasBound, BalancerAssumption DEF Inv
<1> QED  BY <1>1, <1>4, <1>5

(* As long as no place is left empty, every partition that was all ready    *)
(* keeps a ready copy when there are more members than replicas.            *)
THEOREM ReadyCopyStays == Spec /\ []FullyReplicated => ReadyCopyKept
<1>1. Inv /\ FullyReplicated /\ [Next]_vars =>
        [changes' # changes /\ Replicas > 1 /\ Cardinality(available') > Replicas =>
           \A p \in Parts :
             /\ Held(tbl, p) = Ready(tbl, p)
             /\ Held(tbl, p) \cap available' # {}
             => Ready(tbl', p) \cap available' # {}]_vars
  <2> SUFFICES ASSUME Inv, FullyReplicated, [Next]_vars, changes' # changes, Replicas > 1,
                      Cardinality(available') > Replicas, NEW p \in Parts,
                      Held(tbl, p) = Ready(tbl, p), Held(tbl, p) \cap available' # {}
               PROVE  Ready(tbl', p) \cap available' # {}
    OBVIOUS
  <2>1. PICK m \in Ids : Change(m)
    BY OnlyChangeCounts
  <2>2. PICK x \in Cells : \A r \in Cells :
          /\ tbl[p][r].mid \in available' \cap available
          /\ r = x => ~(available \subseteq available')
          => \E i \in Cells : tbl'[p][i] = tbl[p][r]
    BY <2>1, ChangeKeepsReplicas
  <2>3. PICK r \in Cells : /\ tbl[p][r].mid \in available' \cap available
                           /\ tbl[p][r].mid # NoMember
                           /\ r = x => ~(available \subseteq available')
    <3>1. tbl[p] \in Spread(available, MaxReplicas(available))
      BY DEF Inv, Tidy
    <3>2. \A r \in Cells : tbl[p][r].mid # NoMember => tbl[p][r].mid \in available
      BY <3>1 DEF Spread
    <3>3. CASE available \subseteq available'
      <4>1. available' = available \cup {m} /\ m \notin available
        BY <2>1, <3>3 DEF Change
      <4>2. MaxReplicas(available) = Replicas /\ available # {}
        <5>1. IsFiniteSet(available) /\ Cardinality(available) \in Nat
          BY MaxReplicasBound DEF Inv
        <5>2. Cardinality(available') = Cardinality(available) + 1
          BY <4>1, <5>1, FS_AddElement
        <5>3. Cardinality(available) >= Replicas
          BY <5>1, <5>2, BalancerAssumption
        <5>4. Cardinality({}) = 0
          BY FS_EmptySet
        <5> QED  BY <5>3, <5>4, MaxReplicasBound, BalancerAssumption DEF Inv
      <4>3. PICK r \in Cells \ {x} : tbl[p][r].mid # NoMember
        BY <4>2, AnotherReplica
      <4> QED  BY <3>2, <3>3, <4>3
    <3>4. CASE ~(available \subseteq available')
      <4>1. PICK k \in available' : k \in Held(tbl, p)
        OBVIOUS
      <4>2. PICK r \in Cells : tbl[p][r].mid = k /\ k # NoMember
        BY <4>1 DEF Held
      <4> QED  BY <3>2, <3>4, <4>1, <4>2
    <3> QED  BY <3>3, <3>4
  <2>4. tbl[p][r].state = "READY"
    <3>1. tbl[p][r].mid \in Ready(tbl, p)
      BY <2>3 DEF Held
    <3>2. PICK i \in Cells : tbl[p][i].state = "READY" /\ tbl[p][i].mid = tbl[p][r].mid
      BY <3>1 DEF Ready
    <3>3. i = r
      BY <2>3, <3>2 DEF Inv, Tidy, Spread
    <3> QED  BY <3>2, <3>3
  <2>5. PICK i \in Cells : tbl'[p][i] = tbl[p][r]
    BY <2>2, <2>3
  <2>6. tbl[p][r].mid \in Ready(tbl', p)
    BY <2>3, <2>4, <2>5 DEF Ready
  <2> QED  BY <2>3, <2>6
<1> QED  BY <1>1, InvHolds, PTL DEF Spec, ReadyCopyKept
=============================================================================
