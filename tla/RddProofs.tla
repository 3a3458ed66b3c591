----------------------------- MODULE RddProofs -----------------------------
(***************************************************************************)
(* No action is answered twice, or unasked, and the answer of a partition   *)
(* always finds the action it is for (Rdd!AnsweredOnce).  The messages      *)
(* about an action carry it from the client to the actor of the RDD, from   *)
(* there to each partition, and back: there is at most one of them for the  *)
(* action before it is taken, and one for each partition afterwards,        *)
(* wherever in the network or in a queue it is.                             *)
(***************************************************************************)
EXTENDS Rdd, DataLemmas

(* The messages about an action, and what each is about: the action and the *)
(* actor it goes to, or, back from a partition, comes from.                 *)
ActionOps == {"RDD_ACTION_REQUEST", "RDD_ACTION_RESPONSE"}
Acts(x) == x.op \in ActionOps
Token(x) == <<x.what[1], IF x.op = "RDD_ACTION_REQUEST" THEN x.to ELSE x.from>>
WholeToken(a) == <<a, <<Target[a]>>>>
PartToken(a, p) == <<a, <<Target[a], p>>>>

WholeRequest(a) == With(<<Target[a]>>, "RDD_ACTION_REQUEST", << >>, <<a>>)
PartRequest(a, p) == With(<<Target[a], p>>, "RDD_ACTION_REQUEST", <<Target[a]>>, <<a>>)
IsPartResponse(x, a, p) ==
  /\ x.op = "RDD_ACTION_RESPONSE"
  /\ x.to = <<Target[a]>>
  /\ x.from = <<Target[a], p>>
  /\ x.what = <<a>>

Genuine(x) ==
  Acts(x) => \E a \in Actions : \/ x = WholeRequest(a)
                                \/ \E p \in Partitions : x = PartRequest(a, p) \/ IsPartResponse(x, a, p)

(* Queues Q and a network N, every message in its place.                    *)
Delivered(Q, N) ==
  /\ \A b \in Actors : IsSeq(Q[b]) /\ \A i \in 1..Len(Q[b]) : Q[b][i].to = b /\ Genuine(Q[b][i])
  /\ \A x \in DOMAIN N : Genuine(x)

(* No two messages about the same.                                          *)
Single(Q, N) ==
  /\ \A x \in DOMAIN N : Acts(x) => N[x] = 1
  /\ \A x, y \in DOMAIN N : Acts(x) /\ Acts(y) /\ Token(x) = Token(y) => x = y
  /\ \A x \in DOMAIN N, b \in Actors : \A i \in 1..Len(Q[b]) :
        Acts(x) /\ Acts(Q[b][i]) => Token(x) # Token(Q[b][i])
  /\ \A b, c \in Actors : \A i \in 1..Len(Q[b]), j \in 1..Len(Q[c]) :
        Acts(Q[b][i]) /\ Acts(Q[c][j]) /\ Token(Q[b][i]) = Token(Q[c][j]) => b = c /\ i = j

Holds(Q, N, t) ==
  \/ \E x \in DOMAIN N : Acts(x) /\ Token(x) = t
  \/ \E b \in Actors : \E i \in 1..Len(Q[b]) : Acts(Q[b][i]) /\ Token(Q[b][i]) = t

(* An action on its way to the RDD, at its partitions, and waiting.         *)
Coming(a) ==
  Holds(queue, net, WholeToken(a)) =>
    a \in asked /\ a \notin DOMAIN rddActions /\ Len(answers[a]) = 0
Waits(a) == \E r \in Rdds : a \in ToSet(actionQueue[r])
Counting(a) ==
  \A p \in Partitions : Holds(queue, net, PartToken(a, p)) =>
    /\ a \in asked /\ a \in DOMAIN rddActions /\ Len(answers[a]) = 0
    /\ p \notin rddActions[a].done
    /\ ~Waits(a)
Waiting ==
  \A r \in Rdds : \A a \in ToSet(actionQueue[r]) :
    /\ a \in asked /\ a \in DOMAIN rddActions /\ Len(answers[a]) = 0
    /\ r = Target[a]
    /\ rddActions[a].done = {}

Shapes ==
  /\ DOMAIN queue = Actors
  /\ DOMAIN answers = Actions /\ \A a \in Actions : IsSeq(answers[a])
  /\ DOMAIN actionQueue = Rdds /\ \A r \in Rdds : IsSeq(actionQueue[r])
  /\ asked \subseteq Actions
  /\ DOMAIN rddActions \subseteq asked
Finite ==
  /\ DOMAIN downs = Members
  /\ \A m \in Members : DOMAIN downs[m] = Rdds /\ \A r \in Rdds : IsSeq(downs[m][r])
  /\ DOMAIN stored = Rdds \X Partitions
  /\ \A r \in Rdds, p \in Partitions : IsFiniteSet(DOMAIN stored[<<r, p>>])

AnsweringInv ==
  /\ Shapes
  /\ Finite
  /\ Delivered(queue, net)
  /\ Single(queue, net)
  /\ \A a \in Actions : /\ Coming(a) /\ Counting(a)
                        /\ Len(answers[a]) <= (IF a \in asked THEN 1 ELSE 0)
  /\ Waiting

-----------------------------------------------------------------------------
(* Tuples of one element are no pairs, and equal by their elements.         *)
LEMMA Tuples ==
  /\ \A u, v, w : <<u>> # <<v, w>>
  /\ \A u, v : <<u>> = <<v>> => u = v
  /\ \A u : <<u>>[1] = u
  /\ \A u, v, w, z : <<u, v>> = <<w, z>> => u = w /\ v = z
<1>1. \A u, v, w : <<u>> # <<v, w>>
  OBVIOUS
<1>2. \A u, v : <<u>> = <<v>> => u = v
  OBVIOUS
<1>3. \A u : <<u>>[1] = u
  OBVIOUS
<1>4. \A u, v, w, z : <<u, v>> = <<w, z>> => u = w /\ v = z
  OBVIOUS
<1> QED  BY <1>1, <1>2, <1>3, <1>4

LEMMA MsgFields ==
  /\ \A to, op, from : LET m == Msg(to, op, from)
                       IN m.to = to /\ m.op = op /\ m.from = from /\ m.what = << >>
  /\ \A to, op, from, what : LET m == With(to, op, from, what)
                             IN m.to = to /\ m.op = op /\ m.from = from /\ m.what = what
BY DEF Msg, With

LEMMA WholeFields ==
  ASSUME NEW a \in Actions
  PROVE  /\ Acts(WholeRequest(a)) /\ Genuine(WholeRequest(a))
         /\ WholeRequest(a).to = <<Target[a]>> /\ WholeRequest(a).op = "RDD_ACTION_REQUEST"
         /\ WholeRequest(a).what = <<a>>
         /\ Token(WholeRequest(a)) = WholeToken(a)
<1>1. /\ WholeRequest(a).to = <<Target[a]>> /\ WholeRequest(a).op = "RDD_ACTION_REQUEST"
      /\ WholeRequest(a).what = <<a>>
  BY DEF WholeRequest, With, Msg
<1>2. WholeRequest(a).what[1] = a
  BY <1>1
<1>3. Token(WholeRequest(a)) = WholeToken(a)
  BY <1>1, <1>2 DEF Token, WholeToken
<1> QED  BY <1>1, <1>3 DEF Acts, ActionOps, Genuine

LEMMA PartFields ==
  ASSUME NEW a \in Actions, NEW p \in Partitions
  PROVE  /\ Acts(PartRequest(a, p)) /\ Genuine(PartRequest(a, p))
         /\ PartRequest(a, p).to = <<Target[a], p>> /\ PartRequest(a, p).op = "RDD_ACTION_REQUEST"
         /\ PartRequest(a, p).what = <<a>>
         /\ Token(PartRequest(a, p)) = PartToken(a, p)
<1>1. /\ PartRequest(a, p).to = <<Target[a], p>> /\ PartRequest(a, p).op = "RDD_ACTION_REQUEST"
      /\ PartRequest(a, p).what = <<a>>
  BY DEF PartRequest, With, Msg
<1>2. PartRequest(a, p).what[1] = a
  BY <1>1
<1>3. Token(PartRequest(a, p)) = PartToken(a, p)
  BY <1>1, <1>2 DEF Token, PartToken
<1> QED  BY <1>1, <1>3 DEF Acts, ActionOps, Genuine

LEMMA ResponseFields ==
  ASSUME NEW a \in Actions, NEW p \in Partitions, NEW x, IsPartResponse(x, a, p)
  PROVE  /\ Acts(x) /\ Genuine(x)
         /\ Token(x) = PartToken(a, p)
<1>1. x.what[1] = a /\ x.op # "RDD_ACTION_REQUEST"
  BY DEF IsPartResponse
<1>2. Token(x) = PartToken(a, p)
  BY <1>1 DEF Token, PartToken, IsPartResponse
<1> QED  BY <1>2 DEF Acts, ActionOps, Genuine, IsPartResponse

-----------------------------------------------------------------------------
(* A message taken from a queue is no longer anywhere.                      *)
Popped(Q, b, R) ==
  /\ b \in Actors /\ Q[b] # << >>
  /\ DOMAIN R = Actors
  /\ R[b] = Tail(Q[b])
  /\ \A c \in Actors \ {b} : R[c] = Q[c]

LEMMA HeadTaken ==
  ASSUME NEW Q, NEW N, Delivered(Q, N), Single(Q, N), NEW b, NEW R, Popped(Q, b, R),
         NEW h, h = Head(Q[b])
  PROVE  /\ Delivered(R, N) /\ Single(R, N)
         /\ \A t : Holds(R, N, t) => Holds(Q, N, t)
         /\ h.to = b /\ Genuine(h)
         /\ Acts(h) => Holds(Q, N, Token(h)) /\ ~Holds(R, N, Token(h))
<1> DEFINE back(c) == IF c = b THEN 1 ELSE 0
<1>0. b \in Actors
  BY DEF Popped
<1>1. /\ \A c \in Actors : IsSeq(Q[c])
      /\ \A c \in Actors : \A i \in 1..Len(Q[c]) : Q[c][i].to = c /\ Genuine(Q[c][i])
      /\ \A x \in DOMAIN N : Genuine(x)
  BY DEF Delivered
<1>2. DOMAIN R = Actors /\ R[b] = Tail(Q[b]) /\ \A c \in Actors \ {b} : R[c] = Q[c]
  BY DEF Popped
<1>3. /\ Len(Q[b]) \in Nat \ {0} /\ h = Q[b][1]
      /\ IsSeq(R[b]) /\ Len(R[b]) = Len(Q[b]) - 1
      /\ \A i \in 1..(Len(Q[b]) - 1) : R[b][i] = Q[b][i + 1]
  BY <1>1, <1>2, TailFacts DEF Popped
<1>4. \A c \in Actors : Len(Q[c]) \in Nat
  BY <1>1, SeqFacts
<1>5. \A c \in Actors : IsSeq(R[c])
  BY <1>0, <1>1, <1>2, <1>3
<1>6. \A c \in Actors : \A i \in 1..Len(R[c]) :
        i + back(c) \in 1..Len(Q[c]) /\ R[c][i] = Q[c][i + back(c)]
  <2> TAKE c \in Actors
  <2> TAKE i \in 1..Len(R[c])
  <2>1. CASE c = b
    BY <1>3, <2>1
  <2>2. CASE c # b
    BY <1>2, <1>4, <2>2
  <2> QED  BY <2>1, <2>2
<1>7. \A c \in Actors : \A i \in 1..Len(R[c]) : i \in Nat
  BY <1>5, SeqFacts
<1>8. \A c \in Actors : back(c) \in Nat
  OBVIOUS
<1>9. 1 \in 1..Len(Q[b]) /\ \A i \in 1..Len(R[b]) : i + back(b) # 1
  BY <1>3, <1>7
<1> HIDE DEF back
<1>10. Delivered(R, N)
  BY <1>1, <1>5, <1>6 DEF Delivered
<1>11. Single(R, N)
  <2>1. \A x \in DOMAIN N, c \in Actors : \A i \in 1..Len(R[c]) :
          Acts(x) /\ Acts(R[c][i]) => Token(x) # Token(R[c][i])
    BY <1>6 DEF Single
  <2>2. ASSUME NEW c \in Actors, NEW d \in Actors, NEW i \in 1..Len(R[c]), NEW j \in 1..Len(R[d]),
               Acts(R[c][i]), Acts(R[d][j]), Token(R[c][i]) = Token(R[d][j])
        PROVE  c = d /\ i = j
    <3>1. /\ i + back(c) \in 1..Len(Q[c]) /\ R[c][i] = Q[c][i + back(c)]
          /\ j + back(d) \in 1..Len(Q[d]) /\ R[d][j] = Q[d][j + back(d)]
      BY <1>6
    <3>2. c = d /\ i + back(c) = j + back(d)
      BY <2>2, <3>1 DEF Single
    <3> QED  BY <1>7, <1>8, <3>2
  <2>3. /\ \A x \in DOMAIN N : Acts(x) => N[x] = 1
        /\ \A x, y \in DOMAIN N : Acts(x) /\ Acts(y) /\ Token(x) = Token(y) => x = y
    BY DEF Single
  <2>4. \A c, d \in Actors : \A i \in 1..Len(R[c]), j \in 1..Len(R[d]) :
          Acts(R[c][i]) /\ Acts(R[d][j]) /\ Token(R[c][i]) = Token(R[d][j]) => c = d /\ i = j
    BY <2>2
  <2> QED  BY <2>1, <2>3, <2>4, Zenon DEF Single
<1>12. \A t : Holds(R, N, t) => Holds(Q, N, t)
  BY <1>6 DEF Holds
<1>13. h.to = b /\ Genuine(h)
  BY <1>0, <1>1, <1>3, <1>9
<1>14. ASSUME Acts(h)
       PROVE  Holds(Q, N, Token(h)) /\ ~Holds(R, N, Token(h))
  <2>1. Holds(Q, N, Token(h))
    BY <1>0, <1>3, <1>9, <1>14 DEF Holds
  <2>2. ASSUME NEW x \in DOMAIN N, Acts(x), Token(x) = Token(h)  PROVE FALSE
    BY <1>0, <1>3, <1>9, <1>14, <2>2 DEF Single
  <2>3. ASSUME NEW c \in Actors, NEW i \in 1..Len(R[c]), Acts(R[c][i]),
               Token(R[c][i]) = Token(h)
        PROVE  FALSE
    <3>1. i + back(c) \in 1..Len(Q[c]) /\ R[c][i] = Q[c][i + back(c)]
      BY <1>6
    <3>2. c = b /\ i + back(c) = 1
      BY <1>0, <1>3, <1>9, <1>14, <2>3, <3>1 DEF Single
    <3> QED  BY <1>9, <3>2
  <2> QED  BY <2>1, <2>2, <2>3 DEF Holds
<1> QED  BY <1>2, <1>10, <1>11, <1>12, <1>13, <1>14

(* ... or from the network.                                                 *)
LEMMA NetTaken ==
  ASSUME NEW Q, NEW N, Delivered(Q, N), Single(Q, N), NEW x \in DOMAIN N,
         NEW M, M = N (-) SetToBag({x})
  PROVE  /\ Delivered(Q, M) /\ Single(Q, M)
         /\ \A t : Holds(Q, M, t) => Holds(Q, N, t)
         /\ Genuine(x)
         /\ Acts(x) => Holds(Q, N, Token(x)) /\ ~Holds(Q, M, Token(x))
<1>1. /\ DOMAIN M \subseteq DOMAIN N
      /\ N[x] = 1 => x \notin DOMAIN M
      /\ \A e \in DOMAIN M \ {x} : M[e] = N[e]
  BY OneTaken
<1>2. Delivered(Q, M) /\ Genuine(x)
  BY <1>1 DEF Delivered
<1>3. Acts(x) => x \notin DOMAIN M
  BY <1>1 DEF Single
<1>4. ASSUME NEW y \in DOMAIN M, Acts(y)  PROVE M[y] = 1
  BY <1>1, <1>3, <1>4 DEF Single
<1>5. /\ \A y, z \in DOMAIN M : Acts(y) /\ Acts(z) /\ Token(y) = Token(z) => y = z
      /\ \A y \in DOMAIN M, b \in Actors : \A i \in 1..Len(Q[b]) :
           Acts(y) /\ Acts(Q[b][i]) => Token(y) # Token(Q[b][i])
      /\ \A b, c \in Actors : \A i \in 1..Len(Q[b]), j \in 1..Len(Q[c]) :
           Acts(Q[b][i]) /\ Acts(Q[c][j]) /\ Token(Q[b][i]) = Token(Q[c][j]) => b = c /\ i = j
  BY <1>1 DEF Single
<1>6. Single(Q, M)
  BY <1>4, <1>5 DEF Single
<1>7. \A t : Holds(Q, M, t) => Holds(Q, N, t)
  BY <1>1 DEF Holds
<1>8. ASSUME Acts(x)  PROVE Holds(Q, N, Token(x)) /\ ~Holds(Q, M, Token(x))
  <2>1. Holds(Q, N, Token(x))
    BY <1>8 DEF Holds
  <2>2. ASSUME NEW y \in DOMAIN M, Acts(y), Token(y) = Token(x)  PROVE FALSE
    BY <1>1, <1>3, <1>8, <2>2 DEF Single
  <2>3. ASSUME NEW c \in Actors, NEW i \in 1..Len(Q[c]), Acts(Q[c][i]), Token(Q[c][i]) = Token(x)
        PROVE  FALSE
    BY <1>8, <2>3 DEF Single
  <2> QED  BY <2>1, <2>2, <2>3 DEF Holds
<1> QED  BY <1>2, <1>6, <1>7, <1>8

(* Messages sent and posted, none of them about what another is about.      *)
Fresh(Q, N, sends, posts) ==
  /\ \A x \in sends \cup posts : Genuine(x)
  /\ \A x \in sends \cup posts : Acts(x) => ~Holds(Q, N, Token(x))
  /\ \A x, y \in sends \cup posts : Acts(x) /\ Acts(y) /\ Token(x) = Token(y) => x = y
  /\ \A x \in sends \cap posts : ~Acts(x)
Brings(sends, posts, t) == \E x \in sends \cup posts : Acts(x) /\ Token(x) = t

LEMMA Left ==
  ASSUME NEW m, NEW Q, NEW N, NEW sends, NEW posts, IsFiniteSet(sends),
         Delivered(Q, N), Single(Q, N), Fresh(Q, N, sends, posts),
         Leaves(m, Q, N, sends, posts)
  PROVE  /\ Delivered(queue', net') /\ Single(queue', net') /\ DOMAIN queue' = Actors
         /\ \A t : Holds(queue', net', t) => Holds(Q, N, t) \/ Brings(sends, posts, t)
<1> DEFINE here(c) == {x \in sends : x.to = c /\ At(c) = m}
           s == [c \in Actors |-> SetToSeq(here(c))]
           out == posts \cup {x \in sends : At(x.to) # m}
<1>1. PICK R, M : R = queue' /\ M = net'
  OBVIOUS
<1>2. R = [c \in Actors |-> Q[c] \o s[c]] /\ M = N (+) SetToBag(out)
  BY <1>1 DEF Leaves
<1>3. \A c \in Actors : IsFiniteSet(here(c))
  BY FS_Subset
<1>4. \A c \in Actors :
        /\ IsSeq(s[c])
        /\ \A i \in 1..Len(s[c]) : s[c][i] \in here(c)
        /\ \A i, j \in 1..Len(s[c]) : s[c][i] = s[c][j] => i = j
  BY <1>3, SeqOfSet
<1>5. \A c \in Actors : IsSeq(Q[c]) /\ Len(Q[c]) \in Nat /\ Len(s[c]) \in Nat
  BY <1>4, SeqFacts DEF Delivered
<1>6. \A c \in Actors :
        /\ IsSeq(R[c]) /\ Len(R[c]) = Len(Q[c]) + Len(s[c])
        /\ \A i \in 1..Len(Q[c]) : R[c][i] = Q[c][i]
        /\ \A i \in 1..Len(s[c]) : R[c][Len(Q[c]) + i] = s[c][i]
  BY <1>2, <1>4, <1>5, ConcatFacts
<1>7. \A c \in Actors : \A x \in here(c) : x \in sends /\ x.to = c /\ At(c) = m
  OBVIOUS
<1>8. \A x \in out : x \in posts \/ (x \in sends /\ At(x.to) # m)
  OBVIOUS
<1>9. /\ DOMAIN M = DOMAIN N \cup out
      /\ \A e \in out \ DOMAIN N : M[e] = 1
      /\ \A e \in DOMAIN N \ out : N[e] = 1 => M[e] = 1
  <2> HIDE DEF out
  <2>1. M = N (+) SetToBag(out)
    BY <1>2
  <2> QED  BY <2>1, SetAdded, Zenon
<1> DEFINE old(c, i) == i \in 1..Len(Q[c]) /\ R[c][i] = Q[c][i]
           new(c, i) == i - Len(Q[c]) \in 1..Len(s[c]) /\ R[c][i] = s[c][i - Len(Q[c])]
<1>10. \A c \in Actors : \A i \in 1..Len(R[c]) : i \in Nat /\ (old(c, i) \/ new(c, i))
  <2> SUFFICES ASSUME NEW c \in Actors, NEW i \in 1..Len(R[c])
               PROVE  i \in Nat /\ (old(c, i) \/ new(c, i))
    OBVIOUS
  <2>1. Len(R[c]) = Len(Q[c]) + Len(s[c]) /\ Len(Q[c]) \in Nat /\ Len(s[c]) \in Nat
    BY <1>5, <1>6
  <2>2. i \in Nat
    BY <2>1
  <2>3. CASE i <= Len(Q[c])
    <3>1. i \in 1..Len(Q[c])
      BY <2>1, <2>2, <2>3
    <3> QED  BY <1>6, <2>2, <3>1
  <2>4. CASE i > Len(Q[c])
    <3>1. i - Len(Q[c]) \in 1..Len(s[c]) /\ Len(Q[c]) + (i - Len(Q[c])) = i
      BY <2>1, <2>2, <2>4
    <3> QED  BY <1>6, <2>2, <3>1
  <2> QED  BY <2>1, <2>2, <2>3, <2>4
<1> HIDE DEF s, here, out, old, new
<1>11. \A c \in Actors : \A i : old(c, i) => i \in 1..Len(Q[c]) /\ R[c][i] = Q[c][i]
  BY DEF old
<1>12. \A c \in Actors : \A i : new(c, i) => R[c][i] \in sends /\ R[c][i].to = c /\ At(c) = m
  BY <1>4, <1>7 DEF new
<1>13. \A x \in out : x \in sends \cup posts
  BY <1>8
<1>14. Delivered(R, M)
  <2>1. ASSUME NEW c \in Actors, NEW i \in 1..Len(R[c])
        PROVE  R[c][i].to = c /\ Genuine(R[c][i])
    <3>1. CASE old(c, i)
      BY <1>11, <3>1 DEF Delivered
    <3>2. CASE new(c, i)
      BY <1>12, <3>2 DEF Fresh
    <3> QED  BY <1>10, <3>1, <3>2
  <2>2. \A x \in DOMAIN M : Genuine(x)
    BY <1>9, <1>13 DEF Delivered, Fresh
  <2> QED  BY <1>6, <2>1, <2>2 DEF Delivered
<1>15. ASSUME NEW x \in DOMAIN N, Acts(x), NEW y \in sends \cup posts, Acts(y)
       PROVE  Token(x) # Token(y)
  BY <1>15 DEF Fresh, Holds
<1>16. ASSUME NEW b \in Actors, NEW i \in 1..Len(Q[b]), Acts(Q[b][i]), NEW y \in sends \cup posts, Acts(y)
       PROVE  Token(Q[b][i]) # Token(y)
  BY <1>16 DEF Fresh, Holds
<1>17. \A x \in DOMAIN M : Acts(x) => M[x] = 1
  <2> SUFFICES ASSUME NEW x \in DOMAIN M, Acts(x)  PROVE M[x] = 1
    OBVIOUS
  <2>1. CASE x \in DOMAIN N /\ x \notin out
    BY <1>9, <2>1 DEF Single
  <2>2. CASE x \notin DOMAIN N /\ x \in out
    BY <1>9, <2>2
  <2>3. CASE x \in DOMAIN N /\ x \in out
    BY <1>13, <1>15, <2>3
  <2> QED  BY <1>9, <2>1, <2>2, <2>3
<1>18. ASSUME NEW x \in DOMAIN M, NEW y \in DOMAIN M, Acts(x), Acts(y), Token(x) = Token(y)
       PROVE  x = y
  <2>1. CASE x \in DOMAIN N /\ y \in DOMAIN N
    BY <1>18, <2>1 DEF Single
  <2>2. CASE x \in out /\ y \in out
    BY <1>13, <1>18, <2>2 DEF Fresh
  <2>3. CASE x \in DOMAIN N /\ y \in out
    BY <1>13, <1>15, <1>18, <2>3
  <2>4. CASE x \in out /\ y \in DOMAIN N
    BY <1>13, <1>15, <1>18, <2>4
  <2> QED  BY <1>9, <2>1, <2>2, <2>3, <2>4
<1>19. ASSUME NEW x \in DOMAIN M, NEW c \in Actors, NEW i \in 1..Len(R[c]), Acts(x), Acts(R[c][i]),
              Token(x) = Token(R[c][i])
       PROVE  FALSE
  <2>1. CASE x \in DOMAIN N /\ old(c, i)
    BY <1>11, <1>19, <2>1 DEF Single
  <2>2. CASE x \in DOMAIN N /\ new(c, i)
    BY <1>12, <1>15, <1>19, <2>2
  <2>3. CASE x \in out /\ old(c, i)
    BY <1>11, <1>13, <1>16, <1>19, <2>3
  <2>4. CASE x \in out /\ new(c, i)
    <3>1. /\ x \in sends \cup posts /\ R[c][i] \in sends
          /\ R[c][i].to = c /\ At(c) = m
      BY <1>12, <1>13, <2>4
    <3>2. x = R[c][i]
      BY <1>19, <3>1 DEF Fresh
    <3>3. x \notin posts
      BY <1>19, <3>1, <3>2 DEF Fresh
    <3>4. At(x.to) # m
      BY <1>8, <2>4, <3>3
    <3> QED  BY <3>1, <3>2, <3>4
  <2> QED  BY <1>9, <1>10, <2>1, <2>2, <2>3, <2>4
<1>20. ASSUME NEW b \in Actors, NEW c \in Actors, NEW i \in 1..Len(R[b]), NEW j \in 1..Len(R[c]),
              Acts(R[b][i]), Acts(R[c][j]), Token(R[b][i]) = Token(R[c][j])
       PROVE  b = c /\ i = j
  <2>1. CASE old(b, i) /\ old(c, j)
    BY <1>11, <1>20, <2>1 DEF Single
  <2>2. CASE old(b, i) /\ new(c, j)
    BY <1>11, <1>12, <1>16, <1>20, <2>2
  <2>3. CASE new(b, i) /\ old(c, j)
    BY <1>11, <1>12, <1>16, <1>20, <2>3
  <2>4. CASE new(b, i) /\ new(c, j)
    <3>1. R[b][i] = R[c][j]
      BY <1>12, <1>20, <2>4 DEF Fresh
    <3>2. b = c
      BY <1>12, <2>4, <3>1
    <3>3. i - Len(Q[b]) = j - Len(Q[b])
      BY <1>4, <2>4, <3>1, <3>2 DEF new
    <3> QED  BY <1>5, <1>10, <3>2, <3>3
  <2> QED  BY <1>10, <2>1, <2>2, <2>3, <2>4
<1>21. Single(R, M)
  BY <1>17, <1>18, <1>19, <1>20 DEF Single
<1>22. ASSUME NEW t, Holds(R, M, t)  PROVE Holds(Q, N, t) \/ Brings(sends, posts, t)
  <2>1. ASSUME NEW x \in DOMAIN M, Acts(x), Token(x) = t
        PROVE  Holds(Q, N, t) \/ Brings(sends, posts, t)
    BY <1>9, <1>13, <2>1 DEF Holds, Brings
  <2>2. ASSUME NEW c \in Actors, NEW i \in 1..Len(R[c]), Acts(R[c][i]), Token(R[c][i]) = t
        PROVE  Holds(Q, N, t) \/ Brings(sends, posts, t)
    BY <1>10, <1>11, <1>12, <2>2 DEF Holds, Brings
  <2> QED  BY <1>22, <2>1, <2>2 DEF Holds
<1>23. DOMAIN R = Actors
  BY <1>2
<1> QED  BY <1>1, <1>14, <1>21, <1>22, <1>23

-----------------------------------------------------------------------------
(* Steps that send nothing about an action.                                 *)
Quiet(sends, posts) == \A x \in sends \cup posts : ~Acts(x)

(* What a step does to the messages, when no new ones are about an action.  *)
Fewer == /\ Delivered(queue', net') /\ Single(queue', net') /\ DOMAIN queue' = Actors
         /\ \A t : Holds(queue', net', t) => Holds(queue, net, t)

LEMMA QuietFresh ==
  ASSUME NEW Q, NEW N, NEW sends, NEW posts, Quiet(sends, posts)
  PROVE  Fresh(Q, N, sends, posts) /\ \A t : ~Brings(sends, posts, t)
BY DEF Quiet, Fresh, Brings, Genuine

LEMMA QuietReply ==
  ASSUME AnsweringInv, NEW b \in Actors, queue[b] # << >>,
         NEW sends, NEW posts, IsFiniteSet(sends), Quiet(sends, posts),
         Reply(b, sends, posts)
  PROVE  Fewer
<1>1. PICK R : R = [queue EXCEPT ![b] = Tail(@)]
  OBVIOUS
<1>2. DOMAIN queue = Actors /\ Delivered(queue, net) /\ Single(queue, net)
  BY DEF AnsweringInv, Shapes
<1>3. Delivered(R, net) /\ Single(R, net) /\ \A t : Holds(R, net, t) => Holds(queue, net, t)
  <2>1. Popped(queue, b, R)
    BY <1>1, <1>2 DEF Popped
  <2> QED  BY <1>2, <2>1, HeadTaken
<1>4. Fresh(R, net, sends, posts) /\ \A t : ~Brings(sends, posts, t)
  BY QuietFresh
<1>5. Leaves(At(b), R, net, sends, posts)
  BY <1>1 DEF Reply
<1>6. /\ Delivered(queue', net') /\ Single(queue', net') /\ DOMAIN queue' = Actors
      /\ \A t : Holds(queue', net', t) => Holds(R, net, t) \/ Brings(sends, posts, t)
  BY <1>3, <1>4, <1>5, Left
<1> QED  BY <1>3, <1>4, <1>6 DEF Fewer

LEMMA QuietServe ==
  ASSUME AnsweringInv, NEW x \in DOMAIN net,
         NEW sends, NEW posts, IsFiniteSet(sends), Quiet(sends, posts),
         Serve(x, sends, posts)
  PROVE  Fewer
<1>1. PICK M : M = net (-) SetToBag({x})
  OBVIOUS
<1>2. DOMAIN queue = Actors /\ Delivered(queue, net) /\ Single(queue, net)
  BY DEF AnsweringInv, Shapes
<1>3. Delivered(queue, M) /\ Single(queue, M) /\ \A t : Holds(queue, M, t) => Holds(queue, net, t)
  BY <1>1, <1>2, NetTaken
<1>4. Fresh(queue, M, sends, posts) /\ \A t : ~Brings(sends, posts, t)
  BY QuietFresh
<1>5. Leaves(x.to[1], queue, M, sends, posts)
  BY <1>1 DEF Serve
<1>6. /\ Delivered(queue', net') /\ Single(queue', net') /\ DOMAIN queue' = Actors
      /\ \A t : Holds(queue', net', t) => Holds(queue, M, t) \/ Brings(sends, posts, t)
  BY <1>3, <1>4, <1>5, Left
<1> QED  BY <1>3, <1>4, <1>6 DEF Fewer

LEMMA QuietLeave ==
  ASSUME AnsweringInv, NEW m, NEW sends, NEW posts, IsFiniteSet(sends), Quiet(sends, posts),
         Leaves(m, queue, net, sends, posts)
  PROVE  Fewer
<1>1. Delivered(queue, net) /\ Single(queue, net)
  BY DEF AnsweringInv
<1>2. Fresh(queue, net, sends, posts) /\ \A t : ~Brings(sends, posts, t)
  BY QuietFresh
<1>3. /\ Delivered(queue', net') /\ Single(queue', net') /\ DOMAIN queue' = Actors
      /\ \A t : Holds(queue', net', t) => Holds(queue, net, t) \/ Brings(sends, posts, t)
  BY <1>1, <1>2, Left
<1> QED  BY <1>2, <1>3 DEF Fewer

(* A step that answers and counts nothing.                                  *)
LEMMA Carried ==
  ASSUME AnsweringInv, Fewer, Finite', UNCHANGED <<actionVars, asked>>
  PROVE  AnsweringInv'
<1>1. Shapes'
  BY DEF AnsweringInv, Shapes, Fewer, actionVars
<1>2. \A a \in Actions : Coming(a)' /\ Counting(a)'
  BY DEF AnsweringInv, Coming, Counting, Waits, Fewer, actionVars
<1>3. Waiting' /\ \A a \in Actions : (Len(answers[a]) <= (IF a \in asked THEN 1 ELSE 0))'
  BY DEF AnsweringInv, Waiting, actionVars
<1> QED  BY <1>1, <1>2, <1>3 DEF AnsweringInv, Fewer

LEMMA FiniteStays == ASSUME AnsweringInv, UNCHANGED <<downs, stored>>  PROVE Finite'
BY DEF AnsweringInv, Finite

(* A message that reaches its actor.                                        *)
LEMMA Arrived ==
  ASSUME AnsweringInv, NEW x \in DOMAIN net, x.to \in Actors,
         net' = net (-) SetToBag({x}), queue' = [queue EXCEPT ![x.to] = Append(@, x)]
  PROVE  Fewer
<1>1. PICK M, R, b : M = net' /\ R = queue' /\ b = x.to
  OBVIOUS
<1>2. DOMAIN queue = Actors /\ Delivered(queue, net) /\ Single(queue, net)
  BY DEF AnsweringInv, Shapes
<1>3. /\ Delivered(queue, M) /\ Single(queue, M) /\ \A t : Holds(queue, M, t) => Holds(queue, net, t)
      /\ Genuine(x)
      /\ Acts(x) => Holds(queue, net, Token(x)) /\ ~Holds(queue, M, Token(x))
  BY <1>1, <1>2, NetTaken
<1>4. DOMAIN R = Actors /\ R[b] = Append(queue[b], x) /\ \A c \in Actors \ {b} : R[c] = queue[c]
  BY <1>1, <1>2
<1>5. \A c \in Actors : IsSeq(queue[c]) /\ Len(queue[c]) \in Nat
  BY <1>2, SeqFacts DEF Delivered
<1>6. /\ IsSeq(R[b]) /\ Len(R[b]) = Len(queue[b]) + 1
      /\ \A i \in 1..Len(queue[b]) : R[b][i] = queue[b][i]
      /\ R[b][Len(queue[b]) + 1] = x
  BY <1>1, <1>4, <1>5, AppendFacts
<1> DEFINE old(c, i) == i \in 1..Len(queue[c]) /\ R[c][i] = queue[c][i]
           new(c, i) == c = b /\ i = Len(queue[b]) + 1 /\ R[c][i] = x
<1>7. \A c \in Actors : \A i \in 1..Len(R[c]) : old(c, i) \/ new(c, i)
  <2> SUFFICES ASSUME NEW c \in Actors, NEW i \in 1..Len(R[c])  PROVE old(c, i) \/ new(c, i)
    OBVIOUS
  <2>1. CASE c # b
    BY <1>4, <2>1
  <2>2. CASE c = b
    <3>1. i \in 1..Len(queue[b]) \/ i = Len(queue[b]) + 1
      BY <1>1, <1>5, <1>6, <2>2
    <3> QED  BY <1>6, <2>2, <3>1
  <2> QED  BY <2>1, <2>2
<1>8. \A c \in Actors : \A i : old(c, i) => i \in 1..Len(queue[c]) /\ R[c][i] = queue[c][i]
  OBVIOUS
<1>9. \A c \in Actors : \A i : new(c, i) => R[c][i] = x /\ c = b /\ i = Len(queue[b]) + 1
  OBVIOUS
<1> HIDE DEF old, new
<1>10. Delivered(R, M)
  <2>1. \A c \in Actors : IsSeq(R[c])
    BY <1>4, <1>5, <1>6
  <2>2. ASSUME NEW c \in Actors, NEW i \in 1..Len(R[c])
        PROVE  R[c][i].to = c /\ Genuine(R[c][i])
    <3>1. CASE old(c, i)
      BY <1>3, <1>8, <3>1 DEF Delivered
    <3>2. CASE new(c, i)
      BY <1>1, <1>3, <1>9, <3>2
    <3> QED  BY <1>7, <3>1, <3>2
  <2> QED  BY <1>3, <2>1, <2>2 DEF Delivered
<1>11. ASSUME NEW y \in DOMAIN M, NEW c \in Actors, NEW i \in 1..Len(R[c]), Acts(y), Acts(R[c][i]),
              Token(y) = Token(R[c][i])
       PROVE  FALSE
  <2>1. CASE old(c, i)
    BY <1>3, <1>8, <1>11, <2>1 DEF Single
  <2>2. CASE new(c, i)
    BY <1>3, <1>9, <1>11, <2>2 DEF Holds
  <2> QED  BY <1>7, <2>1, <2>2
<1>12. ASSUME NEW c \in Actors, NEW d \in Actors, NEW i \in 1..Len(R[c]), NEW j \in 1..Len(R[d]),
              Acts(R[c][i]), Acts(R[d][j]), Token(R[c][i]) = Token(R[d][j])
       PROVE  c = d /\ i = j
  <2>1. CASE old(c, i) /\ old(d, j)
    BY <1>3, <1>8, <1>12, <2>1 DEF Single
  <2>2. CASE old(c, i) /\ new(d, j)
    BY <1>3, <1>8, <1>9, <1>12, <2>2 DEF Holds
  <2>3. CASE new(c, i) /\ old(d, j)
    BY <1>3, <1>8, <1>9, <1>12, <2>3 DEF Holds
  <2>4. CASE new(c, i) /\ new(d, j)
    BY <1>9, <2>4
  <2> QED  BY <1>7, <2>1, <2>2, <2>3, <2>4
<1>13. Single(R, M)
  <2>1. /\ \A y \in DOMAIN M : Acts(y) => M[y] = 1
        /\ \A y, z \in DOMAIN M : Acts(y) /\ Acts(z) /\ Token(y) = Token(z) => y = z
    BY <1>3 DEF Single
  <2>2. \A c, d \in Actors : \A i \in 1..Len(R[c]), j \in 1..Len(R[d]) :
          Acts(R[c][i]) /\ Acts(R[d][j]) /\ Token(R[c][i]) = Token(R[d][j]) => c = d /\ i = j
    BY <1>12
  <2>3. \A y \in DOMAIN M, c \in Actors : \A i \in 1..Len(R[c]) :
          Acts(y) /\ Acts(R[c][i]) => Token(y) # Token(R[c][i])
    BY <1>11
  <2> QED  BY <2>1, <2>2, <2>3, Zenon DEF Single
<1>14. ASSUME NEW t, Holds(R, M, t)  PROVE Holds(queue, net, t)
  <2>1. ASSUME NEW y \in DOMAIN M, Acts(y), Token(y) = t  PROVE Holds(queue, net, t)
    BY <1>3, <2>1 DEF Holds
  <2>2. ASSUME NEW c \in Actors, NEW i \in 1..Len(R[c]), Acts(R[c][i]), Token(R[c][i]) = t
        PROVE  Holds(queue, net, t)
    <3>1. CASE old(c, i)
      BY <1>8, <2>2, <3>1 DEF Holds
    <3>2. CASE new(c, i)
      BY <1>3, <1>9, <2>2, <3>2
    <3> QED  BY <1>7, <2>2, <3>1, <3>2
  <2> QED  BY <1>14, <2>1, <2>2 DEF Holds
<1> QED  BY <1>1, <1>4, <1>10, <1>13, <1>14 DEF Fewer

-----------------------------------------------------------------------------
(* What the handlers send is finite, and none of it about an action, unless  *)
(* they answer or pass on one.                                              *)
LEMMA OtherOps ==
  /\ \A to, op, from : op \notin ActionOps => ~Acts(Msg(to, op, from))
  /\ \A to, op, from, what : op \notin ActionOps => ~Acts(With(to, op, from, what))
BY DEF Acts, Msg, With

LEMMA ToSetFinite ==
  ASSUME NEW s, IsSeq(s)
  PROVE  IsFiniteSet(ToSet(s))
<1>1. DOMAIN s = 1..Len(s) /\ Len(s) \in Nat
  BY SeqFacts
<1>2. IsFiniteSet(1..Len(s))
  BY <1>1, FS_Interval
<1>3. IsFiniteSet({s[i] : i \in DOMAIN s})
  BY <1>1, <1>2, FiniteImage
<1> QED  BY <1>3 DEF ToSet

LEMMA NotifiedFinite ==
  ASSUME AnsweringInv, NEW r \in Rdds, NEW op
  PROVE  IsFiniteSet({Msg(<<d>>, op, <<r>>) : d \in DownOf(r)})
<1>1. IsSeq(downs[Home[r]][r])
  BY RddAssumption DEF AnsweringInv, Finite
<1>2. IsFiniteSet(DownOf(r))
  BY <1>1, ToSetFinite DEF DownOf
<1> DEFINE D == DownOf(r)
           f == [d \in D |-> Msg(<<d>>, op, <<r>>)]
<1> HIDE DEF D
<1>3. IsFiniteSet({f[d] : d \in D})
  BY <1>2, FiniteImage DEF D
<1>4. {f[d] : d \in D} = {Msg(<<d>>, op, <<r>>) : d \in D}
  OBVIOUS
<1> QED  BY <1>3, <1>4 DEF D

LEMMA ToPartsFacts ==
  ASSUME NEW r, NEW op, NEW what, op \notin ActionOps
  PROVE  /\ IsFiniteSet(ToParts(r, op, what))
         /\ \A x \in ToParts(r, op, what) : ~Acts(x)
<1> DEFINE P == Partitions
           f == [p \in P |-> With(<<r, p>>, op, <<r>>, what)]
<1>0. IsFiniteSet(P)
  BY RddAssumption
<1> HIDE DEF P
<1>1. IsFiniteSet({f[p] : p \in P})
  BY <1>0, FiniteImage
<1>2. {f[p] : p \in P} = ToParts(r, op, what)
  BY DEF ToParts, P
<1>3. \A x \in ToParts(r, op, what) : ~Acts(x)
  BY OtherOps DEF ToParts
<1> QED  BY <1>1, <1>2, <1>3

LEMMA PushedFacts ==
  ASSUME NEW r, NEW p, NEW row, NEW k
  PROVE  /\ IsFiniteSet(Pushed(r, p, row, k))
         /\ \A x \in Pushed(r, p, row, k) : ~Acts(x)
<1> DEFINE m == Primary[p]
           Linked(w) == \A i \in 1..(Len(w) - 1) : w[i + 1] \in ToSet(downs[m][w[i]])
           Onward(w) == \A i \in 2..(Len(w) - 1) : Streams(m, w[i])
           Push(d, new) == IF d \in plan.spread
                           THEN With(<<d, HashOf[row[1]]>>, "RE_PARTITION", <<d, p>>, <<new, k>>)
                           ELSE With(<<d, p>>, "PARTITION_STORE", <<d, p>>, <<new, k>>)
           W == {v \in Ways : Len(v) > 1 /\ v[1] = r /\ Linked(v) /\ Onward(v) /\ ~Streams(m, Last(v))}
           f == [w \in W |-> Push(Last(w), row \o Tail(w))]
<1>1. Pushed(r, p, row, k) = {Push(Last(w), row \o Tail(w)) : w \in W}
  BY DEF Pushed
<1>2. IsFiniteSet(W)
  <2>1. Cardinality(Rdds) \in Nat /\ IsFiniteSet(Rdds)
    BY RddAssumption, FS_CardinalityType
  <2>2. IsFiniteSet(SeqOf(Rdds, Cardinality(Rdds)))
    BY <2>1, FiniteSeqOf
  <2>3. W \subseteq SeqOf(Rdds, Cardinality(Rdds))
    BY DEF Ways
  <2> QED  BY <2>2, <2>3, FS_Subset
<1>3. \A d, new : ~Acts(Push(d, new))
  BY OtherOps DEF ActionOps
<1> HIDE DEF W, Push
<1>4. IsFiniteSet({f[w] : w \in W})
  BY <1>2, FiniteImage
<1>5. {f[w] : w \in W} = {Push(Last(w), row \o Tail(w)) : w \in W}
  OBVIOUS
<1> QED  BY <1>1, <1>3, <1>4, <1>5

LEMMA PushedAllFacts ==
  ASSUME AnsweringInv, NEW r \in Rdds, NEW p \in Partitions
  PROVE  /\ IsFiniteSet(PushedAll(r, p))
         /\ \A x \in PushedAll(r, p) : ~Acts(x)
<1> DEFINE S == DOMAIN stored[<<r, p>>]
           f == [row \in S |-> Pushed(r, p, row, stored[<<r, p>>][row])]
<1>1. PushedAll(r, p) = UNION {Pushed(r, p, row, stored[<<r, p>>][row]) : row \in S}
  BY DEF PushedAll, BagToSet
<1>2. IsFiniteSet(S)
  BY DEF AnsweringInv, Finite
<1>3. {f[row] : row \in S} = {Pushed(r, p, row, stored[<<r, p>>][row]) : row \in S}
  OBVIOUS
<1>4. \A row \in S : IsFiniteSet(f[row]) /\ \A x \in f[row] : ~Acts(x)
  BY PushedFacts
<1> HIDE DEF S
<1>5. IsFiniteSet({f[row] : row \in S})
  BY <1>2, FiniteImage
<1> HIDE DEF f
<1>6. IsFiniteSet(UNION {f[row] : row \in S})
  BY <1>4, <1>5, FS_UNION
<1>7. \A x \in UNION {f[row] : row \in S} : ~Acts(x)
  BY <1>4
<1> QED  BY <1>1, <1>3, <1>6, <1>7

LEMMA PersistFinite ==
  ASSUME AnsweringInv, NEW r \in Rdds, NEW p \in Partitions, NEW what,
         Persist(r, p, what), UNCHANGED downs
  PROVE  Finite'
<1>1. CASE stored' = stored
  BY <1>1, FiniteStays
<1>2. CASE stored' = [stored EXCEPT ![<<r, p>>] = @ (+) [row \in {what[1]} |-> what[2]]]
  <2> DEFINE B == stored[<<r, p>>] (+) [row \in {what[1]} |-> what[2]]
  <2>1. DOMAIN B = DOMAIN stored[<<r, p>>] \cup {what[1]}
    BY DEF (+)
  <2>2. IsFiniteSet(DOMAIN B)
    <3>1. IsFiniteSet(DOMAIN stored[<<r, p>>])
      BY DEF AnsweringInv, Finite
    <3> QED  BY <2>1, <3>1, FS_AddElement
  <2>3. DOMAIN stored = Rdds \X Partitions
    BY DEF AnsweringInv, Finite
  <2> HIDE DEF B
  <2>4. stored' = [stored EXCEPT ![<<r, p>>] = B]
    BY <1>2 DEF B
  <2>5. DOMAIN stored' = Rdds \X Partitions
    BY <2>3, <2>4
  <2>6. ASSUME NEW s \in Rdds, NEW q \in Partitions
        PROVE  IsFiniteSet(DOMAIN stored'[<<s, q>>])
    <3>1. <<s, q>> \in DOMAIN stored /\ IsFiniteSet(DOMAIN stored[<<s, q>>])
      BY <2>3 DEF AnsweringInv, Finite
    <3>2. CASE <<s, q>> = <<r, p>>
      BY <2>2, <2>4, <3>1, <3>2
    <3>3. CASE <<s, q>> # <<r, p>>
      BY <2>4, <3>1, <3>3
    <3> QED  BY <3>2, <3>3
  <2>7. /\ DOMAIN downs' = Members
        /\ \A m \in Members : DOMAIN downs'[m] = Rdds /\ \A s \in Rdds : IsSeq(downs'[m][s])
    BY DEF AnsweringInv, Finite
  <2> QED  BY <2>5, <2>6, <2>7 DEF Finite
<1> QED  BY <1>1, <1>2 DEF Persist

-----------------------------------------------------------------------------
(* The handlers that have nothing to do with an action.                     *)
LEMMA QuietActor ==
  ASSUME AnsweringInv, NEW b \in Actors, queue[b] # << >>,
         NEW sends, NEW posts, IsFiniteSet(sends), Quiet(sends, posts), Reply(b, sends, posts),
         Finite', UNCHANGED <<actionVars, asked>>
  PROVE  AnsweringInv'
BY QuietReply, Carried

LEMMA QuietService ==
  ASSUME AnsweringInv, NEW x \in DOMAIN net,
         NEW sends, NEW posts, IsFiniteSet(sends), Quiet(sends, posts), Serve(x, sends, posts),
         Finite', UNCHANGED <<actionVars, asked>>
  PROVE  AnsweringInv'
BY QuietServe, Carried

LEMMA ServiceKeeps ==
  ASSUME AnsweringInv, NEW x \in DOMAIN net, Service(x)
  PROVE  AnsweringInv'
<1>0. /\ \A y : IsFiniteSet({y})
      /\ IsFiniteSet({})
  BY FS_Singleton, FS_EmptySet
<1>1. CASE CreatePartition(x)
  <2> DEFINE sends == {With(<<x.what[1]>>, "CREATE_RDD_PARTITION_RESPONSE", <<x.to[1]>>, << >>)}
  <2>1. Quiet(sends, {})
    BY OtherOps DEF Quiet, ActionOps
  <2>2. Serve(x, sends, {}) /\ UNCHANGED <<downs, stored, actionVars, asked>>
    BY <1>1 DEF CreatePartition
  <2>3. Finite'
    BY <2>2, FiniteStays
  <2> QED  BY <1>0, <2>1, <2>2, <2>3, QuietService
<1>2. CASE CreateDelegatePartition(x)
  <2> DEFINE sends == {With(<<x.what[1]>>, "CREATE_RDD_PARTITION_RESPONSE", <<x.to[1]>>, << >>)}
  <2>1. Quiet(sends, {})
    BY OtherOps DEF Quiet, ActionOps
  <2>2. Serve(x, sends, {}) /\ UNCHANGED <<downs, actionVars, asked>>
    BY <1>2 DEF CreateDelegatePartition
  <2>3. Finite'
    <3>1. stored' = [a \in Rdds \X Partitions |->
                      IF a[1] = x.what[1] /\ a[2] \in PartsOf(x.to[1]) THEN Rows(x.what[1], a[2]) ELSE stored[a]]
      BY <1>2 DEF CreateDelegatePartition
    <3>2. \A r, p : IsFiniteSet(DOMAIN Rows(r, p))
      BY <1>0 DEF Rows, SetToBag
    <3>3. ASSUME NEW r \in Rdds, NEW p \in Partitions  PROVE IsFiniteSet(DOMAIN stored'[<<r, p>>])
      <4>1. stored'[<<r, p>>] = Rows(x.what[1], p) \/ stored'[<<r, p>>] = stored[<<r, p>>]
        BY <3>1
      <4> QED  BY <3>2, <4>1 DEF AnsweringInv, Finite
    <3>4. DOMAIN stored' = Rdds \X Partitions
      BY <3>1
    <3>5. /\ DOMAIN downs' = Members
          /\ \A m \in Members : DOMAIN downs'[m] = Rdds /\ \A r \in Rdds : IsSeq(downs'[m][r])
      BY <2>2 DEF AnsweringInv, Finite
    <3> QED  BY <3>3, <3>4, <3>5 DEF Finite
  <2> QED  BY <1>0, <2>1, <2>2, <2>3, QuietService
<1>3. CASE PartitionCreated(x)
  <2>1. PICK sends : /\ Serve(x, sends, {}) /\ IsFiniteSet(sends) /\ Quiet(sends, {})
                     /\ UNCHANGED <<stored, actionVars, asked>>
    <3>1. PICK code : Serve(x, {With(<<x.what[1]>>, "RDD_PARTITION_PREPARED", <<x.to[1]>>, <<code>>)}, {})
      BY <1>3 DEF PartitionCreated
    <3>2. UNCHANGED <<stored, actionVars, asked>>
      BY <1>3 DEF PartitionCreated
    <3> DEFINE sends == {With(<<x.what[1]>>, "RDD_PARTITION_PREPARED", <<x.to[1]>>, <<code>>)}
    <3>3. Quiet(sends, {})
      BY OtherOps DEF Quiet, ActionOps
    <3> QED  BY <1>0, <3>1, <3>2, <3>3
  <2>2. Finite'
    <3>1. PICK linked : downs' = [downs EXCEPT ![x.to[1]] =
            [u \in Rdds |-> IF linked /\ u \in ToSet(Upstream[x.what[1]]) THEN Append(@[u], x.what[1]) ELSE @[u]]]
      BY <1>3 DEF PartitionCreated
    <3>2. /\ DOMAIN downs = Members
          /\ \A n \in Members : DOMAIN downs[n] = Rdds /\ \A r \in Rdds : IsSeq(downs[n][r])
      BY DEF AnsweringInv, Finite
    <3> DEFINE new == [u \in Rdds |-> IF linked /\ u \in ToSet(Upstream[x.what[1]])
                                      THEN Append(downs[x.to[1]][u], x.what[1]) ELSE downs[x.to[1]][u]]
    <3>3. DOMAIN downs' = Members /\ \A n \in Members : downs'[n] = downs[n] \/ (n = x.to[1] /\ downs'[n] = new)
      BY <3>1, <3>2
    <3>4. ASSUME x.to[1] \in Members  PROVE DOMAIN new = Rdds /\ \A r \in Rdds : IsSeq(new[r])
      BY <3>2, <3>4, AppendFacts
    <3> HIDE DEF new
    <3>5. \A n \in Members : DOMAIN downs'[n] = Rdds /\ \A r \in Rdds : IsSeq(downs'[n][r])
      BY <3>2, <3>3, <3>4
    <3>6. /\ DOMAIN stored' = Rdds \X Partitions
          /\ \A r \in Rdds, p \in Partitions : IsFiniteSet(DOMAIN stored'[<<r, p>>])
      BY <2>1 DEF AnsweringInv, Finite
    <3> QED  BY <3>3, <3>5, <3>6 DEF Finite
  <2> QED  BY <2>1, <2>2, QuietService
<1>4. CASE StateSync(x)
  <2>1. Serve(x, {}, {}) /\ UNCHANGED <<downs, stored, actionVars, asked>>
    BY <1>4 DEF StateSync
  <2>2. Finite' /\ Quiet({}, {})
    BY <2>1, FiniteStays DEF Quiet
  <2> QED  BY <1>0, <2>1, <2>2, QuietService
<1>5. CASE PersistTypeSync(x)
  <2> DEFINE sends == {Msg(<<x.what[1]>>, "RDD_TRANSFORM_PREPARED", <<x.to[1]>>)}
  <2>1. Quiet(sends, {})
    BY OtherOps DEF Quiet, ActionOps
  <2>2. Serve(x, sends, {}) /\ UNCHANGED <<downs, stored, actionVars, asked>>
    BY <1>5 DEF PersistTypeSync
  <2>3. Finite'
    BY <2>2, FiniteStays
  <2> QED  BY <1>0, <2>1, <2>2, <2>3, QuietService
<1> QED  BY <1>1, <1>2, <1>3, <1>4, <1>5 DEF Service

LEMMA ArriveKeeps ==
  ASSUME AnsweringInv, NEW x \in DOMAIN net, Arrive(x)
  PROVE  AnsweringInv'
<1>1. /\ x.to \in Actors /\ net' = net (-) SetToBag({x})
      /\ queue' = [queue EXCEPT ![x.to] = Append(@, x)]
      /\ UNCHANGED <<downs, stored, actionVars, asked>>
  BY DEF Arrive, Nothing, localVars
<1>2. Fewer /\ Finite'
  BY <1>1, Arrived, FiniteStays
<1> QED  BY <1>1, <1>2, Carried

LEMMA CreateKeeps ==
  ASSUME AnsweringInv, NEW r \in Rdds, CreateRdd(r)
  PROVE  AnsweringInv'
<1> DEFINE posts == {With(<<m>>, CreateOp(r), <<r>>, <<r>>) : m \in Members}
<1>0. CreateOp(r) \notin ActionOps
  BY DEF ActionOps, CreateOp
<1>1. \A x \in posts : ~Acts(x)
  BY <1>0, OtherOps
<1>2. Quiet({}, posts) /\ IsFiniteSet({})
  BY <1>1, FS_EmptySet DEF Quiet
<1>3. Leaves(Home[r], queue, net, {}, posts) /\ UNCHANGED <<downs, stored, actionVars, asked>>
  BY DEF CreateRdd
<1>4. Fewer /\ Finite'
  BY <1>2, <1>3, QuietLeave, FiniteStays
<1> QED  BY <1>3, <1>4, Carried

LEMMA LateKeeps ==
  ASSUME AnsweringInv, NEW r, NEW s, LateStateSync(r, s)
  PROVE  AnsweringInv'
<1>1. UNCHANGED <<downs, stored, actionVars, asked, queue, net>>
  BY DEF LateStateSync
<1>2. Fewer /\ Finite'
  BY <1>1, FiniteStays DEF AnsweringInv, Shapes, Fewer
<1> QED  BY <1>1, <1>2, Carried

LEMMA PartitionKeeps ==
  ASSUME AnsweringInv, NEW r \in Rdds, NEW p \in Partitions,
         \/ PartitionTransform(r, p) \/ PartitionStore(r, p)
         \/ RePartition(r, p) \/ CheckPartitionReady(r, p)
  PROVE  AnsweringInv'
<1>0. /\ \A y : IsFiniteSet({y})
      /\ IsFiniteSet({})
  BY FS_Singleton, FS_EmptySet
<1>1. <<r, p>> \in Actors
  BY DEF Actors
<1>2. CASE PartitionTransform(r, p)
  <2> DEFINE done == Msg(<<r>>, "PARTITION_TRANSFORM_COMPLETE", <<r, p>>)
             sends == PushedAll(r, p) \cup {done}
  <2>1. IsFiniteSet(sends)
    <3>1. IsFiniteSet(PushedAll(r, p))
      BY PushedAllFacts
    <3> QED  BY <3>1, FS_AddElement
  <2>2. Quiet(sends, {})
    <3>1. \A x \in PushedAll(r, p) : ~Acts(x)
      BY PushedAllFacts
    <3>2. ~Acts(done)
      BY OtherOps DEF ActionOps
    <3> QED  BY <3>1, <3>2 DEF Quiet
  <2>3. /\ queue[<<r, p>>] # << >> /\ Reply(<<r, p>>, sends, {})
        /\ UNCHANGED <<downs, stored, actionVars, asked>>
    BY <1>2 DEF PartitionTransform, Takes
  <2> HIDE DEF sends
  <2>4. Finite'
    BY <2>3, FiniteStays
  <2> QED  BY <1>1, <2>1, <2>2, <2>3, <2>4, QuietActor
<1>3. CASE PartitionStore(r, p)
  <2>1. /\ queue[<<r, p>>] # << >> /\ Reply(<<r, p>>, {}, {})
        /\ Persist(r, p, OfPart(r, p).what)
        /\ UNCHANGED <<downs, actionVars, asked>>
    BY <1>3 DEF PartitionStore, Takes, OnlyStored
  <2>2. Finite' /\ Quiet({}, {})
    BY <2>1, PersistFinite DEF Quiet
  <2> QED  BY <1>0, <1>1, <2>1, <2>2, QuietActor
<1>4. CASE RePartition(r, p)
  <2> DEFINE what == OfPart(r, p).what
             pushed == Pushed(r, p, what[1], what[2])
  <2>1. /\ queue[<<r, p>>] # << >> /\ Persist(r, p, what)
        /\ Reply(<<r, p>>, IF persist[Primary[p]][r] = "NONE" THEN pushed ELSE {}, {})
        /\ UNCHANGED <<downs, actionVars, asked>>
    BY <1>4 DEF RePartition, Takes, OnlyStored
  <2>2. IsFiniteSet(pushed) /\ \A x \in pushed : ~Acts(x)
    BY PushedFacts
  <2> HIDE DEF what, pushed
  <2>3. PICK sends : sends \in {{}, pushed} /\ Reply(<<r, p>>, sends, {})
    BY <2>1
  <2>4. Finite'
    BY <2>1, PersistFinite
  <2>5. IsFiniteSet(sends) /\ Quiet(sends, {})
    BY <1>0, <2>2, <2>3 DEF Quiet
  <2> QED  BY <1>1, <2>1, <2>3, <2>4, <2>5, QuietActor
<1>5. CASE CheckPartitionReady(r, p)
  <2> DEFINE x == OfPart(r, p)
             ready == Msg(<<r>>, "PARTITION_READY", <<r, p>>)
             behind == Tail(queue[<<r, p>>]) # << >>
  <2>1. /\ queue[<<r, p>>] # << >> /\ x.op = "CHECK_PARTITION_READY"
        /\ Reply(<<r, p>>, IF behind THEN {} ELSE {ready}, IF behind THEN {x} ELSE {})
        /\ UNCHANGED <<downs, stored, actionVars, asked>>
    BY <1>5 DEF CheckPartitionReady, Takes, Nothing, localVars, OfPart
  <2>2. ~Acts(x)
    BY <2>1 DEF Acts, ActionOps
  <2>3. ~Acts(ready)
    BY OtherOps DEF ActionOps
  <2> HIDE DEF x, ready, behind
  <2>4. PICK sends, posts : sends \in {{}, {ready}} /\ posts \in {{}, {x}} /\ Reply(<<r, p>>, sends, posts)
    BY <2>1
  <2>5. IsFiniteSet(sends) /\ Quiet(sends, posts)
    BY <1>0, <2>2, <2>3, <2>4 DEF Quiet
  <2>6. Finite'
    BY <2>1, FiniteStays
  <2> QED  BY <1>1, <2>1, <2>4, <2>5, <2>6, QuietActor
<1> QED  BY <1>2, <1>3, <1>4, <1>5

LEMMA ReadyKeeps ==
  ASSUME AnsweringInv, NEW r \in Rdds, queue[<<r>>] # << >>, NEW states, Ready(r, states)
  PROVE  AnsweringInv'
<1> DEFINE told == {Msg(<<d>>, "UPSTREAM_RDD_READY", <<r>>) : d \in DownOf(r)}
           own == Own(r, "ACTION_MESSAGE_PROCESS")
           sends == told \cup IF actionQueue[r] # << >> THEN {own} ELSE {}
<1>1. <<r>> \in Actors
  BY DEF Actors
<1>2. IsFiniteSet(told) /\ \A x \in told : ~Acts(x)
  BY NotifiedFinite, OtherOps DEF ActionOps
<1>3. ~Acts(own)
  BY OtherOps DEF ActionOps, Own
<1>4. Reply(<<r>>, sends, {}) /\ UNCHANGED <<downs, stored, actionVars, asked>>
  BY DEF Ready
<1> HIDE DEF told, own
<1>5. IsFiniteSet(told \cup {own}) /\ told \cup {} = told
  BY <1>2, FS_AddElement
<1>6. IsFiniteSet(sends) /\ Quiet(sends, {})
  BY <1>2, <1>3, <1>5 DEF Quiet
<1>7. Finite'
  BY <1>4, FiniteStays
<1> HIDE DEF sends
<1> QED  BY <1>1, <1>4, <1>6, <1>7, QuietActor

LEMMA CallUpstreamQuiet ==
  ASSUME NEW r
  PROVE  \A x \in CallUpstream(r) : ~Acts(x)
BY OtherOps DEF CallUpstream, ActionOps

LEMMA ToldQuiet ==
  ASSUME NEW r
  PROVE  \A x \in Told(r) : ~Acts(x)
BY OtherOps DEF Told, ActionOps

LEMMA RddKeeps ==
  ASSUME AnsweringInv, NEW r \in Rdds,
         \/ HandleCreateRddPartitionResponse(r)
         \/ HandleRddTransformPrepared(r) \/ HandlePartitionTransformComplete(r)
         \/ HandlePartitionReady(r) \/ HandleUpstreamReady(r)
  PROVE  AnsweringInv'
<1>0. /\ \A y : IsFiniteSet({y})
      /\ IsFiniteSet({})
  BY FS_Singleton, FS_EmptySet
<1>1. <<r>> \in Actors
  BY DEF Actors
<1>2. CASE HandleCreateRddPartitionResponse(r)
  <2>1. PICK posts : /\ Reply(<<r>>, {}, posts) /\ Quiet({}, posts)
                     /\ queue[<<r>>] # << >> /\ UNCHANGED <<downs, stored, actionVars, asked>>
    <3> DEFINE created == AllIn("CREATED", WithPart(r, PartsOf(OfRdd(r).from[1]), "CREATED"))
               posts == {With(<<n>>, "PARTITION_CREATED", <<r>>, <<r>>) : n \in {n \in Members : created}}
    <3>1. /\ Reply(<<r>>, {}, posts)
          /\ queue[<<r>>] # << >> /\ UNCHANGED <<downs, stored, actionVars, asked>>
      BY <1>2 DEF HandleCreateRddPartitionResponse, Takes
    <3>2. Quiet({}, posts)
      BY OtherOps DEF Quiet, ActionOps
    <3> QED  BY <3>1, <3>2
  <2>2. Finite'
    BY <2>1, FiniteStays
  <2> QED  BY <1>0, <1>1, <2>1, <2>2, QuietActor
<1>3. CASE HandleRddTransformPrepared(r)
  <2>1. PICK posts : /\ Reply(<<r>>, {}, posts) /\ posts \in {{}, CallUpstream(r)}
                     /\ queue[<<r>>] # << >> /\ UNCHANGED <<downs, stored, actionVars, asked>>
    BY <1>3 DEF HandleRddTransformPrepared, Takes
  <2>2. Quiet({}, posts)
    BY <2>1, CallUpstreamQuiet DEF Quiet
  <2>3. Finite'
    BY <2>1, FiniteStays
  <2> QED  BY <1>0, <1>1, <2>1, <2>2, <2>3, QuietActor
<1>4. ASSUME NEW states, NEW sends, Counted(r, states, sends), queue[<<r>>] # << >>,
             IsFiniteSet(sends), Quiet(sends, {})
      PROVE  AnsweringInv'
  <2>1. Reply(<<r>>, sends, {}) /\ UNCHANGED <<downs, stored, actionVars, asked>>
    BY <1>4 DEF Counted
  <2>2. Finite'
    BY <2>1, FiniteStays
  <2> QED  BY <1>1, <1>4, <2>1, <2>2, QuietActor
<1>5. CASE HandlePartitionTransformComplete(r)
  <2> DEFINE states == WithPart(r, {OfRdd(r).from[2]}, "READY")
  <2>1. queue[<<r>>] # << >> /\ (Ready(r, states) \/ Counted(r, states, {}))
    BY <1>5 DEF HandlePartitionTransformComplete, Takes
  <2>2. Quiet({}, {})
    BY DEF Quiet
  <2> HIDE DEF states
  <2> QED  BY <1>0, <1>4, <2>1, <2>2, ReadyKeeps
<1>6. CASE HandlePartitionReady(r)
  <2>1. PICK states, sends : /\ queue[<<r>>] # << >>
                             /\ sends \in {{}, ToParts(r, "RDD_TRANSFORM", << >>)}
                             /\ Ready(r, states) \/ Counted(r, states, sends)
    BY <1>6 DEF HandlePartitionReady, Takes
  <2>2. IsFiniteSet(sends) /\ Quiet(sends, {})
    <3>1. /\ IsFiniteSet(ToParts(r, "RDD_TRANSFORM", << >>))
          /\ \A x \in ToParts(r, "RDD_TRANSFORM", << >>) : ~Acts(x)
      BY ToPartsFacts DEF ActionOps
    <3> QED  BY <1>0, <2>1, <3>1 DEF Quiet
  <2> QED  BY <1>4, <2>1, <2>2, ReadyKeeps
<1>7. CASE HandleUpstreamReady(r)
  <2>1. PICK sends : /\ queue[<<r>>] # << >>
                     /\ sends \in {{}, ToParts(r, "CHECK_PARTITION_READY", << >>)}
                     /\ Reply(<<r>>, sends, {}) /\ UNCHANGED <<downs, stored, actionVars, asked>>
    BY <1>7 DEF HandleUpstreamReady, Takes
  <2>2. IsFiniteSet(sends) /\ Quiet(sends, {})
    <3>1. /\ IsFiniteSet(ToParts(r, "CHECK_PARTITION_READY", << >>))
          /\ \A x \in ToParts(r, "CHECK_PARTITION_READY", << >>) : ~Acts(x)
      BY ToPartsFacts DEF ActionOps
    <3> QED  BY <1>0, <2>1, <3>1 DEF Quiet
  <2>3. Finite'
    BY <2>1, FiniteStays
  <2> QED  BY <1>1, <2>1, <2>2, <2>3, QuietActor
<1> QED  BY <1>2, <1>3, <1>5, <1>6, <1>7

(* The two handlers that can fail the RDD, unless they do.                  *)
LEMMA PreparedKeeps ==
  ASSUME AnsweringInv, NEW r \in Rdds, HandleRddPartitionPrepared(r)
  PROVE  AnsweringInv' \/ (Fail(r) /\ Takes(<<r>>, "RDD_PARTITION_PREPARED"))
<1>0. /\ \A y : IsFiniteSet({y})
      /\ IsFiniteSet({})
  BY FS_Singleton, FS_EmptySet
<1>1. <<r>> \in Actors
  BY DEF Actors
<1> DEFINE own == Own(r, "RDD_TRANSFORM")
<1>2. ~Acts(own)
  BY OtherOps DEF ActionOps, Own
<1>3. Takes(<<r>>, "RDD_PARTITION_PREPARED")
  BY DEF HandleRddPartitionPrepared
<1>4. CASE Fail(r)
  BY <1>3, <1>4
<1>5. CASE ~Fail(r)
  <2>1. PICK sends : /\ sends \in {{}, {own}} /\ Reply(<<r>>, sends, {})
                     /\ UNCHANGED <<downs, stored, actionVars, asked>>
    BY <1>5 DEF HandleRddPartitionPrepared, localVars
  <2>2. IsFiniteSet(sends) /\ Quiet(sends, {})
    BY <1>0, <1>2, <2>1 DEF Quiet
  <2>3. Finite' /\ queue[<<r>>] # << >>
    BY <1>3, <2>1, FiniteStays DEF Takes
  <2> QED  BY <1>1, <2>1, <2>2, <2>3, QuietActor
<1> QED  BY <1>4, <1>5

LEMMA TransformKeeps ==
  ASSUME AnsweringInv, NEW r \in Rdds, HandleRddTransform(r)
  PROVE  AnsweringInv' \/ (Fail(r) /\ Takes(<<r>>, "RDD_TRANSFORM"))
<1>0. IsFiniteSet({})
  BY FS_EmptySet
<1>1. <<r>> \in Actors
  BY DEF Actors
<1>2. Takes(<<r>>, "RDD_TRANSFORM") /\ queue[<<r>>] # << >>
  BY DEF HandleRddTransform, Takes
<1>3. ASSUME NEW posts, \A x \in posts : ~Acts(x), Reply(<<r>>, {}, posts),
             UNCHANGED <<downs, stored, actionVars, asked>>
      PROVE  AnsweringInv'
  <2>1. Quiet({}, posts) /\ Finite'
    BY <1>3, FiniteStays DEF Quiet
  <2> QED  BY <1>0, <1>1, <1>2, <1>3, <2>1, QuietActor
<1>4. CASE Fail(r)
  BY <1>2, <1>4
<1>5. CASE TransformPrepared(r) /\ UNCHANGED <<plan, downs, persist, stored, actionVars, asked>>
  <2> DEFINE sync == {With(<<m>>, "PERSIST_TYPE_SYNC", <<r>>, <<r>>) : m \in Members}
  <2>1. \A x \in sync : ~Acts(x)
    BY OtherOps DEF ActionOps
  <2>2. PICK more : more \in {sync, CallUpstream(r)} /\ Reply(<<r>>, {}, Told(r) \cup more)
    BY <1>5 DEF TransformPrepared
  <2> HIDE DEF sync
  <2>3. \A x \in Told(r) \cup more : ~Acts(x)
    BY <2>1, <2>2, ToldQuiet, CallUpstreamQuiet
  <2> QED  BY <1>3, <1>5, <2>2, <2>3
<1>6. CASE TransformReady(r) /\ UNCHANGED <<plan, downs, persist, stored, actionVars, asked>>
  <2>1. Reply(<<r>>, {}, Told(r) \cup ToParts(r, "RDD_TRANSFORM", << >>))
    BY <1>6 DEF TransformReady
  <2>2. \A x \in ToParts(r, "RDD_TRANSFORM", << >>) : ~Acts(x)
    BY ToPartsFacts DEF ActionOps
  <2>3. \A x \in Told(r) \cup ToParts(r, "RDD_TRANSFORM", << >>) : ~Acts(x)
    BY <2>2, ToldQuiet
  <2> QED  BY <1>3, <1>6, <2>1, <2>3
<1>7. CASE Reply(<<r>>, {}, {}) /\ UNCHANGED <<plan, localVars, actionVars, lateVars, asked>>
  BY <1>3, <1>7 DEF localVars
<1> QED  BY <1>4, <1>5, <1>6, <1>7 DEF HandleRddTransform

-----------------------------------------------------------------------------
(* The handlers an action goes through.                                     *)
LEMMA TokensDiffer ==
  /\ \A a, b : WholeToken(a) = WholeToken(b) => a = b
  /\ \A a, b, p, q : PartToken(a, p) = PartToken(b, q) => a = b /\ p = q
  /\ \A a, b, q : WholeToken(a) # PartToken(b, q)
<1>1. \A a, b : WholeToken(a) = WholeToken(b) => a = b
  BY Tuples DEF WholeToken
<1>2. ASSUME NEW a, NEW b, NEW p, NEW q, PartToken(a, p) = PartToken(b, q)
      PROVE  a = b /\ p = q
  <2>1. a = b /\ <<Target[a], p>> = <<Target[b], q>>
    BY <1>2, Tuples DEF PartToken
  <2> QED  BY <2>1, Tuples
<1>3. ASSUME NEW a, NEW b, NEW q, WholeToken(a) = PartToken(b, q)
      PROVE  FALSE
  <2>1. <<Target[a]>> = <<Target[b], q>>
    BY <1>3, Tuples DEF WholeToken, PartToken
  <2> QED  BY <2>1, Tuples
<1> QED  BY <1>1, <1>2, <1>3

LEMMA Pops ==
  ASSUME AnsweringInv, NEW b \in Actors, queue[b] # << >>
  PROVE  \E R : /\ Popped(queue, b, R)
               /\ \A sends, posts : Reply(b, sends, posts) => Leaves(At(b), R, net, sends, posts)
<1>1. PICK R : R = [queue EXCEPT ![b] = Tail(@)]
  OBVIOUS
<1>2. Popped(queue, b, R)
  BY <1>1 DEF AnsweringInv, Shapes, Popped
<1> QED  BY <1>1, <1>2 DEF Reply

LEMMA Popping ==
  ASSUME AnsweringInv, NEW b, NEW R, Popped(queue, b, R), NEW h, h = Head(queue[b])
  PROVE  /\ Delivered(R, net) /\ Single(R, net)
         /\ \A t : Holds(R, net, t) => Holds(queue, net, t)
         /\ h.to = b /\ Genuine(h)
         /\ Acts(h) => Holds(queue, net, Token(h)) /\ ~Holds(R, net, Token(h))
<1>1. Delivered(queue, net) /\ Single(queue, net)
  BY DEF AnsweringInv
<1> QED  BY <1>1, HeadTaken

LEMMA Replied ==
  ASSUME AnsweringInv, NEW b, NEW R, Popped(queue, b, R),
         NEW sends, NEW posts, IsFiniteSet(sends), Fresh(R, net, sends, posts),
         Leaves(At(b), R, net, sends, posts)
  PROVE  /\ Delivered(queue', net') /\ Single(queue', net') /\ DOMAIN queue' = Actors
         /\ \A t : Holds(queue', net', t) => Holds(R, net, t) \/ Brings(sends, posts, t)
<1>1. PICK h : h = Head(queue[b])
  OBVIOUS
<1>2. Delivered(R, net) /\ Single(R, net)
  BY <1>1, Popping
<1> QED  BY <1>2, Left

(* What a message about an action is, from the actor that takes it.         *)
LEMMA RequestOfRdd ==
  ASSUME AnsweringInv, NEW r \in Rdds, Takes(<<r>>, "RDD_ACTION_REQUEST")
  PROVE  \E a \in Actions : /\ r = Target[a] /\ OfRdd(r).what[1] = a
                            /\ Acts(OfRdd(r)) /\ Token(OfRdd(r)) = WholeToken(a)
<1> DEFINE x == OfRdd(r)
<1>1. <<r>> \in Actors /\ queue[<<r>>] # << >> /\ x = Head(queue[<<r>>]) /\ x.op = "RDD_ACTION_REQUEST"
  BY DEF Actors, Takes, OfRdd
<1>2. x.to = <<r>> /\ Genuine(x) /\ Acts(x)
  BY <1>1, Pops, Popping DEF Acts, ActionOps
<1> HIDE DEF x
<1>3. PICK a \in Actions :
        x = WholeRequest(a) \/ \E p \in Partitions : x = PartRequest(a, p) \/ IsPartResponse(x, a, p)
  BY <1>2 DEF Genuine
<1>4. \A p \in Partitions : x # PartRequest(a, p)
  BY <1>2, PartFields, Tuples
<1>5. \A p \in Partitions : ~IsPartResponse(x, a, p)
  BY <1>1 DEF IsPartResponse
<1>6. x = WholeRequest(a)
  BY <1>3, <1>4, <1>5
<1>7. x.what = <<a>> /\ x.to = <<Target[a]>> /\ Token(x) = WholeToken(a)
  BY <1>6, WholeFields
<1>8. r = Target[a] /\ x.what[1] = a
  BY <1>2, <1>7, Tuples
<1> QED  BY <1>2, <1>7, <1>8 DEF x

LEMMA ResponseOfRdd ==
  ASSUME AnsweringInv, NEW r \in Rdds, Takes(<<r>>, "RDD_ACTION_RESPONSE")
  PROVE  \E a \in Actions, p \in Partitions :
            /\ r = Target[a] /\ OfRdd(r).what[1] = a /\ OfRdd(r).from[2] = p
            /\ Acts(OfRdd(r)) /\ Token(OfRdd(r)) = PartToken(a, p)
<1> DEFINE x == OfRdd(r)
<1>1. <<r>> \in Actors /\ queue[<<r>>] # << >> /\ x = Head(queue[<<r>>]) /\ x.op = "RDD_ACTION_RESPONSE"
  BY DEF Actors, Takes, OfRdd
<1>2. x.to = <<r>> /\ Genuine(x) /\ Acts(x)
  BY <1>1, Pops, Popping DEF Acts, ActionOps
<1> HIDE DEF x
<1>3. PICK a \in Actions :
        x = WholeRequest(a) \/ \E p \in Partitions : x = PartRequest(a, p) \/ IsPartResponse(x, a, p)
  BY <1>2 DEF Genuine
<1>4. x # WholeRequest(a) /\ \A p \in Partitions : x # PartRequest(a, p)
  BY <1>1, WholeFields, PartFields
<1>5. PICK p \in Partitions : IsPartResponse(x, a, p)
  BY <1>3, <1>4
<1>6. Token(x) = PartToken(a, p) /\ x.to = <<Target[a]>> /\ x.from = <<Target[a], p>> /\ x.what = <<a>>
  BY <1>5, ResponseFields DEF IsPartResponse
<1>7. r = Target[a] /\ x.what[1] = a /\ x.from[2] = p
  BY <1>2, <1>6, Tuples
<1> QED  BY <1>2, <1>6, <1>7 DEF x

LEMMA RequestOfPart ==
  ASSUME AnsweringInv, NEW r \in Rdds, NEW p \in Partitions, Takes(<<r, p>>, "RDD_ACTION_REQUEST")
  PROVE  \E a \in Actions : /\ r = Target[a] /\ OfPart(r, p).what = <<a>>
                            /\ Acts(OfPart(r, p)) /\ Token(OfPart(r, p)) = PartToken(a, p)
<1> DEFINE x == OfPart(r, p)
<1>1. /\ <<r, p>> \in Actors /\ queue[<<r, p>>] # << >>
      /\ x = Head(queue[<<r, p>>]) /\ x.op = "RDD_ACTION_REQUEST"
  BY DEF Actors, Takes, OfPart
<1>2. x.to = <<r, p>> /\ Genuine(x) /\ Acts(x)
  BY <1>1, Pops, Popping DEF Acts, ActionOps
<1> HIDE DEF x
<1>3. PICK a \in Actions :
        x = WholeRequest(a) \/ \E q \in Partitions : x = PartRequest(a, q) \/ IsPartResponse(x, a, q)
  BY <1>2 DEF Genuine
<1>4. x # WholeRequest(a)
  BY <1>2, WholeFields, Tuples
<1>5. \A q \in Partitions : ~IsPartResponse(x, a, q)
  BY <1>1 DEF IsPartResponse
<1>6. PICK q \in Partitions : x = PartRequest(a, q)
  BY <1>3, <1>4, <1>5
<1>7. x.what = <<a>> /\ x.to = <<Target[a], q>> /\ Token(x) = PartToken(a, q)
  BY <1>6, PartFields
<1>8. r = Target[a] /\ p = q
  BY <1>2, <1>7, Tuples
<1> QED  BY <1>2, <1>7, <1>8 DEF x

(* An RDD lets go of the actions that wait, with an answer for those in W;   *)
(* the others it may have sent to its partitions.                           *)
LEMMA Released ==
  ASSUME AnsweringInv, NEW r \in Rdds, NEW W \in SUBSET ToSet(actionQueue[r]), NEW answer,
         Delivered(queue', net'), Single(queue', net'), DOMAIN queue' = Actors, Finite',
         \A t : Holds(queue', net', t) =>
                  \/ Holds(queue, net, t)
                  \/ \E a \in ToSet(actionQueue[r]) \ W, p \in Partitions : t = PartToken(a, p),
         actionQueue' = [actionQueue EXCEPT ![r] = << >>],
         answers' = [a \in Actions |-> IF a \in W THEN Append(answers[a], answer) ELSE answers[a]],
         UNCHANGED <<rddActions, asked>>
  PROVE  AnsweringInv'
<1>1. Shapes /\ Waiting
  BY DEF AnsweringInv
<1>2. DOMAIN actionQueue = Rdds /\ r \in DOMAIN actionQueue
  BY <1>1 DEF Shapes
<1>3. /\ actionQueue'[r] = << >>
      /\ \A s \in Rdds \ {r} : actionQueue'[s] = actionQueue[s]
      /\ DOMAIN actionQueue' = Rdds
  BY <1>2
<1>4. ToSet(actionQueue'[r]) = {}
  BY <1>3, EmptyFacts DEF ToSet
<1>5. \A a \in ToSet(actionQueue[r]) :
        /\ a \in asked /\ a \in Actions /\ a \in DOMAIN rddActions /\ Len(answers[a]) = 0
        /\ r = Target[a] /\ rddActions[a].done = {}
  BY <1>1 DEF Waiting, Shapes
<1>6. \A a \in Actions : IsSeq(answers[a]) /\ Len(answers[a]) \in Nat
  BY <1>1, SeqFacts DEF Shapes
<1>7. /\ DOMAIN answers' = Actions
      /\ \A a \in Actions \ W : answers'[a] = answers[a]
      /\ \A a \in W : a \in Actions /\ answers'[a] = Append(answers[a], answer)
  BY <1>5
<1>8. \A a \in W : IsSeq(answers'[a]) /\ Len(answers'[a]) = 1
  <2> TAKE a \in W
  <2>1. a \in Actions /\ Len(answers[a]) = 0 /\ IsSeq(answers[a])
    BY <1>5, <1>6
  <2> QED  BY <1>7, <2>1, AppendFacts
<1>9. Shapes'
  <2>1. \A a \in Actions : IsSeq(answers'[a])
    BY <1>6, <1>7, <1>8
  <2>2. \A s \in Rdds : IsSeq(actionQueue'[s])
    BY <1>1, <1>3, EmptyFacts DEF Shapes
  <2> QED  BY <1>1, <1>3, <1>7, <2>1, <2>2 DEF Shapes
<1>10. Waiting'
  <2>1. ASSUME NEW s \in Rdds, NEW a \in ToSet(actionQueue'[s])
        PROVE  /\ a \in asked' /\ a \in DOMAIN rddActions' /\ Len(answers'[a]) = 0
               /\ s = Target[a] /\ rddActions'[a].done = {}
    <3>1. s # r
      BY <1>4, <2>1
    <3>2. a \in ToSet(actionQueue[s])
      BY <1>3, <2>1, <3>1
    <3>3. /\ a \in asked /\ a \in DOMAIN rddActions /\ Len(answers[a]) = 0
          /\ s = Target[a] /\ rddActions[a].done = {}
      BY <1>1, <3>2 DEF Waiting
    <3>4. a \notin W /\ a \in Actions
      BY <1>1, <1>5, <3>1, <3>3 DEF Shapes
    <3> QED  BY <1>7, <3>3, <3>4
  <2> QED  BY <2>1 DEF Waiting
<1>11. ASSUME NEW a \in Actions
       PROVE  /\ Coming(a)' /\ Counting(a)'
              /\ (Len(answers[a]) <= (IF a \in asked THEN 1 ELSE 0))'
  <2>1. /\ Coming(a) /\ Counting(a) /\ Len(answers[a]) <= (IF a \in asked THEN 1 ELSE 0)
    BY DEF AnsweringInv
  <2>2. Waits(a)' => Waits(a)
    <3>1. ASSUME NEW s \in Rdds, a \in ToSet(actionQueue'[s])  PROVE a \in ToSet(actionQueue[s])
      BY <1>3, <1>4, <3>1
    <3> QED  BY <3>1 DEF Waits
  <2>3. Coming(a)'
    <3> SUFFICES ASSUME Holds(queue', net', WholeToken(a))
                 PROVE  a \in asked' /\ a \notin DOMAIN rddActions' /\ Len(answers'[a]) = 0
      BY DEF Coming
    <3>1. Holds(queue, net, WholeToken(a))
      BY TokensDiffer
    <3>2. a \in asked /\ a \notin DOMAIN rddActions /\ Len(answers[a]) = 0
      BY <2>1, <3>1 DEF Coming
    <3> QED  BY <1>5, <1>7, <3>2
  <2>4. Counting(a)'
    <3> SUFFICES ASSUME NEW p \in Partitions, Holds(queue', net', PartToken(a, p))
                 PROVE  /\ a \in asked' /\ a \in DOMAIN rddActions' /\ Len(answers'[a]) = 0
                        /\ p \notin rddActions'[a].done
                        /\ ~Waits(a)'
      BY DEF Counting
    <3>1. CASE Holds(queue, net, PartToken(a, p))
      <4>1. /\ a \in asked /\ a \in DOMAIN rddActions /\ Len(answers[a]) = 0
            /\ p \notin rddActions[a].done /\ ~Waits(a)
        BY <2>1, <3>1 DEF Counting
      <4>2. a \notin W
        BY <4>1 DEF Waits
      <4> QED  BY <1>7, <2>2, <4>1, <4>2
    <3>2. CASE \E b \in ToSet(actionQueue[r]) \ W, q \in Partitions : PartToken(a, p) = PartToken(b, q)
      <4>1. a \in ToSet(actionQueue[r]) /\ a \notin W
        BY <3>2, TokensDiffer
      <4>2. ~Waits(a)'
        <5>1. ASSUME NEW s \in Rdds, a \in ToSet(actionQueue'[s])  PROVE FALSE
          <6>1. s = Target[a]
            BY <1>10, <5>1 DEF Waiting
          <6> QED  BY <1>4, <1>5, <4>1, <5>1, <6>1
        <5> QED  BY <5>1 DEF Waits
      <4> QED  BY <1>5, <1>7, <4>1, <4>2
    <3> QED  BY <3>1, <3>2
  <2>5. Len(answers'[a]) <= (IF a \in asked' THEN 1 ELSE 0)
    <3>1. CASE a \in W
      BY <1>5, <1>8, <3>1
    <3>2. CASE a \notin W
      BY <1>7, <2>1, <3>2
    <3> QED  BY <3>1, <3>2
  <2> QED  BY <2>3, <2>4, <2>5
<1> QED  BY <1>9, <1>10, <1>11 DEF AnsweringInv

LEMMA FailKeeps ==
  ASSUME AnsweringInv, NEW r \in Rdds, NEW op \in {"RDD_PARTITION_PREPARED", "RDD_TRANSFORM"},
         Takes(<<r>>, op), Fail(r)
  PROVE  AnsweringInv'
<1> DEFINE sync == {With(<<m>>, "RDD_STATE_SYNC", <<r>>, <<r>>) : m \in Members \ {Home[r]}}
           told == {Msg(<<d>>, "UPSTREAM_RDD_ERROR", <<r>>) : d \in DownOf(r)}
           W == ToSet(actionQueue[r])
           answer == [code |-> "RRC_RDD_ERROR", rows |-> NoRows]
<1>1. <<r>> \in Actors /\ queue[<<r>>] # << >>
  BY DEF Actors, Takes
<1>2. /\ Reply(<<r>>, {}, sync \cup told)
      /\ UNCHANGED <<downs, stored, rddActions, asked>>
      /\ actionQueue' = [actionQueue EXCEPT ![r] = << >>]
      /\ answers' = [a \in Actions |-> IF a \in W THEN Append(answers[a], answer) ELSE answers[a]]
  BY DEF Fail
<1>3. Quiet({}, sync \cup told)
  <2>1. \A x \in sync : ~Acts(x)
    BY OtherOps DEF ActionOps
  <2>2. \A x \in told : ~Acts(x)
    BY OtherOps DEF ActionOps
  <2> QED  BY <2>1, <2>2 DEF Quiet
<1> HIDE DEF sync, told
<1>4. IsFiniteSet({})
  BY FS_EmptySet
<1>5. Fewer
  BY <1>1, <1>2, <1>3, <1>4, QuietReply
<1>6. Finite'
  BY <1>2, FiniteStays
<1> HIDE DEF answer
<1>7. \A t : Holds(queue', net', t) =>
        \/ Holds(queue, net, t)
        \/ \E a \in ToSet(actionQueue[r]) \ W, p \in Partitions : t = PartToken(a, p)
  BY <1>5 DEF Fewer
<1>8. W \in SUBSET ToSet(actionQueue[r])
  OBVIOUS
<1> HIDE DEF W
<1> QED  BY <1>2, <1>5, <1>6, <1>7, <1>8, Released DEF Fewer

LEMMA ActionProcessKeeps ==
  ASSUME AnsweringInv, NEW r \in Rdds, HandleActionProcess(r)
  PROVE  AnsweringInv'
<1> DEFINE waiting == ToSet(actionQueue[r])
           W == {a \in waiting : RddState(r) = "ERROR"}
           answer == [code |-> "RRC_RDD_ERROR", rows |-> NoRows]
           posts == IF RddState(r) = "READY"
                    THEN UNION {ToParts(r, "RDD_ACTION_REQUEST", <<a>>) : a \in waiting} ELSE {}
<1>1. <<r>> \in Actors /\ queue[<<r>>] # << >>
  BY DEF Actors, Takes, HandleActionProcess
<1>2. /\ Reply(<<r>>, {}, posts)
      /\ UNCHANGED <<downs, stored, rddActions, asked>>
      /\ actionQueue' = [actionQueue EXCEPT ![r] = << >>]
      /\ answers' = [a \in Actions |-> IF a \in W THEN Append(answers[a], answer) ELSE answers[a]]
  BY DEF HandleActionProcess, localVars
<1>3. PICK R : Popped(queue, <<r>>, R) /\ Leaves(At(<<r>>), R, net, {}, posts)
  BY <1>1, <1>2, Pops
<1>4. \A t : Holds(R, net, t) => Holds(queue, net, t)
  <2>1. PICK h : h = Head(queue[<<r>>])
    OBVIOUS
  <2> QED  BY <1>3, <2>1, Popping
<1>5. \A x \in posts : \E a \in waiting \ W, p \in Partitions : x = PartRequest(a, p)
  <2> SUFFICES ASSUME NEW x \in posts
               PROVE  \E a \in waiting \ W, p \in Partitions : x = PartRequest(a, p)
    OBVIOUS
  <2>1. RddState(r) = "READY"
    OBVIOUS
  <2>2. PICK a \in waiting : x \in ToParts(r, "RDD_ACTION_REQUEST", <<a>>)
    BY <2>1
  <2>3. PICK p \in Partitions : x = With(<<r, p>>, "RDD_ACTION_REQUEST", <<r>>, <<a>>)
    BY <2>2 DEF ToParts
  <2>4. r = Target[a]
    BY <2>2 DEF AnsweringInv, Waiting
  <2>5. a \notin W
    BY <2>1
  <2> QED  BY <2>2, <2>3, <2>4, <2>5 DEF PartRequest
<1>6. W \in SUBSET ToSet(actionQueue[r])
  OBVIOUS
<1>7. \A a \in waiting : a \in Actions /\ Waits(a)
  BY DEF AnsweringInv, Waiting, Shapes, Waits
<1> HIDE DEF posts, W, waiting, answer
<1>8. \A x \in posts : \E a \in waiting \ W, p \in Partitions :
        /\ x = PartRequest(a, p) /\ Genuine(x)
        /\ Token(x) = PartToken(a, p) /\ ~Holds(R, net, PartToken(a, p))
  <2> TAKE x \in posts
  <2>1. PICK a \in waiting \ W, p \in Partitions : x = PartRequest(a, p)
    BY <1>5
  <2>2. a \in Actions /\ Waits(a) /\ Counting(a)
    BY <1>7 DEF AnsweringInv
  <2>3. ~Holds(queue, net, PartToken(a, p))
    BY <2>2 DEF Counting
  <2> QED  BY <1>4, <2>1, <2>2, <2>3, PartFields
<1>9. Fresh(R, net, {}, posts)
  <2>1. \A x, y \in posts : Token(x) = Token(y) => x = y
    BY <1>8, TokensDiffer
  <2>2. \A x \in posts : Genuine(x) /\ ~Holds(R, net, Token(x))
    BY <1>8
  <2> QED  BY <2>1, <2>2 DEF Fresh
<1>10. /\ Delivered(queue', net') /\ Single(queue', net') /\ DOMAIN queue' = Actors
       /\ \A t : Holds(queue', net', t) => Holds(R, net, t) \/ Brings({}, posts, t)
  <2>1. IsFiniteSet({})
    BY FS_EmptySet
  <2> QED  BY <1>3, <1>9, <2>1, Replied
<1>11. \A t : Brings({}, posts, t) => \E a \in waiting \ W, p \in Partitions : t = PartToken(a, p)
  BY <1>8 DEF Brings
<1>12. \A t : Holds(queue', net', t) =>
         \/ Holds(queue, net, t)
         \/ \E a \in ToSet(actionQueue[r]) \ W, p \in Partitions : t = PartToken(a, p)
  BY <1>4, <1>10, <1>11 DEF waiting
<1>13. Finite'
  BY <1>2, FiniteStays
<1> QED  BY <1>2, <1>6, <1>10, <1>12, <1>13, Released

LEMMA RequestKeeps ==
  ASSUME AnsweringInv, NEW r \in Rdds, HandleRddActionRequest(r)
  PROVE  AnsweringInv'
<1> DEFINE s == RddState(r)
           refusals == [ERROR |-> "RRC_RDD_ERROR", PROCESSING |-> "RRC_RDD_STATE_PROCESSING"]
           next == [PREPARED |-> {Own(r, "RDD_TRANSFORM")}, READY |-> {Own(r, "ACTION_MESSAGE_PROCESS")}]
           counts == [done |-> {}, rows |-> NoRows]
<1>1. <<r>> \in Actors /\ queue[<<r>>] # << >> /\ Takes(<<r>>, "RDD_ACTION_REQUEST")
  BY DEF Actors, Takes, HandleRddActionRequest
<1>2. PICK a \in Actions : /\ r = Target[a] /\ OfRdd(r).what[1] = a
                           /\ Acts(OfRdd(r)) /\ Token(OfRdd(r)) = WholeToken(a)
  BY <1>1, RequestOfRdd
<1>3. UNCHANGED <<downs, stored, asked>>
  BY DEF HandleRddActionRequest, localVars
<1>4. \/ \E code : /\ answers' = Answer(a, code, NoRows)
                   /\ Reply(<<r>>, {}, {})
                   /\ UNCHANGED <<actionQueue, rddActions>>
      \/ \E sends : /\ rddActions' = [b \in {a} \cup DOMAIN rddActions |-> IF b = a THEN counts ELSE rddActions[b]]
                    /\ actionQueue' = [actionQueue EXCEPT ![r] = Append(@, a)]
                    /\ sends \in {{}, {Own(r, "RDD_TRANSFORM")}, {Own(r, "ACTION_MESSAGE_PROCESS")}}
                    /\ Reply(<<r>>, sends, {})
                    /\ UNCHANGED answers
  <2>1. CASE s \in DOMAIN refusals
    <3>1. /\ answers' = Answer(a, refusals[s], NoRows) /\ Reply(<<r>>, {}, {})
          /\ UNCHANGED <<actionQueue, rddActions>>
      BY <1>2, <2>1 DEF HandleRddActionRequest
    <3> QED  BY <3>1
  <2>2. CASE s \notin DOMAIN refusals
    <3>1. /\ rddActions' = [b \in {a} \cup DOMAIN rddActions |-> IF b = a THEN counts ELSE rddActions[b]]
          /\ actionQueue' = [actionQueue EXCEPT ![r] = Append(@, a)]
          /\ Reply(<<r>>, IF s \in DOMAIN next THEN next[s] ELSE {}, {})
          /\ UNCHANGED answers
      BY <1>2, <2>2 DEF HandleRddActionRequest
    <3>2. (IF s \in DOMAIN next THEN next[s] ELSE {})
             \in {{}, {Own(r, "RDD_TRANSFORM")}, {Own(r, "ACTION_MESSAGE_PROCESS")}}
      <4>1. CASE s \in DOMAIN next
        <5>1. s = "PREPARED" \/ s = "READY"
          BY <4>1
        <5>2. next.PREPARED = {Own(r, "RDD_TRANSFORM")} /\ next.READY = {Own(r, "ACTION_MESSAGE_PROCESS")}
          OBVIOUS
        <5> HIDE DEF next
        <5> QED  BY <4>1, <5>1, <5>2
      <4>2. CASE s \notin DOMAIN next
        BY <4>2
      <4> QED  BY <4>1, <4>2
    <3> HIDE DEF next
    <3> QED  BY <3>1, <3>2
  <2> QED  BY <2>1, <2>2
<1> HIDE DEF counts
<1>5. PICK sends : /\ sends \in {{}, {Own(r, "RDD_TRANSFORM")}, {Own(r, "ACTION_MESSAGE_PROCESS")}}
                   /\ Reply(<<r>>, sends, {})
                   /\ \/ /\ \E code : answers' = Answer(a, code, NoRows)
                         /\ UNCHANGED <<actionQueue, rddActions>>
                      \/ /\ rddActions' = [b \in {a} \cup DOMAIN rddActions |-> IF b = a THEN counts ELSE rddActions[b]]
                         /\ actionQueue' = [actionQueue EXCEPT ![r] = Append(@, a)]
                         /\ UNCHANGED answers
  BY <1>4
<1>6. IsFiniteSet(sends) /\ Quiet(sends, {})
  <2>1. ~Acts(Own(r, "RDD_TRANSFORM")) /\ ~Acts(Own(r, "ACTION_MESSAGE_PROCESS"))
    BY OtherOps DEF Own, ActionOps
  <2>2. IsFiniteSet({}) /\ \A y : IsFiniteSet({y})
    BY FS_Singleton, FS_EmptySet
  <2> HIDE DEF next
  <2> QED  BY <1>5, <2>1, <2>2 DEF Quiet
<1>7. PICK R : Popped(queue, <<r>>, R) /\ Leaves(At(<<r>>), R, net, sends, {})
  BY <1>1, <1>5, Pops
<1>8. /\ \A t : Holds(R, net, t) => Holds(queue, net, t)
      /\ Holds(queue, net, WholeToken(a)) /\ ~Holds(R, net, WholeToken(a))
  <2>1. PICK h : h = Head(queue[<<r>>]) /\ h = OfRdd(r)
    BY DEF OfRdd
  <2> QED  BY <1>2, <1>7, <2>1, Popping
<1>9. Fresh(R, net, sends, {}) /\ \A t : ~Brings(sends, {}, t)
  BY <1>6, QuietFresh
<1>10. /\ Delivered(queue', net') /\ Single(queue', net') /\ DOMAIN queue' = Actors
       /\ \A t : Holds(queue', net', t) => Holds(R, net, t)
  BY <1>6, <1>7, <1>9, Replied
<1>11. \A t : Holds(queue', net', t) => Holds(queue, net, t) /\ t # WholeToken(a)
  BY <1>8, <1>10
<1>12. a \in asked /\ a \notin DOMAIN rddActions /\ Len(answers[a]) = 0 /\ IsSeq(answers[a])
  BY <1>8 DEF AnsweringInv, Coming, Shapes
<1>13. \A p \in Partitions : ~Holds(queue, net, PartToken(a, p))
  BY <1>12 DEF AnsweringInv, Counting
<1>14. ~Waits(a)
  BY <1>12 DEF AnsweringInv, Waiting, Waits
<1>15. Finite'
  BY <1>3, FiniteStays
<1>16. /\ Shapes /\ Waiting
       /\ \A b \in Actions : /\ Coming(b) /\ Counting(b)
                             /\ Len(answers[b]) <= (IF b \in asked THEN 1 ELSE 0)
  BY DEF AnsweringInv
<1>17. CASE (\E code : answers' = Answer(a, code, NoRows)) /\ UNCHANGED <<actionQueue, rddActions>>
  <2>1. PICK code : answers' = Answer(a, code, NoRows)
    BY <1>17
  <2>2. /\ DOMAIN answers' = Actions
        /\ \A b \in Actions \ {a} : answers'[b] = answers[b]
        /\ answers'[a] = Append(answers[a], [code |-> code, rows |-> NoRows])
    BY <1>16, <2>1 DEF Answer, Shapes
  <2>3. IsSeq(answers'[a]) /\ Len(answers'[a]) = 1
    <3>1. PICK e : answers'[a] = Append(answers[a], e)
      BY <2>2
    <3> QED  BY <1>12, <3>1, AppendFacts
  <2>4. Shapes'
    BY <1>3, <1>10, <1>16, <1>17, <2>2, <2>3 DEF Shapes
  <2>5. Waiting'
    <3>1. ASSUME NEW u \in Rdds, NEW b \in ToSet(actionQueue'[u])
          PROVE  /\ b \in asked' /\ b \in DOMAIN rddActions' /\ Len(answers'[b]) = 0
                 /\ u = Target[b] /\ rddActions'[b].done = {}
      <4>1. b \in ToSet(actionQueue[u]) /\ b # a /\ b \in Actions
        BY <1>14, <1>16, <1>17, <3>1 DEF Waits, Waiting, Shapes
      <4> QED  BY <1>3, <1>16, <1>17, <2>2, <4>1 DEF Waiting
    <3> QED  BY <3>1 DEF Waiting
  <2>6. ASSUME NEW b \in Actions
        PROVE  /\ Coming(b)' /\ Counting(b)'
               /\ (Len(answers[b]) <= (IF b \in asked THEN 1 ELSE 0))'
    <3>1. CASE b = a
      <4>1. Coming(b)' /\ Counting(b)'
        BY <1>11, <1>13, <3>1 DEF Coming, Counting
      <4>2. (Len(answers[b]) <= (IF b \in asked THEN 1 ELSE 0))'
        <5>1. Len(answers'[b]) = 1 /\ b \in asked'
          BY <1>3, <1>12, <2>3, <3>1
        <5> QED  BY <5>1
      <4> QED  BY <4>1, <4>2
    <3>2. CASE b # a
      <4>1. answers'[b] = answers[b] /\ (Waits(b)' <=> Waits(b))
        BY <1>17, <2>2, <3>2 DEF Waits
      <4>2. Coming(b)'
        BY <1>3, <1>11, <1>16, <1>17, <4>1 DEF Coming
      <4>3. Counting(b)'
        BY <1>3, <1>11, <1>16, <1>17, <4>1 DEF Counting
      <4>4. (Len(answers[b]) <= (IF b \in asked THEN 1 ELSE 0))'
        BY <1>3, <1>16, <4>1
      <4> QED  BY <4>2, <4>3, <4>4
    <3> QED  BY <3>1, <3>2
  <2> QED  BY <1>10, <1>15, <2>4, <2>5, <2>6 DEF AnsweringInv
<1>18. CASE /\ rddActions' = [b \in {a} \cup DOMAIN rddActions |-> IF b = a THEN counts ELSE rddActions[b]]
            /\ actionQueue' = [actionQueue EXCEPT ![r] = Append(@, a)]
            /\ UNCHANGED answers
  <2>1. /\ DOMAIN rddActions' = DOMAIN rddActions \cup {a}
        /\ rddActions'[a].done = {}
        /\ \A b \in DOMAIN rddActions : rddActions'[b] = rddActions[b]
    BY <1>12, <1>18 DEF counts
  <2>2. /\ DOMAIN actionQueue' = Rdds
        /\ actionQueue'[r] = Append(actionQueue[r], a)
        /\ \A u \in Rdds \ {r} : actionQueue'[u] = actionQueue[u]
    BY <1>16, <1>18 DEF Shapes
  <2>3. IsSeq(actionQueue'[r]) /\ ToSet(actionQueue'[r]) = ToSet(actionQueue[r]) \cup {a}
    <3>1. PICK S : actionQueue[r] \in Seq(S)
      BY <1>16 DEF Shapes, IsSeq
    <3>2. actionQueue[r] \in Seq(S \cup {a})
      BY <3>1
    <3>3. ToSet(Append(actionQueue[r], a)) = ToSet(actionQueue[r]) \cup {a}
      BY <3>2, ToSetAppend
    <3>4. IsSeq(Append(actionQueue[r], a))
      BY <1>16, AppendFacts DEF Shapes
    <3> QED  BY <2>2, <3>3, <3>4
  <2>4. Shapes'
    BY <1>3, <1>10, <1>12, <1>16, <1>18, <2>1, <2>2, <2>3 DEF Shapes
  <2>5. ASSUME NEW u \in Rdds, NEW b \in ToSet(actionQueue'[u]), b # a
        PROVE  b \in ToSet(actionQueue[u])
    BY <2>2, <2>3, <2>5
  <2>6. Waiting'
    <3>1. ASSUME NEW u \in Rdds, NEW b \in ToSet(actionQueue'[u])
          PROVE  /\ b \in asked' /\ b \in DOMAIN rddActions' /\ Len(answers'[b]) = 0
                 /\ u = Target[b] /\ rddActions'[b].done = {}
      <4>1. CASE b = a
        <5>1. u = r
          BY <1>14, <2>2, <3>1, <4>1 DEF Waits
        <5> QED  BY <1>2, <1>3, <1>12, <1>18, <2>1, <4>1, <5>1
      <4>2. CASE b # a
        BY <1>3, <1>16, <1>18, <2>1, <2>5, <4>2 DEF Waiting
      <4> QED  BY <4>1, <4>2
    <3> QED  BY <3>1 DEF Waiting
  <2>7. ASSUME NEW b \in Actions
        PROVE  /\ Coming(b)' /\ Counting(b)'
               /\ (Len(answers[b]) <= (IF b \in asked THEN 1 ELSE 0))'
    <3>1. CASE b = a
      <4>1. Coming(b)' /\ Counting(b)'
        BY <1>11, <1>13, <3>1 DEF Coming, Counting
      <4> QED  BY <1>3, <1>16, <1>18, <4>1
    <3>2. CASE b # a
      <4>1. Waits(b)' => Waits(b)
        BY <2>5, <3>2 DEF Waits
      <4> QED  BY <1>3, <1>11, <1>16, <1>18, <2>1, <3>2, <4>1 DEF Coming, Counting
    <3> QED  BY <3>1, <3>2
  <2> QED  BY <1>10, <1>15, <2>4, <2>6, <2>7 DEF AnsweringInv
<1> QED  BY <1>5, <1>17, <1>18

LEMMA ResponseKeeps ==
  ASSUME AnsweringInv, NEW r \in Rdds, HandleRddActionResponse(r)
  PROVE  AnsweringInv'
<1>1. <<r>> \in Actors /\ queue[<<r>>] # << >> /\ Takes(<<r>>, "RDD_ACTION_RESPONSE")
  BY DEF Actors, Takes, HandleRddActionResponse
<1>2. PICK a \in Actions, p \in Partitions :
        /\ r = Target[a] /\ OfRdd(r).what[1] = a /\ OfRdd(r).from[2] = p
        /\ Acts(OfRdd(r)) /\ Token(OfRdd(r)) = PartToken(a, p)
  BY <1>1, ResponseOfRdd
<1>3. Reply(<<r>>, {}, {}) /\ UNCHANGED <<downs, stored, actionQueue, asked>>
  BY DEF HandleRddActionResponse, localVars
<1> DEFINE done == rddActions[a].done \cup {p}
           rows == rddActions[a].rows (+) OfRdd(r).rows
<1>4. IF done = Partitions
      THEN /\ answers' = Answer(a, "RRC_SUCCESS", rows)
           /\ rddActions' = [b \in DOMAIN rddActions \ {a} |-> rddActions[b]]
      ELSE /\ rddActions' = [rddActions EXCEPT ![a] = [done |-> done, rows |-> rows]]
           /\ UNCHANGED answers
  BY <1>2 DEF HandleRddActionResponse
<1> HIDE DEF rows
<1>5. PICK R : Popped(queue, <<r>>, R) /\ Leaves(At(<<r>>), R, net, {}, {})
  BY <1>1, <1>3, Pops
<1>6. /\ \A t : Holds(R, net, t) => Holds(queue, net, t)
      /\ Holds(queue, net, PartToken(a, p)) /\ ~Holds(R, net, PartToken(a, p))
  <2>1. PICK h : h = Head(queue[<<r>>]) /\ h = OfRdd(r)
    BY DEF OfRdd
  <2> QED  BY <1>2, <1>5, <2>1, Popping
<1>7. /\ Delivered(queue', net') /\ Single(queue', net') /\ DOMAIN queue' = Actors
      /\ \A t : Holds(queue', net', t) => Holds(R, net, t)
  <2>1. Quiet({}, {}) /\ IsFiniteSet({})
    BY FS_EmptySet DEF Quiet
  <2>2. Fresh(R, net, {}, {}) /\ \A t : ~Brings({}, {}, t)
    BY <2>1, QuietFresh
  <2> QED  BY <1>5, <2>1, <2>2, Replied
<1>8. \A t : Holds(queue', net', t) => Holds(queue, net, t) /\ t # PartToken(a, p)
  BY <1>6, <1>7
<1>9. /\ a \in asked /\ a \in DOMAIN rddActions /\ Len(answers[a]) = 0 /\ IsSeq(answers[a])
      /\ ~Waits(a)
  BY <1>6 DEF AnsweringInv, Counting, Shapes
<1>10. ~Holds(queue, net, WholeToken(a))
  BY <1>9 DEF AnsweringInv, Coming
<1>11. \A q \in Partitions : Holds(queue', net', PartToken(a, q)) => q \notin done
  <2> SUFFICES ASSUME NEW q \in Partitions, Holds(queue', net', PartToken(a, q))  PROVE q \notin done
    OBVIOUS
  <2>1. q # p /\ Holds(queue, net, PartToken(a, q))
    BY <1>8
  <2>2. q \notin rddActions[a].done
    BY <2>1 DEF AnsweringInv, Counting
  <2> QED  BY <2>1, <2>2
<1>12. Finite'
  BY <1>3, FiniteStays
<1>13. /\ Shapes /\ Waiting
       /\ \A b \in Actions : /\ Coming(b) /\ Counting(b)
                             /\ Len(answers[b]) <= (IF b \in asked THEN 1 ELSE 0)
  BY DEF AnsweringInv
<1>14. /\ DOMAIN rddActions' \subseteq DOMAIN rddActions
       /\ \A b \in DOMAIN rddActions \ {a} : b \in DOMAIN rddActions' /\ rddActions'[b] = rddActions[b]
       /\ DOMAIN answers' = Actions /\ \A b \in Actions \ {a} : answers'[b] = answers[b]
  BY <1>4, <1>13 DEF Answer, Shapes
<1>15. \A b \in Actions : Waits(b)' <=> Waits(b)
  BY <1>3 DEF Waits
<1>16. /\ IsSeq(answers'[a])
       /\ Len(answers'[a]) <= 1
       /\ \A q \in Partitions : Holds(queue', net', PartToken(a, q)) =>
            a \in DOMAIN rddActions' /\ Len(answers'[a]) = 0 /\ q \notin rddActions'[a].done
  <2>1. CASE done = Partitions
    <3>1. PICK e : answers'[a] = Append(answers[a], e)
      BY <1>4, <1>13, <2>1 DEF Answer, Shapes
    <3>2. IsSeq(answers'[a]) /\ Len(answers'[a]) = 1
      BY <1>9, <3>1, AppendFacts
    <3> QED  BY <1>11, <2>1, <3>2
  <2>2. CASE done # Partitions
    <3>1. a \in DOMAIN rddActions' /\ rddActions'[a].done = done /\ answers'[a] = answers[a]
      BY <1>4, <1>9, <2>2
    <3> QED  BY <1>9, <1>11, <3>1
  <2> QED  BY <2>1, <2>2
<1> HIDE DEF done
<1>17. Shapes'
  BY <1>3, <1>7, <1>13, <1>14, <1>16 DEF Shapes
<1>18. Waiting'
  <2>1. ASSUME NEW u \in Rdds, NEW b \in ToSet(actionQueue'[u])
        PROVE  /\ b \in asked' /\ b \in DOMAIN rddActions' /\ Len(answers'[b]) = 0
               /\ u = Target[b] /\ rddActions'[b].done = {}
    <3>1. b \in ToSet(actionQueue[u]) /\ b # a /\ b \in Actions
      BY <1>3, <1>9, <1>13, <2>1 DEF Waits, Waiting, Shapes
    <3> QED  BY <1>3, <1>13, <1>14, <3>1 DEF Waiting
  <2> QED  BY <2>1 DEF Waiting
<1>19. ASSUME NEW b \in Actions
       PROVE  /\ Coming(b)' /\ Counting(b)'
              /\ (Len(answers[b]) <= (IF b \in asked THEN 1 ELSE 0))'
  <2>1. CASE b = a
    <3>1. Coming(b)'
      BY <1>8, <1>10, <2>1 DEF Coming
    <3>2. Counting(b)'
      BY <1>3, <1>9, <1>15, <1>16, <2>1 DEF Counting
    <3> QED  BY <1>3, <1>9, <1>16, <2>1, <3>1, <3>2
  <2>2. CASE b # a
    <3>1. answers'[b] = answers[b]
      BY <1>14, <2>2
    <3>2. Coming(b)'
      BY <1>3, <1>8, <1>13, <1>14, <3>1 DEF Coming
    <3>3. Counting(b)'
      BY <1>3, <1>8, <1>13, <1>14, <1>15, <2>2, <3>1 DEF Counting
    <3> QED  BY <1>3, <1>13, <3>1, <3>2, <3>3
  <2> QED  BY <2>1, <2>2
<1> QED  BY <1>7, <1>12, <1>17, <1>18, <1>19 DEF AnsweringInv

LEMMA PartitionActionKeeps ==
  ASSUME AnsweringInv, NEW r \in Rdds, NEW p \in Partitions, PartitionAction(r, p)
  PROVE  AnsweringInv'
<1> DEFINE what == OfPart(r, p).what
           x == [With(<<r>>, "RDD_ACTION_RESPONSE", <<r, p>>, what) EXCEPT !.rows = stored[<<r, p>>]]
<1>1. <<r, p>> \in Actors /\ queue[<<r, p>>] # << >> /\ Takes(<<r, p>>, "RDD_ACTION_REQUEST")
  BY DEF Actors, Takes, PartitionAction
<1>2. PICK a \in Actions : /\ r = Target[a] /\ what = <<a>>
                           /\ Acts(OfPart(r, p)) /\ Token(OfPart(r, p)) = PartToken(a, p)
  BY <1>1, RequestOfPart
<1>3. Reply(<<r, p>>, {x}, {}) /\ UNCHANGED <<downs, stored, actionVars, asked>>
  BY DEF PartitionAction, Nothing, localVars
<1>4. x.op = "RDD_ACTION_RESPONSE" /\ x.to = <<r>> /\ x.from = <<r, p>> /\ x.what = what
  BY DEF With, Msg
<1> HIDE DEF x, what
<1>5. IsPartResponse(x, a, p)
  BY <1>2, <1>4 DEF IsPartResponse
<1>6. Genuine(x) /\ Token(x) = PartToken(a, p)
  BY <1>5, ResponseFields
<1>7. PICK R : Popped(queue, <<r, p>>, R) /\ Leaves(At(<<r, p>>), R, net, {x}, {})
  BY <1>1, <1>3, Pops
<1>8. /\ \A t : Holds(R, net, t) => Holds(queue, net, t)
      /\ Holds(queue, net, PartToken(a, p)) /\ ~Holds(R, net, PartToken(a, p))
  <2>1. PICK h : h = Head(queue[<<r, p>>]) /\ h = OfPart(r, p)
    BY DEF OfPart
  <2> QED  BY <1>2, <1>7, <2>1, Popping
<1>9. Fresh(R, net, {x}, {}) /\ IsFiniteSet({x})
  BY <1>6, <1>8, FS_Singleton DEF Fresh
<1>10. /\ Delivered(queue', net') /\ Single(queue', net') /\ DOMAIN queue' = Actors
       /\ \A t : Holds(queue', net', t) => Holds(R, net, t) \/ Brings({x}, {}, t)
  BY <1>7, <1>9, Replied
<1>11. Fewer
  BY <1>6, <1>8, <1>10 DEF Fewer, Brings
<1>12. Finite'
  BY <1>3, FiniteStays
<1> QED  BY <1>3, <1>11, <1>12, Carried

LEMMA AskKeeps ==
  ASSUME AnsweringInv, NEW a \in Actions, Ask(a)
  PROVE  AnsweringInv'
<1> DEFINE x == With(<<Target[a]>>, "RDD_ACTION_REQUEST", << >>, <<a>>)
<1>1. /\ a \notin asked /\ asked' = asked \cup {a}
      /\ Leaves(Home[Target[a]], queue, net, {}, {x})
      /\ UNCHANGED <<downs, stored, actionVars>>
  BY DEF Ask, localVars
<1>2. x = WholeRequest(a)
  BY DEF WholeRequest
<1> HIDE DEF x
<1>3. Genuine(x) /\ Acts(x) /\ Token(x) = WholeToken(a)
  BY <1>2, WholeFields
<1>4. /\ Shapes /\ Waiting /\ Delivered(queue, net) /\ Single(queue, net)
      /\ \A b \in Actions : /\ Coming(b) /\ Counting(b)
                            /\ Len(answers[b]) <= (IF b \in asked THEN 1 ELSE 0)
  BY DEF AnsweringInv
<1>5. /\ ~Holds(queue, net, WholeToken(a))
      /\ \A p \in Partitions : ~Holds(queue, net, PartToken(a, p))
  BY <1>1, <1>4 DEF Coming, Counting
<1>6. Fresh(queue, net, {}, {x}) /\ IsFiniteSet({})
  BY <1>3, <1>5, FS_EmptySet DEF Fresh
<1>7. /\ Delivered(queue', net') /\ Single(queue', net') /\ DOMAIN queue' = Actors
      /\ \A t : Holds(queue', net', t) => Holds(queue, net, t) \/ Brings({}, {x}, t)
  BY <1>1, <1>4, <1>6, Left
<1>8. \A t : Holds(queue', net', t) => Holds(queue, net, t) \/ t = WholeToken(a)
  BY <1>3, <1>7 DEF Brings
<1>9. Finite'
  BY <1>1, FiniteStays
<1>10. a \notin DOMAIN rddActions /\ Len(answers[a]) = 0 /\ Len(answers[a]) \in Nat
  BY <1>1, <1>4, SeqFacts DEF Shapes
<1>11. Shapes' /\ Waiting'
  BY <1>1, <1>4, <1>7 DEF Shapes, Waiting, actionVars
<1>12. ASSUME NEW b \in Actions
       PROVE  /\ Coming(b)' /\ Counting(b)'
              /\ (Len(answers[b]) <= (IF b \in asked THEN 1 ELSE 0))'
  <2>1. Coming(b)'
    <3>1. CASE b = a
      BY <1>1, <1>10, <3>1 DEF Coming, actionVars
    <3>2. CASE b # a
      <4>1. WholeToken(b) # WholeToken(a)
        BY <3>2, TokensDiffer
      <4> QED  BY <1>1, <1>4, <1>8, <4>1 DEF Coming, actionVars
    <3> QED  BY <3>1, <3>2
  <2>2. Counting(b)'
    <3>1. \A p : PartToken(b, p) # WholeToken(a)
      BY TokensDiffer
    <3>2. \A p \in Partitions : Holds(queue', net', PartToken(b, p)) => Holds(queue, net, PartToken(b, p))
      BY <1>8, <3>1
    <3> QED  BY <1>1, <1>4, <3>2 DEF Counting, Waits, actionVars
  <2>3. (Len(answers[b]) <= (IF b \in asked THEN 1 ELSE 0))'
    <3>1. Len(answers[b]) \in Nat
      BY <1>4, SeqFacts DEF Shapes
    <3> QED  BY <1>1, <1>4, <3>1 DEF actionVars
  <2> QED  BY <2>1, <2>2, <2>3
<1> QED  BY <1>7, <1>9, <1>11, <1>12 DEF AnsweringInv

-----------------------------------------------------------------------------
LEMMA AnsweringInit == Init => AnsweringInv
<1> SUFFICES ASSUME Init  PROVE AnsweringInv
  OBVIOUS
<1>1. /\ queue = [b \in Actors |-> << >>] /\ net = EmptyBag
      /\ answers = [a \in Actions |-> << >>] /\ actionQueue = [r \in Rdds |-> << >>]
      /\ asked = {} /\ rddActions = << >>
      /\ downs = [m \in Members |-> [r \in Rdds |-> << >>]]
  BY DEF Init
<1>2. DOMAIN net = {} /\ DOMAIN rddActions = {}
  BY <1>1, EmptyFacts DEF EmptyBag, SetToBag
<1>3. \A b \in Actors : IsSeq(queue[b]) /\ Len(queue[b]) = 0 /\ 1..Len(queue[b]) = {}
  BY <1>1, EmptyFacts
<1>4. \A t : ~Holds(queue, net, t)
  BY <1>2, <1>3 DEF Holds
<1>5. Delivered(queue, net) /\ Single(queue, net)
  BY <1>2, <1>3 DEF Delivered, Single
<1>6. Shapes
  BY <1>1, <1>2, EmptyFacts DEF Shapes
<1>7. Finite
  <2>1. PICK there : stored = [a \in Rdds \X Partitions |-> IF a[1] \in there THEN Rows(a[1], a[2]) ELSE NoRows]
    BY DEF Init
  <2>2. \A r, p : IsFiniteSet(DOMAIN Rows(r, p))
    BY FS_Singleton DEF Rows, SetToBag
  <2>3. IsFiniteSet(DOMAIN NoRows)
    BY FS_EmptySet DEF NoRows, EmptyBag, SetToBag
  <2>4. \A r \in Rdds, p \in Partitions : stored[<<r, p>>] = Rows(r, p) \/ stored[<<r, p>>] = NoRows
    BY <2>1
  <2>5. DOMAIN stored = Rdds \X Partitions
    BY <2>1
  <2>6. \A r \in Rdds, p \in Partitions : IsFiniteSet(DOMAIN stored[<<r, p>>])
    BY <2>2, <2>3, <2>4
  <2> QED  BY <1>1, <2>5, <2>6, EmptyFacts DEF Finite
<1>8. Waiting
  <2>1. ToSet(<< >>) = {}
    BY ToSetOfNone
  <2> QED  BY <1>1, <2>1 DEF Waiting
<1>9. \A a \in Actions : Coming(a) /\ Counting(a)
  BY <1>4 DEF Coming, Counting
<1>10. \A a \in Actions : Len(answers[a]) <= (IF a \in asked THEN 1 ELSE 0)
  BY <1>1, EmptyFacts
<1> QED  BY <1>5, <1>6, <1>7, <1>8, <1>9, <1>10 DEF AnsweringInv

LEMMA AnsweringStep == AnsweringInv /\ [Next]_vars => AnsweringInv'
<1> SUFFICES ASSUME AnsweringInv, [Next]_vars  PROVE AnsweringInv'
  OBVIOUS
<1>1. CASE System
  <2>1. ASSUME NEW x \in BagToSet(net), Arrive(x) \/ Service(x)  PROVE AnsweringInv'
    <3>1. x \in DOMAIN net
      BY DEF BagToSet
    <3> QED  BY <2>1, <3>1, ArriveKeeps, ServiceKeeps
  <2>2. ASSUME NEW r \in Rdds, RddStep(r)  PROVE AnsweringInv'
    <3>1. CASE HandleRddPartitionPrepared(r)
      <4>1. CASE Fail(r) /\ Takes(<<r>>, "RDD_PARTITION_PREPARED")
        BY <4>1, FailKeeps
      <4> QED  BY <3>1, <4>1, PreparedKeeps
    <3>2. CASE HandleRddTransform(r)
      <4>1. CASE Fail(r) /\ Takes(<<r>>, "RDD_TRANSFORM")
        BY <4>1, FailKeeps
      <4> QED  BY <3>2, <4>1, TransformKeeps
    <3>3. CASE HandleRddActionRequest(r)
      BY <3>3, RequestKeeps
    <3>4. CASE HandleActionProcess(r)
      BY <3>4, ActionProcessKeeps
    <3>5. CASE HandleRddActionResponse(r)
      BY <3>5, ResponseKeeps
    <3> QED  BY <2>2, <3>1, <3>2, <3>3, <3>4, <3>5, RddKeeps DEF RddStep
  <2>3. ASSUME NEW r \in Rdds, NEW p \in Partitions, PartitionStep(r, p)  PROVE AnsweringInv'
    BY <2>3, PartitionKeeps, PartitionActionKeeps DEF PartitionStep
  <2>4. ASSUME NEW c \in late, LateStateSync(c[1], c[2])  PROVE AnsweringInv'
    BY <2>4, LateKeeps
  <2> QED  BY <1>1, <2>1, <2>2, <2>3, <2>4 DEF System
<1>2. ASSUME NEW r \in Rdds, CreateRdd(r)  PROVE AnsweringInv'
  BY <1>2, CreateKeeps
<1>3. ASSUME NEW a \in Actions, Ask(a)  PROVE AnsweringInv'
  BY <1>3, AskKeeps
<1>4. CASE UNCHANGED vars
  <2>1. UNCHANGED <<downs, stored, actionVars, asked, queue, net>>
    BY <1>4 DEF vars, localVars
  <2>2. Fewer /\ Finite'
    BY <2>1, FiniteStays DEF AnsweringInv, Shapes, Fewer
  <2> QED  BY <2>1, <2>2, Carried
<1> QED  BY <1>1, <1>2, <1>3, <1>4 DEF Next

(* The messages about an action agree with what the actors have noted of it: *)
(* one before BaseRddActor::handleRddActionRequest, afterwards one at most   *)
(* for each partition, and none for a partition already counted.            *)
THEOREM AnsweringInvariance == Spec => []AnsweringInv
BY AnsweringInit, AnsweringStep, PTL DEF Spec

(* No action is answered twice, or unasked, and handleRddActionResponse,     *)
(* which does not look at what find() returns, always finds its action,      *)
(* whatever the RDDs, the plans and the order of the messages.               *)
THEOREM AnsweredOnceAlways == Spec => []AnsweredOnce
<1>1. ASSUME AnsweringInv  PROVE AnsweredOnce
  <2>1. \A a \in Actions : Len(answers[a]) <= (IF a \in asked THEN 1 ELSE 0)
    BY <1>1 DEF AnsweringInv
  <2>2. ASSUME NEW r \in Rdds, Takes(<<r>>, "RDD_ACTION_RESPONSE")
        PROVE  OfRdd(r).what[1] \in DOMAIN rddActions
    <3>1. PICK a \in Actions, p \in Partitions :
            /\ OfRdd(r).what[1] = a /\ Acts(OfRdd(r)) /\ Token(OfRdd(r)) = PartToken(a, p)
      BY <1>1, <2>2, ResponseOfRdd
    <3>2. <<r>> \in Actors /\ queue[<<r>>] # << >> /\ OfRdd(r) = Head(queue[<<r>>])
      BY <2>2 DEF Actors, Takes, OfRdd
    <3>3. PICK h : h = OfRdd(r) /\ h = Head(queue[<<r>>])
      BY <3>2
    <3>4. Holds(queue, net, PartToken(a, p))
      BY <1>1, <3>1, <3>2, <3>3, Pops, Popping
    <3> QED  BY <1>1, <3>1, <3>4 DEF AnsweringInv, Counting
  <2> QED  BY <2>1, <2>2 DEF AnsweredOnce
<1> QED  BY <1>1, AnsweringInvariance, PTL
=============================================================================
