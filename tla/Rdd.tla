--------------------------------- MODULE Rdd ---------------------------------
(***************************************************************************)
(* Datasets (RDDs) derived from one another (services/rddng/src/idgs/rdd/). *)
(* An RDD is an actor at one member, an actor for each of its partitions at *)
(* the member that is primary for it, and at every member an RddLocal that  *)
(* links it to the RDDs it is derived from.  Rows are not moved when an RDD *)
(* is created, but when an action asks for them: the RDD asks its upstream  *)
(* to transform, whose partitions push their rows into the partitions of    *)
(* every RDD linked to it, and each actor counts the answers of its         *)
(* partitions.                                                              *)
(*                                                                          *)
(* A handler is one step.  sendMessage to an actor of the same member puts  *)
(* the message in its queue at once; postMessage, and everything to another *)
(* member, goes through a queue of workers, which keeps no order.           *)
(***************************************************************************)
EXTENDS Naturals, FiniteSets, BagsExt, SequencesExt

CONSTANTS Members, Partitions,
          Primary,    \* the primary member of each partition
          HashOf,     \* calcPartitionId of the keys in each partition of a store
          Rdds,
          Home,       \* the member of each RDD's actor
          Upstream,   \* what each RDD is derived from, in order; << >> for a store delegate
          Actions,    \* bound: the actions clients ask for
          Target,     \* the RDD each of them is for
          Plans       \* bound: what clients create and ask for, see Plan

Stores == {r \in Rdds : Upstream[r] = << >>}
Derived == Rdds \ Stores

(* fresh: the store delegates that clients create as well; persist: the      *)
(* persist types asked for; spread: the RDDs whose rows are repartitioned;   *)
(* broken: those whose last input does not parse, at the members given;      *)
(* asks: the actions; delayed: the RDDs that once announce a state which     *)
(* their member handles late.                                                *)
Plan == [fresh : SUBSET Stores,
         persist : [Derived -> {"NONE", "ORDERED"}],
         spread : SUBSET Derived,
         broken : SUBSET (Derived \X Members),
         asks : SUBSET Actions,
         delayed : SUBSET Rdds]

(* The ways down from one RDD to others.                                    *)
Ways == {w \in SeqOf(Rdds, Cardinality(Rdds)) :
           w # << >> /\ \A i \in 1..(Len(w) - 1) : w[i] \in ToSet(Upstream[w[i + 1]])}

ASSUME RddAssumption ==
  /\ IsFiniteSet(Partitions) /\ IsFiniteSet(Rdds)
  /\ Primary \in [Partitions -> Members]
  /\ \A m \in Members : \E p \in Partitions : Primary[p] = m
  /\ HashOf \in [Partitions -> Partitions]
  /\ Home \in [Rdds -> Members]
  /\ Upstream \in [Rdds -> Seq(Rdds)]
  /\ Target \in [Actions -> Rdds]
  /\ Plans \subseteq Plan

(* A row is the partition of the store it comes from and the RDDs it has    *)
(* gone through.                                                            *)
RowsOf == [r \in Rdds |-> {<<p>> \o w : p \in Partitions, w \in {v \in Ways : v[1] \in Stores /\ Last(v) = r}}]

VARIABLES plan,
          state,       \* RddLocal::state at each member; the actor shares the one at Home
          downs,       \* RddLocal::downstreamRddLocal at each member, in the order of linking
          persist,     \* RddLocal::persistType at each member
          partState,   \* RddLocal::partitionStates at Home
          transformed, \* RddLocal::transformed, of an RDD at a member
          stored,      \* the rows each partition keeps, a bag
          actionQueue, \* BaseRddActor::actionQueue
          rddActions,  \* BaseRddActor::rddActions: the partitions that have answered, with their rows
          queue,       \* the queue of each actor
          net,         \* what workers or the network have, a bag
          late,        \* announcements of a state, at Home, still to be handled
          spent,       \* the RDDs that have had one
          asked,       \* actions clients have sent
          answers      \* what came back for each

localVars  == <<state, downs, persist, partState, transformed, stored>>
actionVars == <<actionQueue, rddActions, answers>>
lateVars   == <<late, spent>>
vars == <<plan, localVars, actionVars, queue, net, lateVars, asked>>

Actors == {<<r>> : r \in Rdds} \cup (Rdds \X Partitions)
At(a) == IF Len(a) = 2 THEN Primary[a[2]] ELSE IF a[1] \in Members THEN a[1] ELSE Home[a[1]]

NoRows == EmptyBag
Msg(to, op, from) == [to |-> to, op |-> op, from |-> from, what |-> << >>, rows |-> NoRows]
With(to, op, from, what) == [Msg(to, op, from) EXCEPT !.what = what]

RddState(r) == state[Home[r]][r]
SetState(r, s) == state' = [state EXCEPT ![Home[r]][r] = s]
DownOf(r) == ToSet(downs[Home[r]][r])
PartsOf(m) == {p \in Partitions : Primary[p] = m}
AllIn(s, states) == \A p \in Partitions : states[p] = s
AllParts(s) == [p \in Partitions |-> s]

-----------------------------------------------------------------------------
(* What a handler at member m leaves: q and n without the message it took,  *)
(* and what it sends and posts.                                             *)
Leaves(m, q, n, sends, posts) ==
  /\ queue' = [a \in Actors |-> q[a] \o SetToSeq({x \in sends : x.to = a /\ At(a) = m})]
  /\ net' = n (+) SetToBag(posts \cup {x \in sends : At(x.to) # m})

Takes(a, op) == queue[a] # << >> /\ Head(queue[a]).op = op
Reply(a, sends, posts) == Leaves(At(a), [queue EXCEPT ![a] = Tail(@)], net, sends, posts)
Serve(x, sends, posts) == Leaves(x.to[1], queue, net (-) SetToBag({x}), sends, posts)

(* processRddStateChanged posts RDD_STATE_SYNC to every member, Home        *)
(* included, where the handler sets the state the actor uses.  One that is  *)
(* handled before the state changes again changes nothing; the others are   *)
(* late.  Elsewhere only ERROR makes a difference: handlePartitionCreated,  *)
(* which reads it, has made the copy PREPARED.                              *)
Announce(r, s) ==
  \/ UNCHANGED lateVars
  \/ r \in plan.delayed \ spent /\ late' = late \cup {<<r, s>>} /\ spent' = spent \cup {r}

Answer(a, code, rows) == [answers EXCEPT ![a] = Append(@, [code |-> code, rows |-> rows])]

(* The partition p of r pushes a row it has k times, at member m: through   *)
(* RDDs that keep nothing, to those that do or that repartition             *)
(* (processRow).                                                            *)
Streams(m, d) == persist[m][d] = "NONE" /\ d \notin plan.spread
Pushed(r, p, row, k) ==
  LET m == Primary[p]
      Linked(w) == \A i \in 1..(Len(w) - 1) : w[i + 1] \in ToSet(downs[m][w[i]])
      Onward(w) == \A i \in 2..(Len(w) - 1) : Streams(m, w[i])
      Push(d, new) == IF d \in plan.spread
                      THEN With(<<d, HashOf[row[1]]>>, "RE_PARTITION", <<d, p>>, <<new, k>>)
                      ELSE With(<<d, p>>, "PARTITION_STORE", <<d, p>>, <<new, k>>)
  IN {Push(Last(w), row \o Tail(w)) :
        w \in {v \in Ways : Len(v) > 1 /\ v[1] = r /\ Linked(v) /\ Onward(v) /\ ~Streams(m, Last(v))}}

(* BaseRddPartition::transform pushes everything the partition keeps.       *)
PushedAll(r, p) ==
  UNION {Pushed(r, p, row, stored[<<r, p>>][row]) : row \in BagToSet(stored[<<r, p>>])}

(* Some store delegates exist; the others have not been asked for.          *)
Rows(r, p) == SetToBag({<<p, r>>})
Init ==
  /\ plan \in Plans
  /\ LET there == Stores \ plan.fresh
     IN /\ state = [m \in Members |-> [r \in Rdds |-> IF r \in there THEN "READY" ELSE "ABSENT"]]
        /\ persist = [m \in Members |-> [r \in Rdds |-> IF r \in there THEN "ORDERED" ELSE "NONE"]]
        /\ partState = [r \in Rdds |-> AllParts(IF r \in there THEN "PREPARED" ELSE "INIT")]
        /\ stored = [a \in Rdds \X Partitions |-> IF a[1] \in there THEN Rows(a[1], a[2]) ELSE NoRows]
  /\ downs = [m \in Members |-> [r \in Rdds |-> << >>]]
  /\ transformed = {}
  /\ actionQueue = [r \in Rdds |-> << >>]
  /\ rddActions = << >>
  /\ answers = [a \in Actions |-> << >>]
  /\ queue = [a \in Actors |-> << >>]
  /\ net = EmptyBag
  /\ late = {}
  /\ spent = {}
  /\ asked = {}

-----------------------------------------------------------------------------
(* Clients.  They create an RDD once those it is derived from are asked for. *)
BuildingUntilCreated == {"ABSENT", "INIT"}
Building == {"ABSENT", "INIT", "CREATED"}

(* RddInternalServiceActor::handleCreateRdd and handleCreateStoreDelegate,  *)
(* with the handleRddCreate of the actor they make.                         *)
CreateOp(r) == IF r \in Stores THEN "CREATE_DELEGATE_PARTITION" ELSE "CREATE_RDD_PARTITION"
CreateRdd(r) ==
  /\ RddState(r) = "ABSENT"
  /\ \A u \in ToSet(Upstream[r]) : RddState(u) # "ABSENT"
  /\ SetState(r, "INIT")
  /\ Leaves(Home[r], queue, net, {}, {With(<<m>>, CreateOp(r), <<r>>, <<r>>) : m \in Members})
  /\ UNCHANGED <<plan, downs, persist, partState, transformed, stored, actionVars, lateVars, asked>>

(* They ask an RDD that they have asked to create, with what is to be       *)
(* derived from it built, which the integration tests sleep for.  Only      *)
(* where every RDD keeps its rows, the default, do two ask at a time.       *)
Keeps == \A r \in Derived : plan.persist[r] # "NONE"
Ask(a) ==
  LET r == Target[a]
  IN /\ a \in plan.asks \ asked
     /\ RddState(r) # "ABSENT"
     /\ \A w \in Ways : w[1] = r /\ Len(w) > 1 => RddState(Last(w)) \notin Building
     /\ Keeps \/ \A b \in asked : answers[b] # << >>
     /\ asked' = asked \cup {a}
     /\ Leaves(Home[r], queue, net, {}, {With(<<r>>, "RDD_ACTION_REQUEST", << >>, <<a>>)})
     /\ UNCHANGED <<plan, localVars, actionVars, lateVars>>

-----------------------------------------------------------------------------
(* The RddInternalServiceActor of each member, whose handlers hold its      *)
(* mutex.                                                                   *)

(* handleCreateRddPartition, which makes the partitions of the member.      *)
CreatePartition(x) ==
  LET m == x.to[1]
      r == x.what[1]
  IN /\ x.op = "CREATE_RDD_PARTITION"
     /\ state' = [state EXCEPT ![m][r] = "CREATED"]
     /\ Serve(x, {With(<<r>>, "CREATE_RDD_PARTITION_RESPONSE", <<m>>, << >>)}, {})
     /\ UNCHANGED <<plan, downs, persist, partState, transformed, stored, actionVars, lateVars, asked>>

(* handleCreateDelegatePartition, whose partitions take the rows the store  *)
(* has at the member.                                                       *)
CreateDelegatePartition(x) ==
  LET m == x.to[1]
      r == x.what[1]
  IN /\ x.op = "CREATE_DELEGATE_PARTITION"
     /\ state' = [state EXCEPT ![m][r] = "CREATED"]
     /\ persist' = [persist EXCEPT ![m][r] = "ORDERED"]
     /\ stored' = [a \in Rdds \X Partitions |->
                    IF a[1] = r /\ a[2] \in PartsOf(m) THEN Rows(r, a[2]) ELSE stored[a]]
     /\ Serve(x, {With(<<r>>, "CREATE_RDD_PARTITION_RESPONSE", <<m>>, << >>)}, {})
     /\ UNCHANGED <<plan, downs, partState, transformed, actionVars, lateVars, asked>>

(* handlePartitionCreated links the RDD at this member.  The first upstream *)
(* that is not usable decides; while that one is still being built, the     *)
(* message is posted again, so that here it is not taken.                   *)
PartitionCreated(x) ==
  LET m == x.to[1]
      r == x.what[1]
      ups == Upstream[r]
      unusable == SelectSeq(ups, LAMBDA u : state[m][u] \in Building \cup {"ERROR"})
      decides == IF unusable = << >> THEN "READY" ELSE state[m][Head(unusable)]
      linked == decides = "READY"
      fails == ~linked \/ <<r, m>> \in plan.broken
  IN /\ x.op = "PARTITION_CREATED"
     /\ decides \in {"READY", "ERROR"}
     /\ downs' = [downs EXCEPT ![m] =
          [u \in Rdds |-> IF linked /\ u \in ToSet(ups) THEN Append(@[u], r) ELSE @[u]]]
     /\ persist' = [persist EXCEPT ![m][r] = IF linked /\ r \in Derived THEN plan.persist[r] ELSE @]
     /\ state' = [state EXCEPT ![m][r] = IF ~fails /\ m # Home[r] THEN "PREPARED" ELSE @]
     /\ Serve(x, {With(<<r>>, "RDD_PARTITION_PREPARED", <<m>>,
                       <<IF fails THEN "FAILED" ELSE "RRC_SUCCESS">>)}, {})
     /\ UNCHANGED <<plan, partState, transformed, stored, actionVars, lateVars, asked>>

(* handleRddStateSync, elsewhere than at Home.                              *)
StateSync(x) ==
  /\ x.op = "RDD_STATE_SYNC"
  /\ state' = [state EXCEPT ![x.to[1]][x.what[1]] = "ERROR"]
  /\ Serve(x, {}, {})
  /\ UNCHANGED <<plan, downs, persist, partState, transformed, stored, actionVars, lateVars, asked>>

(* ... and at Home, late.                                                   *)
LateStateSync(r, s) ==
  /\ <<r, s>> \in late
  /\ late' = late \ {<<r, s>>}
  /\ SetState(r, s)
  /\ UNCHANGED <<plan, downs, persist, partState, transformed, stored, actionVars, queue, net, spent, asked>>

(* handlePersistTypeSync.                                                   *)
PersistTypeSync(x) ==
  LET m == x.to[1]
      r == x.what[1]
  IN /\ x.op = "PERSIST_TYPE_SYNC"
     /\ persist' = [persist EXCEPT ![m][r] = "ORDERED"]
     /\ Serve(x, {Msg(<<r>>, "RDD_TRANSFORM_PREPARED", <<m>>)}, {})
     /\ UNCHANGED <<plan, state, downs, partState, transformed, stored, actionVars, lateVars, asked>>

-----------------------------------------------------------------------------
(* The actor of an RDD.                                                     *)
OfRdd(r) == Head(queue[<<r>>])
ToParts(r, op, what) == {With(<<r, p>>, op, <<r>>, what) : p \in Partitions}
Own(r, op) == Msg(<<r>>, op, <<r>>)
WithPart(r, ps, s) == [p \in Partitions |-> IF p \in ps THEN s ELSE partState[r][p]]
SetParts(r, states) == partState' = [partState EXCEPT ![r] = states]

(* handleCreateRddPartitionResponse.                                        *)
HandleCreateRddPartitionResponse(r) ==
  LET m == OfRdd(r).from[1]
      states == WithPart(r, PartsOf(m), "CREATED")
      created == AllIn("CREATED", states)
  IN /\ Takes(<<r>>, "CREATE_RDD_PARTITION_RESPONSE")
     /\ SetParts(r, states)
     /\ Reply(<<r>>, {}, {With(<<n>>, "PARTITION_CREATED", <<r>>, <<r>>) : n \in {n \in Members : created}})
     /\ UNCHANGED <<plan, state, downs, persist, transformed, stored, actionVars, lateVars, asked>>

(* processRddError.  handleUpstreamError, which is the same, is left out:    *)
(* DownOf(r) is empty, for an RDD that fails has not been linked to at Home. *)
Fail(r) ==
  /\ SetState(r, "ERROR")
  /\ Announce(r, "ERROR")
  /\ answers' = [a \in Actions |-> IF a \in ToSet(actionQueue[r])
                    THEN Append(answers[a], [code |-> "RRC_RDD_ERROR", rows |-> NoRows])
                    ELSE answers[a]]
  /\ actionQueue' = [actionQueue EXCEPT ![r] = << >>]
  /\ Reply(<<r>>, {}, {With(<<m>>, "RDD_STATE_SYNC", <<r>>, <<r>>) : m \in Members \ {Home[r]}}
                     \cup {Msg(<<d>>, "UPSTREAM_RDD_ERROR", <<r>>) : d \in DownOf(r)})
  /\ UNCHANGED <<plan, downs, persist, partState, transformed, stored, rddActions, asked>>

(* handleRddPartitionPrepared.                                              *)
HandleRddPartitionPrepared(r) ==
  LET m == OfRdd(r).from[1]
      states == WithPart(r, PartsOf(m), "PREPARED")
      prepared == AllIn("PREPARED", states)
      s == IF r \in Stores THEN "READY" ELSE "PREPARED"
  IN /\ Takes(<<r>>, "RDD_PARTITION_PREPARED")
     /\ \/ /\ RddState(r) = "ERROR"
           /\ Reply(<<r>>, {}, {})
           /\ UNCHANGED <<plan, localVars, actionVars, lateVars, asked>>
        \/ /\ RddState(r) # "ERROR"
           /\ OfRdd(r).what # <<"RRC_SUCCESS">>
           /\ Fail(r)
        \/ /\ RddState(r) # "ERROR"
           /\ OfRdd(r).what = <<"RRC_SUCCESS">>
           /\ SetParts(r, states)
           /\ IF prepared THEN SetState(r, s) /\ Announce(r, s)
                          ELSE UNCHANGED <<state, lateVars>>
           /\ Reply(<<r>>, IF prepared /\ actionQueue[r] # << >> THEN {Own(r, "RDD_TRANSFORM")} ELSE {}, {})
           /\ UNCHANGED <<plan, downs, persist, transformed, stored, actionVars, asked>>

(* handleRddTransform.  The RDDs that a transform of r pushes rows to are   *)
(* told, in the order of linking, up to the one that asked for it.          *)
Told(r) ==
  LET ds == downs[Home[r]][r]
      upTo == CHOOSE i \in 0..Len(ds) :
                /\ \A j \in 1..i : <<ds[j]>> # OfRdd(r).from
                /\ i = Len(ds) \/ <<ds[i + 1]>> = OfRdd(r).from
  IN {Msg(<<ds[i]>>, "RDD_TRANSFORM", <<r>>) : i \in 1..upTo}
CallUpstream(r) == {Msg(<<u>>, "RDD_TRANSFORM", <<r>>) : u \in ToSet(Upstream[r])}

TransformPrepared(r) ==
  LET streamed == actionQueue[r] # << >> /\ persist[Home[r]][r] = "NONE"
  IN /\ RddState(r) = "PREPARED"
     /\ transformed' = transformed \ ({Home[r]} \X ToSet(Upstream[r]))
     /\ SetParts(r, AllParts(IF streamed THEN "INIT" ELSE "PREPARED"))
     /\ Reply(<<r>>, {}, Told(r) \cup
          IF streamed THEN {With(<<m>>, "PERSIST_TYPE_SYNC", <<r>>, <<r>>) : m \in Members}
                      ELSE CallUpstream(r))

TransformReady(r) ==
  /\ RddState(r) = "READY"
  /\ SetParts(r, AllParts("PREPARED"))
  /\ Reply(<<r>>, {}, Told(r) \cup ToParts(r, "RDD_TRANSFORM", << >>))
  /\ UNCHANGED transformed

HandleRddTransform(r) ==
  /\ Takes(<<r>>, "RDD_TRANSFORM")
  /\ \/ RddState(r) = "ERROR" /\ Fail(r)
     \/ /\ TransformPrepared(r) \/ TransformReady(r)
        /\ SetState(r, "PROCESSING")
        /\ Announce(r, "PROCESSING")
        /\ UNCHANGED <<plan, downs, persist, stored, actionVars, asked>>
     \/ /\ RddState(r) = "PROCESSING"
        /\ Reply(<<r>>, {}, {})
        /\ UNCHANGED <<plan, localVars, actionVars, lateVars, asked>>

RddTransformPreparedBefore(r) ==
  /\ Takes(<<r>>, "RDD_TRANSFORM_PREPARED")
  /\ SetParts(r, WithPart(r, PartsOf(OfRdd(r).from[1]), "PREPARED"))
  /\ Reply(<<r>>, {}, IF AllIn("PREPARED", partState[r]) THEN CallUpstream(r) ELSE {})
  /\ UNCHANGED <<plan, state, downs, persist, transformed, stored, actionVars, lateVars, asked>>

(* handleRddTransformPrepared.                                              *)
HandleRddTransformPrepared(r) ==
  LET states == WithPart(r, PartsOf(OfRdd(r).from[1]), "PREPARED")
  IN /\ Takes(<<r>>, "RDD_TRANSFORM_PREPARED")
     /\ SetParts(r, states)
     /\ Reply(<<r>>, {}, IF AllIn("PREPARED", states) THEN CallUpstream(r) ELSE {})
     /\ UNCHANGED <<plan, state, downs, persist, transformed, stored, actionVars, lateVars, asked>>

(* processRddReady, with the partition states that made it so.              *)
Ready(r, states) ==
  LET s == IF persist[Home[r]][r] = "NONE" THEN "PREPARED" ELSE "READY"
  IN /\ SetParts(r, states)
     /\ SetState(r, s)
     /\ Announce(r, s)
     /\ Reply(<<r>>, {Msg(<<d>>, "UPSTREAM_RDD_READY", <<r>>) : d \in DownOf(r)} \cup
                     IF actionQueue[r] # << >> THEN {Own(r, "ACTION_MESSAGE_PROCESS")} ELSE {}, {})
     /\ UNCHANGED <<plan, downs, persist, transformed, stored, actionVars, asked>>

Counted(r, states, sends) ==
  /\ SetParts(r, states)
  /\ Reply(<<r>>, sends, {})
  /\ UNCHANGED <<plan, state, downs, persist, transformed, stored, actionVars, lateVars, asked>>

FirstTransformComplete(r) == Takes(<<r>>, "PARTITION_TRANSFORM_COMPLETE") /\ Ready(r, AllParts("READY"))

(* handlePartitionTransformComplete.                                        *)
HandlePartitionTransformComplete(r) ==
  LET states == WithPart(r, {OfRdd(r).from[2]}, "READY")
  IN /\ Takes(<<r>>, "PARTITION_TRANSFORM_COMPLETE")
     /\ IF AllIn("READY", states) THEN Ready(r, states) ELSE Counted(r, states, {})

(* handlePartitionReady.                                                    *)
HandlePartitionReady(r) ==
  LET kept == persist[Home[r]][r] # "NONE"
      s == IF kept THEN "TRANSFORM_COMPLETE" ELSE "READY"
      states == WithPart(r, {OfRdd(r).from[2]}, s)
  IN /\ Takes(<<r>>, "PARTITION_READY")
     /\ IF AllIn(s, states) /\ ~kept
        THEN Ready(r, states)
        ELSE Counted(r, states, IF AllIn(s, states) THEN ToParts(r, "RDD_TRANSFORM", << >>) ELSE {})

(* handleUpstreamReady.  The flags are those of the upstreams at Home,      *)
(* which the other RDDs derived from them there use as well.                *)
HandleUpstreamReady(r) ==
  LET flagged == transformed \cup {<<Home[r], OfRdd(r).from[1]>>}
      ready == \A u \in ToSet(Upstream[r]) : <<Home[r], u>> \in flagged
  IN /\ Takes(<<r>>, "UPSTREAM_RDD_READY")
     /\ transformed' = flagged
     /\ Reply(<<r>>, IF ready THEN ToParts(r, "CHECK_PARTITION_READY", << >>) ELSE {}, {})
     /\ UNCHANGED <<plan, state, downs, persist, partState, stored, actionVars, lateVars, asked>>

(* handleRddActionRequest.                                                  *)
HandleRddActionRequest(r) ==
  LET a == OfRdd(r).what[1]
      s == RddState(r)
      refusals == [ERROR |-> "RRC_RDD_ERROR", PROCESSING |-> "RRC_RDD_STATE_PROCESSING"]
      next == [PREPARED |-> {Own(r, "RDD_TRANSFORM")}, READY |-> {Own(r, "ACTION_MESSAGE_PROCESS")}]
      counts == [done |-> {}, rows |-> NoRows]
  IN /\ Takes(<<r>>, "RDD_ACTION_REQUEST")
     /\ \/ /\ s \in DOMAIN refusals
           /\ answers' = Answer(a, refusals[s], NoRows)
           /\ Reply(<<r>>, {}, {})
           /\ UNCHANGED <<actionQueue, rddActions>>
        \/ /\ s \notin DOMAIN refusals
           /\ rddActions' = [b \in {a} \cup DOMAIN rddActions |-> IF b = a THEN counts ELSE rddActions[b]]
           /\ actionQueue' = [actionQueue EXCEPT ![r] = Append(@, a)]
           /\ Reply(<<r>>, IF s \in DOMAIN next THEN next[s] ELSE {}, {})
           /\ UNCHANGED answers
     /\ UNCHANGED <<plan, localVars, lateVars, asked>>

ActionProcessKept(r) ==
  LET waiting == ToSet(actionQueue[r])
  IN /\ Takes(<<r>>, "ACTION_MESSAGE_PROCESS")
     /\ Reply(<<r>>, {}, IF RddState(r) = "READY"
                         THEN UNION {ToParts(r, "RDD_ACTION_REQUEST", <<a>>) : a \in waiting} ELSE {})
     /\ UNCHANGED <<plan, localVars, actionVars, lateVars, asked>>

(* handleActionProcess takes every action that waits, whatever the state,   *)
(* and does nothing with them unless that is READY or ERROR.                *)
HandleActionProcess(r) ==
  LET waiting == ToSet(actionQueue[r])
  IN /\ Takes(<<r>>, "ACTION_MESSAGE_PROCESS")
     /\ actionQueue' = [actionQueue EXCEPT ![r] = << >>]
     /\ answers' = [a \in Actions |-> IF a \in waiting /\ RddState(r) = "ERROR"
                       THEN Append(answers[a], [code |-> "RRC_RDD_ERROR", rows |-> NoRows])
                       ELSE answers[a]]
     /\ Reply(<<r>>, {}, IF RddState(r) = "READY"
                         THEN UNION {ToParts(r, "RDD_ACTION_REQUEST", <<a>>) : a \in waiting} ELSE {})
     /\ UNCHANGED <<plan, localVars, rddActions, lateVars, asked>>

(* handleRddActionResponse, which takes what find() returns.                *)
HandleRddActionResponse(r) ==
  LET x == OfRdd(r)
      a == x.what[1]
      done == rddActions[a].done \cup {x.from[2]}
      rows == rddActions[a].rows (+) x.rows
  IN /\ Takes(<<r>>, "RDD_ACTION_RESPONSE")
     /\ a \in DOMAIN rddActions
     /\ IF done = Partitions
        THEN /\ answers' = Answer(a, "RRC_SUCCESS", rows)
             /\ rddActions' = [b \in DOMAIN rddActions \ {a} |-> rddActions[b]]
        ELSE /\ rddActions' = [rddActions EXCEPT ![a] = [done |-> done, rows |-> rows]]
             /\ UNCHANGED answers
     /\ Reply(<<r>>, {}, {})
     /\ UNCHANGED <<plan, localVars, actionQueue, lateVars, asked>>

-----------------------------------------------------------------------------
(* The actor of a partition.                                                *)
OfPart(r, p) == Head(queue[<<r, p>>])
OnlyStored == UNCHANGED <<plan, state, downs, persist, partState, transformed, actionVars, lateVars, asked>>
Nothing == UNCHANGED <<plan, localVars, actionVars, lateVars, asked>>

(* handleRddTransform; that of a store delegate also sets the state of the  *)
(* partition in the RddLocal of its member.                                 *)
PartitionTransform(r, p) ==
  /\ Takes(<<r, p>>, "RDD_TRANSFORM")
  /\ Reply(<<r, p>>, PushedAll(r, p) \cup {Msg(<<r>>, "PARTITION_TRANSFORM_COMPLETE", <<r, p>>)}, {})
  /\ partState' = IF r \in Stores /\ Home[r] = Primary[p]
                  THEN [partState EXCEPT ![r][p] = "TRANSFORM_COMPLETE"] ELSE partState
  /\ UNCHANGED <<plan, state, downs, persist, transformed, stored, actionVars, lateVars, asked>>

(* persist: nothing, unless the RDD is to keep its rows.                    *)
Persist(r, p, what) ==
  stored' = IF persist[Primary[p]][r] = "NONE" THEN stored
            ELSE [stored EXCEPT ![<<r, p>>] = @ (+) [row \in {what[1]} |-> what[2]]]

(* handlePartitionStore.                                                    *)
PartitionStore(r, p) ==
  /\ Takes(<<r, p>>, "PARTITION_STORE")
  /\ Persist(r, p, OfPart(r, p).what)
  /\ Reply(<<r, p>>, {}, {})
  /\ OnlyStored

(* handleRePartition.                                                       *)
RePartition(r, p) ==
  LET what == OfPart(r, p).what
  IN /\ Takes(<<r, p>>, "RE_PARTITION")
     /\ Persist(r, p, what)
     /\ Reply(<<r, p>>, IF persist[Primary[p]][r] = "NONE" THEN Pushed(r, p, what[1], what[2]) ELSE {}, {})
     /\ OnlyStored

(* handleCheckPartitionReady looks at what is in the queue behind it.       *)
CheckPartitionReady(r, p) ==
  LET behind == Tail(queue[<<r, p>>]) # << >>
  IN /\ Takes(<<r, p>>, "CHECK_PARTITION_READY")
     /\ Reply(<<r, p>>, IF behind THEN {} ELSE {Msg(<<r>>, "PARTITION_READY", <<r, p>>)},
                        IF behind THEN {OfPart(r, p)} ELSE {})
     /\ Nothing

(* handleActionRequest: here an action collects the rows.                   *)
PartitionAction(r, p) ==
  /\ Takes(<<r, p>>, "RDD_ACTION_REQUEST")
  /\ Reply(<<r, p>>, {[With(<<r>>, "RDD_ACTION_RESPONSE", <<r, p>>, OfPart(r, p).what)
                         EXCEPT !.rows = stored[<<r, p>>]]}, {})
  /\ Nothing

-----------------------------------------------------------------------------
(* A worker takes a message to its actor.  handleRddTransform posts its     *)
(* message again while the RDD is not linked: here it waits for that.       *)
Arrive(x) ==
  /\ x.to \in Actors
  /\ ~(Len(x.to) = 1 /\ x.op = "RDD_TRANSFORM" /\ RddState(x.to[1]) \in Building)
  /\ net' = net (-) SetToBag({x})
  /\ queue' = [queue EXCEPT ![x.to] = Append(@, x)]
  /\ Nothing

Service(x) == CreatePartition(x) \/ CreateDelegatePartition(x) \/ PartitionCreated(x)
              \/ StateSync(x) \/ PersistTypeSync(x)

RddStep(r) ==
  \/ HandleCreateRddPartitionResponse(r) \/ HandleRddPartitionPrepared(r)
  \/ HandleRddTransform(r) \/ HandleRddTransformPrepared(r)
  \/ HandlePartitionTransformComplete(r) \/ HandlePartitionReady(r)
  \/ HandleUpstreamReady(r)
  \/ HandleRddActionRequest(r) \/ HandleActionProcess(r) \/ HandleRddActionResponse(r)

PartitionStep(r, p) ==
  \/ PartitionTransform(r, p) \/ PartitionStore(r, p) \/ RePartition(r, p)
  \/ CheckPartitionReady(r, p) \/ PartitionAction(r, p)

System ==
  \/ \E x \in BagToSet(net) : Arrive(x) \/ Service(x)
  \/ \E r \in Rdds : RddStep(r) \/ \E p \in Partitions : PartitionStep(r, p)
  \/ \E c \in late : LateStateSync(c[1], c[2])

Next ==
  \/ System
  \/ \E r \in Rdds : CreateRdd(r)
  \/ \E a \in Actions : Ask(a)

(* Workers keep taking messages, and no message is lost.                    *)
Spec == Init /\ [][Next]_vars /\ WF_vars(System)

-----------------------------------------------------------------------------
Lineage == [r \in Rdds |-> {w[1] : w \in {v \in Ways : Last(v) = r}}]
Prompt == spent = {}
Has(answer, r) == answer.code = "RRC_SUCCESS" => \A row \in RowsOf[r] : BagIn(row, answer.rows)

(* The rows that answer an action which succeeds are all the rows the RDD    *)
(* is derived from: its partitions have been counted twice, and their        *)
(* upstream's twice, and none was counted with rows still on their way.      *)
(* Where rows are repartitioned this is GroupedComplete; where an RDD keeps  *)
(* none until an action asks, an announcement handled late can start a       *)
(* transform that loses them (handleRddStateSync).                           *)
AnswersComplete ==
  \A a \in Actions : \A answer \in ToSet(answers[a]) :
    (Prompt \/ Keeps) /\ Lineage[Target[a]] \cap plan.spread = {} => Has(answer, Target[a])

(* The same of every RDD, a group by key too, as the test of one expects:    *)
(* EXPECT_DOUBLE_EQ(77949.918600, total), before the grouping and after it   *)
(* (reducebykey_transformer_test.cpp).  handleCheckPartitionReady knows only *)
(* the rows in the queue, not those on their way to it.                      *)
GroupedComplete ==
  \A a \in Actions : \A answer \in ToSet(answers[a]) : Has(answer, Target[a])

(* No action is answered twice, or unasked, and handleRddActionResponse,     *)
(* which does not look at what find() returns, always finds its action, even *)
(* when a state handled late has had it counted anew.                        *)
AnsweredOnce ==
  /\ \A a \in Actions : Len(answers[a]) <= (IF a \in asked THEN 1 ELSE 0)
  /\ \A r \in Rdds : Takes(<<r>>, "RDD_ACTION_RESPONSE") => OfRdd(r).what[1] \in DOMAIN rddActions

(* Every action is answered, as long as clients ask RDDs that nothing is     *)
(* derived from and no announcement is handled late: no actor waits for a    *)
(* count that another transform has reset.  Others may not be: an RDD they   *)
(* have started may have this one transform again before its                 *)
(* handleActionProcess, which then drops the action.                         *)
Leaf(r) == \A d \in Derived : r \notin ToSet(Upstream[d])
AnswersEnd ==
  (\A a \in plan.asks : Leaf(Target[a])) =>
    \A a \in Actions : a \in asked ~> answers[a] # << >> \/ ~Prompt

(* An RDD that clients create is linked everywhere in the end, or comes to   *)
(* ERROR where it, or one it is derived from, could not be at some member    *)
(* (handlePartitionCreated, handleRddPartitionPrepared, processRddError).    *)
Broken(r) == \E d \in Lineage[r], m \in Members : <<d, m>> \in plan.broken
CreationEnds ==
  \A r \in Rdds :
    RddState(r) = "INIT" ~> IF Broken(r) THEN RddState(r) = "ERROR"
                                        ELSE RddState(r) \notin Building \cup {"ERROR"}

=============================================================================
