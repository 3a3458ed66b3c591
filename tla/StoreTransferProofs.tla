------------------------ MODULE StoreTransferProofs ------------------------
(***************************************************************************)
(* StoreTransfer for any keys, any clients' writes and any batch size: what *)
(* the snapshot, the redo log, the copies and the message on its way say of *)
(* a key, taken together, until everything has ended.                       *)
(***************************************************************************)
EXTENDS StoreTransfer, DataLemmas, FiniteSetTheorems, TLAPS

Source(k) == rows["source"][k]
Target(k) == rows["target"][k]

(* The rows of a key that the message on its way carries.                   *)
WireRows(k) == {e.row : e \in {x \in ToSet(wire.data) : x.key = k}}

(* What the writes of a key leave.                                          *)
Written(k) == {Entry(w).row : w \in WritesOf(k)}

Entries == [key : Keys, row : Row]

Actors == {"none", "asked", "sized", "taken", "listed", "ended", "gone"}
Before == actor \in {"none", "asked", "sized"}    \* before the snapshot

WireTypes == {"none", "request", "data", "complete", "finished"}

Typed ==
  /\ TypeOK
  /\ actor \in Actors
  /\ client \in [Writes -> {"none", "written", "source", "done"}]
  /\ taken \in Rows
  /\ wire \in [type : WireTypes, data : Seq(Entries)]
  /\ wire.type = "data" <=> wire.data # << >>

(* What is under way is of writes that have started.                        *)
OnlyStarted ==
  /\ spread \subseteq Started /\ copies \subseteq Started
  /\ before \subseteq Started /\ logged \subseteq Started
  /\ ToSet(redo) \subseteq Started

(* The source actor and the message on its way take turns.                  *)
Turns ==
  /\ actor = "none" => wire.type = "request"
  /\ actor \in {"asked", "sized", "taken"} => wire.type = "none"
  /\ actor = "listed" => wire.type \in {"request", "data"}
  /\ actor \in {"ended", "gone"} => wire.type \in {"complete", "finished", "none"}

(* There is nothing to send before the snapshot or after the end, and what  *)
(* the source knew when it looked at its rows it goes on to know.           *)
Phases ==
  /\ Before => /\ snapshot = NoRows /\ taken = NoRows
               /\ Started \subseteq before /\ logged = {}
  /\ actor \in {"ended", "gone"} => snapshot = NoRows
  /\ ~early /\ ~Before => holds

ProtocolInv == Typed /\ OnlyStarted /\ Turns /\ Phases

-----------------------------------------------------------------------------
(* A key that nothing deletes: when it has a row, the target has one, or it *)
(* is in the snapshot, in the message, or in a copy on its way.             *)
OnlyInserts(k) == \A w \in WritesOf(k) : ~asked[w].deletes

RowOnItsWay(k) ==
  \/ Before
  \/ snapshot[k] # None
  \/ WireRows(k) # {}
  \/ (spread \cup copies) \cap WritesOf(k) # {}

InsertKept(k) ==
  /\ None \notin WireRows(k)
  /\ ~early /\ Source(k) # None => Target(k) # None \/ RowOnItsWay(k)

InsertInv == \A k \in Keys : OnlyInserts(k) => InsertKept(k)

-----------------------------------------------------------------------------
(* A key with one write at most.                                            *)
Sole(k) == \A v, w \in WritesOf(k) : v = w

(* Every row that there is of the key is the snapshot's or the write's.     *)
RowsOfKey(k) ==
  /\ Target(k) \in {None, taken[k]} \cup Written(k)
  /\ snapshot[k] \in {None, taken[k]}
  /\ WireRows(k) \subseteq ({taken[k]} \ {None}) \cup Written(k)
  /\ \A w \in WritesOf(k) : Source(k) = Entry(w).row
  /\ WritesOf(k) = {} /\ ~Before => Source(k) = taken[k]
  /\ \A w \in WritesOf(k) \cap before : ~Before => taken[k] = Entry(w).row

(* What the snapshot has gets there, ...                                    *)
SnapshotOnItsWay(k) ==
  WritesOf(k) \subseteq before /\ ~Before /\ Source(k) # None =>
    snapshot[k] = Source(k) \/ Source(k) \in WireRows(k) \/ Target(k) = Source(k)

(* ... so does what was logged before the end: it follows the snapshot, ... *)
LogOnItsWay(k) ==
  \A w \in WritesOf(k) \cap logged :
    \/ w \in ToSet(redo) /\ actor = "listed"
    \/ /\ snapshot[k] = None
       /\ WireRows(k) \subseteq {Source(k)}
       /\ Target(k) = Source(k) \/ Source(k) \in WireRows(k)

(* ... and the copy of a write that the snapshot cannot write over.         *)
CopyOnItsWay(k) ==
  \A w \in WritesOf(k) \ before :
    ~early /\ ~Before /\ taken[k] = None => w \in spread \cup copies \/ Target(k) = Source(k)

SoleKept(k) == RowsOfKey(k) /\ SnapshotOnItsWay(k) /\ LogOnItsWay(k) /\ CopyOnItsWay(k)

SoleInv == \A k \in Keys : Sole(k) => SoleKept(k)

TransferInv == ProtocolInv /\ InsertInv /\ SoleInv

-----------------------------------------------------------------------------
(* A step starts at most the write it puts, and what a write asks for stays.*)
LEMMA PutStarts ==
  ASSUME TypeOK, client \in [Writes -> {"none", "written", "source", "done"}],
         NEW w \in Writes, NEW ask \in Asks, Put(w, ask)
  PROVE  /\ w \notin Started /\ Started' = Started \cup {w}
         /\ asked'[w] = ask /\ \A v \in Started : asked'[v] = asked[v]
BY DEF Put, Started, TypeOK

LEMMA OthersStartNothing ==
  ASSUME TypeOK, client \in [Writes -> {"none", "written", "source", "done"}],
         \/ Dispatch
         \/ \E w \in Writes : Handle(w)
         \/ Transfer
  PROVE  Started' = Started /\ asked' = asked
<1> USE DEF Started, TypeOK, memberVars, writeVars, transferVars, historyVars
<1>1. CASE Dispatch  BY <1>1 DEF Dispatch
<1>2. ASSUME NEW w \in Writes, Handle(w)
      PROVE  Started' = Started /\ asked' = asked
  BY <1>2 DEF Handle, GetMemberState, AddToRedoLog, Spread, Backup
<1>3. CASE Transfer
  BY <1>3 DEF Transfer, Announce, CheckSize, TakeSnapshot, AddMigrationActor, SendRows, SendRedo,
              SendComplete, OnDestroy, HandleMigrationData, HandleStoreMigrationComplete,
              HandlePartitionMigrationComplete
<1> QED  BY <1>1, <1>2, <1>3

LEMMA EntryType ==
  ASSUME TypeOK
  PROVE  \A w \in Writes : Entry(w) \in Entries /\ asked[w].key \in Keys
BY DEF TypeOK, Asks, Entry, Entries, Row

(* A batch of the snapshot on the wire: an entry for each of its keys, and  *)
(* one at least.                                                            *)
BatchOf(keys) ==
  [i \in 1..Cardinality(keys) |->
     [key |-> SetToSeq(keys)[i], row |-> snapshot[SetToSeq(keys)[i]]]]

LEMMA BatchOfKeys ==
  ASSUME TypeOK, NEW keys \in SUBSET KeysOf(snapshot)
  PROVE  /\ BatchOf(keys) \in Seq(Entries)
         /\ ToSet(BatchOf(keys)) = {[key |-> k, row |-> snapshot[k]] : k \in keys}
<1>1. keys \subseteq Keys /\ IsFiniteSet(keys)
  BY TransferAssumption, FS_Subset DEF KeysOf
<1>2. /\ Cardinality(keys) \in Nat
      /\ SetToSeq(keys) \in [1..Cardinality(keys) -> keys]
      /\ \A k \in keys : \E i \in 1..Cardinality(keys) : SetToSeq(keys)[i] = k
  BY <1>1, SetToSeqEnumerates
<1>3. \A i \in 1..Cardinality(keys) : BatchOf(keys)[i] \in Entries
  BY <1>1, <1>2 DEF BatchOf, Entries, TypeOK, Rows
<1>4. BatchOf(keys) \in [1..Cardinality(keys) -> Entries]
  BY <1>3 DEF BatchOf
<1>5. BatchOf(keys) \in Seq(Entries)
  BY <1>2, <1>4
<1>6. ASSUME NEW k \in keys
      PROVE  [key |-> k, row |-> snapshot[k]] \in ToSet(BatchOf(keys))
  <2>1. PICK i \in 1..Cardinality(keys) : SetToSeq(keys)[i] = k
    BY <1>2
  <2>2. BatchOf(keys)[i] = [key |-> k, row |-> snapshot[k]] /\ i \in DOMAIN BatchOf(keys)
    BY <2>1 DEF BatchOf
  <2> QED  BY <2>2 DEF ToSet
<1>7. ASSUME NEW e \in ToSet(BatchOf(keys))
      PROVE  e \in {[key |-> k, row |-> snapshot[k]] : k \in keys}
  <2>1. PICK i \in 1..Cardinality(keys) : e = BatchOf(keys)[i]
    BY DEF ToSet, BatchOf
  <2>2. SetToSeq(keys)[i] \in keys
    BY <1>2, <2>1
  <2> QED  BY <2>1, <2>2 DEF BatchOf
<1> QED  BY <1>5, <1>6, <1>7

LEMMA BatchIsSome ==
  ASSUME TypeOK, NEW keys \in SUBSET KeysOf(snapshot), KeysOf(snapshot) # {},
         Cardinality(keys) = Smaller(Cardinality(KeysOf(snapshot)))
  PROVE  BatchOf(keys) # << >> /\ keys # {}
<1>1. IsFiniteSet(KeysOf(snapshot)) /\ IsFiniteSet(keys)
  BY TransferAssumption, FS_Subset DEF KeysOf
<1>2. Cardinality(KeysOf(snapshot)) \in Nat \ {0}
  BY <1>1, FS_EmptySet, FS_CardinalityType
<1>3. Cardinality(keys) \in Nat \ {0}
  BY <1>2, TransferAssumption DEF Smaller
<1>4. keys # {}
  BY <1>3, FS_EmptySet
<1>5. DOMAIN BatchOf(keys) = 1..Cardinality(keys) /\ 1 \in 1..Cardinality(keys)
  BY <1>3 DEF BatchOf
<1>6. \A i : i \notin DOMAIN << >>
  OBVIOUS
<1> QED  BY <1>4, <1>5, <1>6

LEMMA SendsBatch ==
  ASSUME TypeOK, SendRows
  PROVE  \E keys \in SUBSET KeysOf(snapshot) :
           /\ keys # {}
           /\ wire' = [type |-> "data", data |-> BatchOf(keys)]
           /\ BatchOf(keys) # << >> /\ BatchOf(keys) \in Seq(Entries)
           /\ ToSet(BatchOf(keys)) = {[key |-> k, row |-> snapshot[k]] : k \in keys}
           /\ snapshot' = [k \in Keys |-> IF k \in keys THEN None ELSE snapshot[k]]
<1>1. PICK keys \in SUBSET KeysOf(snapshot) :
        /\ KeysOf(snapshot) # {}
        /\ Cardinality(keys) = Smaller(Cardinality(KeysOf(snapshot)))
        /\ wire' = Data(BatchOf(keys))
        /\ snapshot' = [k \in Keys |-> IF k \in keys THEN None ELSE snapshot[k]]
  BY DEF SendRows, BatchOf
<1> QED  BY <1>1, BatchOfKeys, BatchIsSome DEF Data

(* A batch of the redo log: the entries of its first writes, one at least.  *)
LEMMA SendsRedo ==
  ASSUME TypeOK, SendRedo
  PROVE  \E n \in 1..Len(redo) :
           /\ wire' = [type |-> "data", data |-> [i \in 1..n |-> Entry(redo[i])]]
           /\ wire'.data # << >> /\ wire'.data \in Seq(Entries)
           /\ ToSet(wire'.data) = {Entry(redo[i]) : i \in 1..n}
           /\ redo' = SubSeq(redo, n + 1, Len(redo)) /\ redo' \in Seq(Writes)
           /\ ToSet(redo) = {redo[i] : i \in 1..n} \cup ToSet(redo')
<1> DEFINE n == Smaller(Len(redo))
           data == [i \in 1..n |-> Entry(redo[i])]
<1>1. /\ redo \in Seq(Writes) /\ redo # << >>
      /\ wire' = [type |-> "data", data |-> data]
      /\ redo' = SubSeq(redo, n + 1, Len(redo))
  BY DEF SendRedo, TypeOK, Data
<1>2. n \in 1..Len(redo) /\ Len(redo) \in Nat
  BY <1>1, TransferAssumption DEF Smaller
<1> HIDE DEF n
<1>3. \A i \in 1..n : redo[i] \in Writes
  BY <1>1, <1>2
<1>4. data \in [1..n -> Entries]
  BY <1>3, EntryType
<1>5. data \in Seq(Entries) /\ data # << >> /\ DOMAIN data = 1..n
  <2>1. n \in Nat /\ 1 \in 1..n
    BY <1>2
  <2> QED  BY <1>4, <2>1
<1>6. ToSet(data) = {Entry(redo[i]) : i \in 1..n}
  BY <1>5 DEF ToSet
<1>7. n \in 0..Len(redo)
  BY <1>2
<1>8. redo' \in Seq(Writes) /\ ToSet(redo) = {redo[i] : i \in 1..n} \cup ToSet(redo')
  BY <1>1, <1>7, ToSetOfSplit
<1>9. wire'.data = data
  BY <1>1
<1> QED  BY <1>1, <1>2, <1>5, <1>6, <1>8, <1>9

(* One entry is written, the others stay on their way.                      *)
LEMMA TakesEntry ==
  ASSUME Typed, HandleMigrationData
  PROVE  \E e \in Entries :
           /\ rows' = [rows EXCEPT !["target"][e.key] = e.row]
           /\ ToSet(wire.data) = {e} \cup ToSet(wire'.data)
           /\ wire'.data \in Seq(Entries)
           /\ \/ wire'.data = << >> /\ wire' = [type |-> "request", data |-> << >>]
              \/ wire'.data # << >> /\ wire' = [type |-> "data", data |-> wire'.data]
<1> DEFINE e == Head(wire.data)
           rest == Tail(wire.data)
<1>1. /\ wire.data \in Seq(Entries) /\ wire.data # << >>
      /\ rows' = [rows EXCEPT !["target"][e.key] = e.row]
      /\ wire' = IF Len(wire.data) = 1 THEN Msg("request") ELSE Data(rest)
  BY DEF HandleMigrationData, Typed
<1>2. /\ e \in Entries /\ rest \in Seq(Entries)
      /\ Len(wire.data) = 1 => rest = << >>
      /\ Len(wire.data) # 1 => rest # << >>
  <2> DEFINE s == wire.data
  <2>1. s \in Seq(Entries) /\ s # << >>
    BY <1>1
  <2> HIDE DEF s
  <2>2. /\ Head(s) \in Entries /\ Tail(s) \in Seq(Entries)
        /\ Len(Tail(s)) = Len(s) - 1 /\ Len(s) \in Nat \ {0}
    BY <2>1
  <2>3. /\ Len(s) = 1 => Tail(s) = << >>
        /\ Len(s) # 1 => Tail(s) # << >>
    <3>1. ASSUME NEW r \in Seq(Entries)
          PROVE  Len(r) = 0 <=> r = << >>
      OBVIOUS
    <3>2. Len(Tail(s)) = 0 <=> Tail(s) = << >>
      BY <2>2, <3>1
    <3> QED  BY <2>2, <3>2
  <2> QED  BY <2>2, <2>3 DEF s
<1>3. ToSet(wire.data) = {e} \cup ToSet(rest)
  BY <1>1, ToSetHeadTail
<1>4. wire'.data = rest
  BY <1>1, <1>2 DEF Msg, Data
<1>5. \/ rest = << >> /\ wire' = [type |-> "request", data |-> << >>]
      \/ rest # << >> /\ wire' = [type |-> "data", data |-> rest]
  BY <1>1, <1>2 DEF Msg, Data
<1> QED  BY <1>1, <1>2, <1>3, <1>4, <1>5

LEMMA InitProtocol == Init => ProtocolInv
<1> SUFFICES ASSUME Init PROVE ProtocolInv
  OBVIOUS
<1> USE TransferAssumption DEF Init
<1>1. TypeOK
  <2>1. NoRows \in Rows
    BY DEF NoRows, Rows, Row
  <2>2. PICK r \in [Keys -> {None, Old}] :
          rows = [m \in Members |-> IF m = "source" THEN r ELSE NoRows]
    OBVIOUS
  <2>3. r \in Rows
    BY DEF Rows, Row
  <2>4. rows \in [Members -> Rows]
    BY <2>1, <2>2, <2>3
  <2>5. asked \in [Writes -> Asks]
    <3>1. (CHOOSE k \in Keys : TRUE) \in Keys
      OBVIOUS
    <3> QED  BY <3>1 DEF Asks
  <2> QED  BY <2>1, <2>4, <2>5 DEF TypeOK
<1>2. Started = {}
  BY DEF Started
<1>3. ToSet(redo) = {} /\ wire.data = << >> /\ wire.type = "request"
  BY DEF ToSet, Msg
<1>4. Typed
  <2>1. NoRows \in Rows
    BY DEF NoRows, Rows, Row
  <2> QED  BY <1>1, <1>3, <2>1 DEF Typed, Actors, WireTypes, Msg
<1>5. OnlyStarted /\ Turns /\ Phases
  BY <1>2, <1>3 DEF OnlyStarted, Turns, Phases, Before
<1> QED
  BY <1>4, <1>5 DEF ProtocolInv

LEMMA StepTyped ==
  ASSUME ProtocolInv, Next
  PROVE  Typed'
<1> USE TransferAssumption DEF ProtocolInv, Typed, TypeOK, Actors, WireTypes, Turns, Registered,
        NoMessage, Msg, Data, memberVars, writeVars, transferVars, historyVars
<1>1. CASE Dispatch  BY <1>1, OthersStartNothing DEF Dispatch
<1>2. ASSUME NEW w \in Writes, NEW ask \in Asks, Put(w, ask)
      PROVE  Typed'
  <2>1. rows' \in [Members -> Rows]
    <3>1. rows' = [rows EXCEPT !["source"] =
                     [rows["source"] EXCEPT ![ask.key] = IF ask.deletes THEN None ELSE w]]
      BY <1>2 DEF Put, Members
    <3>2. [rows["source"] EXCEPT ![ask.key] = IF ask.deletes THEN None ELSE w] \in Rows
      BY DEF Rows, Row, Asks, Members
    <3> QED  BY <3>1, <3>2
  <2>2. asked' \in [Writes -> Asks]
    BY <1>2 DEF Put
  <2> QED  BY <1>2, <2>1, <2>2 DEF Put
<1>3. ASSUME NEW w \in Writes, GetMemberState(w)
      PROVE  Typed'
  BY <1>3, OthersStartNothing DEF GetMemberState, Handle
<1>4. ASSUME NEW w \in Writes, AddToRedoLog(w)
      PROVE  Typed'
  BY <1>4, OthersStartNothing DEF AddToRedoLog, Handle
<1>5. ASSUME NEW w \in Writes, Spread(w)
      PROVE  Typed'
  BY <1>5, OthersStartNothing DEF Spread, Handle
<1>6. ASSUME NEW w \in Writes, Backup(w)
      PROVE  Typed'
  <2>1. Entry(w).key \in Keys /\ Entry(w).row \in Row
    BY EntryType DEF Entries
  <2>2. rows' \in [Members -> Rows]
    <3>1. rows' = [rows EXCEPT !["target"] = [rows["target"] EXCEPT ![Entry(w).key] = Entry(w).row]]
      BY <1>6 DEF Backup, Members
    <3>2. [rows["target"] EXCEPT ![Entry(w).key] = Entry(w).row] \in Rows
      BY <2>1 DEF Rows, Members
    <3> QED  BY <3>1, <3>2
  <2> QED  BY <1>6, <2>2 DEF Backup
<1>7. CASE Announce
  BY <1>7, OthersStartNothing DEF Announce, Transfer
<1>8. CASE CheckSize
  BY <1>8, OthersStartNothing DEF CheckSize, Transfer
<1>9. CASE TakeSnapshot
  <2>1. rows["source"] \in Rows
    BY DEF Members
  <2> QED  BY <1>9, <2>1 DEF TakeSnapshot
<1>10. CASE AddMigrationActor
  BY <1>10, OthersStartNothing DEF AddMigrationActor, Transfer
<1>11. CASE SendRows
  <2>1. PICK keys \in SUBSET KeysOf(snapshot) :
          /\ wire' = [type |-> "data", data |-> BatchOf(keys)]
          /\ BatchOf(keys) # << >> /\ BatchOf(keys) \in Seq(Entries)
          /\ snapshot' = [k \in Keys |-> IF k \in keys THEN None ELSE snapshot[k]]
    BY <1>11, SendsBatch
  <2>2. snapshot' \in Rows
    BY <2>1 DEF Rows, Row
  <2> QED  BY <1>11, <2>1, <2>2 DEF SendRows
<1>12. CASE SendRedo
  <2>1. PICK data \in Seq(Entries) : wire' = [type |-> "data", data |-> data] /\ data # << >>
    BY <1>12, SendsRedo
  <2>2. redo' \in Seq(Writes)
    BY <1>12, SendsRedo
  <2>3. UNCHANGED <<rows, asked, client, snapshot, actor, taken>> /\ actor = "listed"
    BY <1>12 DEF SendRedo, Asked
  <2> QED  BY <2>1, <2>2, <2>3
<1>13. CASE SendComplete
  BY <1>13, OthersStartNothing DEF SendComplete, Transfer
<1>14. CASE OnDestroy
  BY <1>14, OthersStartNothing DEF OnDestroy, Transfer
<1>15. CASE HandleMigrationData
  <2>1. PICK e \in Entries :
          /\ rows' = [rows EXCEPT !["target"][e.key] = e.row]
          /\ wire'.data \in Seq(Entries)
          /\ \/ wire'.data = << >> /\ wire' = [type |-> "request", data |-> << >>]
             \/ wire'.data # << >> /\ wire' = [type |-> "data", data |-> wire'.data]
    BY <1>15, TakesEntry
  <2>2. rows' \in [Members -> Rows]
    <3>1. rows' = [rows EXCEPT !["target"] = [rows["target"] EXCEPT ![e.key] = e.row]]
      BY <2>1 DEF Members
    <3>2. [rows["target"] EXCEPT ![e.key] = e.row] \in Rows
      BY DEF Rows, Members, Entries
    <3> QED  BY <3>1, <3>2
  <2>3. UNCHANGED <<asked, client, snapshot, actor, taken, redo>>
    BY <1>15 DEF HandleMigrationData
  <2> QED  BY <2>1, <2>2, <2>3
<1>16. CASE HandleStoreMigrationComplete
  BY <1>16, OthersStartNothing DEF HandleStoreMigrationComplete, Transfer
<1>17. CASE HandlePartitionMigrationComplete
  BY <1>17, OthersStartNothing DEF HandlePartitionMigrationComplete, Transfer
<1> QED  BY <1>1, <1>2, <1>3, <1>4, <1>5, <1>6, <1>7, <1>8, <1>9, <1>10, <1>11,
            <1>12, <1>13, <1>14, <1>15, <1>16, <1>17 DEF Next, Handle, Transfer

LEMMA StepStarted ==
  ASSUME ProtocolInv, Next
  PROVE  OnlyStarted'
<1> USE TransferAssumption DEF ProtocolInv, Typed, OnlyStarted, Before, Registered,
        memberVars, writeVars, transferVars, historyVars
<1>1. CASE Dispatch  BY <1>1, OthersStartNothing DEF Dispatch
<1>2. ASSUME NEW w \in Writes, NEW ask \in Asks, Put(w, ask)
      PROVE  OnlyStarted'
  <2>1. Started' = Started \cup {w}
    BY <1>2, PutStarts
  <2>2. /\ spread' = spread \cup {w} \/ spread' = spread
        /\ before' = IF Before THEN before \cup {w} ELSE before
        /\ UNCHANGED <<copies, logged, redo, actor, snapshot, taken, early, holds>>
    BY <1>2 DEF Put
  <2> QED  BY <2>1, <2>2
<1>3. ASSUME NEW w \in Writes, GetMemberState(w)
      PROVE  OnlyStarted'
  BY <1>3, OthersStartNothing DEF GetMemberState, Handle
<1>4. ASSUME NEW w \in Writes, AddToRedoLog(w)
      PROVE  OnlyStarted'
  <2>1. w \in Started /\ Started' = Started
    BY <1>4, OthersStartNothing DEF AddToRedoLog, Handle, Started
  <2>2. ToSet(Append(redo, w)) = ToSet(redo) \cup {w}
    BY ToSetAppend DEF TypeOK
  <2> QED  BY <1>4, <2>1, <2>2 DEF AddToRedoLog
<1>5. ASSUME NEW w \in Writes, Spread(w)
      PROVE  OnlyStarted'
  BY <1>5, OthersStartNothing DEF Spread, Handle
<1>6. ASSUME NEW w \in Writes, Backup(w)
      PROVE  OnlyStarted'
  BY <1>6, OthersStartNothing DEF Backup, Handle
<1>7. CASE Announce
  BY <1>7, OthersStartNothing DEF Announce, Transfer
<1>8. CASE CheckSize
  BY <1>8, OthersStartNothing DEF CheckSize, Transfer
<1>9. CASE TakeSnapshot
  BY <1>9, OthersStartNothing DEF TakeSnapshot, Transfer
<1>10. CASE AddMigrationActor
  BY <1>10, OthersStartNothing DEF AddMigrationActor, Transfer
<1>11. CASE SendRows
  BY <1>11, OthersStartNothing DEF SendRows, Transfer
<1>12. CASE SendRedo
  <2>1. Started' = Started
    BY <1>12, OthersStartNothing DEF Transfer
  <2>2. ToSet(redo') \subseteq ToSet(redo)
    BY <1>12, SendsRedo
  <2> QED  BY <1>12, <2>1, <2>2 DEF SendRedo
<1>13. CASE SendComplete
  BY <1>13, OthersStartNothing DEF SendComplete, Transfer
<1>14. CASE OnDestroy
  <2>1. Started' = Started
    BY <1>14, OthersStartNothing DEF Transfer
  <2> QED  BY <1>14, <2>1, ToSetOfNone DEF OnDestroy
<1>15. CASE HandleMigrationData
  BY <1>15, OthersStartNothing DEF HandleMigrationData, Transfer
<1>16. CASE HandleStoreMigrationComplete
  BY <1>16, OthersStartNothing DEF HandleStoreMigrationComplete, Transfer
<1>17. CASE HandlePartitionMigrationComplete
  BY <1>17, OthersStartNothing DEF HandlePartitionMigrationComplete, Transfer
<1> QED  BY <1>1, <1>2, <1>3, <1>4, <1>5, <1>6, <1>7, <1>8, <1>9, <1>10, <1>11,
            <1>12, <1>13, <1>14, <1>15, <1>16, <1>17 DEF Next, Handle, Transfer

LEMMA StepTurns ==
  ASSUME ProtocolInv, Next
  PROVE  Turns'
<1> USE TransferAssumption DEF ProtocolInv, Typed, TypeOK, Turns, NoMessage, Msg, Data, Asked, Registered,
        memberVars, writeVars, transferVars, historyVars
<1>1. CASE Dispatch  BY <1>1, OthersStartNothing DEF Dispatch
<1>2. ASSUME NEW w \in Writes, NEW ask \in Asks, Put(w, ask)
      PROVE  Turns'
  BY <1>2, PutStarts DEF Put
<1>3. ASSUME NEW w \in Writes, GetMemberState(w)
      PROVE  Turns'
  BY <1>3, OthersStartNothing DEF GetMemberState, Handle
<1>4. ASSUME NEW w \in Writes, AddToRedoLog(w)
      PROVE  Turns'
  BY <1>4, OthersStartNothing DEF AddToRedoLog, Handle
<1>5. ASSUME NEW w \in Writes, Spread(w)
      PROVE  Turns'
  BY <1>5, OthersStartNothing DEF Spread, Handle
<1>6. ASSUME NEW w \in Writes, Backup(w)
      PROVE  Turns'
  BY <1>6, OthersStartNothing DEF Backup, Handle
<1>7. CASE Announce
  BY <1>7, OthersStartNothing DEF Announce, Transfer
<1>8. CASE CheckSize
  BY <1>8, OthersStartNothing DEF CheckSize, Transfer
<1>9. CASE TakeSnapshot
  BY <1>9, OthersStartNothing DEF TakeSnapshot, Transfer
<1>10. CASE AddMigrationActor
  BY <1>10, OthersStartNothing DEF AddMigrationActor, Transfer
<1>11. CASE SendRows
  BY <1>11, OthersStartNothing DEF SendRows, Transfer
<1>12. CASE SendRedo
  BY <1>12, OthersStartNothing DEF SendRedo, Transfer
<1>13. CASE SendComplete
  BY <1>13, OthersStartNothing DEF SendComplete, Transfer
<1>14. CASE OnDestroy
  BY <1>14, OthersStartNothing DEF OnDestroy, Transfer
<1>15. CASE HandleMigrationData
  BY <1>15, OthersStartNothing DEF HandleMigrationData, Transfer
<1>16. CASE HandleStoreMigrationComplete
  BY <1>16, OthersStartNothing DEF HandleStoreMigrationComplete, Transfer
<1>17. CASE HandlePartitionMigrationComplete
  BY <1>17, OthersStartNothing DEF HandlePartitionMigrationComplete, Transfer
<1> QED  BY <1>1, <1>2, <1>3, <1>4, <1>5, <1>6, <1>7, <1>8, <1>9, <1>10, <1>11,
            <1>12, <1>13, <1>14, <1>15, <1>16, <1>17 DEF Next, Handle, Transfer

LEMMA StepPhases ==
  ASSUME ProtocolInv, Next
  PROVE  Phases'
<1> USE TransferAssumption DEF ProtocolInv, Typed, TypeOK, Phases, Turns, Before, Actors, Asked, Registered, KeysOf,
        NoMessage, Msg, Data, NoRows, memberVars, writeVars, transferVars, historyVars
<1>1. CASE Dispatch  BY <1>1, OthersStartNothing DEF Dispatch
<1>2. ASSUME NEW w \in Writes, NEW ask \in Asks, Put(w, ask)
      PROVE  Phases'
  <2>1. Started' = Started \cup {w}
    BY <1>2, PutStarts
  <2>2. /\ spread' = spread \cup {w} \/ spread' = spread
        /\ before' = IF Before THEN before \cup {w} ELSE before
        /\ UNCHANGED <<copies, logged, redo, actor, snapshot, taken, early, holds>>
    BY <1>2 DEF Put
  <2> QED  BY <2>1, <2>2
<1>3. ASSUME NEW w \in Writes, GetMemberState(w)
      PROVE  Phases'
  BY <1>3, OthersStartNothing DEF GetMemberState, Handle
<1>4. ASSUME NEW w \in Writes, AddToRedoLog(w)
      PROVE  Phases'
  BY <1>4, OthersStartNothing DEF AddToRedoLog, Handle
<1>5. ASSUME NEW w \in Writes, Spread(w)
      PROVE  Phases'
  BY <1>5, OthersStartNothing DEF Spread, Handle
<1>6. ASSUME NEW w \in Writes, Backup(w)
      PROVE  Phases'
  BY <1>6, OthersStartNothing DEF Backup, Handle
<1>7. CASE Announce
  BY <1>7, OthersStartNothing DEF Announce, Transfer
<1>8. CASE CheckSize
  BY <1>8, OthersStartNothing DEF CheckSize, Transfer
<1>9. CASE TakeSnapshot
  BY <1>9, OthersStartNothing DEF TakeSnapshot, Transfer
<1>10. CASE AddMigrationActor
  BY <1>10, OthersStartNothing DEF AddMigrationActor, Transfer
<1>11. CASE SendRows
  BY <1>11, OthersStartNothing DEF SendRows, Transfer
<1>12. CASE SendRedo
  BY <1>12, OthersStartNothing DEF SendRedo, Transfer
<1>13. CASE SendComplete
  <2>1. snapshot = [k \in Keys |-> None]
    BY <1>13 DEF SendComplete, Rows
  <2> QED  BY <1>13, <2>1 DEF SendComplete
<1>14. CASE OnDestroy
  BY <1>14, OthersStartNothing DEF OnDestroy, Transfer
<1>15. CASE HandleMigrationData
  BY <1>15, OthersStartNothing DEF HandleMigrationData, Transfer
<1>16. CASE HandleStoreMigrationComplete
  BY <1>16, OthersStartNothing DEF HandleStoreMigrationComplete, Transfer
<1>17. CASE HandlePartitionMigrationComplete
  BY <1>17, OthersStartNothing DEF HandlePartitionMigrationComplete, Transfer
<1> QED  BY <1>1, <1>2, <1>3, <1>4, <1>5, <1>6, <1>7, <1>8, <1>9, <1>10, <1>11,
            <1>12, <1>13, <1>14, <1>15, <1>16, <1>17 DEF Next, Handle, Transfer

-----------------------------------------------------------------------------
(* What each step does to one key.                                          *)

(* Steps that move no row and start no write.                               *)
Calm ==
  /\ UNCHANGED <<rows, asked, spread, copies, snapshot, early, taken, before, logged>>
  /\ Started' = Started
  /\ wire'.data = wire.data
  /\ Before' <=> Before
  /\ actor = "listed" /\ redo # << >> => actor' = "listed" /\ redo' = redo

LEMMA CalmSteps ==
  ASSUME ProtocolInv,
         \/ Dispatch \/ \E w \in Writes : GetMemberState(w)
         \/ Announce \/ AddMigrationActor \/ SendComplete \/ OnDestroy
         \/ HandleStoreMigrationComplete \/ HandlePartitionMigrationComplete
  PROVE  Calm
<1>1. Started' = Started
  BY OthersStartNothing DEF ProtocolInv, Typed, Handle, Transfer
<1> USE DEF ProtocolInv, Typed, Turns, Before, Calm, NoMessage, Msg, Asked,
            memberVars, writeVars, transferVars, historyVars
<1>2. CASE Dispatch  BY <1>1, <1>2 DEF Dispatch
<1>3. CASE \E w \in Writes : GetMemberState(w)  BY <1>1, <1>3 DEF GetMemberState
<1>4. CASE Announce  BY <1>1, <1>4 DEF Announce
<1>5. CASE AddMigrationActor  BY <1>1, <1>5 DEF AddMigrationActor
<1>6. CASE SendComplete  BY <1>1, <1>6 DEF SendComplete
<1>7. CASE OnDestroy  BY <1>1, <1>7 DEF OnDestroy
<1>8. CASE HandleStoreMigrationComplete  BY <1>1, <1>8 DEF HandleStoreMigrationComplete
<1>9. CASE HandlePartitionMigrationComplete  BY <1>1, <1>9 DEF HandlePartitionMigrationComplete
<1> QED  BY <1>2, <1>3, <1>4, <1>5, <1>6, <1>7, <1>8, <1>9

(* No write starts: the writes of each key, and what they leave, stay.      *)
SameWrites(k) == /\ WritesOf(k)' = WritesOf(k)
                 /\ \A w \in WritesOf(k) : Entry(w)' = Entry(w)
                 /\ Written(k)' = Written(k)

LEMMA NoneStarts ==
  ASSUME Started' = Started, asked' = asked, NEW k \in Keys
  PROVE  SameWrites(k)
BY DEF WritesOf, Entry, Written, SameWrites

LEMMA SendRowsAt ==
  ASSUME ProtocolInv, SendRows, NEW k \in Keys
  PROVE  /\ SameWrites(k) /\ WireRows(k) = {}
         /\ UNCHANGED <<rows, spread, copies, early, taken, before, logged, actor, redo>>
         /\ actor = "listed"
         /\ \/ snapshot[k] # None /\ snapshot'[k] = None /\ WireRows(k)' = {snapshot[k]}
            \/ snapshot'[k] = snapshot[k] /\ WireRows(k)' = {}
<1> USE DEF ProtocolInv
<1>1. /\ UNCHANGED <<rows, spread, copies, early, taken, before, logged, actor, redo, asked>>
      /\ actor = "listed" /\ wire.type = "request" /\ Started' = Started
  BY OthersStartNothing
     DEF SendRows, Asked, Transfer, Typed, memberVars, writeVars, historyVars
<1>2. WireRows(k) = {}
  <2>1. wire.data = << >>
    BY <1>1 DEF Typed
  <2> QED  BY <2>1, ToSetOfNone DEF WireRows
<1>3. PICK keys \in SUBSET KeysOf(snapshot) :
        /\ wire' = [type |-> "data", data |-> BatchOf(keys)]
        /\ ToSet(BatchOf(keys)) = {[key |-> j, row |-> snapshot[j]] : j \in keys}
        /\ snapshot' = [j \in Keys |-> IF j \in keys THEN None ELSE snapshot[j]]
  BY SendsBatch DEF Typed
<1>4. ToSet(wire'.data) = {[key |-> j, row |-> snapshot[j]] : j \in keys}
  BY <1>3
<1>5. CASE k \in keys
  <2>1. \A r : r \in WireRows(k)' <=> \E e \in ToSet(wire'.data) : e.key = k /\ e.row = r
    BY DEF WireRows
  <2>2. [key |-> k, row |-> snapshot[k]] \in ToSet(wire'.data)
    BY <1>4, <1>5
  <2>3. \A e \in ToSet(wire'.data) : e.key = k => e.row = snapshot[k]
    BY <1>4
  <2>4. snapshot[k] \in WireRows(k)'
    BY <2>1, <2>2
  <2>5. \A r \in WireRows(k)' : r = snapshot[k]
    BY <2>1, <2>3
  <2>6. WireRows(k)' = {snapshot[k]}
    BY <2>4, <2>5
  <2> QED  BY <1>1, <1>2, <1>3, <1>5, <2>6, NoneStarts DEF KeysOf
<1>6. CASE k \notin keys
  <2>1. WireRows(k)' = {}
    BY <1>4, <1>6 DEF WireRows
  <2> QED  BY <1>1, <1>2, <1>3, <1>6, <2>1, NoneStarts
<1> QED  BY <1>5, <1>6

LEMMA SendRedoAt ==
  ASSUME ProtocolInv, SendRedo, NEW k \in Keys
  PROVE  /\ SameWrites(k) /\ WireRows(k) = {} /\ snapshot[k] = None
         /\ UNCHANGED <<rows, spread, copies, early, taken, before, logged, actor, snapshot>>
         /\ actor = "listed"
         /\ WireRows(k)' \subseteq Written(k)
         /\ \A w \in WritesOf(k) \cap ToSet(redo) :
              w \in ToSet(redo') \/ Entry(w).row \in WireRows(k)'
<1> USE DEF ProtocolInv
<1>1. /\ UNCHANGED <<rows, spread, copies, early, taken, before, logged, actor, snapshot, asked>>
      /\ actor = "listed" /\ wire.type = "request" /\ KeysOf(snapshot) = {} /\ Started' = Started
  BY OthersStartNothing
     DEF SendRedo, Asked, Transfer, Typed, memberVars, writeVars, historyVars
<1>2. WireRows(k) = {}
  <2>1. wire.data = << >>
    BY <1>1 DEF Typed
  <2> QED  BY <2>1, ToSetOfNone DEF WireRows
<1>3. PICK n \in 1..Len(redo) :
        /\ ToSet(wire'.data) = {Entry(redo[i]) : i \in 1..n}
        /\ ToSet(redo) = {redo[i] : i \in 1..n} \cup ToSet(redo')
  BY SendsRedo DEF Typed
<1>4. \A i \in 1..n : redo[i] \in Started
  BY <1>3 DEF OnlyStarted
<1>5. WireRows(k)' \subseteq Written(k)
  <2> SUFFICES ASSUME NEW r \in WireRows(k)'
               PROVE  r \in Written(k)
    OBVIOUS
  <2>1. PICK i \in 1..n : Entry(redo[i]).key = k /\ Entry(redo[i]).row = r
    BY <1>3 DEF WireRows
  <2>2. redo[i] \in WritesOf(k)
    BY <1>4, <2>1 DEF WritesOf, Entry
  <2> QED  BY <2>1, <2>2 DEF Written
<1>6. ASSUME NEW w \in WritesOf(k) \cap ToSet(redo), w \notin ToSet(redo')
      PROVE  Entry(w).row \in WireRows(k)'
  <2>1. PICK i \in 1..n : redo[i] = w
    BY <1>3, <1>6
  <2>2. Entry(w) \in ToSet(wire'.data) /\ Entry(w).key = k
    BY <1>3, <2>1 DEF WritesOf, Entry
  <2> QED  BY <2>2 DEF WireRows
<1>7. snapshot[k] = None
  BY <1>1 DEF KeysOf
<1> QED  BY <1>1, <1>2, <1>5, <1>6, <1>7, NoneStarts

LEMMA HandleMigrationDataAt ==
  ASSUME ProtocolInv, HandleMigrationData, NEW k \in Keys
  PROVE  /\ SameWrites(k) /\ Source(k)' = Source(k)
         /\ UNCHANGED <<spread, copies, early, taken, before, logged, actor, snapshot, redo>>
         /\ \/ Target(k)' = Target(k) /\ WireRows(k)' = WireRows(k)
            \/ WireRows(k) = {Target(k)'} \cup WireRows(k)'
<1> USE DEF ProtocolInv
<1>1. /\ UNCHANGED <<spread, copies, early, taken, before, logged, actor, snapshot, redo, asked>>
      /\ Started' = Started
  BY OthersStartNothing DEF HandleMigrationData, Transfer, Typed, writeVars, historyVars
<1>2. PICK e \in Entries :
        /\ rows' = [rows EXCEPT !["target"][e.key] = e.row]
        /\ ToSet(wire.data) = {e} \cup ToSet(wire'.data)
  BY TakesEntry
<1>3. rows["target"] \in Rows /\ rows \in [Members -> Rows] /\ "target" \in Members
  BY DEF Typed, TypeOK, Members
<1>4. /\ Source(k)' = Source(k)
      /\ Target(k)' = IF e.key = k THEN e.row ELSE Target(k)
  BY <1>2, <1>3 DEF Source, Target, Rows
<1>5. CASE e.key = k
  <2>1. WireRows(k) = {e.row} \cup WireRows(k)'
    BY <1>2, <1>5 DEF WireRows
  <2> QED  BY <1>1, <1>4, <1>5, <2>1, NoneStarts
<1>6. CASE e.key # k
  <2>1. WireRows(k) = WireRows(k)'
    BY <1>2, <1>6 DEF WireRows
  <2> QED  BY <1>1, <1>4, <1>6, <2>1, NoneStarts
<1> QED  BY <1>5, <1>6

LEMMA BackupAt ==
  ASSUME ProtocolInv, NEW w \in Writes, Backup(w), NEW k \in Keys
  PROVE  /\ SameWrites(k) /\ Source(k)' = Source(k) /\ WireRows(k)' = WireRows(k)
         /\ UNCHANGED <<spread, early, taken, before, logged, actor, snapshot, redo>>
         /\ copies' = copies \ {w}
         /\ \/ w \in WritesOf(k) /\ Target(k)' = Entry(w).row
            \/ w \notin WritesOf(k) /\ Target(k)' = Target(k)
<1> USE DEF ProtocolInv
<1>1. /\ UNCHANGED <<spread, early, taken, before, logged, actor, snapshot, redo, asked, wire>>
      /\ copies' = copies \ {w} /\ w \in copies /\ Started' = Started
      /\ rows' = [rows EXCEPT !["target"][Entry(w).key] = Entry(w).row]
  BY OthersStartNothing DEF Backup, Handle, Typed, transferVars, historyVars
<1>2. /\ rows["target"] \in Rows /\ rows \in [Members -> Rows] /\ "target" \in Members
      /\ Entry(w).key = asked[w].key /\ w \in Started
  BY <1>1 DEF Typed, TypeOK, Members, OnlyStarted, Entry
<1>3. /\ Source(k)' = Source(k)
      /\ Target(k)' = IF Entry(w).key = k THEN Entry(w).row ELSE Target(k)
  BY <1>1, <1>2 DEF Source, Target, Rows
<1>4. WireRows(k)' = WireRows(k)
  BY <1>1 DEF WireRows
<1> QED  BY <1>1, <1>2, <1>3, <1>4, NoneStarts DEF WritesOf

LEMMA PutAt ==
  ASSUME ProtocolInv, NEW w \in Writes, NEW ask \in Asks, Put(w, ask), NEW k \in Keys
  PROVE  /\ Target(k)' = Target(k) /\ WireRows(k)' = WireRows(k)
         /\ UNCHANGED <<copies, early, taken, logged, actor, snapshot, redo>>
         /\ spread \subseteq spread'
         /\ before' = IF Before THEN before \cup {w} ELSE before
         /\ w \notin Started
         /\ ask.key # k => SameWrites(k) /\ Source(k)' = Source(k)
         /\ ask.key = k =>
              /\ WritesOf(k)' = WritesOf(k) \cup {w}
              /\ asked'[w] = ask
              /\ Entry(w)' = [key |-> k, row |-> IF ask.deletes THEN None ELSE w]
              /\ Source(k)' = IF ask.deletes THEN None ELSE w
              /\ w \in spread' \/ (ask.deletes /\ Source(k) = None)
<1> USE DEF ProtocolInv
<1>1. /\ UNCHANGED <<copies, early, taken, logged, actor, snapshot, redo, wire>>
      /\ asked' = [asked EXCEPT ![w] = ask]
      /\ rows' = [rows EXCEPT !["source"][ask.key] = IF ask.deletes THEN None ELSE w]
      /\ spread' = IF ~ask.deletes \/ rows["source"][ask.key] # None
                   THEN spread \cup {w} ELSE spread
      /\ before' = IF Before THEN before \cup {w} ELSE before
  BY DEF Put, Before, transferVars
<1>2. /\ w \notin Started /\ Started' = Started \cup {w}
      /\ asked'[w] = ask /\ \A v \in Started : asked'[v] = asked[v]
  BY PutStarts DEF Typed
<1>3. /\ rows["source"] \in Rows /\ rows \in [Members -> Rows] /\ "source" \in Members
  BY DEF Typed, TypeOK, Members
<1>4. /\ Target(k)' = Target(k)
      /\ Source(k)' = IF ask.key = k THEN (IF ask.deletes THEN None ELSE w) ELSE Source(k)
  BY <1>1, <1>3 DEF Source, Target, Rows
<1>5. WireRows(k)' = WireRows(k)
  BY <1>1 DEF WireRows
<1>6. ASSUME ask.key # k
      PROVE  SameWrites(k)
  <2>1. WritesOf(k)' = WritesOf(k)
    BY <1>2, <1>6 DEF WritesOf
  <2>2. \A v \in WritesOf(k) : Entry(v)' = Entry(v)
    BY <1>2 DEF WritesOf, Entry
  <2> QED  BY <2>1, <2>2 DEF SameWrites, Written
<1>7. ASSUME ask.key = k
      PROVE  /\ WritesOf(k)' = WritesOf(k) \cup {w}
             /\ Entry(w)' = [key |-> k, row |-> IF ask.deletes THEN None ELSE w]
  BY <1>2, <1>7 DEF WritesOf, Entry
<1> QED  BY <1>1, <1>2, <1>4, <1>5, <1>6, <1>7 DEF Source

(* None of the rows that a write leaves is None when it inserts.            *)
LEMMA InsertedRow ==
  ASSUME NEW k \in Keys, OnlyInserts(k)
  PROVE  None \notin Written(k)
BY TransferAssumption DEF OnlyInserts, Written, Entry, WritesOf, Started

LEMMA InitInserts == Init => InsertInv
<1> SUFFICES ASSUME Init PROVE InsertInv
  OBVIOUS
<1>1. wire.data = << >> /\ Before
  BY DEF Init, Msg, Before
<1>2. \A k \in Keys : WireRows(k) = {}
  BY <1>1, ToSetOfNone DEF WireRows
<1> QED  BY <1>1, <1>2 DEF InsertInv, InsertKept, RowOnItsWay

LEMMA StepInserts ==
  ASSUME ProtocolInv, InsertInv, Next
  PROVE  InsertInv'
<1> SUFFICES ASSUME NEW k \in Keys, OnlyInserts(k)'
             PROVE  InsertKept(k)'
  BY DEF InsertInv
<1>1. OnlyInserts(k) => InsertKept(k) /\ None \notin Written(k)
  BY InsertedRow DEF InsertInv
<1>2. ASSUME SameWrites(k), asked' = asked
      PROVE  OnlyInserts(k)
  BY <1>2 DEF SameWrites, OnlyInserts
<1> USE DEF InsertKept, RowOnItsWay
<1>3. CASE Calm
  <2>1. SameWrites(k) /\ OnlyInserts(k)
    BY <1>2, <1>3, NoneStarts DEF Calm
  <2>2. WireRows(k)' = WireRows(k) /\ Source(k)' = Source(k) /\ Target(k)' = Target(k)
    BY <1>3 DEF Calm, WireRows, Source, Target
  <2> QED  BY <1>1, <1>3, <2>1, <2>2 DEF Calm, SameWrites
<1>4. ASSUME NEW w \in Writes, NEW ask \in Asks, Put(w, ask)
      PROVE  InsertKept(k)'
  <2>1. CASE ask.key = k
    <3>1. OnlyInserts(k) /\ ~ask.deletes
      BY <1>4, <2>1, PutAt, PutStarts DEF OnlyInserts, WritesOf, ProtocolInv, Typed
    <3>2. w \in spread' /\ w \in WritesOf(k)' /\ WireRows(k)' = WireRows(k)
      BY <1>4, <2>1, <3>1, PutAt
    <3> QED  BY <1>1, <3>1, <3>2
  <2>2. CASE ask.key # k
    <3>1. /\ SameWrites(k) /\ Source(k)' = Source(k) /\ Target(k)' = Target(k)
          /\ WireRows(k)' = WireRows(k) /\ spread \subseteq spread'
          /\ UNCHANGED <<copies, early, actor, snapshot>>
      BY <1>4, <2>2, PutAt
    <3>2. OnlyInserts(k)
      BY <1>4, <3>1, PutStarts DEF OnlyInserts, SameWrites, WritesOf, ProtocolInv, Typed
    <3> QED  BY <1>1, <3>1, <3>2 DEF SameWrites, Before
  <2> QED  BY <2>1, <2>2
<1>5. ASSUME NEW w \in Writes, AddToRedoLog(w) \/ Spread(w)
      PROVE  InsertKept(k)'
  <2>1. /\ UNCHANGED <<rows, asked, actor, snapshot, wire, early>> /\ Started' = Started
        /\ \/ UNCHANGED <<spread, copies>>
           \/ spread' = spread \ {w} /\ copies' = IF holds THEN copies \cup {w} ELSE copies
    BY <1>5, OthersStartNothing
       DEF AddToRedoLog, Spread, Handle, ProtocolInv, Typed, memberVars, transferVars, historyVars
  <2>2. /\ SameWrites(k) /\ OnlyInserts(k)
        /\ WireRows(k)' = WireRows(k) /\ Source(k)' = Source(k) /\ Target(k)' = Target(k)
    BY <1>2, <2>1, NoneStarts DEF WireRows, Source, Target
  <2>3. Before \/ early \/ holds
    BY DEF ProtocolInv, Phases
  <2> QED  BY <1>1, <2>1, <2>2, <2>3 DEF SameWrites, Before
<1>6. ASSUME NEW w \in Writes, Backup(w)
      PROVE  InsertKept(k)'
  <2>1. SameWrites(k) /\ OnlyInserts(k)
    BY <1>2, <1>6, BackupAt DEF Backup
  <2>2. CASE w \in WritesOf(k)
    <3>1. Target(k)' # None
      BY <1>1, <1>6, <2>1, <2>2, BackupAt DEF Written
    <3> QED  BY <1>1, <1>6, <2>1, <3>1, BackupAt
  <2>3. CASE w \notin WritesOf(k)
    BY <1>1, <1>6, <2>1, <2>3, BackupAt DEF SameWrites, Before
  <2> QED  BY <2>2, <2>3
<1>7. CASE CheckSize \/ TakeSnapshot
  <2>1. /\ UNCHANGED <<rows, asked>> /\ Started' = Started /\ wire'.data = wire.data
        /\ \/ Before'
           \/ KeysOf(rows["source"]) = {}
           \/ snapshot' = rows["source"]
    BY <1>7, OthersStartNothing
       DEF CheckSize, TakeSnapshot, Transfer, ProtocolInv, Typed, Turns, Before, Msg,
           memberVars, writeVars
  <2>2. /\ SameWrites(k) /\ OnlyInserts(k)
        /\ WireRows(k)' = WireRows(k) /\ Source(k)' = Source(k)
    BY <1>2, <2>1, NoneStarts DEF WireRows, Source
  <2> QED  BY <1>1, <2>1, <2>2 DEF KeysOf, Source
<1>8. CASE SendRows
  <2>1. SameWrites(k) /\ OnlyInserts(k)
    BY <1>2, <1>8, SendRowsAt DEF SendRows, writeVars
  <2> QED  BY <1>1, <1>8, <2>1, SendRowsAt DEF SameWrites, Before, Source, Target
<1>9. CASE SendRedo
  <2>1. SameWrites(k) /\ OnlyInserts(k)
    BY <1>2, <1>9, SendRedoAt DEF SendRedo, writeVars
  <2> QED  BY <1>1, <1>9, <2>1, SendRedoAt DEF SameWrites, Before, Source, Target
<1>10. CASE HandleMigrationData
  <2>1. SameWrites(k) /\ OnlyInserts(k)
    BY <1>2, <1>10, HandleMigrationDataAt DEF HandleMigrationData, writeVars
  <2> QED  BY <1>1, <1>10, <2>1, HandleMigrationDataAt DEF SameWrites, Before
<1> QED  BY <1>3, <1>4, <1>5, <1>6, <1>7, <1>8, <1>9, <1>10, CalmSteps DEF Next, Handle, Transfer

-----------------------------------------------------------------------------
LEMMA SoleRow ==
  ASSUME NEW k \in Keys, Sole(k), NEW w \in WritesOf(k)
  PROVE  Written(k) = {Entry(w).row} /\ WritesOf(k) = {w}
BY DEF Sole, Written

LEMMA InitSole == Init => SoleInv
<1> SUFFICES ASSUME Init, NEW k \in Keys PROVE SoleKept(k)
  BY DEF SoleInv
<1>1. wire.data = << >> /\ Before /\ Started = {}
  BY DEF Init, Msg, Before, Started
<1>2. WireRows(k) = {} /\ WritesOf(k) = {}
  BY <1>1, ToSetOfNone DEF WireRows, WritesOf
<1>3. Target(k) = None /\ snapshot[k] = None /\ taken[k] = None
  BY DEF Init, Target, NoRows, Members
<1> QED  BY <1>1, <1>2, <1>3 DEF SoleKept, RowsOfKey, SnapshotOnItsWay, LogOnItsWay, CopyOnItsWay

(* A write is put: it is the first of its key, or of another one.           *)
LEMMA PutSole ==
  ASSUME ProtocolInv, SoleInv, NEW w \in Writes, NEW ask \in Asks, Put(w, ask),
         NEW k \in Keys, Sole(k)'
  PROVE  SoleKept(k)'
<1>1. CASE ask.key = k
  <2> USE <1>1
  <2>1. WritesOf(k) = {} /\ WritesOf(k)' = {w} /\ Sole(k)
    <3>1. WritesOf(k)' = WritesOf(k) \cup {w} /\ w \notin Started
      BY PutAt
    <3> QED  BY <3>1 DEF Sole, WritesOf
  <2>2. SoleKept(k) /\ Written(k) = {}
    BY <2>1 DEF SoleInv, Written
  <2>3. /\ Target(k)' = Target(k) /\ WireRows(k)' = WireRows(k)
        /\ UNCHANGED <<copies, early, taken, logged, actor, snapshot, redo>>
        /\ before' = IF Before THEN before \cup {w} ELSE before
        /\ Entry(w)'.row = Source(k)'
        /\ w \in spread' \/ (Source(k)' = None /\ Source(k) = None)
        /\ w \notin Started
    BY PutAt
  <2>4. Written(k)' = {Source(k)'}
    BY <2>1, <2>3 DEF Written
  <2>5. w \notin logged /\ w \notin before
    BY <2>3 DEF ProtocolInv, OnlyStarted
  <2>6. RowsOfKey(k)'
    BY <2>1, <2>2, <2>3, <2>4, <2>5 DEF SoleKept, RowsOfKey, Before
  <2>7. SnapshotOnItsWay(k)' /\ LogOnItsWay(k)'
    BY <2>1, <2>3, <2>5 DEF SnapshotOnItsWay, LogOnItsWay, Before
  <2>8. CopyOnItsWay(k)'
    BY <2>1, <2>2, <2>3 DEF SoleKept, RowsOfKey, CopyOnItsWay, Before
  <2> QED  BY <2>6, <2>7, <2>8 DEF SoleKept
<1>2. CASE ask.key # k
  <2>1. /\ SameWrites(k) /\ Source(k)' = Source(k) /\ Target(k)' = Target(k)
        /\ WireRows(k)' = WireRows(k) /\ spread \subseteq spread'
        /\ UNCHANGED <<copies, early, taken, logged, actor, snapshot, redo>>
        /\ before' = (IF Before THEN before \cup {w} ELSE before) /\ w \notin Started
    BY <1>2, PutAt
  <2>2. WritesOf(k) \cap before' = WritesOf(k) \cap before
    BY <2>1 DEF WritesOf
  <2>3. Sole(k) /\ SoleKept(k)
    BY <2>1 DEF SameWrites, Sole, SoleInv
  <2>4. RowsOfKey(k)'
    BY <2>1, <2>2, <2>3 DEF SoleKept, RowsOfKey, SameWrites, Before
  <2>5. SnapshotOnItsWay(k)' /\ LogOnItsWay(k)'
    BY <2>1, <2>2, <2>3 DEF SoleKept, SnapshotOnItsWay, LogOnItsWay, SameWrites, Before
  <2>6. CopyOnItsWay(k)'
    BY <2>1, <2>2, <2>3 DEF SoleKept, CopyOnItsWay, SameWrites, Before
  <2> QED  BY <2>4, <2>5, <2>6 DEF SoleKept
<1> QED  BY <1>1, <1>2

(* The steps of the threads that have a write.                              *)
LEMMA HandleSole ==
  ASSUME ProtocolInv, SoleInv, NEW w \in Writes, Handle(w), NEW k \in Keys, Sole(k), ~Calm
  PROVE  SoleKept(k)'
<1> SoleKept(k)
  BY DEF SoleInv
<1>1. CASE AddToRedoLog(w)
  <2>1. /\ UNCHANGED <<rows, asked, spread, copies, actor, snapshot, wire, early, taken, before>>
        /\ Started' = Started
        /\ redo' = IF Registered THEN Append(redo, w) ELSE redo
        /\ logged' = IF actor = "listed" THEN logged \cup {w} ELSE logged
    BY <1>1, OthersStartNothing DEF AddToRedoLog, Handle, ProtocolInv, Typed, memberVars
  <2>2. SameWrites(k) /\ WireRows(k)' = WireRows(k)
        /\ Source(k)' = Source(k) /\ Target(k)' = Target(k)
    BY <2>1, NoneStarts DEF WireRows, Source, Target
  <2>3. RowsOfKey(k)' /\ SnapshotOnItsWay(k)' /\ CopyOnItsWay(k)'
    BY <2>1, <2>2 DEF SoleKept, RowsOfKey, SnapshotOnItsWay, CopyOnItsWay, SameWrites, Before
  <2>4. LogOnItsWay(k)'
    <3>1. ToSet(Append(redo, w)) = ToSet(redo) \cup {w}
      BY ToSetAppend DEF ProtocolInv, Typed, TypeOK
    <3> QED  BY <2>1, <2>2, <3>1 DEF SoleKept, LogOnItsWay, SameWrites, Registered
  <2> QED  BY <2>3, <2>4 DEF SoleKept
<1>2. CASE Spread(w)
  <2>1. /\ UNCHANGED <<rows, asked, actor, snapshot, wire, early, taken, before, redo, logged>>
        /\ Started' = Started /\ spread' = spread \ {w}
        /\ copies' = IF holds THEN copies \cup {w} ELSE copies
    BY <1>2, OthersStartNothing
       DEF Spread, Handle, ProtocolInv, Typed, memberVars, transferVars, historyVars
  <2>2. SameWrites(k) /\ WireRows(k)' = WireRows(k)
        /\ Source(k)' = Source(k) /\ Target(k)' = Target(k)
    BY <2>1, NoneStarts DEF WireRows, Source, Target
  <2>3. RowsOfKey(k)' /\ SnapshotOnItsWay(k)' /\ LogOnItsWay(k)'
    BY <2>1, <2>2 DEF SoleKept, RowsOfKey, SnapshotOnItsWay, LogOnItsWay, SameWrites, Before
  <2>4. CopyOnItsWay(k)'
    BY <2>1, <2>2 DEF SoleKept, CopyOnItsWay, SameWrites, Before, ProtocolInv, Phases
  <2> QED  BY <2>3, <2>4 DEF SoleKept
<1>3. CASE Backup(w)
  <2>1. /\ SameWrites(k) /\ Source(k)' = Source(k) /\ WireRows(k)' = WireRows(k)
        /\ UNCHANGED <<spread, early, taken, before, logged, actor, snapshot, redo>>
        /\ copies' = copies \ {w}
    BY <1>3, BackupAt
  <2>2. CASE w \in WritesOf(k)
    <3>1. /\ Target(k)' = Entry(w).row /\ Source(k) = Entry(w).row
          /\ WritesOf(k) = {w} /\ Written(k) = {Entry(w).row}
      BY <1>3, <2>2, BackupAt, SoleRow DEF SoleKept, RowsOfKey
    <3>2. RowsOfKey(k)' /\ SnapshotOnItsWay(k)' /\ CopyOnItsWay(k)'
      BY <2>1, <3>1 DEF SoleKept, RowsOfKey, SnapshotOnItsWay, CopyOnItsWay, SameWrites, Before
    <3>3. LogOnItsWay(k)'
      BY <2>1, <3>1 DEF SoleKept, LogOnItsWay, SameWrites
    <3> QED  BY <3>2, <3>3 DEF SoleKept
  <2>3. CASE w \notin WritesOf(k)
    <3>1. Target(k)' = Target(k)
      BY <1>3, <2>3, BackupAt
    <3>2. RowsOfKey(k)' /\ SnapshotOnItsWay(k)' /\ LogOnItsWay(k)'
      BY <2>1, <3>1 DEF SoleKept, RowsOfKey, SnapshotOnItsWay, LogOnItsWay, SameWrites, Before
    <3>3. CopyOnItsWay(k)'
      BY <2>1, <2>3, <3>1 DEF SoleKept, CopyOnItsWay, SameWrites, Before
    <3> QED  BY <3>2, <3>3 DEF SoleKept
  <2> QED  BY <2>2, <2>3
<1> QED  BY <1>1, <1>2, <1>3, CalmSteps DEF Handle

(* The snapshot is taken, or there is nothing to take.                      *)
LEMMA SnapshotSole ==
  ASSUME ProtocolInv, SoleInv, CheckSize \/ TakeSnapshot, NEW k \in Keys, Sole(k)
  PROVE  SoleKept(k)'
<1> SoleKept(k)
  BY DEF SoleInv
<1>1. /\ UNCHANGED <<rows, asked, spread, copies, redo, before, logged>> /\ Started' = Started
      /\ wire'.data = wire.data /\ Before
    BY OthersStartNothing
       DEF CheckSize, TakeSnapshot, Transfer, ProtocolInv, Typed, Turns, Before, Msg,
           memberVars, writeVars
<1>2. SameWrites(k) /\ WireRows(k)' = WireRows(k)
      /\ Source(k)' = Source(k) /\ Target(k)' = Target(k)
  BY <1>1, NoneStarts DEF WireRows, Source, Target
<1>3. /\ snapshot[k] = None /\ taken[k] = None /\ WireRows(k) = {}
      /\ WritesOf(k) \subseteq before
      /\ logged = {}
  <2>1. wire.data = << >>
    BY <1>1 DEF ProtocolInv, Typed, Turns, Before
  <2>2. WireRows(k) = {}
    BY <2>1, ToSetOfNone DEF WireRows
  <2> QED  BY <1>1, <2>2 DEF ProtocolInv, Phases, Before, NoRows, WritesOf
<1>4. \/ Before' /\ UNCHANGED <<snapshot, taken>>
      \/ ~Before' /\ UNCHANGED <<snapshot, taken>> /\ Source(k) = None
      \/ ~Before' /\ snapshot'[k] = Source(k) /\ taken'[k] = Source(k)
  BY DEF CheckSize, TakeSnapshot, KeysOf, Before, Source
<1>5. RowsOfKey(k)'
  BY <1>1, <1>2, <1>3, <1>4 DEF SoleKept, RowsOfKey, SameWrites
<1>6. SnapshotOnItsWay(k)'
  BY <1>1, <1>2, <1>3, <1>4 DEF SoleKept, SnapshotOnItsWay, SameWrites
<1>7. LogOnItsWay(k)'
  BY <1>1, <1>2, <1>3, <1>4 DEF SoleKept, LogOnItsWay, SameWrites
<1>8. CopyOnItsWay(k)'
  BY <1>1, <1>2, <1>3, <1>4 DEF SoleKept, CopyOnItsWay, SameWrites
<1> QED  BY <1>5, <1>6, <1>7, <1>8 DEF SoleKept
(* A batch of the snapshot, a batch of the log, a row that arrives.         *)
LEMMA SendSole ==
  ASSUME ProtocolInv, SoleInv, SendRows \/ SendRedo, NEW k \in Keys, Sole(k)
  PROVE  SoleKept(k)'
<1> SoleKept(k)
  BY DEF SoleInv
<1>1. CASE SendRows
  <2>1. /\ SameWrites(k) /\ WireRows(k) = {}
        /\ UNCHANGED <<rows, spread, copies, early, taken, before, logged, actor, redo>>
        /\ Source(k)' = Source(k) /\ Target(k)' = Target(k)
        /\ \/ snapshot[k] # None /\ snapshot'[k] = None /\ WireRows(k)' = {snapshot[k]}
           \/ snapshot'[k] = snapshot[k] /\ WireRows(k)' = {}
    BY <1>1, SendRowsAt DEF Source, Target
  <2>2. RowsOfKey(k)'
    BY <2>1 DEF SoleKept, RowsOfKey, SameWrites, Before
  <2>3. SnapshotOnItsWay(k)' /\ CopyOnItsWay(k)'
    BY <2>1 DEF SoleKept, SnapshotOnItsWay, CopyOnItsWay, SameWrites, Before
  <2>4. LogOnItsWay(k)'
    BY <2>1 DEF SoleKept, LogOnItsWay, SameWrites
  <2> QED  BY <2>2, <2>3, <2>4 DEF SoleKept
<1>2. CASE SendRedo
  <2>1. /\ SameWrites(k) /\ WireRows(k) = {} /\ snapshot[k] = None
        /\ UNCHANGED <<rows, spread, copies, early, taken, before, logged, actor, snapshot>>
        /\ Source(k)' = Source(k) /\ Target(k)' = Target(k)
        /\ WireRows(k)' \subseteq Written(k)
        /\ \A w \in WritesOf(k) \cap ToSet(redo) :
             w \in ToSet(redo') \/ Entry(w).row \in WireRows(k)'
    BY <1>2, SendRedoAt DEF Source, Target
  <2>2. Written(k) \subseteq {Source(k)}
    BY DEF Written, SoleKept, RowsOfKey
  <2>3. RowsOfKey(k)'
    BY <2>1 DEF SoleKept, RowsOfKey, SameWrites, Before
  <2>4. SnapshotOnItsWay(k)' /\ CopyOnItsWay(k)'
    BY <2>1 DEF SoleKept, SnapshotOnItsWay, CopyOnItsWay, SameWrites, Before
  <2>5. LogOnItsWay(k)'
    BY <2>1, <2>2 DEF SoleKept, RowsOfKey, LogOnItsWay, SameWrites
  <2> QED  BY <2>3, <2>4, <2>5 DEF SoleKept
<1> QED  BY <1>1, <1>2

LEMMA HandleMigrationDataSole ==
  ASSUME ProtocolInv, SoleInv, HandleMigrationData, NEW k \in Keys, Sole(k)
  PROVE  SoleKept(k)'
<1> SoleKept(k)
  BY DEF SoleInv
<1>1. /\ SameWrites(k) /\ Source(k)' = Source(k)
      /\ UNCHANGED <<spread, copies, early, taken, before, logged, actor, snapshot, redo>>
      /\ \/ Target(k)' = Target(k) /\ WireRows(k)' = WireRows(k)
         \/ WireRows(k) = {Target(k)'} \cup WireRows(k)'
  BY HandleMigrationDataAt
<1>2. RowsOfKey(k)'
  BY <1>1 DEF SoleKept, RowsOfKey, SameWrites, Before
<1>3. \A w \in WritesOf(k) : Written(k) = {Source(k)}
  BY SoleRow DEF SoleKept, RowsOfKey
<1>4. SnapshotOnItsWay(k)'
  <2> SUFFICES ASSUME WritesOf(k) \subseteq before, ~Before, Source(k) # None
               PROVE  \/ snapshot[k] = Source(k)
                      \/ Source(k) \in WireRows(k)'
                      \/ Target(k)' = Source(k)
    BY <1>1 DEF SnapshotOnItsWay, SameWrites, Before
  <2>1. Source(k) = taken[k]
    BY DEF SoleKept, RowsOfKey
  <2>2. WireRows(k) \subseteq {Source(k)}
    BY <1>3, <2>1 DEF SoleKept, RowsOfKey, Written
  <2> QED  BY <1>1, <2>2 DEF SoleKept, SnapshotOnItsWay
<1>5. LogOnItsWay(k)'
  BY <1>1 DEF SoleKept, LogOnItsWay, SameWrites
<1>6. CopyOnItsWay(k)'
  BY <1>1, <1>3 DEF SoleKept, RowsOfKey, CopyOnItsWay, SameWrites, Before
<1> QED  BY <1>2, <1>4, <1>5, <1>6 DEF SoleKept

LEMMA CalmSole ==
  ASSUME ProtocolInv, SoleInv, Calm, NEW k \in Keys, Sole(k)
  PROVE  SoleKept(k)'
<1> SoleKept(k)
  BY DEF SoleInv
<1>1. /\ SameWrites(k) /\ WireRows(k)' = WireRows(k)
      /\ Source(k)' = Source(k) /\ Target(k)' = Target(k)
      /\ UNCHANGED <<spread, copies, snapshot, early, taken, before, logged>>
      /\ Before' <=> Before
  BY NoneStarts DEF Calm, WireRows, Source, Target
<1>2. RowsOfKey(k)' /\ SnapshotOnItsWay(k)' /\ CopyOnItsWay(k)'
  BY <1>1 DEF SoleKept, RowsOfKey, SnapshotOnItsWay, CopyOnItsWay, SameWrites
<1>3. LogOnItsWay(k)'
  <2>1. redo = << >> => ToSet(redo) = {}
    BY ToSetOfNone
  <2> QED  BY <1>1, <2>1 DEF SoleKept, LogOnItsWay, SameWrites, Calm
<1> QED  BY <1>2, <1>3 DEF SoleKept

LEMMA StepSole ==
  ASSUME ProtocolInv, SoleInv, Next
  PROVE  SoleInv'
<1> SUFFICES ASSUME NEW k \in Keys, Sole(k)' PROVE SoleKept(k)'
  BY DEF SoleInv
<1>1. CASE \E w \in Writes, ask \in Asks : Put(w, ask)
  BY <1>1, PutSole
<1>2. CASE ~\E w \in Writes, ask \in Asks : Put(w, ask)
  <2>1. Started' = Started /\ asked' = asked
    BY <1>2, OthersStartNothing DEF Next, ProtocolInv, Typed
  <2>2. Sole(k)
    BY <2>1, NoneStarts DEF SameWrites, Sole
  <2> QED  BY <1>2, <2>2, CalmSteps, CalmSole, HandleSole, SnapshotSole, SendSole,
              HandleMigrationDataSole DEF Next, Transfer
<1> QED  BY <1>1, <1>2

-----------------------------------------------------------------------------
(* TransferInv holds in every reachable state of a transfer.                *)
THEOREM TransferInvariance == Spec => []TransferInv
<1>1. Init => TransferInv
  BY InitProtocol, InitInserts, InitSole DEF TransferInv
<1>2. TransferInv /\ [Next]_vars => TransferInv'
  <2> SUFFICES ASSUME TransferInv, [Next]_vars PROVE TransferInv'
    OBVIOUS
  <2>1. CASE Next
    BY <2>1, StepTyped, StepStarted, StepTurns, StepPhases, StepInserts, StepSole
       DEF TransferInv, ProtocolInv
  <2>2. CASE UNCHANGED vars
    <3>1. ProtocolInv'
      BY <2>2 DEF TransferInv, ProtocolInv, Typed, TypeOK, OnlyStarted, Turns, Phases, Started,
                  Before, Registered, vars, memberVars, writeVars, transferVars, historyVars
    <3>2. Calm
      BY <2>2 DEF Calm, Started, Before,
                  vars, memberVars, writeVars, transferVars, historyVars
    <3>3. InsertInv'
      BY <2>2 DEF TransferInv, InsertInv, InsertKept, OnlyInserts, RowOnItsWay, WireRows, Source,
                  Target, WritesOf, Started, Before,
                  vars, memberVars, writeVars, transferVars, historyVars
    <3>4. SoleInv'
      <4>1. \A k \in Keys : Sole(k)' => Sole(k)
        BY <3>2, NoneStarts DEF Calm, SameWrites, Sole
      <4> QED  BY <3>2, <4>1, CalmSole DEF TransferInv, SoleInv
    <3> QED  BY <3>1, <3>3, <3>4 DEF TransferInv
  <2> QED  BY <2>1, <2>2
<1> QED  BY <1>1, <1>2, PTL DEF Spec

(* Types: what is stored, asked for, sent and logged, and only a migration  *)
(* actor that the store has listed logs writes.                             *)
THEOREM TransferTypes == Spec => []TypeOK
<1>1. TransferInv => TypeOK
  BY DEF TransferInv, ProtocolInv, Typed
<1> QED  BY <1>1, TransferInvariance, PTL

(* When everything has ended nothing is on its way.                         *)
LEMMA SettledIsQuiet ==
  ASSUME ProtocolInv, Settled, NEW k \in Keys
  PROVE  /\ WireRows(k) = {} /\ snapshot[k] = None /\ ~Before /\ actor # "listed"
         /\ spread \cup copies = {}
<1>1. wire.data = << >>
  BY DEF Settled, NoMessage
<1> QED  BY <1>1, ToSetOfNone DEF WireRows, Settled, ProtocolInv, Phases, Before, NoRows

(* No insert is lost when the source knew of its target before it looked at *)
(* its rows: a key that nothing deleted is at the target in the end.        *)
THEOREM InsertsArriveAlways == Spec => []InsertsArrive
<1>1. TransferInv => InsertsArrive
  <2> SUFFICES ASSUME TransferInv, Settled, ~early, NEW k \in Keys, OnlyInserts(k),
                      Source(k) # None
               PROVE  Target(k) # None
    BY DEF InsertsArrive, OnlyInserts, Source, Target
  <2>1. InsertKept(k)
    BY DEF TransferInv, InsertInv
  <2> QED  BY <2>1, SettledIsQuiet DEF TransferInv, InsertKept, RowOnItsWay
<1> QED  BY <1>1, TransferInvariance, PTL

(* The members agree on a key that was written once at most, when the       *)
(* snapshot, the redo log or a copy that nothing overwrites had the write.  *)
THEOREM WritesAgreeAlways == Spec => []WritesAgree
<1>1. ASSUME NEW k \in Keys, Cardinality(WritesOf(k)) <= 1
      PROVE  Sole(k)
  <2>1. IsFiniteSet(WritesOf(k))
    BY TransferAssumption, FS_Subset DEF WritesOf, Started
  <2> SUFFICES ASSUME NEW v \in WritesOf(k), NEW w \in WritesOf(k), v # w
               PROVE  FALSE
    BY DEF Sole
  <2>2. /\ IsFiniteSet(WritesOf(k) \ {v})
        /\ Cardinality(WritesOf(k) \ {v}) = Cardinality(WritesOf(k)) - 1
        /\ Cardinality(WritesOf(k)) \in Nat
    BY <2>1, FS_RemoveElement, FS_CardinalityType
  <2>3. Cardinality(WritesOf(k) \ {v}) = 0
    BY <1>1, <2>2, FS_CardinalityType
  <2>4. WritesOf(k) \ {v} = {}
    BY <2>2, <2>3, FS_EmptySet
  <2> QED  BY <2>4
<1>2. TransferInv => WritesAgree
  <2> SUFFICES ASSUME TransferInv, Settled, NEW k \in Keys, Cardinality(WritesOf(k)) <= 1,
                      \A w \in WritesOf(k) : Reached(w)
               PROVE  Source(k) = Target(k)
    BY DEF WritesAgree, Source, Target
  <2>1. Sole(k) /\ SoleKept(k)
    BY <1>1 DEF TransferInv, SoleInv
  <2>2. /\ WireRows(k) = {} /\ snapshot[k] = None /\ ~Before /\ actor # "listed"
        /\ spread \cup copies = {}
    BY SettledIsQuiet DEF TransferInv
  <2>3. CASE WritesOf(k) \subseteq before
    <3>1. Source(k) = taken[k] /\ Written(k) \subseteq {taken[k]}
      BY <2>1, <2>2, <2>3 DEF SoleKept, RowsOfKey, Written
    <3>2. Target(k) \in {None, taken[k]}
      BY <2>1, <3>1 DEF SoleKept, RowsOfKey
    <3>3. Source(k) # None => Target(k) = Source(k)
      BY <2>1, <2>2, <2>3 DEF SoleKept, SnapshotOnItsWay
    <3> QED  BY <3>1, <3>2, <3>3
  <2>4. ASSUME NEW w \in WritesOf(k), w \notin before
        PROVE  Source(k) = Target(k)
    <3>1. CASE w \in logged
      BY <2>1, <2>2, <3>1 DEF SoleKept, LogOnItsWay
    <3>2. CASE ~early /\ taken[asked[w].key] = None
      BY <2>1, <2>2, <2>4, <3>2 DEF SoleKept, CopyOnItsWay, WritesOf
    <3> QED  BY <2>4, <3>1, <3>2 DEF Reached
  <2> QED  BY <2>3, <2>4
<1> QED  BY <1>2, TransferInvariance, PTL
=============================================================================
