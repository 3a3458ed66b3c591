---------------------------- MODULE StoreTransfer ----------------------------
(***************************************************************************)
(* The transfer of one partition of one store from the member that is       *)
(* primary, the source, to a member that a balance gave a replica, the      *)
(* target, while clients write (idgs/sync/ and idgs/store/ of the store     *)
(* service).  Module Migration has this as one step.                        *)
(*                                                                          *)
(* The rows reach the target on three ways.  The source actor sends the     *)
(* snapshot it took and then its redo log, one batch for each request.  The *)
(* source itself sends the target a copy of each write once its partition   *)
(* table has the target, and worker threads handle the copies in any order. *)
(* What ties the ways together is in three places that change at different  *)
(* times: the table of the source, its PS_SOURCE in that table (both by     *)
(* what CPG delivers) and the list of migration actors of the store.        *)
(***************************************************************************)
EXTENDS Naturals, FiniteSets, Sequences, SequencesExt

CONSTANTS Keys,
          Writes,     \* bound: the operations clients send
          BatchSize   \* StoreConfig.migration_batch_size

None == "none"
Old  == "old"     \* a row of before the transfer

ASSUME TransferAssumption ==
  /\ Keys # {} /\ Writes # {}
  /\ IsFiniteSet(Keys)
  /\ IsFiniteSet(Writes)
  /\ None \notin Writes /\ Old \notin Writes
  /\ BatchSize \in Nat \ {0}

Members == {"source", "target"}

VARIABLES rows,     \* the store of each member
          holds,    \* the table of the source has the target
          state,    \* the state of the source in its own table
          log,      \* what CPG has yet to deliver to the source
          asked,    \* what each write asks for
          client,   \* how far the thread that handles a write is
          spread,   \* writes the LISTENER_MANAGER of the source has to handle
          copies,   \* writes on their way to the LISTENER_MANAGER of the target
          actor,    \* the life of the StoreMigrationSourceActor
          snapshot, \* what it has to send of its snapshot
          redo,     \* StoreMigrationSourceActor::redoLog
          wire,     \* the message between the actors, of which there is one
          early,    \* history: the snapshot was taken before `holds'
          taken,    \* history: the snapshot
          before,   \* history: writes put before the snapshot
          logged    \* history: writes logged before the transfer was complete

memberVars   == <<rows, holds, state, log>>
writeVars    == <<asked, client, spread, copies>>
transferVars == <<actor, snapshot, redo, wire>>
historyVars  == <<early, taken, before, logged>>
vars == <<memberVars, writeVars, transferVars, historyVars>>

Row == {None, Old} \cup Writes
Rows == [Keys -> Row]
NoRows == [k \in Keys |-> None]
KeysOf(map) == {k \in Keys : map[k] # None}

(* A write leaves its own row, or none when it deletes.                     *)
Asks == [key : Keys, deletes : BOOLEAN]
Entry(w) == [key |-> asked[w].key, row |-> IF asked[w].deletes THEN None ELSE w]

NoMessage == [type |-> "none", data |-> << >>]
Msg(type) == [type |-> type, data |-> << >>]
Data(entries) == [type |-> "data", data |-> entries]

(* The target has dispatched the delta that gives it the partition and has  *)
(* asked for it; the source may still have the delta to come.               *)
Init ==
  /\ rows \in {[m \in Members |-> IF m = "source" THEN r ELSE NoRows] : r \in [Keys -> {None, Old}]}
  /\ holds = FALSE
  /\ state = "READY"
  /\ log = <<"delta">>
  /\ asked = [w \in Writes |-> [key |-> CHOOSE k \in Keys : TRUE, deletes |-> FALSE]]
  /\ client = [w \in Writes |-> "none"]
  /\ spread = {}
  /\ copies = {}
  /\ actor = "none"
  /\ snapshot = NoRows
  /\ redo = << >>
  /\ wire = Msg("request")
  /\ early = FALSE
  /\ taken = NoRows
  /\ before = {}
  /\ logged = {}

-----------------------------------------------------------------------------
(* The source dispatches an event: the delta of the balance, or its status. *)
Dispatch ==
  /\ log # << >>
  /\ log' = Tail(log)
  /\ holds' = (holds \/ Head(log) = "delta")
  /\ state' = IF Head(log) = "delta" THEN state ELSE Head(log)
  /\ UNCHANGED <<rows, writeVars, transferVars, historyVars>>

-----------------------------------------------------------------------------
(* handleInsertStore, handleUpdateStore and handleDeleteStore at the        *)
(* primary: the row is written and the listeners are told, unless there was *)
(* nothing to delete ...                                                    *)
Put(w, ask) ==
  LET found == ~ask.deletes \/ rows["source"][ask.key] # None
  IN /\ client[w] = "none"
     /\ asked' = [asked EXCEPT ![w] = ask]
     /\ rows' = [rows EXCEPT !["source"][ask.key] = IF ask.deletes THEN None ELSE w]
     /\ spread' = IF found THEN spread \cup {w} ELSE spread
     /\ client' = [client EXCEPT ![w] = "written"]
     /\ before' = IF actor \in {"none", "asked", "sized"} THEN before \cup {w} ELSE before
     /\ UNCHANGED <<holds, state, log, copies, transferVars, early, taken, logged>>

(* ... then the state of the member is read ...                             *)
GetMemberState(w) ==
  /\ client[w] = "written"
  /\ client' = [client EXCEPT ![w] = IF state = "SOURCE" THEN "source" ELSE "done"]
  /\ UNCHANGED <<memberVars, asked, spread, copies, transferVars, historyVars>>

Registered == actor \in {"listed", "ended"}

(* Mutant of AddToRedoLog: an actor that is not in the list logs as well.   *)
AddToAnyRedoLog(w) ==
  /\ client[w] = "source"
  /\ redo' = Append(redo, w)
  /\ client' = [client EXCEPT ![w] = "done"]
  /\ logged' = logged \cup {w}
  /\ UNCHANGED <<memberVars, asked, spread, copies, actor, snapshot, wire, early, taken, before>>

(* ... and the migration actors of the partition log the write.             *)
AddToRedoLog(w) ==
  /\ client[w] = "source"
  /\ redo' = IF Registered THEN Append(redo, w) ELSE redo
  /\ client' = [client EXCEPT ![w] = "done"]
  /\ logged' = IF actor = "listed" THEN logged \cup {w} ELSE logged
  /\ UNCHANGED <<memberVars, asked, spread, copies, actor, snapshot, wire, early, taken, before>>

(* Mutant of Spread: copies go to replicas that are ready only.             *)
SpreadToReady(w) ==
  /\ w \in spread
  /\ spread' = spread \ {w}
  /\ copies' = IF holds /\ actor = "gone" THEN copies \cup {w} ELSE copies
  /\ UNCHANGED <<memberVars, asked, client, transferVars, historyVars>>

(* BackupStoreListener at the primary: a copy for each other replica that   *)
(* its table has by now, without waiting.                                   *)
Spread(w) ==
  /\ w \in spread
  /\ spread' = spread \ {w}
  /\ copies' = IF holds THEN copies \cup {w} ELSE copies
  /\ UNCHANGED <<memberVars, asked, client, transferVars, historyVars>>

(* BackupStoreListener at the target.                                       *)
Backup(w) ==
  /\ w \in copies
  /\ copies' = copies \ {w}
  /\ rows' = [rows EXCEPT !["target"][Entry(w).key] = Entry(w).row]
  /\ UNCHANGED <<holds, state, log, asked, client, spread, transferVars, historyVars>>

-----------------------------------------------------------------------------
(* MigrationSourceActor::handleMigrationRequest multicasts PS_SOURCE, looks *)
(* whether there is anything to send, and makes the source actor: setStore  *)
(* takes the snapshot and then registers the actor with the store.          *)
Announce ==
  /\ wire.type = "request"
  /\ actor = "none"
  /\ actor' = "asked"
  /\ wire' = NoMessage
  /\ log' = Append(log, "SOURCE")
  /\ UNCHANGED <<rows, holds, state, writeVars, snapshot, redo, historyVars>>

CheckSize ==
  /\ actor = "asked"
  /\ IF KeysOf(rows["source"]) = {}
     THEN actor' = "gone" /\ wire' = Msg("complete") /\ early' = ~holds
     ELSE actor' = "sized" /\ UNCHANGED <<wire, early>>
  /\ UNCHANGED <<memberVars, writeVars, snapshot, redo, taken, before, logged>>

TakeSnapshot ==
  /\ actor = "sized"
  /\ actor' = "taken"
  /\ snapshot' = rows["source"]
  /\ taken' = rows["source"]
  /\ early' = ~holds
  /\ UNCHANGED <<memberVars, writeVars, redo, wire, before, logged>>

AddMigrationActor ==
  /\ actor = "taken"
  /\ actor' = "listed"
  /\ wire' = Msg("request")
  /\ UNCHANGED <<memberVars, writeVars, snapshot, redo, historyVars>>

(* StoreMigrationSourceActor::handleMigrationRequest: a batch of the        *)
(* snapshot, in the order of its map, ...                                   *)
Asked == actor = "listed" /\ wire.type = "request"

Smaller(n) == IF n < BatchSize THEN n ELSE BatchSize

SendRows ==
  /\ Asked
  /\ KeysOf(snapshot) # {}
  /\ \E batch \in SUBSET KeysOf(snapshot) :
       /\ Cardinality(batch) = Smaller(Cardinality(KeysOf(snapshot)))
       /\ wire' = Data([i \in 1..Cardinality(batch) |->
                          [key |-> SetToSeq(batch)[i], row |-> snapshot[SetToSeq(batch)[i]]]])
       /\ snapshot' = [k \in Keys |-> IF k \in batch THEN None ELSE snapshot[k]]
  /\ UNCHANGED <<memberVars, writeVars, actor, redo, historyVars>>

(* ... then a batch of the redo log, ...                                    *)
SendRedo ==
  LET n == Smaller(Len(redo))
  IN /\ Asked
     /\ KeysOf(snapshot) = {}
     /\ redo # << >>
     /\ wire' = Data([i \in 1..n |-> Entry(redo[i])])
     /\ redo' = SubSeq(redo, n + 1, Len(redo))
     /\ UNCHANGED <<memberVars, writeVars, actor, snapshot, historyVars>>

(* Mutant of SendComplete: what is in the redo log is not waited for.       *)
SendCompleteEarly ==
  /\ Asked
  /\ KeysOf(snapshot) = {}
  /\ wire' = Msg("complete")
  /\ actor' = "ended"
  /\ UNCHANGED <<memberVars, writeVars, snapshot, redo, historyVars>>

(* ... and when both are empty the end.                                     *)
SendComplete ==
  /\ Asked
  /\ KeysOf(snapshot) = {}
  /\ redo = << >>
  /\ wire' = Msg("complete")
  /\ actor' = "ended"
  /\ UNCHANGED <<memberVars, writeVars, snapshot, redo, historyVars>>

(* Its onDestroy, on the message that terminate() sent.                     *)
OnDestroy ==
  /\ actor = "ended"
  /\ actor' = "gone"
  /\ redo' = << >>
  /\ UNCHANGED <<memberVars, writeVars, snapshot, wire, historyVars>>

(* Mutant of HandleMigrationData: the target asks once.                     *)
HandleMigrationDataOnce ==
  LET entry == Head(wire.data)
  IN /\ wire.type = "data"
     /\ rows' = [rows EXCEPT !["target"][entry.key] = entry.row]
     /\ wire' = IF Len(wire.data) = 1 THEN NoMessage ELSE Data(Tail(wire.data))
     /\ UNCHANGED <<holds, state, log, writeVars, actor, snapshot, redo, historyVars>>

(* StoreMigrationTargetActor::handleMigrationData writes the rows one by    *)
(* one and then asks for more.                                              *)
HandleMigrationData ==
  LET entry == Head(wire.data)
  IN /\ wire.type = "data"
     /\ rows' = [rows EXCEPT !["target"][entry.key] = entry.row]
     /\ wire' = IF Len(wire.data) = 1 THEN Msg("request") ELSE Data(Tail(wire.data))
     /\ UNCHANGED <<holds, state, log, writeVars, actor, snapshot, redo, historyVars>>

(* handleStoreMigrationComplete of the target actors, and the source that   *)
(* is no longer one (handlePartitionMigrationComplete).                     *)
HandleStoreMigrationComplete ==
  /\ wire.type = "complete"
  /\ wire' = Msg("finished")
  /\ UNCHANGED <<memberVars, writeVars, actor, snapshot, redo, historyVars>>

HandlePartitionMigrationComplete ==
  /\ wire.type = "finished"
  /\ wire' = NoMessage
  /\ log' = Append(log, "READY")
  /\ UNCHANGED <<rows, holds, state, writeVars, actor, snapshot, redo, historyVars>>

-----------------------------------------------------------------------------
(* The worker thread that has write w.                                      *)
Handle(w) ==
  \/ GetMemberState(w)
  \/ AddToRedoLog(w)
  \/ Spread(w)
  \/ Backup(w)

Transfer ==
  \/ Announce
  \/ CheckSize
  \/ TakeSnapshot
  \/ AddMigrationActor
  \/ SendRows
  \/ SendRedo
  \/ SendComplete
  \/ OnDestroy
  \/ HandleMigrationData
  \/ HandleStoreMigrationComplete
  \/ HandlePartitionMigrationComplete

Next ==
  \/ Dispatch
  \/ \E w \in Writes, ask \in Asks : Put(w, ask)
  \/ \E w \in Writes : Handle(w)
  \/ Transfer

Spec == Init /\ [][Next]_vars

(* Threads go on and messages arrive; clients need not send anything.       *)
FairSpec ==
  /\ Spec
  /\ WF_vars(Dispatch)
  /\ WF_vars(Transfer)
  /\ \A w \in Writes : WF_vars(Handle(w))

-----------------------------------------------------------------------------
Started == {w \in Writes : client[w] # "none"}
WritesOf(k) == {w \in Started : asked[w].key = k}

(* Everything has ended.                                                    *)
Settled ==
  /\ wire = NoMessage /\ actor = "gone" /\ log = << >>
  /\ \A w \in Started : client[w] = "done"
  /\ spread = {} /\ copies = {}

(* Types, and only an actor that the store has listed logs writes.          *)
TypeOK ==
  /\ rows \in [Members -> Rows]
  /\ asked \in [Writes -> Asks]
  /\ snapshot \in Rows
  /\ redo \in Seq(Writes)
  /\ redo # << >> => Registered

(* No insert is lost, however the snapshot, the log and the copies          *)
(* interleave, provided the source knew of its target before it looked at   *)
(* its rows: a key that nothing deleted is at the target in the end.        *)
InsertsArrive ==
  Settled /\ ~early =>
    \A k \in Keys : (\A w \in WritesOf(k) : ~asked[w].deletes)
                      => (rows["source"][k] # None => rows["target"][k] # None)

(* Both members agree on a key that was written at most once: when the      *)
(* write is in the snapshot, when it was in the redo log before the end,    *)
(* and when the snapshot has nothing to write over its copy.                *)
Reached(w) ==
  \/ w \in before
  \/ w \in logged
  \/ ~early /\ taken[asked[w].key] = None

WritesAgree ==
  Settled => \A k \in Keys : Cardinality(WritesOf(k)) <= 1 /\ (\A w \in WritesOf(k) : Reached(w))
                               => rows["source"][k] = rows["target"][k]

(* The test's claim: after the migration the copies have the same size.     *)
SameSize ==
  Settled => Cardinality(KeysOf(rows["source"])) = Cardinality(KeysOf(rows["target"]))

(* A transfer that was asked for ends when clients send no more.            *)
TransferEnds == wire.type = "request" ~> (actor = "gone" /\ wire = NoMessage)
=============================================================================
