------------------------------ MODULE TxTable ------------------------------
(***************************************************************************)
(* duck::Table under transactions: rows in a TableHeap, row locks, undo    *)
(* records, commit and abort.                                              *)
(*                                                                         *)
(* Locks are those of RowLocks, which LockManager implements; a lock call  *)
(* that has to wait is taken when it gets the lock or times out.  The only *)
(* wait with an effect is that of an upgrade, which has given its shared   *)
(* lock back.  A call of the heap is one step.  A lock and the heap calls  *)
(* after it are one step too: until the lock is given back others cannot   *)
(* take it.  insert_tuple, and update_tuple when the row moves, change the *)
(* heap first and lock afterwards: those are two steps.                    *)
(***************************************************************************)
EXTENDS TableHeap, FiniteSets

CONSTANTS Tx,         \* transactions, each with one thread
          MaxPages,   \* bound of this model on the pages of the heap
          MaxSlots,   \* bound of this model on the slots of a page
          MaxCalls,   \* bound of this model on the calls of all transactions
          Loaded,     \* what was inserted, or deleted again, before the start
          Patient     \* the lock on the new id of a row that has moved is
                      \* never refused

ASSUME TableAssumption ==
  /\ MaxPages \in Nat \ {0} /\ MaxSlots \in Nat \ {0} /\ MaxCalls \in Nat
  /\ Patient \in BOOLEAN

VARIABLES pages,      \* the heap
          readers,    \* shared locks
          writers,    \* exclusive locks
          state,      \* Transaction::state_
          undo_log,   \* Transaction::undo_log_
          pc,         \* where the thread of a transaction is
          call,       \* the call that is under way
          cursor,     \* Table::Scan's current_rid_, one scan a transaction
          calls,      \* calls so far
          asserted,   \* an assertion of restore_tuple has failed
          committed   \* what each row should hold but for open transactions

lockVars == <<readers, writers>>
vars == <<pages, readers, writers, state, undo_log, pc, call, cursor, calls,
          asserted, committed>>

(* A scan can lock the row id after the last. *)
RIDs == [page_id : 1 .. MaxPages, slot_num : 0 .. MaxSlots]

UndoRecord == [kind : {"delete"}, rid : RIDs, tuple : {NoTuple}]
                \cup [kind : {"restore"}, rid : RIDs, tuple : Tuple]
DeleteUndo(rid)     == [kind |-> "delete", rid |-> rid, tuple |-> NoTuple]
RestoreUndo(rid, u) == [kind |-> "restore", rid |-> rid, tuple |-> u]

Call   == [rid : RIDs, old : RIDs, tuple : Tuple \cup {NoTuple}]
NoCall == [rid |-> Rid(1, 0), old |-> Rid(1, 0), tuple |-> NoTuple]

Locks == INSTANCE RowLocks WITH RID <- RIDs

TypeOK ==
  /\ Len(pages) \in 1 .. MaxPages
  /\ \A i \in DOMAIN pages : /\ pages[i].slots \in Seq(Slot)
                             /\ slot_count(pages[i]) <= MaxSlots
                             /\ pages[i].free_space_offset \in 0 .. kPAGE_SIZE
  /\ readers \in [RIDs -> SUBSET Tx]
  /\ writers \in [RIDs -> SUBSET Tx]
  /\ state \in [Tx -> {"GROWING", "COMMITTED", "ABORTED"}]
  /\ undo_log \in [Tx -> Seq(UndoRecord)]
  /\ pc \in [Tx -> {"ready", "upgrade", "inserted", "moved", "undo", "ended"}]
  /\ call \in [Tx -> Call]
  /\ cursor \in [Tx -> RIDs]
  /\ calls \in 0 .. MaxCalls
  /\ asserted \in BOOLEAN
  /\ committed \in [RIDs -> Tuple \cup {NoTuple}]

-----------------------------------------------------------------------------
(* What a row holds. *)
RowIn(chain, rid) ==
  LET bytes == heap_get(chain, rid)
  IN  IF bytes = <<>> THEN NoTuple ELSE [value |-> Head(bytes), size |-> Len(bytes)]
Row(rid) == RowIn(pages, rid)

Fits(chain) == /\ Len(chain) <= MaxPages
               /\ \A i \in DOMAIN chain : slot_count(chain[i]) <= MaxSlots

(* The table after the first n calls of Loaded: tuples are inserted, row   *)
(* ids deleted, and all is committed.                                      *)
Table[n \in 0 .. Len(Loaded)] ==
  IF n = 0 THEN <<init>>
  ELSE IF Loaded[n] \in Tuple THEN heap_insert(Table[n - 1], Loaded[n]).pages
  ELSE heap_delete(Table[n - 1], Loaded[n])
Start == Table[Len(Loaded)]

ASSUME LoadedAssumption ==
  /\ Loaded \in Seq(Tuple \cup RIDs)
  /\ \A n \in DOMAIN Loaded : Loaded[n] \in Tuple \/ heap_has(Table[n - 1], Loaded[n])
  /\ Fits(Start)

(* The row ids a client has: of the rows that are committed, and of those  *)
(* it has inserted.                                                        *)
Known(t, rid) == committed[rid] # NoTuple \/ t \in writers[rid]

(* The limit README.md names: nobody may insert while an empty slot that   *)
(* could be taken belongs to another transaction, which has emptied it or  *)
(* waits for the row that was there.                                       *)
BelongsTo(u, rid) == u \in writers[rid] \/ (pc[u] = "upgrade" /\ call[u].rid = rid)
NoForeignHoles(t) ==
  \A i \in DOMAIN pages : \A s \in SlotNums(pages[i]) :
    ~has_slot(pages[i], s) => \A u \in Tx \ {t} : ~BelongsTo(u, Rid(i, s))

Init ==
  /\ pages = Start
  /\ Locks!Init
  /\ state = [t \in Tx |-> "GROWING"]
  /\ undo_log = [t \in Tx |-> <<>>]
  /\ pc = [t \in Tx |-> "ready"]
  /\ call = [t \in Tx |-> NoCall]
  /\ cursor = [t \in Tx |-> Rid(1, 0)]
  /\ calls = 0
  /\ asserted = FALSE
  /\ committed = [rid \in RIDs |-> RowIn(pages, rid)]

Ready(t) == pc[t] = "ready" /\ ~asserted /\ calls < MaxCalls
Count == calls' = calls + 1

CanWrite(t, rid) == readers[rid] \cup writers[rid] \subseteq {t}

push_undo(t, records) == undo_log' = [undo_log EXCEPT ![t] = @ \o records]

lock_shared(t, rid) ==
  IF t \in writers[rid] THEN UNCHANGED lockVars ELSE Locks!AcquireShared(t, rid)

(* get_tuple *)
Read(t, rid) ==
  /\ Ready(t) /\ state[t] = "GROWING" /\ Known(t, rid)
  /\ lock_shared(t, rid)
  /\ Count
  /\ UNCHANGED <<pages, state, undo_log, pc, call, cursor, asserted, committed>>

(* Scan::next: the row id it expects is locked, and then the heap's scan   *)
(* is asked for the next row, whichever that is.                           *)
ScanNext(t) ==
  /\ Ready(t) /\ state[t] = "GROWING"
  /\ lock_shared(t, cursor[t])
  /\ cursor' = [cursor EXCEPT ![t] = heap_next(pages, @)]
  /\ Count
  /\ UNCHANGED <<pages, state, undo_log, pc, call, asserted, committed>>

(* A lock call, no upgrade, that gives up after its second. *)
TimeOut(t, rid) ==
  /\ Ready(t) /\ state[t] = "GROWING" /\ Known(t, rid)
  /\ t \notin readers[rid] /\ ~CanWrite(t, rid)
  /\ state' = [state EXCEPT ![t] = "ABORTED"]
  /\ Count
  /\ UNCHANGED <<pages, lockVars, undo_log, pc, call, cursor, asserted, committed>>

(* An upgrade that waits has no lock on the row.  It waits for the update  *)
(* of a row to a tuple, or for its deletion (NoTuple).                     *)
UpgradeWaits(t, rid, tuple) ==
  /\ Ready(t) /\ state[t] = "GROWING" /\ Known(t, rid)
  /\ t \in readers[rid] /\ ~CanWrite(t, rid)
  /\ Locks!DropShared(t, rid)
  /\ pc' = [pc EXCEPT ![t] = "upgrade"]
  /\ call' = [call EXCEPT ![t] = [rid |-> rid, old |-> rid, tuple |-> tuple]]
  /\ Count
  /\ UNCHANGED <<pages, state, undo_log, cursor, asserted, committed>>

(* The record of a deletion. *)
Deleted(rid) == <<RestoreUndo(rid, Row(rid))>>

(* What delete_tuple and update_tuple do once they have the lock. *)
DeleteRow(t, rid) ==
  /\ IF Row(rid) = NoTuple THEN UNCHANGED <<pages, undo_log>>
     ELSE /\ pages' = heap_delete(pages, rid)
          /\ push_undo(t, Deleted(rid))
  /\ pc' = [pc EXCEPT ![t] = "ready"]
  /\ call' = [call EXCEPT ![t] = NoCall]

(* The records of an update that has not moved the row. *)
InPlace(rid, old) == <<RestoreUndo(rid, old), DeleteUndo(rid)>>

UpdateRow(t, rid, tuple) ==
  LET up == heap_update(pages, rid, tuple) IN
  IF Row(rid) = NoTuple
  THEN /\ pc' = [pc EXCEPT ![t] = "ready"]
       /\ call' = [call EXCEPT ![t] = NoCall]
       /\ UNCHANGED <<pages, undo_log>>
  ELSE /\ Fits(up.pages)
       /\ up.rid # rid => NoForeignHoles(t)
       /\ pages' = up.pages
       /\ IF up.rid = rid
          THEN /\ push_undo(t, InPlace(rid, Row(rid)))
               /\ pc' = [pc EXCEPT ![t] = "ready"]
               /\ call' = [call EXCEPT ![t] = NoCall]
          ELSE /\ pc' = [pc EXCEPT ![t] = "moved"]
               /\ call' = [call EXCEPT ![t] =
                             [rid |-> up.rid, old |-> rid, tuple |-> Row(rid)]]
               /\ UNCHANGED undo_log

ChangeRow(t, rid, tuple) ==
  /\ Locks!AcquireExclusive(t, rid)
  /\ IF tuple = NoTuple THEN DeleteRow(t, rid)
     ELSE UpdateRow(t, rid, tuple)
  /\ UNCHANGED <<state, cursor, asserted, committed>>

(* delete_tuple (NoTuple) or update_tuple. *)
Change(t, rid, tuple) ==
  /\ Ready(t) /\ state[t] = "GROWING" /\ Known(t, rid)
  /\ ChangeRow(t, rid, tuple)
  /\ Count

UpgradeEnds(t) ==
  /\ pc[t] = "upgrade" /\ ~asserted
  /\ ChangeRow(t, call[t].rid, call[t].tuple)
  /\ UNCHANGED calls

UpgradeTimesOut(t) ==
  /\ pc[t] = "upgrade" /\ ~asserted
  /\ ~CanWrite(t, call[t].rid)
  /\ state' = [state EXCEPT ![t] = "ABORTED"]
  /\ pc' = [pc EXCEPT ![t] = "ready"]
  /\ call' = [call EXCEPT ![t] = NoCall]
  /\ UNCHANGED <<pages, lockVars, undo_log, cursor, calls, asserted, committed>>

(* insert_tuple: the row is in the heap before it is locked, whatever the  *)
(* state of the transaction.                                               *)
Insert(t, tuple) ==
  LET in == heap_insert(pages, tuple) IN
  /\ Ready(t) /\ NoForeignHoles(t)
  /\ Fits(in.pages)
  /\ pages' = in.pages
  /\ pc' = [pc EXCEPT ![t] = "inserted"]
  /\ call' = [call EXCEPT ![t] = [rid |-> in.rid, old |-> in.rid, tuple |-> NoTuple]]
  /\ Count
  /\ UNCHANGED <<lockVars, state, undo_log, cursor, asserted, committed>>

(* Mutant of Arrived: the row that has moved is not restored. *)
Arrived_NewOnly(t) == <<DeleteUndo(call[t].rid)>>

(* The records of a row that has come with an insert, or that has moved. *)
Arrived(t) ==
  IF pc[t] = "inserted" THEN <<DeleteUndo(call[t].rid)>>
  ELSE <<RestoreUndo(call[t].old, call[t].tuple), DeleteUndo(call[t].rid)>>

(* The lock on a row id that only the heap could tell: after an insert, or *)
(* after an update that has moved the row.                                 *)
LockNew(t) ==
  LET rid == call[t].rid IN
  /\ pc[t] \in {"inserted", "moved"} /\ ~asserted
  /\ state[t] = "GROWING"
  /\ Locks!AcquireExclusive(t, rid)
  /\ push_undo(t, Arrived(t))
  /\ pc' = [pc EXCEPT ![t] = "ready"]
  /\ call' = [call EXCEPT ![t] = NoCall]
  /\ UNCHANGED <<pages, state, cursor, calls, asserted, committed>>

(* Mutant of Withdrawn: the row stays. *)
Withdrawn_Never(rid) == pages

(* What is taken back when the lock on a new row fails. *)
Withdrawn(rid) == IF heap_has(pages, rid) THEN heap_delete(pages, rid) ELSE pages

(* The lock is refused: an insert takes its row back; an update does not   *)
(* take anything back and pushes no record, so that no rollback will.      *)
LockNewFails(t) ==
  LET rid == call[t].rid IN
  /\ pc[t] \in {"inserted", "moved"} /\ ~asserted
  /\ state[t] # "GROWING" \/ ~CanWrite(t, rid)
  /\ pc[t] = "moved" => ~Patient
  /\ pages' = IF pc[t] = "inserted" THEN Withdrawn(rid) ELSE pages
  /\ IF state[t] = "GROWING" THEN Locks!DropShared(t, rid) ELSE UNCHANGED lockVars
  /\ state' = [state EXCEPT ![t] = "ABORTED"]
  /\ pc' = [pc EXCEPT ![t] = "ready"]
  /\ call' = [call EXCEPT ![t] = NoCall]
  /\ UNCHANGED <<undo_log, cursor, calls, asserted, committed>>

(* commit, also of a transaction that a timeout has marked ABORTED. *)
Commit(t) ==
  /\ pc[t] = "ready" /\ ~asserted
  /\ committed' = [rid \in RIDs |-> IF t \in writers[rid] THEN Row(rid) ELSE committed[rid]]
  /\ Locks!ReleaseAll(t)
  /\ state' = [state EXCEPT ![t] = "COMMITTED"]
  /\ pc' = [pc EXCEPT ![t] = "ended"]
  /\ UNCHANGED <<pages, undo_log, call, cursor, calls, asserted>>

Abort(t) ==
  /\ pc[t] = "ready" /\ ~asserted
  /\ pc' = [pc EXCEPT ![t] = "undo"]
  /\ UNCHANGED <<pages, lockVars, state, undo_log, call, cursor, calls, asserted, committed>>

(* Mutant of NextUndo: the oldest record first. *)
NextUndo_Oldest(log) == 1

(* The record Transaction::undo runs next: the newest. *)
NextUndo(log) == Len(log)

Undo(t) ==
  LET i == NextUndo(undo_log[t])
      u == undo_log[t][i]
  IN
  /\ pc[t] = "undo" /\ ~asserted /\ undo_log[t] # <<>>
  /\ undo_log' = [undo_log EXCEPT ![t] = RemoveAt(@, i)]
  /\ IF u.kind = "delete"
     THEN pages' = Withdrawn(u.rid) /\ UNCHANGED asserted
     ELSE IF CanRestore(pages, u.rid, u.tuple)
     THEN pages' = heap_restore(pages, u.rid, u.tuple) /\ UNCHANGED asserted
     ELSE asserted' = TRUE /\ UNCHANGED pages
  /\ UNCHANGED <<lockVars, state, pc, call, cursor, calls, committed>>

AbortEnd(t) ==
  /\ pc[t] = "undo" /\ ~asserted /\ undo_log[t] = <<>>
  /\ Locks!ReleaseAll(t)
  /\ state' = [state EXCEPT ![t] = "ABORTED"]
  /\ pc' = [pc EXCEPT ![t] = "ended"]
  /\ UNCHANGED <<pages, undo_log, call, cursor, calls, asserted, committed>>

(* All transactions have ended, or the process has; or what is left waits  *)
(* for an update that the bounds of this model have no room for, or for    *)
(* locks of others that wait as well.                                      *)
Ended == /\ asserted \/ \A t \in Tx : pc[t] \in {"ended", "upgrade", "moved"}
         /\ UNCHANGED vars

Client(t) ==
  \/ Commit(t) \/ Abort(t) \/ ScanNext(t)
  \/ \E tuple \in Tuple : Insert(t, tuple)
  \/ \E rid \in RIDs :
       \/ Read(t, rid) \/ TimeOut(t, rid)
       \/ \E tuple \in Tuple \cup {NoTuple} :
            UpgradeWaits(t, rid, tuple) \/ Change(t, rid, tuple)

Proceed(t) ==
  \/ UpgradeEnds(t) \/ UpgradeTimesOut(t)
  \/ LockNew(t) \/ LockNewFails(t) \/ Undo(t) \/ AbortEnd(t)

Next == Ended \/ \E t \in Tx : Client(t) \/ Proceed(t)

Spec == Init /\ [][Next]_vars

-----------------------------------------------------------------------------
(* A row that no transaction has locked exclusively, and that no insert or *)
(* move is about to lock, holds what the last commit left there: nothing   *)
(* of an aborted transaction stays, nothing of a committed one goes, and   *)
(* what a reader has locked is committed - through moves, upgrades, lock   *)
(* timeouts and interleaved aborts.  And the state is of its type.         *)
NewRow(rid) == \E t \in Tx : pc[t] \in {"inserted", "moved"} /\ call[t].rid = rid
UnlockedIsCommitted ==
  /\ TypeOK
  /\ \A rid \in RIDs :
       writers[rid] = {} /\ ~NewRow(rid) => Row(rid) = committed[rid]

(* What a transaction has changed is in its undo log until undone: for     *)
(* every row it has locked and that differs from the committed one there   *)
(* is a record.                                                            *)
ChangesAreLogged ==
  \A t \in Tx : pc[t] = "ready" =>
    \A rid \in RIDs :
      t \in writers[rid] /\ Row(rid) # committed[rid]
        => \E i \in DOMAIN undo_log[t] : undo_log[t][i].rid = rid

(* A row comes back into its own slot: when a record that restores a row   *)
(* is about to run, the slot is empty, and if that fails the reason is     *)
(* that the page is full.                                                  *)
UndoFindsItsSlot ==
  \A t \in Tx : pc[t] = "undo" /\ undo_log[t] # <<>> =>
    LET u == undo_log[t][NextUndo(undo_log[t])]
    IN  u.kind = "restore" => SlotIsEmpty(pages[u.rid.page_id], u.rid.slot_num)

-----------------------------------------------------------------------------
(* "Everything done by the transaction must disappear, while the           *)
(* previously committed state must remain intact"                          *)
(* (transaction_rollback_test.cpp): the state committed before a rollback  *)
(* survives it.                                                            *)
RollbackIsIntact ==
  \A t \in Tx : asserted /\ pc[t] = "undo" =>
    \A rid \in RIDs : t \in writers[rid] => Row(rid) = committed[rid]
=============================================================================
