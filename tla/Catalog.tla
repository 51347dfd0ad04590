------------------------------ MODULE Catalog ------------------------------
(***************************************************************************)
(* duck::Catalog and the calls of duck::Database that reach it: tables in  *)
(* memory, their rows in the catalog's own heap, the pages of all heaps,   *)
(* the undo records of transactions that create tables, and reopening.     *)
(*                                                                         *)
(* A call runs under latch_ from its first step to its last; in between    *)
(* come the steps that need no latch_: scans that go from page to page,    *)
(* also of the table that is being dropped, growing heaps, commits, and    *)
(* the deletion of catalog rows in an abort.  Heaps are the sequences of   *)
(* their pages (HeapChain has their links), the pool is the set of pages   *)
(* that readers have pinned: a page that is not among them can be fetched  *)
(* if a frame is left.                                                     *)
(***************************************************************************)
EXTENDS PageAllocator, FiniteSets

CONSTANTS Name,           \* names of tables
          Tx,             \* transactions, each with one thread
          NoTx,           \* nullptr
          kPOOL_CAPACITY, \* frames of the pool
          RowsPerPage,    \* catalog rows on a page
          kMAX_CAPACITY,  \* bound of this model on page ids
          Careful         \* clients keep to the limits below

ASSUME CatalogAssumption ==
  /\ NoTx \notin Tx
  /\ kPOOL_CAPACITY \in Nat \ {0}
  /\ RowsPerPage \in Nat \ {0}
  /\ kMAX_CAPACITY \in Nat /\ kMAX_CAPACITY > 2
  /\ Careful \in BOOLEAN

VARIABLES chain,          \* the pages of each heap, by its first page
          rows,           \* the catalog's heap: a row for each record id
          tables,         \* tables_
          call,           \* the call that has latch_
          state,          \* Transaction::state_
          log,            \* Transaction::undo_log_
          left,           \* records an abort has still to undo
          pc,             \* what the thread of a transaction does
          locks,          \* exclusive locks on catalog rows
          pinned,         \* pages pinned by readers
          gone,           \* the pages that dropped heaps still link, by the first
          leaked,         \* pages nobody will give back
          torn            \* tables whose drop has failed half way

pages   == <<capacity, free_list, chain, leaked>>
names   == <<rows, tables, torn>>
txs     == <<state, log, left, pc, locks>>
vars    == <<pages, names, txs, call, pinned, gone>>

kCATALOG_FIRST_PAGE_ID == 1
PageIDs == 1 .. kMAX_CAPACITY - 1
RID == [page_id : PageIDs, slot_num : 0 .. RowsPerPage - 1]

(* A row and the table it stands for; "by" is the transaction that has     *)
(* created it and is not committed.                                        *)
Row        == [name : Name, first_page_id : PageIDs, by : Tx \cup {NoTx}]
TableEntry == [rid : RID, first_page_id : PageIDs, by : Tx \cup {NoTx}]

UndoRecord == [kind : {"delete"}, rid : RID] \cup [kind : {"drop"}, name : Name]

(* create_table before and after it has written its row; Table::drop_pages *)
(* when it has read some pages, and with the page_ids it has still to      *)
(* delete, called by drop_table or, for a transaction, by delete_table.    *)
NoCall == [op |-> "none"]
Call   == {NoCall}
  \cup [op : {"heap"}, name : Name, tx : Tx \cup {NoTx}, page : PageIDs]
  \cup [op : {"row"}, name : Name, tx : Tx \cup {NoTx}, page : PageIDs, rid : RID]
  \cup [op : {"walk"}, name : Name, tx : Tx \cup {NoTx}, read : Nat]
  \cup [op : {"delete"}, name : Name, tx : Tx \cup {NoTx}, page_ids : Seq(PageIDs)]

TypeOK ==
  /\ capacity \in 1 .. kMAX_CAPACITY
  /\ free_list \in Seq(PageIDs) /\ Len(free_list) <= kFREE_LIST_LIMIT + 1
  /\ DOMAIN chain \subseteq PageIDs
  /\ \A p \in DOMAIN chain : chain[p] \in Seq(PageIDs) /\ Head(chain[p]) = p
  /\ DOMAIN rows \subseteq RID /\ Range(rows) \subseteq Row
  /\ DOMAIN tables \subseteq Name /\ Range(tables) \subseteq TableEntry
  /\ call \in Call
  /\ state \in [Tx -> {"GROWING", "SHRINKING", "COMMITTED", "ABORTED"}]
  /\ log \in [Tx -> Seq(UndoRecord)]
  /\ \A t \in Tx : left[t] \in 0 .. Len(log[t])
  /\ pc \in [Tx -> {"ready", "undo", "thrown", "ended"}]
  /\ locks \in [Tx -> SUBSET RID]
  /\ pinned \subseteq PageIDs /\ Cardinality(pinned) <= kPOOL_CAPACITY
  /\ leaked \subseteq PageIDs
  /\ DOMAIN gone \subseteq PageIDs /\ Range(gone) \subseteq Seq(PageIDs)
  /\ torn \subseteq DOMAIN tables

-----------------------------------------------------------------------------
Idle    == call = NoCall
Busy(t) == call.op \in {"heap", "row"} /\ call.tx = t
With(f, x, y) == [z \in DOMAIN f \cup {x} |-> IF z = x THEN y ELSE f[z]]
Without(f, x) == Restrict(f, DOMAIN f \ {x})

(* fetch_page finds the page, or a frame for it; new_page needs a frame    *)
(* beside those pinned by readers and by the call itself.                  *)
CanFetch(p) == p \in pinned \/ Cardinality(pinned) < kPOOL_CAPACITY
CanCreate(held) == Cardinality(pinned \cup held) < kPOOL_CAPACITY

allocate(p) == p \in PageIDs /\ allocate_page(p)

(* The places of the catalog's heap in the order of the scan.              *)
CatalogPages == chain[kCATALOG_FIRST_PAGE_ID]
Places   == 1 .. RowsPerPage * Len(CatalogPages)
Place(i) == [page_id  |-> CatalogPages[(i - 1) \div RowsPerPage + 1],
             slot_num |-> (i - 1) % RowsPerPage]
Empty    == {i \in Places : Place(i) \notin DOMAIN rows}

(* Mutant of Scanned: the first page only.                                 *)
Scanned_FirstPage == {i \in 1 .. RowsPerPage : Place(i) \in DOMAIN rows}

(* The rows the scan of load_existing_tables finds, and what it makes of   *)
(* them: of two with one name the later one wins.                          *)
Scanned == {i \in Places : Place(i) \in DOMAIN rows}

load_existing_tables ==
  [n \in {rows[Place(i)].name : i \in Scanned} |->
    LET rid == Place(Max({i \in Scanned : rows[Place(i)].name = n}))
    IN  [rid |-> rid, first_page_id |-> rows[rid].first_page_id, by |-> NoTx]]

(* A database that has been created, and its catalog with it (init_table). *)
Init ==
  /\ capacity = 2 /\ free_list = <<>>
  /\ chain = [p \in {kCATALOG_FIRST_PAGE_ID} |-> <<p>>]
  /\ rows = <<>> /\ tables = <<>>
  /\ call = NoCall
  /\ state = [t \in Tx |-> "GROWING"]
  /\ log = [t \in Tx |-> <<>>]
  /\ left = [t \in Tx |-> 0]
  /\ pc = [t \in Tx |-> "ready"]
  /\ locks = [t \in Tx |-> {}]
  /\ pinned = {} /\ gone = <<>> /\ leaked = {} /\ torn = {}
-----------------------------------------------------------------------------
(* create_table: a heap of one page, then the row, then the lock on the    *)
(* row, then the entry.  The page of a heap is not given back when a later *)
(* step fails.                                                             *)

IsNew(name) == name \notin DOMAIN tables

CreateTable(t, name) ==
  /\ Idle /\ IsNew(name)
  /\ t # NoTx => pc[t] # "undo"
  /\ \E p \in PageIDs :
       /\ allocate(p)
       /\ IF CanCreate({})
          THEN /\ chain' = With(chain, p, <<p>>)
               /\ call' = [op |-> "heap", name |-> name, tx |-> t, page |-> p]
               /\ UNCHANGED leaked
          ELSE /\ leaked' = leaked \cup {p}
               /\ UNCHANGED <<chain, call>>
  /\ UNCHANGED <<names, txs, pinned, gone>>

(* The row cannot be written: it is larger than a page, or a page of the   *)
(* catalog cannot be fetched; or its heap cannot grow and loses an id; or  *)
(* it has grown, and others have pinned all frames before the new page is  *)
(* fetched.                                                                *)
FailToWrite ==
  LET last == Last(CatalogPages) IN
  /\ call.op = "heap"
  /\ \/ /\ leaked' = leaked \cup {call.page}
        /\ chain' = Without(chain, call.page)
        /\ UNCHANGED <<capacity, free_list>>
     \/ /\ Empty = {} /\ CanFetch(last)
        /\ \E p \in PageIDs :
             /\ allocate(p)
             /\ IF CanCreate({last})
                THEN /\ chain' = Without([chain EXCEPT ![kCATALOG_FIRST_PAGE_ID] = Append(@, p)],
                                         call.page)
                     /\ leaked' = leaked \cup {call.page}
                ELSE /\ chain' = Without(chain, call.page)
                     /\ leaked' = leaked \cup {call.page, p}
  /\ call' = NoCall
  /\ UNCHANGED <<names, txs, pinned, gone>>

Written(rid) ==
  /\ rows' = With(rows, rid, [name |-> call.name, first_page_id |-> call.page, by |-> call.tx])
  /\ call' = [op |-> "row", name |-> call.name, tx |-> call.tx,
              page |-> call.page, rid |-> rid]

WriteRow ==
  /\ call.op = "heap" /\ \A p \in Range(CatalogPages) : CanFetch(p)
  /\ \/ /\ Empty # {}
        /\ Written(Place(Min(Empty)))
        /\ UNCHANGED pages
     \/ /\ Empty = {} /\ CanCreate({Last(CatalogPages)})
        /\ \E p \in PageIDs :
             /\ allocate(p)
             /\ chain' = [chain EXCEPT ![kCATALOG_FIRST_PAGE_ID] = Append(@, p)]
             /\ Written([page_id |-> p, slot_num |-> 0])
        /\ UNCHANGED leaked
  /\ UNCHANGED <<tables, torn, txs, pinned, gone>>

Granted == call.tx # NoTx => /\ state[call.tx] = "GROWING"
                             /\ \A u \in Tx \ {call.tx} : call.rid \notin locks[u]

(* Mutant of Created: the entry is made without its undo record.           *)
Created_NoRecord(t, name, rid) == <<[kind |-> "delete", rid |-> rid]>>

(* The undo records of a new table: Table::insert_tuple's, and then the    *)
(* catalog's own.                                                          *)
Created(t, name, rid) == <<[kind |-> "delete", rid |-> rid],
                           [kind |-> "drop", name |-> name]>>

KeepRow ==
  LET t == call.tx IN
  /\ call.op = "row" /\ Granted
  /\ tables' = With(tables, call.name,
                     [rid |-> call.rid, first_page_id |-> call.page, by |-> t])
  /\ IF t = NoTx THEN UNCHANGED <<log, locks>>
     ELSE /\ log' = [log EXCEPT ![t] = @ \o Created(t, call.name, call.rid)]
          /\ locks' = [locks EXCEPT ![t] = @ \cup {call.rid}]
  /\ call' = NoCall
  /\ UNCHANGED <<pages, rows, torn, state, left, pc, pinned, gone>>

(* Mutant of Withdrawn: the row stays.                                     *)
Withdrawn_Never(rid) == rows

(* What is left of a row that must go: the deletion needs a frame, and     *)
(* nobody looks at what it returns.                                        *)
Withdrawn(rid) == IF CanFetch(rid.page_id) THEN Without(rows, rid) ELSE rows

(* The transaction is not GROWING, or the wait for the lock has timed out. *)
RefuseRow ==
  LET t == call.tx IN
  /\ call.op = "row" /\ ~Granted
  /\ Careful => CanFetch(call.rid.page_id)
  /\ rows' = Withdrawn(call.rid)
  /\ state' = IF state[t] = "GROWING" THEN [state EXCEPT ![t] = "ABORTED"] ELSE state
  /\ leaked' = leaked \cup {call.page}
  /\ chain' = Without(chain, call.page)
  /\ call' = NoCall
  /\ UNCHANGED <<capacity, free_list, tables, torn, log, left, pc, locks, pinned, gone>>
-----------------------------------------------------------------------------
(* drop_table deletes the row before it looks for the pages.  It returns   *)
(* without an effect when there is no such table, or no row, or no frame   *)
(* for the row's page.                                                     *)
DropTable(name) ==
  /\ Idle /\ name \in DOMAIN tables
  /\ Careful => tables[name].by = NoTx /\ name \notin torn
  /\ tables[name].rid \in DOMAIN rows /\ CanFetch(tables[name].rid.page_id)
  /\ rows' = Without(rows, tables[name].rid)
  /\ call' = [op |-> "walk", name |-> name, tx |-> NoTx, read |-> 0]
  /\ UNCHANGED <<pages, tables, torn, txs, pinned, gone>>

(* Table::drop_pages reads all pages, one after the other.  From the last  *)
(* one on it goes by the list it has, whatever happens to the heap.        *)
PagesOf(name) == chain[tables[name].first_page_id]
NextToRead    == PagesOf(call.name)[call.read + 1]

ReadPage ==
  LET first == tables[call.name].first_page_id IN
  /\ call.op = "walk" /\ CanFetch(NextToRead)
  /\ IF call.read + 1 < Len(PagesOf(call.name))
     THEN /\ call' = [call EXCEPT !.read = @ + 1]
          /\ UNCHANGED <<chain, gone>>
     ELSE /\ call' = [op |-> "delete", name |-> call.name, tx |-> call.tx,
                      page_ids |-> PagesOf(call.name)]
          /\ chain' = Without(chain, first)
          /\ gone' = With(gone, first, PagesOf(call.name))
  /\ UNCHANGED <<capacity, free_list, leaked, names, txs, pinned>>

(* The exceptions of drop_table, whose row has gone while the table has    *)
(* not, and of delete_table.                                               *)
ReadFails ==
  /\ call.op = "walk" /\ ~CanFetch(NextToRead)
  /\ IF call.tx = NoTx THEN torn' = torn \cup {call.name} /\ UNCHANGED pc
     ELSE pc' = [pc EXCEPT ![call.tx] = "thrown"] /\ UNCHANGED torn
  /\ call' = NoCall
  /\ UNCHANGED <<pages, rows, tables, state, log, left, locks, pinned, gone>>

(* Mutant of Refused: pins are not looked at.                              *)
Refused_Never(p) == FALSE

(* delete_page, of a page that somebody has pinned.                        *)
Refused(p) == p \in pinned

(* delete_page, then the next: a page that is refused is not given back,   *)
(* then or later, and one above the limit of the free list is dropped.     *)
DeletePage ==
  /\ call.op = "delete" /\ call.page_ids # <<>>
  /\ LET p == Head(call.page_ids)
     IN  /\ IF Refused(p) THEN UNCHANGED <<capacity, free_list>> ELSE deallocate(p)
         /\ leaked' = IF p \in Range(free_list') THEN leaked ELSE leaked \cup {p}
  /\ call' = [call EXCEPT !.page_ids = Tail(@)]
  /\ UNCHANGED <<chain, names, txs, pinned, gone>>

(* Mutant of Undone: the record stays the last. *)
Undone_Never(t) == UNCHANGED left
Undone(t) == left' = [left EXCEPT ![t] = @ - 1]

(* tables_.erase, the end of drop_table and delete_table. *)
EraseTable ==
  /\ call.op = "delete" /\ call.page_ids = <<>>
  /\ tables' = Without(tables, call.name)
  /\ torn' = torn \ {call.name}
  /\ IF call.tx = NoTx THEN UNCHANGED left ELSE Undone(call.tx)
  /\ call' = NoCall
  /\ UNCHANGED <<pages, rows, state, log, pc, locks, pinned, gone>>
-----------------------------------------------------------------------------
Begin(t) ==
  /\ pc[t] = "ended" /\ ~Busy(t)
  /\ pc' = [pc EXCEPT ![t] = "ready"]
  /\ state' = [state EXCEPT ![t] = "GROWING"]
  /\ log' = [log EXCEPT ![t] = <<>>]
  /\ UNCHANGED <<pages, names, call, left, locks, pinned, gone>>

(* A table or a row of t is one of everybody's now.                        *)
Published(f, t) == [x \in DOMAIN f |-> [f[x] EXCEPT !.by = IF @ = t THEN NoTx ELSE @]]

MayEnd(t) == pc[t] \in {"ready", "thrown"} /\ ~Busy(t)

Commit(t) ==
  /\ MayEnd(t)
  /\ rows' = Published(rows, t)
  /\ tables' = Published(tables, t)
  /\ state' = [state EXCEPT ![t] = "COMMITTED"]
  /\ locks' = [locks EXCEPT ![t] = {}]
  /\ pc' = [pc EXCEPT ![t] = "ended"]
  /\ left' = [left EXCEPT ![t] = 0]
  /\ UNCHANGED <<pages, torn, log, call, pinned, gone>>

(* Every abort starts with the last record of the log, also when one that  *)
(* an exception has ended is called again.                                 *)
Abort(t) ==
  /\ MayEnd(t)
  /\ Careful /\ pc[t] = "thrown" => left[t] = Len(log[t])
  /\ state' = [state EXCEPT ![t] = "SHRINKING"]
  /\ pc' = [pc EXCEPT ![t] = "undo"]
  /\ left' = [left EXCEPT ![t] = Len(log[t])]
  /\ UNCHANGED <<pages, names, log, locks, call, pinned, gone>>

Record(t) == log[t][left[t]]

(* DropTableUndoRecord: delete_table takes latch_.  It asserts that the    *)
(* table is there; the model stops otherwise.                              *)
UndoCreate(t) ==
  /\ pc[t] = "undo" /\ left[t] > 0 /\ Record(t).kind = "drop" /\ Idle
  /\ Record(t).name \in DOMAIN tables
  /\ call' = [op |-> "walk", name |-> Record(t).name, tx |-> t, read |-> 0]
  /\ UNCHANGED <<pages, names, txs, pinned, gone>>

(* DeleteUndoRecord, without latch_. *)
UndoRow(t) ==
  /\ pc[t] = "undo" /\ left[t] > 0 /\ Record(t).kind = "delete"
  /\ Careful => CanFetch(Record(t).rid.page_id)
  /\ rows' = Withdrawn(Record(t).rid)
  /\ Undone(t)
  /\ UNCHANGED <<pages, tables, torn, state, log, pc, locks, call, pinned, gone>>

AbortEnd(t) ==
  /\ pc[t] = "undo" /\ left[t] = 0
  /\ state' = [state EXCEPT ![t] = "ABORTED"]
  /\ locks' = [locks EXCEPT ![t] = {}]
  /\ pc' = [pc EXCEPT ![t] = "ended"]
  /\ UNCHANGED <<pages, names, log, left, call, pinned, gone>>
-----------------------------------------------------------------------------
(* What a handle of a table leads to: the pages of its heap, also when the *)
(* heap is being dropped.  A scan under way goes on along these pages even *)
(* after the drop.                                                         *)
Deleting(name) == call.op = "delete" /\ call.name = name
Line(name) == IF Deleting(name) THEN gone[tables[name].first_page_id] ELSE PagesOf(name)
Lines == {Line(n) : n \in DOMAIN tables} \cup Range(gone)

(* Pages that are still to be deleted.                                     *)
Undeleted == IF call.op = "delete" THEN Range(call.page_ids) ELSE {}

(* Careful users of a table fetch none of its pages that a drop has given  *)
(* back, and none once the drop has ended (src/README.md:21).              *)
MayFetch(p) ==
  Careful => \E n \in DOMAIN tables :
               p \in Range(Line(n)) /\ (Deleting(n) => p \in Undeleted \cup leaked)

(* insert_tuple of a user fills the last page of a table.  Pages that are  *)
(* linked after the walk of drop_pages are lost.                           *)
Grow(name) ==
  LET first == tables[name].first_page_id
      last  == Last(Line(name)) IN
  /\ name \in DOMAIN tables
  /\ CanFetch(last) /\ MayFetch(last)
  /\ \E p \in PageIDs :
       /\ allocate(p)
       /\ leaked' = IF CanCreate({last}) /\ ~Deleting(name) THEN leaked ELSE leaked \cup {p}
       /\ chain' = IF CanCreate({last}) /\ ~Deleting(name)
                   THEN [chain EXCEPT ![first] = Append(@, p)] ELSE chain
       /\ gone' = IF CanCreate({last}) /\ Deleting(name)
                  THEN [gone EXCEPT ![first] = Append(@, p)] ELSE gone
  /\ UNCHANGED <<names, txs, call, pinned>>

(* A reader pins a page: the first one of a table, or a scan's next one.   *)
Pin(p) ==
  /\ p \notin pinned /\ \E line \in Lines : p \in Range(line)
  /\ CanFetch(p) /\ MayFetch(p)
  /\ pinned' = pinned \cup {p}
  /\ UNCHANGED <<pages, names, txs, call, gone>>

Unpin(p) ==
  /\ p \in pinned
  /\ pinned' = pinned \ {p}
  /\ UNCHANGED <<pages, names, txs, call, gone>>

(* The database is closed, with whatever transactions have not ended, and  *)
(* opened again.                                                           *)
Reopen ==
  /\ Idle /\ pinned = {} /\ \A t \in Tx : pc[t] # "undo"
  /\ tables' = load_existing_tables
  /\ rows' = [r \in DOMAIN rows |-> [rows[r] EXCEPT !.by = NoTx]]
  /\ torn' = {} /\ gone' = <<>>
  /\ LET lost == DOMAIN tables \ DOMAIN load_existing_tables
     IN  /\ leaked' = leaked \cup UNION {Range(PagesOf(n)) : n \in lost}
         /\ chain' = Restrict(chain, DOMAIN chain \ {tables[n].first_page_id : n \in lost})
  /\ state' = [t \in Tx |-> "GROWING"]
  /\ log' = [t \in Tx |-> <<>>]
  /\ left' = [t \in Tx |-> 0]
  /\ pc' = [t \in Tx |-> "ready"]
  /\ locks' = [t \in Tx |-> {}]
  /\ UNCHANGED <<capacity, free_list, call, pinned>>

Next ==
  \/ \E t \in Tx : \/ Begin(t) \/ Commit(t) \/ Abort(t)
                   \/ UndoCreate(t) \/ UndoRow(t) \/ AbortEnd(t)
  \/ \E name \in Name : \/ \E t \in Tx \cup {NoTx} : CreateTable(t, name)
                        \/ DropTable(name) \/ Grow(name)
  \/ WriteRow \/ FailToWrite \/ KeepRow \/ RefuseRow
  \/ ReadPage \/ ReadFails \/ DeletePage \/ EraseTable
  \/ \E p \in PageIDs : Pin(p) \/ Unpin(p)
  \/ Reopen

Spec == Init /\ [][Next]_vars

-----------------------------------------------------------------------------
(* Every page has one owner: the catalog or a table in memory, at one      *)
(* place, or the create_table that has just made it, or the drop that has  *)
(* still to delete it, or the free list, or it is lost for good - through  *)
(* creations that fail at any step, drops with pinned pages, drops that    *)
(* fail half way, rollbacks and reopening.  A page that a reader has       *)
(* pinned is not on the free list, where new_page would hand it out under  *)
(* the reader's eyes: of readers that are Careful, whom a drop overtakes   *)
(* or who overtake it between its steps (TableHeap::all_pages, then        *)
(* delete_page, page by page).                                             *)
Owners(p) ==
  LET At(s) == {i \in DOMAIN s : s[i] = p}
      Users == {n \in DOMAIN tables : ~Deleting(n)}
  IN  (UNION {{<<"table", n, i>> : i \in At(PagesOf(n))} : n \in Users})
        \cup {<<"catalog", i>> : i \in At(CatalogPages)}
        \cup {<<"free", i>> : i \in At(free_list)}
        \cup {<<"drop", i>> : i \in IF call.op = "delete" THEN At(call.page_ids) ELSE {}}
        \cup {<<owner>> : owner \in {o \in {"creation", "nobody"} :
                \/ o = "creation" /\ call.op \in {"heap", "row"} /\ call.page = p
                \/ o = "nobody" /\ p \in leaked}}

PagesHaveOneOwner ==
  /\ TypeOK
  /\ \A p \in 1 .. capacity - 1 : Cardinality(Owners(p)) = 1
  /\ pinned \cap Range(free_list) = {}

(* tables_ and the catalog's rows say the same.  A table without its row   *)
(* is being dropped or its drop has thrown; a row without its table is     *)
(* that of a create_table under way or the next one a rollback deletes.    *)
BeingUndone(rid) ==
  \E t \in Tx : /\ pc[t] = "undo" /\ left[t] > 0 /\ rows[rid].by = t
                /\ Record(t) = [kind |-> "delete", rid |-> rid]
RowsMatchTables ==
  /\ \A n \in DOMAIN tables \ torn :
       \/ call.op \in {"walk", "delete"} /\ call.name = n /\ call.tx = NoTx
       \/ /\ tables[n].rid \in DOMAIN rows
          /\ rows[tables[n].rid] = [name |-> n, first_page_id |-> tables[n].first_page_id,
                                    by |-> tables[n].by]
  /\ \A r \in DOMAIN rows :
       \/ rows[r].name \in DOMAIN tables /\ tables[rows[r].name].rid = r
       \/ call.op = "row" /\ call.rid = r
       \/ BeingUndone(r)

(* "Everything done by the transaction must disappear"                     *)
(* (transaction_rollback_test.cpp), for create_table: after an abort that  *)
(* has come to its end there is no table and no row of the transaction,    *)
(* in memory or in the file.                                               *)
RollbackLeavesNothing ==
  \A t \in Tx : pc[t] = "ended" /\ ~Busy(t) =>
    \A x \in Range(tables) \cup Range(rows) : x.by # t

(* The assertion of delete_table: what an undo record names is there when  *)
(* its turn comes, table and row, and still the transaction's own.         *)
UndoFindsItsTable ==
  \A t \in Tx : pc[t] # "ended" =>
    \A i \in 1 .. IF pc[t] = "ready" THEN Len(log[t]) ELSE left[t] :
      LET u == log[t][i]
      IN  IF u.kind = "drop"
          THEN u.name \in DOMAIN tables /\ tables[u.name].by = t
          ELSE u.rid \in DOMAIN rows /\ rows[u.rid].by = t

(* PersistsAcrossReopen and DroppedTableDoesNotReappearAfterReopen         *)
(* (catalog_test.cpp), after any calls before: the tables that were there  *)
(* are there again, with their rows and pages, but for those whose drop    *)
(* has thrown.                                                             *)
ReopenFindsTheSameTables ==
  [][Reopen => /\ DOMAIN tables' = DOMAIN tables \ torn
               /\ \A n \in DOMAIN tables' :
                    tables'[n] = [tables[n] EXCEPT !.by = NoTx]]_vars
=============================================================================
