# Duck Duck DBMS in TLA+

TLA+ modules that model the core of this repository (`src/src`, `src/include`),
TLC configurations that check them on small instances, and TLAPS proofs of the
properties that matter most. Paths below are those of the repository.

- `tlc -config <X>.cfg <Module>.tla` runs a check; `PROJECT.json` lists the runs.
- `tlapm <Module>_proofs.tla` checks the proofs of a module.

## 1. The system and its parts

| Part | Source | State it keeps | Operations |
|---|---|---|---|
| DiskManager | `storage/disk_manager.cpp` | `capacity_` (atomic), `free_list_` under a mutex, header and list in page 0 of the file | `allocate_page`, `deallocate_page`, `read_page`, `write_page`, `flush_all`, constructor, destructor |
| BufferPoolManager, BufferReplacer, Page, PinnedPage | `buffer/*.cpp` | frames (page id, pin count, dirty bit, latch), `page_table_`, freed frames, recency list, `latch_` | `new_page`, `fetch_page`, `unpin_page`, `delete_page`, `flush_all` |
| SlottedPage | `table/slotted_page.cpp` | header and slot array over the bytes of a page | `init`, `insert_tuple`, `get_tuple`, `try_update_in_place`, `delete_tuple`, `restore_tuple`, `compact` |
| TableHeap | `table/table_heap.cpp` | a chain of pages | insert, get, update, delete, restore, `all_pages`, scan |
| Table, undo records | `table/table.cpp`, `transaction/undo.cpp` | schema and heap; records of what to undo | insert, get, update, delete under row locks, scan, undo |
| LockManager | `transaction/lock_manager.cpp` | a queue of requests per row, under one latch; lock sets in the transactions | `lock_shared`, `lock_exclusive`, `unlock_all` |
| TransactionManager, Transaction | `transaction/manager.cpp`, `transaction.cpp` | `active_txs_`, state and undo log of each transaction | `begin`, `commit`, `abort` |
| Catalog, Database | `catalog/catalog.cpp`, `database/database.cpp` | table handles by name, a table of tables at page 1 | `create_table`, `drop_table`, `get_table`, `all_tables`, loading |
| Tuple codec, Schema, Column, Value | `tuple/*.cpp` | none (values) | `serialize`, `deserialize`, offsets, null bitmap |
| Expressions, Operators, Executor | `execution/**` | the position of a scan | `open`, `next`, three-valued evaluation |

How they interact. Each layer calls the one below. The heap pins pages in the
buffer pool and takes the page's latch; it never calls the pool while it holds a
page latch. The pool takes `latch_`, then a page latch, then the mutex of
the disk manager; `swap_page` gives `latch_` back before it reads from disk and
keeps the page latch. Row locks are taken by `Table`, above the heap, and given
back by `commit` and `abort` only; `abort` runs the undo log first, which calls
the heap directly, past the locks.

What is hard. Overlapping calls in the pool (a miss is acted upon after `latch_`
was released and taken again; a page is findable before its content is read;
pins are taken by one call and given back by another). Waits and wakeups in the
lock manager, which time out after a second while the lock may be granted at the
same moment. Restarts and crashes: header and free list reach the file in the
destructor only. Operations of several steps of which one fails (a heap update
that deletes and then finds no room; a drop with a pinned page). `PROJECT.json`
lists every hazard with its line and the properties that would notice.

What makes each part correct:

- DiskManager: a page has one owner; a page is not lost; list and header fit page 0.
- BufferPoolManager: a pinned page keeps its frame and its latest content; no
  write is lost; structures agree; no frame is lost; calls return.
- LockManager and transactions: exclusion; no dirty access; nothing left behind;
  every wait ends; no wakeup is lost.
- SlottedPage: tuples never overlap, and no operation on one slot changes another.
- TableHeap: the chain has no cycle and no page is lost when two inserts extend it.
- Table: after an abort the rows are what they were.
- Catalog: memory and the table of tables agree; a reload finds the same tables.
- Codec: deserialize after serialize is the identity on what serialize accepts.

## 2. Modules

| Module | Role |
|---|---|
| `RowLocks` | abstract row locks: who holds a row, and how |
| `LockManager` | lock manager, transaction manager, transactions |
| `LockManager_proofs` | its theorems |
| `PageAllocator` | `capacity_` and `free_list_`, shared by the next two |
| `DiskManager` | the allocator with its file, restarts and crashes |
| `MCDiskManager`, `DiskManager_proofs` | symmetry; theorems |
| `BufferPool` | the pool over the allocator |
| `MCBufferPool` | symmetry |
| `BufferPool_proofs` | theorems on the structures, for any clients; on pins, pages and what was written, for clients that keep off each other's misses |
| `SlottedPage` | operators: the bytes, slots and header of a page, and every call on them |
| `PageUse`, `MCPageUse` | any sequence of calls on one page |
| `SlottedPage_proofs` | lemmas on pages: what each call does to the row of every slot; theorems on any sequence of calls |
| `TableHeap` | operators: a chain of slotted pages, one call at a time |
| `TxTable`, `MCTxTable` | Table, undo records, commit and abort over `TableHeap` and `RowLocks` |
| `TxTable_proofs` | lemmas on heaps and undo logs; theorems |
| `HeapChain`, `MCHeapChain` | concurrent heap calls, step by step, on pinned and latched pages in a pool that evicts |
| `HeapChain_proofs` | lemmas on lines of pages, pins and the frames over a file; theorems |
| `Catalog`, `MCCatalog` | tables in memory and in the catalog's heap, the pages of all heaps, drops, rollbacks, reopening |
| `Catalog_proofs` | lemmas on heaps of pages, names and undo logs; theorems |
| `TupleCodec`, `MCTupleCodec` | rows and schemas to bytes and back |
| `Expressions`, `MCExpressions` | evaluation of expressions, and the filter |
| `Expressions_proofs` | its theorems |

How they build on each other: `PageAllocator` is extended by `DiskManager`,
`BufferPool`, `HeapChain` and `Catalog`; `SlottedPage` by `PageUse` and `TableHeap`;
`TableHeap` by `HeapChain` and by `TxTable`, which takes its locks from an instance of
`RowLocks`. `LockManager` is shown to implement `RowLocks`, so `TxTable` need not
repeat the waits and wakeups. `HeapChain` composes heap, pages, a pool and the
allocator: a pool call is one step there, which `BufferPool` justifies for clients
that keep to `Exclusive`. `Catalog` takes a heap as the sequence of its pages, which
`HeapChain` justifies (the chain is one line).

Definitions whose name ends in `_Something` directly before the definition they
vary are mutants: a plausible bug each, used to see that a property notices.
They are never part of a specification.

### LockManager

`requests[rid]` is `lock_table_[rid].requests` (as a set: `can_grant` never looks
at the order), `shared_locks` and `exclusive_locks` are the sets in the
transaction, `undo_log` the rows it has changed and not undone, `notified` the
blocked threads a `notify_all` has reached. A lock call holds `latch_`, so it is
one action (`LockShared`, `LockExclusive`) up to the point where it blocks; then
it is granted (`Grant`), sleeps again (`SleepAgain`) or times out (`TimeOut`). An
upgrade gives the shared lock up inside `LockExclusive`, as the code does.
`Commit`, `CommitUnlock`, `CommitEnd` and `Abort`, `AbortUndo`, `AbortUnlock`,
`AbortEnd` are the steps of `commit` and `abort` between which others run. One
thread drives a transaction: `Transaction` has no latch of its own. The use of a
lock, a change of a row, is `Write`, from `Table::update_tuple`.

### PageAllocator and DiskManager

`reuse` and `grow` are the two halves of `allocate_page`; between them the mutex
is free, so they are separate steps (`AllocateFindsNone`, `AllocateGrow`).
`disk_header` is what page 0 of the file holds, `file_pages` its size in pages.
`Close` is the destructor, `Crash` the death of the process, `Open` the
constructor, which takes a file of less than one page for a new one. Owners of
pages are the environment: they deallocate pages they own, and before an orderly
end the pool has written the pages they keep (the pool is destroyed first).

### BufferPool

`frames`, `page_table`, `free_frames`, `pool_size`, `mru_pages` are the members of
the same names. `latch` is `latch_`; a page latch is a variable (`loading`) only where
it outlives a step, in `swap_page` during the read from disk. A call takes
`latch_` in one action and works under it in the next (`pc`), so other threads run
between, and every wait for a page latch under `latch_` is a state. Contents are
one bit: is the copy the latest. `pin_count` is modulo `kPIN_MODULUS`, as the
code's `uint32_t` is modulo 2^32: in the overlapping runs it does underflow.

`Exclusive` is the discipline the code needs from its clients and does not
enforce: no fetch or delete of a page between the miss of another fetch of the
same page (`find_cached_page` returning `nullptr`) and its installation in
`swap_page`. With it (`pool_exclusive`) pinned pages are safe, with threads free
to overlap everywhere else; without it (`pool_race`) they are not, and only the
agreement of the structures survives (`TableMatchesFrames`, proved for all pools and
checked in `pool_live`). The window between the miss and `swap_page` is thus exactly
what is wrong.

`Faults` lets the disk throw: `WriteFails` when the victim is written and `ReadFails`
when the page is read, each with what `swap_page` has done by then and does not take
back (an emptied frame on no list; a pinned page without its content).

### SlottedPage and PageUse

A page is a record: `slots` (the slot array, whose length is `slot_count`),
`free_space_offset`, `next_page_id`, and `data`, its bytes. A tuple is a value and a size
and its bytes all are its value: enough to see when a slot shows bytes that are
not its own. Sizes of header and slots are the real ones (8 and 4 bytes), the
page is small. `compact` is the loop of the code as a function from slots to
offsets; `is_compacted` is the code's test, upwards from slot 0, as it stands.
`PageUse` makes one action of each call and keeps in `contents` what each slot ought
to show. Offsets stay below `kPAGE_SIZE`, so `uint16_t` never wraps for the page and tuple
sizes `PageAssumption` allows; rows of 2^16 bytes and more, whose size `try_update_in_place`
would truncate (slotted_page.cpp:99), are left out.

### TableHeap and TxTable

`pages[i]` is the page that `i - 1` links lead to. `heap_insert` walks the chain and
compacts every page it tries, as `TableHeap::insert_tuple` does; `heap_update` is in
place, in the old slot after a deletion and a compaction, or anywhere;
`heap_next` is the position of a scan after its next row. Each call is one step
here; the steps of calls that overlap are in `HeapChain`.

`TxTable` has the row locks in `readers` and `writers`, the undo records in `undo_log`,
and in `committed` what each row ought to hold but for open transactions. A lock
call that waits is taken when it is granted or times out; the wait of an upgrade
is a state of its own (`UpgradeWaits`), because the code gives the shared lock up
first. `insert_tuple`, and an `update_tuple` that moves its row, change the heap before
they lock the new row id: `Insert` and `Change` leave `pc` at "inserted" or "moved",
and `LockNew` or `LockNewFails` ends the call. `Undo` runs one record, the
newest first, past the locks. The assertion in `restore_tuple` is the variable
`asserted`, after which nothing runs.

Clients are limited in three ways, each a named definition:

- `NoForeignHoles`: nobody inserts while an empty slot that could be taken belongs to
  another transaction, which has emptied it or waits in an upgrade for the row that was
  there. README.md:30 names the first half as a limit of the code (freed slots are reused before the
  deletion commits); the second is section 6, item 11.
- `Known`: the row ids a client uses are those of committed rows and of its own inserts,
  not those of rows long deleted.
- `Patient`: when a row has moved, the lock on its new id is not refused (section 6, item 10).

`Loaded` is the history of the table before the start: rows that were inserted, and ids of
rows that were deleted again, so that a run can start with holes.

### HeapChain

The steps of `insert_tuple`, `update_tuple`, `delete_tuple`, `restore_tuple`,
`get_tuple` and the page changes of a scan, by several threads. A heap call never calls the pool
while it holds a page latch, so all it does under one is a step (`InsertHere`,
`InsertAtEnd`, `Link`, ...); `Fetch`, `Extend`, `Filled`, `Drop` and `Unpin` are its calls of
the pool in between. `call` holds the locals: `frame` is the page it has pinned, `fresh`
the page it has created, `page_id` where it goes next. Any unpinned frame may be
evicted: the order of the replacer is left out. `disk` is the file, so that a page which was not marked dirty comes back as it was.

Three variables are history: `rows` is what callers were told the heap holds, `unsaved`
the rows `restore_tuple` has left in a frame that is not dirty, and `lost` the ids for which
`new_page` had no frame or, when a page that is not needed goes back, `deallocate_page` no room. `MayTouch` stands for the row locks of `Table`; while a deletion is rolled back nobody inserts (README.md:30), so that
the assertions of `restore_tuple` hold (they are the subject of `TxTable`). `IdsLeft`,
`MaxCalls` and `kMAX_CAPACITY` are bounds.

`Careful` excludes two situations in which the code goes wrong when frames are short
(section 6, items 16 and 17): the frame of a page just created is not reused between
its unpin and the second look at its id (`NextFrames`), and a scan that goes on to another
page finds a frame for it (`Finds`). All other failures for want of a frame remain.

### Catalog

`call` is the call of the catalog that holds `latch_`, between its steps: `create_table` after the heap was created ("heap")
and after the row was written ("row"); `drop_table`, or the `delete_table` of a rollback, while `drop_pages` reads the pages
of the heap one by one ("walk") and while it deletes them one by one ("delete"). What needs no
`latch_` runs in between: tables that grow, readers that pin pages, commits, and
`DeleteUndoRecord` in an abort. `ReadPage` is one turn of `all_pages`, `DeletePage` one `delete_page`, which refuses
a pinned page, and `EraseTable` the end. `latch_` does not keep readers and inserts out of the table meanwhile: a `Table*`
obtained earlier, or a scan under way, leads to all pages that are linked from the first one on (`Line`), also to
those that are given back already. `gone` keeps the links of a heap once its pages are being deleted, and after. A page
that an insert links after the walk is on no list, and lost. `tables` and `rows` are `tables_` and the catalog's heap,
`chain` the pages of each heap, `log` and `left` an undo log and what is still to be
undone. The pool is the set of pages readers have pinned: a page outside it can be
fetched while a frame is left. `Reopen` closes the database, with whatever is
open, and runs `load_existing_tables`.

History: `by`, who has created a table and not committed; `leaked`, pages nobody will give
back; `torn`, tables whose drop threw after it had deleted the row. `Careful` limits
clients to what the code survives (section 6, item 20): no drop of a table whose
creator is still open, no second call of a drop that threw, an abort that threw is called again only
if it had undone nothing, a frame is left when a row must be withdrawn, and (`MayFetch`) nobody fetches a page
that a drop has given back, or any page of a table whose drop has ended. The last is the limit of src/README.md:21:
`DropTable` is not safe against concurrent use of the table. It is narrower than "no scan during a drop": readers keep the
pages they have pinned, run ahead of the drop, go on behind it on pages it could not delete, and insert into
the heap between its steps.

### TupleCodec

A byte has `ByteBits` bits, two in the runs, so that the null bitmap has its second byte
with the third column. `serialize` and `deserialize` go through offsets, lengths, padding
and bitmap as the code does; bytes of numbers are opaque (a `bit_cast` each way).
Two types of fixed size stand for eight, which differ in their sizes only. A read
behind the end of the bytes is `Undefined`.

### Expressions

`evaluate` goes through the tree in postorder, so a stack of operands stands for the
recursion: `Operand`, `Comparison`, `Binary` and `Not` are the four kinds of expression,
`Filter` is the decision in `FilterOperator::next`. Beside its value an operand
carries the type a planner would give it and the truth SQL's logic gives it,
computed by a definition that shares nothing with `compare` and `binary`. `ToDouble`
is a parameter: the theorems hold for any rounding. `AsUnsigned` is the common type of the
two arms of the casts at comparison.cpp:69 and 76, `uint64_t` (see 6, item 4).

## 3. Runs

| Run | Shows | Bounds |
|---|---|---|
| `lock_table` | exclusion, bookkeeping, no lost wakeup, no dirty access, nothing left behind, locks leave at the end; waits end; the row locks are implemented | 3 transactions, 2 rows |
| `disk_restart` | one owner per page, lost pages, a list that fits the metadata page, over restarts and a crash | 2 threads, capacity 5, limit 1, 1 crash |
| `pool_exclusive` | pins, pinned pages, writes, frames, lost ids | 2 threads, 2 frames, 3 pages, 2 pins each |
| `pool_live` | the structures agree and calls return, whatever overlaps and whatever the disk refuses | 2 threads, 1 frame, 3 pages |
| `pool_race` | violated: a pinned page is not evicted (buffer_pool_manager_test.cpp:110) | 2, 2, 3 |
| `page_safety` | tuples stay apart, every slot shows what was put there last, compaction reclaims all | page of 25 bytes, 3 slots, sizes 1 to 3, any number of calls |
| `heap_chain` | one line of pages, a place for every page, rows stay, pins are given back, links stay | 2 threads, 2 frames, 5 pages of 18 bytes, the first two full at the start; 3 calls |
| `table_careful` | unlocked rows are committed, changes are logged, undo finds its slot empty | 2 transactions, 3 calls, 3 pages of 19 bytes, 2 slots each, the first two full but for a hole |
| `table_room` | violated: a rollback leaves the committed state intact (transaction_rollback_test.cpp:241) | 1 transaction, 1 page of 26 bytes |
| `catalog` | one owner per page, memory and rows agree, rollbacks leave nothing, undo finds its table, reopening finds the same tables | 2 transactions and calls without one, 2 names, 2 frames, pages 1 to 4, 1 row per page, limit 1; any number of calls |
| `codec_roundtrip` | rows and schemas are read as they were written | schemas of 1 to 3 columns, strings of up to 2 bytes, no CHAR of length 0 |
| `expressions_logic` | types, truth, exceptions and the filter | stack of 3, values of every kind, numbers of 3 bits |

A type invariant is in every module. `TypeCorrect` proves those of `LockManager`,
`DiskManager`, `BufferPool` and `Expressions`, `CatalogTyped` that of `Catalog`; the others are checked, on their own or as a
conjunct of another property (`TuplesApart`, `ChainIsSound`, `UnlockedIsCommitted`,
`RowRoundTrips`), and proved with the first three.

Why these bounds are enough. Three transactions on a row give a holder, a waiter
and a third that overtakes or is overtaken; two rows give deadlocks and
transactions that hold one row while they wait for another. A limit of one entry
means that the list is filled, overfilled and reused within four pages;
`kMETADATA_BYTES` is the exact size of the longest list allowed. Two frames and
three pages force evictions, two threads are what a race in the pool needs (its
windows each involve one thread inside and one that enters), two pins per thread
let a thread hold a page while it brings in another, as `TableHeap::insert_tuple`
does, and let all frames be pinned. One frame is enough for `pool_live`, and hardest: every
miss evicts, and both threads wait for the same latch.

On a page of 25 bytes three slots leave five bytes for tuples, so pages are
full, fragmented and compacted within a few calls, and a slot's own four bytes decide
whether a tuple fits. A heap page of 19 bytes holds two slots and three bytes:
four rows fill two pages, a deleted one has left a hole of two bytes for an insert or
for a row that grows, and what does not fit there goes to a third page, created on the way. Three
calls allow a change by one transaction, a change by another in between, and
an insert or update that runs into either; commits, aborts and undo steps are not
counted.

In `heap_chain` both pages are full at the start, so that an insert extends the chain at once, two
inserts race for its end, and an update of a row that grows moves it. Two frames for two
threads that hold up to two pages each make every step fail for want of a frame
that can, and force evictions between all steps that leave a page unpinned; the third call reads,
changes or rolls back what the first two have left, through the file. In `catalog`
one row per page makes the catalog's own heap grow with the second table; a limit of 1 lets the free
list hold two pages, so drops reuse and lose pages; two frames are both
pinned by two readers. A heap of two or three pages is enough for a reader, an insert and a drop to be on different
pages of it: 150,858 states, the last ones 57 steps from the start. Pages 1 to 5 with limit 0 pass as well (2.3 million states, three and a half minutes).
 
A page may have no room
for a row that is to come back: that ends the run of `TxTable`, and `table_room` is about
it. A stack of three lets an expression be nested on its left or right to
any depth. Values include the largest unsigned number against negative ones, an
integer that a double rounds, a floating number no integer passes when it is cast, NaN, and nulls of two types.

The page and table runs use views that leave out the bytes of a page that no
slot names: `get_tuple` is the only reader of bytes, and every write copies or
keeps whole tuples. The view of `catalog` leaves out state and log of a transaction
that has ended: `Begin` sets both before anything reads them; and the links of a heap whose drop has
ended, which careful clients do not follow. Symmetry of transactions, rows, names, threads, frames and contents is used in safety runs only.

## 4. Fairness

- `LockManager`: a blocked wait returns at the latest when its second has passed
  (`wait_for` with a deadline), so `WaitReturns` is weakly fair; a commit or abort
  under way goes on. Clients are not assumed to call anything.
- `BufferPool`: a call under way takes its next step if it can again and again
  (strong fairness: `latch_` is a mutex others take in between). The standard does
  not promise that a `std::shared_mutex` is fair; without that assumption a single
  thread can starve, and `CallsReturn` says that nothing else can go wrong: no
  circle of latches. Clients may stop calling.

## 5. Proofs

`LockManager_proofs`. The inductive invariant `IInv` is the conjunction of the
type, the phases of a transaction (which `pc` goes with which `state`, which sets
may be non-empty), one request per row, agreement of lock sets and granted requests,
exclusion, uncommitted rows locked, and the wakeup invariant. None of the safety
properties is inductive alone: exclusion needs that a grant is decided on the
granted requests and that lock sets and granted requests agree; that
needs one request per row; dirty access needs the phases (a row is in the undo log only while its
exclusive lock is held, up to `AbortUnlock`). Each part has its lemma over one
step; `InductiveInvariant` joins them. Proved from it: `TypeCorrect`,
`RowExclusion`, `BookkeepingAgrees`, `RequestsAreSingle`, `WakeupsReachWaiters`, `NoDirtyAccess`,
`EndLeavesNothing`, the action property `LocksKeptToTheEnd`, and the refinement
`ImplementsRowLocks`. No assumption on the constants: `Tx` and `RID` are any sets.

`DiskManager_proofs`. `TypeCorrect`, `ListFitsPage` (with the assumption that the
metadata page holds a list of `kFREE_LIST_LIMIT + 1` entries, because the code tests
`size() > 1024` before it appends), and `NoDoubleOwner`, up to the first crash: its
invariant adds that the header of a closed file is as good as the state in memory
was, and that nothing is owned beyond the capacity. `OnlyTheLimitLoses`, on steps, uses the
same invariant (`UpToACrash`): an id that leaves the list has an owner, one that grows the capacity
too, and what is reopened is what was closed, so `LostStep` leaves only `deallocate_page` above the limit.

`BufferPool_proofs`. `TypeCorrect` and `StructuresAgree`: whatever calls overlap, whatever
pages are pinned twice or unpinned by the wrong thread, and whatever the disk refuses, `page_table_`, the
page ids of the frames, the replacer and the list of freed frames say the same. No
discipline of clients is assumed, only that the pin counter has more than one
value and the capacities are numbers. `PInv` adds to the two: what a call carries to its next step (`CallsCarry`: a page, room
for one more pin, a pin to give back); a dirty frame has a page (`DirtyHavePages`: the write of a victim names
one); and whoever is at a step under `latch_` holds it, and what it found in
`page_table_` is still there (`LatchHeld`: otherwise a hit would pin a frame that was taken meanwhile). The lemmas at the start say what removal and
recording do to a list without duplicates; `TableStep` uses them action by action.

Its second half has the five properties of `pool_exclusive`, for any numbers of threads,
frames and pages, under `Discipline`: nobody fetches a page that another call is
loading or deleting (`Exclusive`; without it `pool_race` shows what happens), the disk works, threads
are finitely many and cannot hold more pins together than `pin_count_` can count.
`EInv` is inductive together with `PInv`. None of its parts is alone: a pinned page
is current (`PinsHold`) because a frame with a pin is no victim, which takes that `pin_count_` is
exactly the number of PinnedPages (`PinsAreCounted`) and that nobody loads the page a
second time (`MissesStay`: what was missing under `latch_` is still missing when the
latch is taken again; `FramesFound`: one frame per page); nothing written is lost
(`WritesAreKept`) because the frame that has a page has its latest content once it
is read (`Loads`, `LatestInFrames`) and stays dirty or pinned by its writer until it is written; what a call carries
is still about a page in use (`CallsAreCurrent`), and an id that `allocate_page` returns is in no
use (`FreeAreUnused`). The pins around a frame are counted as a set of places; `SpotsMore` and
`SpotsLess` follow its cardinality through an append and a removal in the middle of a
sequence. `PinsCounted`, `PinnedStays`, `WritesSurvive` and `FramesStay` follow. `NothingElseIsLost`, on steps, also takes
that an idle thread carries no page (`CallsEnd`), and that `swap_page` gives up only when all frames
are pinned: some unpinned page is the oldest in the replacer (`VictimFound`, by `LeastNumber`).

`Expressions_proofs`. `TInv`: every operand is a value of its expression's type, null or
not, and one that is not BOOL comes from a column or constant; `TypeCorrect` and
`NeverThrows` follow. `RInv` adds that value and truth agree, and is inductive
because what is not BOOL has no truth and the operators refuse it. It needs
`CompareIsRight`, which has a case for each branch of `compare`, and the hypothesis
`DoublesTellApart`: no integer of the query, on its way to a double, changes its
place among the floating numbers it could be compared with. Without it the code does
not have the property: `compare` casts integers to `double` by way of `uint64_t`, which
rounds those beyond 2^53 and takes negative ones for large ones. `TruthCorrect` and
`FilterCorrect` follow for expressions of any depth. The values of `expressions_logic`
satisfy the hypothesis.

`SlottedPage_proofs`. For any page size below 2^16, any number of slots and tuples of any
size: `TuplesApartTheorem`, `SlotsAreKeptTheorem` and `CompactReclaimsTheorem`. The
invariant `Sound` says of a page and its contents: the slots end before the free space, every
tuple lies behind it, of two tuples one ends before the other starts, every slot shows
what it should, and `free_space_offset <= PackedEnd`: what `compact` would use is no more
than is used now. The last one makes it inductive: without it a compaction could run the
tuples into the slots. It holds since an insert takes its bytes from the free space, and
shrinking and deleting take none (`PackedChange`: when one slot's use changes, the end of
the packed tuples moves by the difference). The offsets of `compact` are a recursive
function; that it exists, has numbers as values and falls from slot to slot is proved with
`Least`, every set of naturals has a least element, and `Climb`, induction over the members
of a set. `InsertKeeps`, `ShrinkKeeps` and `CompactKeeps` are the three ways a page changes. From
them `PageInsert`, `PageUpdate`, `PageDelete`, `PageRestore` and `PageCompact` say what a call does to the row of
every slot (`RowOf`); the proofs of `TxTable` and `HeapChain` use a page through them only.

`TxTable_proofs`. `Committed`, `Logged` and `SlotFound`: the three properties of `table_careful`, for any
numbers of transactions, pages, slots, calls and loaded rows, and tuples of any size that
`TupleAssumption` allows. The hypothesis `Patient` takes out section 6, item 10: without it
`UnlockedIsCommitted` is false. They stand on three layers of lemmas.

- Pages and heaps. `GoodPage` is `Sound` of `SlottedPage_proofs` for some rows. `HeapInsert`, `HeapDelete`,
  `HeapUpdate` and `HeapRestore` say that a call changes the row of one row id, or of the old and the new one
  of a row that moves (`OneChange`), and that no slot goes: compactions on the way, and the walk of
  `insert_tuple`, change no other row. An insert always finds a place, because an empty page has
  room (`EmptyFits`).
- Undo logs. `Undoes(log, rid, v, c)`: to undo the records of a row, the newest first, leads from `v` to `c`. It is said
  without recursion: no records and `v` is `c`, the oldest record leaves `c`, the newest finds the row
  gone if it restores it, and between two that restore there is one that deletes. `UndoesRestore`,
  `UndoesDelete` and `Undone` are its steps: a record pushed, with the change it belongs to, and the
  newest one taken.
- The invariant `IInv`. `UnlockedIsCommitted` is not inductive: what an abort leaves depends on its undo
  log, and what is in the heap is, between `Insert` or `Change` and `LockNew`, ahead of the log. `Settled` says of each
  row that what it held before the call under way (`Before`) is what is committed, or what its
  writer's log leads from. `NewRows` and `MovedRows` say whose a row is in between: its slot was empty,
  nobody else has it locked or waits for it. That is where `NoForeignHoles` is needed (`FreeSlot`).
  `RowsExist`: no slot that somebody will come back to goes; `LogsLocked`: records are of locked rows;
  `Exclusive`: locks are what `RowLocks` promises.

`Step` is the frame of all actions: a step of one transaction on a set of row ids that
nobody else has an interest in keeps `IInv`, if it keeps `Settled` on that set. The heap at the start is a recursive
function of the loaded calls; that it exists and is sound is proved with `Climb` (`TableIs`, `StartGood`).

`HeapChain_proofs`. `ChainStaysSound`, `EveryPageKeepsAPlace`, `HeapRowsAreKept`, `HeapPinsAreHeld` and the action
property `ChainLinksStay`: the five properties of `heap_chain`, for any numbers of threads, frames, pages,
calls and rows at the start, pages and tuples of any size, and any choice of the frame to evict. Two
hypotheses: `Careful` (section 6, items 16 and 17; without it TLC finds a cycle and a lost
pin), and `FewThreads`: the threads are finitely many and fewer than `pin_count_` can count.

The five are proved together, since none is inductive alone. The invariant `ChainInv(L)` is about
a sequence `L` of pages, the line that the chain is; `IsALine` says that there is one, and `NextKeeps` that a step leaves
it as it is or adds one page to its end (`Grown`). Its parts:

- `Keeps`, `PageKept`: the page at place `i` of `L`, in its frame, is a sound page, links to `L[i + 1]` and shows
  the rows put there; in the file it does so too, unless some frame is `Behind` it, that is dirty or about to be
  marked dirty by the call that has changed it. So a page is read with the right link and rows whenever it is evicted
  and fetched again (`RowsAreKept`, `LinksStay`), and a change that is never marked dirty is what `unsaved` excepts.
- `WalkOK`: where each call is on `L` and that it goes on to a place further down, also after it has lost the race
  for the end and given its page back (`WalksGoForward`). `RowOK`, `Locks`, `RowPages`: what it carries fits the row it is about; two calls on one
  row are both readers, and nobody inserts while a deletion is rolled back.
- `CreatorOK`, `Places`: a page being created is in a frame of its creator's alone, initialised, and not on `L`; each
  id is on `L`, free, being created, or lost, and in one of them only. That the link is set at the end of `L` and to a page that
  is not on it, is why the line stays a line.
- `OneHolder`, `HeldPages`, `PinsCounted`: a page has one frame, no frame holds another page, and `pin_count_` is the number
  of calls that use the frame: so a page in use is no victim, and what a call has found under its pin is still there.

`InChain` is a recursive function of the links (`From`); `FromIs`, by `Climb` from the end of `L`, shows that it is the
set of the pages of `L`, and so that the recursion ends. The pages at the start are a recursive function of the loaded
rows (`StoredExists`, `StoredShows`); that those rows fit their pages is the assumption `StoredAssumption`. Pins are
cardinalities of sets of calls, which change by one with each step that pins or unpins (`UsersAre` and what follows it).

`Catalog_proofs`. `EveryPageHasOneOwner`, `RowsAndTablesAgree`, `RollbackIsWhole`, `UndoRecordsFit` and the
action property `ReopenFindsTables`: the five properties of `catalog`, for any numbers of transactions, names,
frames, pages, rows on a page and any limit of the free list, whatever fails. The hypothesis is `Careful`
(section 6, item 20): without it TLC finds all of this broken. `CatalogTyped` is the type. Only the
ownership of pages is nearly inductive alone; the invariant `IInv` has these parts:

- Pages. `PagesApart`: every page below the capacity is at one place of one heap, or once in the free list, or lost or still to
  be deleted by a drop (`Lost`), and the list is at most one over its limit; `Unpinned`: nobody has pinned a page of the list.
  That holds through a drop because `delete_page` refuses a pinned page, and because a page that `MayFetch` allows to be
  pinned is in a heap, still to be deleted, or lost. `HeapsAreUsed`: the heaps are those of the
  catalog, of each table, and of a `create_table` under way, each its own: so a drop gives back nobody else's pages.
- Names. `CallsFit`: what a call has found holds while `latch_` is held (its name is new, its row is
  there, its table is there), although rollbacks delete rows meanwhile. `RowsFollow`: a table has its row unless
  its drop is under way or has thrown, and a row has its table unless it is being written or is the next that a
  rollback deletes. `RowsOnPages`: rows are where a scan will find them.
- Undo logs. `Logs`: what is left of a log is a sequence of pairs, the deletion of a row and the drop of
  its table, no record twice, of which an abort may be between the two; every table of an open transaction is in its
  log. `RollbackLeavesNothing` needs the last part, `UndoFindsItsTable` that no record comes twice: undoing one must
  not take away what another names.

Pages and names change independently, so each has a lemma per action (`PagesCreated`, `PagesRead`, ...; `RowWritten`,
`RowKeptNow`, `RowUndone`, ...), and `Steps` joins them. A drop is a step per page
(`PagesRead`, `PageDeleted`, `PageGone`), so no step gives back more than one. Reopening builds `tables_` from a scan: `LoadedIs` needs that no two rows have
one name, which follows from `RowsFollow` once nothing is under way, and `PlacesAre` that the scan passes
every row.

Only model-checked: `WaitEnds`, `CallsReturn` (liveness), `TupleCodec`, and
the violations. Liveness and `ENABLED` are outside what the provers can do; `serialize` and
`deserialize` are recursions over columns and bytes, and what they compute for every input is an induction over data,
which is outside too.

## 6. Disagreements between code and documents

With a run each:

1. `pool_race`: fetches that miss the same page load it twice, and a pinned page
   is evicted later.
2. `table_room`: transaction_rollback_test.cpp:241 says the committed state stays intact
   in a rollback; a row that has shrunk or gone may not fit any more, since slots are
   never given back, and `restore_tuple` asserts.

Met while modelling, visible in a definition, without a run of their own:

3. `ScanNext` in `TxTable`: README.md:14 promises strict two-phase locking; `Table::Scan::next` locks
   `next_rid()`, the row id where the scan stands, and `heap_scan_.next()` returns the next row there
   is, which may be another one that nobody has locked for this transaction.
4. `AsUnsigned`: comparison.cpp:14 says an expression "compares the values and returns a
   boolean". At lines 69 and 76 the integer compared with a floating number is the value of
   `type() == UINT64 ? as_uint64() : as_integral()`, so a negative one wraps to a number near
   2^64 first: `-4 < 2.0` is false and `-4 > 2.0` true. With `of("DOUBLE", 2)` in place
   of `of("DOUBLE", 6)` in `MCExpressions`, TLC finds `TruthIsKept` violated in three steps.
5. `LockExclusive`: README.md:14 promises strict two-phase locking with upgrades; an
   upgrade that waits has released its shared lock (lock_manager.cpp:45).
6. `TimeOut` in `LockManager`: transaction_lock_test.cpp:149 says a timed out transaction is
   removed from `active_txs_`; it is not until the client aborts it.
7. `deallocate`: README.md:26 says exceeding the free list's limit throws; the page is
   dropped with a warning (disk_manager.cpp:71).
8. `Crash`: README.md:26 says pages are recycled correctly across restarts; after a crash
   the list in the file names pages that have an owner again.
9. `is_compacted`: slotted_page.hpp:61 documents a page with slot 0's tuple highest,
   which is what `compact` makes; `is_compacted` expects slot 0's tuple lowest.
10. `LockNewFails`: README.md:14 says changes record undo entries; an update that has moved its
    row and cannot lock the new row id returns without one (table.cpp:83), and nothing will take
    the move back. README.md:31 says of `Table::Scan::next` that it "probably wont ever wait on
    that rid because there is no data that will request X lock"; but the scan locks the id it
    stands on, of an empty slot too (table.cpp:117), and keeps that lock, and a row may move to
    that very slot. Two transactions and two calls: with `Patient` FALSE the run of
    `table_careful` finds `UnlockedIsCommitted` violated after three steps.
11. `BelongsTo`: table.cpp:28 says of a new row whose lock was refused that the "insert could be
    overwritten"; it can be by a transaction that waited, in an upgrade, for a row that another has
    deleted and committed. A third inserts into the slot, the waiting one gets the lock first and
    deletes or changes a row that is not committed (table.cpp:57 and 74 ask only whether there is one);
    the insert then withdraws the row, and the other's abort brings it back, without an owner. Three
    transactions and ten steps, if `BelongsTo` is left at its first half.
12. `compute_offsets`: tuple.cpp:126 takes a CHAR of length 0 for a column with a length
    in front; `serialize` writes none. `codec_roundtrip` has no such column.
13. `TooLong`: the checks of tuple.cpp:169 stand in a branch that VARBINARY does not reach.
14. The comment at tuple.hpp:13-15 draws a row as bitmap, fixed columns, then the
    others, while columns are in the order of the schema; comparison.cpp:14 speaks of a
    null of the operands' type where BOOL is meant and returned (`WellTypedNeverThrows`
    depends on that).

15. `InsertAtEnd`: table_heap.cpp:66 throws when the chain ends again after a page was created,
    and its comment takes that for impossible; table_heap_test.cpp:143 expects concurrent inserts
    to succeed. An insert that loses the race for the end goes on to the winner's page,
    may find it full, and throws.
16. `NextFrames`: table_heap.cpp:90 and 96 read the id of the new page from its frame after the
    page was unpinned. If the frame was given to another page meanwhile, that page
    is linked at the end of the chain, or deleted. With `Careful` FALSE the run of `heap_chain` finds
    a cycle in the chain after twelve steps.
17. `Fetch`: when a scan finds no frame for its next page, it has unpinned the old one and has not
    reset `current_page_`; `~Scan` (table_heap.cpp:222) unpins it again, and takes away
    another call's pin. `Careful` FALSE shows it with `PinsAreHeld`.
18. `RestoreHere`: `restore_tuple` does not mark its page dirty (table_heap.cpp:184), so a
    rollback is lost when its page is evicted before something else changes it. `RowsAreKept`
    excepts these rows; without `unsaved` it fails.
19. `UpdateHere`: `update_tuple` has deleted the row when it calls `insert_tuple` (table_heap.cpp:158); if that
    finds no frame, the row is gone, and the caller pushes no undo record.
20. In `Catalog`, with `Careful` FALSE: a table is dropped whose creating transaction
    is open, and its abort asserts in `delete_table` (five steps); a drop that threw is called
    again and deletes the row of another table that has taken the place (about fifteen); an abort
    that threw, called again, undoes its first records twice and asserts; the result of
    deleting a row is ignored (catalog.cpp:54, undo.cpp:12), so that without a frame a row without
    a table stays and is loaded at the next opening (about ten).
    The limit of src/README.md:21 is needed too: a scan goes on to a page that `delete_page` has just given back
    (table_heap.cpp:284), and `new_page` hands out a page that is pinned; `PagesHaveOneOwner` is violated after seven
    steps. The README names the dangling `Table*` only, and says that pins protect the contents of pages.
21. `CreateTable`, `FailToWrite`, `RefuseRow`, `DeletePage`: pages of a creation that fails, and pages
    that are pinned while their table is dropped (src/README.md:22 says so), are lost; `Grow`: so are pages that an insert
    links after `drop_pages` has read the list. `ReadFails`: a drop that throws
    leaves a table without a row, which is gone at the next opening (catalog.cpp:77 and 84).

## 7. Plan

Done: `LockManager`, `DiskManager`, `BufferPool` with a disk that fails, `SlottedPage`,
`TableHeap` and `TxTable` call by call, `HeapChain` step by step, `Catalog`, `TupleCodec`,
`Expressions`; proofs of every safety property of `LockManager`, `DiskManager`, `BufferPool`, `PageUse`, `TxTable`,
`HeapChain`, `Catalog` and `Expressions`.

What would come next:

1. The operator pipeline: `open`, `next` and end of scan and projection (the filter's decision is in `Expressions`).
2. That every concurrent call of `HeapChain` leaves the chain that the calls of `TableHeap`, one at a time, would leave: its line `L`
   is proved to be one and to keep its rows, but not that each call changes it as `heap_insert` or `heap_update` would.

## 8. Not modelled

- A failing `pwrite` of the header: the code ignores its result (`Crash` covers the file it leaves).
- The bytes of numbers (`bit_cast` each way), formatting of values, logging.
- The demonstration program (`main.cpp`): a client of the calls above.
- The operators' pull loop: a scan's position is in `TableHeap` and `TxTable`, the filter's decision in
  `Expressions`; what is left are forwarding calls.
