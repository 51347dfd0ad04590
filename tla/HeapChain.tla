----------------------------- MODULE HeapChain -----------------------------
(***************************************************************************)
(* The concurrent calls of duck::TableHeap on a chain of slotted pages, in *)
(* the frames of a buffer pool that evicts.                                *)
(*                                                                         *)
(* A heap call never calls the pool while it holds a page latch, so what   *)
(* it does under a page latch is one step, and so is each call of the      *)
(* pool: that fetch_page is one step is what BufferPool shows under        *)
(* Exclusive.  Which unpinned frame is evicted is left open here.          *)
(***************************************************************************)
EXTENDS TableHeap, PageAllocator, FiniteSets

CONSTANTS Thread,
          Frame,          \* the frames of the pool
          NoFrame,
          kMAX_CAPACITY,  \* bound of this model: page ids are below it
          kPIN_MODULUS,   \* pin_count_ is unsigned: 2^32
          Stored,         \* the rows on the heap's pages at the start
          Careful,        \* the pool is never so short of frames that the
                          \* heap loses track of a page (see Fresh, Finds)
          MaxCalls        \* bound of this model on the calls made

ASSUME ChainAssumption ==
  /\ NoFrame \notin Frame
  /\ kMAX_CAPACITY \in Nat /\ kPIN_MODULUS \in Nat \ {0}
  /\ INVALID_PAGE_ID \notin 0 .. kMAX_CAPACITY
  /\ Stored \in Seq(Seq(Tuple)) /\ Len(Stored) \in 1 .. kMAX_CAPACITY - 1
  /\ Careful \in BOOLEAN /\ MaxCalls \in Nat

VARIABLES frames,     \* frames_[f], with the page it holds
          disk,       \* the pages in the file
          pc,         \* where the call of a thread is
          call,       \* its arguments and locals
          rows,       \* the rows callers have put into the heap, by RID
          unsaved,    \* rows restored into a frame that is not dirty
          lost,       \* ids that new_page found no frame for, or free_list no room
          calls       \* how many calls were made

vars == <<capacity, free_list, frames, disk, pc, call, rows, unsaved, lost, calls>>

first_page_id == 1
Page      == 1 .. kMAX_CAPACITY - 1
PageOrNot == Page \cup {INVALID_PAGE_ID}
RIDs      == [page_id : Page, slot_num : Nat]

(* page_id is where the call goes next, current_page_ and the page of      *)
(* PinnedPage pinned are "frame", next_page is "fresh".                    *)
Call == [op : {"none", "get", "insert", "update", "delete", "roll back", "restore", "scan"},
         rid : RIDs \cup {Rid(INVALID_PAGE_ID, 0)},
         tuple : Tuple \cup {NoTuple},
         page_id : PageOrNot,
         frame : Frame \cup {NoFrame},
         fresh : Frame \cup {NoFrame},
         created_new_page : BOOLEAN,
         dirty : BOOLEAN]

NoCall == [op |-> "none", rid |-> Rid(INVALID_PAGE_ID, 0), tuple |-> NoTuple,
           page_id |-> INVALID_PAGE_ID, frame |-> NoFrame, fresh |-> NoFrame,
           created_new_page |-> FALSE, dirty |-> FALSE]

PC == {"idle", "fetch", "work", "extend", "filled", "link", "drop", "unpin"}

HeapPage == [next_page_id : PageOrNot \cup {0},
             free_space_offset : 0 .. kPAGE_SIZE,
             slots : Seq(Slot),
             data : [0 .. kPAGE_SIZE - 1 -> Value \cup {Blank}]]

TypeOK ==
  /\ capacity \in 1 .. kMAX_CAPACITY /\ free_list \in Seq(Page)
  /\ frames \in [Frame -> [page_id : PageOrNot, pin_count : 0 .. kPIN_MODULUS - 1,
                           is_dirty : BOOLEAN, page : HeapPage]]
  /\ disk \in [Page -> HeapPage]
  /\ pc \in [Thread -> PC]
  /\ call \in [Thread -> Call]
  /\ DOMAIN rows \subseteq RIDs /\ \A rid \in DOMAIN rows : rows[rid] \in Tuple
  /\ unsaved \subseteq DOMAIN rows
  /\ lost \subseteq Page /\ calls \in 0 .. MaxCalls

-----------------------------------------------------------------------------
(* Bytes that were never written, or reset_memory. *)
Zeroed == [init EXCEPT !.next_page_id = 0, !.free_space_offset = 0]
EmptyFrame == [page_id |-> INVALID_PAGE_ID, pin_count |-> 0, is_dirty |-> FALSE, page |-> Zeroed]

(* page_table_: it agrees with the frames (BufferPool!TableMatchesFrames). *)
Holding(p)  == {f \in Frame : frames[f].page_id = p}
FrameOf(p)  == CHOOSE f \in Holding(p) : TRUE
Current(p)  == IF Holding(p) # {} THEN frames[FrameOf(p)].page ELSE disk[p]

(* find_next_frame: one that holds no page, else one that nobody pins. *)
Empty == Holding(INVALID_PAGE_ID)
FreeFrames == IF Empty # {} THEN Empty ELSE {f \in Frame : frames[f].pin_count = 0}

(* Between its unpin and the second look at its id (table_heap.cpp:84 and  *)
(* 90, 96) the frame of a page just created may get another page.          *)
Fresh == {call[t].fresh : t \in {u \in Thread : pc[u] \in {"link", "drop"}}}

(* Mutant of NextFrames: the page just created may be evicted. *)
NextFrames_Fresh == FreeFrames

NextFrames == IF Careful THEN FreeFrames \ Fresh ELSE FreeFrames

(* A scan that is to go on to another page has a frame for it. *)
Finds(t) == call[t].op = "scan" /\ call[t].frame # NoFrame => FreeFrames # {}

(* swap_page: a dirty victim is written to the file. *)
Flushed(f) == IF frames[f].is_dirty THEN [disk EXCEPT ![frames[f].page_id] = frames[f].page]
              ELSE disk
Loaded(p, page) == [page_id |-> p, pin_count |-> 1, is_dirty |-> FALSE, page |-> page]

(* unpin_page, of the id that the frame has by now. *)
Unpinned(f, dirty) ==
  IF frames[f].page_id = INVALID_PAGE_ID THEN frames
  ELSE [frames EXCEPT ![f].pin_count = (@ + kPIN_MODULUS - 1) % kPIN_MODULUS,
                      ![f].is_dirty = @ \/ dirty]

(* Restored rows are safe once their frame is dirty. *)
StillUnsaved(f, dirty) ==
  IF ~dirty THEN unsaved
  ELSE {rid \in unsaved : ~ /\ rid.page_id = frames[f].page_id
                            /\ has_slot(frames[f].page, rid.slot_num)}

(* TableHeap::create, and insertions into its pages, before the database   *)
(* was closed and opened: all pages in the file, no frame in use.          *)
StoredPages(i) ==
  LET page[n \in 0 .. Len(Stored[i])] ==
        IF n = 0 THEN [init EXCEPT !.next_page_id = IF i = Len(Stored) THEN @ ELSE i + 1]
        ELSE insert_tuple(page[n - 1], Stored[i][n], NoSlot)
  IN  page
StoredPage(i) == StoredPages(i)[Len(Stored[i])]

ASSUME StoredAssumption ==
  \A i \in DOMAIN Stored : \A n \in DOMAIN Stored[i] :
    CanInsert(StoredPages(i)[n - 1], Stored[i][n], NoSlot)

Init ==
  /\ capacity = Len(Stored) + 1 /\ free_list = <<>>
  /\ frames = [f \in Frame |-> EmptyFrame]
  /\ disk = [p \in Page |-> IF p <= Len(Stored) THEN StoredPage(p) ELSE Zeroed]
  /\ pc = [t \in Thread |-> "idle"]
  /\ call = [t \in Thread |-> NoCall]
  /\ rows = [rid \in {r \in [page_id : DOMAIN Stored, slot_num : 0 .. kPAGE_SIZE] :
                        r.slot_num < Len(Stored[r.page_id])} |->
               Stored[rid.page_id][rid.slot_num + 1]]
  /\ unsaved = {} /\ lost = {} /\ calls = 0

-----------------------------------------------------------------------------
allocVars == <<capacity, free_list>>
rowVars   == <<rows, unsaved>>

Goto(t, label) == pc' = [pc EXCEPT ![t] = label]
Return(t) == Goto(t, "idle") /\ call' = [call EXCEPT ![t] = NoCall]

Begin(t, c) ==
  /\ pc[t] = "idle" /\ calls < MaxCalls
  /\ calls' = calls + 1
  /\ Goto(t, "fetch")
  /\ call' = [call EXCEPT ![t] = c]
  /\ UNCHANGED <<allocVars, frames, disk, rowVars, lost>>

(* Row locks: no two calls on one row, unless both read it. *)
MayTouch(rid, op) == \A u \in Thread : call[u].rid = rid => call[u].op = op /\ op = "get"

(* README.md:30: nobody puts rows where a deletion may be rolled back. *)
Inserting   == \E u \in Thread : call[u].op \in {"insert", "update"}
RollingBack == \E u \in Thread : call[u].op \in {"roll back", "restore"}

(* Bound of this model: the calls under way find ids to allocate. *)
IdsLeft == kMAX_CAPACITY - capacity + Len(free_list) >= Cardinality(Thread)

Insert(t, tuple) ==
  /\ ~RollingBack /\ IdsLeft
  /\ Begin(t, [NoCall EXCEPT !.op = "insert", !.tuple = tuple, !.page_id = first_page_id])

Update(t, rid, tuple) ==
  /\ ~RollingBack /\ IdsLeft /\ MayTouch(rid, "update")
  /\ Begin(t, [NoCall EXCEPT !.op = "update", !.tuple = tuple, !.rid = rid,
                             !.page_id = rid.page_id])

(* get_tuple, delete_tuple, and a delete_tuple that is rolled back. *)
OnRow(t, rid, op) ==
  /\ op = "roll back" => ~Inserting
  /\ MayTouch(rid, op)
  /\ Begin(t, [NoCall EXCEPT !.op = op, !.rid = rid, !.page_id = rid.page_id])

Scan(t) == Begin(t, [NoCall EXCEPT !.op = "scan", !.page_id = first_page_id])

(* fetch_page.  Without a frame it returns nullptr, and so does the call,  *)
(* except that ~Scan unpins the page the scan has left (table_heap.cpp:222 *)
(* and 281: current_page_ is not reset).                                   *)
Fetch(t) ==
  LET p == call[t].page_id IN
  /\ pc[t] = "fetch"
  /\ \/ \E f \in Holding(p) :
          /\ frames' = [frames EXCEPT ![f].pin_count = (@ + 1) % kPIN_MODULUS]
          /\ call' = [call EXCEPT ![t].frame = f]
          /\ Goto(t, "work") /\ UNCHANGED disk
     \/ \E f \in NextFrames :
          /\ Holding(p) = {}
          /\ frames' = [frames EXCEPT ![f] = Loaded(p, disk[p])]
          /\ disk' = Flushed(f)
          /\ call' = [call EXCEPT ![t].frame = f]
          /\ Goto(t, "work")
     \/ /\ Holding(p) = {} /\ FreeFrames = {} /\ (Careful => Finds(t))
        /\ IF call[t].op = "scan" /\ call[t].frame # NoFrame
           THEN /\ call' = [call EXCEPT ![t].page_id = INVALID_PAGE_ID]
                /\ Goto(t, "unpin")
           ELSE Return(t)
        /\ UNCHANGED <<frames, disk>>
  /\ UNCHANGED <<allocVars, rowVars, lost, calls>>

At(t, op) == pc[t] = "work" /\ call[t].op = op

(* Under the page latch a call turns the page into "page" and has "c" as   *)
(* its locals; then it goes on to "label".                                 *)
Works(t, page, c, label) ==
  /\ frames' = [frames EXCEPT ![call[t].frame].page = page]
  /\ call' = [call EXCEPT ![t] = c]
  /\ Goto(t, label)
  /\ UNCHANGED <<allocVars, disk, lost, calls>>

Here(t) == frames[call[t].frame].page

(* Mutant of Done: the page is not marked dirty. *)
Done_Clean(t) == [call[t] EXCEPT !.page_id = INVALID_PAGE_ID]

Done(t) == [call[t] EXCEPT !.dirty = TRUE, !.page_id = INVALID_PAGE_ID]
Onwards(t, p) == [call[t] EXCEPT !.page_id = p]

Put(rid, tuple) ==
  rows' = [r \in DOMAIN rows \cup {rid} |-> IF r = rid THEN tuple ELSE rows[r]]
WithRow(rid, tuple) == Put(rid, tuple) /\ unsaved' = unsaved \ {rid}
WithoutRow(rid)     == /\ rows' = [r \in DOMAIN rows \ {rid} |-> rows[r]]
                       /\ unsaved' = unsaved \ {rid}

(* insert_tuple: this page takes the tuple, or the next one is tried, or   *)
(* there is none: then one is created, unless that was done before, which  *)
(* is an exception.                                                        *)
InsertHere(t) ==
  LET try == Try(Here(t), call[t].tuple) IN
  /\ At(t, "insert")
  /\ try.ok
  /\ Works(t, try.page, Done(t), "unpin")
  /\ WithRow(Rid(frames[call[t].frame].page_id, try.slot), call[t].tuple)

InsertFurther(t) ==
  LET try == Try(Here(t), call[t].tuple) IN
  /\ At(t, "insert")
  /\ ~try.ok
  /\ try.page.next_page_id # INVALID_PAGE_ID
  /\ Works(t, try.page, Onwards(t, try.page.next_page_id), "unpin")
  /\ UNCHANGED rowVars

InsertAtEnd(t) ==
  LET try == Try(Here(t), call[t].tuple) IN
  /\ At(t, "insert")
  /\ ~try.ok
  /\ try.page.next_page_id = INVALID_PAGE_ID
  /\ Works(t, try.page, Onwards(t, INVALID_PAGE_ID),
           IF call[t].created_new_page THEN "unpin" ELSE "extend")
  /\ UNCHANGED rowVars

Created(p) == Loaded(p, init)

(* new_page, and init of the page, which nobody else knows.  An id for     *)
(* which there is no frame is not given back.                              *)
Extend(t) ==
  /\ pc[t] = "extend"
  /\ \E p \in Page :
       /\ allocate_page(p)
       /\ \/ \E f \in NextFrames :
               /\ frames' = [frames EXCEPT ![f] = Created(p)]
               /\ disk' = Flushed(f)
               /\ call' = [call EXCEPT ![t].fresh = f, ![t].created_new_page = TRUE]
               /\ Goto(t, "filled") /\ UNCHANGED lost
          \/ /\ FreeFrames = {}
             /\ lost' = lost \cup {p}
             /\ Goto(t, "unpin") /\ UNCHANGED <<frames, disk, call>>
  /\ UNCHANGED <<rowVars, calls>>

Filled(t) ==
  /\ pc[t] = "filled"
  /\ frames' = Unpinned(call[t].fresh, TRUE)
  /\ Goto(t, "link")
  /\ UNCHANGED <<allocVars, disk, call, rowVars, lost, calls>>

(* Mutant of Linked: the page that gets the link is not marked dirty. *)
Linked_Clean(t, p) == Onwards(t, p)

Linked(t, p) == [Onwards(t, p) EXCEPT !.dirty = TRUE]

(* Latched again, the page is looked at again: another insert may have     *)
(* linked its new page.                                                    *)
Link(t) ==
  LET p == frames[call[t].fresh].page_id IN
  /\ pc[t] = "link"
  /\ IF Here(t).next_page_id = INVALID_PAGE_ID
     THEN /\ frames' = [frames EXCEPT ![call[t].frame].page.next_page_id = p]
          /\ call' = [call EXCEPT ![t] = Linked(t, p)]
          /\ Goto(t, "unpin")
     ELSE /\ call' = [call EXCEPT ![t] = Onwards(t, Here(t).next_page_id)]
          /\ Goto(t, "drop") /\ UNCHANGED frames
  /\ UNCHANGED <<allocVars, disk, rowVars, lost, calls>>

(* Mutant of Unneeded: the id is forgotten with its frame. *)
Unneeded_Forgets(f) ==
  frames' = [frames EXCEPT ![f] = EmptyFrame] /\ UNCHANGED <<allocVars, lost>>

(* delete_page: not if it is pinned. *)
Unneeded(f) ==
  IF frames[f].pin_count > 0 THEN UNCHANGED <<frames, allocVars, lost>>
  ELSE /\ frames' = [frames EXCEPT ![f] = EmptyFrame]
       /\ deallocate(frames[f].page_id)
       /\ lost' = IF Len(free_list) > kFREE_LIST_LIMIT THEN lost \cup {frames[f].page_id}
                  ELSE lost

(* Mutant of Drop: the `continue` skips the PinnedPage's destructor. *)
Drop_KeepsPin(t) ==
  /\ pc[t] = "drop"
  /\ Unneeded(call[t].fresh)
  /\ Goto(t, "fetch")
  /\ UNCHANGED <<disk, call, rowVars, calls>>

Drop(t) ==
  /\ pc[t] = "drop"
  /\ Unneeded(call[t].fresh)
  /\ Goto(t, "unpin")
  /\ UNCHANGED <<disk, call, rowVars, calls>>

(* update_tuple: in place; else deleted, the page compacted, and inserted  *)
(* again in its slot; else inserted anywhere, as by insert_tuple, and when *)
(* that fails the row is gone.                                             *)
UpdateHere(t) ==
  LET rid     == call[t].rid
      tuple   == call[t].tuple
      deleted == delete_tuple(Here(t), rid.slot_num)
      roomy   == IF is_compacted(deleted) THEN deleted ELSE compact(deleted)
  IN
  /\ At(t, "update") /\ has_slot(Here(t), rid.slot_num)
  /\ \/ /\ CanUpdateInPlace(Here(t), rid.slot_num, tuple)
        /\ Works(t, try_update_in_place(Here(t), rid.slot_num, tuple), Done(t), "unpin")
        /\ WithRow(rid, tuple)
     \/ /\ ~CanUpdateInPlace(Here(t), rid.slot_num, tuple)
        /\ CanInsert(roomy, tuple, rid.slot_num)
        /\ Works(t, insert_tuple(roomy, tuple, rid.slot_num), Done(t), "unpin")
        /\ WithRow(rid, tuple)
     \/ /\ ~CanUpdateInPlace(Here(t), rid.slot_num, tuple)
        /\ ~CanInsert(roomy, tuple, rid.slot_num)
        /\ Works(t, roomy, [call[t] EXCEPT !.op = "insert", !.dirty = TRUE,
                                                     !.page_id = first_page_id], "unpin")
        /\ WithoutRow(rid)

(* delete_tuple; if the transaction aborts restore_tuple comes next. *)
DeleteHere(t) ==
  LET s == call[t].rid.slot_num IN
  /\ \/ /\ At(t, "delete") /\ has_slot(Here(t), s)
        /\ Works(t, delete_tuple(Here(t), s), Done(t), "unpin")
        /\ WithoutRow(call[t].rid)
     \/ /\ At(t, "roll back") /\ has_slot(Here(t), s)
        /\ Works(t, delete_tuple(Here(t), s),
                 [call[t] EXCEPT !.op = "restore", !.dirty = TRUE,
                                 !.tuple = rows[call[t].rid]], "unpin")
        /\ WithoutRow(call[t].rid)

(* restore_tuple does not mark the page dirty.  Its assertions hold while  *)
(* nobody puts rows there meanwhile.                                       *)
RestoreHere(t) ==
  LET rid == call[t].rid
      f   == call[t].frame
  IN
  /\ At(t, "restore")
  /\ SlotIsEmpty(Here(t), rid.slot_num) /\ RestoreFits(Here(t), call[t].tuple)
  /\ Works(t, restore_tuple(Here(t), rid.slot_num, call[t].tuple),
           Onwards(t, INVALID_PAGE_ID), "unpin")
  /\ Put(rid, call[t].tuple)
  /\ unsaved' = IF frames[f].is_dirty THEN unsaved ELSE unsaved \cup {rid}

(* get_tuple, and update_tuple or delete_tuple of a row that is not there. *)
LookHere(t) ==
  /\ \/ At(t, "get")
     \/ /\ \E op \in {"update", "delete", "roll back"} : At(t, op)
        /\ ~has_slot(Here(t), call[t].rid.slot_num)
  /\ Works(t, Here(t), Onwards(t, INVALID_PAGE_ID), "unpin")
  /\ UNCHANGED rowVars

(* Scan::next_page; or the scan is destroyed. *)
ScanHere(t) ==
  /\ At(t, "scan")
  /\ \E p \in {Here(t).next_page_id, INVALID_PAGE_ID} :
       Works(t, Here(t), Onwards(t, p), "unpin")
  /\ UNCHANGED rowVars

(* The PinnedPage goes out of scope; the walk goes on to the next page, or *)
(* the call returns.                                                       *)
Unpin(t) ==
  LET f == call[t].frame IN
  /\ pc[t] = "unpin"
  /\ frames' = Unpinned(f, call[t].dirty)
  /\ unsaved' = StillUnsaved(f, call[t].dirty)
  /\ IF call[t].page_id = INVALID_PAGE_ID THEN Return(t)
     ELSE /\ call' = [call EXCEPT ![t].dirty = FALSE]
          /\ Goto(t, "fetch")
  /\ UNCHANGED <<allocVars, disk, rows, lost, calls>>

-----------------------------------------------------------------------------
Client(t) ==
  \/ \E tuple \in Tuple : Insert(t, tuple) \/ \E rid \in DOMAIN rows : Update(t, rid, tuple)
  \/ \E rid \in DOMAIN rows, op \in {"get", "delete", "roll back"} : OnRow(t, rid, op)
  \/ Scan(t)

Proceed(t) ==
  \/ Fetch(t) \/ InsertHere(t) \/ InsertFurther(t) \/ InsertAtEnd(t)
  \/ Extend(t) \/ Filled(t) \/ Link(t) \/ Drop(t)
  \/ UpdateHere(t) \/ DeleteHere(t) \/ RestoreHere(t) \/ LookHere(t) \/ ScanHere(t)
  \/ Unpin(t)

Finished == calls = MaxCalls /\ (\A t \in Thread : pc[t] = "idle") /\ UNCHANGED vars

Next == (\E t \in Thread : Client(t) \/ Proceed(t)) \/ Finished

Spec == Init /\ [][Next]_vars

-----------------------------------------------------------------------------
next_page(p) == Current(p).next_page_id

(* The pages that links lead to from page p, and those of the heap. *)
From(p) ==
  LET reach[n \in Nat] ==
        LET near == reach[n - 1]
        IN  IF n = 0 THEN {p} ELSE near \cup ({next_page(q) : q \in near} \cap Page)
  IN  reach[kMAX_CAPACITY]
InChain == From(first_page_id)

(* Threads in a new page's creation, and the pages they create. *)
InCreation == {frames[call[t].fresh].page_id :
                 t \in {u \in Thread : pc[u] \in {"filled", "link", "drop"}}}

(* The links make one line, whatever two inserts do at its end: no page    *)
(* has two predecessors or leads back.  And an insert or a scan goes on to *)
(* a page further down that line, also when it gives its new page up for   *)
(* another one's: no walk comes back to a page or goes on for ever.        *)
OneLine ==
  \A p \in InChain :
    /\ next_page(p) \in PageOrNot \ {first_page_id}
    /\ \A q \in InChain \ {p} : next_page(p) = next_page(q) => next_page(p) = INVALID_PAGE_ID
Starts(t) == call[t].dirty /\ call[t].page_id = first_page_id  \* update_tuple, at last
WalksGoForward ==
  \A t \in Thread :
    pc[t] = "unpin" /\ call[t].op \in {"insert", "scan"}
      /\ call[t].page_id # INVALID_PAGE_ID /\ ~Starts(t)
    => call[t].page_id \in From(frames[call[t].frame].page_id) \ {frames[call[t].frame].page_id}
ChainIsSound == TypeOK /\ OneLine /\ WalksGoForward

(* Each page id is in exactly one place: in the chain, on the free list,   *)
(* being created, or lost because there was no frame or no room for it.    *)
(* So the page of an insert that comes second is given back, once.         *)
EveryPageHasAPlace ==
  /\ InChain \cup ToSet(free_list) \cup InCreation \cup lost = 1 .. capacity - 1
  /\ Cardinality(InChain) + Len(free_list) + Cardinality(InCreation) + Cardinality(lost)
       = capacity - 1

(* The pages of the heap show the rows its callers have put there, each at *)
(* the RID insert_tuple or update_tuple has returned, and no others:       *)
(* through evictions, compactions and concurrent calls.  Rows that a       *)
(* restore_tuple has left in a clean frame are excepted.                   *)
RowsAreKept ==
  /\ \A rid \in DOMAIN rows : rid.page_id \in InChain
  /\ \A p \in InChain : \A s \in SlotNums(Current(p)) :
       Rid(p, s) \in unsaved
       \/ get_tuple(Current(p), s) =
            IF Rid(p, s) \in DOMAIN rows
            THEN [i \in 1 .. rows[Rid(p, s)].size |-> rows[Rid(p, s)].value]
            ELSE <<>>
  /\ \A rid \in DOMAIN rows \ unsaved : rid.slot_num \in SlotNums(Current(rid.page_id))

(* A frame has as many pins as calls that are at work on it. *)
PinsAreHeld ==
  \A f \in Frame :
    frames[f].pin_count =
      Cardinality({t \in Thread : call[t].frame = f /\ pc[t] \notin {"idle", "fetch"}})
      + Cardinality({t \in Thread : call[t].fresh = f /\ pc[t] = "filled"})

(* A link, once set, stays: not even an eviction takes a page and what     *)
(* follows it out of the chain again.                                      *)
LinksStay ==
  [][\A p \in InChain : next_page(p) # INVALID_PAGE_ID => next_page(p)' = next_page(p)]_vars

=============================================================================
