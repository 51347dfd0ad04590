----------------------------- MODULE BufferPool -----------------------------
(***************************************************************************)
(* duck::BufferPoolManager with its BufferReplacer, Page and PinnedPage,   *)
(* over the allocator of the DiskManager.                                  *)
(*                                                                         *)
(* Each thread makes one call at a time.  latch_ is taken in one step and  *)
(* what is done under it in the next; a page latch matters as a variable   *)
(* only where it outlives the step: swap_page reads from disk under the    *)
(* page latch after it has released latch_ ("loading").  Page contents are *)
(* abstracted to one bit, whether a copy of the page (a frame, or the one  *)
(* in the file) is the latest.                                             *)
(***************************************************************************)
EXTENDS PageAllocator, FiniteSets

CONSTANTS Thread,         \* client threads
          NoThread,       \* nobody holds a latch
          kPOOL_CAPACITY, \* pool_capacity_: number of frames
          kMAX_CAPACITY,  \* bound of this model: page ids are below it
          kPIN_MODULUS,   \* pin_count_ is unsigned: 2^32
          kMAX_PINS,      \* bound of this model on a thread's PinnedPages
          Exclusive,      \* clients never fetch or delete a page between
                          \* the miss and the installation of another fetch
          Faults          \* the disk may fail to read or write a page

ASSUME PoolAssumption ==
  /\ kPOOL_CAPACITY \in Nat /\ kMAX_PINS \in Nat
  /\ kMAX_CAPACITY \in Nat \ {0} /\ kPIN_MODULUS \in Nat \ {0, 1}
  /\ Exclusive \in BOOLEAN /\ Faults \in BOOLEAN
  /\ NoThread \notin Thread

VARIABLES frames,           \* frames_[f]: page_id_, pin_count_, is_dirty_
          page_table,       \* page_table_: the frame of a page
          free_frames,      \* free_frames_list_, used as a stack
          pool_size,        \* pool_size_
          mru_pages,        \* BufferReplacer::mru_pages_, oldest first
          latch,            \* latch_: a writer, or readers
          loading,          \* the thread that reads a frame under its latch
          pc,               \* where the call of a thread is
          call,             \* its arguments
          pins,             \* the PinnedPages of a thread
          live,             \* pages that clients have filled and may ask for
          latest_frames,    \* frames with the latest content of their page
          latest_disk       \* pages whose latest content is in the file

poolVars  == <<frames, page_table, free_frames, pool_size, mru_pages>>
allocVars == <<capacity, free_list>>
dataVars  == <<live, latest_frames, latest_disk>>
vars == <<poolVars, allocVars, dataVars, latch, loading, pc, call, pins>>

Page     == 1 .. kMAX_CAPACITY - 1
Frame    == 0 .. kPOOL_CAPACITY - 1
NoPage   == kMAX_CAPACITY    \* INVALID_PAGE_ID
NoFrame  == kPOOL_CAPACITY   \* INVALID_FRAME_ID

PinnedPage == [frame : Frame, page : Page, wrote : BOOLEAN, fresh : BOOLEAN]
Call       == [page : Page \cup {NoPage}, pin : 0 .. kMAX_PINS, read : BOOLEAN]
NoCall     == [page |-> NoPage, pin |-> 0, read |-> FALSE]

PC == {"idle", "hit", "miss", "swap", "read", "delete", "unpin", "closed"}

TypeOK ==
  /\ frames \in [Frame -> [page_id : Page \cup {NoPage},
                           pin_count : 0 .. kPIN_MODULUS - 1,
                           is_dirty : BOOLEAN]]
  /\ page_table \in [Page -> Frame \cup {NoFrame}]
  /\ free_frames \in Seq(Frame)
  /\ pool_size \in 0 .. kPOOL_CAPACITY
  /\ mru_pages \in Seq(Page)
  /\ latch \in [writer : Thread \cup {NoThread}, readers : SUBSET Thread]
  /\ loading \in [Frame -> Thread \cup {NoThread}]
  /\ pc \in [Thread -> PC]
  /\ call \in [Thread -> Call]
  /\ pins \in [Thread -> Seq(PinnedPage)]
  /\ \A t \in Thread : Len(pins[t]) <= kMAX_PINS
  /\ live \in SUBSET Page
  /\ latest_frames \in SUBSET Frame
  /\ latest_disk \in SUBSET Page
  /\ capacity \in 1 .. kMAX_CAPACITY
  /\ free_list \in Seq(Page)

-----------------------------------------------------------------------------
Cached(p) == p \in Page /\ page_table[p] # NoFrame

FreshFrame(p, n) == [page_id |-> p, pin_count |-> n, is_dirty |-> FALSE]

(* Mutant of Inc: no pin. *)
Inc_NoPin(n)  == n

Inc(n) == (n + 1) % kPIN_MODULUS
Dec(n) == (n + kPIN_MODULUS - 1) % kPIN_MODULUS

(* Mutant of set_dirty: the last PinnedPage decides. *)
set_dirty_Overwrites(was, dirty) == dirty

set_dirty(was, dirty) == was \/ dirty

(* Mutant of Removed: the replacer keeps the page. *)
Removed_Never(mru, p) == mru

(* BufferReplacer::remove, of the entry that positions_ points to, and     *)
(* record.                                                                 *)
Removed(mru, p) == IF p \in ToSet(mru)
                   THEN RemoveAt(mru, CHOOSE i \in DOMAIN mru : mru[i] = p)
                   ELSE mru
Recorded(mru, p) == Append(Removed(mru, p), p)

(* BufferReplacer::find_lru: the page used longest ago among the cached    *)
(* ones that nobody has pinned, or nothing.                                *)
Evictable(p) == Cached(p) /\ frames[page_table[p]].pin_count = 0

find_lru == {mru_pages[i] : i \in
               {i \in DOMAIN mru_pages : /\ Evictable(mru_pages[i])
                                        /\ \A j \in 1 .. i - 1 : ~Evictable(mru_pages[j])}}

(* find_next_frame: a freed frame, a frame never used, or the victim's,    *)
(* or nothing.                                                             *)
find_next_frame ==
  IF free_frames # <<>> THEN {Last(free_frames)}
  ELSE IF pool_size < kPOOL_CAPACITY THEN {pool_size}
  ELSE {page_table[p] : p \in find_lru}

-----------------------------------------------------------------------------
Init ==
  /\ frames = [f \in Frame |-> FreshFrame(NoPage, 0)]
  /\ page_table = [p \in Page |-> NoFrame]
  /\ free_frames = <<>>
  /\ pool_size = 0
  /\ mru_pages = <<>>
  /\ latch = [writer |-> NoThread, readers |-> {}]
  /\ loading = [f \in Frame |-> NoThread]
  /\ pc = [t \in Thread |-> "idle"]
  /\ call = [t \in Thread |-> NoCall]
  /\ pins = [t \in Thread |-> <<>>]
  /\ live = {} /\ latest_frames = {} /\ latest_disk = {}
  /\ capacity = 1
  /\ free_list = <<>>

LatchFree     == latch.writer = NoThread /\ latch.readers = {}
TakeLatch(t)  == LatchFree /\ latch' = [latch EXCEPT !.writer = t]
DropLatch     == latch' = [latch EXCEPT !.writer = NoThread]

(* Mutant of PageLatchFree: nobody waits for a read from disk. *)
PageLatchFree_Always(f) == TRUE

PageLatchFree(f) == loading[f] = NoThread

(* The clients' discipline, if there is one: no call on a page that another *)
(* thread has missed and not yet installed.                                *)
Missing(p) == \E u \in Thread : pc[u] \in {"miss", "swap"} /\ call[u].page = p
Allowed(p) == Exclusive => ~Missing(p)

Return(t) == /\ pc' = [pc EXCEPT ![t] = "idle"]
             /\ call' = [call EXCEPT ![t] = NoCall]

(* A new PinnedPage around the frame that a call returns. *)
Pin(t, f, p, fresh) ==
  pins' = [pins EXCEPT ![t] =
             Append(@, [frame |-> f, page |-> p, wrote |-> FALSE, fresh |-> fresh])]

(* fetch_page, find_cached_page: a miss releases latch_ again. *)
Fetch(t, p) ==
  /\ pc[t] = "idle" /\ Len(pins[t]) < kMAX_PINS
  /\ p \in live /\ Allowed(p)
  /\ call' = [call EXCEPT ![t] = [page |-> p, pin |-> 0, read |-> TRUE]]
  /\ IF Cached(p)
     THEN TakeLatch(t) /\ pc' = [pc EXCEPT ![t] = "hit"]
     ELSE LatchFree /\ pc' = [pc EXCEPT ![t] = "miss"] /\ UNCHANGED latch
  /\ UNCHANGED <<poolVars, allocVars, dataVars, loading, pins>>

FetchHit(t) ==
  LET p == call[t].page
      f == page_table[p]
  IN
  /\ pc[t] = "hit" /\ PageLatchFree(f)
  /\ frames' = [frames EXCEPT ![f].pin_count = Inc(@)]
  /\ mru_pages' = Recorded(mru_pages, p)
  /\ Pin(t, f, p, FALSE)
  /\ DropLatch /\ Return(t)
  /\ UNCHANGED <<page_table, free_frames, pool_size, allocVars, dataVars, loading>>

(* new_page: the id is allocated before any latch is taken. *)
NewPage(t) ==
  /\ pc[t] = "idle" /\ Len(pins[t]) < kMAX_PINS
  /\ \E p \in Page :
       /\ allocate_page(p)
       /\ call' = [call EXCEPT ![t] = [page |-> p, pin |-> 0, read |-> FALSE]]
  /\ pc' = [pc EXCEPT ![t] = "miss"]
  /\ UNCHANGED <<poolVars, dataVars, latch, loading, pins>>

(* swap_page takes latch_.  It does not look the page up again: another    *)
(* thread may have cached it since the miss.                               *)
SwapBegin(t) ==
  /\ pc[t] = "miss"
  /\ TakeLatch(t)
  /\ pc' = [pc EXCEPT ![t] = "swap"]
  /\ UNCHANGED <<poolVars, allocVars, dataVars, loading, call, pins>>

(* Mutant of SwapFails: it tries again until there is a frame. *)
SwapFails_Retries(t) ==
  /\ pc[t] = "swap"
  /\ find_next_frame = {}
  /\ DropLatch
  /\ pc' = [pc EXCEPT ![t] = "miss"]
  /\ UNCHANGED <<poolVars, allocVars, dataVars, loading, call, pins>>

(* Every frame is pinned: the call returns nullptr.  The id that new_page  *)
(* has allocated is forgotten.                                             *)
SwapFails(t) ==
  /\ pc[t] = "swap"
  /\ find_next_frame = {}
  /\ DropLatch /\ Return(t)
  /\ UNCHANGED <<poolVars, allocVars, dataVars, loading, pins>>

(* flush_page: the frame's content, latest or not, replaces the file's. *)
flush_page(old, f) == IF f \in latest_frames THEN latest_disk \cup {old}
                                             ELSE latest_disk \ {old}

(* The frame changes hands under both latches.  Then latch_ is released,   *)
(* and a fetch goes on to read from disk under the page latch alone.       *)
SwapInstall(t) ==
  \E f \in find_next_frame :
    LET p   == call[t].page
        old == frames[f].page_id
    IN
    /\ pc[t] = "swap" /\ PageLatchFree(f)
    /\ free_frames' = IF free_frames # <<>> THEN Front(free_frames) ELSE free_frames
    /\ pool_size' = IF free_frames = <<>> /\ pool_size < kPOOL_CAPACITY
                    THEN pool_size + 1 ELSE pool_size
    /\ page_table' = [q \in Page |-> IF q = p THEN f
                                     ELSE IF q = old THEN NoFrame ELSE page_table[q]]
    /\ mru_pages' = Recorded(Removed(mru_pages, old), p)
    /\ latest_disk' = IF frames[f].is_dirty THEN flush_page(old, f) ELSE latest_disk
    /\ latest_frames' = latest_frames \ {f}
    /\ frames' = [frames EXCEPT ![f] = FreshFrame(p, 1)]
    /\ DropLatch
    /\ IF call[t].read
       THEN /\ loading' = [loading EXCEPT ![f] = t]
            /\ pc' = [pc EXCEPT ![t] = "read"]
            /\ UNCHANGED <<call, pins>>
       ELSE /\ Pin(t, f, p, TRUE)
            /\ Return(t)
            /\ UNCHANGED loading
    /\ UNCHANGED <<allocVars, live>>

(* write_page throws: the victim is in page_table_ no more, and its frame  *)
(* on no list.  The call ends with the exception and gives latch_ back.    *)
WriteFails(t) ==
  \E f \in find_next_frame :
    LET old == frames[f].page_id IN
    /\ Faults /\ pc[t] = "swap" /\ PageLatchFree(f) /\ frames[f].is_dirty
    /\ page_table' = [page_table EXCEPT ![old] = NoFrame]
    /\ mru_pages' = Removed(mru_pages, old)
    /\ DropLatch /\ Return(t)
    /\ UNCHANGED <<frames, free_frames, pool_size, allocVars, dataVars, loading, pins>>

SwapRead(t) ==
  \E f \in Frame :
    LET p == call[t].page IN
    /\ pc[t] = "read" /\ loading[f] = t
    /\ latest_frames' = IF p \in latest_disk THEN latest_frames \cup {f}
                                             ELSE latest_frames \ {f}
    /\ loading' = [loading EXCEPT ![f] = NoThread]
    /\ Pin(t, f, p, FALSE)
    /\ Return(t)
    /\ UNCHANGED <<poolVars, allocVars, live, latest_disk, latch>>

(* read_page throws: the page stays in page_table_, its frame pinned, and  *)
(* no PinnedPage will ever give the pin back.                              *)
ReadFails(t) ==
  \E f \in Frame :
    /\ Faults /\ pc[t] = "read" /\ loading[f] = t
    /\ loading' = [loading EXCEPT ![f] = NoThread]
    /\ Return(t)
    /\ UNCHANGED <<poolVars, allocVars, dataVars, latch, pins>>

(* A client changes a page it has pinned, under the page latch, and marks  *)
(* its PinnedPage dirty.  The first write after new_page fills the page    *)
(* and makes it known to others.                                           *)
Write(t, i) ==
  LET h == pins[t][i]
      p == frames[h.frame].page_id
  IN
  /\ pc[t] = "idle" /\ PageLatchFree(h.frame)
  /\ pins' = [pins EXCEPT ![t][i] = [@ EXCEPT !.wrote = TRUE, !.fresh = FALSE]]
  /\ live' = IF h.fresh THEN live \cup {h.page} ELSE live
  /\ latest_frames' =
       {g \in latest_frames : frames[g].page_id # p}
         \cup (IF h.fresh \/ h.frame \in latest_frames THEN {h.frame} ELSE {})
  /\ latest_disk' = latest_disk \ {p}
  /\ UNCHANGED <<poolVars, allocVars, latch, loading, pc, call>>

(* ~PinnedPage: the page id is read from the frame, then unpin_page takes  *)
(* latch_ shared.                                                          *)
Unpin(t, i) ==
  LET h == pins[t][i] IN
  /\ pc[t] = "idle" /\ ~h.fresh
  /\ latch.writer = NoThread
  /\ latch' = [latch EXCEPT !.readers = @ \cup {t}]
  /\ call' = [call EXCEPT ![t] = [page |-> frames[h.frame].page_id,
                                  pin |-> i, read |-> FALSE]]
  /\ pc' = [pc EXCEPT ![t] = "unpin"]
  /\ UNCHANGED <<poolVars, allocVars, dataVars, loading, pins>>

unpin_page(page, dirty) == [page EXCEPT !.pin_count = Dec(@),
                                        !.is_dirty = set_dirty(@, dirty)]

UnpinEnd(t) ==
  LET p == call[t].page
      f == page_table[p]
  IN
  /\ pc[t] = "unpin"
  /\ IF Cached(p)
     THEN /\ PageLatchFree(f)
          /\ frames' = [frames EXCEPT ![f] = unpin_page(@, pins[t][call[t].pin].wrote)]
     ELSE UNCHANGED frames
  /\ pins' = [pins EXCEPT ![t] = RemoveAt(@, call[t].pin)]
  /\ latch' = [latch EXCEPT !.readers = @ \ {t}]
  /\ Return(t)
  /\ UNCHANGED <<page_table, free_frames, pool_size, mru_pages, allocVars, dataVars, loading>>

(* Mutant of Freed: the frame is not given back. *)
Freed_Never(f) == free_frames

Freed(f) == Append(free_frames, f)

Delete(t, p) ==
  /\ pc[t] = "idle"
  /\ p \in live /\ Allowed(p)
  /\ TakeLatch(t)
  /\ call' = [call EXCEPT ![t] = [page |-> p, pin |-> 0, read |-> FALSE]]
  /\ pc' = [pc EXCEPT ![t] = "delete"]
  /\ UNCHANGED <<poolVars, allocVars, dataVars, loading, pins>>

(* A pinned page is left alone and the call returns false. *)
DeleteRefused(t) ==
  LET p == call[t].page
      f == page_table[p]
  IN
  /\ pc[t] = "delete"
  /\ Cached(p) /\ PageLatchFree(f) /\ frames[f].pin_count > 0
  /\ DropLatch /\ Return(t)
  /\ UNCHANGED <<poolVars, allocVars, dataVars, loading, pins>>

DeleteEnd(t) ==
  LET p == call[t].page
      f == page_table[p]
  IN
  /\ pc[t] = "delete"
  /\ IF Cached(p)
     THEN /\ PageLatchFree(f) /\ frames[f].pin_count = 0
          /\ page_table' = [page_table EXCEPT ![p] = NoFrame]
          /\ mru_pages' = Removed(mru_pages, p)
          /\ frames' = [frames EXCEPT ![f] = FreshFrame(NoPage, 0)]
          /\ free_frames' = Freed(f)
          /\ latest_frames' = latest_frames \ {f}
     ELSE UNCHANGED <<page_table, mru_pages, frames, free_frames, latest_frames>>
  /\ deallocate(p)
  /\ live' = live \ {p}
  /\ DropLatch /\ Return(t)
  /\ UNCHANGED <<pool_size, latest_disk, loading, pins>>

(* The destructor, when the clients are done: flush_all writes every dirty *)
(* frame.                                                                  *)
Close ==
  /\ \A t \in Thread : pc[t] = "idle" /\ pins[t] = <<>>
  /\ LET dirty == {f \in 0 .. pool_size - 1 : frames[f].is_dirty}
     IN  latest_disk' =
           (latest_disk \ {frames[f].page_id : f \in dirty \ latest_frames})
             \cup {frames[f].page_id : f \in dirty \cap latest_frames}
  /\ pc' = [t \in Thread |-> "closed"]
  /\ UNCHANGED <<poolVars, allocVars, live, latest_frames, latch, loading, call, pins>>

Closed == (\A t \in Thread : pc[t] = "closed") /\ UNCHANGED vars

-----------------------------------------------------------------------------
Client(t) == \/ NewPage(t)
             \/ \E p \in Page : Fetch(t, p) \/ Delete(t, p)
             \/ \E i \in DOMAIN pins[t] : Write(t, i) \/ Unpin(t, i)

Proceed(t) == \/ FetchHit(t) \/ SwapBegin(t) \/ SwapFails(t)
              \/ SwapInstall(t) \/ SwapRead(t) \/ WriteFails(t) \/ ReadFails(t)
              \/ UnpinEnd(t) \/ DeleteRefused(t) \/ DeleteEnd(t)

Next == (\E t \in Thread : Client(t) \/ Proceed(t)) \/ Close \/ Closed

Spec == Init /\ [][Next]_vars

(* A call that is under way takes its next step once latch_ and the page   *)
(* latch are free for it; clients may stop calling.  The latches are taken *)
(* by whoever waits for them, so a thread that keeps asking gets its turn. *)
FairSpec == Spec /\ \A t \in Thread : SF_vars(Proceed(t))

-----------------------------------------------------------------------------
(* The structures agree, however the calls overlap and whenever the disk   *)
(* fails: page_table_ sends a cached page to a frame in use that holds     *)
(* that page (so never two pages to one frame), the replacer lists exactly *)
(* the cached pages, once each, and the freed frames are empty and listed  *)
(* once.                                                                   *)
TableMatchesFrames ==
  /\ \A p \in Page : Cached(p) => /\ frames[page_table[p]].page_id = p
                                  /\ page_table[p] < pool_size
  /\ ToSet(mru_pages) = {p \in Page : Cached(p)}
  /\ IsInjective(mru_pages)
  /\ IsInjective(free_frames)
  /\ \A f \in ToSet(free_frames) : frames[f].page_id = NoPage /\ f < pool_size

(* The pins of every frame are counted: PinnedPages of all threads plus    *)
(* the fetch that is reading into it.                                      *)
PinsOn(f) == Cardinality({h \in Thread \X (1 .. kMAX_PINS) :
                /\ h[2] \in DOMAIN pins[h[1]]
                /\ pins[h[1]][h[2]].frame = f})
PinsAreCounted ==
  \A f \in Frame : frames[f].pin_count = PinsOn(f) + (IF loading[f] = NoThread THEN 0 ELSE 1)

(* A page stays in its frame, with its latest content, as long as anybody  *)
(* has it pinned: not evicted, not deleted, not loaded a second time, and  *)
(* never seen before its read from disk has finished.                      *)
PinnedIsCurrent ==
  \A t \in Thread : \A i \in DOMAIN pins[t] :
    LET h == pins[t][i] IN
    /\ frames[h.frame].page_id = h.page
    /\ page_table[h.page] = h.frame
    /\ ~h.fresh => h.frame \in latest_frames

(* No write is lost: the latest content of a page in use is in its frame   *)
(* or in the file, in the file if the frame could be dropped unwritten,    *)
(* and in the file for all pages once the pool is closed.                  *)
NoWriteIsLost ==
  \A p \in live :
    \/ p \in latest_disk
    \/ /\ Cached(p) /\ page_table[p] \in latest_frames
       /\ frames[page_table[p]].is_dirty \/ frames[page_table[p]].pin_count > 0
       /\ \A t \in Thread : pc[t] # "closed"

(* Every frame in use is on the list of freed frames or findable through   *)
(* page_table_: the pool never shrinks.                                    *)
NoFrameIsLost ==
  \A f \in 0 .. pool_size - 1 :
    f \in ToSet(free_frames) \/ \E p \in Page : page_table[p] = f

(* Page ids nobody can use or return. *)
LostPages == (1 .. capacity - 1) \ (live \cup ToSet(free_list)
               \cup {call[t].page : t \in Thread}
               \cup {h.page : h \in UNION {ToSet(pins[t]) : t \in Thread}})

(* A page id is lost only by a new_page that finds every frame pinned, or  *)
(* by a delete_page that finds the free list over its limit.               *)
LostOnlyWhenFull ==
  [][\/ LostPages' \subseteq LostPages
     \/ \A f \in Frame : frames[f].pin_count > 0
     \/ Len(free_list) > kFREE_LIST_LIMIT]_vars

(* No thread waits for ever inside the pool: latch_ and the page latches   *)
(* are never waited for in a circle.                                       *)
CallsReturn == \A t \in Thread : pc[t] \notin {"idle", "closed"} ~> pc[t] \in {"idle", "closed"}

-----------------------------------------------------------------------------
(* "A simple thread-safe Database Managment system" (README.md), and the   *)
(* test PinnedPageIsNotEvicted: a pinned page is in page_table_.           *)
PinnedPageIsNotEvicted ==
  \A t \in Thread : \A i \in DOMAIN pins[t] :
    frames[pins[t][i].frame].page_id = pins[t][i].page
=============================================================================
