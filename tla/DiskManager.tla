---------------------------- MODULE DiskManager ----------------------------
(***************************************************************************)
(* duck::DiskManager: which page ids are handed out, the free list, and    *)
(* what of it is in the file when the process ends, in its destructor or   *)
(* by a crash.                                                             *)
(*                                                                         *)
(* The owners of pages (the buffer pool and the table heaps above it) are  *)
(* the environment: they deallocate only pages they own, and the buffer    *)
(* pool, destroyed first, has written the pages they keep before the       *)
(* DiskManager is destroyed.                                               *)
(***************************************************************************)
EXTENDS PageAllocator, FiniteSets

CONSTANTS Thread,           \* client threads
          kMETADATA_BYTES,  \* bytes of the metadata page (kPAGE_SIZE)
          kMAX_CAPACITY,    \* bound of this model on capacity_
          MaxCrashes        \* bound on crashes

ASSUME BoundsAssumption ==
  /\ kMAX_CAPACITY \in Nat \ {0}
  /\ MaxCrashes \in Nat

(* The header is four 64-bit fields, a list entry is a 32-bit PageID. *)
DiskHeaderBytes == 32
PageIdBytes     == 4

(* The longest list deallocate_page allows fits into the metadata page. *)
ASSUME MetadataAssumption ==
  /\ kMETADATA_BYTES \in Nat
  /\ DiskHeaderBytes + PageIdBytes * (kFREE_LIST_LIMIT + 1) <= kMETADATA_BYTES

VARIABLES disk_header,      \* header and list as they are in the file
          file_pages,       \* whole pages in the file
          status,           \* the DiskManager exists
          growing,          \* threads that have found the free list empty
          owned,            \* pages handed out and not deallocated since
          written,          \* owned pages written since they were handed out
          crashes           \* crashes so far

vars == <<capacity, free_list, disk_header, file_pages, status, growing,
          owned, written, crashes>>

DiskHeader == [capacity : Nat, free_list : Seq(PageID)]

TypeOK ==
  /\ capacity \in Nat
  /\ free_list \in Seq(PageID)
  /\ disk_header \in DiskHeader
  /\ file_pages \in Nat
  /\ status \in {"open", "closed"}
  /\ growing \in SUBSET Thread
  /\ owned \in SUBSET PageID
  /\ written \in SUBSET PageID
  /\ crashes \in Nat

-----------------------------------------------------------------------------
(* A file of less than a page counts as new, whatever header it holds:     *)
(* page 0 is allocated and the header written.                             *)
Init ==
  /\ capacity = 1
  /\ free_list = <<>>
  /\ disk_header = [capacity |-> 1, free_list |-> <<>>]
  /\ file_pages = 0
  /\ status = "open"
  /\ growing = {}
  /\ owned = {}
  /\ written = {}
  /\ crashes = 0

HandOut(p) ==
  /\ owned' = owned \cup {p}
  /\ written' = written \ {p}

AllocateReuse(t) ==
  /\ status = "open"
  /\ t \notin growing
  /\ \E p \in ToSet(free_list) : reuse(p) /\ HandOut(p)
  /\ UNCHANGED <<disk_header, file_pages, status, growing, crashes>>

(* The list was empty; its mutex is released before capacity_ is raised,   *)
(* so a page deallocated in between is not reused by this call.            *)
AllocateFindsNone(t) ==
  /\ status = "open"
  /\ t \notin growing
  /\ free_list = <<>>
  /\ capacity + Cardinality(growing) < kMAX_CAPACITY
  /\ growing' = growing \cup {t}
  /\ UNCHANGED <<capacity, free_list, disk_header, file_pages, status,
                 owned, written, crashes>>

AllocateGrow(t) ==
  /\ status = "open"
  /\ t \in growing
  /\ grow(capacity) /\ HandOut(capacity)
  /\ growing' = growing \ {t}
  /\ UNCHANGED <<disk_header, file_pages, status, crashes>>

(* Page 0 is refused with an exception; owners never ask for it. *)
DeallocatePage(t) ==
  /\ status = "open"
  /\ t \notin growing
  /\ \E p \in owned \ {kDISK_METADATA_PAGE_ID} :
       /\ deallocate(p)
       /\ owned' = owned \ {p}
       /\ written' = written \ {p}
  /\ UNCHANGED <<disk_header, file_pages, status, growing, crashes>>

(* A write beyond capacity_ is refused with an exception. *)
WritePage(t) ==
  /\ status = "open"
  /\ t \notin growing
  /\ \E p \in owned :
       /\ p < capacity
       /\ written' = written \cup {p}
       /\ file_pages' = IF p < file_pages THEN file_pages ELSE p + 1
  /\ UNCHANGED <<capacity, free_list, disk_header, status, growing, owned, crashes>>

(* Mutant of flush_all: the capacity is written, the list is not. *)
flush_all_NoList ==
  disk_header' = [disk_header EXCEPT !.capacity = capacity]

flush_all == disk_header' = [capacity |-> capacity, free_list |-> free_list]

(* The destructor, after the buffer pool's. *)
Close ==
  /\ status = "open"
  /\ growing = {}
  /\ owned \subseteq written
  /\ flush_all
  /\ status' = "closed"
  /\ UNCHANGED <<capacity, free_list, file_pages, growing, owned, written, crashes>>

(* The process dies: what has been written is in the file, the header is   *)
(* as old as the last orderly end.  Pages never written have no owner left *)
(* who could know of them.                                                 *)
Crash ==
  /\ status = "open"
  /\ crashes < MaxCrashes
  /\ status' = "closed"
  /\ growing' = {}
  /\ owned' = written
  /\ crashes' = crashes + 1
  /\ UNCHANGED <<capacity, free_list, disk_header, file_pages, written>>

init_header ==
  /\ capacity' = disk_header.capacity
  /\ free_list' = disk_header.free_list

(* The constructor: a new file (see Init) or init_header. *)
Open ==
  /\ status = "closed"
  /\ status' = "open"
  /\ IF file_pages < 1
     THEN /\ capacity' = 1
          /\ free_list' = <<>>
          /\ disk_header' = [capacity |-> 1, free_list |-> <<>>]
     ELSE init_header /\ UNCHANGED disk_header
  /\ UNCHANGED <<file_pages, growing, owned, written, crashes>>

Next == \/ \E t \in Thread : \/ AllocateReuse(t) \/ AllocateFindsNone(t)
                             \/ AllocateGrow(t) \/ DeallocatePage(t) \/ WritePage(t)
        \/ Close \/ Crash \/ Open

Spec == Init /\ [][Next]_vars
-----------------------------------------------------------------------------
(* No page has two owners: while the DiskManager runs, what allocate_page  *)
(* can return next - an entry of the list or capacity_ - is a page that is *)
(* not the metadata page, that nobody owns, and that is on the list once.  *)
(* After a crash it is not so: the list in the file is as old as the last  *)
(* orderly end.                                                            *)
FreePagesAreFree ==
  status = "open" /\ crashes = 0 =>
    /\ \A i, j \in 1 .. Len(free_list) : free_list[i] = free_list[j] => i = j
    /\ ToSet(free_list) \cap (owned \cup {kDISK_METADATA_PAGE_ID}) = {}
    /\ \A p \in ToSet(free_list) \cup owned : p < capacity
    /\ kDISK_METADATA_PAGE_ID \notin owned
    /\ capacity > 0

ListFits(list) ==
  DiskHeaderBytes + PageIdBytes * Len(list) <= kMETADATA_BYTES

(* The list that flush_all writes behind the header ends before page 1,    *)
(* where the catalog starts, and the list that init_header takes from the  *)
(* file lies in the one page it has read - crashes included.               *)
FreeListFitsPage == ListFits(free_list) /\ ListFits(disk_header.free_list)

(* Pages that nobody owns and allocate_page will never return. *)
Lost == (1 .. capacity - 1) \ (owned \cup ToSet(free_list))

(* A page id is lost only in a crash or when the list is over its limit:   *)
(* neither two calls of allocate_page side by side nor an orderly restart  *)
(* lose one.                                                               *)
LostOnlyAtTheLimit ==
  [][crashes' = 0 => Lost' \subseteq Lost \/ Len(free_list) > kFREE_LIST_LIMIT]_vars

=============================================================================
