--------------------------- MODULE PageAllocator ---------------------------
(***************************************************************************)
(* The in-memory allocator of duck::DiskManager: what allocate_page and    *)
(* deallocate_page do to capacity_ and free_list_.  DiskManager adds the   *)
(* file and its restarts, BufferPool the calls made under its latches.     *)
(***************************************************************************)
EXTENDS Naturals, Sequences, SequencesExt

CONSTANT kFREE_LIST_LIMIT   \* 1024: above it a page is not put on the list

ASSUME LimitAssumption == kFREE_LIST_LIMIT \in Nat

VARIABLES capacity,         \* capacity_
          free_list         \* free_list_, used as a stack

kDISK_METADATA_PAGE_ID == 0
PageID == Nat

(* Mutant of reuse: the entry stays on the list. *)
reuse_NoPop(p) ==
  /\ free_list # <<>>
  /\ p = Last(free_list)
  /\ UNCHANGED <<free_list, capacity>>

reuse(p) ==
  /\ free_list # <<>>
  /\ p = Last(free_list)
  /\ free_list' = Front(free_list)
  /\ UNCHANGED capacity

grow(p) ==
  /\ p = capacity
  /\ capacity' = capacity + 1
  /\ UNCHANGED free_list

(* Mutants of deallocate: the page is forgotten; no limit. *)
deallocate_Forgets(p) == UNCHANGED <<free_list, capacity>>

deallocate_NoLimit(p) ==
  /\ free_list' = Append(free_list, p)
  /\ UNCHANGED capacity

(* Above the limit the page is dropped: a warning, and no owner. *)
deallocate(p) ==
  /\ free_list' = IF Len(free_list) > kFREE_LIST_LIMIT THEN free_list
                  ELSE Append(free_list, p)
  /\ UNCHANGED capacity

(* allocate_page without another call in between. *)
allocate_page(p) == IF free_list # <<>> THEN reuse(p) ELSE grow(p)
=============================================================================
