----------------------------- MODULE TableHeap -----------------------------
(***************************************************************************)
(* duck::TableHeap as operators on a chain of pages, one call at a time:   *)
(* what insert, get, update, delete and restore return, and the chain      *)
(* after them.  pages[i] is the page that i - 1 links lead to; a RID names *)
(* the page by i.  Links, pins and the steps of overlapping calls are left *)
(* out; TxTable has the transactions.                                      *)
(***************************************************************************)
EXTENDS SlottedPage

(* insert_tuple refuses, with an exception, a tuple that an empty page     *)
(* could not hold.                                                         *)
ASSUME TupleAssumption ==
  \A size \in Size : size + PageHeaderBytes + SlotBytes <= kPAGE_SIZE

Rid(i, s) == [page_id |-> i, slot_num |-> s]

(* One page of insert_tuple's walk: an insert, and after it, unless the    *)
(* page calls itself compacted, a compaction and a second insert.          *)
Try(page, tuple) ==
  LET page2 == IF CanInsert(page, tuple, NoSlot) \/ is_compacted(page)
               THEN page ELSE compact(page)
      ok    == CanInsert(page2, tuple, NoSlot)
  IN  [ok   |-> ok,
       slot |-> SlotFor(page2, NoSlot),
       page |-> IF ok THEN insert_tuple(page2, tuple, NoSlot) ELSE page2]

(* The first page that takes the tuple, a new one at the end if none does. *)
heap_insert(pages, tuple) ==
  LET chain == Append(pages, init)
      fits  == {i \in DOMAIN chain : Try(chain[i], tuple).ok}
      k     == CHOOSE i \in fits : \A j \in fits : i <= j
  IN  [rid   |-> Rid(k, Try(chain[k], tuple).slot),
       pages |-> [i \in DOMAIN pages \cup {k} |->
                    IF i <= k THEN Try(chain[i], tuple).page ELSE pages[i]]]

heap_has(pages, rid) == rid.page_id \in DOMAIN pages /\ has_slot(pages[rid.page_id], rid.slot_num)

heap_get(pages, rid) ==
  IF rid.page_id \in DOMAIN pages THEN get_tuple(pages[rid.page_id], rid.slot_num) ELSE <<>>

heap_delete(pages, rid) ==
  [pages EXCEPT ![rid.page_id] = delete_tuple(@, rid.slot_num)]

(* update_tuple of a row that exists: in place, or deleted and inserted    *)
(* again, in its old slot if the page has room, else anywhere.             *)
heap_update(pages, rid, tuple) ==
  LET page    == pages[rid.page_id]
      deleted == delete_tuple(page, rid.slot_num)
      roomy   == IF is_compacted(deleted) THEN deleted ELSE compact(deleted)
  IN  IF CanUpdateInPlace(page, rid.slot_num, tuple)
      THEN [rid   |-> rid,
            pages |-> [pages EXCEPT ![rid.page_id] =
                         try_update_in_place(page, rid.slot_num, tuple)]]
      ELSE IF CanInsert(roomy, tuple, rid.slot_num)
      THEN [rid   |-> rid,
            pages |-> [pages EXCEPT ![rid.page_id] =
                         insert_tuple(roomy, tuple, rid.slot_num)]]
      ELSE heap_insert([pages EXCEPT ![rid.page_id] = roomy], tuple)

(* Where TableHeap::Scan::next leaves current_rid_: after the first row at *)
(* or after it, on this page or, from slot 0, on the next ones; without    *)
(* one at the last page it has looked at.                                  *)
heap_next(pages, rid) ==
  LET From(i) == IF i = rid.page_id THEN rid.slot_num ELSE 0
      Rows(i) == {s \in Occupied(pages[i]) : s >= From(i)}
      later   == {i \in rid.page_id .. Len(pages) : Rows(i) # {}}
      i       == Min(later)
  IN  IF later = {} THEN Rid(Len(pages), From(Len(pages)))
      ELSE Rid(i, Min(Rows(i)) + 1)

CanRestore(pages, rid, tuple) ==
  /\ SlotIsEmpty(pages[rid.page_id], rid.slot_num)
  /\ RestoreFits(pages[rid.page_id], tuple)
heap_restore(pages, rid, tuple) ==
  [pages EXCEPT ![rid.page_id] = restore_tuple(@, rid.slot_num, tuple)]
=============================================================================
