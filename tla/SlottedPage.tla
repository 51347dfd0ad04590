---------------------------- MODULE SlottedPage ----------------------------
(***************************************************************************)
(* duck::SlottedPage as operators on a page: the header, the slot array    *)
(* and the bytes of the tuples.  A tuple is a value and a size; its bytes  *)
(* all are its value, which is enough to see whose bytes a slot shows.     *)
(* The page's users, one call at a time under the page latch, are in       *)
(* PageUse and TableHeap.                                                  *)
(***************************************************************************)
EXTENDS Integers, Sequences, SequencesExt

CONSTANTS kPAGE_SIZE,       \* bytes of a page
          Value,            \* contents of tuples
          Size,             \* sizes of serialized tuples
          Blank,            \* a zeroed byte
          NoTuple,          \* no tuple, where there could be one
          INVALID_PAGE_ID

PageHeaderBytes == 8    \* next_page_id, slot_count, free_space_offset
SlotBytes       == 4    \* offset, length
INVALID_SLOT_OFFSET == 0

(* A serialized tuple has at least its null bitmap; its size and the       *)
(* offsets of a page are uint16_t.                                         *)
ASSUME PageAssumption ==
  /\ kPAGE_SIZE \in Nat /\ kPAGE_SIZE > PageHeaderBytes /\ kPAGE_SIZE < 2^16
  /\ Size \subseteq Nat \ {0} /\ \A size \in Size : size < 2^16
  /\ Blank \notin Value

Tuple == [value : Value, size : Size]
ASSUME NoTupleAssumption == NoTuple \notin Tuple
Slot  == [offset : 0 .. kPAGE_SIZE, length : 0 .. kPAGE_SIZE]

(* slots[s + 1] is slots_[s]; slot_count is the length of the sequence. *)
slot_count(page) == Len(page.slots)
slot(page, s)    == page.slots[s + 1]
SlotNums(page)   == 0 .. slot_count(page) - 1
NoSlot           == -1

has_slot(page, s) ==
  /\ s \in SlotNums(page)
  /\ slot(page, s).offset # INVALID_SLOT_OFFSET
Occupied(page) == {s \in SlotNums(page) : has_slot(page, s)}

(* A fresh frame, zeroed by reset_memory, after init. *)
init == [next_page_id |-> INVALID_PAGE_ID,
         free_space_offset |-> kPAGE_SIZE,
         slots |-> <<>>,
         data |-> [b \in 0 .. kPAGE_SIZE - 1 |-> Blank]]

SlotsEnd(page) == PageHeaderBytes + SlotBytes * slot_count(page)
free_space_bytes(page) == page.free_space_offset - SlotsEnd(page)

(* The first empty slot, if there is one. *)
find_empty_slot(page) ==
  LET empty == SlotNums(page) \ Occupied(page)
  IN  IF empty = {} THEN NoSlot
      ELSE CHOOSE s \in empty : \A r \in empty : s <= r

-----------------------------------------------------------------------------
Bytes(offset, length) == offset .. offset + length - 1

(* std::copy of a tuple into the page. *)
Copied(data, offset, tuple) ==
  [b \in DOMAIN data |-> IF b \in Bytes(offset, tuple.size) THEN tuple.value ELSE data[b]]

(* The slot an insert takes: the preferred one if it is empty, else the    *)
(* first empty one, else a new one.                                        *)
SlotFor(page, prefered_slot) ==
  IF prefered_slot \in SlotNums(page) /\ ~has_slot(page, prefered_slot) THEN prefered_slot
  ELSE IF find_empty_slot(page) # NoSlot THEN find_empty_slot(page)
  ELSE slot_count(page)

(* Mutant of CanInsert: a new slot's own bytes are forgotten. *)
CanInsert_FreeSlot(page, tuple, prefered_slot) == tuple.size <= free_space_bytes(page)

(* insert_tuple succeeds; a new slot needs room besides the tuple's. *)
CanInsert(page, tuple, prefered_slot) ==
  IF SlotFor(page, prefered_slot) = slot_count(page)
  THEN tuple.size + SlotBytes <= free_space_bytes(page)
  ELSE tuple.size <= free_space_bytes(page)

(* The page after an insert_tuple that succeeds. *)
insert_tuple(page, tuple, prefered_slot) ==
  LET s      == SlotFor(page, prefered_slot)
      offset == page.free_space_offset - tuple.size
      new    == [offset |-> offset, length |-> tuple.size]
  IN  [page EXCEPT !.free_space_offset = offset,
                   !.slots = IF s = slot_count(page) THEN Append(@, new)
                             ELSE [@ EXCEPT ![s + 1] = new],
                   !.data = Copied(@, offset, tuple)]

(* The bytes get_tuple returns; none for a slot that is empty. *)
get_tuple(page, s) ==
  IF has_slot(page, s)
  THEN [i \in 1 .. slot(page, s).length |-> page.data[slot(page, s).offset + i - 1]]
  ELSE <<>>

CanUpdateInPlace(page, s, tuple) ==
  has_slot(page, s) /\ tuple.size <= slot(page, s).length

(* Mutant of try_update_in_place: the length stays. *)
try_update_in_place_OldLength(page, s, tuple) ==
  [page EXCEPT !.data = Copied(@, slot(page, s).offset, tuple)]

try_update_in_place(page, s, tuple) ==
  [page EXCEPT !.slots[s + 1].length = tuple.size,
               !.data = Copied(@, slot(page, s).offset, tuple)]

delete_tuple(page, s) == [page EXCEPT !.slots[s + 1].offset = INVALID_SLOT_OFFSET]

-----------------------------------------------------------------------------
(* is_compacted: in slot order, from the offset of slot 0 on, each tuple   *)
(* starts where the one before ends, and the last ends with the page.      *)
is_compacted(page) ==
  LET tuples == SelectSeq(page.slots, LAMBDA t : t.offset # INVALID_SLOT_OFFSET)
      next   == [i \in 0 .. Len(tuples) |->
                   IF i = 0 THEN page.slots[1].offset
                   ELSE tuples[i].offset + tuples[i].length]
  IN  \/ slot_count(page) = 0
      \/ /\ \A i \in 1 .. Len(tuples) : tuples[i].offset = next[i - 1]
         /\ next[Len(tuples)] = kPAGE_SIZE

(* Mutant of Packed: the space of a deleted tuple is kept. *)
Packed_Deleted(page) ==
  LET offset[s \in -1 .. slot_count(page) - 1] ==
        IF s = -1 THEN kPAGE_SIZE ELSE offset[s - 1] - slot(page, s).length
  IN  offset

(* Where compact puts the tuples: in slot order from the end of the page   *)
(* downwards.                                                              *)
Packed(page) ==
  LET offset[s \in -1 .. slot_count(page) - 1] ==
        IF s = -1 THEN kPAGE_SIZE
        ELSE offset[s - 1] - (IF has_slot(page, s) THEN slot(page, s).length ELSE 0)
  IN  offset

(* compact: slots, header and bytes are rewritten, the rest is zeroed. *)
compact(page) ==
  LET offset == Packed(page)
      kept == Occupied(page)
      Holders(b) == {s \in kept : b \in Bytes(offset[s], slot(page, s).length)}
      Moved(b, s) == page.data[slot(page, s).offset + b - offset[s]]
  IN  [page EXCEPT
         !.free_space_offset = offset[slot_count(page) - 1],
         !.slots = [i \in 1 .. slot_count(page) |->
                      IF has_slot(page, i - 1) THEN [@[i] EXCEPT !.offset = offset[i - 1]]
                      ELSE [offset |-> INVALID_SLOT_OFFSET, length |-> 0]],
         !.data = [b \in DOMAIN @ |-> IF Holders(b) = {} THEN Blank
                                      ELSE Moved(b, CHOOSE s \in Holders(b) : TRUE)]]

(* restore_tuple: its assertions, and the page after it. *)
NeedsCompact(page, tuple) == free_space_bytes(page) < tuple.size
Roomy(page, tuple) == IF NeedsCompact(page, tuple) THEN compact(page) ELSE page
SlotIsEmpty(page, s) == s \in SlotNums(page) /\ ~has_slot(page, s)
RestoreFits(page, tuple) == tuple.size <= free_space_bytes(Roomy(page, tuple))
restore_tuple(page, s, tuple) == insert_tuple(Roomy(page, tuple), tuple, s)

-----------------------------------------------------------------------------
(* The bytes behind the free space that no tuple has. *)
Wasted(p) == {b \in p.free_space_offset .. kPAGE_SIZE - 1 :
                \A s \in Occupied(p) : b \notin Bytes(slot(p, s).offset, slot(p, s).length)}
=============================================================================
