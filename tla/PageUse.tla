------------------------------ MODULE PageUse ------------------------------
(***************************************************************************)
(* The calls on one SlottedPage, in any order its users make them: the     *)
(* heap calls insert, update, delete and restore, and compacts before it   *)
(* tries an insert again.  "contents" is what a user expects to find.      *)
(***************************************************************************)
EXTENDS SlottedPage, FiniteSets

CONSTANT SlotLimit           \* bound of this model on slot_count

ASSUME UseAssumption == SlotLimit \in Nat

VARIABLES page,              \* the page
          contents           \* the tuple each slot should hold

pageVars == <<page, contents>>

PageTypeOK ==
  /\ page \in [next_page_id : {INVALID_PAGE_ID},
               free_space_offset : PageHeaderBytes .. kPAGE_SIZE,
               slots : Seq(Slot),
               data : [0 .. kPAGE_SIZE - 1 -> Value \cup {Blank}]]
  /\ contents \in [0 .. SlotLimit - 1 -> Tuple \cup {NoTuple}]

PageInit ==
  /\ page = init
  /\ contents = [s \in 0 .. SlotLimit - 1 |-> NoTuple]

InsertTuple(tuple, prefered_slot) ==
  /\ SlotFor(page, prefered_slot) < SlotLimit
  /\ CanInsert(page, tuple, prefered_slot)
  /\ page' = insert_tuple(page, tuple, prefered_slot)
  /\ contents' = [contents EXCEPT ![SlotFor(page, prefered_slot)] = tuple]

(* TableHeap::insert_tuple on a page without room: compact, then again. *)
InsertAgain(tuple) ==
  /\ ~CanInsert(page, tuple, NoSlot) /\ ~is_compacted(page)
  /\ LET packed == compact(page)
         s == SlotFor(packed, NoSlot)
     IN  IF CanInsert(packed, tuple, NoSlot)
         THEN /\ s < SlotLimit
              /\ page' = insert_tuple(packed, tuple, NoSlot)
              /\ contents' = [contents EXCEPT ![s] = tuple]
         ELSE page' = packed /\ UNCHANGED contents

UpdateInPlace(s, tuple) ==
  /\ CanUpdateInPlace(page, s, tuple)
  /\ page' = try_update_in_place(page, s, tuple)
  /\ contents' = [contents EXCEPT ![s] = tuple]

DeleteTuple(s) ==
  /\ has_slot(page, s)
  /\ page' = delete_tuple(page, s)
  /\ contents' = [contents EXCEPT ![s] = NoTuple]

CompactPage ==
  /\ page' = compact(page)
  /\ UNCHANGED contents

(* The assertions of restore_tuple hold. *)
RestoreTuple(s, tuple) ==
  /\ SlotIsEmpty(page, s) /\ RestoreFits(page, tuple)
  /\ page' = restore_tuple(page, s, tuple)
  /\ contents' = [contents EXCEPT ![s] = tuple]

PageNext ==
  \/ \E tuple \in Tuple :
       \/ InsertAgain(tuple)
       \/ \E s \in SlotNums(page) \cup {NoSlot} : InsertTuple(tuple, s)
       \/ \E s \in SlotNums(page) : UpdateInPlace(s, tuple) \/ RestoreTuple(s, tuple)
  \/ \E s \in SlotNums(page) : DeleteTuple(s)
  \/ CompactPage

PageSpec == PageInit /\ [][PageNext]_pageVars

-----------------------------------------------------------------------------
SlotBytesOf(s) == Bytes(slot(page, s).offset, slot(page, s).length)

(* Typed, and nothing overlaps: slots end before the free space, the       *)
(* tuples lie between the free space and the end of the page, and no two   *)
(* share a byte - whatever was inserted, shrunk, deleted, restored and     *)
(* compacted before.                                                       *)
TuplesApart ==
  /\ PageTypeOK
  /\ free_space_bytes(page) >= 0
  /\ \A s \in Occupied(page) :
       /\ slot(page, s).offset >= page.free_space_offset
       /\ slot(page, s).offset + slot(page, s).length <= kPAGE_SIZE
       /\ \A r \in Occupied(page) \ {s} : SlotBytesOf(s) \cap SlotBytesOf(r) = {}

(* A slot shows exactly the tuple last put there, or nothing: no call on   *)
(* one slot, and no compaction, changes what another shows.                *)
SlotsAreKept ==
  \A s \in 0 .. SlotLimit - 1 :
    get_tuple(page, s) = IF contents[s] = NoTuple THEN <<>>
                         ELSE [i \in 1 .. contents[s].size |-> contents[s].value]

(* After compact no byte between the free space and the end of the page    *)
(* is wasted.                                                              *)
CompactReclaims == [][CompactPage => Wasted(page') = {}]_pageVars

=============================================================================
