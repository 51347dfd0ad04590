--------------------------- MODULE TxTable_proofs ---------------------------
(***************************************************************************)
(* Theorems about TxTable, for any number of transactions, pages, slots    *)
(* and calls, and tuples of any size.                                      *)
(***************************************************************************)
EXTENDS TxTable, SlottedPage_proofs, SequenceTheorems

(* Chains of pages.                                                        *)
AnyRid == [page_id : Nat, slot_num : Nat]
GoodHeap(c) == /\ c \in Seq(PageType) /\ Len(c) >= 1
               /\ \A i \in DOMAIN c : GoodPage(c[i])
Exists(c, rid) == rid.page_id \in DOMAIN c /\ rid.slot_num \in SlotNums(c[rid.page_id])

(* A call has changed one row, and no slot has gone.                       *)
OneChange(c, d, rid, u) ==
  /\ GoodHeap(d)
  /\ \A r \in AnyRid : Exists(c, r) => Exists(d, r)
  /\ rid \in AnyRid /\ Exists(d, rid)
  /\ RowIn(d, rid) = u
  /\ \A r \in AnyRid : r # rid => RowIn(d, r) = RowIn(c, r)

(* No page and no slot has come.                                           *)
SameSlots(c, d) == /\ DOMAIN d = DOMAIN c /\ Len(d) = Len(c)
                   /\ \A i \in DOMAIN c : slot_count(d[i]) = slot_count(c[i])

LEMMA RowInIs ==
  ASSUME NEW c, NEW rid
  PROVE  RowIn(c, rid) = IF rid.page_id \in DOMAIN c THEN RowOf(c[rid.page_id], rid.slot_num)
                         ELSE NoTuple
BY DEF RowIn, RowOf, heap_get

LEMMA HeapTypes ==
  ASSUME NEW c, GoodHeap(c)
  PROVE  /\ Len(c) \in Nat /\ DOMAIN c = 1 .. Len(c)
         /\ \A i \in DOMAIN c : /\ i \in Nat /\ c[i] \in PageType
                                /\ slot_count(c[i]) \in Nat /\ slot_count(c[i]) < kPAGE_SIZE
                                /\ SlotNums(c[i]) = 0 .. slot_count(c[i]) - 1
         /\ \A rid : RowIn(c, rid) \in Tuple \cup {NoTuple}
         /\ \A rid \in AnyRid : heap_has(c, rid) <=> RowIn(c, rid) # NoTuple
         /\ \A rid \in AnyRid : RowIn(c, rid) # NoTuple => Exists(c, rid)
<1>1. /\ c \in Seq(PageType) /\ \A i \in DOMAIN c : GoodPage(c[i])
  BY DEF GoodHeap
<1>2. Len(c) \in Nat /\ DOMAIN c = 1 .. Len(c) /\ \A i \in DOMAIN c : c[i] \in PageType
  BY <1>1
<1>3. \A i \in DOMAIN c : /\ slot_count(c[i]) \in Nat /\ slot_count(c[i]) < kPAGE_SIZE
                          /\ \A s : /\ RowOf(c[i], s) # NoTuple <=> has_slot(c[i], s)
                                    /\ RowOf(c[i], s) \in Tuple \cup {NoTuple}
  BY <1>1, RowOfIs DEF GoodPage
<1>4. \A rid : RowIn(c, rid) \in Tuple \cup {NoTuple}
  BY <1>3, RowInIs
<1>5. \A rid \in AnyRid : heap_has(c, rid) <=> RowIn(c, rid) # NoTuple
  BY <1>3, RowInIs DEF heap_has
<1>6. \A rid \in AnyRid : RowIn(c, rid) # NoTuple => Exists(c, rid)
  BY <1>5 DEF heap_has, has_slot, Exists
<1>7. \A i \in DOMAIN c : SlotNums(c[i]) = 0 .. slot_count(c[i]) - 1
  BY DEF SlotNums
<1> QED
  BY <1>2, <1>3, <1>4, <1>5, <1>6, <1>7

LEMMA ChangePage ==
  ASSUME NEW c, GoodHeap(c), NEW i \in DOMAIN c, NEW q, GoodPage(q), NEW k \in Nat, NEW u,
         k \in SlotNums(q), slot_count(c[i]) <= slot_count(q),
         RowOf(q, k) = u, \A s : s # k => RowOf(q, s) = RowOf(c[i], s)
  PROVE  OneChange(c, [c EXCEPT ![i] = q], Rid(i, k), u)
<1> DEFINE d == [c EXCEPT ![i] = q]
<1>1. /\ Len(c) \in Nat /\ DOMAIN c = 1 .. Len(c)
      /\ \A j \in DOMAIN c : /\ j \in Nat /\ c[j] \in PageType
                             /\ slot_count(c[j]) \in Nat
      /\ c \in Seq(PageType) /\ Len(c) >= 1 /\ \A j \in DOMAIN c : GoodPage(c[j])
  BY HeapTypes DEF GoodHeap
<1>2. q \in PageType /\ slot_count(q) \in Nat
  BY RowOfIs DEF GoodPage, Sound
<1>3. /\ d \in Seq(PageType) /\ Len(d) = Len(c) /\ DOMAIN d = DOMAIN c
      /\ d[i] = q /\ \A j \in DOMAIN c : j # i => d[j] = c[j]
  BY <1>1, <1>2, ExceptSeq
<1> HIDE DEF d
<1>4. GoodHeap(d)
  BY <1>1, <1>3 DEF GoodHeap
<1>5. \A r \in AnyRid : Exists(c, r) => Exists(d, r)
  <2> SUFFICES ASSUME NEW r \in AnyRid, Exists(c, r) PROVE Exists(d, r)
    OBVIOUS
  <2>1. CASE r.page_id = i
    BY <1>1, <1>2, <1>3, <2>1 DEF Exists, SlotNums
  <2>2. CASE r.page_id # i
    BY <1>3, <2>2 DEF Exists
  <2> QED
    BY <2>1, <2>2
<1>6. /\ Rid(i, k) \in AnyRid /\ Rid(i, k).page_id = i /\ Rid(i, k).slot_num = k
      /\ Exists(d, Rid(i, k))
  BY <1>1, <1>3 DEF Rid, AnyRid, Exists
<1>7. RowIn(d, Rid(i, k)) = u
  BY <1>3, <1>6, RowInIs
<1>8. ASSUME NEW r \in AnyRid, r # Rid(i, k) PROVE RowIn(d, r) = RowIn(c, r)
  <2>1. r.page_id # i \/ r.slot_num # k
    BY <1>8 DEF Rid, AnyRid
  <2>2. CASE r.page_id # i
    BY <1>3, <2>2, RowInIs
  <2>3. CASE r.page_id = i /\ r.slot_num # k
    BY <1>3, <2>3, RowInIs
  <2> QED
    BY <2>1, <2>2, <2>3
<1> QED
  BY <1>4, <1>5, <1>6, <1>7, <1>8 DEF OneChange, d

LEMMA RidIs ==
  ASSUME NEW rid \in AnyRid
  PROVE  rid = Rid(rid.page_id, rid.slot_num) /\ rid.page_id \in Nat /\ rid.slot_num \in Nat
BY DEF AnyRid, Rid

LEMMA SameSlotsExcept ==
  ASSUME NEW c, GoodHeap(c), NEW i \in DOMAIN c, NEW q, slot_count(q) = slot_count(c[i])
  PROVE  SameSlots(c, [c EXCEPT ![i] = q])
<1> DEFINE d == [c EXCEPT ![i] = q]
<1>1. c \in Seq(PageType) /\ DOMAIN c = 1 .. Len(c)
  BY HeapTypes DEF GoodHeap
<1>2. Len(d) = Len(c) /\ DOMAIN d = DOMAIN c /\ d[i] = q /\ \A j \in DOMAIN c : j # i => d[j] = c[j]
  BY <1>1, ExceptSeq
<1> HIDE DEF d
<1> QED
  BY <1>2 DEF SameSlots, d

(* delete_tuple of a row that exists.                                      *)
LEMMA HeapDelete ==
  ASSUME NEW c, GoodHeap(c), NEW rid \in AnyRid, RowIn(c, rid) # NoTuple
  PROVE  OneChange(c, heap_delete(c, rid), rid, NoTuple) /\ SameSlots(c, heap_delete(c, rid))
<1> DEFINE i == rid.page_id
           k == rid.slot_num
           q == delete_tuple(c[i], k)
<1>1. i \in DOMAIN c /\ has_slot(c[i], k) /\ k \in Nat /\ rid = Rid(i, k)
  BY HeapTypes, RidIs DEF heap_has
<1>2. GoodPage(c[i]) /\ slot_count(c[i]) \in Nat
  BY <1>1, HeapTypes DEF GoodHeap
<1>3. /\ GoodPage(q) /\ slot_count(q) = slot_count(c[i])
      /\ RowOf(q, k) = NoTuple /\ \A s : s # k => RowOf(q, s) = RowOf(c[i], s)
  BY <1>1, <1>2, PageDelete
<1>4. k \in SlotNums(q) /\ slot_count(c[i]) <= slot_count(q)
  BY <1>1, <1>2, <1>3 DEF has_slot, SlotNums
<1>5. heap_delete(c, rid) = [c EXCEPT ![i] = q]
  BY <1>1, HeapTypes DEF heap_delete
<1> HIDE DEF q, i, k
<1>6. OneChange(c, [c EXCEPT ![i] = q], Rid(i, k), NoTuple)
  BY <1>1, <1>2, <1>3, <1>4, ChangePage
<1>7. SameSlots(c, [c EXCEPT ![i] = q])
  BY <1>1, <1>3, SameSlotsExcept
<1> QED
  BY <1>1, <1>5, <1>6, <1>7

(* restore_tuple whose assertions hold.                                    *)
LEMMA HeapRestore ==
  ASSUME NEW c, GoodHeap(c), NEW rid \in AnyRid, rid.page_id \in DOMAIN c, NEW u \in Tuple,
         CanRestore(c, rid, u)
  PROVE  OneChange(c, heap_restore(c, rid, u), rid, u) /\ SameSlots(c, heap_restore(c, rid, u))
<1> DEFINE i == rid.page_id
           k == rid.slot_num
           q == restore_tuple(c[i], k, u)
<1>1. /\ i \in DOMAIN c /\ k \in Nat /\ rid = Rid(i, k)
      /\ SlotIsEmpty(c[i], k) /\ RestoreFits(c[i], u)
  BY RidIs DEF CanRestore
<1>2. GoodPage(c[i]) /\ slot_count(c[i]) \in Nat
  BY <1>1, HeapTypes DEF GoodHeap
<1>3. /\ GoodPage(q) /\ slot_count(q) = slot_count(c[i])
      /\ RowOf(q, k) = u /\ \A s : s # k => RowOf(q, s) = RowOf(c[i], s)
  BY <1>1, <1>2, PageRestore
<1>4. k \in SlotNums(q)
  <2>1. slot_count(q) \in Nat
    BY <1>3, RowOfIs DEF GoodPage
  <2> QED
    BY <1>1, <1>2, <1>3, <2>1 DEF SlotIsEmpty, SlotNums
<1>5. heap_restore(c, rid, u) = [c EXCEPT ![i] = q]
  BY <1>1 DEF heap_restore
<1> HIDE DEF q, i, k
<1>6. OneChange(c, [c EXCEPT ![i] = q], Rid(i, k), u)
  BY <1>1, <1>2, <1>3, <1>4, ChangePage
<1>7. SameSlots(c, [c EXCEPT ![i] = q])
  BY <1>1, <1>3, SameSlotsExcept
<1> QED
  BY <1>1, <1>5, <1>6, <1>7

-----------------------------------------------------------------------------
LEMMA HeapInsert ==
  ASSUME NEW c, GoodHeap(c), NEW u \in Tuple
  PROVE  LET in == heap_insert(c, u)
         IN  OneChange(c, in.pages, in.rid, u) /\ RowIn(c, in.rid) = NoTuple
<1> DEFINE n     == Len(c)
           chain == Append(c, init)
           fits  == {i \in DOMAIN chain : Try(chain[i], u).ok}
           k     == CHOOSE i \in fits : \A j \in fits : i <= j
           s     == Try(chain[k], u).slot
           d     == [i \in DOMAIN c \cup {k} |-> IF i <= k THEN Try(chain[i], u).page ELSE c[i]]
<1>1. /\ n \in Nat /\ n >= 1 /\ DOMAIN c = 1 .. n
      /\ c \in Seq(PageType) /\ \A i \in 1 .. n : GoodPage(c[i])
  BY HeapTypes DEF GoodHeap
<1>2. init \in PageType
  BY InitGood DEF GoodPage, Sound
<1>3. /\ DOMAIN chain = 1 .. n + 1
      /\ chain[n + 1] = init /\ \A i \in 1 .. n : chain[i] = c[i]
  BY <1>1, <1>2, AppendProperties
<1> HIDE DEF chain
<1>4. \A i \in 1 .. n + 1 : GoodPage(chain[i])
  <2> SUFFICES ASSUME NEW i \in 1 .. n + 1 PROVE GoodPage(chain[i])
    OBVIOUS
  <2>1. i \in 1 .. n \/ i = n + 1
    BY <1>1
  <2> QED
    BY <1>1, <1>3, <2>1, InitGood
<1>5. n + 1 \in fits /\ fits \in SUBSET Nat
  BY <1>1, <1>3, EmptyFits
<1>6. k \in fits /\ \A j \in fits : k <= j
  <2> HIDE DEF fits
  <2>1. \E x \in fits : \A y \in fits : x <= y
    BY <1>5, Least
  <2> QED
    BY <2>1
<1> HIDE DEF k
<1>7. k \in 1 .. n + 1 /\ Try(chain[k], u).ok
  BY <1>3, <1>6
<1>8. \A j \in 1 .. n + 1 : j < k => ~Try(chain[j], u).ok
  BY <1>3, <1>6, <1>7
<1> HIDE DEF fits
<1>9. \A i \in 1 .. n + 1 :
        /\ GoodPage(Try(chain[i], u).page)
        /\ slot_count(chain[i]) <= slot_count(Try(chain[i], u).page)
        /\ ~Try(chain[i], u).ok => \A r : RowOf(Try(chain[i], u).page, r) = RowOf(chain[i], r)
  BY <1>4, TryIs
<1>10. /\ s \in Nat /\ RowOf(chain[k], s) = NoTuple
       /\ RowOf(Try(chain[k], u).page, s) = u /\ s \in SlotNums(Try(chain[k], u).page)
       /\ \A r : r # s => RowOf(Try(chain[k], u).page, r) = RowOf(chain[k], r)
  BY <1>4, <1>7, TryIs
<1> HIDE DEF s
<1>11. PICK m \in Nat : m >= n /\ m <= n + 1 /\ k <= m /\ 1 .. m = DOMAIN c \cup {k}
  <2>1. CASE k = n + 1
    <3>1. 1 .. n + 1 = DOMAIN c \cup {k}
      BY <1>1, <2>1
    <3> QED
      BY <1>1, <2>1, <3>1
  <2>2. CASE k # n + 1
    <3>1. 1 .. n = DOMAIN c \cup {k}
      BY <1>1, <1>7, <2>2
    <3> QED
      BY <1>1, <1>7, <2>2, <3>1
  <2> QED
    BY <2>1, <2>2
<1>12. /\ DOMAIN d = 1 .. m
       /\ \A i \in 1 .. m : d[i] = IF i <= k THEN Try(chain[i], u).page ELSE c[i]
  BY <1>11
<1> HIDE DEF d
<1>13. \A i \in 1 .. m : i \in 1 .. n + 1 /\ (i > k => i \in 1 .. n)
  BY <1>1, <1>7, <1>11
<1>14. \A i \in 1 .. m : GoodPage(d[i])
  <2> SUFFICES ASSUME NEW i \in 1 .. m PROVE GoodPage(d[i])
    OBVIOUS
  <2>1. CASE i <= k
    BY <1>9, <1>12, <1>13, <2>1
  <2>2. CASE ~(i <= k)
    <3>1. i \in 1 .. n
      BY <1>1, <1>7, <1>11, <1>13, <2>2
    <3> QED
      BY <1>1, <1>12, <2>2, <3>1
  <2> QED
    BY <2>1, <2>2
<1>15. \A i \in 1 .. n : i \in 1 .. m /\ slot_count(c[i]) <= slot_count(d[i])
  <2> SUFFICES ASSUME NEW i \in 1 .. n PROVE i \in 1 .. m /\ slot_count(c[i]) <= slot_count(d[i])
    OBVIOUS
  <2>1. i \in 1 .. m /\ i \in 1 .. n + 1
    BY <1>1, <1>11
  <2>2. CASE i <= k
    BY <1>3, <1>9, <1>12, <2>1, <2>2
  <2>3. CASE ~(i <= k)
    <3>1. slot_count(c[i]) \in Nat /\ d[i] = c[i]
      BY <1>1, <1>12, <2>1, <2>3, HeapTypes
    <3> QED
      BY <2>1, <3>1
  <2> QED
    BY <2>2, <2>3
<1>16. GoodHeap(d)
  <2>1. \A i \in 1 .. m : d[i] \in PageType
    BY <1>14 DEF GoodPage, Sound
  <2>2. d = [i \in 1 .. m |-> d[i]]
    BY <1>12 DEF d
  <2>3. d \in [1 .. m -> PageType]
    BY <2>1, <2>2
  <2>4. d \in Seq(PageType) /\ Len(d) = m
    BY <1>11, <1>12, <2>3, IsASeq, LenProperties
  <2>5. Len(d) >= 1
    BY <1>1, <1>11, <2>4
  <2> QED
    BY <1>12, <1>14, <2>4, <2>5 DEF GoodHeap
<1>17. \A r \in AnyRid : Exists(c, r) => Exists(d, r)
  <2> SUFFICES ASSUME NEW r \in AnyRid, Exists(c, r) PROVE Exists(d, r)
    OBVIOUS
  <2>1. r.page_id \in 1 .. n /\ r.slot_num \in 0 .. slot_count(c[r.page_id]) - 1
    BY <1>1 DEF Exists, SlotNums
  <2>2. r.page_id \in DOMAIN d /\ slot_count(c[r.page_id]) <= slot_count(d[r.page_id])
    BY <1>12, <1>15, <2>1
  <2>3. slot_count(c[r.page_id]) \in Nat /\ slot_count(d[r.page_id]) \in Nat
    BY <1>1, <1>16, <2>1, <2>2, HeapTypes
  <2> QED
    BY <2>1, <2>2, <2>3 DEF Exists, SlotNums
<1>18. k \in 1 .. m /\ d[k] = Try(chain[k], u).page
  BY <1>7, <1>11, <1>12
<1>19. Rid(k, s) \in AnyRid /\ Rid(k, s).page_id = k /\ Rid(k, s).slot_num = s
  BY <1>7, <1>10 DEF Rid, AnyRid
<1>20. Exists(d, Rid(k, s)) /\ RowIn(d, Rid(k, s)) = u
  BY <1>10, <1>12, <1>18, <1>19, RowInIs DEF Exists
<1>21. \A i \in 1 .. n + 1 : \A r : RowOf(chain[i], r) = IF i \in 1 .. n THEN RowOf(c[i], r) ELSE NoTuple
  <2> SUFFICES ASSUME NEW i \in 1 .. n + 1, NEW r
               PROVE  RowOf(chain[i], r) = IF i \in 1 .. n THEN RowOf(c[i], r) ELSE NoTuple
    OBVIOUS
  <2>1. i \in 1 .. n \/ (i = n + 1 /\ i \notin 1 .. n)
    BY <1>1
  <2> QED
    BY <1>3, <2>1, InitGood
<1>22. RowIn(c, Rid(k, s)) = NoTuple
  BY <1>1, <1>7, <1>10, <1>19, <1>21, RowInIs
<1>23. ASSUME NEW r \in AnyRid, r # Rid(k, s) PROVE RowIn(d, r) = RowIn(c, r)
  <2>1. r.page_id # k \/ r.slot_num # s
    BY <1>23, RidIs
  <2>2. CASE r.page_id \notin 1 .. m
    BY <1>1, <1>12, <1>15, <2>2, RowInIs
  <2>3. CASE r.page_id \in 1 .. m /\ r.page_id < k
    <3> DEFINE i == r.page_id
    <3>1. i \in 1 .. n + 1 /\ i <= k /\ i \in 1 .. n
      BY <1>1, <1>7, <1>13, <2>3
    <3>2. d[i] = Try(chain[i], u).page /\ ~Try(chain[i], u).ok
      BY <1>8, <1>12, <2>3, <3>1
    <3>3. RowOf(d[i], r.slot_num) = RowOf(c[i], r.slot_num)
      BY <1>3, <1>9, <3>1, <3>2
    <3> QED
      BY <1>1, <1>12, <2>3, <3>1, <3>3, RowInIs
  <2>4. CASE r.page_id \in 1 .. m /\ r.page_id > k
    <3> DEFINE i == r.page_id
    <3>1. i \in 1 .. n /\ ~(i <= k)
      BY <1>1, <1>7, <1>13, <2>4
    <3>2. d[i] = c[i]
      BY <1>12, <2>4, <3>1
    <3> QED
      BY <1>1, <1>12, <2>4, <3>1, <3>2, RowInIs
  <2>5. CASE r.page_id = k
    <3>1. RowOf(d[k], r.slot_num) = RowOf(chain[k], r.slot_num)
      BY <1>10, <1>18, <2>1, <2>5
    <3>2. RowIn(d, r) = RowOf(d[k], r.slot_num)
      BY <1>12, <1>18, <2>5, RowInIs
    <3>3. RowIn(c, r) = RowOf(chain[k], r.slot_num)
      BY <1>1, <1>7, <1>21, <2>5, RowInIs
    <3> QED
      BY <3>1, <3>2, <3>3
  <2> QED
    BY <1>7, <1>11, <2>2, <2>3, <2>4, <2>5
<1>24. OneChange(c, d, Rid(k, s), u)
  BY <1>16, <1>17, <1>19, <1>20, <1>23 DEF OneChange
<1>25. heap_insert(c, u).rid = Rid(k, s) /\ heap_insert(c, u).pages = d
  BY DEF heap_insert, chain, fits, k, s, d
<1> QED
  BY <1>22, <1>24, <1>25

(* Two changes of one row are one.                                         *)
LEMMA OneChangeTwice ==
  ASSUME NEW c, NEW d, NEW e, NEW rid, NEW v, NEW u,
         OneChange(c, d, rid, v), OneChange(d, e, rid, u)
  PROVE  OneChange(c, e, rid, u)
BY DEF OneChange

LEMMA HeapUpdate ==
  ASSUME NEW c, GoodHeap(c), NEW rid \in AnyRid, RowIn(c, rid) # NoTuple, NEW u \in Tuple
  PROVE  LET up == heap_update(c, rid, u)
         IN  \/ up.rid = rid /\ OneChange(c, up.pages, rid, u)
             \/ /\ up.rid # rid
                /\ RowIn(c, up.rid) = NoTuple
                /\ \E d : OneChange(c, d, rid, NoTuple) /\ OneChange(d, up.pages, up.rid, u)
<1> DEFINE i       == rid.page_id
           k       == rid.slot_num
           old     == c[i]
           deleted == delete_tuple(old, k)
           roomy   == IF is_compacted(deleted) THEN deleted ELSE compact(deleted)
           up      == heap_update(c, rid, u)
<1>1. i \in DOMAIN c /\ has_slot(old, k) /\ k \in Nat /\ rid = Rid(i, k)
  BY HeapTypes, RidIs DEF heap_has
<1>2. GoodPage(old) /\ slot_count(old) \in Nat
  BY <1>1, HeapTypes DEF GoodHeap
<1>3. k \in SlotNums(old) /\ k < slot_count(old)
  BY <1>1, <1>2 DEF has_slot, SlotNums
<1>4. up = IF CanUpdateInPlace(old, k, u)
           THEN [rid |-> rid, pages |-> [c EXCEPT ![i] = try_update_in_place(old, k, u)]]
           ELSE IF CanInsert(roomy, u, k)
           THEN [rid |-> rid, pages |-> [c EXCEPT ![i] = insert_tuple(roomy, u, k)]]
           ELSE heap_insert([c EXCEPT ![i] = roomy], u)
  BY DEF heap_update
<1> HIDE DEF up
<1>5. /\ GoodPage(deleted) /\ slot_count(deleted) = slot_count(old)
      /\ RowOf(deleted, k) = NoTuple /\ \A s : s # k => RowOf(deleted, s) = RowOf(old, s)
  BY <1>1, <1>2, PageDelete
<1> HIDE DEF deleted
<1>6. /\ GoodPage(roomy) /\ slot_count(roomy) = slot_count(old)
      /\ RowOf(roomy, k) = NoTuple /\ \A s : s # k => RowOf(roomy, s) = RowOf(old, s)
  BY <1>5, PageCompact
<1> HIDE DEF roomy
<1>7. ~has_slot(roomy, k) /\ k \in SlotNums(roomy)
  BY <1>2, <1>3, <1>6, RowOfIs DEF GoodPage, SlotNums
<1>8. CASE CanUpdateInPlace(old, k, u)
  <2> DEFINE q == try_update_in_place(old, k, u)
  <2>1. /\ GoodPage(q) /\ slot_count(q) = slot_count(old)
        /\ RowOf(q, k) = u /\ \A s : s # k => RowOf(q, s) = RowOf(old, s)
    BY <1>2, <1>8, PageUpdate
  <2>2. k \in SlotNums(q) /\ slot_count(old) <= slot_count(q)
    BY <1>2, <1>3, <2>1 DEF SlotNums
  <2>3. up.rid = rid /\ up.pages = [c EXCEPT ![i] = q]
    BY <1>4, <1>8
  <2> HIDE DEF q, old
  <2>4. OneChange(c, [c EXCEPT ![i] = q], Rid(i, k), u)
    BY <1>1, <2>1, <2>2, ChangePage DEF old
  <2> QED
    BY <1>1, <2>3, <2>4 DEF up
<1>9. CASE ~CanUpdateInPlace(old, k, u) /\ CanInsert(roomy, u, k)
  <2> DEFINE q == insert_tuple(roomy, u, k)
  <2>1. SlotFor(roomy, k) = k /\ k \in Int
    BY <1>1, <1>7 DEF SlotFor
  <2>2. /\ GoodPage(q) /\ has_slot(q, k) /\ RowOf(q, k) = u
        /\ \A s : s # k => RowOf(q, s) = RowOf(roomy, s)
        /\ slot_count(roomy) <= slot_count(q)
    BY <1>6, <1>9, <2>1, PageInsert
  <2>3. k \in SlotNums(q)
    BY <2>2 DEF has_slot
  <2>4. up.rid = rid /\ up.pages = [c EXCEPT ![i] = q]
    BY <1>4, <1>9
  <2>5. slot_count(old) <= slot_count(q) /\ \A s : s # k => RowOf(q, s) = RowOf(old, s)
    BY <1>6, <2>2
  <2> HIDE DEF q, old
  <2>6. OneChange(c, [c EXCEPT ![i] = q], Rid(i, k), u)
    BY <1>1, <2>2, <2>3, <2>5, ChangePage DEF old
  <2> QED
    BY <1>1, <2>4, <2>6 DEF up
<1>10. CASE ~CanUpdateInPlace(old, k, u) /\ ~CanInsert(roomy, u, k)
  <2> DEFINE d == [c EXCEPT ![i] = roomy]
  <2>1. slot_count(old) <= slot_count(roomy)
    BY <1>2, <1>6
  <2> HIDE DEF old
  <2>2. OneChange(c, d, Rid(i, k), NoTuple)
    BY <1>1, <1>6, <1>7, <2>1, ChangePage DEF old
  <2>3. up = heap_insert(d, u)
    BY <1>4, <1>10
  <2> HIDE DEF d
  <2>4. GoodHeap(d)
    BY <2>2 DEF OneChange
  <2>5. OneChange(d, up.pages, up.rid, u) /\ RowIn(d, up.rid) = NoTuple
    BY <2>3, <2>4, HeapInsert
  <2>6. CASE up.rid = rid
    BY <1>1, <2>2, <2>5, <2>6, OneChangeTwice DEF up
  <2>7. CASE up.rid # rid
    <3>1. up.rid \in AnyRid
      BY <2>5 DEF OneChange
    <3>2. RowIn(c, up.rid) = NoTuple
      BY <1>1, <2>2, <2>5, <2>7, <3>1 DEF OneChange
    <3> QED
      BY <1>1, <2>2, <2>5, <2>7, <3>2 DEF up
  <2> QED
    BY <2>6, <2>7
<1> QED
  BY <1>8, <1>9, <1>10

-----------------------------------------------------------------------------
(* Undo logs.  To undo the records of a row, the newest first, takes it    *)
(* from v to c: a record that restores the row finds it gone, and the      *)
(* oldest one leaves c.                                                    *)
Untouched(log, rid) == \A i \in DOMAIN log : log[i].rid # rid
Oldest(log, i) == \A j \in 1 .. i - 1 : log[j].rid # log[i].rid
Newest(log, i) == \A j \in i + 1 .. Len(log) : log[j].rid # log[i].rid
Alternate(log, rid) ==
  \A j \in DOMAIN log : \A i \in 1 .. j - 1 :
    log[i].rid = rid /\ log[j].rid = rid /\ log[i].kind = "restore" /\ log[j].kind = "restore"
      => \E k \in i + 1 .. j - 1 : log[k].rid = rid /\ log[k].kind = "delete"
Undoes(log, rid, v, c) ==
  /\ Untouched(log, rid) => v = c
  /\ \A i \in DOMAIN log : log[i].rid = rid /\ Oldest(log, i) => log[i].tuple = c
  /\ \A i \in DOMAIN log :
       log[i].rid = rid /\ Newest(log, i) /\ log[i].kind = "restore" => v = NoTuple
  /\ Alternate(log, rid)

LEMMA Pushed ==
  ASSUME NEW log, log \in Seq(UndoRecord), NEW x \in UndoRecord
  PROVE  LET log2 == log \o <<x>>
         IN  /\ log2 \in Seq(UndoRecord)
             /\ Len(log) \in Nat /\ DOMAIN log = 1 .. Len(log)
             /\ Len(log2) = Len(log) + 1 /\ DOMAIN log2 = 1 .. Len(log) + 1
             /\ log2[Len(log) + 1] = x /\ \A i \in 1 .. Len(log) : log2[i] = log[i]
<1>1. log \o <<x>> = Append(log, x)
  OBVIOUS
<1> QED
  BY <1>1

LEMMA UndoesOther ==
  ASSUME NEW log, log \in Seq(UndoRecord), NEW x \in UndoRecord,
         NEW rid, x.rid # rid, NEW v, NEW c
  PROVE  Undoes(log \o <<x>>, rid, v, c) <=> Undoes(log, rid, v, c)
<1> DEFINE log2 == log \o <<x>>
           n    == Len(log)
<1>1. /\ n \in Nat /\ DOMAIN log = 1 .. n /\ Len(log2) = n + 1 /\ DOMAIN log2 = 1 .. n + 1
      /\ log2[n + 1] = x /\ \A i \in 1 .. n : log2[i] = log[i]
  BY Pushed
<1> HIDE DEF log2, n
<1>2. \A i \in 1 .. n + 1 : log2[i].rid = rid => i \in 1 .. n
  BY <1>1
<1>3. Untouched(log2, rid) <=> Untouched(log, rid)
  BY <1>1, <1>2 DEF Untouched
<1>4. ASSUME NEW i \in 1 .. n, log[i].rid = rid
      PROVE  (Oldest(log2, i) <=> Oldest(log, i)) /\ (Newest(log2, i) <=> Newest(log, i))
  <2>1. \A j \in 1 .. i - 1 : j \in 1 .. n
    BY <1>1
  <2>2. Oldest(log2, i) <=> Oldest(log, i)
    BY <1>1, <1>4, <2>1 DEF Oldest
  <2>3. Newest(log2, i) => Newest(log, i)
    <3>1. \A j \in i + 1 .. n : j \in i + 1 .. n + 1 /\ j \in 1 .. n
      BY <1>1
    <3> QED
      BY <1>1, <1>4, <3>1 DEF Newest, n
  <2>4. Newest(log, i) => Newest(log2, i)
    <3>1. \A j \in i + 1 .. n + 1 : j \in i + 1 .. n \/ j = n + 1
      BY <1>1
    <3>2. \A j \in i + 1 .. n : j \in 1 .. n
      BY <1>1
    <3> QED
      BY <1>1, <1>4, <3>1, <3>2 DEF Newest, n
  <2> QED
    BY <2>2, <2>3, <2>4
<1>5. Alternate(log2, rid) <=> Alternate(log, rid)
  <2>1. \A j \in 1 .. n : \A i \in 1 .. j - 1 : i \in 1 .. n /\ \A k \in i + 1 .. j - 1 : k \in 1 .. n
    BY <1>1
  <2>2. ASSUME NEW j \in 1 .. n, NEW i \in 1 .. j - 1
        PROVE  (\E k \in i + 1 .. j - 1 : log2[k].rid = rid /\ log2[k].kind = "delete")
                 <=> (\E k \in i + 1 .. j - 1 : log[k].rid = rid /\ log[k].kind = "delete")
    BY <1>1, <2>1
  <2>3. Alternate(log2, rid) => Alternate(log, rid)
    <3>1. \A j \in 1 .. n : j \in 1 .. n + 1
      BY <1>1
    <3> QED
      BY <1>1, <2>1, <2>2, <3>1 DEF Alternate
  <2>4. Alternate(log, rid) => Alternate(log2, rid)
    <3> SUFFICES ASSUME Alternate(log, rid), NEW j \in 1 .. n + 1, NEW i \in 1 .. j - 1,
                        log2[i].rid = rid, log2[j].rid = rid,
                        log2[i].kind = "restore", log2[j].kind = "restore"
                 PROVE  \E k \in i + 1 .. j - 1 : log2[k].rid = rid /\ log2[k].kind = "delete"
      BY <1>1 DEF Alternate
    <3>1. j \in 1 .. n
      BY <1>2
    <3>2. i \in 1 .. n
      BY <2>1, <3>1
    <3>3. \E k \in i + 1 .. j - 1 : log[k].rid = rid /\ log[k].kind = "delete"
      BY <1>1, <3>1, <3>2 DEF Alternate
    <3> QED
      BY <2>2, <3>1, <3>3
  <2> QED
    BY <2>3, <2>4
<1> QED
  BY <1>1, <1>2, <1>3, <1>4, <1>5 DEF Undoes, log2

LEMMA UndoesUntouched ==
  ASSUME NEW log, NEW rid, Untouched(log, rid), NEW v
  PROVE  Undoes(log, rid, v, v)
BY DEF Undoes, Untouched, Alternate

(* The row is deleted, and the record that restores it pushed.             *)
LEMMA UndoesRestore ==
  ASSUME NEW log, log \in Seq(UndoRecord), NEW rid \in RIDs, NEW v \in Tuple, NEW c,
         Undoes(log, rid, v, c)
  PROVE  Undoes(log \o <<RestoreUndo(rid, v)>>, rid, NoTuple, c)
<1> DEFINE x    == RestoreUndo(rid, v)
           log2 == log \o <<x>>
           n    == Len(log)
<1>1. x \in UndoRecord /\ x.rid = rid /\ x.kind = "restore" /\ x.tuple = v /\ v # NoTuple
  BY NoTupleAssumption DEF RestoreUndo, UndoRecord
<1> HIDE DEF x
<1>2. /\ n \in Nat /\ DOMAIN log = 1 .. n /\ Len(log2) = n + 1 /\ DOMAIN log2 = 1 .. n + 1
      /\ log2[n + 1] = x /\ \A i \in 1 .. n : log2[i] = log[i]
  BY <1>1, Pushed
<1> HIDE DEF log2, n
<1>3. ~Untouched(log2, rid)
  BY <1>1, <1>2 DEF Untouched
<1>4. \A i \in 1 .. n + 1 : i \in 1 .. n \/ i = n + 1
  BY <1>2
<1>5. ASSUME NEW i \in 1 .. n + 1, log2[i].rid = rid, Oldest(log2, i) PROVE log2[i].tuple = c
  <2>1. CASE i \in 1 .. n
    <3>1. \A j \in 1 .. i - 1 : j \in 1 .. n
      BY <1>2
    <3>2. Oldest(log, i) /\ log[i].rid = rid
      BY <1>2, <1>5, <2>1, <3>1 DEF Oldest
    <3> QED
      BY <1>2, <2>1, <3>2 DEF Undoes
  <2>2. CASE i = n + 1
    <3>1. \A j \in 1 .. n : j \in 1 .. i - 1
      BY <1>2, <2>2
    <3>2. Untouched(log, rid)
      BY <1>1, <1>2, <1>5, <2>2, <3>1 DEF Oldest, Untouched
    <3> QED
      BY <1>1, <1>2, <2>2, <3>2 DEF Undoes
  <2> QED
    BY <1>4, <2>1, <2>2
<1>6. Alternate(log2, rid)
  <2> SUFFICES ASSUME NEW j \in 1 .. n + 1, NEW i \in 1 .. j - 1,
                      log2[i].rid = rid, log2[j].rid = rid,
                      log2[i].kind = "restore", log2[j].kind = "restore"
               PROVE  \E k \in i + 1 .. j - 1 : log2[k].rid = rid /\ log2[k].kind = "delete"
    BY <1>2 DEF Alternate
  <2>1. i \in 1 .. n /\ \A k \in i + 1 .. j - 1 : k \in 1 .. n
    BY <1>2
  <2>2. CASE j \in 1 .. n
    <3>1. \E k \in i + 1 .. j - 1 : log[k].rid = rid /\ log[k].kind = "delete"
      BY <1>2, <2>1, <2>2 DEF Undoes, Alternate
    <3> QED
      BY <1>2, <2>1, <3>1
  <2>3. CASE j = n + 1
    (* The newest of the old records is not one that restores the row.      *)
    <3> DEFINE T == {m \in 0 .. n : \E k \in 1 .. n : k = n - m /\ log[k].rid = rid}
    <3>1. T \in SUBSET Nat /\ n - i \in T
      BY <1>2, <2>1
    <3>2. PICK m \in T : \A y \in T : m <= y
      <4> HIDE DEF T
      <4>1. T # {}
        BY <3>1
      <4> QED
        BY <3>1, <4>1, Least
    <3>3. m \in Nat /\ n - m \in 1 .. n /\ log[n - m].rid = rid
      BY <1>2, <3>2
    <3> DEFINE k == n - m
    <3>4. k \in 1 .. n /\ log[k].rid = rid
      BY <3>3
    <3>5. Newest(log, k)
      <4> SUFFICES ASSUME NEW l \in k + 1 .. n, log[l].rid = rid PROVE FALSE
        BY <3>4 DEF Newest, n
      <4>1. l \in 1 .. n /\ n - l \in 0 .. n /\ n - (n - l) = l
        BY <1>2, <3>3
      <4>2. n - l \in T
        BY <4>1
      <4>3. m <= n - l
        BY <3>2, <4>2
      <4> QED
        BY <1>2, <3>3, <4>1, <4>3
    <3>6. log[k].kind # "restore"
      BY <1>1, <1>2, <3>4, <3>5 DEF Undoes
    <3>7. log[k].kind = "delete"
      <4>1. log[k] \in UndoRecord
        BY <1>2, <3>4
      <4> QED
        BY <3>6, <4>1 DEF UndoRecord
    <3>8. i <= k
      <4>1. m <= n - i
        BY <3>1, <3>2
      <4> QED
        BY <1>2, <2>1, <3>3, <4>1
    <3>9. i # k
      BY <1>2, <2>1, <3>6
    <3>10. k \in i + 1 .. j - 1 /\ log2[k] = log[k]
      BY <1>2, <2>1, <2>3, <3>4, <3>8, <3>9
    <3> HIDE DEF k
    <3> QED
      BY <3>4, <3>7, <3>10
  <2> QED
    BY <1>4, <2>2, <2>3
<1> QED
  BY <1>2, <1>3, <1>5, <1>6 DEF Undoes, log2, x

(* The row has come, and the record that deletes it is pushed.             *)
LEMMA UndoesDelete ==
  ASSUME NEW log, log \in Seq(UndoRecord), NEW rid \in RIDs, NEW v, NEW c,
         Undoes(log, rid, NoTuple, c)
  PROVE  Undoes(log \o <<DeleteUndo(rid)>>, rid, v, c)
<1> DEFINE x    == DeleteUndo(rid)
           log2 == log \o <<x>>
           n    == Len(log)
<1>1. x \in UndoRecord /\ x.rid = rid /\ x.kind = "delete" /\ x.tuple = NoTuple
  BY DEF DeleteUndo, UndoRecord
<1> HIDE DEF x
<1>2. /\ n \in Nat /\ DOMAIN log = 1 .. n /\ Len(log2) = n + 1 /\ DOMAIN log2 = 1 .. n + 1
      /\ log2[n + 1] = x /\ \A i \in 1 .. n : log2[i] = log[i]
  BY <1>1, Pushed
<1> HIDE DEF log2, n
<1>3. ~Untouched(log2, rid)
  BY <1>1, <1>2 DEF Untouched
<1>4. \A i \in 1 .. n + 1 : i \in 1 .. n \/ i = n + 1
  BY <1>2
<1>5. ASSUME NEW i \in 1 .. n + 1, log2[i].rid = rid, Oldest(log2, i) PROVE log2[i].tuple = c
  <2>1. CASE i \in 1 .. n
    <3>1. \A j \in 1 .. i - 1 : j \in 1 .. n
      BY <1>2
    <3>2. Oldest(log, i) /\ log[i].rid = rid
      BY <1>2, <1>5, <2>1, <3>1 DEF Oldest
    <3> QED
      BY <1>2, <2>1, <3>2 DEF Undoes
  <2>2. CASE i = n + 1
    <3>1. \A j \in 1 .. n : j \in 1 .. i - 1
      BY <1>2, <2>2
    <3>2. Untouched(log, rid)
      BY <1>1, <1>2, <1>5, <2>2, <3>1 DEF Oldest, Untouched
    <3> QED
      BY <1>1, <1>2, <2>2, <3>2 DEF Undoes
  <2> QED
    BY <1>4, <2>1, <2>2
<1>6. ASSUME NEW i \in 1 .. n + 1, log2[i].rid = rid, Newest(log2, i) PROVE log2[i].kind = "delete"
  <2>1. i <= n => n + 1 \in i + 1 .. n + 1
    BY <1>2
  <2>2. i = n + 1
    BY <1>1, <1>2, <1>4, <1>6, <2>1 DEF Newest
  <2> QED
    BY <1>1, <1>2, <2>2
<1>7. Alternate(log2, rid)
  <2> SUFFICES ASSUME NEW j \in 1 .. n + 1, NEW i \in 1 .. j - 1,
                      log2[i].rid = rid, log2[j].rid = rid,
                      log2[i].kind = "restore", log2[j].kind = "restore"
               PROVE  \E k \in i + 1 .. j - 1 : log2[k].rid = rid /\ log2[k].kind = "delete"
    BY <1>2 DEF Alternate
  <2>1. j \in 1 .. n
    BY <1>1, <1>2, <1>4
  <2>2. i \in 1 .. n /\ \A k \in i + 1 .. j - 1 : k \in 1 .. n
    BY <1>2
  <2>3. \E k \in i + 1 .. j - 1 : log[k].rid = rid /\ log[k].kind = "delete"
    BY <1>2, <2>1, <2>2 DEF Undoes, Alternate
  <2> QED
    BY <1>2, <2>2, <2>3
<1> QED
  BY <1>2, <1>3, <1>5, <1>6, <1>7 DEF Undoes, log2, x

(* The newest record is undone.                                            *)
LEMMA Undone ==
  ASSUME NEW log, log \in Seq(UndoRecord), NEW x \in UndoRecord, NEW v, NEW c,
         Undoes(log \o <<x>>, x.rid, v, c)
  PROVE  /\ x.kind = "restore" => v = NoTuple
         /\ Undoes(log, x.rid, x.tuple, c)
         /\ \A i \in DOMAIN log : log[i].rid = x.rid /\ Newest(log, i) /\ x.kind = "restore"
               => log[i].kind = "delete"
<1> DEFINE rid  == x.rid
           log2 == log \o <<x>>
           n    == Len(log)
<1>1. /\ n \in Nat /\ DOMAIN log = 1 .. n /\ Len(log2) = n + 1 /\ DOMAIN log2 = 1 .. n + 1
      /\ log2[n + 1] = x /\ \A i \in 1 .. n : log2[i] = log[i]
  BY Pushed
<1>2. /\ x.kind \in {"delete", "restore"}
      /\ x.kind = "delete" => x.tuple = NoTuple
  BY DEF UndoRecord
<1>3. Undoes(log2, rid, v, c)
  OBVIOUS
<1> HIDE DEF log2, n
<1>4. x.kind = "restore" => v = NoTuple
  <2>1. Newest(log2, n + 1)
    BY <1>1 DEF Newest
  <2> QED
    BY <1>1, <1>3, <2>1 DEF Undoes
<1>5. Untouched(log, rid) => x.tuple = c
  <2> SUFFICES ASSUME Untouched(log, rid) PROVE x.tuple = c
    OBVIOUS
  <2>1. \A j \in 1 .. (n + 1) - 1 : j \in 1 .. n
    BY <1>1
  <2>2. Oldest(log2, n + 1)
    BY <1>1, <2>1 DEF Oldest, Untouched
  <2> QED
    BY <1>1, <1>3, <2>2 DEF Undoes
<1>6. \A i \in 1 .. n : log[i].rid = rid /\ Oldest(log, i) => log[i].tuple = c
  <2> SUFFICES ASSUME NEW i \in 1 .. n, log[i].rid = rid, Oldest(log, i) PROVE log[i].tuple = c
    OBVIOUS
  <2>1. (\A j \in 1 .. i - 1 : j \in 1 .. n) /\ i \in 1 .. n + 1
    BY <1>1
  <2>2. Oldest(log2, i)
    BY <1>1, <2>1 DEF Oldest
  <2> QED
    BY <1>1, <1>3, <2>1, <2>2 DEF Undoes
<1>7. Alternate(log, rid)
  <2> SUFFICES ASSUME NEW j \in 1 .. n, NEW i \in 1 .. j - 1,
                      log[i].rid = rid, log[j].rid = rid,
                      log[i].kind = "restore", log[j].kind = "restore"
               PROVE  \E k \in i + 1 .. j - 1 : log[k].rid = rid /\ log[k].kind = "delete"
    BY <1>1 DEF Alternate
  <2>1. i \in 1 .. n /\ j \in 1 .. n + 1 /\ \A k \in i + 1 .. j - 1 : k \in 1 .. n
    BY <1>1
  <2>2. \E k \in i + 1 .. j - 1 : log2[k].rid = rid /\ log2[k].kind = "delete"
    BY <1>1, <1>3, <2>1 DEF Undoes, Alternate
  <2> QED
    BY <1>1, <2>1, <2>2
<1>8. ASSUME NEW i \in 1 .. n, log[i].rid = rid, Newest(log, i), x.kind = "restore"
      PROVE  log[i].kind = "delete"
  <2> SUFFICES ASSUME log[i].kind = "restore" PROVE FALSE
    <3>1. log[i] \in UndoRecord
      BY <1>1
    <3> QED
      BY <3>1 DEF UndoRecord
  <2>1. i \in 1 .. (n + 1) - 1 /\ n + 1 \in 1 .. n + 1
    BY <1>1
  <2>2. \E k \in i + 1 .. (n + 1) - 1 : log2[k].rid = rid /\ log2[k].kind = "delete"
    BY <1>1, <1>3, <1>8, <2>1 DEF Undoes, Alternate
  <2>3. \A k \in i + 1 .. (n + 1) - 1 : k \in i + 1 .. n /\ k \in 1 .. n
    BY <1>1
  <2> QED
    BY <1>1, <1>8, <2>2, <2>3 DEF Newest, n
<1>9. \A i \in 1 .. n : log[i].rid = rid /\ Newest(log, i) /\ log[i].kind = "restore" => x.tuple = NoTuple
  BY <1>2, <1>8
<1> QED
  BY <1>1, <1>4, <1>5, <1>6, <1>7, <1>8, <1>9 DEF Undoes

-----------------------------------------------------------------------------
(* The invariant.                                                          *)
New(t)      == pc[t] \in {"inserted", "moved"}
Waits(t)    == pc[t] = "upgrade"
At(t, rid)  == New(t) /\ call[t].rid = rid
From(t, rid) == pc[t] = "moved" /\ call[t].old = rid

(* What a row held before the call under way on it, if there is one that   *)
(* has changed it and not pushed its records.                              *)
Before(rid, v) ==
  \/ (\E t \in Tx : At(t, rid)) /\ v = NoTuple
  \/ \E t \in Tx : From(t, rid) /\ v = call[t].tuple
  \/ (\A t \in Tx : ~At(t, rid) /\ ~From(t, rid)) /\ v = Row(rid)

Exclusive == \A rid \in RIDs : \A t \in writers[rid] : readers[rid] \cup writers[rid] \subseteq {t}

RowsExist ==
  \A rid \in RIDs :
    \/ writers[rid] # {}
    \/ committed[rid] # NoTuple
    \/ \E t \in Tx : Waits(t) /\ call[t].rid = rid
    => Exists(pages, rid)

(* A row that is not locked yet is nobody else's.                          *)
NewGood(t) ==
  LET rid == call[t].rid
  IN  /\ Row(rid) # NoTuple
      /\ writers[rid] \subseteq {t}
      /\ committed[rid] = NoTuple \/ t \in writers[rid]
      /\ \A u \in Tx \ {t} : New(u) \/ Waits(u) => call[u].rid # rid
NewRows == \A t \in Tx : New(t) => NewGood(t)

MovedGood(t) ==
  /\ call[t].old # call[t].rid
  /\ t \in writers[call[t].old]
  /\ Row(call[t].old) = NoTuple
  /\ call[t].tuple \in Tuple
MovedRows == \A t \in Tx : pc[t] = "moved" => MovedGood(t)

LogsLocked ==
  \A t \in Tx : pc[t] # "ended" => \A i \in DOMAIN undo_log[t] : t \in writers[undo_log[t][i].rid]

(* A row rests on what is committed if nobody has locked it, else what its *)
(* writer has logged leads there.                                          *)
Rests(rid, v) ==
  /\ writers[rid] = {} => v = committed[rid]
  /\ \A t \in writers[rid] :
       (asserted /\ pc[t] = "undo") \/ Undoes(undo_log[t], rid, v, committed[rid])
Settled == \A rid \in RIDs : \A v \in Tuple \cup {NoTuple} : Before(rid, v) => Rests(rid, v)

IInv ==
  /\ TypeOK
  /\ GoodHeap(pages)
  /\ Exclusive
  /\ RowsExist
  /\ NewRows
  /\ MovedRows
  /\ LogsLocked
  /\ Settled
  /\ asserted => UndoFindsItsSlot

-----------------------------------------------------------------------------
LEMMA RidsAre ==
  /\ RIDs \subseteq AnyRid
  /\ MaxPages \in Nat /\ MaxPages >= 1 /\ MaxSlots \in Nat /\ MaxCalls \in Nat
  /\ Rid(1, 0) \in RIDs
<1>1. MaxPages \in Nat /\ MaxPages >= 1 /\ MaxSlots \in Nat /\ MaxCalls \in Nat
  BY TableAssumption
<1>2. 1 .. MaxPages \subseteq Nat /\ 0 .. MaxSlots \subseteq Nat /\ 1 \in 1 .. MaxPages /\ 0 \in 0 .. MaxSlots
  BY <1>1
<1> QED
  BY <1>1, <1>2 DEF RIDs, AnyRid, Rid

LEMMA RidIn ==
  ASSUME NEW d, GoodHeap(d), Fits(d), NEW rid \in AnyRid, Exists(d, rid)
  PROVE  rid \in RIDs
<1> DEFINE i == rid.page_id
           k == rid.slot_num
<1>1. i \in DOMAIN d /\ k \in SlotNums(d[i]) /\ i \in Nat /\ k \in Nat /\ rid = Rid(i, k)
  BY RidIs DEF Exists
<1>2. /\ Len(d) \in Nat /\ DOMAIN d = 1 .. Len(d)
      /\ slot_count(d[i]) \in Nat /\ SlotNums(d[i]) = 0 .. slot_count(d[i]) - 1
  BY <1>1, HeapTypes
<1>3. Len(d) <= MaxPages /\ slot_count(d[i]) <= MaxSlots
  BY <1>1 DEF Fits
<1> HIDE DEF i, k
<1>4. i \in 1 .. MaxPages /\ k \in 0 .. MaxSlots
  BY <1>1, <1>2, <1>3, RidsAre
<1> QED
  BY <1>1, <1>4 DEF RIDs, Rid

LEMMA HeapFits ==
  ASSUME NEW c, GoodHeap(c), Fits(c)
  PROVE  /\ Len(c) \in 1 .. MaxPages
         /\ \A i \in DOMAIN c : /\ c[i].slots \in Seq(Slot)
                               /\ slot_count(c[i]) <= MaxSlots
                               /\ c[i].free_space_offset \in 0 .. kPAGE_SIZE
<1>1. Len(c) \in Nat /\ Len(c) >= 1 /\ Len(c) <= MaxPages
  BY HeapTypes DEF GoodHeap, Fits
<1>2. \A i \in DOMAIN c : c[i] \in PageType
  BY HeapTypes
<1>3. ASSUME NEW i \in DOMAIN c
      PROVE  /\ c[i].slots \in Seq(Slot)
             /\ slot_count(c[i]) <= MaxSlots
             /\ c[i].free_space_offset \in 0 .. kPAGE_SIZE
  <2>1. c[i].slots \in Seq(Slot) /\ c[i].free_space_offset \in 8 .. kPAGE_SIZE
    BY <1>2, PageTypes
  <2>2. c[i].free_space_offset \in 0 .. kPAGE_SIZE
    BY <2>1, PageSize
  <2> QED
    BY <2>1, <2>2 DEF Fits
<1> QED
  BY <1>1, <1>3, RidsAre

LEMMA SameFits ==
  ASSUME NEW c, Fits(c), NEW d, SameSlots(c, d)
  PROVE  Fits(d)
BY DEF Fits, SameSlots

LEMMA TypeFits == TypeOK => Fits(pages)
<1> SUFFICES ASSUME TypeOK PROVE Fits(pages)
  OBVIOUS
<1>1. Len(pages) \in 1 .. MaxPages /\ \A i \in DOMAIN pages : slot_count(pages[i]) <= MaxSlots
  BY DEF TypeOK
<1> QED
  BY <1>1, RidsAre DEF Fits

(* Steps of t that leave alone, outside of a set S of row ids, what others *)
(* rely on.                                                                *)
LEMMA BeforeKept ==
  ASSUME NEW t \in Tx, NEW r, NEW v,
         \A u \in Tx \ {t} : pc'[u] = pc[u] /\ call'[u] = call[u],
         At(t, r)' <=> At(t, r), From(t, r)' <=> From(t, r),
         From(t, r) => call'[t].tuple = call[t].tuple,
         Row(r)' = Row(r), Before(r, v)'
  PROVE  Before(r, v)
<1>1. \A u \in Tx : /\ At(u, r)' <=> At(u, r)
                    /\ From(u, r)' <=> From(u, r)
                    /\ From(u, r) => call'[u].tuple = call[u].tuple
  BY DEF At, From, New
<1> QED
  BY <1>1 DEF Before

LEMMA SettledStep ==
  ASSUME Settled, ~asserted, NEW t \in Tx, NEW S \in SUBSET RIDs,
         \A u \in Tx \ {t} : undo_log'[u] = undo_log[u],
         writers \in [RIDs -> SUBSET Tx],
         \A r \in RIDs \ S :
           /\ writers'[r] = writers[r] /\ committed'[r] = committed[r]
           /\ \A v \in Tuple \cup {NoTuple} : Before(r, v)' => Before(r, v)
           /\ \A v, c : Undoes(undo_log[t], r, v, c) => Undoes(undo_log'[t], r, v, c),
         \A r \in S :
           /\ writers'[r] \subseteq {t}
           /\ \A v \in Tuple \cup {NoTuple} : Before(r, v)' =>
                /\ writers'[r] = {} => v = committed'[r]
                /\ t \in writers'[r] => Undoes(undo_log'[t], r, v, committed'[r])
  PROVE  Settled'
<1> SUFFICES ASSUME NEW r \in RIDs, NEW v \in Tuple \cup {NoTuple}, Before(r, v)'
             PROVE  Rests(r, v)'
  BY DEF Settled
<1>1. CASE r \in S
  BY <1>1 DEF Rests
<1>2. CASE r \notin S
  <2>1. Rests(r, v)
    BY <1>2 DEF Settled
  <2>2. ASSUME NEW u \in writers'[r] PROVE Undoes(undo_log'[u], r, v, committed'[r])
    <3>1. u \in writers[r] /\ u \in Tx /\ committed'[r] = committed[r]
      BY <1>2, <2>2
    <3>2. Undoes(undo_log[u], r, v, committed[r])
      BY <2>1, <3>1 DEF Rests
    <3> QED
      BY <1>2, <3>1, <3>2
  <2>3. writers'[r] = {} => v = committed'[r]
    BY <1>2, <2>1 DEF Rests
  <2> QED
    BY <2>2, <2>3 DEF Rests
<1> QED
  BY <1>1, <1>2

LEMMA Step ==
  ASSUME IInv, ~asserted, ~asserted', NEW t \in Tx, NEW S \in SUBSET RIDs,
         TypeOK', GoodHeap(pages'), \A r \in RIDs : Exists(pages, r) => Exists(pages', r),
         \A u \in Tx \ {t} : pc'[u] = pc[u] /\ call'[u] = call[u] /\ undo_log'[u] = undo_log[u],
         \A r \in RIDs \ S :
           /\ writers'[r] = writers[r] /\ committed'[r] = committed[r] /\ Row(r)' = Row(r)
           /\ (At(t, r)' <=> At(t, r)) /\ (From(t, r)' <=> From(t, r))
           /\ From(t, r) => call'[t].tuple = call[t].tuple
           /\ \A v, c : Undoes(undo_log[t], r, v, c) => Undoes(undo_log'[t], r, v, c),
         \A r \in S :
           /\ Exists(pages', r)
           /\ writers[r] \subseteq {t} /\ writers'[r] \subseteq {t}
           /\ \A u \in Tx \ {t} : ~At(u, r) /\ ~From(u, r)
           /\ \A v \in Tuple \cup {NoTuple} : Before(r, v)' =>
                /\ writers'[r] = {} => v = committed'[r]
                /\ t \in writers'[r] => Undoes(undo_log'[t], r, v, committed'[r]),
         Exclusive',
         pc'[t] = "ended" \/ \A i \in DOMAIN undo_log'[t] : t \in writers'[undo_log'[t][i].rid],
         New(t)' => NewGood(t)',
         pc'[t] = "moved" => MovedGood(t)',
         Waits(t)' => /\ Exists(pages', call'[t].rid)
                      /\ \A u \in Tx \ {t} : New(u) => call[u].rid # call'[t].rid
  PROVE  IInv'
<1> USE DEF IInv
<1>1. /\ writers \in [RIDs -> SUBSET Tx] /\ call \in [Tx -> Call]
      /\ undo_log \in [Tx -> Seq(UndoRecord)]
  BY DEF TypeOK
<1>2. \A u \in Tx : call[u].rid \in RIDs /\ call[u].old \in RIDs
  BY <1>1 DEF Call
<1>3. RowsExist'
  <2> SUFFICES ASSUME NEW r \in RIDs,
                      \/ writers'[r] # {}
                      \/ committed'[r] # NoTuple
                      \/ \E u \in Tx : Waits(u)' /\ call'[u].rid = r
               PROVE  Exists(pages', r)
    BY DEF RowsExist
  <2>1. CASE r \in S
    BY <2>1
  <2>2. CASE r \notin S /\ (writers'[r] # {} \/ committed'[r] # NoTuple)
    BY <2>2 DEF RowsExist
  <2>3. ASSUME NEW u \in Tx, Waits(u)', call'[u].rid = r PROVE Exists(pages', r)
    <3>1. CASE u = t
      BY <2>3, <3>1
    <3>2. CASE u # t
      <4>1. Waits(u) /\ call[u].rid = r
        BY <2>3, <3>2 DEF Waits
      <4> QED
        BY <4>1 DEF RowsExist
    <3> QED
      BY <3>1, <3>2
  <2> QED
    BY <2>1, <2>2, <2>3
<1>4. NewRows'
  <2> SUFFICES ASSUME NEW u \in Tx, New(u)', u # t PROVE NewGood(u)'
    BY DEF NewRows
  <2> DEFINE rid == call[u].rid
  <2>1. New(u) /\ call'[u] = call[u] /\ At(u, rid)
    BY DEF New, At
  <2>2. NewGood(u) /\ rid \in RIDs /\ rid \notin S
    BY <1>2, <2>1 DEF NewRows
  <2>3. Row(rid)' = Row(rid) /\ writers'[rid] = writers[rid] /\ committed'[rid] = committed[rid]
    BY <2>2
  <2>4. ASSUME NEW w \in Tx \ {u}, (New(w) \/ Waits(w))' PROVE call'[w].rid # rid
    <3>1. CASE w # t
      <4>1. (New(w) \/ Waits(w)) /\ call'[w] = call[w]
        BY <2>4, <3>1 DEF New, Waits
      <4> QED
        BY <2>2, <4>1 DEF NewGood
    <3>2. CASE w = t /\ New(t)'
      BY <2>1, <2>4, <3>2 DEF NewGood, New
    <3>3. CASE w = t /\ Waits(t)'
      BY <2>1, <3>3
    <3> QED
      BY <2>4, <3>1, <3>2, <3>3
  <2>5. \A r : call'[u].rid = r => Row(r)' # NoTuple
    BY <2>1, <2>2, <2>3 DEF NewGood
  <2> QED
    BY <2>1, <2>2, <2>3, <2>4 DEF NewGood
<1>5. MovedRows'
  <2> SUFFICES ASSUME NEW u \in Tx, pc'[u] = "moved", u # t PROVE MovedGood(u)'
    BY DEF MovedRows
  <2> DEFINE old == call[u].old
  <2>1. pc[u] = "moved" /\ call'[u] = call[u] /\ From(u, old)
    BY DEF From
  <2>2. MovedGood(u) /\ old \in RIDs /\ old \notin S
    BY <1>2, <2>1 DEF MovedRows
  <2>3. Row(old)' = Row(old) /\ writers'[old] = writers[old]
    BY <2>2
  <2> QED
    BY <2>1, <2>2, <2>3 DEF MovedGood
<1>6. LogsLocked'
  <2> SUFFICES ASSUME NEW u \in Tx, u # t, pc'[u] # "ended", NEW i \in DOMAIN undo_log'[u]
               PROVE  u \in writers'[undo_log'[u][i].rid]
    BY DEF LogsLocked
  <2> DEFINE r == undo_log[u][i].rid
  <2>1. i \in DOMAIN undo_log[u] /\ u \in writers[r] /\ undo_log'[u] = undo_log[u]
    BY DEF LogsLocked
  <2>2. r \in RIDs
    <3>1. undo_log[u][i] \in UndoRecord
      BY <1>1, <2>1
    <3> QED
      BY <3>1 DEF UndoRecord
  <2> QED
    BY <2>1, <2>2
<1>7. Settled'
  <2>1. ASSUME NEW r \in RIDs \ S, NEW v \in Tuple \cup {NoTuple}, Before(r, v)'
        PROVE  Before(r, v)
    BY <2>1, BeforeKept
  <2>2. \A r \in RIDs \ S :
          /\ writers'[r] = writers[r] /\ committed'[r] = committed[r]
          /\ \A v \in Tuple \cup {NoTuple} : Before(r, v)' => Before(r, v)
          /\ \A v, c : Undoes(undo_log[t], r, v, c) => Undoes(undo_log'[t], r, v, c)
    BY <2>1
  <2>3. \A r \in S :
          /\ writers'[r] \subseteq {t}
          /\ \A v \in Tuple \cup {NoTuple} : Before(r, v)' =>
               /\ writers'[r] = {} => v = committed'[r]
               /\ t \in writers'[r] => Undoes(undo_log'[t], r, v, committed'[r])
    OBVIOUS
  <2>4. Settled /\ ~asserted /\ \A u \in Tx \ {t} : undo_log'[u] = undo_log[u]
    OBVIOUS
  <2> QED
    BY ONLY <1>1, <2>2, <2>3, <2>4, SettledStep
<1> QED
  BY <1>3, <1>4, <1>5, <1>6, <1>7

-----------------------------------------------------------------------------
(* Who may change a row.                                                   *)
LEMMA Alone ==
  ASSUME IInv, NEW t \in Tx, ~New(t), NEW rid \in RIDs, readers[rid] \cup writers[rid] \subseteq {t},
         Known(t, rid) \/ (Waits(t) /\ call[t].rid = rid)
  PROVE  /\ Exists(pages, rid)
         /\ \A u \in Tx : ~At(u, rid) /\ ~From(u, rid)
<1>1. Exists(pages, rid)
  BY DEF IInv, RowsExist, Known
<1>2. ASSUME NEW u \in Tx, At(u, rid) PROVE FALSE
  <2>1. u # t /\ NewGood(u) /\ call[u].rid = rid
    BY <1>2 DEF IInv, NewRows, At
  <2>2. t \notin writers[rid] /\ u \notin writers[rid]
    BY <2>1 DEF NewGood
  <2> QED
    BY <2>1, <2>2 DEF NewGood, Known
<1>3. ASSUME NEW u \in Tx, From(u, rid) PROVE FALSE
  <2>1. u \in writers[rid] /\ New(u)
    BY <1>3 DEF IInv, MovedRows, MovedGood, From, New
  <2> QED
    BY <2>1
<1> QED
  BY <1>1, <1>2, <1>3

LEMMA Mine ==
  ASSUME IInv, ~asserted, NEW t \in Tx, pc[t] # "ended", NEW rid \in RIDs, writers[rid] \subseteq {t},
         NEW v \in Tuple \cup {NoTuple}, Before(rid, v)
  PROVE  Undoes(undo_log[t], rid, v, committed[rid])
<1>1. Rests(rid, v)
  BY DEF IInv, Settled
<1>2. CASE t \in writers[rid]
  BY <1>1, <1>2 DEF Rests
<1>3. CASE t \notin writers[rid]
  <2>1. v = committed[rid]
    BY <1>1, <1>3 DEF Rests
  <2>2. Untouched(undo_log[t], rid)
    BY <1>3 DEF IInv, LogsLocked, Untouched
  <2> QED
    BY <2>1, <2>2, UndoesUntouched
<1> QED
  BY <1>2, <1>3

(* An empty slot that an insert takes is nobody else's.                    *)
LEMMA FreeSlot ==
  ASSUME IInv, NEW t \in Tx, ~New(t), NoForeignHoles(t), NEW rid \in RIDs, Row(rid) = NoTuple
  PROVE  /\ writers[rid] \subseteq {t}
         /\ \A u \in Tx : ~At(u, rid) /\ ~From(u, rid)
         /\ \A u \in Tx \ {t} : Waits(u) => call[u].rid # rid
<1>1. rid \in AnyRid /\ writers \in [RIDs -> SUBSET Tx]
  BY RidsAre DEF IInv, TypeOK
<1>2. \A u \in Tx \ {t} : ~BelongsTo(u, rid)
  <2>1. CASE Exists(pages, rid)
    <3>1. /\ rid.page_id \in DOMAIN pages /\ rid.slot_num \in SlotNums(pages[rid.page_id])
          /\ rid = Rid(rid.page_id, rid.slot_num)
      BY <1>1, <2>1, RidIs DEF Exists
    <3>2. ~has_slot(pages[rid.page_id], rid.slot_num)
      <4>1. ~heap_has(pages, rid)
        BY <1>1, HeapTypes DEF IInv, Row
      <4> QED
        BY <3>1, <4>1 DEF heap_has
    <3> QED
      BY <3>1, <3>2 DEF NoForeignHoles
  <2>2. CASE ~Exists(pages, rid)
    <3>1. writers[rid] = {} /\ \A u \in Tx : ~(Waits(u) /\ call[u].rid = rid)
      BY <2>2 DEF IInv, RowsExist
    <3> QED
      BY <3>1 DEF BelongsTo, Waits
  <2> QED
    BY <2>1, <2>2
<1>3. writers[rid] \subseteq {t}
  BY <1>1, <1>2 DEF BelongsTo
<1>4. ASSUME NEW u \in Tx, At(u, rid) PROVE FALSE
  BY <1>4 DEF IInv, NewRows, NewGood, At
<1>5. ASSUME NEW u \in Tx, From(u, rid) PROVE FALSE
  <2>1. u \in writers[rid] /\ New(u)
    BY <1>5 DEF IInv, MovedRows, MovedGood, From, New
  <2> QED
    BY <1>3, <2>1
<1> QED
  BY <1>2, <1>3, <1>4, <1>5 DEF BelongsTo, Waits

LEMMA BeforeIs ==
  ASSUME NEW r, \A u \in Tx : ~At(u, r) /\ ~From(u, r)
  PROVE  Before(r, Row(r)) /\ \A v : Before(r, v) => v = Row(r)
BY DEF Before

LEMMA RowTyped == IInv => \A r : Row(r) \in Tuple \cup {NoTuple}
BY HeapTypes DEF IInv, Row

-----------------------------------------------------------------------------
(* Locks.                                                                  *)
LEMMA LockStep ==
  ASSUME Exclusive, NEW t \in Tx, NEW rid \in RIDs,
         readers \in [RIDs -> SUBSET Tx], writers \in [RIDs -> SUBSET Tx],
         \/ Locks!AcquireShared(t, rid) /\ t \notin writers[rid]
         \/ Locks!AcquireExclusive(t, rid)
         \/ Locks!DropShared(t, rid)
         \/ Locks!ReleaseAll(t)
         \/ UNCHANGED lockVars
  PROVE  Exclusive' /\ readers' \in [RIDs -> SUBSET Tx] /\ writers' \in [RIDs -> SUBSET Tx]
<1>1. CASE Locks!AcquireShared(t, rid) /\ t \notin writers[rid]
  <2>1. /\ readers' = [readers EXCEPT ![rid] = @ \cup {t}]
        /\ writers' = writers /\ writers[rid] = {}
    BY <1>1 DEF Locks!AcquireShared
  <2>2. \A r \in RIDs : r # rid => readers'[r] = readers[r]
    BY <2>1
  <2> QED
    BY <2>1, <2>2 DEF Exclusive
<1>2. CASE Locks!AcquireExclusive(t, rid)
  <2>1. /\ readers[rid] \subseteq {t}
        /\ readers' = [readers EXCEPT ![rid] = @ \ {t}]
        /\ writers' = [writers EXCEPT ![rid] = {t}]
    BY <1>2 DEF Locks!AcquireExclusive
  <2>2. \A r \in RIDs : r # rid => readers'[r] = readers[r] /\ writers'[r] = writers[r]
    BY <2>1
  <2>3. writers'[rid] = {t} /\ readers'[rid] = {}
    BY <2>1
  <2>4. Exclusive'
    BY <2>2, <2>3 DEF Exclusive
  <2> QED
    BY <2>1, <2>4
<1>3. CASE Locks!DropShared(t, rid)
  <2>1. /\ readers' = [readers EXCEPT ![rid] = @ \ {t}]
        /\ writers' = writers
    BY <1>3 DEF Locks!DropShared
  <2>2. \A r \in RIDs : readers'[r] \subseteq readers[r]
    BY <2>1
  <2> QED
    BY <2>1, <2>2 DEF Exclusive
<1>4. CASE Locks!ReleaseAll(t)
  <2>1. /\ readers' = [r \in RIDs |-> readers[r] \ {t}]
        /\ writers' = [r \in RIDs |-> writers[r] \ {t}]
    BY <1>4 DEF Locks!ReleaseAll
  <2>2. \A r \in RIDs : readers'[r] \subseteq readers[r] /\ writers'[r] \subseteq writers[r]
    BY <2>1
  <2>3. Exclusive'
    BY <2>2 DEF Exclusive
  <2> QED
    BY <2>1, <2>3
<1>5. CASE UNCHANGED lockVars
  BY <1>5 DEF lockVars, Exclusive
<1> QED
  BY <1>1, <1>2, <1>3, <1>4, <1>5

LEMMA HeapNext ==
  ASSUME NEW c, GoodHeap(c), Fits(c), NEW rid \in RIDs
  PROVE  heap_next(c, rid) \in RIDs
<1> DEFINE From0(i) == IF i = rid.page_id THEN rid.slot_num ELSE 0
           Rows(i)  == {s \in Occupied(c[i]) : s >= From0(i)}
           later    == {i \in rid.page_id .. Len(c) : Rows(i) # {}}
           m        == Min(later)
<1>1. /\ rid.page_id \in 1 .. MaxPages /\ rid.slot_num \in 0 .. MaxSlots
      /\ MaxPages \in Nat /\ MaxSlots \in Nat
  BY RidsAre DEF RIDs
<1>2. /\ Len(c) \in Nat /\ Len(c) >= 1 /\ Len(c) <= MaxPages /\ DOMAIN c = 1 .. Len(c)
      /\ \A i \in 1 .. Len(c) : /\ slot_count(c[i]) \in Nat /\ slot_count(c[i]) <= MaxSlots
                                /\ SlotNums(c[i]) = 0 .. slot_count(c[i]) - 1
  BY HeapTypes DEF GoodHeap, Fits
<1>3. heap_next(c, rid) = IF later = {} THEN Rid(Len(c), From0(Len(c))) ELSE Rid(m, Min(Rows(m)) + 1)
  BY DEF heap_next
<1>4. CASE later = {}
  <2>1. Len(c) \in 1 .. MaxPages /\ From0(Len(c)) \in 0 .. MaxSlots
    BY <1>1, <1>2
  <2> HIDE DEF From0, later
  <2> QED
    BY <1>3, <1>4, <2>1 DEF Rid, RIDs
<1>5. CASE later # {}
  <2>1. later \in SUBSET Nat
    BY <1>1, <1>2
  <2>2. m \in later
    <3> HIDE DEF later
    <3>1. \E x \in later : \A y \in later : x <= y
      BY <1>5, <2>1, Least
    <3> QED
      BY <3>1 DEF Min
  <2> HIDE DEF m, Rows
  <2>3. m \in 1 .. Len(c) /\ Rows(m) # {}
    <3>1. m \in rid.page_id .. Len(c) /\ Rows(m) # {}
      BY <2>2
    <3> QED
      BY <1>1, <1>2, <3>1
  <2> HIDE DEF later
  <2> USE DEF Rows
  <2>4. Rows(m) \in SUBSET (0 .. slot_count(c[m]) - 1)
    BY <1>2, <2>3 DEF Occupied
  <2> DEFINE R == Rows(m)
  <2>5. R \in SUBSET (0 .. slot_count(c[m]) - 1) /\ R # {}
    BY <2>3, <2>4
  <2> HIDE DEF R, Rows
  <2>6. R \in SUBSET Nat
    BY <2>5
  <2>7. Min(R) \in R
    <3>1. \E x \in R : \A y \in R : x <= y
      BY <2>5, <2>6, Least
    <3> QED
      BY <3>1 DEF Min
  <2>8. Min(R) \in 0 .. slot_count(c[m]) - 1 /\ slot_count(c[m]) \in Nat /\ slot_count(c[m]) <= MaxSlots
    BY <1>2, <2>3, <2>5, <2>7
  <2>9. Min(R) + 1 \in 0 .. MaxSlots /\ m \in 1 .. MaxPages
    BY <1>1, <1>2, <2>3, <2>8
  <2> QED
    BY <1>3, <1>5, <2>9 DEF Rid, RIDs, R
<1> QED
  BY <1>4, <1>5

-----------------------------------------------------------------------------
(* Calls that change no row and end no transaction.                        *)
LEMMA QuietStep ==
  ASSUME IInv, ~asserted, NEW t \in Tx, TypeOK', Exclusive',
         UNCHANGED <<pages, writers, undo_log, committed, asserted>>,
         \A u \in Tx \ {t} : pc'[u] = pc[u] /\ call'[u] = call[u],
         ~New(t), ~New(t)', pc[t] # "ended",
         Waits(t)' => /\ Exists(pages, call'[t].rid)
                      /\ \A u \in Tx \ {t} : New(u) => call[u].rid # call'[t].rid
  PROVE  IInv'
<1>1. \A r \in RIDs : /\ ~At(t, r) /\ ~From(t, r) /\ ~At(t, r)' /\ ~From(t, r)'
                      /\ Row(r)' = Row(r)
  BY DEF At, From, New, Row
<1>2. \A i \in DOMAIN undo_log'[t] : t \in writers'[undo_log'[t][i].rid]
  BY DEF IInv, LogsLocked
<1>3. pc'[t] # "moved"
  BY DEF New
<1>4. {} \in SUBSET RIDs /\ GoodHeap(pages')
  BY DEF IInv
<1>5. \A r \in RIDs \ {} :
        /\ writers'[r] = writers[r] /\ committed'[r] = committed[r] /\ Row(r)' = Row(r)
        /\ (At(t, r)' <=> At(t, r)) /\ (From(t, r)' <=> From(t, r))
        /\ From(t, r) => call'[t].tuple = call[t].tuple
        /\ \A v, c : Undoes(undo_log[t], r, v, c) => Undoes(undo_log'[t], r, v, c)
  BY <1>1
<1> QED
  BY <1>2, <1>3, <1>4, <1>5, Step

LEMMA ReadStep ==
  ASSUME IInv, NEW t \in Tx, NEW rid \in RIDs, Read(t, rid)
  PROVE  IInv'
<1>1. /\ pc[t] = "ready" /\ ~asserted /\ calls < MaxCalls /\ calls' = calls + 1
      /\ UNCHANGED <<pages, state, undo_log, pc, call, cursor, asserted, committed>>
  BY DEF Read, Ready, Count
<1>2. (Locks!AcquireShared(t, rid) /\ t \notin writers[rid]) \/ UNCHANGED lockVars
  BY DEF Read, lock_shared
<1>3. UNCHANGED writers
  BY <1>2 DEF lockVars, Locks!AcquireShared
<1>4. Exclusive' /\ readers' \in [RIDs -> SUBSET Tx] /\ writers' \in [RIDs -> SUBSET Tx]
  BY <1>2, LockStep DEF IInv, TypeOK
<1>5. calls' \in 0 .. MaxCalls
  BY <1>1, RidsAre DEF IInv, TypeOK
<1>6. TypeOK'
  BY <1>1, <1>4, <1>5 DEF IInv, TypeOK
<1> QED
  BY <1>1, <1>3, <1>4, <1>6, QuietStep DEF New, Waits

LEMMA ScanStep ==
  ASSUME IInv, NEW t \in Tx, ScanNext(t)
  PROVE  IInv'
<1>1. /\ pc[t] = "ready" /\ ~asserted /\ calls < MaxCalls /\ calls' = calls + 1
      /\ cursor' = [cursor EXCEPT ![t] = heap_next(pages, @)]
      /\ UNCHANGED <<pages, state, undo_log, pc, call, asserted, committed>>
  BY DEF ScanNext, Ready, Count
<1>2. cursor[t] \in RIDs /\ cursor \in [Tx -> RIDs]
  BY DEF IInv, TypeOK
<1>3. (Locks!AcquireShared(t, cursor[t]) /\ t \notin writers[cursor[t]]) \/ UNCHANGED lockVars
  BY DEF ScanNext, lock_shared
<1>4. UNCHANGED writers
  BY <1>3 DEF lockVars, Locks!AcquireShared
<1>5. Exclusive' /\ readers' \in [RIDs -> SUBSET Tx] /\ writers' \in [RIDs -> SUBSET Tx]
  BY <1>2, <1>3, LockStep DEF IInv, TypeOK
<1>6. heap_next(pages, cursor[t]) \in RIDs
  BY <1>2, HeapNext, TypeFits DEF IInv
<1>7. cursor' \in [Tx -> RIDs]
  BY <1>1, <1>2, <1>6
<1>8. calls' \in 0 .. MaxCalls
  BY <1>1, RidsAre DEF IInv, TypeOK
<1>9. TypeOK'
  BY <1>1, <1>5, <1>7, <1>8 DEF IInv, TypeOK
<1> QED
  BY <1>1, <1>4, <1>5, <1>9, QuietStep DEF New, Waits

LEMMA TimeOutStep ==
  ASSUME IInv, NEW t \in Tx, NEW rid \in RIDs, TimeOut(t, rid)
  PROVE  IInv'
<1>1. /\ pc[t] = "ready" /\ ~asserted /\ calls < MaxCalls /\ calls' = calls + 1
      /\ state' = [state EXCEPT ![t] = "ABORTED"]
      /\ UNCHANGED <<pages, lockVars, undo_log, pc, call, cursor, asserted, committed>>
  BY DEF TimeOut, Ready, Count
<1>2. UNCHANGED <<readers, writers>>
  BY <1>1 DEF lockVars
<1>3. Exclusive'
  BY <1>2 DEF IInv, Exclusive
<1>4. calls' \in 0 .. MaxCalls
  BY <1>1, RidsAre DEF IInv, TypeOK
<1>5. TypeOK'
  BY <1>1, <1>2, <1>4 DEF IInv, TypeOK
<1> QED
  BY <1>1, <1>2, <1>3, <1>5, QuietStep DEF New, Waits

LEMMA UpgradeWaitsStep ==
  ASSUME IInv, NEW t \in Tx, NEW rid \in RIDs, NEW tuple \in Tuple \cup {NoTuple},
         UpgradeWaits(t, rid, tuple)
  PROVE  IInv'
<1> DEFINE c == [rid |-> rid, old |-> rid, tuple |-> tuple]
<1>1. /\ pc[t] = "ready" /\ ~asserted /\ calls < MaxCalls /\ calls' = calls + 1
      /\ Known(t, rid) /\ t \in readers[rid] /\ ~CanWrite(t, rid)
      /\ Locks!DropShared(t, rid)
      /\ pc' = [pc EXCEPT ![t] = "upgrade"] /\ call' = [call EXCEPT ![t] = c]
      /\ UNCHANGED <<pages, state, undo_log, cursor, asserted, committed>>
  BY DEF UpgradeWaits, Ready, Count
<1>2. c \in Call /\ c.rid = rid
  BY DEF Call
<1> HIDE DEF c
<1>3. pc \in [Tx -> {"ready", "upgrade", "inserted", "moved", "undo", "ended"}] /\ call \in [Tx -> Call]
  BY DEF IInv, TypeOK
<1>4. /\ pc'[t] = "upgrade" /\ call'[t] = c
      /\ \A u \in Tx \ {t} : pc'[u] = pc[u] /\ call'[u] = call[u]
  BY <1>1, <1>3
<1>5. UNCHANGED writers
  BY <1>1 DEF Locks!DropShared
<1>6. Exclusive' /\ readers' \in [RIDs -> SUBSET Tx] /\ writers' \in [RIDs -> SUBSET Tx]
  BY <1>1, LockStep DEF IInv, TypeOK
<1>7. calls' \in 0 .. MaxCalls
  BY <1>1, RidsAre DEF IInv, TypeOK
<1>8. pc' \in [Tx -> {"ready", "upgrade", "inserted", "moved", "undo", "ended"}] /\ call' \in [Tx -> Call]
  BY <1>1, <1>2, <1>3
<1>9. TypeOK'
  BY <1>1, <1>6, <1>7, <1>8 DEF IInv, TypeOK
<1>10. t \notin writers[rid]
  BY <1>1 DEF IInv, Exclusive, CanWrite
<1>11. Exists(pages, rid)
  BY <1>1 DEF IInv, RowsExist, Known
<1>12. ASSUME NEW u \in Tx \ {t}, New(u), call[u].rid = rid PROVE FALSE
  <2>1. committed[rid] = NoTuple \/ u \in writers[rid]
    BY <1>12 DEF IInv, NewRows, NewGood
  <2>2. u \in writers[rid]
    BY <1>1, <1>10, <2>1 DEF Known
  <2>3. readers[rid] \subseteq {u}
    BY <2>2 DEF IInv, Exclusive
  <2> QED
    BY <1>1, <2>3
<1> QED
  BY <1>1, <1>2, <1>4, <1>5, <1>6, <1>9, <1>11, <1>12, QuietStep DEF New, Waits

LEMMA UpgradeTimesOutStep ==
  ASSUME IInv, NEW t \in Tx, UpgradeTimesOut(t)
  PROVE  IInv'
<1>1. /\ pc[t] = "upgrade" /\ ~asserted
      /\ state' = [state EXCEPT ![t] = "ABORTED"]
      /\ pc' = [pc EXCEPT ![t] = "ready"] /\ call' = [call EXCEPT ![t] = NoCall]
      /\ UNCHANGED <<pages, lockVars, undo_log, cursor, calls, asserted, committed>>
  BY DEF UpgradeTimesOut
<1>2. UNCHANGED <<readers, writers>>
  BY <1>1 DEF lockVars
<1>3. Exclusive'
  BY <1>2 DEF IInv, Exclusive
<1>4. pc \in [Tx -> {"ready", "upgrade", "inserted", "moved", "undo", "ended"}] /\ call \in [Tx -> Call]
  BY DEF IInv, TypeOK
<1>5. NoCall \in Call
  BY RidsAre DEF NoCall, Call
<1>6. /\ pc'[t] = "ready"
      /\ \A u \in Tx \ {t} : pc'[u] = pc[u] /\ call'[u] = call[u]
  BY <1>1, <1>4
<1>7. pc' \in [Tx -> {"ready", "upgrade", "inserted", "moved", "undo", "ended"}] /\ call' \in [Tx -> Call]
  BY <1>1, <1>4, <1>5
<1>8. TypeOK'
  BY <1>1, <1>2, <1>7 DEF IInv, TypeOK
<1> QED
  BY <1>1, <1>2, <1>3, <1>6, <1>8, QuietStep DEF New, Waits

LEMMA AbortStep ==
  ASSUME IInv, NEW t \in Tx, Abort(t)
  PROVE  IInv'
<1>1. /\ pc[t] = "ready" /\ ~asserted /\ pc' = [pc EXCEPT ![t] = "undo"]
      /\ UNCHANGED <<pages, lockVars, state, undo_log, call, cursor, calls, asserted, committed>>
  BY DEF Abort
<1>2. UNCHANGED <<readers, writers>>
  BY <1>1 DEF lockVars
<1>3. Exclusive'
  BY <1>2 DEF IInv, Exclusive
<1>4. pc \in [Tx -> {"ready", "upgrade", "inserted", "moved", "undo", "ended"}]
  BY DEF IInv, TypeOK
<1>5. pc'[t] = "undo" /\ \A u \in Tx \ {t} : pc'[u] = pc[u]
  BY <1>1, <1>4
<1>6. TypeOK'
  BY <1>1, <1>2 DEF IInv, TypeOK
<1> QED
  BY <1>1, <1>2, <1>3, <1>5, <1>6, QuietStep DEF New, Waits

-----------------------------------------------------------------------------
(* An insert, before its lock: the row is in a slot that was free.         *)
LEMMA InsertStep ==
  ASSUME IInv, NEW t \in Tx, NEW tuple \in Tuple, Insert(t, tuple)
  PROVE  IInv'
<1>1. PICK in : in = heap_insert(pages, tuple)
  OBVIOUS
<1>2. PICK r : r = in.rid
  OBVIOUS
<1>3. PICK c : c = [rid |-> r, old |-> r, tuple |-> NoTuple]
  OBVIOUS
<1>4. /\ pc[t] = "ready" /\ ~asserted /\ calls < MaxCalls /\ calls' = calls + 1
      /\ NoForeignHoles(t) /\ Fits(in.pages) /\ pages' = in.pages
      /\ pc' = [pc EXCEPT ![t] = "inserted"] /\ call' = [call EXCEPT ![t] = c]
      /\ UNCHANGED <<lockVars, state, undo_log, cursor, asserted, committed>>
  BY <1>1, <1>2, <1>3 DEF Insert, Ready, Count
<1>5. UNCHANGED <<readers, writers>>
  BY <1>4 DEF lockVars
<1>6. OneChange(pages, pages', r, tuple) /\ RowIn(pages, r) = NoTuple
  BY <1>1, <1>2, <1>4, HeapInsert DEF IInv
<1>7. GoodHeap(pages') /\ r \in AnyRid /\ Exists(pages', r) /\ Row(r)' = tuple /\ Row(r) = NoTuple
  BY <1>6 DEF OneChange, Row
<1>8. /\ r \in RIDs
      /\ \A x \in RIDs : Exists(pages, x) => Exists(pages', x)
      /\ \A x \in RIDs : x # r => Row(x)' = Row(x)
  BY <1>4, <1>6, <1>7, RidIn, RidsAre DEF OneChange, Row
<1>9. /\ pc \in [Tx -> {"ready", "upgrade", "inserted", "moved", "undo", "ended"}] /\ call \in [Tx -> Call]
      /\ writers \in [RIDs -> SUBSET Tx]
  BY DEF IInv, TypeOK
<1>10. /\ pc'[t] = "inserted" /\ call'[t] = c /\ c.rid = r
       /\ \A u \in Tx \ {t} : pc'[u] = pc[u] /\ call'[u] = call[u] /\ undo_log'[u] = undo_log[u]
  BY <1>3, <1>4, <1>9
<1>11. TypeOK'
  <2>1. pc' \in [Tx -> {"ready", "upgrade", "inserted", "moved", "undo", "ended"}]
    BY <1>4, <1>9
  <2>2. c \in Call
    BY <1>3, <1>8 DEF Call
  <2>3. call' \in [Tx -> Call]
    BY <1>4, <1>9, <2>2
  <2>4. calls' \in 0 .. MaxCalls
    BY <1>4, RidsAre DEF IInv, TypeOK
  <2>5. /\ Len(pages') \in 1 .. MaxPages
        /\ \A i \in DOMAIN pages' : /\ pages'[i].slots \in Seq(Slot)
                                    /\ slot_count(pages'[i]) <= MaxSlots
                                    /\ pages'[i].free_space_offset \in 0 .. kPAGE_SIZE
    BY <1>4, <1>7, HeapFits
  <2>6. (\A i \in DOMAIN pages : /\ pages[i].slots \in Seq(Slot)
                                 /\ slot_count(pages[i]) <= MaxSlots
                                 /\ pages[i].free_space_offset \in 0 .. kPAGE_SIZE)'
    BY <2>5 DEF slot_count
  <2> QED
    BY <1>4, <1>5, <2>1, <2>3, <2>4, <2>5, <2>6 DEF IInv, TypeOK
<1>12. /\ ~New(t) /\ pc[t] # "ended" /\ writers[r] \subseteq {t}
       /\ \A u \in Tx : ~At(u, r) /\ ~From(u, r)
       /\ \A u \in Tx \ {t} : Waits(u) => call[u].rid # r
  BY <1>4, <1>7, <1>8, FreeSlot DEF New
<1>13. Before(r, NoTuple)
  BY <1>7, <1>12, BeforeIs
<1>14. /\ writers[r] = {} => committed[r] = NoTuple
       /\ t \in writers[r] => Undoes(undo_log[t], r, NoTuple, committed[r])
  <2>1. Rests(r, NoTuple)
    BY <1>8, <1>13 DEF IInv, Settled
  <2> QED
    BY <1>4, <2>1 DEF Rests
<1>15. ASSUME NEW v, Before(r, v)' PROVE v = NoTuple
  <2>1. At(t, r)' /\ \A u \in Tx : ~From(u, r)'
    BY <1>10, <1>12 DEF At, From, New
  <2> QED
    BY <1>15, <2>1 DEF Before
<1>16. \A x \in {r} :
         /\ Exists(pages', x)
         /\ writers[x] \subseteq {t} /\ writers'[x] \subseteq {t}
         /\ \A u \in Tx \ {t} : ~At(u, x) /\ ~From(u, x)
         /\ \A v \in Tuple \cup {NoTuple} : Before(x, v)' =>
              /\ writers'[x] = {} => v = committed'[x]
              /\ t \in writers'[x] => Undoes(undo_log'[t], x, v, committed'[x])
  <2> SUFFICES ASSUME NEW v \in Tuple \cup {NoTuple}, Before(r, v)'
               PROVE  /\ writers'[r] = {} => v = committed'[r]
                      /\ t \in writers'[r] => Undoes(undo_log'[t], r, v, committed'[r])
    BY <1>5, <1>7, <1>12
  <2> QED
    BY <1>4, <1>5, <1>14, <1>15
<1>17. \A x \in RIDs \ {r} :
         /\ writers'[x] = writers[x] /\ committed'[x] = committed[x] /\ Row(x)' = Row(x)
         /\ (At(t, x)' <=> At(t, x)) /\ (From(t, x)' <=> From(t, x))
         /\ From(t, x) => call'[t].tuple = call[t].tuple
         /\ \A v, w : Undoes(undo_log[t], x, v, w) => Undoes(undo_log'[t], x, v, w)
  BY <1>4, <1>5, <1>8, <1>10 DEF At, From, New
<1>18. Exclusive'
  BY <1>5 DEF IInv, Exclusive
<1>19. \A i \in DOMAIN undo_log'[t] : t \in writers'[undo_log'[t][i].rid]
  BY <1>4, <1>5 DEF IInv, LogsLocked
<1>20. NewGood(t)'
  <2>1. \A u \in Tx \ {t} : (New(u) \/ Waits(u))' => call'[u].rid # r
    BY <1>10, <1>12 DEF New, Waits, At
  <2>2. tuple # NoTuple
    BY NoTupleAssumption
  <2>3. \A x : x = r => (Row(x)' # NoTuple)
    BY <1>7, <2>2
  <2>4. committed[r] = NoTuple \/ t \in writers[r]
    BY <1>12, <1>14
  <2> QED
    BY <1>4, <1>5, <1>7, <1>10, <1>12, <2>1, <2>2, <2>4 DEF NewGood
<1>21. pc'[t] # "moved" /\ ~Waits(t)'
  BY <1>10 DEF Waits
<1>22. {r} \in SUBSET RIDs /\ ~asserted' /\ ~asserted
  BY <1>4, <1>8
<1>23. /\ IInv /\ t \in Tx /\ \A x \in RIDs : Exists(pages, x) => Exists(pages', x)
       /\ \A u \in Tx \ {t} : pc'[u] = pc[u] /\ call'[u] = call[u] /\ undo_log'[u] = undo_log[u]
       /\ GoodHeap(pages')
       /\ New(t)' => NewGood(t)'
       /\ pc'[t] = "moved" => MovedGood(t)'
       /\ Waits(t)' => /\ Exists(pages', call'[t].rid)
                       /\ \A u \in Tx \ {t} : New(u) => call[u].rid # call'[t].rid
  BY <1>7, <1>8, <1>10, <1>20, <1>21
<1> QED
  BY ONLY <1>11, <1>16, <1>17, <1>18, <1>19, <1>22, <1>23, Step

-----------------------------------------------------------------------------
(* A call that has pushed the records of the rows it has changed.          *)
LEMMA HeapTyped ==
  ASSUME GoodHeap(pages'), Fits(pages')
  PROVE  (/\ Len(pages) \in 1 .. MaxPages
          /\ \A i \in DOMAIN pages : /\ pages[i].slots \in Seq(Slot)
                                     /\ slot_count(pages[i]) <= MaxSlots
                                     /\ pages[i].free_space_offset \in 0 .. kPAGE_SIZE)'
<1>1. /\ Len(pages') \in 1 .. MaxPages
      /\ \A i \in DOMAIN pages' : /\ pages'[i].slots \in Seq(Slot)
                                  /\ slot_count(pages'[i]) <= MaxSlots
                                  /\ pages'[i].free_space_offset \in 0 .. kPAGE_SIZE
  BY HeapFits
<1> QED
  BY <1>1 DEF slot_count

LEMMA LogStep ==
  ASSUME IInv, ~asserted, NEW t \in Tx, pc[t] # "ended",
         NEW S \in SUBSET RIDs, NEW rid \in S, Locks!AcquireExclusive(t, rid),
         GoodHeap(pages'), Fits(pages'), \A x \in RIDs : Exists(pages, x) => Exists(pages', x),
         \A x \in S : /\ Exists(pages', x) /\ writers[x] \subseteq {t}
                      /\ \A u \in Tx \ {t} : ~At(u, x) /\ ~From(u, x),
         \A x \in RIDs \ S : Row(x)' = Row(x) /\ ~At(t, x) /\ ~From(t, x),
         pc' = [pc EXCEPT ![t] = "ready"], call' = [call EXCEPT ![t] = NoCall],
         NEW log \in Seq(UndoRecord), undo_log' = [undo_log EXCEPT ![t] = log],
         \A x \in S : Undoes(log, x, Row(x)', committed[x]) /\ t \in writers'[x],
         \A x \in RIDs \ S : \A v, c : Undoes(undo_log[t], x, v, c) => Undoes(log, x, v, c),
         \A i \in DOMAIN log : t \in writers'[log[i].rid],
         UNCHANGED <<state, cursor, asserted, committed>>, calls' \in 0 .. MaxCalls
  PROVE  IInv'
<1>1. /\ pc \in [Tx -> {"ready", "upgrade", "inserted", "moved", "undo", "ended"}] /\ call \in [Tx -> Call]
      /\ readers \in [RIDs -> SUBSET Tx] /\ writers \in [RIDs -> SUBSET Tx]
      /\ undo_log \in [Tx -> Seq(UndoRecord)] /\ Exclusive
  BY DEF IInv, TypeOK
<1>2. /\ rid \in RIDs /\ writers' = [writers EXCEPT ![rid] = {t}]
  BY DEF Locks!AcquireExclusive
<1>3. Exclusive' /\ readers' \in [RIDs -> SUBSET Tx] /\ writers' \in [RIDs -> SUBSET Tx]
  BY <1>1, <1>2, LockStep
<1>4. /\ pc'[t] = "ready" /\ undo_log'[t] = log
      /\ \A u \in Tx \ {t} : pc'[u] = pc[u] /\ call'[u] = call[u] /\ undo_log'[u] = undo_log[u]
  BY <1>1
<1>5. TypeOK'
  <2>1. NoCall \in Call
    BY RidsAre DEF NoCall, Call
  <2>2. /\ pc' \in [Tx -> {"ready", "upgrade", "inserted", "moved", "undo", "ended"}] /\ call' \in [Tx -> Call]
        /\ undo_log' \in [Tx -> Seq(UndoRecord)]
    BY <1>1, <2>1
  <2> QED
    BY <1>3, <2>2, HeapTyped DEF IInv, TypeOK
<1>6. \A x \in RIDs \ S : writers'[x] = writers[x]
  BY <1>1, <1>2
<1>7. \A x : ~At(t, x)' /\ ~From(t, x)'
  BY <1>4 DEF At, From, New
<1>8. \A x \in S :
        /\ Exists(pages', x)
        /\ writers[x] \subseteq {t} /\ writers'[x] \subseteq {t}
        /\ \A u \in Tx \ {t} : ~At(u, x) /\ ~From(u, x)
        /\ \A v \in Tuple \cup {NoTuple} : Before(x, v)' =>
             /\ writers'[x] = {} => v = committed'[x]
             /\ t \in writers'[x] => Undoes(undo_log'[t], x, v, committed'[x])
  <2> SUFFICES ASSUME NEW x \in S
               PROVE  /\ writers'[x] \subseteq {t}
                      /\ \A v \in Tuple \cup {NoTuple} : Before(x, v)' =>
                            Undoes(log, x, v, committed[x])
    BY <1>4
  <2>1. writers'[x] \subseteq {t}
    BY <1>1, <1>2
  <2>2. \A u \in Tx : ~At(u, x)' /\ ~From(u, x)'
    BY <1>4, <1>7 DEF At, From, New
  <2>3. ASSUME NEW v, Before(x, v)' PROVE v = Row(x)'
    BY <2>2, <2>3 DEF Before
  <2> QED
    BY <2>1, <2>3
<1>9. \A x \in RIDs \ S :
        /\ writers'[x] = writers[x] /\ committed'[x] = committed[x] /\ Row(x)' = Row(x)
        /\ (At(t, x)' <=> At(t, x)) /\ (From(t, x)' <=> From(t, x))
        /\ From(t, x) => call'[t].tuple = call[t].tuple
        /\ \A v, c : Undoes(undo_log[t], x, v, c) => Undoes(undo_log'[t], x, v, c)
  BY <1>4, <1>6, <1>7
<1>10. \A i \in DOMAIN undo_log'[t] : t \in writers'[undo_log'[t][i].rid]
  BY <1>4
<1>11. /\ IInv /\ ~asserted /\ ~asserted' /\ t \in Tx /\ S \in SUBSET RIDs /\ GoodHeap(pages')
       /\ \A x \in RIDs : Exists(pages, x) => Exists(pages', x)
       /\ \A u \in Tx \ {t} : pc'[u] = pc[u] /\ call'[u] = call[u] /\ undo_log'[u] = undo_log[u]
       /\ New(t)' => NewGood(t)'
       /\ pc'[t] = "moved" => MovedGood(t)'
       /\ Waits(t)' => /\ Exists(pages', call'[t].rid)
                       /\ \A u \in Tx \ {t} : New(u) => call[u].rid # call'[t].rid
  BY <1>4 DEF New, Waits
<1> QED
  BY ONLY <1>3, <1>5, <1>8, <1>9, <1>10, <1>11, Step

LEMMA PushLocked ==
  ASSUME NEW log, log \in Seq(UndoRecord), NEW x \in UndoRecord, NEW W,
         \A i \in DOMAIN log : log[i].rid \in W, x.rid \in W
  PROVE  \A i \in DOMAIN (log \o <<x>>) : (log \o <<x>>)[i].rid \in W
<1> DEFINE log2 == log \o <<x>>
           n    == Len(log)
<1>1. /\ n \in Nat /\ DOMAIN log = 1 .. n /\ Len(log2) = n + 1 /\ DOMAIN log2 = 1 .. n + 1
      /\ log2[n + 1] = x /\ \A i \in 1 .. n : log2[i] = log[i]
  BY Pushed
<1> HIDE DEF log2, n
<1>2. \A i \in 1 .. n + 1 : i \in 1 .. n \/ i = n + 1
  BY <1>1
<1>3. \A i \in DOMAIN log2 : log2[i].rid \in W
  BY <1>1, <1>2
<1> QED
  BY <1>3 DEF log2

LEMMA TwoElements ==
  ASSUME NEW S, NEW log \in Seq(S), NEW x \in S, NEW y \in S
  PROVE  /\ log \o <<x>> = Append(log, x)
         /\ log \o <<x, y>> = Append(Append(log, x), y)
OBVIOUS

LEMMA TwoRecords ==
  ASSUME NEW log, log \in Seq(UndoRecord), NEW x \in UndoRecord, NEW y \in UndoRecord
  PROVE  /\ log \o <<x>> \in Seq(UndoRecord)
         /\ log \o <<x, y>> = (log \o <<x>>) \o <<y>>
         /\ log \o <<x, y>> \in Seq(UndoRecord)
<1>1. log \o <<x>> = Append(log, x) /\ log \o <<x, y>> = Append(Append(log, x), y)
  BY TwoElements
<1>2. Append(log, x) \in Seq(UndoRecord)
  OBVIOUS
<1>3. Append(log, x) \o <<y>> = Append(Append(log, x), y)
  BY <1>2, TwoElements
<1>4. Append(Append(log, x), y) \in Seq(UndoRecord)
  BY <1>2
<1> QED
  BY <1>1, <1>2, <1>3, <1>4

LEMMA UndoRecords ==
  ASSUME NEW rid \in RIDs
  PROVE  /\ DeleteUndo(rid) \in UndoRecord /\ DeleteUndo(rid).rid = rid
         /\ \A v \in Tuple : RestoreUndo(rid, v) \in UndoRecord /\ RestoreUndo(rid, v).rid = rid
BY DEF DeleteUndo, RestoreUndo, UndoRecord

(* The row that t has inserted or moved is t's alone.                      *)
LEMMA NewAlone ==
  ASSUME IInv, ~asserted, NEW t \in Tx, New(t), NEW rid, rid = call[t].rid
  PROVE  /\ rid \in RIDs /\ Exists(pages, rid) /\ Row(rid) \in Tuple /\ writers[rid] \subseteq {t}
         /\ \A u \in Tx \ {t} : ~At(u, rid) /\ ~From(u, rid)
         /\ Before(rid, NoTuple)
         /\ Undoes(undo_log[t], rid, NoTuple, committed[rid])
         /\ writers[rid] = {} => committed[rid] = NoTuple
<1>1. /\ Row(rid) # NoTuple /\ writers[rid] \subseteq {t}
      /\ \A u \in Tx \ {t} : New(u) \/ Waits(u) => call[u].rid # rid
  BY DEF IInv, NewRows, NewGood
<1>2. rid \in RIDs /\ rid \in AnyRid
  BY RidsAre DEF IInv, TypeOK, Call
<1>3. Row(rid) \in Tuple
  BY <1>1, RowTyped
<1>4. Exists(pages, rid)
  BY <1>1, <1>2, HeapTypes DEF IInv, Row, heap_has, Exists, has_slot
<1>5. ASSUME NEW u \in Tx \ {t} PROVE ~At(u, rid) /\ ~From(u, rid)
  <2>1. ~At(u, rid)
    BY <1>1 DEF At
  <2>2. From(u, rid) => u \in writers[rid]
    BY DEF IInv, MovedRows, MovedGood, From
  <2> QED
    BY <1>1, <2>1, <2>2
<1>6. Before(rid, NoTuple)
  BY DEF Before, At
<1>7. Undoes(undo_log[t], rid, NoTuple, committed[rid])
  BY <1>1, <1>2, <1>6, Mine DEF New
<1>8. writers[rid] = {} => committed[rid] = NoTuple
  BY <1>2, <1>6 DEF IInv, Settled, Rests
<1> QED
  BY <1>1, <1>2, <1>3, <1>4, <1>5, <1>6, <1>7, <1>8

(* The row that t has moved away is t's alone.                             *)
LEMMA OldAlone ==
  ASSUME IInv, ~asserted, NEW t \in Tx, pc[t] = "moved", NEW old, old = call[t].old
  PROVE  /\ old \in RIDs /\ Exists(pages, old) /\ Row(old) = NoTuple /\ writers[old] = {t}
         /\ call[t].tuple \in Tuple /\ old # call[t].rid
         /\ \A u \in Tx \ {t} : ~At(u, old) /\ ~From(u, old)
         /\ Undoes(undo_log[t], old, call[t].tuple, committed[old])
<1>1. /\ old # call[t].rid /\ t \in writers[old] /\ Row(old) = NoTuple /\ call[t].tuple \in Tuple
  BY DEF IInv, MovedRows, MovedGood
<1>2. old \in RIDs
  BY DEF IInv, TypeOK, Call
<1>3. writers[old] = {t}
  BY <1>1, <1>2 DEF IInv, Exclusive
<1>4. Exists(pages, old)
  BY <1>2, <1>3 DEF IInv, RowsExist
<1>5. ASSUME NEW u \in Tx \ {t} PROVE ~At(u, old) /\ ~From(u, old)
  <2>1. At(u, old) => writers[old] \subseteq {u}
    BY DEF IInv, NewRows, NewGood, At
  <2>2. From(u, old) => u \in writers[old]
    BY DEF IInv, MovedRows, MovedGood, From
  <2> QED
    BY <1>3, <2>1, <2>2
<1>6. Before(old, call[t].tuple)
  BY DEF Before, From
<1>7. Undoes(undo_log[t], old, call[t].tuple, committed[old])
  BY <1>1, <1>2, <1>3, <1>6, Mine
<1> QED
  BY <1>1, <1>2, <1>3, <1>4, <1>5, <1>7

LEMMA LockNewStep ==
  ASSUME IInv, NEW t \in Tx, LockNew(t)
  PROVE  IInv'
<1>1. PICK rid : rid = call[t].rid
  OBVIOUS
<1>2. PICK log : log = undo_log[t]
  OBVIOUS
<1>3. /\ New(t) /\ pc[t] # "ended" /\ ~asserted
      /\ Locks!AcquireExclusive(t, rid)
      /\ undo_log' = [undo_log EXCEPT ![t] = log \o Arrived(t)]
      /\ pc' = [pc EXCEPT ![t] = "ready"] /\ call' = [call EXCEPT ![t] = NoCall]
      /\ UNCHANGED <<pages, state, cursor, calls, asserted, committed>>
  BY <1>1, <1>2 DEF LockNew, push_undo, New
<1>4. /\ log \in Seq(UndoRecord) /\ writers \in [RIDs -> SUBSET Tx]
      /\ \A i \in DOMAIN log : log[i].rid \in RIDs /\ t \in writers[log[i].rid]
  <2>1. log \in Seq(UndoRecord) /\ writers \in [RIDs -> SUBSET Tx]
    BY <1>2 DEF IInv, TypeOK
  <2>2. \A i \in DOMAIN log : log[i] \in UndoRecord
    BY <2>1
  <2> QED
    BY <1>2, <1>3, <2>1, <2>2 DEF IInv, LogsLocked, UndoRecord
<1>5. /\ rid \in RIDs /\ Exists(pages, rid) /\ Row(rid) \in Tuple /\ writers[rid] \subseteq {t}
      /\ \A u \in Tx \ {t} : ~At(u, rid) /\ ~From(u, rid)
      /\ Undoes(log, rid, NoTuple, committed[rid])
  BY <1>1, <1>2, <1>3, NewAlone
<1>6. writers' = [writers EXCEPT ![rid] = {t}]
  BY <1>3 DEF Locks!AcquireExclusive
<1>7. /\ GoodHeap(pages') /\ Fits(pages') /\ calls' \in 0 .. MaxCalls
      /\ \A x \in RIDs : Exists(pages, x) => Exists(pages', x)
      /\ \A x : Row(x)' = Row(x)
  BY <1>3, TypeFits DEF IInv, TypeOK, Row
<1>8. DeleteUndo(rid) \in UndoRecord /\ DeleteUndo(rid).rid = rid
  BY <1>5, UndoRecords
<1> DEFINE W == {r \in RIDs : t \in writers'[r]}
<1>9. /\ \A i \in DOMAIN log : log[i].rid \in W
      /\ rid \in W
  BY <1>4, <1>5, <1>6
<1>10. CASE pc[t] = "inserted"
  <2>0. PICK S : S = {rid}
    OBVIOUS
  <2>1. PICK log2 : log2 = log \o <<DeleteUndo(rid)>>
    OBVIOUS
  <2>2. log \o Arrived(t) = log2
    BY <1>1, <1>10, <2>1 DEF Arrived
  <2>3. log2 \in Seq(UndoRecord)
    BY <1>4, <1>8, <2>1, Pushed
  <2>4. \A i \in DOMAIN log2 : t \in writers'[log2[i].rid]
    BY <1>4, <1>8, <1>9, <2>1, PushLocked
  <2>5. Undoes(log2, rid, Row(rid), committed[rid])
    BY <1>4, <1>5, <2>1, UndoesDelete
  <2>6. \A x \in S : Undoes(log2, x, Row(x)', committed[x]) /\ t \in writers'[x]
    BY <2>0, <1>7, <1>9, <2>5
  <2>7. \A x \in RIDs \ S : \A v, c : Undoes(undo_log[t], x, v, c) => Undoes(log2, x, v, c)
    BY <2>0, <1>2, <1>4, <1>8, <2>1, UndoesOther
  <2>8. \A x \in RIDs \ S : Row(x)' = Row(x) /\ ~At(t, x) /\ ~From(t, x)
    BY <2>0, <1>1, <1>7, <1>10 DEF At, From
  <2>9. \A x \in S : /\ Exists(pages', x) /\ writers[x] \subseteq {t}
                         /\ \A u \in Tx \ {t} : ~At(u, x) /\ ~From(u, x)
    BY <2>0, <1>5, <1>7
  <2>10. /\ IInv /\ ~asserted /\ pc[t] # "ended" /\ S \in SUBSET RIDs /\ rid \in S
         /\ undo_log' = [undo_log EXCEPT ![t] = log2]
         /\ UNCHANGED <<state, cursor, asserted, committed>>
    BY <2>0, <1>3, <1>5, <2>2
  <2> QED
    BY ONLY t \in Tx, <1>3, <1>7, <2>3, <2>4, <2>6, <2>7, <2>8, <2>9, <2>10, LogStep
<1>11. CASE pc[t] = "moved"
  <2>1. PICK old : old = call[t].old
    OBVIOUS
  <2>0. PICK S : S = {rid, old}
    OBVIOUS
  <2>2. PICK tuple : tuple = call[t].tuple
    OBVIOUS
  <2>3. /\ old \in RIDs /\ Exists(pages, old) /\ Row(old) = NoTuple /\ writers[old] = {t}
        /\ tuple \in Tuple /\ old # rid
        /\ \A u \in Tx \ {t} : ~At(u, old) /\ ~From(u, old)
        /\ Undoes(log, old, tuple, committed[old])
    BY <1>1, <1>2, <1>3, <1>11, <2>1, <2>2, OldAlone
  <2>4. RestoreUndo(old, tuple) \in UndoRecord /\ RestoreUndo(old, tuple).rid = old
    BY <2>3, UndoRecords
  <2>5. PICK log1 : log1 = log \o <<RestoreUndo(old, tuple)>>
    OBVIOUS
  <2>6. PICK log2 : log2 = log1 \o <<DeleteUndo(rid)>>
    OBVIOUS
  <2>7. log1 \in Seq(UndoRecord) /\ log2 \in Seq(UndoRecord) /\ log \o Arrived(t) = log2
    <3>1. Arrived(t) = <<RestoreUndo(old, tuple), DeleteUndo(rid)>>
      BY <1>1, <1>11, <2>1, <2>2 DEF Arrived
    <3> QED
      BY <1>4, <1>8, <2>4, <2>5, <2>6, <3>1, TwoRecords
  <2>8. \A i \in DOMAIN log1 : log1[i].rid \in W
    BY <1>4, <1>6, <1>9, <2>3, <2>4, <2>5, PushLocked
  <2>9. \A i \in DOMAIN log2 : t \in writers'[log2[i].rid]
    BY <1>8, <1>9, <2>6, <2>7, <2>8, PushLocked
  <2>10. Undoes(log2, old, NoTuple, committed[old])
    <3>1. Undoes(log1, old, NoTuple, committed[old])
      BY <1>4, <2>3, <2>5, UndoesRestore
    <3> QED
      BY <1>8, <2>3, <2>6, <2>7, <3>1, UndoesOther
  <2>11. Undoes(log2, rid, Row(rid), committed[rid])
    <3>1. Undoes(log1, rid, NoTuple, committed[rid])
      BY <1>4, <1>5, <2>3, <2>4, <2>5, UndoesOther
    <3> QED
      BY <1>5, <2>6, <2>7, <3>1, UndoesDelete
  <2>12. \A x \in S : Undoes(log2, x, Row(x)', committed[x]) /\ t \in writers'[x]
    <3>1. t \in writers'[old]
      BY <2>0, <1>4, <1>6, <2>3
    <3> QED
      BY <2>0, <1>7, <1>9, <2>3, <2>10, <2>11, <3>1
  <2>13. \A x \in RIDs \ S : \A v, c : Undoes(undo_log[t], x, v, c) => Undoes(log2, x, v, c)
    <3>1. \A x \in RIDs \ S : \A v, c : Undoes(log, x, v, c) => Undoes(log1, x, v, c)
      BY <2>0, <1>4, <2>4, <2>5, UndoesOther
    <3>2. \A x \in RIDs \ S : \A v, c : Undoes(log1, x, v, c) => Undoes(log2, x, v, c)
      BY <2>0, <1>8, <2>6, <2>7, UndoesOther
    <3> QED
      BY <2>0, <1>2, <3>1, <3>2
  <2>14. \A x \in RIDs \ S : Row(x)' = Row(x) /\ ~At(t, x) /\ ~From(t, x)
    BY <2>0, <1>1, <1>7, <2>1 DEF At, From
  <2>15. \A x \in S : /\ Exists(pages', x) /\ writers[x] \subseteq {t}
                               /\ \A u \in Tx \ {t} : ~At(u, x) /\ ~From(u, x)
    BY <2>0, <1>5, <1>7, <2>3
  <2>16. /\ IInv /\ ~asserted /\ pc[t] # "ended" /\ S \in SUBSET RIDs /\ rid \in S
         /\ undo_log' = [undo_log EXCEPT ![t] = log2]
         /\ UNCHANGED <<state, cursor, asserted, committed>>
    BY <2>0, <1>3, <1>5, <2>3, <2>7
  <2> QED
    BY ONLY t \in Tx, <1>3, <1>7, <2>7, <2>9, <2>12, <2>13, <2>14, <2>15, <2>16, LogStep
<1> QED
  BY <1>3, <1>10, <1>11 DEF New

(* A row that t has locked, changed in its slot, and logged.               *)
LEMMA RowStep ==
  ASSUME IInv, ~asserted, NEW t \in Tx, ~New(t), pc[t] # "ended",
         NEW rid \in RIDs, Locks!AcquireExclusive(t, rid),
         \A u \in Tx : ~At(u, rid) /\ ~From(u, rid),
         GoodHeap(pages'), Fits(pages'), \A x \in RIDs : Exists(pages, x) => Exists(pages', x),
         Exists(pages', rid), \A x \in RIDs : x # rid => Row(x)' = Row(x),
         pc' = [pc EXCEPT ![t] = "ready"], call' = [call EXCEPT ![t] = NoCall],
         NEW log \in Seq(UndoRecord), undo_log' = [undo_log EXCEPT ![t] = log],
         Undoes(log, rid, Row(rid)', committed[rid]),
         \A x \in RIDs : x # rid => \A v, c : Undoes(undo_log[t], x, v, c) => Undoes(log, x, v, c),
         \A i \in DOMAIN log : log[i].rid \in {r \in RIDs : r = rid \/ t \in writers[r]},
         UNCHANGED <<state, cursor, asserted, committed>>, calls' \in 0 .. MaxCalls
  PROVE  IInv'
<1>1. writers \in [RIDs -> SUBSET Tx] /\ rid \in RIDs
  BY DEF IInv, TypeOK
<1>2. writers' = [writers EXCEPT ![rid] = {t}] /\ writers[rid] \subseteq {t}
  BY DEF Locks!AcquireExclusive
<1>3. \A i \in DOMAIN log : t \in writers'[log[i].rid]
  BY <1>1, <1>2
<1>4. t \in writers'[rid]
  BY <1>1, <1>2
<1>5. \A x : ~At(t, x) /\ ~From(t, x)
  BY DEF At, From, New
<1>6. PICK S : S = {rid}
  OBVIOUS
<1>7. /\ \A x \in S : /\ Exists(pages', x) /\ writers[x] \subseteq {t}
                      /\ \A u \in Tx \ {t} : ~At(u, x) /\ ~From(u, x)
      /\ \A x \in RIDs \ S : Row(x)' = Row(x) /\ ~At(t, x) /\ ~From(t, x)
      /\ \A x \in S : Undoes(log, x, Row(x)', committed[x]) /\ t \in writers'[x]
      /\ \A x \in RIDs \ S : \A v, c : Undoes(undo_log[t], x, v, c) => Undoes(log, x, v, c)
      /\ S \in SUBSET RIDs /\ rid \in S
  BY <1>2, <1>4, <1>5, <1>6
<1>8. /\ IInv /\ ~asserted /\ t \in Tx /\ pc[t] # "ended" /\ Locks!AcquireExclusive(t, rid)
      /\ GoodHeap(pages') /\ Fits(pages') /\ \A x \in RIDs : Exists(pages, x) => Exists(pages', x)
      /\ pc' = [pc EXCEPT ![t] = "ready"] /\ call' = [call EXCEPT ![t] = NoCall]
      /\ log \in Seq(UndoRecord) /\ undo_log' = [undo_log EXCEPT ![t] = log]
      /\ UNCHANGED <<state, cursor, asserted, committed>> /\ calls' \in 0 .. MaxCalls
  OBVIOUS
<1> QED
  BY ONLY <1>3, <1>7, <1>8, LogStep

(* delete_tuple and update_tuple, once they have the lock.                 *)
LEMMA ChangeStep ==
  ASSUME IInv, ~asserted, NEW t \in Tx, ~New(t), pc[t] # "ended",
         NEW rid \in RIDs, NEW tuple \in Tuple \cup {NoTuple}, ChangeRow(t, rid, tuple),
         Known(t, rid) \/ (Waits(t) /\ call[t].rid = rid),
         calls' \in 0 .. MaxCalls,
         tuple # NoTuple /\ Row(rid) # NoTuple => heap_update(pages, rid, tuple).rid = rid
  PROVE  IInv'
<1>1. PICK log : log = undo_log[t]
  OBVIOUS
<1>2. PICK old : old = Row(rid)
  OBVIOUS
<1>3. /\ Locks!AcquireExclusive(t, rid) /\ readers[rid] \cup writers[rid] \subseteq {t}
      /\ UNCHANGED <<state, cursor, asserted, committed>>
  BY DEF ChangeRow, Locks!AcquireExclusive
<1>4. /\ undo_log \in [Tx -> Seq(UndoRecord)] /\ log \in Seq(UndoRecord)
      /\ writers \in [RIDs -> SUBSET Tx] /\ rid \in AnyRid /\ GoodHeap(pages) /\ Fits(pages)
  BY <1>1, RidsAre, TypeFits DEF IInv, TypeOK
<1> DEFINE W == {r \in RIDs : r = rid \/ t \in writers[r]}
<1>5. (\A i \in DOMAIN log : log[i].rid \in W) /\ rid \in W
  <2>1. \A i \in DOMAIN log : log[i] \in UndoRecord
    BY <1>4
  <2> QED
    BY <1>1, <2>1 DEF IInv, LogsLocked, UndoRecord
<1>6. Exists(pages, rid) /\ \A u \in Tx : ~At(u, rid) /\ ~From(u, rid)
  BY <1>3, Alone
<1>7. Undoes(log, rid, old, committed[rid])
  <2>1. Before(rid, old) /\ old \in Tuple \cup {NoTuple}
    BY <1>2, <1>6, BeforeIs, RowTyped
  <2> QED
    BY <1>1, <1>3, <2>1, Mine
<1>8. /\ DeleteUndo(rid) \in UndoRecord /\ DeleteUndo(rid).rid = rid
      /\ old # NoTuple => /\ old \in Tuple
                          /\ RestoreUndo(rid, old) \in UndoRecord /\ RestoreUndo(rid, old).rid = rid
  BY <1>2, RowTyped, UndoRecords
<1>9. /\ IInv /\ ~asserted /\ t \in Tx /\ ~New(t) /\ pc[t] # "ended"
      /\ rid \in RIDs /\ Locks!AcquireExclusive(t, rid)
      /\ \A u \in Tx : ~At(u, rid) /\ ~From(u, rid)
      /\ UNCHANGED <<state, cursor, asserted, committed>> /\ calls' \in 0 .. MaxCalls
  BY <1>3, <1>6
<1>10. CASE old = NoTuple
  <2>1. /\ UNCHANGED <<pages, undo_log>>
        /\ pc' = [pc EXCEPT ![t] = "ready"] /\ call' = [call EXCEPT ![t] = NoCall]
    BY <1>2, <1>10 DEF ChangeRow, DeleteRow, UpdateRow
  <2>2. undo_log' = [undo_log EXCEPT ![t] = log]
    BY <1>1, <1>4, <2>1
  <2>3. /\ GoodHeap(pages') /\ Fits(pages') /\ \A x \in RIDs : Exists(pages, x) => Exists(pages', x)
        /\ Exists(pages', rid) /\ \A x \in RIDs : x # rid => Row(x)' = Row(x)
        /\ \A r : r = rid => Row(r)' = Row(r)
    BY <1>4, <1>6, <2>1 DEF Row
  <2>4. Undoes(log, rid, Row(rid)', committed[rid])
    BY <1>2, <1>7, <2>3
  <2>5. \A x \in RIDs : x # rid => \A v, c : Undoes(undo_log[t], x, v, c) => Undoes(log, x, v, c)
    BY <1>1
  <2> QED
    BY ONLY <1>4, <1>5, <1>9, <2>1, <2>2, <2>3, <2>4, <2>5, RowStep
<1>11. CASE old # NoTuple /\ tuple = NoTuple
  <2>1. PICK log2 : log2 = log \o <<RestoreUndo(rid, old)>>
    OBVIOUS
  <2>2. /\ pages' = heap_delete(pages, rid)
        /\ undo_log' = [undo_log EXCEPT ![t] = log2]
        /\ pc' = [pc EXCEPT ![t] = "ready"] /\ call' = [call EXCEPT ![t] = NoCall]
    BY <1>1, <1>2, <1>11, <2>1 DEF ChangeRow, DeleteRow, Deleted, push_undo
  <2>3. OneChange(pages, pages', rid, NoTuple) /\ SameSlots(pages, pages')
    BY <1>2, <1>4, <1>11, <2>2, HeapDelete DEF Row
  <2>4. /\ GoodHeap(pages') /\ Fits(pages') /\ \A x \in RIDs : Exists(pages, x) => Exists(pages', x)
        /\ Exists(pages', rid) /\ \A x \in RIDs : x # rid => Row(x)' = Row(x)
        /\ Row(rid)' = NoTuple
    BY <1>4, <2>3, SameFits, RidsAre DEF OneChange, Row
  <2>5. log2 \in Seq(UndoRecord)
    BY <1>4, <1>8, <1>11, <2>1, Pushed
  <2>6. \A i \in DOMAIN log2 : log2[i].rid \in W
    BY <1>4, <1>5, <1>8, <1>11, <2>1, PushLocked
  <2>7. Undoes(log2, rid, Row(rid)', committed[rid])
    BY <1>4, <1>7, <1>8, <1>11, <2>1, <2>4, UndoesRestore
  <2>8. \A x \in RIDs : x # rid => \A v, c : Undoes(undo_log[t], x, v, c) => Undoes(log2, x, v, c)
    BY <1>1, <1>4, <1>8, <1>11, <2>1, UndoesOther
  <2> QED
    BY ONLY <1>9, <2>2, <2>4, <2>5, <2>6, <2>7, <2>8, RowStep
<1>12. CASE old # NoTuple /\ tuple # NoTuple
  <2>1. PICK up : up = heap_update(pages, rid, tuple)
    OBVIOUS
  <2>2. PICK log1 : log1 = log \o <<RestoreUndo(rid, old)>>
    OBVIOUS
  <2>3. PICK log2 : log2 = log1 \o <<DeleteUndo(rid)>>
    OBVIOUS
  <2>4. log1 \in Seq(UndoRecord) /\ log2 \in Seq(UndoRecord) /\ log \o InPlace(rid, old) = log2
    BY <1>4, <1>8, <1>12, <2>2, <2>3, TwoRecords DEF InPlace
  <2>5. up.rid = rid
    BY <1>2, <1>12, <2>1
  <2>6. /\ pages' = up.pages /\ Fits(up.pages)
        /\ undo_log' = [undo_log EXCEPT ![t] = log2]
        /\ pc' = [pc EXCEPT ![t] = "ready"] /\ call' = [call EXCEPT ![t] = NoCall]
    BY <1>1, <1>2, <1>12, <2>1, <2>4, <2>5 DEF ChangeRow, UpdateRow, push_undo
  <2>7. OneChange(pages, pages', rid, tuple)
    BY <1>2, <1>4, <1>12, <2>1, <2>5, <2>6, HeapUpdate DEF Row
  <2>8. /\ GoodHeap(pages') /\ Fits(pages') /\ \A x \in RIDs : Exists(pages, x) => Exists(pages', x)
        /\ Exists(pages', rid) /\ \A x \in RIDs : x # rid => Row(x)' = Row(x)
    BY <2>6, <2>7, RidsAre DEF OneChange, Row
  <2>9. \A i \in DOMAIN log1 : log1[i].rid \in W
    BY <1>4, <1>5, <1>8, <1>12, <2>2, PushLocked
  <2>10. \A i \in DOMAIN log2 : log2[i].rid \in W
    BY <1>5, <1>8, <2>3, <2>4, <2>9, PushLocked
  <2>11. Undoes(log2, rid, Row(rid)', committed[rid])
    <3>1. Undoes(log1, rid, NoTuple, committed[rid])
      BY <1>4, <1>7, <1>8, <1>12, <2>2, UndoesRestore
    <3> QED
      BY <2>3, <2>4, <3>1, UndoesDelete
  <2>12. \A x \in RIDs : x # rid => \A v, c : Undoes(undo_log[t], x, v, c) => Undoes(log2, x, v, c)
    <3>1. \A x \in RIDs : x # rid => \A v, c : Undoes(log, x, v, c) => Undoes(log1, x, v, c)
      BY <1>4, <1>8, <1>12, <2>2, UndoesOther
    <3>2. \A x \in RIDs : x # rid => \A v, c : Undoes(log1, x, v, c) => Undoes(log2, x, v, c)
      BY <1>8, <2>3, <2>4, UndoesOther
    <3> QED
      BY <1>1, <3>1, <3>2
  <2> QED
    BY ONLY <1>9, <2>4, <2>6, <2>8, <2>10, <2>11, <2>12, RowStep
<1> QED
  BY <1>10, <1>11, <1>12

(* update_tuple of a row that moves, before the lock on its new slot.      *)
LEMMA MoveStep ==
  ASSUME IInv, ~asserted, NEW t \in Tx, ~New(t), pc[t] # "ended",
         NEW rid \in RIDs, NEW tuple \in Tuple, ChangeRow(t, rid, tuple),
         Known(t, rid) \/ (Waits(t) /\ call[t].rid = rid),
         calls' \in 0 .. MaxCalls,
         Row(rid) # NoTuple, heap_update(pages, rid, tuple).rid # rid
  PROVE  IInv'
<1>1. PICK log : log = undo_log[t]
  OBVIOUS
<1>2. PICK old : old = Row(rid)
  OBVIOUS
<1>3. PICK up : up = heap_update(pages, rid, tuple)
  OBVIOUS
<1>4. PICK new : new = up.rid
  OBVIOUS
<1>5. PICK c : c = [rid |-> new, old |-> rid, tuple |-> old]
  OBVIOUS
<1>6. /\ Locks!AcquireExclusive(t, rid) /\ readers[rid] \cup writers[rid] \subseteq {t}
      /\ writers' = [writers EXCEPT ![rid] = {t}]
      /\ UNCHANGED <<state, cursor, asserted, committed>>
  BY DEF ChangeRow, Locks!AcquireExclusive
<1>7. tuple # NoTuple
  BY NoTupleAssumption
<1>8. /\ Fits(up.pages) /\ NoForeignHoles(t) /\ pages' = up.pages
      /\ pc' = [pc EXCEPT ![t] = "moved"] /\ call' = [call EXCEPT ![t] = c]
      /\ UNCHANGED undo_log
  BY <1>2, <1>3, <1>4, <1>5, <1>7 DEF ChangeRow, UpdateRow
<1>9. /\ pc \in [Tx -> {"ready", "upgrade", "inserted", "moved", "undo", "ended"}] /\ call \in [Tx -> Call]
      /\ readers \in [RIDs -> SUBSET Tx] /\ writers \in [RIDs -> SUBSET Tx]
      /\ rid \in AnyRid /\ GoodHeap(pages) /\ Exclusive
  BY RidsAre DEF IInv, TypeOK
<1>10. old \in Tuple
  BY <1>2, RowTyped
<1>11. /\ new # rid /\ RowIn(pages, new) = NoTuple
       /\ \E d : OneChange(pages, d, rid, NoTuple) /\ OneChange(d, pages', new, tuple)
  BY <1>3, <1>4, <1>8, <1>9, HeapUpdate DEF Row
<1>12. PICK d : OneChange(pages, d, rid, NoTuple) /\ OneChange(d, pages', new, tuple)
  BY <1>11
<1>13. /\ GoodHeap(pages') /\ new \in AnyRid /\ Exists(pages', new) /\ Exists(pages', rid)
       /\ \A x \in AnyRid : Exists(pages, x) => Exists(pages', x)
       /\ \A x \in AnyRid : x # rid /\ x # new => RowIn(pages', x) = RowIn(pages, x)
       /\ RowIn(pages', new) = tuple /\ RowIn(pages', rid) = NoTuple
  BY <1>9, <1>11, <1>12 DEF OneChange
<1>14. /\ new \in RIDs /\ Row(new) = NoTuple /\ Row(new)' = tuple /\ Row(rid)' = NoTuple
       /\ \A x \in RIDs : Exists(pages, x) => Exists(pages', x)
       /\ \A x \in RIDs : x # rid /\ x # new => Row(x)' = Row(x)
  BY <1>8, <1>11, <1>13, RidIn, RidsAre DEF Row
<1>15. Exists(pages, rid) /\ \A u \in Tx : ~At(u, rid) /\ ~From(u, rid)
  BY <1>6, Alone
<1>16. /\ writers[new] \subseteq {t}
       /\ \A u \in Tx : ~At(u, new) /\ ~From(u, new)
       /\ \A u \in Tx \ {t} : Waits(u) => call[u].rid # new
  BY <1>8, <1>14, FreeSlot
<1>17. Undoes(log, rid, old, committed[rid])
  <2>1. Before(rid, old)
    BY <1>2, <1>15, BeforeIs
  <2> QED
    BY <1>1, <1>6, <1>10, <2>1, Mine
<1>18. /\ writers[new] = {} => committed[new] = NoTuple
       /\ t \in writers[new] => Undoes(log, new, NoTuple, committed[new])
  <2>1. Rests(new, NoTuple)
    BY <1>14, <1>16, BeforeIs DEF IInv, Settled
  <2> QED
    BY <1>1, <2>1 DEF Rests
<1>19. /\ pc'[t] = "moved" /\ call'[t] = c /\ c.rid = new /\ c.old = rid /\ c.tuple = old
       /\ undo_log'[t] = log
       /\ \A u \in Tx \ {t} : pc'[u] = pc[u] /\ call'[u] = call[u] /\ undo_log'[u] = undo_log[u]
       /\ writers'[rid] = {t} /\ \A x \in RIDs : x # rid => writers'[x] = writers[x]
  BY <1>1, <1>5, <1>6, <1>8, <1>9
<1>20. Exclusive' /\ readers' \in [RIDs -> SUBSET Tx] /\ writers' \in [RIDs -> SUBSET Tx]
  BY <1>6, <1>9, LockStep
<1>21. TypeOK'
  <2>1. pc' \in [Tx -> {"ready", "upgrade", "inserted", "moved", "undo", "ended"}]
    BY <1>8, <1>9
  <2>2. c \in Call
    BY <1>5, <1>10, <1>14 DEF Call
  <2>3. call' \in [Tx -> Call]
    BY <1>8, <1>9, <2>2
  <2> QED
    BY <1>6, <1>8, <1>13, <1>20, <2>1, <2>3, HeapTyped DEF IInv, TypeOK
<1>22. ASSUME NEW v, Before(rid, v)' PROVE v = old
  <2>1. From(t, rid)' /\ ~At(t, rid)'
    BY <1>11, <1>19 DEF At, From
  <2>2. \A u \in Tx \ {t} : ~At(u, rid)' /\ ~From(u, rid)'
    BY <1>15, <1>19 DEF At, From, New
  <2> QED
    BY <1>19, <1>22, <2>1, <2>2 DEF Before
<1>23. ASSUME NEW v, Before(new, v)' PROVE v = NoTuple
  <2>1. At(t, new)' /\ \A u \in Tx : ~From(u, new)'
    BY <1>11, <1>16, <1>19 DEF At, From, New
  <2> QED
    BY <1>23, <2>1 DEF Before
<1>24. PICK S : S = {rid, new}
  OBVIOUS
<1>25. \A x \in S :
         /\ Exists(pages', x)
         /\ writers[x] \subseteq {t} /\ writers'[x] \subseteq {t}
         /\ \A u \in Tx \ {t} : ~At(u, x) /\ ~From(u, x)
         /\ \A v \in Tuple \cup {NoTuple} : Before(x, v)' =>
              /\ writers'[x] = {} => v = committed'[x]
              /\ t \in writers'[x] => Undoes(undo_log'[t], x, v, committed'[x])
  <2>1. \A v \in Tuple \cup {NoTuple} : Before(rid, v)' =>
              /\ writers'[rid] = {} => v = committed'[rid]
              /\ t \in writers'[rid] => Undoes(undo_log'[t], rid, v, committed'[rid])
    BY <1>6, <1>17, <1>19, <1>22
  <2>2. \A v \in Tuple \cup {NoTuple} : Before(new, v)' =>
              /\ writers'[new] = {} => v = committed'[new]
              /\ t \in writers'[new] => Undoes(undo_log'[t], new, v, committed'[new])
    BY <1>6, <1>11, <1>14, <1>18, <1>19, <1>23
  <2> QED
    BY <1>6, <1>11, <1>13, <1>14, <1>15, <1>16, <1>19, <1>24, <2>1, <2>2
<1>26. \A x \in RIDs \ S :
         /\ writers'[x] = writers[x] /\ committed'[x] = committed[x] /\ Row(x)' = Row(x)
         /\ (At(t, x)' <=> At(t, x)) /\ (From(t, x)' <=> From(t, x))
         /\ From(t, x) => call'[t].tuple = call[t].tuple
         /\ \A v, w : Undoes(undo_log[t], x, v, w) => Undoes(undo_log'[t], x, v, w)
  <2>1. \A x \in RIDs \ S : x # rid /\ x # new
    BY <1>24
  <2>2. \A x \in RIDs \ S : ~At(t, x) /\ ~From(t, x) /\ ~At(t, x)' /\ ~From(t, x)'
    BY <1>19, <2>1 DEF At, From, New
  <2> QED
    BY <1>6, <1>8, <1>14, <1>19, <2>1, <2>2
<1>27. \A i \in DOMAIN undo_log'[t] : t \in writers'[undo_log'[t][i].rid]
  <2> SUFFICES ASSUME NEW i \in DOMAIN log PROVE t \in writers'[log[i].rid]
    BY <1>19
  <2>1. log \in Seq(UndoRecord) /\ t \in writers[log[i].rid]
    BY <1>1 DEF IInv, TypeOK, LogsLocked
  <2>2. log[i] \in UndoRecord
    BY <2>1
  <2>3. log[i].rid \in RIDs
    BY <2>2 DEF UndoRecord
  <2> QED
    BY <1>19, <2>1, <2>3
<1>28. NewGood(t)'
  <2>1. \A u \in Tx \ {t} : (New(u) \/ Waits(u))' => call'[u].rid # new
    BY <1>16, <1>19 DEF New, Waits, At
  <2>2. committed'[new] = NoTuple \/ t \in writers'[new]
    BY <1>6, <1>11, <1>14, <1>16, <1>18, <1>19
  <2>3. writers'[new] \subseteq {t}
    BY <1>11, <1>14, <1>16, <1>19
  <2> QED
    BY <1>7, <1>14, <1>19, <2>1, <2>2, <2>3 DEF NewGood
<1>29. MovedGood(t)'
  BY <1>10, <1>11, <1>14, <1>19 DEF MovedGood
<1>30. /\ IInv /\ ~asserted /\ ~asserted' /\ t \in Tx /\ S \in SUBSET RIDs /\ GoodHeap(pages')
       /\ \A x \in RIDs : Exists(pages, x) => Exists(pages', x)
       /\ \A u \in Tx \ {t} : pc'[u] = pc[u] /\ call'[u] = call[u] /\ undo_log'[u] = undo_log[u]
       /\ New(t)' => NewGood(t)'
       /\ pc'[t] = "moved" => MovedGood(t)'
       /\ Waits(t)' => /\ Exists(pages', call'[t].rid)
                       /\ \A u \in Tx \ {t} : New(u) => call[u].rid # call'[t].rid
  BY <1>6, <1>13, <1>14, <1>19, <1>24, <1>28, <1>29 DEF Waits
<1> QED
  BY ONLY <1>20, <1>21, <1>25, <1>26, <1>27, <1>30, Step

-----------------------------------------------------------------------------
(* The lock on a new row is refused, and the row is taken back.            *)
LEMMA LockNewFailsStep ==
  ASSUME IInv, Patient, NEW t \in Tx, LockNewFails(t)
  PROVE  IInv'
<1>1. PICK rid : rid = call[t].rid
  OBVIOUS
<1>2. /\ pc[t] = "inserted" /\ ~asserted /\ pages' = Withdrawn(rid)
      /\ Locks!DropShared(t, rid) \/ UNCHANGED lockVars
      /\ state' = [state EXCEPT ![t] = "ABORTED"]
      /\ pc' = [pc EXCEPT ![t] = "ready"] /\ call' = [call EXCEPT ![t] = NoCall]
      /\ UNCHANGED <<undo_log, cursor, calls, asserted, committed>>
  BY <1>1 DEF LockNewFails
<1>3. /\ pc \in [Tx -> {"ready", "upgrade", "inserted", "moved", "undo", "ended"}] /\ call \in [Tx -> Call]
      /\ readers \in [RIDs -> SUBSET Tx] /\ writers \in [RIDs -> SUBSET Tx]
      /\ GoodHeap(pages) /\ Fits(pages) /\ Exclusive
  BY TypeFits DEF IInv, TypeOK
<1>4. /\ rid \in RIDs /\ rid \in AnyRid /\ Row(rid) \in Tuple /\ writers[rid] \subseteq {t}
      /\ \A u \in Tx \ {t} : ~At(u, rid) /\ ~From(u, rid)
      /\ Undoes(undo_log[t], rid, NoTuple, committed[rid])
      /\ writers[rid] = {} => committed[rid] = NoTuple
  BY <1>1, <1>2, NewAlone, RidsAre DEF New
<1>5. Row(rid) # NoTuple
  BY <1>4, NoTupleAssumption
<1>6. OneChange(pages, pages', rid, NoTuple) /\ SameSlots(pages, pages')
  BY <1>2, <1>3, <1>4, <1>5, HeapTypes, HeapDelete DEF Withdrawn, Row
<1>7. /\ GoodHeap(pages') /\ Fits(pages') /\ Exists(pages', rid) /\ Row(rid)' = NoTuple
      /\ \A x \in RIDs : Exists(pages, x) => Exists(pages', x)
      /\ \A x \in RIDs : x # rid => Row(x)' = Row(x)
  BY <1>3, <1>6, SameFits, RidsAre DEF OneChange, Row
<1>8. UNCHANGED writers
  BY <1>2 DEF lockVars, Locks!DropShared
<1>9. Exclusive' /\ readers' \in [RIDs -> SUBSET Tx] /\ writers' \in [RIDs -> SUBSET Tx]
  BY <1>2, <1>3, <1>4, LockStep
<1>10. /\ pc'[t] = "ready"
       /\ \A u \in Tx \ {t} : pc'[u] = pc[u] /\ call'[u] = call[u] /\ undo_log'[u] = undo_log[u]
  BY <1>2, <1>3
<1>11. TypeOK'
  <2>1. NoCall \in Call
    BY RidsAre DEF NoCall, Call
  <2>2. /\ pc' \in [Tx -> {"ready", "upgrade", "inserted", "moved", "undo", "ended"}] /\ call' \in [Tx -> Call]
    BY <1>2, <1>3, <2>1
  <2> QED
    BY <1>2, <1>7, <1>9, <2>2, HeapTyped DEF IInv, TypeOK
<1>12. ASSUME NEW v, Before(rid, v)' PROVE v = NoTuple
  <2>1. \A u \in Tx : ~At(u, rid)' /\ ~From(u, rid)'
    BY <1>4, <1>10 DEF At, From, New
  <2>2. v = Row(rid)'
    BY <1>12, <2>1 DEF Before
  <2> QED
    BY <1>7, <2>2
<1>13. PICK S : S = {rid}
  OBVIOUS
<1>14. \A x \in S :
         /\ Exists(pages', x)
         /\ writers[x] \subseteq {t} /\ writers'[x] \subseteq {t}
         /\ \A u \in Tx \ {t} : ~At(u, x) /\ ~From(u, x)
         /\ \A v \in Tuple \cup {NoTuple} : Before(x, v)' =>
              /\ writers'[x] = {} => v = committed'[x]
              /\ t \in writers'[x] => Undoes(undo_log'[t], x, v, committed'[x])
  <2>1. \A v \in Tuple \cup {NoTuple} : Before(rid, v)' =>
              /\ writers'[rid] = {} => v = committed'[rid]
              /\ t \in writers'[rid] => Undoes(undo_log'[t], rid, v, committed'[rid])
    BY <1>2, <1>4, <1>8, <1>12
  <2> QED
    BY <1>4, <1>7, <1>8, <1>13, <2>1
<1>15. \A x \in RIDs \ S :
         /\ writers'[x] = writers[x] /\ committed'[x] = committed[x] /\ Row(x)' = Row(x)
         /\ (At(t, x)' <=> At(t, x)) /\ (From(t, x)' <=> From(t, x))
         /\ From(t, x) => call'[t].tuple = call[t].tuple
         /\ \A v, w : Undoes(undo_log[t], x, v, w) => Undoes(undo_log'[t], x, v, w)
  <2>1. \A x \in RIDs \ S : ~At(t, x) /\ ~From(t, x) /\ ~At(t, x)' /\ ~From(t, x)'
    BY <1>1, <1>2, <1>10, <1>13 DEF At, From, New
  <2> QED
    BY <1>2, <1>7, <1>8, <1>13, <2>1
<1>16. \A i \in DOMAIN undo_log'[t] : t \in writers'[undo_log'[t][i].rid]
  BY <1>2, <1>8 DEF IInv, LogsLocked
<1>17. /\ IInv /\ ~asserted /\ ~asserted' /\ t \in Tx /\ S \in SUBSET RIDs /\ GoodHeap(pages')
       /\ \A x \in RIDs : Exists(pages, x) => Exists(pages', x)
       /\ \A u \in Tx \ {t} : pc'[u] = pc[u] /\ call'[u] = call[u] /\ undo_log'[u] = undo_log[u]
       /\ New(t)' => NewGood(t)'
       /\ pc'[t] = "moved" => MovedGood(t)'
       /\ Waits(t)' => /\ Exists(pages', call'[t].rid)
                       /\ \A u \in Tx \ {t} : New(u) => call[u].rid # call'[t].rid
  BY <1>2, <1>4, <1>7, <1>10, <1>13 DEF New, Waits
<1> QED
  BY ONLY <1>9, <1>11, <1>14, <1>15, <1>16, <1>17, Step

-----------------------------------------------------------------------------
(* The rows of a transaction that no call of it has under way.             *)
LEMMA HisOwn ==
  ASSUME IInv, ~asserted, NEW t \in Tx, pc[t] \in {"ready", "undo"}, NEW rid \in RIDs, t \in writers[rid]
  PROVE  /\ writers[rid] = {t} /\ Exists(pages, rid)
         /\ \A u \in Tx : ~At(u, rid) /\ ~From(u, rid)
         /\ Undoes(undo_log[t], rid, Row(rid), committed[rid])
<1>1. writers[rid] = {t} /\ Exists(pages, rid)
  BY DEF IInv, Exclusive, RowsExist
<1>2. ASSUME NEW u \in Tx PROVE ~At(u, rid) /\ ~From(u, rid)
  <2>1. At(u, rid) => writers[rid] \subseteq {u} /\ New(u)
    BY DEF IInv, NewRows, NewGood, At
  <2>2. From(u, rid) => u \in writers[rid] /\ New(u)
    BY DEF IInv, MovedRows, MovedGood, From, New
  <2> QED
    BY <1>1, <2>1, <2>2 DEF New
<1>3. Undoes(undo_log[t], rid, Row(rid), committed[rid])
  <2>1. Before(rid, Row(rid)) /\ Row(rid) \in Tuple \cup {NoTuple}
    BY <1>2, BeforeIs, RowTyped
  <2> QED
    BY <1>1, <2>1, Mine
<1> QED
  BY <1>1, <1>2, <1>3

(* All locks are given back at once; what the rows hold is committed.      *)
LEMMA EndStep ==
  ASSUME IInv, ~asserted, NEW t \in Tx, pc[t] \in {"ready", "undo"},
         Locks!ReleaseAll(t), pc' = [pc EXCEPT ![t] = "ended"],
         state' \in [Tx -> {"GROWING", "COMMITTED", "ABORTED"}],
         committed' \in [RIDs -> Tuple \cup {NoTuple}],
         \A r \in RIDs : committed'[r] = IF t \in writers[r] THEN Row(r) ELSE committed[r],
         UNCHANGED <<pages, undo_log, call, cursor, calls, asserted>>
  PROVE  IInv'
<1>1. /\ pc \in [Tx -> {"ready", "upgrade", "inserted", "moved", "undo", "ended"}]
      /\ readers \in [RIDs -> SUBSET Tx] /\ writers \in [RIDs -> SUBSET Tx]
      /\ GoodHeap(pages) /\ Exclusive
  BY DEF IInv, TypeOK
<1>2. Rid(1, 0) \in RIDs
  BY RidsAre
<1>3. Exclusive' /\ readers' \in [RIDs -> SUBSET Tx] /\ writers' \in [RIDs -> SUBSET Tx]
  BY <1>1, <1>2, LockStep
<1>4. /\ pc'[t] = "ended" /\ \A u \in Tx \ {t} : pc'[u] = pc[u] /\ call'[u] = call[u] /\ undo_log'[u] = undo_log[u]
      /\ \A r \in RIDs : writers'[r] = writers[r] \ {t}
      /\ \A r : Row(r)' = Row(r)
  BY <1>1 DEF Locks!ReleaseAll, Row
<1>5. TypeOK'
  <2>1. pc' \in [Tx -> {"ready", "upgrade", "inserted", "moved", "undo", "ended"}]
    BY <1>1
  <2> QED
    BY <1>3, <2>1 DEF IInv, TypeOK
<1>6. PICK S : S = {r \in RIDs : t \in writers[r]}
  OBVIOUS
<1>7. \A x : ~At(t, x) /\ ~From(t, x) /\ ~At(t, x)' /\ ~From(t, x)'
  BY <1>4 DEF At, From, New
<1>8. \A x \in S :
         /\ Exists(pages', x)
         /\ writers[x] \subseteq {t} /\ writers'[x] \subseteq {t}
         /\ \A u \in Tx \ {t} : ~At(u, x) /\ ~From(u, x)
         /\ \A v \in Tuple \cup {NoTuple} : Before(x, v)' =>
              /\ writers'[x] = {} => v = committed'[x]
              /\ t \in writers'[x] => Undoes(undo_log'[t], x, v, committed'[x])
  <2> SUFFICES ASSUME NEW x \in S
               PROVE  /\ Exists(pages', x)
                      /\ writers[x] \subseteq {t} /\ writers'[x] = {}
                      /\ \A u \in Tx \ {t} : ~At(u, x) /\ ~From(u, x)
                      /\ \A v \in Tuple \cup {NoTuple} : Before(x, v)' => v = committed'[x]
    OBVIOUS
  <2>1. x \in RIDs /\ t \in writers[x]
    BY <1>6
  <2>2. writers[x] = {t} /\ Exists(pages, x) /\ \A u \in Tx : ~At(u, x) /\ ~From(u, x)
    BY <2>1, HisOwn
  <2>3. \A u \in Tx : ~At(u, x)' /\ ~From(u, x)'
    BY <1>4, <1>7, <2>2 DEF At, From, New
  <2>4. \A v : Before(x, v)' => v = Row(x)'
    BY <2>3 DEF Before
  <2>5. writers'[x] = {}
    BY <1>4, <2>1, <2>2
  <2> QED
    BY <1>4, <2>1, <2>2, <2>4, <2>5
<1>9. \A x \in RIDs \ S :
         /\ writers'[x] = writers[x] /\ committed'[x] = committed[x] /\ Row(x)' = Row(x)
         /\ (At(t, x)' <=> At(t, x)) /\ (From(t, x)' <=> From(t, x))
         /\ From(t, x) => call'[t].tuple = call[t].tuple
         /\ \A v, w : Undoes(undo_log[t], x, v, w) => Undoes(undo_log'[t], x, v, w)
  <2>1. \A x \in RIDs \ S : t \notin writers[x]
    BY <1>6
  <2>2. ASSUME NEW x \in RIDs \ S PROVE writers'[x] = writers[x]
    <3>1. t \notin writers[x] /\ writers'[x] = writers[x] \ {t}
      BY <1>4, <2>1
    <3>2. writers[x] \ {t} = writers[x]
      BY <3>1
    <3> QED
      BY <3>1, <3>2
  <2>3. \A x \in RIDs \ S : committed'[x] = committed[x] /\ Row(x)' = Row(x)
    BY <1>4, <2>1
  <2>4. undo_log'[t] = undo_log[t]
    OBVIOUS
  <2> QED
    BY <1>7, <2>2, <2>3, <2>4
<1>10. /\ IInv /\ ~asserted /\ ~asserted' /\ t \in Tx /\ S \in SUBSET RIDs /\ GoodHeap(pages')
       /\ \A x \in RIDs : Exists(pages, x) => Exists(pages', x)
       /\ \A u \in Tx \ {t} : pc'[u] = pc[u] /\ call'[u] = call[u] /\ undo_log'[u] = undo_log[u]
       /\ pc'[t] = "ended" \/ \A i \in DOMAIN undo_log'[t] : t \in writers'[undo_log'[t][i].rid]
       /\ New(t)' => NewGood(t)'
       /\ pc'[t] = "moved" => MovedGood(t)'
       /\ Waits(t)' => /\ Exists(pages', call'[t].rid)
                       /\ \A u \in Tx \ {t} : New(u) => call[u].rid # call'[t].rid
  BY <1>1, <1>4, <1>6 DEF New, Waits
<1> QED
  BY ONLY <1>3, <1>5, <1>8, <1>9, <1>10, Step

LEMMA CommitStep ==
  ASSUME IInv, NEW t \in Tx, Commit(t)
  PROVE  IInv'
<1>1. /\ pc[t] = "ready" /\ ~asserted /\ Locks!ReleaseAll(t)
      /\ committed' = [rid \in RIDs |-> IF t \in writers[rid] THEN Row(rid) ELSE committed[rid]]
      /\ state' = [state EXCEPT ![t] = "COMMITTED"] /\ pc' = [pc EXCEPT ![t] = "ended"]
      /\ UNCHANGED <<pages, undo_log, call, cursor, calls, asserted>>
  BY DEF Commit
<1>2. \A r : Row(r) \in Tuple \cup {NoTuple}
  BY RowTyped
<1>3. /\ state' \in [Tx -> {"GROWING", "COMMITTED", "ABORTED"}]
      /\ committed' \in [RIDs -> Tuple \cup {NoTuple}]
  BY <1>1, <1>2 DEF IInv, TypeOK
<1> QED
  BY <1>1, <1>3, EndStep

LEMMA AbortEndStep ==
  ASSUME IInv, NEW t \in Tx, AbortEnd(t)
  PROVE  IInv'
<1>1. /\ pc[t] = "undo" /\ ~asserted /\ undo_log[t] = <<>> /\ Locks!ReleaseAll(t)
      /\ state' = [state EXCEPT ![t] = "ABORTED"] /\ pc' = [pc EXCEPT ![t] = "ended"]
      /\ UNCHANGED <<pages, undo_log, call, cursor, calls, asserted, committed>>
  BY DEF AbortEnd
<1>2. /\ state' \in [Tx -> {"GROWING", "COMMITTED", "ABORTED"}]
      /\ committed' \in [RIDs -> Tuple \cup {NoTuple}]
  BY <1>1 DEF IInv, TypeOK
<1>3. ASSUME NEW r \in RIDs, t \in writers[r] PROVE committed[r] = Row(r)
  <2>1. Undoes(undo_log[t], r, Row(r), committed[r])
    BY <1>1, <1>3, HisOwn
  <2>2. Untouched(undo_log[t], r)
    BY <1>1 DEF Untouched
  <2> QED
    BY <2>1, <2>2 DEF Undoes
<1> QED
  BY <1>1, <1>2, <1>3, EndStep

-----------------------------------------------------------------------------
(* One record is undone.                                                   *)
LEMMA NewestRemoved ==
  ASSUME NEW log, log \in Seq(UndoRecord), log # <<>>
  PROVE  /\ Len(log) \in DOMAIN log /\ log[Len(log)] \in UndoRecord
         /\ RemoveAt(log, Len(log)) \in Seq(UndoRecord)
         /\ log = RemoveAt(log, Len(log)) \o <<log[Len(log)]>>
<1> DEFINE n == Len(log)
<1>1. n \in Nat /\ n >= 1 /\ DOMAIN log = 1 .. n /\ n \in 1 .. n /\ 1 \in 1 .. n
  OBVIOUS
<1>2. SubSeq(log, n + 1, n) = <<>>
  BY <1>1, SubSeqEmpty
<1>3. SubSeq(log, 1, n - 1) \in Seq(UndoRecord)
  BY <1>1
<1>4. RemoveAt(log, n) = SubSeq(log, 1, n - 1)
  BY <1>2, <1>3, ConcatEmptySeq DEF RemoveAt
<1>5. SubSeq(log, 1, n) = log
  BY SubSeqFull
<1>6. SubSeq(log, 1, n) = SubSeq(log, 1, n - 1) \o <<log[n]>>
  BY ONLY log \in Seq(UndoRecord), <1>1, SubSeqRecursiveSecond
<1>7. log[n] \in UndoRecord
  BY <1>1
<1> HIDE DEF n
<1>8. log = RemoveAt(log, n) \o <<log[n]>> /\ RemoveAt(log, n) \in Seq(UndoRecord)
  BY <1>3, <1>4, <1>5, <1>6
<1> QED
  BY <1>1, <1>7, <1>8 DEF n

LEMMA SlotEmpty ==
  ASSUME GoodHeap(pages), NEW rid \in RIDs, Exists(pages, rid), Row(rid) = NoTuple
  PROVE  SlotIsEmpty(pages[rid.page_id], rid.slot_num)
<1>1. rid \in AnyRid /\ ~heap_has(pages, rid)
  BY RidsAre, HeapTypes DEF Row
<1> QED
  BY <1>1 DEF Exists, heap_has, SlotIsEmpty

(* What a record that restores a row relies on.                            *)
LEMMA FindsSlot ==
  ASSUME IInv, ~asserted
  PROVE  UndoFindsItsSlot
<1> SUFFICES ASSUME NEW t \in Tx, pc[t] = "undo", undo_log[t] # <<>>,
                    NEW u, u = undo_log[t][Len(undo_log[t])], u.kind = "restore"
             PROVE  SlotIsEmpty(pages[u.rid.page_id], u.rid.slot_num)
  BY DEF UndoFindsItsSlot, NextUndo
<1> DEFINE n == Len(undo_log[t])
<1>1. undo_log[t] \in Seq(UndoRecord) /\ GoodHeap(pages)
  BY DEF IInv, TypeOK
<1>2. n \in DOMAIN undo_log[t] /\ u \in UndoRecord /\ n \in Nat
  BY <1>1, NewestRemoved
<1>3. u.rid \in RIDs /\ t \in writers[u.rid]
  BY <1>2 DEF UndoRecord, IInv, LogsLocked
<1>4. Exists(pages, u.rid) /\ Undoes(undo_log[t], u.rid, Row(u.rid), committed[u.rid])
  BY <1>3, HisOwn
<1>5. Newest(undo_log[t], n)
  BY <1>2 DEF Newest
<1>6. Row(u.rid) = NoTuple
  BY <1>2, <1>4, <1>5 DEF Undoes
<1> QED
  BY <1>1, <1>3, <1>4, <1>6, SlotEmpty

(* A record is undone, whatever its kind.                                  *)
LEMMA PopStep ==
  ASSUME IInv, ~asserted, NEW t \in Tx, pc[t] = "undo",
         NEW log \in Seq(UndoRecord), NEW x \in UndoRecord, undo_log[t] = log \o <<x>>,
         undo_log' = [undo_log EXCEPT ![t] = log],
         GoodHeap(pages'), Fits(pages'), \A r \in RIDs : Exists(pages, r) => Exists(pages', r),
         \A r \in RIDs : r # x.rid => Row(r)' = Row(r),
         \A r \in RIDs : r = x.rid => Row(r)' = x.tuple,
         UNCHANGED <<lockVars, state, pc, call, cursor, calls, asserted, committed>>
  PROVE  IInv'
<1>1. PICK rid : rid = x.rid
  OBVIOUS
<1>2. /\ undo_log \in [Tx -> Seq(UndoRecord)] /\ rid \in RIDs /\ x.rid = rid
      /\ UNCHANGED <<readers, writers>>
  BY <1>1 DEF IInv, TypeOK, UndoRecord, lockVars
<1>3. /\ DOMAIN log \subseteq DOMAIN undo_log[t] /\ Len(undo_log[t]) \in DOMAIN undo_log[t]
      /\ undo_log[t][Len(undo_log[t])] = x /\ \A i \in DOMAIN log : undo_log[t][i] = log[i]
  <2>1. /\ Len(log) \in Nat /\ DOMAIN log = 1 .. Len(log)
        /\ Len(undo_log[t]) = Len(log) + 1 /\ DOMAIN undo_log[t] = 1 .. Len(log) + 1
        /\ undo_log[t][Len(log) + 1] = x /\ \A i \in 1 .. Len(log) : undo_log[t][i] = log[i]
    BY Pushed
  <2> QED
    BY <2>1
<1>4. \A i \in DOMAIN undo_log[t] : t \in writers[undo_log[t][i].rid]
  BY DEF IInv, LogsLocked
<1>5. t \in writers[rid] /\ \A i \in DOMAIN log : t \in writers[log[i].rid]
  BY <1>1, <1>3, <1>4
<1>6. /\ writers[rid] = {t} /\ Exists(pages, rid)
      /\ \A u \in Tx : ~At(u, rid) /\ ~From(u, rid)
      /\ Undoes(log \o <<x>>, rid, Row(rid), committed[rid])
  <2>1. /\ writers[rid] = {t} /\ Exists(pages, rid)
        /\ \A u \in Tx : ~At(u, rid) /\ ~From(u, rid)
        /\ Undoes(undo_log[t], rid, Row(rid), committed[rid])
    BY <1>2, <1>5, HisOwn
  <2> QED
    BY <2>1
<1>7. Undoes(log, rid, x.tuple, committed[rid])
  <2>1. Undoes(log \o <<x>>, x.rid, Row(rid), committed[rid])
    BY <1>1, <1>6
  <2>2. Undoes(log, x.rid, x.tuple, committed[rid])
    BY <2>1, Undone
  <2> QED
    BY <1>1, <2>2
<1>8. /\ undo_log'[t] = log
      /\ \A u \in Tx \ {t} : undo_log'[u] = undo_log[u]
      /\ Row(rid)' = x.tuple /\ Exists(pages', rid)
  BY <1>1, <1>2, <1>6
<1>9. Exclusive'
  BY <1>2 DEF IInv, Exclusive
<1>10. TypeOK'
  <2>1. undo_log' \in [Tx -> Seq(UndoRecord)]
    BY <1>2
  <2> QED
    BY <1>2, <2>1, HeapTyped DEF IInv, TypeOK
<1>11. PICK S : S = {rid}
  OBVIOUS
<1>12. ASSUME NEW v, Before(rid, v)' PROVE v = x.tuple
  <2>1. \A u \in Tx : ~At(u, rid)' /\ ~From(u, rid)'
    BY <1>6 DEF At, From, New
  <2>2. v = Row(rid)'
    BY <1>12, <2>1 DEF Before
  <2> QED
    BY <1>8, <2>2
<1>13. \A y \in S :
         /\ Exists(pages', y)
         /\ writers[y] \subseteq {t} /\ writers'[y] \subseteq {t}
         /\ \A u \in Tx \ {t} : ~At(u, y) /\ ~From(u, y)
         /\ \A v \in Tuple \cup {NoTuple} : Before(y, v)' =>
              /\ writers'[y] = {} => v = committed'[y]
              /\ t \in writers'[y] => Undoes(undo_log'[t], y, v, committed'[y])
  <2>1. \A v \in Tuple \cup {NoTuple} : Before(rid, v)' =>
              /\ writers'[rid] = {} => v = committed'[rid]
              /\ t \in writers'[rid] => Undoes(undo_log'[t], rid, v, committed'[rid])
    BY <1>2, <1>6, <1>7, <1>8, <1>12
  <2> QED
    BY <1>2, <1>6, <1>8, <1>11, <2>1
<1>14. \A y \in RIDs \ S :
         /\ writers'[y] = writers[y] /\ committed'[y] = committed[y] /\ Row(y)' = Row(y)
         /\ (At(t, y)' <=> At(t, y)) /\ (From(t, y)' <=> From(t, y))
         /\ From(t, y) => call'[t].tuple = call[t].tuple
         /\ \A v, w : Undoes(undo_log[t], y, v, w) => Undoes(undo_log'[t], y, v, w)
  <2>1. \A y \in RIDs \ S : \A v, w : Undoes(undo_log[t], y, v, w) => Undoes(undo_log'[t], y, v, w)
    BY <1>1, <1>8, <1>11, UndoesOther
  <2>2. \A y \in RIDs \ S : Row(y)' = Row(y)
    BY <1>1, <1>11
  <2>3. \A y \in RIDs \ S : (At(t, y)' <=> At(t, y)) /\ (From(t, y)' <=> From(t, y))
    BY DEF At, From, New
  <2> QED
    BY <1>2, <2>1, <2>2, <2>3
<1>15. \A i \in DOMAIN undo_log'[t] : t \in writers'[undo_log'[t][i].rid]
  BY <1>2, <1>5, <1>8
<1>16. /\ IInv /\ ~asserted /\ ~asserted' /\ t \in Tx /\ S \in SUBSET RIDs /\ GoodHeap(pages')
       /\ \A r \in RIDs : Exists(pages, r) => Exists(pages', r)
       /\ \A u \in Tx \ {t} : pc'[u] = pc[u] /\ call'[u] = call[u] /\ undo_log'[u] = undo_log[u]
       /\ New(t)' => NewGood(t)'
       /\ pc'[t] = "moved" => MovedGood(t)'
       /\ Waits(t)' => /\ Exists(pages', call'[t].rid)
                       /\ \A u \in Tx \ {t} : New(u) => call[u].rid # call'[t].rid
  BY <1>2, <1>8, <1>11 DEF New, Waits
<1> QED
  BY ONLY <1>9, <1>10, <1>13, <1>14, <1>15, <1>16, Step

(* The assertion of restore_tuple fails: the process ends.                 *)
LEMMA AssertStep ==
  ASSUME IInv, ~asserted, NEW t \in Tx, pc[t] = "undo",
         NEW log \in Seq(UndoRecord), NEW x \in UndoRecord, undo_log[t] = log \o <<x>>,
         x.kind = "restore", undo_log' = [undo_log EXCEPT ![t] = log], asserted' = TRUE,
         UNCHANGED <<pages, lockVars, state, pc, call, cursor, calls, committed>>
  PROVE  IInv'
<1>1. /\ undo_log \in [Tx -> Seq(UndoRecord)] /\ GoodHeap(pages)
      /\ UNCHANGED <<readers, writers>>
  BY DEF IInv, TypeOK, lockVars
<1>2. /\ undo_log'[t] = log /\ undo_log' \in [Tx -> Seq(UndoRecord)]
      /\ \A u \in Tx \ {t} : undo_log'[u] = undo_log[u]
  BY <1>1
<1>3. DOMAIN log \subseteq DOMAIN undo_log[t] /\ \A i \in DOMAIN log : undo_log[t][i] = log[i]
  <2>1. /\ Len(log) \in Nat /\ DOMAIN log = 1 .. Len(log)
        /\ DOMAIN undo_log[t] = 1 .. Len(log) + 1
        /\ \A i \in 1 .. Len(log) : undo_log[t][i] = log[i]
    BY Pushed
  <2> QED
    BY <2>1
<1>4. TypeOK'
  BY <1>1, <1>2 DEF IInv, TypeOK
<1>5. Exclusive' /\ RowsExist' /\ NewRows' /\ MovedRows'
  BY <1>1 DEF IInv, Exclusive, RowsExist, NewRows, NewGood, MovedRows, MovedGood, New, Waits, Row
<1>6. LogsLocked'
  BY <1>1, <1>2, <1>3 DEF IInv, LogsLocked
<1>7. Settled'
  <2> SUFFICES ASSUME NEW r \in RIDs, NEW v \in Tuple \cup {NoTuple}, Before(r, v)' PROVE Rests(r, v)'
    BY DEF Settled
  <2>1. Before(r, v)
    BY DEF Before, At, From, New, Row
  <2>2. Rests(r, v)
    BY <2>1 DEF IInv, Settled
  <2>3. \A u \in writers[r] : u \in Tx
    BY DEF IInv, TypeOK
  <2> QED
    BY <1>1, <1>2, <2>2, <2>3 DEF Rests
<1>8. UndoFindsItsSlot'
  <2> SUFFICES ASSUME NEW u \in Tx, pc[u] = "undo", undo_log'[u] # <<>>,
                      NEW y, y = undo_log'[u][Len(undo_log'[u])], y.kind = "restore"
               PROVE  SlotIsEmpty(pages[y.rid.page_id], y.rid.slot_num)
    BY DEF UndoFindsItsSlot, NextUndo
  <2>1. CASE u # t
    BY <1>2, <2>1, FindsSlot DEF UndoFindsItsSlot, NextUndo
  <2>2. CASE u = t
    <3> DEFINE n == Len(log)
    <3>1. log # <<>> /\ y = log[n]
      BY <1>2, <2>2
    <3>2. n \in DOMAIN log /\ y \in UndoRecord /\ n \in Nat /\ Newest(log, n)
      BY <3>1, NewestRemoved DEF Newest
    <3> HIDE DEF n
    <3>3. y.rid \in RIDs /\ t \in writers[y.rid]
      BY <1>3, <3>1, <3>2 DEF UndoRecord, IInv, LogsLocked
    <3>4. Exists(pages, y.rid) /\ Undoes(log \o <<x>>, y.rid, Row(y.rid), committed[y.rid])
      BY <3>3, HisOwn
    <3>5. x.rid # y.rid
      <4> SUFFICES ASSUME x.rid = y.rid PROVE FALSE
        OBVIOUS
      <4>1. Undoes(log \o <<x>>, x.rid, Row(y.rid), committed[y.rid])
        BY <3>4
      <4>2. \A i \in DOMAIN log : log[i].rid = x.rid /\ Newest(log, i) /\ x.kind = "restore"
               => log[i].kind = "delete"
        BY ONLY log \in Seq(UndoRecord), x \in UndoRecord, <4>1, Undone
      <4>3. log[n].kind = "delete"
        BY <3>1, <3>2, <4>2
      <4> QED
        BY <3>1, <4>3
    <3>6. Undoes(log, y.rid, Row(y.rid), committed[y.rid])
      BY <3>4, <3>5, UndoesOther
    <3>7. Row(y.rid) = NoTuple
      BY <3>1, <3>2, <3>6 DEF Undoes
    <3> QED
      BY <1>1, <3>3, <3>4, <3>7, SlotEmpty
  <2> QED
    BY <2>1, <2>2
<1> QED
  BY <1>1, <1>4, <1>5, <1>6, <1>7, <1>8 DEF IInv

LEMMA UndoStep ==
  ASSUME IInv, NEW t \in Tx, Undo(t)
  PROVE  IInv'
<1>1. PICK x : x = undo_log[t][Len(undo_log[t])]
  OBVIOUS
<1>2. PICK log : log = RemoveAt(undo_log[t], Len(undo_log[t]))
  OBVIOUS
<1>3. /\ pc[t] = "undo" /\ ~asserted /\ undo_log[t] # <<>>
      /\ undo_log' = [undo_log EXCEPT ![t] = log]
      /\ UNCHANGED <<lockVars, state, pc, call, cursor, calls, committed>>
      /\ IF x.kind = "delete" THEN pages' = Withdrawn(x.rid) /\ UNCHANGED asserted
         ELSE IF CanRestore(pages, x.rid, x.tuple)
         THEN pages' = heap_restore(pages, x.rid, x.tuple) /\ UNCHANGED asserted
         ELSE asserted' = TRUE /\ UNCHANGED pages
  BY <1>1, <1>2 DEF Undo, NextUndo
<1>4. undo_log[t] \in Seq(UndoRecord) /\ GoodHeap(pages) /\ Fits(pages)
  BY TypeFits DEF IInv, TypeOK
<1>5. /\ log \in Seq(UndoRecord) /\ x \in UndoRecord /\ undo_log[t] = log \o <<x>>
      /\ Len(undo_log[t]) \in DOMAIN undo_log[t]
  BY <1>1, <1>2, <1>3, <1>4, NewestRemoved
<1>6. /\ x.rid \in RIDs /\ x.rid \in AnyRid /\ x.kind \in {"delete", "restore"}
      /\ x.kind = "delete" => x.tuple = NoTuple
      /\ x.kind = "restore" => x.tuple \in Tuple
  BY <1>5, RidsAre DEF UndoRecord
<1>7. Exists(pages, x.rid)
  <2>1. t \in writers[x.rid]
    BY <1>1, <1>3, <1>5 DEF IInv, LogsLocked
  <2> QED
    BY <1>6, <2>1 DEF IInv, RowsExist
<1>8. CASE x.kind = "restore" /\ ~CanRestore(pages, x.rid, x.tuple)
  BY <1>3, <1>5, <1>8, AssertStep
<1>9. CASE /\ UNCHANGED asserted
           /\ \/ OneChange(pages, pages', x.rid, x.tuple) /\ SameSlots(pages, pages')
              \/ UNCHANGED pages /\ RowIn(pages, x.rid) = x.tuple
  <2>1. /\ GoodHeap(pages') /\ Fits(pages') /\ \A r \in RIDs : Exists(pages, r) => Exists(pages', r)
        /\ \A r \in RIDs : r # x.rid => RowIn(pages', r) = RowIn(pages, r)
        /\ RowIn(pages', x.rid) = x.tuple
    BY <1>4, <1>9, SameFits, RidsAre DEF OneChange
  <2>2. /\ \A r \in RIDs : r # x.rid => Row(r)' = Row(r)
        /\ \A r \in RIDs : r = x.rid => Row(r)' = x.tuple
    BY <2>1 DEF Row
  <2> QED
    BY <1>3, <1>5, <1>9, <2>1, <2>2, PopStep
<1>10. CASE x.kind = "restore" /\ CanRestore(pages, x.rid, x.tuple)
  <2>1. pages' = heap_restore(pages, x.rid, x.tuple) /\ UNCHANGED asserted
    BY <1>3, <1>10
  <2>2. OneChange(pages, pages', x.rid, x.tuple) /\ SameSlots(pages, pages')
    BY <1>4, <1>6, <1>7, <1>10, <2>1, HeapRestore DEF Exists
  <2> QED
    BY <1>9, <2>1, <2>2
<1>11. CASE x.kind = "delete"
  <2>1. pages' = Withdrawn(x.rid) /\ UNCHANGED asserted
    BY <1>3, <1>11
  <2>2. CASE RowIn(pages, x.rid) # NoTuple
    <3>1. pages' = heap_delete(pages, x.rid)
      BY <1>4, <1>6, <2>1, <2>2, HeapTypes DEF Withdrawn
    <3>2. OneChange(pages, pages', x.rid, x.tuple) /\ SameSlots(pages, pages')
      BY <1>4, <1>6, <1>11, <2>2, <3>1, HeapDelete
    <3> QED
      BY <1>9, <2>1, <3>2
  <2>3. CASE RowIn(pages, x.rid) = NoTuple
    <3>1. UNCHANGED pages
      BY <1>4, <1>6, <2>1, <2>3, HeapTypes DEF Withdrawn
    <3> QED
      BY <1>6, <1>9, <1>11, <2>1, <2>3, <3>1
  <2> QED
    BY <2>2, <2>3
<1> QED
  BY <1>6, <1>8, <1>10, <1>11

-----------------------------------------------------------------------------
(* The start.  Table is a recursive function: that there is one, and that  *)
(* each of its heaps is sound, takes an induction over the loaded calls.   *)
Applied(c, x) == IF x \in Tuple THEN heap_insert(c, x).pages ELSE heap_delete(c, x)
IsTable(f, m) ==
  f = [n \in 0 .. m |-> IF n = 0 THEN <<init>> ELSE Applied(f[n - 1], Loaded[n])]

LEMMA TableExists ==
  \A m \in 0 .. Len(Loaded) : \E f : IsTable(f, m)
<1> DEFINE n == Len(Loaded)
           T == {m \in 0 .. n : \E f : IsTable(f, m)}
<1>1. n \in Nat
  BY LoadedAssumption
<1>2. 0 \in T
  <2> DEFINE f == [k \in 0 .. 0 |-> <<init>>]
  <2>1. IsTable(f, 0)
    BY DEF IsTable
  <2> QED
    BY <1>1, <2>1
<1>3. ASSUME NEW i \in 1 .. n, i - 1 \in T PROVE i \in T
  <2>1. PICK f : IsTable(f, i - 1)
    BY <1>3
  <2> DEFINE g == [k \in 0 .. i |-> IF k = i THEN Applied(f[i - 1], Loaded[i]) ELSE f[k]]
  <2>2. i \in Nat /\ i # 0 /\ i - 1 \in 0 .. i
    BY <1>1
  <2>3. /\ f[0] = <<init>>
        /\ \A k \in 0 .. i - 1 : k # 0 => f[k] = Applied(f[k - 1], Loaded[k])
    <3>1. 0 \in 0 .. i - 1
      BY <2>2
    <3> QED
      BY <2>1, <3>1 DEF IsTable
  <2>4. ASSUME NEW k \in 0 .. i
        PROVE  g[k] = IF k = 0 THEN <<init>> ELSE Applied(g[k - 1], Loaded[k])
    <3>1. CASE k = i
      <4>1. g[k] = Applied(f[i - 1], Loaded[i]) /\ g[k - 1] = f[i - 1]
        BY <2>2, <3>1
      <4> QED
        BY <2>2, <3>1, <4>1
    <3>2. CASE k # i
      <4>1. k \in 0 .. i - 1 /\ g[k] = f[k] /\ (k # 0 => k - 1 \in 0 .. i /\ k - 1 # i)
        BY <2>2, <3>2
      <4>2. k # 0 => g[k - 1] = f[k - 1]
        BY <4>1
      <4> QED
        BY <2>3, <4>1, <4>2
    <3> QED
      BY <3>1, <3>2
  <2>5. g = [k \in 0 .. i |-> g[k]]
    OBVIOUS
  <2> HIDE DEF g
  <2>6. g = [k \in 0 .. i |-> IF k = 0 THEN <<init>> ELSE Applied(g[k - 1], Loaded[k])]
    BY <2>4, <2>5
  <2>7. IsTable(g, i)
    BY <2>6 DEF IsTable
  <2> QED
    BY <1>1, <2>7
<1> HIDE DEF T
<1>4. \A m \in 0 .. n : m \in T
  BY <1>1, <1>2, <1>3, Climb
<1> QED
  BY <1>4 DEF T

LEMMA TableIs == IsTable(Table, Len(Loaded))
<1> DEFINE n == Len(Loaded)
           Body(f) == [k \in 0 .. n |->
                         IF k = 0 THEN <<init>>
                         ELSE IF Loaded[k] \in Tuple THEN heap_insert(f[k - 1], Loaded[k]).pages
                         ELSE heap_delete(f[k - 1], Loaded[k])]
<1>1. n \in Nat
  BY LoadedAssumption
<1>2. PICK f : IsTable(f, n)
  BY <1>1, TableExists
<1>3. f = Body(f)
  BY <1>2 DEF IsTable, Applied
<1>4. Table = CHOOSE g : g = Body(g)
  BY DEF Table
<1>5. Table = Body(Table)
  BY <1>3, <1>4
<1> QED
  BY <1>5 DEF IsTable, Applied

LEMMA FirstHeap == GoodHeap(<<init>>)
<1>1. GoodPage(init) /\ init \in PageType
  BY InitGood, RowOfIs DEF GoodPage, Sound
<1>2. <<init>> \in Seq(PageType) /\ Len(<<init>>) = 1 /\ DOMAIN <<init>> = {1} /\ <<init>>[1] = init
  BY <1>1
<1> QED
  BY <1>1, <1>2 DEF GoodHeap

LEMMA StartGood == GoodHeap(Start) /\ Fits(Start)
<1> DEFINE n == Len(Loaded)
           T == {m \in 0 .. n : GoodHeap(Table[m])}
<1>1. /\ n \in Nat /\ DOMAIN Loaded = 1 .. n
      /\ \A k \in 1 .. n : Loaded[k] \in Tuple \cup RIDs
      /\ \A k \in 1 .. n : Loaded[k] \in Tuple \/ heap_has(Table[k - 1], Loaded[k])
  BY LoadedAssumption
<1>2. \A m \in 0 .. n : Table[m] = IF m = 0 THEN <<init>> ELSE Applied(Table[m - 1], Loaded[m])
  BY TableIs DEF IsTable
<1>3. 0 \in T
  BY <1>1, <1>2, FirstHeap
<1>4. ASSUME NEW i \in 1 .. n, i - 1 \in T PROVE i \in T
  <2>1. PICK c : c = Table[i - 1]
    OBVIOUS
  <2>2. PICK x : x = Loaded[i]
    OBVIOUS
  <2>3. GoodHeap(c) /\ Table[i] = Applied(c, x)
    BY <1>1, <1>2, <1>4, <2>1, <2>2
  <2>4. CASE x \in Tuple
    <3>1. OneChange(c, heap_insert(c, x).pages, heap_insert(c, x).rid, x)
      BY <2>3, <2>4, HeapInsert
    <3> QED
      BY <1>1, <2>3, <2>4, <3>1 DEF OneChange, Applied
  <2>5. CASE x \notin Tuple
    <3>1. x \in AnyRid /\ RowIn(c, x) # NoTuple
      BY <1>1, <2>1, <2>2, <2>3, <2>5, HeapTypes, RidsAre
    <3>2. OneChange(c, heap_delete(c, x), x, NoTuple)
      BY <2>3, <3>1, HeapDelete
    <3> QED
      BY <1>1, <2>3, <2>5, <3>2 DEF OneChange, Applied
  <2> QED
    BY <2>4, <2>5
<1> HIDE DEF T
<1>5. \A m \in 0 .. n : m \in T
  BY <1>1, <1>3, <1>4, Climb
<1>6. n \in T
  BY <1>1, <1>5
<1> QED
  BY <1>6, LoadedAssumption DEF T, Start

LEMMA InitInv == Init => IInv
<1> SUFFICES ASSUME Init PROVE IInv
  OBVIOUS
<1>1. /\ pages = Start /\ state = [t \in Tx |-> "GROWING"] /\ undo_log = [t \in Tx |-> <<>>]
      /\ pc = [t \in Tx |-> "ready"] /\ call = [t \in Tx |-> NoCall]
      /\ cursor = [t \in Tx |-> Rid(1, 0)] /\ calls = 0 /\ asserted = FALSE
      /\ committed = [rid \in RIDs |-> Row(rid)]
      /\ readers = [rid \in RIDs |-> {}] /\ writers = [rid \in RIDs |-> {}]
  BY DEF Init, Locks!Init, Row
<1>2. GoodHeap(pages) /\ Fits(pages)
  BY <1>1, StartGood
<1>3. \A t \in Tx : ~New(t) /\ ~Waits(t) /\ pc[t] = "ready" /\ undo_log[t] = <<>>
  BY <1>1 DEF New, Waits
<1>4. \A r : Row(r) \in Tuple \cup {NoTuple}
  BY <1>2, HeapTypes DEF Row
<1>5. TypeOK
  <2>1. NoCall \in Call /\ Rid(1, 0) \in RIDs /\ 0 \in 0 .. MaxCalls
    BY RidsAre DEF NoCall, Call
  <2>2. /\ Len(pages) \in 1 .. MaxPages
        /\ \A i \in DOMAIN pages : /\ pages[i].slots \in Seq(Slot)
                                   /\ slot_count(pages[i]) <= MaxSlots
                                   /\ pages[i].free_space_offset \in 0 .. kPAGE_SIZE
    BY <1>2, HeapFits
  <2>3. <<>> \in Seq(UndoRecord)
    OBVIOUS
  <2> QED
    BY <1>1, <1>4, <2>1, <2>2, <2>3 DEF TypeOK
<1>6. Exclusive /\ MovedRows /\ NewRows /\ LogsLocked
  BY <1>1, <1>3 DEF Exclusive, MovedRows, NewRows, LogsLocked
<1>7. RowsExist
  <2> SUFFICES ASSUME NEW r \in RIDs, Row(r) # NoTuple PROVE Exists(pages, r)
    BY <1>1, <1>3 DEF RowsExist
  <2> QED
    BY <1>2, HeapTypes, RidsAre DEF Row
<1>8. Settled
  <2> SUFFICES ASSUME NEW r \in RIDs, NEW v, Before(r, v) PROVE v = committed[r] /\ writers[r] = {}
    BY DEF Settled, Rests
  <2>1. v = Row(r)
    BY <1>3 DEF Before, At, From, New
  <2> QED
    BY <1>1, <2>1
<1> QED
  BY <1>1, <1>2, <1>5, <1>6, <1>7, <1>8 DEF IInv

LEMMA NextInv == Patient /\ IInv /\ [Next]_vars => IInv'
<1> SUFFICES ASSUME Patient, IInv, [Next]_vars PROVE IInv'
  OBVIOUS
<1>1. CASE UNCHANGED vars
  BY <1>1 DEF vars, lockVars, IInv, TypeOK, Exclusive, RowsExist, NewRows, NewGood, MovedRows, MovedGood,
              LogsLocked, Settled, Rests, Before, At, From, New, Waits, Row, UndoFindsItsSlot
<1>2. ASSUME NEW t \in Tx, Client(t) PROVE IInv'
  <2>1. CASE Commit(t)
    BY <2>1, CommitStep
  <2>2. CASE Abort(t)
    BY <2>2, AbortStep
  <2>3. CASE ScanNext(t)
    BY <2>3, ScanStep
  <2>4. ASSUME NEW tuple \in Tuple, Insert(t, tuple) PROVE IInv'
    BY <2>4, InsertStep
  <2>5. ASSUME NEW rid \in RIDs, Read(t, rid) PROVE IInv'
    BY <2>5, ReadStep
  <2>6. ASSUME NEW rid \in RIDs, TimeOut(t, rid) PROVE IInv'
    BY <2>6, TimeOutStep
  <2>7. ASSUME NEW rid \in RIDs, NEW tuple \in Tuple \cup {NoTuple}, UpgradeWaits(t, rid, tuple) PROVE IInv'
    BY <2>7, UpgradeWaitsStep
  <2>8. ASSUME NEW rid \in RIDs, NEW tuple \in Tuple \cup {NoTuple}, Change(t, rid, tuple) PROVE IInv'
    <3>1. /\ pc[t] = "ready" /\ ~asserted /\ calls < MaxCalls /\ calls' = calls + 1
          /\ Known(t, rid) /\ ChangeRow(t, rid, tuple)
      BY <2>8 DEF Change, Ready, Count
    <3>2. calls' \in 0 .. MaxCalls
      BY <3>1, RidsAre DEF IInv, TypeOK
    <3>3. ~New(t) /\ pc[t] # "ended"
      BY <3>1 DEF New
    <3> QED
      BY <3>1, <3>2, <3>3, ChangeStep, MoveStep
  <2> QED
    BY <1>2, <2>1, <2>2, <2>3, <2>4, <2>5, <2>6, <2>7, <2>8 DEF Client
<1>3. ASSUME NEW t \in Tx, Proceed(t) PROVE IInv'
  <2>1. CASE UpgradeEnds(t)
    <3>1. PICK rid : rid = call[t].rid
      OBVIOUS
    <3>2. PICK tuple : tuple = call[t].tuple
      OBVIOUS
    <3>3. pc[t] = "upgrade" /\ ~asserted /\ ChangeRow(t, rid, tuple) /\ UNCHANGED calls
      BY <2>1, <3>1, <3>2 DEF UpgradeEnds
    <3>4. rid \in RIDs /\ tuple \in Tuple \cup {NoTuple} /\ calls' \in 0 .. MaxCalls
      BY <3>1, <3>2, <3>3 DEF IInv, TypeOK, Call
    <3>5. ~New(t) /\ Waits(t) /\ pc[t] # "ended" /\ call[t].rid = rid
      BY <3>1, <3>3 DEF New, Waits
    <3> QED
      BY <3>3, <3>4, <3>5, ChangeStep, MoveStep
  <2>2. CASE UpgradeTimesOut(t)
    BY <2>2, UpgradeTimesOutStep
  <2>3. CASE LockNew(t)
    BY <2>3, LockNewStep
  <2>4. CASE LockNewFails(t)
    BY <2>4, LockNewFailsStep
  <2>5. CASE Undo(t)
    BY <2>5, UndoStep
  <2>6. CASE AbortEnd(t)
    BY <2>6, AbortEndStep
  <2> QED
    BY <1>3, <2>1, <2>2, <2>3, <2>4, <2>5, <2>6 DEF Proceed
<1> QED
  BY <1>1, <1>2, <1>3 DEF Next, Ended

LEMMA Invariant == ASSUME Patient PROVE Spec => []IInv
<1>1. Patient
  OBVIOUS
<1>2. IInv /\ [Next]_vars => IInv'
  BY <1>1, NextInv
<1> QED
  BY <1>2, InitInv, PTL DEF Spec

-----------------------------------------------------------------------------
(* A row that no transaction has locked exclusively, and that no insert or *)
(* move is about to lock, holds what the last commit left there: nothing   *)
(* that Transaction::undo should have taken back stays, nothing that       *)
(* commit has kept goes.                                                   *)
THEOREM Committed == ASSUME Patient PROVE Spec => []UnlockedIsCommitted
<1>1. IInv => UnlockedIsCommitted
  <2> SUFFICES ASSUME IInv, NEW r \in RIDs, writers[r] = {}, ~NewRow(r) PROVE Row(r) = committed[r]
    BY DEF UnlockedIsCommitted, IInv
  <2>1. \A u \in Tx : ~At(u, r) /\ ~From(u, r)
    BY DEF NewRow, At, New, From, IInv, MovedRows, MovedGood
  <2>2. Before(r, Row(r)) /\ Row(r) \in Tuple \cup {NoTuple}
    BY <2>1, BeforeIs, RowTyped
  <2> QED
    BY <2>2 DEF IInv, Settled, Rests
<1> QED
  BY <1>1, Invariant, PTL

(* What Table's calls have changed is in the undo log until commit or      *)
(* abort: a locked row that differs from the committed one has a record.   *)
THEOREM Logged == ASSUME Patient PROVE Spec => []ChangesAreLogged
<1>1. IInv => ChangesAreLogged
  <2> SUFFICES ASSUME IInv, NEW t \in Tx, pc[t] = "ready", NEW r \in RIDs,
                      t \in writers[r], Row(r) # committed[r]
               PROVE  \E i \in DOMAIN undo_log[t] : undo_log[t][i].rid = r
    BY DEF ChangesAreLogged
  <2>1. writers[r] = {t}
    BY DEF IInv, Exclusive
  <2>2. ASSUME NEW u \in Tx PROVE ~At(u, r) /\ ~From(u, r)
    <3>1. At(u, r) => writers[r] \subseteq {u} /\ New(u)
      BY DEF IInv, NewRows, NewGood, At
    <3>2. From(u, r) => u \in writers[r] /\ New(u)
      BY DEF IInv, MovedRows, MovedGood, From, New
    <3> QED
      BY <2>1, <3>1, <3>2 DEF New
  <2>3. Before(r, Row(r)) /\ Row(r) \in Tuple \cup {NoTuple}
    BY <2>2, BeforeIs, RowTyped
  <2>4. Undoes(undo_log[t], r, Row(r), committed[r])
    BY <2>3 DEF IInv, Settled, Rests
  <2> QED
    BY <2>4 DEF Undoes, Untouched
<1> QED
  BY <1>1, Invariant, PTL

(* When Transaction::undo comes to a record that restores a row, the slot  *)
(* of the row is there and empty: what restore_tuple asserts of the slot   *)
(* holds, and only the room in the page can be missing.                    *)
THEOREM SlotFound == ASSUME Patient PROVE Spec => []UndoFindsItsSlot
<1>1. IInv => UndoFindsItsSlot
  BY FindsSlot DEF IInv
<1> QED
  BY <1>1, Invariant, PTL
=============================================================================
