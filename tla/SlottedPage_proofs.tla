----------------------- MODULE SlottedPage_proofs -----------------------
(***************************************************************************)
(* Lemmas about the operators of SlottedPage, for every page size, any     *)
(* number of slots and tuples of any size: what each call does to a page   *)
(* whose tuples are apart, and to the row that a slot shows.  At the end,  *)
(* theorems about any sequence of calls on one page, PageUse.  The proofs  *)
(* of TxTable and HeapChain, which have pages too, use the lemmas.         *)
(***************************************************************************)
EXTENDS PageUse, TableHeap, SequenceTheorems, WellFoundedInduction, TLAPS

(* A set of naturals has a least one.                                      *)
LEMMA Least ==
  ASSUME NEW T \in SUBSET Nat, T # {}
  PROVE  \E x \in T : \A y \in T : x <= y
<1> DEFINE R == OpToRel(<, Nat)
<1>1. IsWellFoundedOn(R, Nat)
  BY NatLessThanWellFounded
<1>2. \A x, y \in Nat : x < y => <<x, y>> \in R
  BY DEF OpToRel
<1> HIDE DEF R
<1>3. PICK x \in T : \A y \in T : ~ (<<y, x>> \in R)
  BY <1>1, WFMin
<1>4. \A y \in T : ~ (y < x)
  BY <1>2, <1>3
<1> QED
  BY <1>4

(* So what holds at 0, and at i when it holds at i - 1, holds up to n.     *)
LEMMA Climb ==
  ASSUME NEW n \in Nat, NEW T, 0 \in T, \A i \in 1 .. n : i - 1 \in T => i \in T
  PROVE  \A i \in 0 .. n : i \in T
<1> SUFFICES ASSUME NEW j \in 0 .. n, j \notin T PROVE FALSE
  OBVIOUS
<1> DEFINE C == {i \in 0 .. n : i \notin T}
<1>1. C \in SUBSET Nat /\ C # {}
  OBVIOUS
<1> HIDE DEF C
<1>2. PICK x \in C : \A y \in C : x <= y
  BY <1>1, Least
<1>3. x \in 0 .. n /\ x \notin T /\ x # 0 /\ x - 1 \in 0 .. n /\ ~(x <= x - 1)
  BY <1>2 DEF C
<1>4. x - 1 \in T
  BY <1>2, <1>3 DEF C
<1> QED
  BY <1>3, <1>4

-----------------------------------------------------------------------------
PageType == [next_page_id : Nat \cup {INVALID_PAGE_ID},
             free_space_offset : PageHeaderBytes .. kPAGE_SIZE,
             slots : Seq(Slot),
             data : [0 .. kPAGE_SIZE - 1 -> Value \cup {Blank}]]

LEMMA PageSize == kPAGE_SIZE \in Nat /\ kPAGE_SIZE > 8
BY PageAssumption DEF PageHeaderBytes

(* What compact makes of the bytes of a slot.                              *)
Used(p, s) == IF has_slot(p, s) THEN slot(p, s).length ELSE 0

LEMMA SlotTypes ==
  ASSUME NEW p \in PageType
  PROVE  /\ slot_count(p) \in Nat
         /\ \A s \in SlotNums(p) : /\ slot(p, s) \in Slot
                                   /\ s \in Nat /\ s < slot_count(p)
                                   /\ Used(p, s) \in Nat
<1>1. p.slots \in Seq(Slot) /\ Len(p.slots) \in Nat
  BY DEF PageType
<1>2. \A i \in 1 .. Len(p.slots) : p.slots[i] \in Slot
  BY <1>1
<1>3. slot_count(p) \in Nat /\ slot_count(p) = Len(p.slots)
  BY <1>1 DEF slot_count
<1>4. ASSUME NEW s \in SlotNums(p)
      PROVE  slot(p, s) \in Slot /\ s \in Nat /\ s < slot_count(p) /\ Used(p, s) \in Nat
  <2>1. s \in Nat /\ s < slot_count(p)
    BY <1>3 DEF SlotNums
  <2>2. s + 1 \in 1 .. Len(p.slots)
    BY <2>1, <1>3
  <2>3. slot(p, s) \in Slot
    BY <2>2, <1>2 DEF slot
  <2>4. slot(p, s).length \in Nat
    BY <2>3, PageSize DEF Slot
  <2> QED
    BY <2>1, <2>3, <2>4 DEF Used
<1> QED
  BY <1>3, <1>4

(* The offsets of compact exist, and are what its loop computes.           *)
IsPacked(p, f, m) ==
  /\ f \in [-1 .. m - 1 -> Int]
  /\ f[-1] = kPAGE_SIZE
  /\ \A s \in 0 .. m - 1 : f[s] = f[s - 1] - Used(p, s)

LEMMA PackedExists ==
  ASSUME NEW p \in PageType
  PROVE  \A m \in 0 .. slot_count(p) : \E f : IsPacked(p, f, m)
<1> DEFINE n == slot_count(p)
           T == {m \in 0 .. n : \E f : IsPacked(p, f, m)}
<1>1. n \in Nat /\ \A s \in 0 .. n - 1 : Used(p, s) \in Int
  BY SlotTypes DEF SlotNums
<1>2. 0 \in T
  <2> DEFINE f == [s \in -1 .. 0 - 1 |-> kPAGE_SIZE]
  <2>1. IsPacked(p, f, 0)
    BY PageSize DEF IsPacked
  <2> QED
    BY <1>1, <2>1
<1>3. ASSUME NEW i \in 1 .. n, i - 1 \in T PROVE i \in T
  <2>1. PICK f : IsPacked(p, f, i - 1)
    BY <1>3
  <2> DEFINE g == [s \in -1 .. i - 1 |-> IF s = i - 1 THEN f[i - 2] - Used(p, i - 1) ELSE f[s]]
  <2>2. /\ f \in [-1 .. i - 2 -> Int] /\ f[-1] = kPAGE_SIZE
        /\ \A s \in 0 .. i - 2 : f[s] = f[s - 1] - Used(p, s)
    BY <1>1, <2>1 DEF IsPacked
  <2>3. Used(p, i - 1) \in Int /\ f[i - 2] \in Int /\ i \in Nat
    BY <1>1, <2>2
  <2>4. g \in [-1 .. i - 1 -> Int]
    BY <2>2, <2>3
  <2>5. g[-1] = kPAGE_SIZE
    BY <2>2, <2>3
  <2>6. ASSUME NEW s \in 0 .. i - 1 PROVE g[s] = g[s - 1] - Used(p, s)
    <3>1. CASE s = i - 1
      BY <3>1, <2>3
    <3>2. CASE s # i - 1
      BY <3>2, <2>2, <2>3
    <3> QED
      BY <3>1, <3>2
  <2> HIDE DEF g
  <2>7. IsPacked(p, g, i)
    BY <2>4, <2>5, <2>6 DEF IsPacked
  <2> QED
    BY <1>1, <2>7
<1> HIDE DEF T
<1>4. \A m \in 0 .. n : m \in T
  BY <1>1, <1>2, <1>3, Climb
<1> QED
  BY <1>4 DEF T

LEMMA PackedIs ==
  ASSUME NEW p \in PageType
  PROVE  IsPacked(p, Packed(p), slot_count(p))
<1> DEFINE n == slot_count(p)
           Body(f) == [s \in -1 .. n - 1 |->
                         IF s = -1 THEN kPAGE_SIZE
                         ELSE f[s - 1] - (IF has_slot(p, s) THEN slot(p, s).length ELSE 0)]
<1>1. n \in Nat
  BY SlotTypes
<1>2. PICK f : IsPacked(p, f, n)
  BY <1>1, PackedExists
<1>3. f = Body(f)
  BY <1>1, <1>2 DEF IsPacked, Used
<1>4. Packed(p) = CHOOSE g : g = Body(g)
  BY DEF Packed
<1>5. Packed(p) = Body(Packed(p))
  BY <1>3, <1>4
<1> DEFINE h == Packed(p)
<1> HIDE DEF h
<1>6. h = Body(h) 
  BY <1>5 DEF h
<1>7. h = [s \in -1 .. n - 1 |-> IF s = -1 THEN kPAGE_SIZE ELSE h[s - 1] - Used(p, s)]
  BY <1>6 DEF Used
(* That its values are integers takes an induction.                        *)
<1> DEFINE T == {s \in 0 .. n : h[s - 1] \in Int}
<1>8. 0 \in T
  BY <1>1, <1>7, PageSize
<1>9. ASSUME NEW i \in 1 .. n, i - 1 \in T PROVE i \in T
  <2>1. h[i - 2] \in Int /\ i - 1 \in 0 .. n - 1
    BY <1>1, <1>9
  <2>2. Used(p, i - 1) \in Int
    BY <1>1, SlotTypes DEF SlotNums
  <2>3. h[i - 1] = h[i - 2] - Used(p, i - 1)
    BY <1>1, <1>7, <2>1
  <2> QED
    BY <1>1, <2>1, <2>2, <2>3
<1> HIDE DEF T
<1>10. \A s \in 0 .. n : s \in T
  BY <1>1, <1>8, <1>9, Climb
<1>11. \A s \in -1 .. n - 1 : h[s] \in Int
  <2> SUFFICES ASSUME NEW s \in -1 .. n - 1 PROVE h[s] \in Int
    OBVIOUS
  <2>1. s + 1 \in 0 .. n /\ (s + 1) - 1 = s
    BY <1>1
  <2>2. h[(s + 1) - 1] \in Int
    BY <2>1, <1>10 DEF T
  <2> QED
    BY <2>1, <2>2
<1>12. IsPacked(p, h, n)
  <2>1. h \in [-1 .. n - 1 -> Int]
    BY <1>7, <1>11
  <2>2. h[-1] = kPAGE_SIZE /\ \A s \in 0 .. n - 1 : h[s] = h[s - 1] - Used(p, s)
    BY <1>1, <1>7
  <2> QED
    BY <2>1, <2>2 DEF IsPacked
<1> QED
  BY <1>12 DEF h

(* Where compact ends: what it uses is the rest of the page.               *)
PackedEnd(p) == Packed(p)[slot_count(p) - 1]

(* Offsets fall from slot to slot, by what the slots use.                  *)
LEMMA PackedFalls ==
  ASSUME NEW p \in PageType
  PROVE  LET P == Packed(p)
             n == slot_count(p)
         IN  /\ n \in Nat
             /\ P \in [-1 .. n - 1 -> Int] /\ P[-1] = kPAGE_SIZE
             /\ \A s \in 0 .. n - 1 : Used(p, s) \in Nat /\ P[s] + Used(p, s) = P[s - 1]
             /\ \A r, s \in -1 .. n - 1 : r <= s => P[s] <= P[r]
<1> DEFINE P == Packed(p)
           n == slot_count(p)
<1>1. IsPacked(p, P, n)
  BY PackedIs
<1>2. n \in Nat /\ \A s \in 0 .. n - 1 : Used(p, s) \in Nat
  BY SlotTypes DEF SlotNums
<1> HIDE DEF P, n
<1>3. /\ P \in [-1 .. n - 1 -> Int] /\ P[-1] = kPAGE_SIZE
      /\ \A s \in 0 .. n - 1 : P[s] = P[s - 1] - Used(p, s)
  BY <1>1 DEF IsPacked
<1>4. \A s \in 0 .. n - 1 : P[s] + Used(p, s) = P[s - 1]
  <2> SUFFICES ASSUME NEW s \in 0 .. n - 1 PROVE P[s] + Used(p, s) = P[s - 1]
    OBVIOUS
  <2>1. P[s - 1] \in Int /\ P[s] = P[s - 1] - Used(p, s) /\ Used(p, s) \in Nat
    BY <1>2, <1>3
  <2> QED
    BY <2>1
<1>5. ASSUME NEW r \in -1 .. n - 1, NEW s \in -1 .. n - 1, r <= s PROVE P[s] <= P[r]
  <2> DEFINE m == n - 1 - r
             T == {k \in 0 .. m : P[r + k] <= P[r]}
  <2>1. m \in Nat /\ P[r] \in Int /\ s - r \in 0 .. m /\ r + (s - r) = s
    BY <1>2, <1>3, <1>5
  <2>2. 0 \in T
    BY <2>1
  <2>3. ASSUME NEW k \in 1 .. m, k - 1 \in T PROVE k \in T
    <3>1. P[r + (k - 1)] <= P[r]
      BY <2>3
    <3>2. r + k \in 0 .. n - 1 /\ (r + k) - 1 = r + (k - 1) /\ r + (k - 1) \in -1 .. n - 1
      BY <1>2
    <3>3. P[r + k] + Used(p, r + k) = P[r + (k - 1)] /\ Used(p, r + k) \in Nat
      BY <1>2, <1>4, <3>2
    <3>4. P[r + k] \in Int /\ P[r + (k - 1)] \in Int
      BY <1>3, <3>2
    <3> QED
      BY <2>1, <3>1, <3>3, <3>4
  <2> HIDE DEF T, m
  <2>4. s - r \in T
    BY <2>1, <2>2, <2>3, Climb
  <2> QED
    BY <2>1, <2>4 DEF T
<1> QED
  BY <1>2, <1>3, <1>4, <1>5 DEF P, n

(* A call that changes what one slot uses, an old slot or a new last one,  *)
(* moves the end of the packed tuples by the difference.                   *)
LEMMA PackedChange ==
  ASSUME NEW p \in PageType, NEW q \in PageType, NEW k \in Nat,
         \/ slot_count(q) = slot_count(p)
         \/ slot_count(q) = slot_count(p) + 1 /\ k = slot_count(p),
         \A s \in SlotNums(p) \ {k} : Used(q, s) = Used(p, s)
  PROVE  PackedEnd(q) = PackedEnd(p) + Used(p, k) - Used(q, k)
<1> DEFINE P == Packed(p)
           Q == Packed(q)
           n == slot_count(p)
           m == slot_count(q)
           d == Used(q, k) - Used(p, k)
           T == {i \in 0 .. n : Q[i - 1] = P[i - 1] - (IF k < i THEN d ELSE 0)}
<1>1. /\ n \in Nat /\ P \in [-1 .. n - 1 -> Int] /\ P[-1] = kPAGE_SIZE
      /\ \A s \in 0 .. n - 1 : Used(p, s) \in Nat /\ P[s] + Used(p, s) = P[s - 1]
  BY PackedFalls
<1>2. /\ m \in Nat /\ Q \in [-1 .. m - 1 -> Int] /\ Q[-1] = kPAGE_SIZE
      /\ \A s \in 0 .. m - 1 : Used(q, s) \in Nat /\ Q[s] + Used(q, s) = Q[s - 1]
  BY PackedFalls
<1>3. /\ m = n \/ (m = n + 1 /\ k = n)
      /\ \A s \in 0 .. n - 1 : s # k => Used(q, s) = Used(p, s)
  BY DEF SlotNums
<1>4. /\ k >= n => Used(p, k) = 0
      /\ k >= m => Used(q, k) = 0
      /\ PackedEnd(p) = P[n - 1] /\ PackedEnd(q) = Q[m - 1]
  BY <1>1, <1>2 DEF Used, has_slot, SlotNums, PackedEnd
<1> HIDE DEF P, Q, n, m
<1>5. Used(p, k) \in Nat /\ Used(q, k) \in Nat /\ d \in Int
  <2>1. Used(p, k) \in Nat
    BY <1>1, <1>4
  <2>2. Used(q, k) \in Nat
    BY <1>2, <1>4
  <2> QED
    BY <2>1, <2>2
<1>6. 0 \in T
  BY <1>1, <1>2, PageSize
<1>7. ASSUME NEW i \in 1 .. n, i - 1 \in T PROVE i \in T
  <2>1. Q[i - 2] = P[i - 2] - (IF k < i - 1 THEN d ELSE 0)
    BY <1>1, <1>7
  <2>2. /\ i - 1 \in 0 .. n - 1 /\ i - 1 \in 0 .. m - 1 /\ (i - 1) - 1 = i - 2
        /\ i - 2 \in -1 .. n - 1 /\ i - 2 \in -1 .. m - 1
        /\ i - 1 \in -1 .. n - 1 /\ i - 1 \in -1 .. m - 1
    BY <1>1, <1>2, <1>3
  <2>3. /\ P[i - 1] + Used(p, i - 1) = P[i - 2] /\ Used(p, i - 1) \in Nat
        /\ Q[i - 1] + Used(q, i - 1) = Q[i - 2] /\ Used(q, i - 1) \in Nat
        /\ P[i - 1] \in Int /\ P[i - 2] \in Int /\ Q[i - 1] \in Int /\ Q[i - 2] \in Int
    BY <1>1, <1>2, <2>2
  <2>4. CASE i - 1 = k
    BY <1>5, <2>1, <2>3, <2>4
  <2>5. CASE i - 1 # k
    <3>1. Used(q, i - 1) = Used(p, i - 1)
      BY <1>3, <2>2, <2>5
    <3>2. (k < i - 1) <=> (k < i)
      BY <2>5
    <3> QED
      BY <1>5, <2>1, <2>3, <3>1, <3>2
  <2> QED
    BY <2>4, <2>5
<1> HIDE DEF T
<1>8. n \in T
  <2>1. \A i \in 0 .. n : i \in T
    BY <1>1, <1>6, <1>7, Climb
  <2> QED
    BY <1>1, <2>1
<1>9. Q[n - 1] = P[n - 1] - (IF k < n THEN d ELSE 0)
  BY <1>8 DEF T
<1>10. P[n - 1] \in Int /\ Q[n - 1] \in Int
  BY <1>1, <1>2, <1>3
<1>11. CASE m = n
  BY <1>1, <1>4, <1>5, <1>9, <1>10, <1>11
<1>12. CASE m = n + 1 /\ k = n
  <2>1. Q[n] + Used(q, n) = Q[n - 1] /\ Q[n] \in Int
    BY <1>1, <1>2, <1>12
  <2> QED
    BY <1>1, <1>4, <1>5, <1>9, <1>10, <1>12, <2>1
<1> QED
  BY <1>3, <1>11, <1>12

-----------------------------------------------------------------------------
(* A tuple lies between the free space and the end of the page.            *)
Lies(p, s) ==
  /\ p.free_space_offset <= slot(p, s).offset
  /\ slot(p, s).offset + slot(p, s).length <= kPAGE_SIZE
  /\ slot(p, s).length >= 1

(* One of two tuples ends before the other one starts.                     *)
Apart(p, s, t) ==
  \/ slot(p, s).offset + slot(p, s).length <= slot(p, t).offset
  \/ slot(p, t).offset + slot(p, t).length <= slot(p, s).offset

(* A slot shows a tuple, or nothing.                                       *)
Shows(p, s, u) ==
  IF u = NoTuple THEN ~has_slot(p, s)
  ELSE /\ has_slot(p, s)
       /\ slot(p, s).length = u.size
       /\ \A b \in slot(p, s).offset .. slot(p, s).offset + u.size - 1 : p.data[b] = u.value

(* The invariant.  Its last conjunct but two is what makes it inductive:   *)
(* compact would not use more of the page than is used now.                *)
Sound(p, r, most) ==
  /\ p \in PageType
  /\ slot_count(p) <= most
  /\ SlotsEnd(p) <= p.free_space_offset
  /\ \A s \in Occupied(p) : Lies(p, s)
  /\ \A s, t \in Occupied(p) : s # t => Apart(p, s, t)
  /\ p.free_space_offset <= PackedEnd(p)
  /\ r \in [0 .. most - 1 -> Tuple \cup {NoTuple}]
  /\ \A s \in 0 .. most - 1 : Shows(p, s, r[s])

LEMMA TupleTypes ==
  ASSUME NEW u \in Tuple
  PROVE  u.size \in Nat /\ u.size >= 1 /\ u.value \in Value /\ u # NoTuple
<1>1. u.size \in Size /\ u.value \in Value /\ u # NoTuple
  BY NoTupleAssumption DEF Tuple
<1>2. Size \subseteq Nat \ {0}
  BY PageAssumption
<1>3. u.size \in Nat \ {0}
  BY <1>1, <1>2
<1> QED
  BY <1>1, <1>3

LEMMA PageTypes ==
  ASSUME NEW p \in PageType
  PROVE  /\ p.free_space_offset \in 8 .. kPAGE_SIZE
         /\ p.data \in [0 .. kPAGE_SIZE - 1 -> Value \cup {Blank}]
         /\ p.slots \in Seq(Slot)
         /\ slot_count(p) \in Nat /\ Len(p.slots) = slot_count(p)
         /\ SlotsEnd(p) = 8 + 4 * slot_count(p)
         /\ \A s \in SlotNums(p) : /\ slot(p, s).offset \in 0 .. kPAGE_SIZE
                                   /\ slot(p, s).length \in 0 .. kPAGE_SIZE
         /\ Occupied(p) = {s \in 0 .. slot_count(p) - 1 : slot(p, s).offset # 0}
         /\ \A s : has_slot(p, s) <=> s \in Occupied(p)
BY SlotTypes DEF PageType, PageHeaderBytes, SlotBytes, SlotsEnd, slot_count, Slot,
   Occupied, has_slot, SlotNums, INVALID_SLOT_OFFSET

(* The slot an insert takes is empty.                                      *)
LEMMA SlotForProperties ==
  ASSUME NEW p \in PageType, NEW pref \in Int
  PROVE  /\ SlotFor(p, pref) \in 0 .. slot_count(p)
         /\ ~has_slot(p, SlotFor(p, pref))
         /\ SlotIsEmpty(p, pref) => SlotFor(p, pref) = pref
<1> DEFINE empty == SlotNums(p) \ Occupied(p)
<1>1. /\ slot_count(p) \in Nat /\ SlotNums(p) = 0 .. slot_count(p) - 1
      /\ ~has_slot(p, slot_count(p))
      /\ \A s \in empty : ~has_slot(p, s)
  BY PageTypes DEF SlotNums, has_slot
<1>2. CASE empty = {}
  <2>1. find_empty_slot(p) = NoSlot
    BY <1>2 DEF find_empty_slot
  <2> QED
    BY <1>1, <2>1 DEF SlotFor, SlotIsEmpty
<1>3. CASE empty # {}
  <2>1. empty \in SUBSET Nat
    BY <1>1
  <2> HIDE DEF empty
  <2>3. \E s \in empty : \A r \in empty : s <= r
    BY <1>3, <2>1, Least
  <2>2. find_empty_slot(p) \in empty
    BY <1>3, <2>3 DEF find_empty_slot, empty
  <2>4. find_empty_slot(p) \in 0 .. slot_count(p) /\ ~has_slot(p, find_empty_slot(p))
    BY <1>1, <2>2 DEF empty
  <2> QED
    BY <1>1, <2>4 DEF SlotFor, SlotIsEmpty
<1> QED
  BY <1>2, <1>3

(* insert_tuple.                                                           *)
LEMMA InsertKeeps ==
  ASSUME NEW most \in Nat, NEW p, NEW r, Sound(p, r, most), NEW u \in Tuple, NEW pref \in Int,
         CanInsert(p, u, pref), SlotFor(p, pref) < most
  PROVE  Sound(insert_tuple(p, u, pref), [r EXCEPT ![SlotFor(p, pref)] = u], most)
<1> DEFINE k   == SlotFor(p, pref)
           n   == slot_count(p)
           o   == p.free_space_offset - u.size
           new == [offset |-> o, length |-> u.size]
           q   == insert_tuple(p, u, pref)
           w   == [r EXCEPT ![k] = u]
<1>1. /\ p \in PageType /\ n <= most
      /\ SlotsEnd(p) <= p.free_space_offset
      /\ \A s \in Occupied(p) : Lies(p, s)
      /\ \A s, t \in Occupied(p) : s # t => Apart(p, s, t)
      /\ p.free_space_offset <= PackedEnd(p)
      /\ r \in [0 .. most - 1 -> Tuple \cup {NoTuple}]
      /\ \A s \in 0 .. most - 1 : Shows(p, s, r[s])
  BY DEF Sound
<1>2. u.size \in Nat /\ u.size >= 1 /\ u.value \in Value /\ u # NoTuple
  BY TupleTypes
<1>3. /\ p.free_space_offset \in 8 .. kPAGE_SIZE
      /\ p.data \in [0 .. kPAGE_SIZE - 1 -> Value \cup {Blank}]
      /\ p.slots \in Seq(Slot)
      /\ n \in Nat /\ Len(p.slots) = n
      /\ SlotsEnd(p) = 8 + 4 * n
      /\ \A s \in SlotNums(p) : /\ slot(p, s).offset \in 0 .. kPAGE_SIZE
                                /\ slot(p, s).length \in 0 .. kPAGE_SIZE
      /\ Occupied(p) = {s \in 0 .. n - 1 : slot(p, s).offset # 0}
      /\ \A s : has_slot(p, s) <=> s \in Occupied(p)
  BY <1>1, PageTypes
<1>4. k \in 0 .. n /\ ~has_slot(p, k) /\ k < most /\ most \in Nat
  BY <1>1, SlotForProperties
(* There is room.                                                          *)
<1>5. /\ o \in 8 .. kPAGE_SIZE /\ o + u.size = p.free_space_offset
      /\ k = n => SlotsEnd(p) + 4 <= o
      /\ k # n => SlotsEnd(p) <= o
  <2>1. /\ k = n => u.size + 4 <= p.free_space_offset - SlotsEnd(p)
        /\ k # n => u.size <= p.free_space_offset - SlotsEnd(p)
    BY DEF CanInsert, free_space_bytes, SlotBytes
  <2>2. /\ p.free_space_offset \in Int /\ 8 <= p.free_space_offset
        /\ p.free_space_offset <= kPAGE_SIZE
    BY <1>3, PageSize
  <2>3. /\ kPAGE_SIZE \in Int /\ u.size \in Int /\ u.size >= 1
        /\ SlotsEnd(p) \in Int /\ 8 <= SlotsEnd(p)
    BY <1>2, <1>3, PageSize
  <2> HIDE DEF k, n
  <2> QED
    BY <2>1, <2>2, <2>3
<1>6. u.size \in 0 .. kPAGE_SIZE /\ o \in 0 .. kPAGE_SIZE
  <2>1. /\ o \in 8 .. kPAGE_SIZE /\ o + u.size = p.free_space_offset
        /\ p.free_space_offset \in 8 .. kPAGE_SIZE
        /\ u.size \in Nat /\ kPAGE_SIZE \in Nat
    BY <1>2, <1>3, <1>5, PageSize
  <2> HIDE DEF k, n, o
  <2> QED
    BY <2>1
<1> HIDE DEF o
<1>7. new \in Slot
  BY <1>6 DEF Slot
<1> DEFINE z == IF k = n THEN Append(p.slots, new) ELSE [p.slots EXCEPT ![k + 1] = new]
           d == Copied(p.data, o, u)
<1>q. q = [p EXCEPT !.free_space_offset = o, !.slots = z, !.data = d]
  BY DEF insert_tuple, o
<1> HIDE DEF k, n, q
<1>8. /\ z \in Seq(Slot)
      /\ Len(z) = IF k = n THEN n + 1 ELSE n
      /\ z[k + 1] = new
      /\ \A i \in 1 .. n : i # k + 1 => z[i] = p.slots[i]
  <2>1. CASE k = n
    BY <2>1, <1>3, <1>7
  <2>2. CASE k # n
    BY <2>2, <1>3, <1>4, <1>7
  <2> QED
    BY <2>1, <2>2
<1>9. /\ d \in [0 .. kPAGE_SIZE - 1 -> Value \cup {Blank}]
      /\ \A b \in 0 .. kPAGE_SIZE - 1 :
            /\ b \in o .. o + u.size - 1 => d[b] = u.value
            /\ b \notin o .. o + u.size - 1 => d[b] = p.data[b]
  BY <1>2, <1>3 DEF Copied, Bytes
<1> HIDE DEF z, d
<1>10. /\ q \in PageType
       /\ q.free_space_offset = o /\ q.slots = z /\ q.data = d
  <2>1. p \in PageType /\ o \in 8 .. kPAGE_SIZE /\ z \in Seq(Slot)
    BY <1>1, <1>5, <1>8
  <2> QED
    BY <2>1, <1>9, <1>q DEF PageType, PageHeaderBytes
<1>11. /\ slot_count(q) = IF k = n THEN n + 1 ELSE n
       /\ slot(q, k).offset = o /\ slot(q, k).length = u.size
       /\ \A s \in 0 .. n - 1 : s # k => slot(q, s) = slot(p, s)
  BY <1>3, <1>4, <1>8, <1>10 DEF slot_count, slot, n
<1>12. /\ SlotsEnd(q) = 8 + 4 * slot_count(q)
       /\ Occupied(q) = {s \in 0 .. slot_count(q) - 1 : slot(q, s).offset # 0}
       /\ \A s : has_slot(q, s) <=> s \in Occupied(q)
  BY <1>10, PageTypes
<1>13. Occupied(q) = Occupied(p) \cup {k}
  <2>1. k \in Occupied(q)
    BY <1>3, <1>4, <1>5, <1>11, <1>12
  <2>2. \A s \in 0 .. n : s # k => (s \in Occupied(q) <=> s \in Occupied(p))
    BY <1>3, <1>4, <1>11, <1>12
  <2>3. Occupied(q) \subseteq 0 .. n /\ Occupied(p) \subseteq 0 .. n
    BY <1>3, <1>11, <1>12
  <2> QED
    BY <2>1, <2>2, <2>3
<1>14. slot_count(q) <= most /\ SlotsEnd(q) <= q.free_space_offset
  BY <1>1, <1>3, <1>4, <1>5, <1>10, <1>11, <1>12
<1>15. /\ \A s \in Occupied(p) : s \in 0 .. n - 1 /\ s # k /\ slot(q, s) = slot(p, s)
       /\ \A s \in Occupied(p) : slot(p, s).offset \in Nat /\ slot(p, s).length \in Nat
  BY <1>3, <1>4, <1>11, PageSize DEF SlotNums, n
<1>16. ASSUME NEW s \in Occupied(q) PROVE Lies(q, s)
  <2>1. CASE s = k
    <3>1. Lies(q, k)
      BY <1>2, <1>3, <1>5, <1>10, <1>11, PageSize DEF Lies
    <3> QED
      BY <2>1, <3>1
  <2>2. CASE s \in Occupied(p)
    <3>1. /\ Lies(p, s) /\ slot(q, s) = slot(p, s) /\ q.free_space_offset = o
      BY <1>1, <1>10, <1>15, <2>2
    <3>2. /\ slot(p, s).offset \in Nat /\ slot(p, s).length \in Nat
          /\ o \in Int /\ u.size \in Nat /\ o + u.size = p.free_space_offset
      BY <1>2, <1>5, <1>15, <2>2, PageSize
    <3> QED
      BY <3>1, <3>2 DEF Lies
  <2> QED
    BY <1>13, <2>1, <2>2
<1>17. ASSUME NEW s \in Occupied(q), NEW t \in Occupied(q), s # t PROVE Apart(q, s, t)
  <2>1. ASSUME NEW x \in Occupied(p)
        PROVE  o + u.size <= slot(q, x).offset
    BY <1>1, <1>5, <1>15 DEF Lies
  <2>2. CASE s \in Occupied(p) /\ t \in Occupied(p)
    BY <1>1, <1>15, <1>17, <2>2 DEF Apart
  <2>3. CASE s = k /\ t \in Occupied(p)
    BY <1>11, <2>1, <2>3 DEF Apart
  <2>4. CASE t = k /\ s \in Occupied(p)
    BY <1>11, <2>1, <2>4 DEF Apart
  <2> QED
    BY <1>13, <1>17, <2>2, <2>3, <2>4
<1>18. q.free_space_offset <= PackedEnd(q)
  <2>1. \A s \in SlotNums(p) \ {k} : Used(q, s) = Used(p, s)
    BY <1>3, <1>11, <1>12, <1>13 DEF Used, SlotNums, n
  <2>2. Used(p, k) = 0 /\ Used(q, k) = u.size
    BY <1>4, <1>11, <1>12, <1>13 DEF Used
  <2>3. k \in Nat /\ (slot_count(q) = slot_count(p)
                      \/ (slot_count(q) = slot_count(p) + 1 /\ k = slot_count(p)))
    BY <1>3, <1>4, <1>11 DEF n
  <2>4. PackedEnd(q) = PackedEnd(p) + Used(p, k) - Used(q, k)
    BY <1>1, <1>10, <2>1, <2>3, PackedChange
  <2>5. PackedEnd(p) \in Int
    BY <1>1, PackedFalls DEF PackedEnd
  <2> QED
    BY <1>1, <1>2, <1>3, <1>5, <1>10, <2>2, <2>4, <2>5
<1>19. w \in [0 .. most - 1 -> Tuple \cup {NoTuple}]
  BY <1>1
<1>20. ASSUME NEW s \in 0 .. most - 1 PROVE Shows(q, s, w[s])
  <2>1. CASE s = k
    <3>1. w[s] = u
      BY <1>1, <2>1
    <3>2. \A b \in o .. o + u.size - 1 : q.data[b] = u.value
      <4>1. /\ o \in Int /\ 8 <= o /\ u.size \in Int /\ kPAGE_SIZE \in Int
            /\ o + u.size = p.free_space_offset /\ p.free_space_offset <= kPAGE_SIZE
        BY <1>2, <1>3, <1>5, PageSize
      <4>2. o .. o + u.size - 1 \subseteq 0 .. kPAGE_SIZE - 1
        BY <4>1
      <4> QED
        BY <1>9, <1>10, <4>2
    <3>3. Shows(q, k, u)
      BY <1>2, <1>11, <1>12, <1>13, <3>2 DEF Shows
    <3> QED
      BY <2>1, <3>1, <3>3
  <2>2. CASE s # k
    <3>1. w[s] = r[s] /\ Shows(p, s, r[s])
      BY <1>1, <2>2
    <3>2. has_slot(q, s) <=> has_slot(p, s)
      BY <1>3, <1>12, <1>13, <2>2
    <3>3. CASE r[s] = NoTuple
      BY <3>1, <3>2, <3>3 DEF Shows
    <3>4. CASE r[s] # NoTuple
      <4>1. s \in Occupied(p) /\ slot(q, s) = slot(p, s) /\ slot(p, s).length = r[s].size
        BY <1>3, <1>15, <3>1, <3>4 DEF Shows
      <4>2. ASSUME NEW b \in slot(p, s).offset .. slot(p, s).offset + r[s].size - 1
            PROVE  q.data[b] = r[s].value
        <5>1. p.data[b] = r[s].value
          BY <3>1, <3>4, <4>2 DEF Shows
        <5>2. /\ Lies(p, s)
              /\ slot(p, s).offset \in Nat /\ slot(p, s).length \in Nat
          BY <1>1, <1>15, <4>1
        <5>3. b \in slot(p, s).offset .. slot(p, s).offset + slot(p, s).length - 1
          BY <4>1, <4>2
        <5>4. b \in 0 .. kPAGE_SIZE - 1 /\ b \notin o .. o + u.size - 1
          <6>1. /\ p.free_space_offset <= slot(p, s).offset
                /\ slot(p, s).offset + slot(p, s).length <= kPAGE_SIZE
            BY <5>2 DEF Lies
          <6> QED
            BY <1>2, <1>5, <5>2, <5>3, <6>1, PageSize
        <5> QED
          BY <1>9, <1>10, <5>1, <5>4
      <4> QED
        BY <3>1, <3>2, <3>4, <4>1, <4>2 DEF Shows
    <3> QED
      BY <3>3, <3>4
  <2> QED
    BY <2>1, <2>2
<1> HIDE DEF w
<1>21. Sound(q, w, most)
  BY <1>10, <1>14, <1>16, <1>17, <1>18, <1>19, <1>20 DEF Sound
<1> QED
  BY <1>21 DEF q, w, k

(* try_update_in_place and delete_tuple: one slot changes, to no more      *)
(* bytes than it had.                                                      *)
LEMMA ShrinkKeeps ==
  ASSUME NEW most \in Nat, NEW p, NEW r, Sound(p, r, most), NEW k \in Occupied(p), NEW q, NEW v,
         v = NoTuple \/ (v \in Tuple /\ v.size <= slot(p, k).length),
         q \in PageType, q.free_space_offset = p.free_space_offset,
         slot_count(q) = slot_count(p),
         \A s \in SlotNums(p) \ {k} : slot(q, s) = slot(p, s),
         v = NoTuple => /\ slot(q, k).offset = INVALID_SLOT_OFFSET
                        /\ q.data = p.data,
         v # NoTuple => /\ slot(q, k) = [offset |-> slot(p, k).offset, length |-> v.size]
                        /\ q.data = Copied(p.data, slot(p, k).offset, v)
  PROVE  Sound(q, [r EXCEPT ![k] = v], most)
<1> DEFINE n == slot_count(p)
           a == slot(p, k).offset
           w == [r EXCEPT ![k] = v]
<1>1. /\ p \in PageType /\ n <= most
      /\ SlotsEnd(p) <= p.free_space_offset
      /\ \A s \in Occupied(p) : Lies(p, s)
      /\ \A s, t \in Occupied(p) : s # t => Apart(p, s, t)
      /\ p.free_space_offset <= PackedEnd(p)
      /\ r \in [0 .. most - 1 -> Tuple \cup {NoTuple}]
      /\ \A s \in 0 .. most - 1 : Shows(p, s, r[s])
  BY DEF Sound
<1>2. /\ p.free_space_offset \in 8 .. kPAGE_SIZE
      /\ p.data \in [0 .. kPAGE_SIZE - 1 -> Value \cup {Blank}]
      /\ n \in Nat /\ SlotNums(p) = 0 .. n - 1
      /\ SlotsEnd(p) = 8 + 4 * n
      /\ \A s \in SlotNums(p) : /\ slot(p, s).offset \in 0 .. kPAGE_SIZE
                                /\ slot(p, s).length \in 0 .. kPAGE_SIZE
      /\ Occupied(p) = {s \in 0 .. n - 1 : slot(p, s).offset # 0}
      /\ \A s : has_slot(p, s) <=> s \in Occupied(p)
  BY <1>1, PageTypes DEF SlotNums
<1>3. /\ SlotsEnd(q) = 8 + 4 * n /\ SlotNums(q) = 0 .. n - 1
      /\ Occupied(q) = {s \in 0 .. n - 1 : slot(q, s).offset # 0}
      /\ \A s : has_slot(q, s) <=> s \in Occupied(q)
  BY PageTypes DEF SlotNums
<1>4. /\ k \in 0 .. n - 1 /\ a \in Nat /\ a # 0 /\ slot(p, k).length \in Nat
      /\ most \in Nat /\ k \in 0 .. most - 1
  BY <1>1, <1>2, PageSize
<1>5. v # NoTuple => /\ v.size \in Nat /\ v.size >= 1 /\ v.value \in Value
                     /\ v.size <= slot(p, k).length
                     /\ slot(q, k).offset = a /\ slot(q, k).length = v.size
  BY TupleTypes
<1> HIDE DEF n, a
<1>6. Occupied(q) = IF v = NoTuple THEN Occupied(p) \ {k} ELSE Occupied(p)
  <2>1. k \in Occupied(q) <=> v # NoTuple
    BY <1>3, <1>4, <1>5 DEF INVALID_SLOT_OFFSET
  <2>2. \A s \in 0 .. n - 1 : s # k => (s \in Occupied(q) <=> s \in Occupied(p))
    BY <1>2, <1>3
  <2>3. Occupied(q) \subseteq 0 .. n - 1 /\ Occupied(p) \subseteq 0 .. n - 1
    BY <1>2, <1>3
  <2>4. CASE v = NoTuple
    BY <2>1, <2>2, <2>3, <2>4
  <2>5. CASE v # NoTuple
    BY <2>1, <2>2, <2>3, <2>5
  <2> QED
    BY <2>4, <2>5
<1>7. ASSUME NEW s \in Occupied(q)
      PROVE  /\ s \in Occupied(p) /\ s \in 0 .. n - 1 /\ Lies(p, s)
             /\ s # k => slot(q, s) = slot(p, s)
             /\ s = k => v # NoTuple
             /\ slot(q, s).offset = slot(p, s).offset
             /\ slot(p, s).offset \in Nat /\ slot(p, s).length \in Nat
             /\ slot(q, s).length \in Nat /\ slot(q, s).length >= 1
             /\ slot(q, s).length <= slot(p, s).length
  <2>1. s \in Occupied(p) /\ s \in 0 .. n - 1 /\ Lies(p, s) /\ (s = k => v # NoTuple)
    BY <1>1, <1>2, <1>3, <1>6, <1>7
  <2>2. slot(p, s).offset \in Nat /\ slot(p, s).length \in Nat /\ slot(p, s).length >= 1
    BY <1>2, <2>1, PageSize DEF Lies
  <2>3. s # k => slot(q, s) = slot(p, s)
    BY <1>2, <2>1
  <2>4. CASE s = k
    BY <1>5, <2>1, <2>2, <2>3, <2>4 DEF a
  <2>5. CASE s # k
    BY <2>1, <2>2, <2>3, <2>5
  <2> QED
    BY <2>4, <2>5
<1>8. ASSUME NEW s \in Occupied(q) PROVE Lies(q, s)
  BY <1>2, <1>7, PageSize DEF Lies
<1>9. ASSUME NEW s \in Occupied(q), NEW t \in Occupied(q), s # t PROVE Apart(q, s, t)
  <2>1. Apart(p, s, t)
    BY <1>1, <1>7, <1>9
  <2> QED
    BY <1>7, <2>1 DEF Apart
<1>10. q.free_space_offset <= PackedEnd(q)
  <2>1. \A s \in SlotNums(p) \ {k} : Used(q, s) = Used(p, s)
    <3> SUFFICES ASSUME NEW s \in SlotNums(p) \ {k} PROVE Used(q, s) = Used(p, s)
      OBVIOUS
    <3>1. slot(q, s) = slot(p, s) /\ (has_slot(q, s) <=> has_slot(p, s))
      BY <1>2, <1>3
    <3> QED
      BY <3>1 DEF Used
  <2>2. PackedEnd(q) = PackedEnd(p) + Used(p, k) - Used(q, k)
    BY <1>1, <1>4, <2>1, PackedChange
  <2>3. Used(p, k) \in Nat /\ Used(q, k) \in Nat /\ Used(q, k) <= Used(p, k)
    BY <1>2, <1>3, <1>4, <1>5, <1>6 DEF Used
  <2>4. PackedEnd(p) \in Int
    BY <1>1, PackedFalls DEF PackedEnd
  <2> QED
    BY <1>1, <1>2, <2>2, <2>3, <2>4
<1>11. w \in [0 .. most - 1 -> Tuple \cup {NoTuple}]
  BY <1>1
<1>12. ASSUME NEW s \in 0 .. most - 1 PROVE Shows(q, s, w[s])
  <2>1. CASE s = k /\ v = NoTuple
    BY <1>1, <1>3, <1>6, <2>1 DEF Shows
  <2>2. CASE s = k /\ v # NoTuple
    <3>1. w[k] = v /\ k \in Occupied(q)
      BY <1>1, <1>4, <1>6, <2>2
    <3>2. Lies(p, k)
      BY <1>1
    <3>3. a .. a + v.size - 1 \subseteq 0 .. kPAGE_SIZE - 1
      BY <1>4, <1>5, <2>2, <3>2, PageSize DEF Lies, a
    <3>4. \A b \in a .. a + v.size - 1 : q.data[b] = v.value
      BY <1>2, <2>2, <3>3 DEF Copied, Bytes, a
    <3>5. Shows(q, k, v)
      BY <1>3, <1>5, <2>2, <3>1, <3>4 DEF Shows
    <3> QED
      BY <2>2, <3>1, <3>5
  <2>3. CASE s # k
    <3>1. w[s] = r[s] /\ Shows(p, s, r[s])
      BY <1>1, <2>3
    <3>2. has_slot(q, s) <=> has_slot(p, s)
      BY <1>2, <1>3, <1>6, <2>3
    <3>3. CASE r[s] = NoTuple
      BY <3>1, <3>2, <3>3 DEF Shows
    <3>4. CASE r[s] # NoTuple
      <4>1. s \in Occupied(q) /\ s \in Occupied(p) /\ slot(p, s).length = r[s].size
        BY <1>2, <1>3, <3>1, <3>2, <3>4 DEF Shows
      <4>2. /\ slot(q, s) = slot(p, s) /\ Lies(p, s)
            /\ slot(p, s).offset \in Nat /\ slot(p, s).length \in Nat
        BY <1>7, <2>3, <4>1
      <4>3. ASSUME NEW b \in slot(p, s).offset .. slot(p, s).offset + r[s].size - 1
            PROVE  q.data[b] = r[s].value
        <5>1. p.data[b] = r[s].value
          BY <3>1, <3>4, <4>3 DEF Shows
        <5>2. b \in slot(p, s).offset .. slot(p, s).offset + slot(p, s).length - 1
          BY <4>1, <4>3
        <5>3. b \in 0 .. kPAGE_SIZE - 1
          BY <4>2, <5>2, PageSize DEF Lies
        <5>4. CASE v = NoTuple
          BY <5>1, <5>4
        <5>5. CASE v # NoTuple
          <6>1. Apart(p, s, k)
            BY <1>1, <2>3, <4>1
          <6>2. b \notin a .. a + v.size - 1
            BY <1>4, <1>5, <4>2, <5>2, <5>5, <6>1 DEF Apart, a
          <6>3. q.data[b] = p.data[b]
            BY <1>2, <5>3, <5>5, <6>2 DEF Copied, Bytes, a
          <6> QED
            BY <5>1, <6>3
        <5> QED
          BY <5>4, <5>5
      <4> QED
        BY <3>1, <3>2, <3>4, <4>1, <4>2, <4>3 DEF Shows
    <3> QED
      BY <3>3, <3>4
  <2> QED
    BY <2>1, <2>2, <2>3
<1> HIDE DEF w
<1>13. Sound(q, w, most)
  BY <1>1, <1>2, <1>3, <1>8, <1>9, <1>10, <1>11, <1>12 DEF Sound, n
<1> QED
  BY <1>13 DEF w

(* compact: every slot that is in use keeps its bytes, elsewhere.          *)
LEMMA CompactKeeps ==
  ASSUME NEW most \in Nat, NEW p, NEW r, Sound(p, r, most)
  PROVE  /\ Sound(compact(p), r, most)
         /\ Wasted(compact(p)) = {}
         /\ slot_count(compact(p)) = slot_count(p)
         /\ \A s : has_slot(compact(p), s) <=> has_slot(p, s)
<1> DEFINE n == slot_count(p)
           P == Packed(p)
           q == compact(p)
           Holders(b) == {s \in Occupied(p) : b \in Bytes(P[s], slot(p, s).length)}
           Moved(b, s) == p.data[slot(p, s).offset + b - P[s]]
<1>1. /\ p \in PageType /\ n <= most
      /\ SlotsEnd(p) <= p.free_space_offset
      /\ \A s \in Occupied(p) : Lies(p, s)
      /\ p.free_space_offset <= P[n - 1]
      /\ r \in [0 .. most - 1 -> Tuple \cup {NoTuple}]
      /\ \A s \in 0 .. most - 1 : Shows(p, s, r[s])
  BY DEF Sound, PackedEnd
<1>2. /\ p.free_space_offset \in 8 .. kPAGE_SIZE
      /\ p.data \in [0 .. kPAGE_SIZE - 1 -> Value \cup {Blank}]
      /\ n \in Nat /\ SlotNums(p) = 0 .. n - 1
      /\ Len(p.slots) = n /\ p.slots \in Seq(Slot)
      /\ SlotsEnd(p) = 8 + 4 * n
      /\ \A s \in SlotNums(p) : /\ slot(p, s).offset \in 0 .. kPAGE_SIZE
                                /\ slot(p, s).length \in 0 .. kPAGE_SIZE
      /\ Occupied(p) = {s \in 0 .. n - 1 : slot(p, s).offset # 0}
      /\ \A s : has_slot(p, s) <=> s \in Occupied(p)
  BY <1>1, PageTypes DEF SlotNums
<1>3. /\ P \in [-1 .. n - 1 -> Int] /\ P[-1] = kPAGE_SIZE
      /\ \A s \in 0 .. n - 1 : Used(p, s) \in Nat /\ P[s] + Used(p, s) = P[s - 1]
      /\ \A s, t \in -1 .. n - 1 : s <= t => P[t] <= P[s]
  BY <1>1, PackedFalls
<1>4. /\ q.free_space_offset = P[n - 1]
      /\ q.slots = [i \in 1 .. n |-> IF has_slot(p, i - 1)
                                     THEN [p.slots[i] EXCEPT !.offset = P[i - 1]]
                                     ELSE [offset |-> INVALID_SLOT_OFFSET, length |-> 0]]
      /\ q.data = [b \in DOMAIN p.data |-> IF Holders(b) = {} THEN Blank
                                           ELSE Moved(b, CHOOSE s \in Holders(b) : TRUE)]
      /\ q.next_page_id = p.next_page_id
      /\ q = [p EXCEPT !.free_space_offset = q.free_space_offset,
                       !.slots = q.slots, !.data = q.data]
  BY <1>1 DEF compact, PageType
<1> HIDE DEF n, P, q
(* Where the tuples come to lie.                                           *)
<1>5. ASSUME NEW s \in Occupied(p)
      PROVE  /\ s \in 0 .. n - 1
             /\ slot(p, s).length \in Nat /\ slot(p, s).length >= 1
             /\ slot(p, s).offset \in Nat
             /\ p.free_space_offset <= slot(p, s).offset
             /\ slot(p, s).offset + slot(p, s).length <= kPAGE_SIZE
             /\ Used(p, s) = slot(p, s).length
             /\ P[s] \in 8 .. kPAGE_SIZE /\ P[n - 1] <= P[s]
             /\ P[s] + slot(p, s).length = P[s - 1]
             /\ P[s - 1] \in Int /\ P[s - 1] <= kPAGE_SIZE
  <2>1. s \in 0 .. n - 1 /\ Lies(p, s)
    BY <1>1, <1>2
  <2>2. /\ slot(p, s).length \in Nat /\ slot(p, s).length >= 1
        /\ slot(p, s).offset \in Nat
        /\ p.free_space_offset <= slot(p, s).offset
        /\ slot(p, s).offset + slot(p, s).length <= kPAGE_SIZE
    BY <1>2, <2>1, PageSize DEF Lies
  <2>3. Used(p, s) = slot(p, s).length
    BY <1>2 DEF Used
  <2>4. /\ s \in -1 .. n - 1 /\ s - 1 \in -1 .. n - 1 /\ n - 1 \in -1 .. n - 1
        /\ -1 \in -1 .. n - 1 /\ s <= n - 1 /\ -1 <= s - 1
    BY <1>2, <2>1
  <2>5. /\ P[s] \in Int /\ P[s - 1] \in Int /\ P[n - 1] \in Int
        /\ P[n - 1] <= P[s] /\ P[s - 1] <= kPAGE_SIZE
        /\ P[s] + slot(p, s).length = P[s - 1]
    BY <1>3, <2>1, <2>3, <2>4
  <2>6. p.free_space_offset <= P[n - 1] /\ p.free_space_offset >= 8
    BY <1>1, <1>2
  <2>7. P[s] \in 8 .. kPAGE_SIZE
    <3>1. P[s] <= P[s - 1]
      BY <2>2, <2>5
    <3>2. 8 <= P[n - 1]
      BY <1>2, <2>5, <2>6
    <3>3. 8 <= P[s]
      BY <2>5, <3>2
    <3>4. P[s] <= kPAGE_SIZE
      BY <2>5, <3>1, PageSize
    <3> QED
      BY <2>5, <3>3, <3>4
  <2>8. P[s - 1] \in Int /\ P[s - 1] <= kPAGE_SIZE /\ P[n - 1] <= P[s]
    BY <2>5
  <2>9. P[s] + slot(p, s).length = P[s - 1]
    BY <2>5
  <2> QED
    BY <2>1, <2>2, <2>3, <2>7, <2>8, <2>9
<1>6. ASSUME NEW s \in Occupied(p), NEW t \in Occupied(p), s < t
      PROVE  P[t] + slot(p, t).length <= P[s]
  <2>1. s \in -1 .. n - 1 /\ t - 1 \in -1 .. n - 1 /\ s <= t - 1
    BY <1>2, <1>5, <1>6
  <2>2. P[t - 1] <= P[s]
    BY <1>3, <2>1
  <2> QED
    BY <1>5, <2>2
<1>7. /\ q.slots \in Seq(Slot) /\ Len(q.slots) = n
      /\ \A i \in 1 .. n : q.slots[i] = IF has_slot(p, i - 1)
                                        THEN [p.slots[i] EXCEPT !.offset = P[i - 1]]
                                        ELSE [offset |-> INVALID_SLOT_OFFSET, length |-> 0]
  <2>1. ASSUME NEW i \in 1 .. n
        PROVE  (IF has_slot(p, i - 1) THEN [p.slots[i] EXCEPT !.offset = P[i - 1]]
                ELSE [offset |-> INVALID_SLOT_OFFSET, length |-> 0]) \in Slot
    <3>1. CASE has_slot(p, i - 1)
      <4>1. P[i - 1] \in 0 .. kPAGE_SIZE
        BY <1>2, <1>5, <3>1
      <4>2. p.slots[i] \in Slot
        BY <1>2
      <4> QED
        BY <3>1, <4>1, <4>2 DEF Slot
    <3>2. CASE ~has_slot(p, i - 1)
      BY <3>2, PageSize DEF Slot, INVALID_SLOT_OFFSET
    <3> QED
      BY <3>1, <3>2
  <2> DEFINE f == [i \in 1 .. n |-> IF has_slot(p, i - 1)
                                   THEN [p.slots[i] EXCEPT !.offset = P[i - 1]]
                                   ELSE [offset |-> INVALID_SLOT_OFFSET, length |-> 0]]
  <2>2. f \in [1 .. n -> Slot]
    BY <2>1
  <2>3. q.slots = f
    BY <1>4
  <2>4. \A i \in 1 .. n : f[i] = IF has_slot(p, i - 1)
                                 THEN [p.slots[i] EXCEPT !.offset = P[i - 1]]
                                 ELSE [offset |-> INVALID_SLOT_OFFSET, length |-> 0]
    OBVIOUS
  <2> HIDE DEF f
  <2>5. n \in Nat
    BY <1>2
  <2>6. f \in Seq(Slot) /\ Len(f) = n
    BY <2>2, <2>5
  <2> QED
    BY <2>3, <2>4, <2>6
<1>8. /\ slot_count(q) = n /\ SlotNums(q) = 0 .. n - 1
      /\ \A s \in Occupied(p) : slot(q, s) = [offset |-> P[s], length |-> slot(p, s).length]
      /\ \A s \in (0 .. n - 1) \ Occupied(p) : slot(q, s) = [offset |-> 0, length |-> 0]
  <2>1. slot_count(q) = n /\ SlotNums(q) = 0 .. n - 1
    BY <1>7 DEF slot_count, SlotNums
  <2>2. ASSUME NEW s \in Occupied(p)
        PROVE  slot(q, s) = [offset |-> P[s], length |-> slot(p, s).length]
    <3>1. s + 1 \in 1 .. n /\ (s + 1) - 1 = s /\ has_slot(p, s)
      BY <1>2, <1>5
    <3>2. q.slots[s + 1] = [p.slots[s + 1] EXCEPT !.offset = P[s]]
      BY <1>7, <3>1
    <3>3. p.slots[s + 1] \in Slot
      BY <1>2, <3>1
    <3> QED
      BY <3>2, <3>3 DEF slot, Slot
  <2>3. ASSUME NEW s \in (0 .. n - 1) \ Occupied(p)
        PROVE  slot(q, s) = [offset |-> 0, length |-> 0]
    <3>1. s + 1 \in 1 .. n /\ (s + 1) - 1 = s /\ ~has_slot(p, s)
      BY <1>2
    <3> QED
      BY <1>7, <3>1 DEF slot, INVALID_SLOT_OFFSET
  <2> QED
    BY <2>1, <2>2, <2>3
(* Every byte of a slot is moved with it.                                  *)
<1>9. ASSUME NEW s \in Occupied(p), NEW b \in P[s] .. P[s] + slot(p, s).length - 1
      PROVE  /\ Holders(b) = {s} /\ b \in 0 .. kPAGE_SIZE - 1
             /\ q.data[b] = p.data[slot(p, s).offset + b - P[s]]
  <2>1. b \in 0 .. kPAGE_SIZE - 1
    BY <1>5, PageSize
  <2>2. s \in Holders(b)
    BY DEF Bytes
  <2>3. ASSUME NEW t \in Holders(b) PROVE t = s
    <3>1. t \in Occupied(p) /\ b \in P[t] .. P[t] + slot(p, t).length - 1
      BY DEF Bytes
    <3>2. ~(s < t) /\ ~(t < s)
      BY <1>5, <1>6, <3>1
    <3> QED
      BY <1>5, <3>1, <3>2
  <2>4. Holders(b) = {s}
    BY <2>2, <2>3
  <2> HIDE DEF Holders
  <2>5. q.data[b] = Moved(b, s)
    BY <1>2, <1>4, <2>1, <2>4
  <2> QED
    BY <2>1, <2>4, <2>5
<1>10. q.data \in [0 .. kPAGE_SIZE - 1 -> Value \cup {Blank}]
  <2> SUFFICES ASSUME NEW b \in 0 .. kPAGE_SIZE - 1 PROVE q.data[b] \in Value \cup {Blank}
    BY <1>2, <1>4
  <2>1. CASE Holders(b) = {}
    BY <1>2, <1>4, <2>1
  <2>2. CASE Holders(b) # {}
    <3>1. PICK s \in Occupied(p) : b \in P[s] .. P[s] + slot(p, s).length - 1
      BY <2>2 DEF Bytes
    <3>2. q.data[b] = p.data[slot(p, s).offset + b - P[s]]
      BY <1>9, <3>1
    <3>3. slot(p, s).offset + b - P[s] \in 0 .. kPAGE_SIZE - 1
      BY <1>5, <3>1, PageSize
    <3> QED
      BY <1>2, <3>2, <3>3
  <2> QED
    BY <2>1, <2>2
<1> HIDE DEF Holders, Moved
<1>11. q \in PageType
  <2>1. q.free_space_offset \in 8 .. kPAGE_SIZE
    <3>1. n - 1 \in -1 .. n - 1 /\ -1 \in -1 .. n - 1 /\ -1 <= n - 1
      BY <1>2
    <3>2. P[n - 1] \in Int /\ P[n - 1] <= kPAGE_SIZE
      BY <1>3, <3>1
    <3> QED
      BY <1>1, <1>2, <1>4, <3>2, PageSize
  <2> QED
    BY <1>1, <1>4, <1>7, <1>10, <2>1 DEF PageType, PageHeaderBytes
<1>12. /\ SlotsEnd(q) = 8 + 4 * n
       /\ Occupied(q) = Occupied(p)
       /\ \A s : has_slot(q, s) <=> has_slot(p, s)
  <2>1. /\ SlotsEnd(q) = 8 + 4 * n
        /\ Occupied(q) = {s \in 0 .. n - 1 : slot(q, s).offset # 0}
        /\ \A s : has_slot(q, s) <=> s \in Occupied(q)
    BY <1>8, <1>11, PageTypes
  <2>2. \A s \in 0 .. n - 1 : slot(q, s).offset # 0 <=> s \in Occupied(p)
    BY <1>5, <1>8
  <2>3. Occupied(q) = Occupied(p)
    BY <1>2, <2>1, <2>2
  <2> QED
    BY <1>2, <2>1, <2>3
<1>13. slot_count(q) <= most /\ SlotsEnd(q) <= q.free_space_offset
  <2>1. P[n - 1] \in Int
    <3>1. n - 1 \in -1 .. n - 1
      BY <1>2
    <3> QED
      BY <1>3, <3>1
  <2>2. p.free_space_offset \in Int /\ p.free_space_offset <= P[n - 1] /\ n \in Nat
    BY <1>1, <1>2
  <2>3. 8 + 4 * n <= p.free_space_offset /\ n <= most
    BY <1>1, <1>2
  <2>4. 8 + 4 * n <= P[n - 1]
    BY <2>1, <2>2, <2>3
  <2> QED
    BY <1>4, <1>8, <1>12, <2>3, <2>4
<1>14. ASSUME NEW s \in Occupied(q) PROVE Lies(q, s)
  <2>1. s \in Occupied(p)
    BY <1>12
  <2>2. slot(q, s).offset = P[s] /\ slot(q, s).length = slot(p, s).length
    BY <1>8, <2>1
  <2>3. /\ P[n - 1] <= P[s] /\ slot(p, s).length >= 1
        /\ P[s] + slot(p, s).length <= kPAGE_SIZE
    BY <1>5, <2>1
  <2> QED
    BY <1>4, <2>2, <2>3 DEF Lies
<1>15. ASSUME NEW s \in Occupied(q), NEW t \in Occupied(q), s # t PROVE Apart(q, s, t)
  <2>1. s < t \/ t < s
    BY <1>5, <1>12, <1>15
  <2>2. /\ s < t => P[t] + slot(p, t).length <= P[s]
        /\ t < s => P[s] + slot(p, s).length <= P[t]
    BY <1>6, <1>12
  <2> QED
    BY <1>8, <1>12, <2>1, <2>2 DEF Apart
<1>16. q.free_space_offset <= PackedEnd(q)
  <2>1. ASSUME NEW s PROVE Used(q, s) = Used(p, s)
    <3>1. CASE has_slot(p, s)
      BY <1>2, <1>8, <1>12, <3>1 DEF Used
    <3>2. CASE ~has_slot(p, s)
      BY <1>12, <3>2 DEF Used
    <3> QED
      BY <3>1, <3>2
  <2>2. PackedEnd(q) = PackedEnd(p) + Used(p, n) - Used(q, n)
    BY <1>1, <1>2, <1>8, <1>11, <2>1, PackedChange DEF n
  <2>3. Used(p, n) = 0 /\ Used(q, n) = 0
    BY <1>2, <2>1 DEF Used
  <2>4. PackedEnd(p) = P[n - 1] /\ PackedEnd(p) \in Int
    BY <1>1, PackedFalls DEF PackedEnd, P, n
  <2> QED
    BY <1>4, <2>2, <2>3, <2>4
<1>17. ASSUME NEW s \in 0 .. most - 1 PROVE Shows(q, s, r[s])
  <2>1. Shows(p, s, r[s])
    BY <1>1
  <2>2. CASE r[s] = NoTuple
    BY <1>12, <2>1, <2>2 DEF Shows
  <2>3. CASE r[s] # NoTuple
    <3>1. s \in Occupied(p) /\ slot(p, s).length = r[s].size
      BY <1>2, <2>1, <2>3 DEF Shows
    <3>2. slot(q, s).offset = P[s] /\ slot(q, s).length = r[s].size
      BY <1>8, <3>1
    <3>3. ASSUME NEW b \in P[s] .. P[s] + r[s].size - 1 PROVE q.data[b] = r[s].value
      <4>1. q.data[b] = p.data[slot(p, s).offset + b - P[s]]
        BY <1>9, <3>1, <3>3
      <4>2. slot(p, s).offset + b - P[s]
              \in slot(p, s).offset .. slot(p, s).offset + r[s].size - 1
        BY <1>5, <3>1, <3>3
      <4> QED
        BY <2>1, <2>3, <4>1, <4>2 DEF Shows
    <3> QED
      BY <1>2, <1>12, <2>3, <3>1, <3>2, <3>3 DEF Shows
  <2> QED
    BY <2>2, <2>3
(* A byte behind the free space belongs to the first slot that ends below. *)
<1>18. Wasted(q) = {}
  <2> SUFFICES ASSUME NEW b \in Wasted(q) PROVE FALSE
    OBVIOUS
  <2>0. /\ b \in q.free_space_offset .. kPAGE_SIZE - 1
        /\ \A s \in Occupied(q) : b \notin Bytes(slot(q, s).offset, slot(q, s).length)
    BY DEF Wasted
  <2>1. /\ b \in P[n - 1] .. kPAGE_SIZE - 1
        /\ \A s \in Occupied(p) : b \notin P[s] .. P[s] + slot(p, s).length - 1
    <3>1. b \in P[n - 1] .. kPAGE_SIZE - 1
      BY <1>4, <2>0
    <3>2. ASSUME NEW s \in Occupied(p)
          PROVE  b \notin P[s] .. P[s] + slot(p, s).length - 1
      <4>1. slot(q, s).offset = P[s] /\ slot(q, s).length = slot(p, s).length
        BY <1>8
      <4>2. b \notin Bytes(P[s], slot(p, s).length)
        BY <1>12, <2>0, <4>1
      <4> QED
        BY <4>2 DEF Bytes
    <3> QED
      BY <3>1, <3>2
  <2> DEFINE C == {i \in 0 .. n : P[i - 1] <= b}
  <2>2. n \in C
    BY <1>2, <1>4, <1>11, <2>1, PageTypes
  <2>3. C \in SUBSET Nat /\ C # {}
    BY <1>2, <2>2
  <2> HIDE DEF C
  <2>4. PICK i \in C : \A j \in C : i <= j
    BY <2>3, Least
  <2>5. i \in 0 .. n /\ P[i - 1] <= b
    BY <2>4 DEF C
  <2>6. i # 0
    BY <1>3, <2>1, <2>5, PageSize
  <2>7. i - 1 \in 0 .. n - 1 /\ i - 2 \in -1 .. n - 1 /\ i - 1 \in 0 .. n /\ ~(i <= i - 1)
    BY <1>2, <2>5, <2>6
  <2>8. ~(P[i - 2] <= b)
    BY <2>4, <2>7 DEF C
  <2>9. /\ P[i - 1] + Used(p, i - 1) = P[i - 2] /\ Used(p, i - 1) \in Nat
        /\ P[i - 1] \in Int /\ P[i - 2] \in Int
    <3>1. (i - 1) - 1 = i - 2 /\ i - 1 \in -1 .. n - 1
      BY <2>5, <2>7
    <3>2. P[i - 1] + Used(p, i - 1) = P[(i - 1) - 1] /\ Used(p, i - 1) \in Nat
      BY <1>3, <2>7
    <3>3. P[i - 1] \in Int /\ P[i - 2] \in Int
      BY <1>3, <2>7, <3>1
    <3> QED
      BY <3>1, <3>2, <3>3
  <2>10. Used(p, i - 1) # 0 /\ b \in P[i - 1] .. P[i - 1] + Used(p, i - 1) - 1
    BY <2>1, <2>5, <2>8, <2>9
  <2>11. i - 1 \in Occupied(p) /\ Used(p, i - 1) = slot(p, i - 1).length
    BY <1>2, <2>10 DEF Used
  <2> QED
    BY <2>1, <2>10, <2>11
<1>19. Sound(q, r, most)
  BY <1>1, <1>11, <1>13, <1>14, <1>15, <1>16, <1>17 DEF Sound
<1> QED
  BY <1>8, <1>12, <1>18, <1>19 DEF q, n

LEMMA UpdateKeeps ==
  ASSUME NEW most \in Nat, NEW p, NEW r, Sound(p, r, most), NEW u \in Tuple, NEW k, CanUpdateInPlace(p, k, u)
  PROVE  Sound(try_update_in_place(p, k, u), [r EXCEPT ![k] = u], most)
<1> DEFINE n == slot_count(p)
           q == try_update_in_place(p, k, u)
<1>1. /\ p \in PageType /\ k \in Occupied(p) /\ u.size <= slot(p, k).length
      /\ Lies(p, k)
  BY PageTypes DEF Sound, CanUpdateInPlace
<1>2. /\ n \in Nat /\ SlotNums(p) = 0 .. n - 1 /\ k \in 0 .. n - 1
      /\ p.slots \in Seq(Slot) /\ Len(p.slots) = n
      /\ p.data \in [0 .. kPAGE_SIZE - 1 -> Value \cup {Blank}]
      /\ slot(p, k).offset \in 0 .. kPAGE_SIZE /\ slot(p, k).length \in 0 .. kPAGE_SIZE
  BY <1>1, PageTypes DEF SlotNums
<1>3. u.size \in Nat /\ u.size >= 1 /\ u.value \in Value /\ u # NoTuple
  BY TupleTypes
<1>4. k + 1 \in 1 .. n /\ p.slots[k + 1] \in Slot /\ slot(p, k) = p.slots[k + 1]
  BY <1>2 DEF slot
<1> DEFINE sl == [p.slots[k + 1] EXCEPT !.length = u.size]
<1>5. sl \in Slot /\ sl = [offset |-> slot(p, k).offset, length |-> u.size]
  <2>1. u.size \in 0 .. kPAGE_SIZE
    BY <1>1, <1>2, <1>3, PageSize
  <2> QED
    BY <1>4, <2>1 DEF Slot
<1>6. /\ q.slots = [p.slots EXCEPT ![k + 1] = sl]
      /\ q.data = Copied(p.data, slot(p, k).offset, u)
      /\ q.free_space_offset = p.free_space_offset
      /\ q.next_page_id = p.next_page_id
      /\ q = [p EXCEPT !.slots = q.slots, !.data = q.data]
  BY <1>1 DEF try_update_in_place, PageType
<1> HIDE DEF q, sl
<1>7. /\ q.slots \in Seq(Slot) /\ Len(q.slots) = n
      /\ q.slots[k + 1] = sl
      /\ \A i \in 1 .. n : i # k + 1 => q.slots[i] = p.slots[i]
  BY <1>2, <1>4, <1>5, <1>6
<1>8. q.data \in [0 .. kPAGE_SIZE - 1 -> Value \cup {Blank}]
  BY <1>2, <1>3, <1>6 DEF Copied
<1>9. q \in PageType
  BY <1>1, <1>6, <1>7, <1>8 DEF PageType
<1>10. slot_count(q) = n /\ slot(q, k) = [offset |-> slot(p, k).offset, length |-> u.size]
  BY <1>5, <1>7 DEF slot_count, slot
<1>11. ASSUME NEW s \in SlotNums(p) \ {k} PROVE slot(q, s) = slot(p, s)
  <2>1. s + 1 \in 1 .. n /\ s + 1 # k + 1
    BY <1>2
  <2> QED
    BY <1>7, <2>1 DEF slot
<1> HIDE DEF n
<1>12. Sound(q, [r EXCEPT ![k] = u], most)
  <2>1. slot_count(q) = slot_count(p)
    BY <1>10 DEF n
  <2> QED
    BY <1>1, <1>3, <1>6, <1>9, <1>10, <1>11, <2>1, ShrinkKeeps
<1> QED
  BY <1>12 DEF q

LEMMA DeleteKeeps ==
  ASSUME NEW most \in Nat, NEW p, NEW r, Sound(p, r, most), NEW k, has_slot(p, k)
  PROVE  Sound(delete_tuple(p, k), [r EXCEPT ![k] = NoTuple], most)
<1> DEFINE n == slot_count(p)
           q == delete_tuple(p, k)
<1>1. p \in PageType /\ k \in Occupied(p)
  BY PageTypes DEF Sound
<1>2. /\ n \in Nat /\ SlotNums(p) = 0 .. n - 1 /\ k \in 0 .. n - 1
      /\ p.slots \in Seq(Slot) /\ Len(p.slots) = n
      /\ slot(p, k).length \in 0 .. kPAGE_SIZE
  BY <1>1, PageTypes DEF SlotNums
<1>3. k + 1 \in 1 .. n /\ p.slots[k + 1] \in Slot
  BY <1>2
<1> DEFINE sl == [p.slots[k + 1] EXCEPT !.offset = INVALID_SLOT_OFFSET]
<1>4. sl \in Slot /\ sl.offset = INVALID_SLOT_OFFSET
  BY <1>3, PageSize DEF Slot, INVALID_SLOT_OFFSET
<1>5. /\ q.slots = [p.slots EXCEPT ![k + 1] = sl]
      /\ q.data = p.data
      /\ q.free_space_offset = p.free_space_offset
      /\ q = [p EXCEPT !.slots = q.slots]
  BY <1>1 DEF delete_tuple, PageType
<1> HIDE DEF q, sl
<1>6. /\ q.slots \in Seq(Slot) /\ Len(q.slots) = n
      /\ q.slots[k + 1] = sl
      /\ \A i \in 1 .. n : i # k + 1 => q.slots[i] = p.slots[i]
  BY <1>2, <1>3, <1>4, <1>5
<1>7. q \in PageType
  BY <1>1, <1>5, <1>6 DEF PageType
<1>8. slot_count(q) = n /\ slot(q, k).offset = INVALID_SLOT_OFFSET
  BY <1>4, <1>6 DEF slot_count, slot
<1>9. ASSUME NEW s \in SlotNums(p) \ {k} PROVE slot(q, s) = slot(p, s)
  <2>1. s + 1 \in 1 .. n /\ s + 1 # k + 1
    BY <1>2
  <2> QED
    BY <1>6, <2>1 DEF slot
<1> HIDE DEF n
<1>10. Sound(q, [r EXCEPT ![k] = NoTuple], most)
  <2>1. slot_count(q) = slot_count(p)
    BY <1>8 DEF n
  <2> QED
    BY <1>1, <1>5, <1>7, <1>8, <1>9, <2>1, ShrinkKeeps
<1> QED
  BY <1>10 DEF q

LEMMA EmptySound ==
  ASSUME NEW most \in Nat
  PROVE  Sound(init, [s \in 0 .. most - 1 |-> NoTuple], most)
<1> DEFINE z == [s \in 0 .. most - 1 |-> NoTuple]
<1>2. /\ init.slots = <<>> /\ init.free_space_offset = kPAGE_SIZE
      /\ init.next_page_id = INVALID_PAGE_ID
      /\ init.data = [b \in 0 .. kPAGE_SIZE - 1 |-> Blank]
  BY DEF init
<1>3. init \in PageType
  <2>1. <<>> \in Seq(Slot)
    OBVIOUS
  <2>2. kPAGE_SIZE \in 8 .. kPAGE_SIZE
    BY PageSize
  <2> QED
    BY <2>1, <2>2 DEF init, PageType, PageHeaderBytes
<1>4. slot_count(init) = 0 /\ Occupied(init) = {} /\ SlotsEnd(init) = 8
  BY <1>2 DEF slot_count, Occupied, SlotNums, SlotsEnd, PageHeaderBytes, SlotBytes
<1>5. PackedEnd(init) = kPAGE_SIZE
  BY <1>3, <1>4, PackedFalls DEF PackedEnd
<1>6. ASSUME NEW s \in 0 .. most - 1 PROVE Shows(init, s, z[s])
  BY <1>4 DEF Shows, has_slot, SlotNums
<1>7. z \in [0 .. most - 1 -> Tuple \cup {NoTuple}]
  OBVIOUS
<1>8. 0 <= most /\ 8 <= kPAGE_SIZE /\ kPAGE_SIZE <= kPAGE_SIZE
  BY PageSize
<1> HIDE DEF z
<1>9. Sound(init, z, most)
  BY <1>2, <1>3, <1>4, <1>5, <1>6, <1>7, <1>8 DEF Sound
<1> QED
  BY <1>9 DEF z

(* Room that is found with or without a compaction leaves the slot empty.  *)
LEMMA RoomyKeeps ==
  ASSUME NEW most \in Nat, NEW p, NEW r, Sound(p, r, most), NEW u \in Tuple, NEW s, SlotIsEmpty(p, s)
  PROVE  Sound(Roomy(p, u), r, most) /\ SlotIsEmpty(Roomy(p, u), s)
<1>1. CASE NeedsCompact(p, u)
  <2>1. /\ Sound(compact(p), r, most) /\ slot_count(compact(p)) = slot_count(p)
        /\ has_slot(compact(p), s) <=> has_slot(p, s)
    BY CompactKeeps
  <2> QED
    BY <1>1, <2>1 DEF Roomy, SlotIsEmpty, SlotNums
<1>2. CASE ~NeedsCompact(p, u)
  BY <1>2 DEF Roomy
<1> QED
  BY <1>1, <1>2

-----------------------------------------------------------------------------
(* Pages, and the row a slot shows.                                        *)
GoodPage(p) == \E r : Sound(p, r, kPAGE_SIZE)
RowOf(p, s) ==
  LET bytes == get_tuple(p, s)
  IN  IF bytes = <<>> THEN NoTuple ELSE [value |-> Head(bytes), size |-> Len(bytes)]

LEMMA Uniform ==
  ASSUME NEW n \in Nat, n >= 1, NEW b, b \in Seq(Value \cup {Blank}), NEW v,
         Len(b) = n, \A i \in 1 .. n : b[i] = v
  PROVE  b # <<>> /\ Head(b) = v
<1>1. 1 \in 1 .. n
  OBVIOUS
<1>2. b # <<>>
  <2>1. Len(<<>>) = 0
    OBVIOUS
  <2> QED
    BY <2>1
<1>3. Head(b) = b[1]
  BY <1>2
<1> QED
  BY <1>1, <1>2, <1>3

LEMMA RowOfIs ==
  ASSUME NEW p, NEW r, Sound(p, r, kPAGE_SIZE)
  PROVE  /\ \A s \in 0 .. kPAGE_SIZE - 1 : RowOf(p, s) = r[s]
         /\ \A s : /\ RowOf(p, s) # NoTuple <=> has_slot(p, s)
                   /\ RowOf(p, s) \in Tuple \cup {NoTuple}
         /\ slot_count(p) \in Nat /\ slot_count(p) < kPAGE_SIZE
<1>1. /\ p \in PageType /\ SlotsEnd(p) <= p.free_space_offset
      /\ r \in [0 .. kPAGE_SIZE - 1 -> Tuple \cup {NoTuple}]
      /\ \A s \in 0 .. kPAGE_SIZE - 1 : Shows(p, s, r[s])
      /\ \A s \in Occupied(p) : Lies(p, s)
  BY DEF Sound
<1>2. /\ slot_count(p) \in Nat /\ SlotsEnd(p) = 8 + 4 * slot_count(p)
      /\ p.free_space_offset \in 8 .. kPAGE_SIZE
      /\ p.data \in [0 .. kPAGE_SIZE - 1 -> Value \cup {Blank}]
      /\ \A s \in SlotNums(p) : /\ slot(p, s).offset \in 0 .. kPAGE_SIZE
                                /\ slot(p, s).length \in 0 .. kPAGE_SIZE
  BY <1>1, PageTypes
<1>3. slot_count(p) < kPAGE_SIZE
  BY <1>1, <1>2, PageSize
<1>4. ASSUME NEW s, ~has_slot(p, s) PROVE RowOf(p, s) = NoTuple
  BY <1>4 DEF RowOf, get_tuple
<1>5. ASSUME NEW s \in 0 .. kPAGE_SIZE - 1, has_slot(p, s)
      PROVE  RowOf(p, s) = r[s] /\ r[s] \in Tuple
  <2> DEFINE o == slot(p, s).offset
             n == slot(p, s).length
             b == [i \in 1 .. n |-> p.data[o + i - 1]]
  <2>1. r[s] \in Tuple /\ r[s] # NoTuple
    BY <1>1, <1>5 DEF Shows
  <2>2. n = r[s].size /\ \A i \in o .. o + n - 1 : p.data[i] = r[s].value
    BY <1>1, <1>5, <2>1 DEF Shows
  <2>3. n \in Nat /\ n >= 1
    BY <2>1, <2>2, TupleTypes
  <2>4. s \in SlotNums(p) /\ s \in Occupied(p)
    BY <1>5 DEF has_slot, Occupied
  <2>5. o \in Nat /\ o >= 0 /\ o + n <= kPAGE_SIZE
    BY <1>1, <1>2, <2>4, PageSize DEF Lies
  <2>6. get_tuple(p, s) = b
    BY <1>5 DEF get_tuple
  <2> HIDE DEF n, o
  <2>7. \A i \in 1 .. n : o + i - 1 \in o .. o + n - 1 /\ o + i - 1 \in 0 .. kPAGE_SIZE - 1
    BY <2>3, <2>5, PageSize
  <2>8. b \in Seq(Value \cup {Blank}) /\ Len(b) = n
    <3>1. b \in [1 .. n -> Value \cup {Blank}]
      BY <1>2, <2>7
    <3>2. n \in Nat /\ DOMAIN b = 1 .. n
      BY <2>3
    <3> HIDE DEF b
    <3> QED
      BY <3>1, <3>2, IsASeq, LenProperties
  <2>9. \A i \in 1 .. n : b[i] = r[s].value
    BY <2>2, <2>7
  <2> HIDE DEF b
  <2>10. b # <<>> /\ Head(b) = r[s].value
    BY <2>3, <2>8, <2>9, Uniform
  <2>11. RowOf(p, s) = [value |-> r[s].value, size |-> r[s].size]
    BY <2>2, <2>6, <2>8, <2>10 DEF RowOf
  <2> QED
    BY <2>1, <2>11 DEF Tuple
<1>6. \A s : has_slot(p, s) => s \in 0 .. kPAGE_SIZE - 1
  BY <1>2, <1>3, PageSize DEF has_slot, SlotNums
<1>7. \A s \in 0 .. kPAGE_SIZE - 1 : ~has_slot(p, s) => r[s] = NoTuple
  BY <1>1 DEF Shows
<1>8. \A s \in 0 .. kPAGE_SIZE - 1 : RowOf(p, s) = r[s]
  BY <1>4, <1>5, <1>7
<1>9. NoTuple \notin Tuple
  BY NoTupleAssumption
<1> QED
  BY <1>2, <1>3, <1>4, <1>5, <1>6, <1>8, <1>9

(* Two pages whose rows differ in one slot.                                *)
LEMMA RowChanges ==
  ASSUME NEW p, NEW r, Sound(p, r, kPAGE_SIZE), NEW q, NEW k \in 0 .. kPAGE_SIZE - 1, NEW u,
         Sound(q, [r EXCEPT ![k] = u], kPAGE_SIZE)
  PROVE  RowOf(q, k) = u /\ \A s : s # k => RowOf(q, s) = RowOf(p, s)
<1> DEFINE w == [r EXCEPT ![k] = u]
<1>1. r \in [0 .. kPAGE_SIZE - 1 -> Tuple \cup {NoTuple}]
  BY DEF Sound
<1>2. w[k] = u /\ \A s \in 0 .. kPAGE_SIZE - 1 : s # k => w[s] = r[s]
  BY <1>1
<1> HIDE DEF w
<1>3. Sound(q, w, kPAGE_SIZE)
  BY DEF w
<1>4. /\ \A s \in 0 .. kPAGE_SIZE - 1 : RowOf(p, s) = r[s]
      /\ \A s : RowOf(p, s) # NoTuple <=> has_slot(p, s)
      /\ slot_count(p) \in Nat /\ slot_count(p) < kPAGE_SIZE
  BY RowOfIs
<1>5. /\ \A s \in 0 .. kPAGE_SIZE - 1 : RowOf(q, s) = w[s]
      /\ \A s : RowOf(q, s) # NoTuple <=> has_slot(q, s)
      /\ slot_count(q) \in Nat /\ slot_count(q) < kPAGE_SIZE
  BY <1>3, RowOfIs
<1>6. \A s : s \notin 0 .. kPAGE_SIZE - 1 => RowOf(p, s) = NoTuple /\ RowOf(q, s) = NoTuple
  BY <1>4, <1>5, PageSize DEF has_slot, SlotNums
<1> QED
  BY <1>2, <1>4, <1>5, <1>6

LEMMA InitGood == GoodPage(init) /\ (\A s : RowOf(init, s) = NoTuple) /\ slot_count(init) = 0
<1> DEFINE z == [s \in 0 .. kPAGE_SIZE - 1 |-> NoTuple]
<1>1. Sound(init, z, kPAGE_SIZE)
  BY EmptySound, PageSize
<1>2. slot_count(init) = 0
  BY DEF slot_count, init
<1>3. \A s : ~has_slot(init, s)
  BY <1>2 DEF has_slot, SlotNums
<1> QED
  BY <1>1, <1>2, <1>3, RowOfIs DEF GoodPage

LEMMA PageInsert ==
  ASSUME NEW p, GoodPage(p), NEW u \in Tuple, NEW pref \in Int, CanInsert(p, u, pref)
  PROVE  LET q == insert_tuple(p, u, pref)
             k == SlotFor(p, pref)
         IN  /\ GoodPage(q) /\ k \in Nat /\ ~has_slot(p, k) /\ has_slot(q, k)
             /\ RowOf(q, k) = u /\ \A s : s # k => RowOf(q, s) = RowOf(p, s)
             /\ slot_count(p) <= slot_count(q)
             /\ slot_count(q) = slot_count(p) + (IF k = slot_count(p) THEN 1 ELSE 0)
<1> DEFINE q == insert_tuple(p, u, pref)
           k == SlotFor(p, pref)
<1>1. PICK r : Sound(p, r, kPAGE_SIZE)
  BY DEF GoodPage
<1>2. /\ p \in PageType /\ SlotsEnd(p) <= p.free_space_offset
  BY <1>1 DEF Sound
<1>3. /\ slot_count(p) \in Nat /\ slot_count(p) < kPAGE_SIZE
      /\ p.slots \in Seq(Slot)
  BY <1>1, <1>2, RowOfIs, PageTypes
<1>4. k \in 0 .. slot_count(p) /\ ~has_slot(p, k)
  BY <1>2, SlotForProperties
<1>5. k \in 0 .. kPAGE_SIZE - 1 /\ k < kPAGE_SIZE /\ kPAGE_SIZE \in Nat
  BY <1>3, <1>4, PageSize
<1>6. Sound(q, [r EXCEPT ![k] = u], kPAGE_SIZE)
  BY <1>1, <1>5, InsertKeeps
<1>7. /\ slot_count(p) <= slot_count(q)
      /\ slot_count(q) = slot_count(p) + (IF k = slot_count(p) THEN 1 ELSE 0)
  <2> DEFINE new == [offset |-> p.free_space_offset - u.size, length |-> u.size]
  <2>1. q.slots = IF k = slot_count(p) THEN Append(p.slots, new)
                  ELSE [p.slots EXCEPT ![k + 1] = new]
    BY <1>2 DEF insert_tuple, PageType
  <2>2. DOMAIN p.slots = 1 .. slot_count(p) /\ Len(p.slots) = slot_count(p)
    BY <1>3 DEF slot_count
  <2>3. CASE k = slot_count(p)
    <3>1. Len(Append(p.slots, new)) = Len(p.slots) + 1
      BY <1>3, AppendProperties
    <3> QED
      BY <1>3, <2>1, <2>2, <2>3, <3>1 DEF slot_count
  <2>4. CASE k # slot_count(p)
    <3>1. Len([p.slots EXCEPT ![k + 1] = new]) = Len(p.slots)
      <4> HIDE DEF new
      <4> QED
        BY <1>3, ExceptSeq
    <3> QED
      BY <1>3, <2>1, <2>2, <2>4, <3>1 DEF slot_count
  <2> QED
    BY <2>3, <2>4
<1> HIDE DEF q, k
<1>8. RowOf(q, k) = u /\ \A s : s # k => RowOf(q, s) = RowOf(p, s)
  BY <1>1, <1>5, <1>6, RowChanges
<1>9. u # NoTuple
  BY TupleTypes
<1>10. GoodPage(q) /\ has_slot(q, k)
  BY <1>6, <1>8, <1>9, RowOfIs DEF GoodPage
<1> QED
  BY <1>4, <1>5, <1>7, <1>8, <1>10 DEF q, k

LEMMA PageCompact ==
  ASSUME NEW p, GoodPage(p)
  PROVE  LET q == compact(p)
         IN  /\ GoodPage(q) /\ slot_count(q) = slot_count(p)
             /\ \A s : RowOf(q, s) = RowOf(p, s)
             /\ \A s : has_slot(q, s) <=> has_slot(p, s)
<1> DEFINE q == compact(p)
<1>1. PICK r : Sound(p, r, kPAGE_SIZE)
  BY DEF GoodPage
<1>2. /\ Sound(q, r, kPAGE_SIZE) /\ slot_count(q) = slot_count(p)
      /\ \A s : has_slot(q, s) <=> has_slot(p, s)
  BY <1>1, CompactKeeps, PageSize
<1> HIDE DEF q
<1>3. \A s : RowOf(q, s) = RowOf(p, s)
  <2>1. /\ \A s \in 0 .. kPAGE_SIZE - 1 : RowOf(p, s) = r[s]
        /\ \A s : RowOf(p, s) # NoTuple <=> has_slot(p, s)
        /\ slot_count(p) \in Nat /\ slot_count(p) < kPAGE_SIZE
    BY <1>1, RowOfIs
  <2>2. /\ \A s \in 0 .. kPAGE_SIZE - 1 : RowOf(q, s) = r[s]
        /\ \A s : RowOf(q, s) # NoTuple <=> has_slot(q, s)
    BY <1>2, RowOfIs
  <2>3. \A s : has_slot(p, s) => s \in 0 .. kPAGE_SIZE - 1
    BY <2>1, PageSize DEF has_slot, SlotNums
  <2> QED
    BY <1>2, <2>1, <2>2, <2>3
<1> QED
  BY <1>2, <1>3 DEF GoodPage, q

LEMMA HasSlotInPage ==
  ASSUME NEW p, GoodPage(p), NEW k, k \in SlotNums(p)
  PROVE  k \in 0 .. kPAGE_SIZE - 1 /\ k \in Nat
<1>1. slot_count(p) \in Nat /\ slot_count(p) < kPAGE_SIZE
  BY RowOfIs DEF GoodPage
<1> QED
  BY <1>1, PageSize DEF SlotNums

LEMMA SameLength ==
  ASSUME NEW p, GoodPage(p), NEW k, k \in SlotNums(p), NEW x
  PROVE  Len([p.slots EXCEPT ![k + 1] = x]) = Len(p.slots)
<1>1. p.slots \in Seq(Slot)
  BY PageTypes DEF GoodPage, Sound
<1> QED
  BY <1>1, ExceptSeq

LEMMA PageDelete ==
  ASSUME NEW p, GoodPage(p), NEW k, has_slot(p, k)
  PROVE  LET q == delete_tuple(p, k)
         IN  /\ GoodPage(q) /\ slot_count(q) = slot_count(p)
             /\ RowOf(q, k) = NoTuple /\ \A s : s # k => RowOf(q, s) = RowOf(p, s)
<1> DEFINE q == delete_tuple(p, k)
<1>1. PICK r : Sound(p, r, kPAGE_SIZE)
  BY DEF GoodPage
<1>2. k \in SlotNums(p) /\ k \in 0 .. kPAGE_SIZE - 1
  BY HasSlotInPage DEF has_slot
<1>3. Sound(q, [r EXCEPT ![k] = NoTuple], kPAGE_SIZE)
  BY <1>1, DeleteKeeps, PageSize
<1>4. slot_count(q) = slot_count(p)
  <2>1. PICK x : q.slots = [p.slots EXCEPT ![k + 1] = x]
    <3>1. p \in PageType
      BY <1>1 DEF Sound
    <3> QED
      BY <3>1 DEF delete_tuple, PageType
  <2> QED
    BY <1>2, <2>1, SameLength DEF slot_count
<1> HIDE DEF q
<1>5. RowOf(q, k) = NoTuple /\ \A s : s # k => RowOf(q, s) = RowOf(p, s)
  BY <1>1, <1>2, <1>3, RowChanges
<1> QED
  BY <1>3, <1>4, <1>5 DEF GoodPage, q

LEMMA PageUpdate ==
  ASSUME NEW p, GoodPage(p), NEW k, NEW u \in Tuple, CanUpdateInPlace(p, k, u)
  PROVE  LET q == try_update_in_place(p, k, u)
         IN  /\ GoodPage(q) /\ slot_count(q) = slot_count(p)
             /\ RowOf(q, k) = u /\ \A s : s # k => RowOf(q, s) = RowOf(p, s)
<1> DEFINE q == try_update_in_place(p, k, u)
<1>1. PICK r : Sound(p, r, kPAGE_SIZE)
  BY DEF GoodPage
<1>2. k \in SlotNums(p) /\ k \in 0 .. kPAGE_SIZE - 1
  BY HasSlotInPage DEF has_slot, CanUpdateInPlace
<1>3. Sound(q, [r EXCEPT ![k] = u], kPAGE_SIZE)
  BY <1>1, UpdateKeeps, PageSize
<1>4. slot_count(q) = slot_count(p)
  <2>1. PICK x : q.slots = [p.slots EXCEPT ![k + 1] = x]
    <3>1. p \in PageType
      BY <1>1 DEF Sound
    <3> QED
      BY <3>1 DEF try_update_in_place, PageType
  <2> QED
    BY <1>2, <2>1, SameLength DEF slot_count
<1> HIDE DEF q
<1>5. RowOf(q, k) = u /\ \A s : s # k => RowOf(q, s) = RowOf(p, s)
  <2> PICK v : v = u
    OBVIOUS
  <2>1. Sound(q, [r EXCEPT ![k] = v], kPAGE_SIZE)
    BY <1>3
  <2>2. RowOf(q, k) = v /\ \A s : s # k => RowOf(q, s) = RowOf(p, s)
    BY <1>1, <1>2, <2>1, RowChanges
  <2> QED
    BY <2>2
<1> QED
  BY <1>3, <1>4, <1>5 DEF GoodPage, q

LEMMA PageRestore ==
  ASSUME NEW p, GoodPage(p), NEW k, NEW u \in Tuple, SlotIsEmpty(p, k), RestoreFits(p, u)
  PROVE  LET q == restore_tuple(p, k, u)
         IN  /\ GoodPage(q) /\ slot_count(q) = slot_count(p)
             /\ RowOf(q, k) = u /\ \A s : s # k => RowOf(q, s) = RowOf(p, s)
<1> DEFINE z == Roomy(p, u)
           q == restore_tuple(p, k, u)
<1>1. /\ GoodPage(z) /\ slot_count(z) = slot_count(p)
      /\ \A s : RowOf(z, s) = RowOf(p, s)
      /\ \A s : has_slot(z, s) <=> has_slot(p, s)
  BY PageCompact DEF Roomy
<1>2. k \in SlotNums(z) /\ ~has_slot(z, k) /\ u.size <= free_space_bytes(z)
  BY <1>1 DEF SlotIsEmpty, SlotNums, RestoreFits
<1>3. q = insert_tuple(z, u, k)
  BY DEF restore_tuple
<1> HIDE DEF z, q
<1>4. k \in Nat /\ k < slot_count(z) /\ SlotFor(z, k) = k
  <2>1. slot_count(z) \in Nat
    BY <1>1, RowOfIs DEF GoodPage
  <2> QED
    BY <1>1, <1>2, <2>1, HasSlotInPage DEF SlotFor, SlotNums
<1>5. k \in Int /\ CanInsert(z, u, k)
  <2>1. slot_count(z) \in Nat
    BY <1>1, RowOfIs DEF GoodPage
  <2> QED
    BY <1>2, <1>4, <2>1 DEF CanInsert
<1>6. /\ GoodPage(q) /\ RowOf(q, k) = u /\ \A s : s # k => RowOf(q, s) = RowOf(z, s)
      /\ slot_count(q) = slot_count(z)
  <2>1. slot_count(z) \in Nat /\ SlotFor(z, k) # slot_count(z)
    <3>1. slot_count(z) \in Nat
      BY <1>1, RowOfIs DEF GoodPage
    <3> QED
      BY <1>4, <3>1
  <2> QED
    BY <1>1, <1>3, <1>4, <1>5, <2>1, PageInsert
<1> QED
  BY <1>1, <1>6 DEF q

(* insert_tuple: one page of the walk.                                     *)
LEMMA TryIs ==
  ASSUME NEW p, GoodPage(p), NEW u \in Tuple
  PROVE  LET t == Try(p, u)
         IN  /\ GoodPage(t.page) /\ slot_count(p) <= slot_count(t.page)
             /\ ~t.ok => \A s : RowOf(t.page, s) = RowOf(p, s)
             /\ t.ok => /\ t.slot \in Nat /\ RowOf(p, t.slot) = NoTuple
                        /\ RowOf(t.page, t.slot) = u /\ t.slot \in SlotNums(t.page)
                        /\ \A s : s # t.slot => RowOf(t.page, s) = RowOf(p, s)
<1> DEFINE z == IF CanInsert(p, u, NoSlot) \/ is_compacted(p) THEN p ELSE compact(p)
           q == insert_tuple(z, u, NoSlot)
           k == SlotFor(z, NoSlot)
<1>1. /\ GoodPage(z) /\ slot_count(z) = slot_count(p)
      /\ \A s : RowOf(z, s) = RowOf(p, s)
  BY PageCompact
<1>2. slot_count(p) \in Nat /\ NoSlot \in Int
  BY RowOfIs DEF GoodPage, NoSlot
<1>3. /\ Try(p, u).ok = CanInsert(z, u, NoSlot) /\ Try(p, u).slot = k
      /\ Try(p, u).page = IF CanInsert(z, u, NoSlot) THEN q ELSE z
  BY DEF Try
<1> HIDE DEF z
<1>4. CASE CanInsert(z, u, NoSlot)
  <2>1. /\ GoodPage(q) /\ k \in Nat /\ ~has_slot(z, k) /\ has_slot(q, k)
        /\ RowOf(q, k) = u /\ \A s : s # k => RowOf(q, s) = RowOf(z, s)
        /\ slot_count(z) <= slot_count(q)
    BY <1>1, <1>2, <1>4, PageInsert
  <2>2. RowOf(z, k) = NoTuple
    BY <1>1, <2>1, RowOfIs DEF GoodPage
  <2>3. k \in SlotNums(q)
    BY <2>1 DEF has_slot
  <2> HIDE DEF q, k
  <2> QED
    BY <1>1, <1>3, <1>4, <2>1, <2>2, <2>3
<1>5. CASE ~CanInsert(z, u, NoSlot)
  BY <1>1, <1>2, <1>3, <1>5
<1> QED
  BY <1>4, <1>5

LEMMA EmptyFits ==
  ASSUME NEW u \in Tuple
  PROVE  Try(init, u).ok
<1>1. slot_count(init) = 0 /\ init.free_space_offset = kPAGE_SIZE
  BY DEF slot_count, init
<1>2. is_compacted(init)
  BY <1>1 DEF is_compacted
<1>3. SlotFor(init, NoSlot) = 0
  BY <1>1 DEF SlotFor, SlotNums, NoSlot, find_empty_slot, Occupied
<1>4. free_space_bytes(init) = kPAGE_SIZE - 8
  BY <1>1, PageSize DEF free_space_bytes, SlotsEnd, PageHeaderBytes, SlotBytes
<1>5. u.size \in Size /\ u.size \in Nat
  BY TupleTypes DEF Tuple
<1>6. u.size + 8 + 4 <= kPAGE_SIZE
  BY <1>5, TupleAssumption DEF PageHeaderBytes, SlotBytes
<1>7. CanInsert(init, u, NoSlot)
  BY <1>1, <1>3, <1>4, <1>5, <1>6, PageSize DEF CanInsert, SlotBytes
<1> QED
  BY <1>2, <1>7 DEF Try

-----------------------------------------------------------------------------
(* No call on a slot sets the link to the next page.                       *)
LEMMA LinkKept ==
  ASSUME NEW p \in PageType, compact(p) \in PageType, NEW u, NEW s
  PROVE  /\ insert_tuple(p, u, s).next_page_id = p.next_page_id
         /\ compact(p).next_page_id = p.next_page_id
         /\ delete_tuple(p, s).next_page_id = p.next_page_id
         /\ try_update_in_place(p, s, u).next_page_id = p.next_page_id
         /\ restore_tuple(p, s, u).next_page_id = p.next_page_id
         /\ Try(p, u).page.next_page_id = p.next_page_id
<1>2. ASSUME NEW q \in PageType, NEW v, NEW k
      PROVE  insert_tuple(q, v, k).next_page_id = q.next_page_id
  BY DEF insert_tuple, PageType
<1>3. compact(p).next_page_id = p.next_page_id
  BY DEF compact, PageType
<1> HIDE DEF PageType
<1>4. Roomy(p, u) \in PageType /\ Roomy(p, u).next_page_id = p.next_page_id
  BY <1>3 DEF Roomy
<1>5. /\ delete_tuple(p, s).next_page_id = p.next_page_id
      /\ try_update_in_place(p, s, u).next_page_id = p.next_page_id
  BY DEF delete_tuple, try_update_in_place, PageType
<1>6. restore_tuple(p, s, u).next_page_id = p.next_page_id
  BY <1>2, <1>4 DEF restore_tuple
<1>7. Try(p, u).page.next_page_id = p.next_page_id
  BY <1>2, <1>3 DEF Try
<1> QED
  BY <1>2, <1>3, <1>5, <1>6, <1>7

-----------------------------------------------------------------------------
(* The invariant of PageUse: the page is Sound, and shows the contents.    *)
PInv == Sound(page, contents, SlotLimit) /\ page.next_page_id = INVALID_PAGE_ID

LEMMA InitSound == PageInit => PInv
<1>1. init.next_page_id = INVALID_PAGE_ID
  BY DEF init
<1> QED
  BY <1>1, EmptySound, UseAssumption DEF PageInit, PInv

LEMMA StepSound == PInv /\ [PageNext]_pageVars => Sound(page, contents, SlotLimit)'
<1> SUFFICES ASSUME Sound(page, contents, SlotLimit), [PageNext]_pageVars PROVE Sound(page', contents', SlotLimit)
  BY DEF PInv
<1>1. page \in PageType /\ SlotNums(page) \subseteq Int /\ slot_count(page) <= SlotLimit
      /\ NoSlot \in Int
  BY SlotTypes DEF Sound, SlotNums, NoSlot
<1>2. ASSUME NEW u \in Tuple, NEW s \in SlotNums(page) \cup {NoSlot}, InsertTuple(u, s)
      PROVE  Sound(page', contents', SlotLimit)
  <2>1. s \in Int
    BY <1>1
  <2> QED
    BY <1>2, <2>1, InsertKeeps, UseAssumption DEF InsertTuple
<1>3. ASSUME NEW u \in Tuple, InsertAgain(u) PROVE Sound(page', contents', SlotLimit)
  <2> DEFINE q == compact(page)
  <2>1. Sound(q, contents, SlotLimit)
    BY CompactKeeps, UseAssumption
  <2> HIDE DEF q
  <2>2. CASE CanInsert(q, u, NoSlot)
    <3>1. /\ SlotFor(q, NoSlot) < SlotLimit
          /\ page' = insert_tuple(q, u, NoSlot)
          /\ contents' = [contents EXCEPT ![SlotFor(q, NoSlot)] = u]
      BY <1>3, <2>2 DEF InsertAgain, q
    <3> QED
      BY <1>1, <2>1, <2>2, <3>1, InsertKeeps, UseAssumption
  <2>3. CASE ~CanInsert(q, u, NoSlot)
    <3>1. page' = q /\ contents' = contents
      BY <1>3, <2>3 DEF InsertAgain, q
    <3> QED
      BY <2>1, <3>1
  <2> QED
    BY <2>2, <2>3
<1>4. ASSUME NEW u \in Tuple, NEW s \in SlotNums(page), UpdateInPlace(s, u)
      PROVE  Sound(page', contents', SlotLimit)
  BY <1>4, UpdateKeeps, UseAssumption DEF UpdateInPlace
<1>5. ASSUME NEW u \in Tuple, NEW s \in SlotNums(page), RestoreTuple(s, u)
      PROVE  Sound(page', contents', SlotLimit)
  <2> DEFINE q == Roomy(page, u)
  <2>1. /\ SlotIsEmpty(page, s) /\ u.size <= free_space_bytes(q)
        /\ page' = insert_tuple(q, u, s)
        /\ contents' = [contents EXCEPT ![s] = u]
    BY <1>5 DEF RestoreTuple, RestoreFits, restore_tuple
  <2>2. Sound(q, contents, SlotLimit) /\ SlotIsEmpty(q, s)
    BY <2>1, RoomyKeeps, UseAssumption
  <2> HIDE DEF q
  <2>3. q \in PageType /\ s \in Int /\ slot_count(q) <= SlotLimit
    BY <1>1, <2>2 DEF Sound
  <2>4. SlotFor(q, s) = s
    BY <2>2, <2>3, SlotForProperties
  <2>5. slot_count(q) \in Nat /\ s < slot_count(q) /\ SlotLimit \in Nat
    BY <2>2, <2>3, SlotTypes, UseAssumption DEF SlotIsEmpty, SlotNums
  <2>6. CanInsert(q, u, s)
    BY <2>1, <2>4, <2>5 DEF CanInsert
  <2>7. SlotFor(q, s) < SlotLimit
    BY <2>3, <2>4, <2>5
  <2>8. Sound(insert_tuple(q, u, s), [contents EXCEPT ![SlotFor(q, s)] = u], SlotLimit)
    BY <2>2, <2>3, <2>6, <2>7, InsertKeeps, UseAssumption
  <2> QED
    BY <2>1, <2>4, <2>8
<1>6. ASSUME NEW s \in SlotNums(page), DeleteTuple(s) PROVE Sound(page', contents', SlotLimit)
  BY <1>6, DeleteKeeps, UseAssumption DEF DeleteTuple
<1>7. ASSUME CompactPage PROVE Sound(page', contents', SlotLimit)
  BY <1>7, CompactKeeps, UseAssumption DEF CompactPage
<1>8. ASSUME UNCHANGED pageVars PROVE Sound(page', contents', SlotLimit)
  BY <1>8 DEF pageVars
<1> QED
  BY <1>2, <1>3, <1>4, <1>5, <1>6, <1>7, <1>8 DEF PageNext

LEMMA StepLink == PInv /\ [PageNext]_pageVars => (page.next_page_id = INVALID_PAGE_ID)'
<1> SUFFICES ASSUME PInv, [PageNext]_pageVars PROVE page'.next_page_id = page.next_page_id
  BY DEF PInv
<1>1. page \in PageType /\ compact(page) \in PageType
  BY CompactKeeps, UseAssumption DEF PInv, Sound
<1>2. ASSUME NEW u \in Tuple, InsertAgain(u) PROVE page'.next_page_id = page.next_page_id
  <2>1. page' = compact(page) \/ page' = insert_tuple(compact(page), u, NoSlot)
    BY <1>2 DEF InsertAgain
  <2>2. insert_tuple(compact(page), u, NoSlot).next_page_id = compact(page).next_page_id
    BY <1>1 DEF insert_tuple, PageType
  <2> QED
    BY <1>1, <2>1, <2>2, LinkKept
<1>3. CASE \E u \in Tuple, s \in SlotNums(page) \cup {NoSlot} :
             InsertTuple(u, s) \/ UpdateInPlace(s, u) \/ RestoreTuple(s, u)
  BY <1>1, <1>3, LinkKept DEF InsertTuple, UpdateInPlace, RestoreTuple
<1>4. CASE (\E s \in SlotNums(page) : DeleteTuple(s)) \/ CompactPage \/ UNCHANGED pageVars
  BY <1>1, <1>4, LinkKept DEF DeleteTuple, CompactPage, pageVars
<1> QED
  BY <1>2, <1>3, <1>4 DEF PageNext

LEMMA PageInvariant == PageSpec => []PInv
<1>1. PInv /\ [PageNext]_pageVars => PInv'
  BY StepSound, StepLink DEF PInv
<1> QED
  BY <1>1, InitSound, PTL DEF PageSpec

(* A tuple inserted, shrunk, moved by compact or restored never lies over  *)
(* the slots, another tuple, or the end of the page.                       *)
THEOREM TuplesApartTheorem == PageSpec => []TuplesApart
<1>1. PInv => TuplesApart
  <2> SUFFICES ASSUME Sound(page, contents, SlotLimit), page.next_page_id = INVALID_PAGE_ID
               PROVE  TuplesApart
    BY DEF PInv
  <2>1. /\ page \in PageType
        /\ contents \in [0 .. SlotLimit - 1 -> Tuple \cup {NoTuple}]
        /\ SlotsEnd(page) <= page.free_space_offset
        /\ \A s \in Occupied(page) : Lies(page, s)
        /\ \A s, t \in Occupied(page) : s # t => Apart(page, s, t)
    BY DEF Sound
  <2>2. PageTypeOK
    BY <2>1 DEF PageTypeOK, PageType
  <2>3. /\ page.free_space_offset \in 8 .. kPAGE_SIZE
        /\ slot_count(page) \in Nat /\ SlotsEnd(page) = 8 + 4 * slot_count(page)
        /\ \A s \in Occupied(page) : /\ slot(page, s).offset \in 0 .. kPAGE_SIZE
                                     /\ slot(page, s).length \in 0 .. kPAGE_SIZE
    BY <2>1, PageTypes DEF Occupied
  <2>4. free_space_bytes(page) >= 0
    BY <2>1, <2>3, PageSize DEF free_space_bytes
  <2>5. ASSUME NEW s \in Occupied(page)
        PROVE  /\ slot(page, s).offset >= page.free_space_offset
               /\ slot(page, s).offset + slot(page, s).length <= kPAGE_SIZE
    <3>1. Lies(page, s)
      BY <2>1
    <3> QED
      BY <2>3, <3>1, PageSize DEF Lies
  <2>6. ASSUME NEW s \in Occupied(page), NEW t \in Occupied(page) \ {s}
        PROVE  SlotBytesOf(s) \cap SlotBytesOf(t) = {}
    <3>1. Apart(page, s, t)
      BY <2>1
    <3> QED
      BY <2>3, <3>1, PageSize DEF Apart, SlotBytesOf, Bytes
  <2> QED
    BY <2>2, <2>4, <2>5, <2>6 DEF TuplesApart
<1> QED
  BY <1>1, PageInvariant, PTL

(* get_tuple returns, for every slot, the bytes last put there.            *)
THEOREM SlotsAreKeptTheorem == PageSpec => []SlotsAreKept
<1>1. PInv => SlotsAreKept
  <2> SUFFICES ASSUME Sound(page, contents, SlotLimit), NEW s \in 0 .. SlotLimit - 1
               PROVE  get_tuple(page, s) = IF contents[s] = NoTuple THEN <<>>
                                           ELSE [i \in 1 .. contents[s].size |-> contents[s].value]
    BY DEF PInv, SlotsAreKept
  <2>1. Shows(page, s, contents[s]) /\ page \in PageType /\ contents[s] \in Tuple \cup {NoTuple}
    BY DEF Sound
  <2>2. CASE contents[s] = NoTuple
    BY <2>1, <2>2 DEF Shows, get_tuple
  <2>3. CASE contents[s] # NoTuple
    <3> DEFINE o == slot(page, s).offset
               u == contents[s]
    <3>1. /\ has_slot(page, s) /\ slot(page, s).length = u.size
          /\ \A b \in o .. o + u.size - 1 : page.data[b] = u.value
      BY <2>1, <2>3 DEF Shows
    <3>2. u \in Tuple /\ u.size \in Nat
      BY <2>1, <2>3, TupleTypes
    <3>3. o \in Nat
      BY <2>1, <3>1, PageTypes, PageSize DEF Occupied
    <3> HIDE DEF o, u
    <3>4. ASSUME NEW i \in 1 .. u.size PROVE page.data[o + i - 1] = u.value
      <4>1. o + i - 1 \in o .. o + u.size - 1
        BY <3>2, <3>3
      <4> QED
        BY <3>1, <4>1
    <3>5. get_tuple(page, s) = [i \in 1 .. u.size |-> page.data[o + i - 1]]
      BY <3>1 DEF get_tuple, o
    <3> QED
      BY <2>3, <3>4, <3>5 DEF u
  <2> QED
    BY <2>2, <2>3
<1> QED
  BY <1>1, PageInvariant, PTL

(* compact leaves no hole behind the free space, whatever was deleted,     *)
(* shrunk and compacted before.                                            *)
THEOREM CompactReclaimsTheorem == PageSpec => CompactReclaims
<1>1. PInv /\ [PageNext]_pageVars => [CompactPage => Wasted(page') = {}]_pageVars
  BY CompactKeeps, UseAssumption DEF PInv, CompactPage
<1> QED
  BY <1>1, PageInvariant, PTL DEF PageSpec, CompactReclaims
=============================================================================
