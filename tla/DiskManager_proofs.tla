------------------------- MODULE DiskManager_proofs -------------------------
(***************************************************************************)
(* Theorems about DiskManager, for any number of threads, any limit of the *)
(* free list and any size of the file.                                     *)
(***************************************************************************)
EXTENDS DiskManager, SequenceTheorems, TLAPS

(* FreePagesAreFree, whether the DiskManager runs or not. *)
Allocator ==
  /\ \A i, j \in 1 .. Len(free_list) : free_list[i] = free_list[j] => i = j
  /\ \A i \in 1 .. Len(free_list) :
       free_list[i] \notin owned /\ free_list[i] # 0 /\ free_list[i] < capacity
  /\ \A p \in owned : p # 0 /\ p < capacity
  /\ capacity > 0

(* Between an orderly end and the next start the file says what the       *)
(* allocator knew, and a file of less than a page holds no owned page.     *)
FileAgrees ==
  /\ ~status = "open" => /\ disk_header = [capacity |-> capacity, free_list |-> free_list]
                 /\ owned \subseteq written
  /\ written \subseteq owned
  /\ \A p \in written : p < file_pages

DInv == TypeOK /\ Allocator /\ FileAgrees

(* What a list gains and loses at its end. *)
LEMMA FrontList ==
  ASSUME NEW s \in Seq(Nat), s # <<>>
  PROVE  /\ Front(s) \in Seq(Nat)
         /\ Len(Front(s)) = Len(s) - 1
         /\ \A i \in 1 .. Len(Front(s)) : Front(s)[i] = s[i]
         /\ Len(s) \in 1 .. Len(s)
         /\ Last(s) \in Nat
<1>1. Len(s) \in Nat /\ Len(s) # 0
  OBVIOUS
<1>2. Len(s) \in 1 .. Len(s)
  BY <1>1
<1>3. Last(s) \in Nat
  BY <1>2 DEF Last
<1>4. \A i \in 1 .. Len(s) - 1 : s[i] \in Nat
  BY <1>1
<1>5. /\ Front(s) \in Seq(Nat)
      /\ Len(Front(s)) = Len(s) - 1
      /\ \A i \in 1 .. Len(Front(s)) : Front(s)[i] = s[i]
  <2> DEFINE n == Len(s) - 1
  <2>1. n \in Int /\ n \in Nat
    BY <1>1
  <2>2. /\ SubSeq(s, 1, n) \in Seq(Nat)
        /\ Len(SubSeq(s, 1, n)) = IF 1 <= n THEN n - 1 + 1 ELSE 0
        /\ \A i \in 1 .. n - 1 + 1 : SubSeq(s, 1, n)[i] = s[1 + i - 1]
    BY <1>4, <2>1, SubSeqProperties
  <2> HIDE DEF n
  <2>3. n - 1 + 1 = n /\ Len(SubSeq(s, 1, n)) = n
    BY <2>1, <2>2
  <2>4. \A i \in 1 .. n : SubSeq(s, 1, n)[i] = s[i]
    BY <2>1, <2>2, <2>3
  <2>5. Front(s) = SubSeq(s, 1, n)
    BY DEF Front, n
  <2> QED
    BY <2>2, <2>3, <2>4, <2>5 DEF n
<1> QED
  BY <1>1, <1>2, <1>3, <1>5

LEMMA AppendedList ==
  ASSUME NEW s \in Seq(Nat), NEW p \in Nat
  PROVE  /\ Append(s, p) \in Seq(Nat)
         /\ Len(Append(s, p)) = Len(s) + 1
         /\ \A i \in 1 .. Len(s) : Append(s, p)[i] = s[i]
         /\ Append(s, p)[Len(s) + 1] = p
OBVIOUS

-----------------------------------------------------------------------------
(* Type correctness, with crashes. *)
LEMMA TypeStep == TypeOK /\ [Next]_vars => TypeOK'
<1> SUFFICES ASSUME TypeOK, [Next]_vars PROVE TypeOK'
  OBVIOUS
<1> USE DEF TypeOK, PageID, DiskHeader
<1>1. CASE UNCHANGED vars
  BY <1>1 DEF vars
<1>2. ASSUME NEW t \in Thread, AllocateReuse(t) PROVE TypeOK'
  <2>1. free_list # <<>> /\ free_list' = Front(free_list) /\ capacity' = capacity
    BY <1>2 DEF AllocateReuse, reuse
  <2>2. Last(free_list) \in Nat /\ Front(free_list) \in Seq(Nat)
    BY <2>1, FrontList
  <2>3. owned' = owned \cup {Last(free_list)} /\ written' = written \ {Last(free_list)}
    BY <1>2 DEF AllocateReuse, reuse, HandOut
  <2> QED
    BY <1>2, <2>1, <2>2, <2>3 DEF AllocateReuse
<1>3. ASSUME NEW t \in Thread, AllocateFindsNone(t) \/ AllocateGrow(t) PROVE TypeOK'
  <2>1. CASE AllocateFindsNone(t)
    BY <2>1 DEF AllocateFindsNone
  <2>2. CASE AllocateGrow(t)
    BY <2>2 DEF AllocateGrow, grow, HandOut
  <2> QED
    BY <1>3, <2>1, <2>2
<1>4. ASSUME NEW t \in Thread, DeallocatePage(t) PROVE TypeOK'
  <2>1. PICK p \in owned : /\ deallocate(p) /\ owned' = owned \ {p}
                           /\ written' = written \ {p}
    BY <1>4 DEF DeallocatePage
  <2>2. Append(free_list, p) \in Seq(Nat)
    BY AppendedList
  <2> QED
    BY <1>4, <2>1, <2>2 DEF DeallocatePage, deallocate
<1>5. ASSUME NEW t \in Thread, WritePage(t) PROVE TypeOK'
  BY <1>5 DEF WritePage
<1>6. CASE Close
  BY <1>6 DEF Close, flush_all
<1>7. CASE Crash
  BY <1>7 DEF Crash
<1>8. CASE Open
  <2>1. disk_header.capacity \in Nat /\ disk_header.free_list \in Seq(Nat)
    OBVIOUS
  <2>2. CASE file_pages < 1
    <3>1. [capacity |-> 1, free_list |-> <<>>] \in DiskHeader
      OBVIOUS
    <3>2. capacity' \in Nat /\ free_list' \in Seq(Nat) /\ disk_header' \in DiskHeader
      BY <1>8, <2>2, <3>1 DEF Open, init_header
    <3> QED
      BY <1>8, <3>2 DEF Open, init_header
  <2>3. CASE ~(file_pages < 1)
    <3>1. capacity' \in Nat /\ free_list' \in Seq(Nat) /\ disk_header' \in DiskHeader
      BY <1>8, <2>1, <2>3 DEF Open, init_header
    <3> QED
      BY <1>8, <3>1 DEF Open, init_header
  <2> QED
    BY <2>2, <2>3
<1> QED
  BY <1>1, <1>2, <1>3, <1>4, <1>5, <1>6, <1>7, <1>8 DEF Next

(* Every variable keeps its type, crashes included. *)
THEOREM TypeCorrect == Spec => []TypeOK
<1>1. Init => TypeOK
  BY DEF Init, TypeOK, PageID, DiskHeader
<1> QED
  BY <1>1, TypeStep, PTL DEF Spec

-----------------------------------------------------------------------------
(* The stored list never outgrows the metadata page: deallocate_page stops *)
(* one entry above the limit, and the limit leaves room for that entry.    *)
THEOREM ListFitsPage == Spec => []FreeListFitsPage
<1> DEFINE Short(s) == Len(s) <= kFREE_LIST_LIMIT + 1
           Inv == TypeOK /\ Short(free_list) /\ Short(disk_header.free_list)
<1>1. Init => Inv
  BY LimitAssumption DEF Init, TypeOK, PageID, DiskHeader
<1>2. Inv /\ [Next]_vars => Inv'
  <2> SUFFICES ASSUME Inv, [Next]_vars
               PROVE  Short(free_list)' /\ Short(disk_header.free_list)'
    BY TypeStep
  <2> USE LimitAssumption DEF TypeOK, PageID, DiskHeader
  <2>1. CASE UNCHANGED <<free_list, disk_header>>
    BY <2>1
  <2>2. ASSUME NEW t \in Thread, AllocateReuse(t) PROVE Inv'
    <3>1. free_list # <<>> /\ free_list' = Front(free_list) /\ disk_header' = disk_header
      BY <2>2 DEF AllocateReuse, reuse
    <3> QED
      BY <3>1, FrontList, TypeStep
  <2>3. ASSUME NEW t \in Thread, DeallocatePage(t) PROVE Inv'
    <3>1. PICK p \in owned : deallocate(p)
      BY <2>3 DEF DeallocatePage
    <3>2. disk_header' = disk_header
      BY <2>3 DEF DeallocatePage
    <3> QED
      BY <3>1, <3>2, AppendedList, TypeStep DEF deallocate
  <2>4. CASE Close
    BY <2>4 DEF Close, flush_all
  <2>5. CASE Open
    BY <2>5 DEF Open, init_header
  <2> QED
    BY <2>1, <2>2, <2>3, <2>4, <2>5
       DEF Next, vars, AllocateFindsNone, AllocateGrow, grow, WritePage, Crash
<1>3. Inv => FreeListFitsPage
  BY LimitAssumption, MetadataAssumption
     DEF FreeListFitsPage, ListFits, DiskHeaderBytes, PageIdBytes, TypeOK, DiskHeader
<1> QED
  BY <1>1, <1>2, <1>3, PTL DEF Spec
-----------------------------------------------------------------------------
(* No page gets a second owner in a step that is no crash. *)
LEMMA AllocatorStep ==
  crashes = crashes' /\ DInv /\ [Next]_vars => Allocator' /\ FileAgrees'
<1> SUFFICES ASSUME crashes = crashes', DInv, [Next]_vars PROVE Allocator' /\ FileAgrees'
  OBVIOUS
<1> USE DEF DInv, Allocator, FileAgrees, TypeOK, PageID
<1>1. CASE UNCHANGED vars
  BY <1>1 DEF vars
<1>2. ASSUME NEW t \in Thread, AllocateReuse(t) PROVE Allocator' /\ FileAgrees'
  <2> DEFINE p == Last(free_list)
             n == Len(free_list)
  <2>1. /\ free_list # <<>> /\ free_list' = Front(free_list) /\ capacity' = capacity
        /\ owned' = owned \cup {p} /\ written' = written \ {p}
        /\ file_pages' = file_pages /\ status' = "open"
    BY <1>2 DEF AllocateReuse, reuse, HandOut
  <2>2. /\ n \in 1 .. n /\ Len(Front(free_list)) = n - 1
        /\ \A i \in 1 .. n - 1 : Front(free_list)[i] = free_list[i]
    BY <2>1, FrontList
  <2>3. p = free_list[n] /\ p \notin owned /\ p # 0 /\ p < capacity
    BY <2>2 DEF Last
  <2>4. \A i \in 1 .. n - 1 : i \in 1 .. n /\ i # n
    BY <2>2
  <2>5. \A i \in 1 .. n - 1 : free_list'[i] = free_list[i] /\ free_list[i] # p
    BY <2>1, <2>2, <2>3, <2>4
  <2>6. Len(free_list') = n - 1
    BY <2>1, <2>2
  <2> HIDE DEF p, n
  <2>7. \A i, j \in 1 .. n - 1 : free_list'[i] = free_list'[j] => i = j
    BY <2>4, <2>5 DEF n
  <2>8. \A i \in 1 .. n - 1 : /\ free_list'[i] \notin owned'
                              /\ free_list'[i] # 0 /\ free_list'[i] < capacity'
    BY <2>1, <2>4, <2>5 DEF n
  <2>9. \A q \in owned' : q # 0 /\ q < capacity'
    BY <2>1, <2>3
  <2>10. FileAgrees'
    BY <2>1
  <2> QED
    BY <2>1, <2>6, <2>7, <2>8, <2>9, <2>10
<1>3. ASSUME NEW t \in Thread, AllocateFindsNone(t) PROVE Allocator' /\ FileAgrees'
  BY <1>3 DEF AllocateFindsNone
<1>4. ASSUME NEW t \in Thread, AllocateGrow(t) PROVE Allocator' /\ FileAgrees'
  <2>1. /\ free_list' = free_list /\ capacity' = capacity + 1
        /\ owned' = owned \cup {capacity} /\ written' = written \ {capacity}
        /\ file_pages' = file_pages /\ status' = "open"
    BY <1>4 DEF AllocateGrow, grow, HandOut
  <2>2. \A i \in 1 .. Len(free_list) : free_list[i] \in Nat
    OBVIOUS
  <2> QED
    BY <2>1, <2>2
<1>5. ASSUME NEW t \in Thread, DeallocatePage(t) PROVE Allocator' /\ FileAgrees'
  <2>1. PICK p \in owned : /\ deallocate(p) /\ owned' = owned \ {p}
                           /\ written' = written \ {p}
    BY <1>5 DEF DeallocatePage
  <2>2. file_pages' = file_pages /\ status' = "open" /\ capacity' = capacity
    BY <1>5, <2>1 DEF DeallocatePage, deallocate
  <2>3. FileAgrees'
    BY <2>1, <2>2
  <2>4. CASE free_list' = free_list
    BY <2>1, <2>2, <2>3, <2>4
  <2>5. CASE free_list' = Append(free_list, p)
    <3> DEFINE n == Len(free_list)
    <3>1. /\ n \in Nat /\ Len(free_list') = n + 1 /\ free_list'[n + 1] = p
          /\ \A i \in 1 .. n : free_list'[i] = free_list[i]
      BY <2>5, AppendedList
    <3>2. \A i \in 1 .. n + 1 : i \in 1 .. n \/ i = n + 1
      BY <3>1
    <3>3. \A i \in 1 .. n : free_list[i] # p
      BY <2>1
    <3> HIDE DEF n
    <3>4. \A i, j \in 1 .. n + 1 : free_list'[i] = free_list'[j] => i = j
      BY <3>1, <3>2, <3>3 DEF n
    <3>5. \A i \in 1 .. n + 1 : /\ free_list'[i] \notin owned'
                                /\ free_list'[i] # 0 /\ free_list'[i] < capacity'
      BY <2>1, <2>2, <3>1, <3>2 DEF n
    <3> QED
      BY <2>1, <2>2, <2>3, <3>1, <3>4, <3>5
  <2> QED
    BY <2>1, <2>4, <2>5 DEF deallocate
<1>6. ASSUME NEW t \in Thread, WritePage(t) PROVE Allocator' /\ FileAgrees'
  <2>1. PICK p \in owned : /\ written' = written \cup {p}
                           /\ file_pages' = IF p < file_pages THEN file_pages ELSE p + 1
    BY <1>6 DEF WritePage
  <2>2. /\ capacity' = capacity /\ free_list' = free_list /\ owned' = owned
        /\ disk_header' = disk_header /\ status = "open" /\ status' = "open"
    BY <1>6 DEF WritePage
  <2>3. Allocator'
    BY <2>2
  <2>4. FileAgrees'
    BY <2>1, <2>2
  <2> QED
    BY <2>3, <2>4
<1>7. CASE Close
  BY <1>7 DEF Close, flush_all
<1>8. CASE Crash
  BY <1>8 DEF Crash
<1>9. CASE Open
  <2>1. CASE file_pages < 1
    <3>1. owned = {} /\ written = {}
      BY <1>9, <2>1 DEF Open, init_header
    <3> QED
      BY <1>9, <2>1, <3>1 DEF Open, init_header
  <2>2. CASE ~(file_pages < 1)
    <3>1. capacity' = capacity /\ free_list' = free_list
      BY <1>9, <2>2 DEF Open, init_header
    <3> QED
      BY <1>9, <3>1 DEF Open, init_header
  <2> QED
    BY <2>1, <2>2
<1> QED
  BY <1>1, <1>2, <1>3, <1>4, <1>5, <1>6, <1>7, <1>8, <1>9 DEF Next

(* Nobody takes a crash back. *)
LEMMA CrashesCount ==
  ASSUME TypeOK, [Next]_vars, crashes' = 0
  PROVE  crashes = 0
BY DEF TypeOK, Next, vars, AllocateReuse, AllocateFindsNone, AllocateGrow,
       DeallocatePage, WritePage, Close, Crash, Open

(* The invariant up to the first crash, for the two theorems below.         *)
LEMMA UpToACrash == Spec => [](TypeOK /\ (crashes = 0 => DInv))
<1> DEFINE Inv == TypeOK /\ (crashes = 0 => DInv)
<1>1. Init => Inv
  BY DEF Init, DInv, Allocator, FileAgrees, TypeOK, PageID, DiskHeader
<1>2. Inv /\ [Next]_vars => Inv'
  <2> SUFFICES ASSUME Inv, [Next]_vars, crashes' = 0 PROVE DInv'
    BY TypeStep
  <2>1. crashes = 0
    BY CrashesCount
  <2> QED
    BY <2>1, AllocatorStep, TypeStep DEF DInv
<1> QED
  BY <1>1, <1>2, PTL DEF Spec

(* allocate_page never returns a page that has an owner, over any number   *)
(* of orderly restarts, until the process crashes.                         *)
THEOREM NoDoubleOwner == Spec => []FreePagesAreFree
<1> DEFINE Inv == TypeOK /\ (crashes = 0 => DInv)
<1>1. Inv => FreePagesAreFree
  <2> SUFFICES ASSUME DInv PROVE FreePagesAreFree
    BY DEF FreePagesAreFree
  <2>1. \A p \in ToSet(free_list) : p \notin owned /\ p # 0 /\ p < capacity
    BY DEF DInv, Allocator, TypeOK, ToSet
  <2> QED
    BY <2>1 DEF DInv, Allocator, FreePagesAreFree, kDISK_METADATA_PAGE_ID
<1> QED
  BY <1>1, UpToACrash, PTL DEF Spec

-----------------------------------------------------------------------------
(* A page id that some step loses, when there was no crash, was dropped    *)
(* because the list was over its limit.                                    *)
LEMMA LostStep ==
  ASSUME DInv, [Next]_vars, crashes' = 0
  PROVE  Lost' \subseteq Lost \/ Len(free_list) > kFREE_LIST_LIMIT
<1> SUFFICES ASSUME ~(Len(free_list) > kFREE_LIST_LIMIT), NEW q \in Lost', q \notin Lost
             PROVE  FALSE
  OBVIOUS
<1> USE DEF PageID
<1>0. crashes = 0 /\ TypeOK /\ capacity \in Nat /\ free_list \in Seq(Nat)
  BY CrashesCount DEF DInv, TypeOK
<1>1. q \in 1 .. capacity' - 1 /\ q \notin owned' /\ q \notin ToSet(free_list')
  BY DEF Lost
<1>2. q \in 1 .. capacity - 1 => q \in owned \/ q \in ToSet(free_list)
  BY DEF Lost
<1>3. ASSUME capacity' = capacity, owned \subseteq owned',
             \A p \in ToSet(free_list) : p \in ToSet(free_list') \/ p \in owned'
      PROVE  FALSE
  BY <1>1, <1>2, <1>3
<1>4. CASE UNCHANGED vars
  BY <1>3, <1>4 DEF vars
<1>5. ASSUME NEW t \in Thread, AllocateReuse(t) PROVE FALSE
  <2> PICK n, new : n = Len(free_list) /\ new = free_list'
    OBVIOUS
  <2>1. /\ free_list # <<>> /\ new = Front(free_list) /\ capacity' = capacity
        /\ owned' = owned \cup {Last(free_list)}
    BY <1>5 DEF AllocateReuse, reuse, HandOut
  <2>2. /\ n \in Nat /\ new \in Seq(Nat) /\ Len(new) = n - 1 /\ n \in 1 .. n
        /\ \A i \in 1 .. n - 1 : new[i] = free_list[i]
    <3>1. /\ Front(free_list) \in Seq(Nat) /\ Len(Front(free_list)) = n - 1
          /\ \A i \in 1 .. Len(Front(free_list)) : Front(free_list)[i] = free_list[i]
          /\ n \in 1 .. n
      BY <1>0, <2>1, FrontList
    <3>2. n \in Nat
      BY <1>0
    <3> QED
      BY <2>1, <3>1, <3>2
  <2>3. ASSUME NEW i \in 1 .. n PROVE free_list[i] \in ToSet(new) \/ free_list[i] \in owned'
    <3>1. CASE i = n
      BY <2>1, <3>1 DEF Last
    <3>2. CASE i # n
      <4>1. i \in 1 .. n - 1 /\ DOMAIN new = 1 .. n - 1
        BY <2>2, <3>2
      <4> QED
        BY <2>2, <4>1 DEF ToSet
    <3> QED
      BY <3>1, <3>2
  <2>4. \A p \in ToSet(free_list) : p \in ToSet(new) \/ p \in owned'
    BY <1>0, <2>3 DEF ToSet
  <2> QED
    BY <1>3, <2>1, <2>4
<1>6. ASSUME NEW t \in Thread, AllocateFindsNone(t) PROVE FALSE
  BY <1>3, <1>6 DEF AllocateFindsNone
<1>7. ASSUME NEW t \in Thread, AllocateGrow(t) PROVE FALSE
  <2>1. capacity' = capacity + 1 /\ free_list' = free_list /\ owned' = owned \cup {capacity}
    BY <1>7 DEF AllocateGrow, grow, HandOut
  <2> QED
    BY <1>0, <1>1, <1>2, <2>1
<1>8. ASSUME NEW t \in Thread, DeallocatePage(t) PROVE FALSE
  <2>1. PICK p \in owned : deallocate(p) /\ owned' = owned \ {p}
    BY <1>8 DEF DeallocatePage
  <2> PICK n, new : n = Len(free_list) /\ new = free_list'
    OBVIOUS
  <2>2. p \in Nat /\ new = Append(free_list, p) /\ capacity' = capacity
    BY <2>1 DEF deallocate, DInv, TypeOK
  <2>3. /\ n \in Nat /\ new \in Seq(Nat) /\ Len(new) = n + 1 /\ new[n + 1] = p
        /\ \A i \in 1 .. n : new[i] = free_list[i]
    BY <1>0, <2>2, AppendedList
  <2>4. p \in ToSet(new) /\ \A i \in 1 .. n : free_list[i] \in ToSet(new)
    <3>1. DOMAIN new = 1 .. n + 1 /\ n + 1 \in 1 .. n + 1
      BY <2>3
    <3> QED
      BY <2>3, <3>1 DEF ToSet
  <2>5. \A r \in ToSet(free_list) : r \in ToSet(new)
    BY <1>0, <2>4 DEF ToSet
  <2> QED
    BY <1>1, <1>2, <2>1, <2>2, <2>4, <2>5
<1>9. ASSUME NEW t \in Thread, WritePage(t) PROVE FALSE
  BY <1>3, <1>9 DEF WritePage
<1>10. CASE Close
  BY <1>3, <1>10 DEF Close
<1>11. CASE Crash
  BY <1>0, <1>11 DEF Crash
<1>12. CASE Open
  <2>1. CASE file_pages < 1
    BY <1>1, <1>12, <2>1 DEF Open
  <2>2. CASE ~(file_pages < 1)
    <3>1. capacity' = capacity /\ free_list' = free_list /\ owned' = owned
      BY <1>12, <2>2 DEF Open, init_header, DInv, FileAgrees
    <3> QED
      BY <1>3, <3>1
  <2> QED
    BY <2>1, <2>2
<1> QED
  BY <1>4, <1>5, <1>6, <1>7, <1>8, <1>9, <1>10, <1>11, <1>12 DEF Next

(* Neither overlapping calls of allocate_page nor an orderly restart lose  *)
(* a page id: only a crash does, and deallocate_page above the limit.      *)
THEOREM OnlyTheLimitLoses == Spec => LostOnlyAtTheLimit
<1> DEFINE Inv == TypeOK /\ (crashes = 0 => DInv)
<1>1. Inv /\ [Next]_vars =>
        [crashes' = 0 => Lost' \subseteq Lost \/ Len(free_list) > kFREE_LIST_LIMIT]_vars
  <2> SUFFICES ASSUME Inv, [Next]_vars, crashes' = 0
               PROVE  Lost' \subseteq Lost \/ Len(free_list) > kFREE_LIST_LIMIT
    OBVIOUS
  <2>1. crashes = 0
    BY CrashesCount
  <2> QED
    BY <2>1, LostStep
<1> QED
  BY <1>1, UpToACrash, PTL DEF Spec, LostOnlyAtTheLimit
=============================================================================
