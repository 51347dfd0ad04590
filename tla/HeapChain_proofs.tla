--------------------------- MODULE HeapChain_proofs ---------------------------
(***************************************************************************)
(* Theorems about HeapChain, for any threads, frames, pages and rows, when *)
(* Careful: the line of pages that the links make, and how each call that  *)
(* is on its way keeps it, the pins, the page ids and the rows.            *)
(***************************************************************************)
EXTENDS HeapChain, SlottedPage_proofs, FiniteSetTheorems

(* The pages of the heap in the order of their links: Line is true of the  *)
(* sequence that starts with the first page and names no page twice.       *)
Line(L) == L \in Seq(Page) /\ IsInjective(L) /\ Len(L) >= 1 /\ L[1] = first_page_id
Follows(L, i) == IF i < Len(L) THEN L[i + 1] ELSE INVALID_PAGE_ID
Ahead(L, p, q) == \E i, j \in 1 .. Len(L) : i < j /\ p = L[i] /\ q = L[j]

(* A call has a pin on the frame it works on, and a creator on the new one *)
(* until that is filled.                                                   *)
Working(t) == pc[t] \notin {"idle", "fetch"}
Creating(t) == pc[t] \in {"filled", "link", "drop"}
Uses(t, f) == \/ Working(t) /\ call[t].frame = f
              \/ pc[t] = "filled" /\ call[t].fresh = f
Users(f) == {t \in Thread : Uses(t, f)}

(* The page table: a page is in one frame at most.                         *)
OneHolder ==
  \A f, g \in Frame :
    frames[f].page_id = frames[g].page_id /\ frames[f].page_id # INVALID_PAGE_ID => f = g
HeldPages(L) ==
  \A f \in Frame :
    /\ frames[f].page_id \in ToSet(L) \cup InCreation \cup {INVALID_PAGE_ID}
    /\ frames[f].page_id = INVALID_PAGE_ID => ~frames[f].is_dirty
PinsCounted == \A f \in Frame : frames[f].pin_count = Cardinality(Users(f))

(* A call on its way: where it is on the line, and where it goes.          *)
OnItsRow(t) ==
  call[t].op \in {"get", "update", "delete", "roll back", "restore"}
    /\ call[t].page_id # INVALID_PAGE_ID
WalkOK(L, t) ==
  /\ pc[t] = "idle" => call[t] = NoCall
  /\ pc[t] \in {"fetch", "work", "drop"} => call[t].page_id \in ToSet(L)
  /\ call[t].page_id \in ToSet(L) \cup {INVALID_PAGE_ID}
  /\ Working(t) => /\ call[t].frame \in Frame
                   /\ frames[call[t].frame].page_id \in ToSet(L)
  /\ pc[t] = "work" => frames[call[t].frame].page_id = call[t].page_id
  /\ pc[t] # "unpin" => ~call[t].dirty
  /\ pc[t] \in {"extend", "filled", "link", "drop"} => call[t].op = "insert"
  /\ pc[t] \in {"extend", "filled", "link"} => call[t].page_id = INVALID_PAGE_ID
  /\ /\ pc[t] \in {"unpin", "drop"} /\ call[t].op \in {"insert", "scan"}
     /\ call[t].page_id # INVALID_PAGE_ID /\ ~Starts(t)
     => Ahead(L, frames[call[t].frame].page_id, call[t].page_id)
RowOK(t) ==
  /\ call[t].op \in {"insert", "update"} => call[t].tuple \in Tuple
  /\ OnItsRow(t) => call[t].rid \in RIDs /\ call[t].page_id = call[t].rid.page_id
  /\ OnItsRow(t) /\ call[t].op = "restore" =>
       call[t].tuple \in Tuple /\ call[t].rid \notin DOMAIN rows
CreatorOK(L, t) ==
  Creating(t) =>
    /\ call[t].fresh \in Frame
    /\ frames[call[t].fresh].page_id \in Page \ ToSet(L)
    /\ frames[call[t].fresh].page = init
    /\ pc[t] # "filled" => frames[call[t].fresh].is_dirty
    /\ \A u \in Thread \ {t} : Creating(u) => call[u].fresh # call[t].fresh

(* What a page shows: the rows callers have put there, or, for a row that  *)
(* was restored and lost, nothing.                                         *)
Expected(rid, r) == IF rid \in DOMAIN r THEN r[rid] ELSE NoTuple
Fits(rid, u, r, w) == u = Expected(rid, r) \/ (u = NoTuple /\ rid \in w)
Keeps(L, i, p, r, w) ==
  /\ GoodPage(p) /\ p.next_page_id = Follows(L, i)
  /\ \A s \in Nat : Fits(Rid(L[i], s), RowOf(p, s), r, w)

(* The file is behind a frame that is dirty, or will be when a call that   *)
(* has changed its page unpins it.                                         *)
Pending(t, f) == pc[t] = "unpin" /\ call[t].dirty /\ call[t].frame = f
Behind(f) == frames[f].is_dirty \/ \E t \in Thread : Pending(t, f)
PageKept(L, i) ==
  /\ \A f \in Frame : frames[f].page_id = L[i] => Keeps(L, i, frames[f].page, rows, unsaved)
  /\ (\A f \in Frame : frames[f].page_id = L[i] => ~Behind(f))
       => Keeps(L, i, disk[L[i]], rows, unsaved)

(* Each id is on the line, on the free list, being created, or lost.       *)
Places(L) ==
  /\ ToSet(L) \cup ToSet(free_list) \cup InCreation \cup lost = 1 .. capacity - 1
  /\ ToSet(L) \cap (ToSet(free_list) \cup InCreation \cup lost) = {}
  /\ ToSet(free_list) \cap (InCreation \cup lost) = {}
  /\ InCreation \cap lost = {}
  /\ IsInjective(free_list)

(* Row locks, and no rollback beside calls that put rows.                  *)
Locks ==
  /\ \A t, u \in Thread :
       t # u /\ call[t].rid = call[u].rid /\ call[t].rid \in RIDs => call[t].op = "get"
  /\ ~(Inserting /\ RollingBack)
RowPages(L) == \A rid \in DOMAIN rows : rid.page_id \in ToSet(L)

ChainInv(L) ==
  /\ TypeOK /\ Line(L)
  /\ OneHolder /\ HeldPages(L) /\ PinsCounted
  /\ \A t \in Thread : WalkOK(L, t) /\ RowOK(t) /\ CreatorOK(L, t)
  /\ \A i \in 1 .. Len(L) : PageKept(L, i)
  /\ Places(L) /\ Locks /\ RowPages(L)

-----------------------------------------------------------------------------
(* A new element at the end.                                               *)
LEMMA AppendedProperties ==
  ASSUME NEW S, NEW s \in Seq(S), IsInjective(s), NEW e \in S, e \notin ToSet(s)
  PROVE  /\ Append(s, e) \in Seq(S)
         /\ IsInjective(Append(s, e))
         /\ ToSet(Append(s, e)) = ToSet(s) \cup {e}
<1> DEFINE r == Append(s, e)
<1>1. /\ r \in Seq(S) /\ Len(r) = Len(s) + 1
      /\ \A j \in 1 .. Len(s) : r[j] = s[j]
      /\ r[Len(s) + 1] = e
  BY AppendProperties
<1>2. /\ Len(s) \in Nat /\ DOMAIN s = 1 .. Len(s) /\ DOMAIN r = 1 .. Len(s) + 1
  BY <1>1, LenProperties
<1> HIDE DEF r
<1>3. \A j \in 1 .. Len(s) : s[j] # e
  BY <1>2 DEF ToSet
<1>4. IsInjective(r)
  <2> SUFFICES ASSUME NEW a \in 1 .. Len(s) + 1, NEW b \in 1 .. Len(s) + 1, r[a] = r[b]
               PROVE  a = b
    BY <1>2 DEF IsInjective
  <2>1. \A x, y \in 1 .. Len(s) : s[x] = s[y] => x = y
    BY <1>2 DEF IsInjective
  <2>2. CASE a \in 1 .. Len(s) /\ b \in 1 .. Len(s)
    BY <1>1, <2>1, <2>2
  <2>3. CASE a = Len(s) + 1 /\ b \in 1 .. Len(s)
    BY <1>1, <1>3, <2>3
  <2>4. CASE a \in 1 .. Len(s) /\ b = Len(s) + 1
    BY <1>1, <1>3, <2>4
  <2> QED
    BY <1>2, <2>2, <2>3, <2>4
<1>5. ToSet(r) = ToSet(s) \cup {e}
  <2>1. ASSUME NEW j \in 1 .. Len(s) + 1 PROVE r[j] \in ToSet(s) \cup {e}
    <3>1. CASE j \in 1 .. Len(s)
      BY <1>1, <1>2, <3>1 DEF ToSet
    <3> QED
      BY <1>1, <1>2, <3>1
  <2>2. ASSUME NEW j \in 1 .. Len(s) PROVE s[j] \in ToSet(r)
    <3>1. j \in 1 .. Len(s) + 1 /\ r[j] = s[j]
      BY <1>1, <1>2
    <3> QED
      BY <1>2, <3>1 DEF ToSet
  <2>3. e \in ToSet(r)
    <3>1. Len(s) + 1 \in 1 .. Len(s) + 1
      BY <1>2
    <3> QED
      BY <1>1, <1>2, <3>1 DEF ToSet
  <2> QED
    BY <1>2, <2>1, <2>2, <2>3 DEF ToSet
<1> QED
  BY <1>1, <1>4, <1>5 DEF r

(* An element is taken from the end.                                       *)
LEMMA FrontProperties ==
  ASSUME NEW S, NEW s \in Seq(S), s # <<>>
  PROVE  /\ Front(s) \in Seq(S)
         /\ Last(s) \in S /\ Last(s) \in ToSet(s)
         /\ IsInjective(s) => /\ IsInjective(Front(s))
                              /\ ToSet(Front(s)) = ToSet(s) \ {Last(s)}
<1> DEFINE n == Len(s) - 1
           r == Front(s)
<1>1. n \in Nat /\ Len(s) \in 1 .. Len(s) /\ DOMAIN s = 1 .. n + 1 /\ Len(s) = n + 1
  BY EmptySeq, LenProperties
<1>2. Last(s) \in S /\ Last(s) \in ToSet(s) /\ Last(s) = s[n + 1]
  BY <1>1, ElementOfSeq DEF Last, ToSet
<1>3. r \in Seq(S) /\ DOMAIN r = 1 .. n /\ \A j \in 1 .. n : r[j] = s[j]
  <2>1. \A j \in 1 .. n : s[j] \in S
    BY <1>1, ElementOfSeq
  <2>2. /\ SubSeq(s, 1, n) \in Seq(S)
        /\ Len(SubSeq(s, 1, n)) = IF 1 <= n THEN n - 1 + 1 ELSE 0
        /\ \A j \in 1 .. n - 1 + 1 : SubSeq(s, 1, n)[j] = s[1 + j - 1]
    BY <1>1, <2>1, SubSeqProperties
  <2>3. r = SubSeq(s, 1, n)
    BY DEF Front
  <2> HIDE DEF n, r
  <2>4. n - 1 + 1 = n /\ Len(r) = n
    BY <1>1, <2>2, <2>3
  <2>5. DOMAIN r = 1 .. n
    BY <2>2, <2>3, <2>4, LenProperties
  <2> QED
    BY <1>1, <2>2, <2>3, <2>4, <2>5
<1> HIDE DEF r, n
<1>4. ASSUME IsInjective(s) PROVE IsInjective(r) /\ ToSet(r) = ToSet(s) \ {Last(s)}
  <2>1. \A x, y \in 1 .. n + 1 : s[x] = s[y] => x = y
    BY <1>1, <1>4 DEF IsInjective
  <2>2. IsInjective(r)
    BY <1>1, <1>3, <2>1 DEF IsInjective
  <2>3. \A j \in 1 .. n : r[j] \in ToSet(s) \ {Last(s)}
    <3> TAKE j \in 1 .. n
    <3>1. j \in 1 .. n + 1 /\ n + 1 \in 1 .. n + 1 /\ j # n + 1
      BY <1>1
    <3> QED
      BY <1>1, <1>2, <1>3, <2>1, <3>1 DEF ToSet
  <2>4. \A j \in 1 .. n + 1 : s[j] # Last(s) => s[j] \in ToSet(r)
    <3> TAKE j \in 1 .. n + 1
    <3> HAVE s[j] # Last(s)
    <3>1. j \in 1 .. n /\ r[j] = s[j]
      BY <1>1, <1>2, <1>3
    <3> QED
      BY <1>3, <3>1 DEF ToSet
  <2> QED
    BY <1>1, <1>3, <2>2, <2>3, <2>4 DEF ToSet
<1> QED
  BY <1>2, <1>3, <1>4 DEF r

-----------------------------------------------------------------------------
(* Types.                                                                  *)
FrameRec == [page_id : PageOrNot, pin_count : 0 .. kPIN_MODULUS - 1,
             is_dirty : BOOLEAN, page : HeapPage]

LEMMA ConstantTypes ==
  /\ kMAX_CAPACITY \in Nat /\ kPIN_MODULUS \in Nat /\ kPIN_MODULUS >= 1
  /\ Page \subseteq Nat /\ INVALID_PAGE_ID \notin Page /\ INVALID_PAGE_ID # 0
  /\ first_page_id \in Page /\ NoFrame \notin Frame
<1>1. /\ kMAX_CAPACITY \in Nat /\ kPIN_MODULUS \in Nat \ {0}
      /\ INVALID_PAGE_ID \notin 0 .. kMAX_CAPACITY /\ NoFrame \notin Frame
      /\ Len(Stored) \in 1 .. kMAX_CAPACITY - 1
  BY ChainAssumption
<1>2. INVALID_PAGE_ID # 0 /\ 0 \in 0 .. kMAX_CAPACITY
  BY <1>1
<1>3. INVALID_PAGE_ID \notin Page
  BY <1>1 DEF Page
<1> QED
  BY <1>1, <1>2, <1>3 DEF Page, first_page_id

LEMMA FrameTypes ==
  ASSUME TypeOK, NEW f \in Frame
  PROVE  /\ frames \in [Frame -> FrameRec]
         /\ frames[f].page_id \in PageOrNot
         /\ frames[f].pin_count \in Nat /\ frames[f].pin_count < kPIN_MODULUS
         /\ frames[f].is_dirty \in BOOLEAN
         /\ frames[f].page \in HeapPage
<1>1. frames \in [Frame -> FrameRec]
  BY DEF TypeOK, FrameRec
<1>2. frames[f] \in FrameRec
  BY <1>1
<1> QED
  BY <1>1, <1>2, ConstantTypes DEF FrameRec

(* What one assignment to a field of a frame leaves alone.                 *)
Turned(f, pg) == [frames EXCEPT ![f].page = pg]

LEMMA SetPage ==
  ASSUME TypeOK, NEW f \in Frame, NEW pg \in HeapPage, frames' = Turned(f, pg)
  PROVE  /\ frames' \in [Frame -> FrameRec]
         /\ \A h \in Frame : /\ frames'[h].page_id = frames[h].page_id
                             /\ frames'[h].pin_count = frames[h].pin_count
                             /\ frames'[h].is_dirty = frames[h].is_dirty
                             /\ frames'[h].page = IF h = f THEN pg ELSE frames[h].page
<1>1. frames \in [Frame -> FrameRec]
  BY DEF TypeOK, FrameRec
<1> QED
  BY <1>1 DEF FrameRec, Turned

LEMMA SetPin ==
  ASSUME NEW F \in [Frame -> FrameRec], NEW f \in Frame, NEW n \in 0 .. kPIN_MODULUS - 1
  PROVE  LET G == [F EXCEPT ![f].pin_count = n] IN
         /\ G \in [Frame -> FrameRec]
         /\ \A g \in Frame : /\ G[g].page_id = F[g].page_id
                             /\ G[g].pin_count = IF g = f THEN n ELSE F[g].pin_count
                             /\ G[g].is_dirty = F[g].is_dirty
                             /\ G[g].page = F[g].page
BY DEF FrameRec

LEMMA CallTypes ==
  ASSUME TypeOK, NEW t \in Thread
  PROVE  /\ pc \in [Thread -> PC] /\ call \in [Thread -> Call]
         /\ pc[t] \in PC /\ call[t] \in Call
         /\ call[t].page_id \in PageOrNot
         /\ call[t].frame \in Frame \cup {NoFrame} /\ call[t].fresh \in Frame \cup {NoFrame}
         /\ call[t].dirty \in BOOLEAN /\ call[t].created_new_page \in BOOLEAN
         /\ call[t].tuple \in Tuple \cup {NoTuple}
         /\ call[t].rid \in RIDs \cup {Rid(INVALID_PAGE_ID, 0)}
<1>1. pc \in [Thread -> PC] /\ call \in [Thread -> Call]
  BY DEF TypeOK
<1>2. pc[t] \in PC /\ call[t] \in Call
  BY <1>1
<1> QED
  BY <1>1, <1>2 DEF Call

LEMMA NoCallIs ==
  /\ NoCall \in Call /\ NoCall.op = "none" /\ NoCall.page_id = INVALID_PAGE_ID
  /\ ~NoCall.dirty /\ NoCall.rid \notin RIDs
BY ConstantTypes DEF NoCall, Call, PageOrNot, RIDs, Rid

(* A step of thread t.                                                     *)
Others(t) == \A u \in Thread \ {t} : pc'[u] = pc[u] /\ call'[u] = call[u]

LEMMA StepIs ==
  ASSUME TypeOK, NEW t \in Thread, NEW label \in PC, NEW c \in Call,
         pc' = [pc EXCEPT ![t] = label], call' = [call EXCEPT ![t] = c]
  PROVE  /\ pc' \in [Thread -> PC] /\ call' \in [Thread -> Call]
         /\ pc'[t] = label /\ call'[t] = c /\ Others(t)
<1>1. pc \in [Thread -> PC] /\ call \in [Thread -> Call]
  BY DEF TypeOK
<1> QED
  BY <1>1 DEF Others

-----------------------------------------------------------------------------
(* Pins.                                                                   *)
FewThreads == IsFiniteSet(Thread) /\ Cardinality(Thread) < kPIN_MODULUS

LEMMA UsersAre ==
  ASSUME FewThreads, NEW f
  PROVE  /\ IsFiniteSet(Users(f)) /\ Cardinality(Users(f)) \in Nat
         /\ Cardinality(Users(f)) < kPIN_MODULUS
<1>1. Users(f) \in SUBSET Thread
  BY DEF Users
<1>2. IsFiniteSet(Users(f)) /\ Cardinality(Users(f)) <= Cardinality(Thread)
  BY <1>1, FS_Subset DEF FewThreads
<1>3. Cardinality(Users(f)) \in Nat /\ Cardinality(Thread) \in Nat
  BY <1>2, FS_CardinalityType DEF FewThreads
<1> QED
  BY <1>2, <1>3, ConstantTypes DEF FewThreads

LEMMA NoUsers ==
  ASSUME FewThreads, PinsCounted, NEW f \in Frame
  PROVE  /\ frames[f].pin_count = 0 <=> Users(f) = {}
         /\ frames[f].pin_count > 0 <=> Users(f) # {}
<1>1. IsFiniteSet(Users(f)) /\ Cardinality(Users(f)) \in Nat
  BY UsersAre
<1>2. Cardinality(Users(f)) = 0 <=> Users(f) = {}
  BY <1>1, FS_EmptySet
<1> QED
  BY <1>1, <1>2 DEF PinsCounted

LEMMA PinsStep ==
  ASSUME FewThreads, TypeOK, PinsCounted, NEW t \in Thread, Others(t),
         \A f \in Frame :
           \/ frames'[f].pin_count = frames[f].pin_count /\ (Uses(t, f)' <=> Uses(t, f))
           \/ /\ frames'[f].pin_count = (frames[f].pin_count + 1) % kPIN_MODULUS
              /\ ~Uses(t, f) /\ Uses(t, f)'
           \/ /\ frames'[f].pin_count = (frames[f].pin_count + kPIN_MODULUS - 1) % kPIN_MODULUS
              /\ Uses(t, f) /\ ~Uses(t, f)'
           \/ frames'[f].pin_count = 1 /\ Users(f) = {} /\ Uses(t, f)'
           \/ frames'[f].pin_count = 0 /\ Users(f) = {} /\ ~Uses(t, f)'
  PROVE  PinsCounted'
<1> SUFFICES ASSUME NEW f \in Frame
             PROVE  frames'[f].pin_count = Cardinality(Users(f)')
  BY DEF PinsCounted
<1>1. \A u \in Thread \ {t} : Uses(u, f)' <=> Uses(u, f)
  BY DEF Others, Uses, Working
<1>2. /\ IsFiniteSet(Users(f)) /\ Cardinality(Users(f)) \in Nat
      /\ frames[f].pin_count = Cardinality(Users(f))
      /\ Cardinality(Thread) \in Nat /\ Cardinality(Thread) < kPIN_MODULUS
      /\ kPIN_MODULUS \in Nat /\ IsFiniteSet(Thread)
  BY UsersAre, ConstantTypes, FS_CardinalityType DEF PinsCounted, FewThreads
<1>3. CASE frames'[f].pin_count = frames[f].pin_count /\ (Uses(t, f)' <=> Uses(t, f))
  <2>1. Users(f)' = Users(f)
    BY <1>1, <1>3 DEF Users
  <2> QED
    BY <1>2, <1>3, <2>1
<1>4. CASE /\ frames'[f].pin_count = (frames[f].pin_count + 1) % kPIN_MODULUS
           /\ ~Uses(t, f) /\ Uses(t, f)'
  <2>1. Users(f)' = Users(f) \cup {t} /\ t \notin Users(f)
    BY <1>1, <1>4 DEF Users
  <2>2. Cardinality(Users(f)') = Cardinality(Users(f)) + 1
    BY <1>2, <2>1, FS_AddElement
  <2>3. Users(f)' \in SUBSET Thread
    BY DEF Users
  <2>4. Cardinality(Users(f)') <= Cardinality(Thread)
    BY <1>2, <2>3, FS_Subset
  <2>5. (frames[f].pin_count + 1) % kPIN_MODULUS = frames[f].pin_count + 1
    BY <1>2, <2>2, <2>4
  <2> QED
    BY <1>2, <1>4, <2>2, <2>5
<1>5. CASE /\ frames'[f].pin_count = (frames[f].pin_count + kPIN_MODULUS - 1) % kPIN_MODULUS
           /\ Uses(t, f) /\ ~Uses(t, f)'
  <2>1. Users(f)' = Users(f) \ {t} /\ t \in Users(f)
    BY <1>1, <1>5 DEF Users
  <2>2. Cardinality(Users(f)') = Cardinality(Users(f)) - 1
    BY <1>2, <2>1, FS_RemoveElement
  <2>3. Users(f) # {} /\ Cardinality(Users(f)) # 0
    BY <1>2, <2>1, FS_EmptySet
  <2>4. frames[f].pin_count \in 1 .. kPIN_MODULUS - 1
    BY <1>2, <2>3, UsersAre
  <2>5. (frames[f].pin_count + kPIN_MODULUS - 1) % kPIN_MODULUS = frames[f].pin_count - 1
    <3> DEFINE n == frames[f].pin_count
               m == kPIN_MODULUS
    <3>1. n \in 1 .. m - 1 /\ m \in Nat
      BY <1>2, <2>4
    <3> HIDE DEF n, m
    <3>2. (n + m - 1) % m = n - 1
      BY <3>1
    <3> QED
      BY <3>2 DEF n, m
  <2> QED
    BY <1>2, <1>5, <2>2, <2>5
<1>6. CASE frames'[f].pin_count = 1 /\ Users(f) = {} /\ Uses(t, f)'
  <2>1. Users(f)' = {} \cup {t}
    BY <1>1, <1>6 DEF Users
  <2>2. Cardinality({} \cup {t}) = 0 + 1
    BY FS_AddElement, FS_EmptySet
  <2> QED
    BY <1>6, <2>1, <2>2
<1>7. CASE frames'[f].pin_count = 0 /\ Users(f) = {} /\ ~Uses(t, f)'
  <2>1. Users(f)' = {}
    BY <1>1, <1>7 DEF Users
  <2> QED
    BY <1>7, <2>1, FS_EmptySet
<1> QED
  BY <1>3, <1>4, <1>5, <1>6, <1>7

-----------------------------------------------------------------------------
(* What a step of one thread leaves true of the others.                    *)
LEMMA WalkOthers ==
  ASSUME NEW L, NEW M, NEW t \in Thread, NEW u \in Thread \ {t}, Others(t), WalkOK(L, u),
         ToSet(L) \subseteq ToSet(M), \A p, q : Ahead(L, p, q) => Ahead(M, p, q),
         Working(u) => frames'[call[u].frame].page_id = frames[call[u].frame].page_id
  PROVE  WalkOK(M, u)'
<1>1. pc'[u] = pc[u] /\ call'[u] = call[u]
  BY DEF Others
<1> QED
  BY <1>1 DEF WalkOK, Working, Starts

LEMMA RowOthers ==
  ASSUME NEW t \in Thread, NEW u \in Thread \ {t}, Others(t), RowOK(u),
         OnItsRow(u) /\ call[u].op = "restore" => call[u].rid \notin DOMAIN rows'
  PROVE  RowOK(u)'
<1>1. call'[u] = call[u]
  BY DEF Others
<1> QED
  BY <1>1 DEF RowOK, OnItsRow

LEMMA CreatorOthers ==
  ASSUME NEW L, NEW M, NEW t \in Thread, NEW u \in Thread \ {t}, Others(t), CreatorOK(L, u),
         Creating(u) =>
           /\ frames'[call[u].fresh].page_id = frames[call[u].fresh].page_id
           /\ frames'[call[u].fresh].page = frames[call[u].fresh].page
           /\ frames[call[u].fresh].is_dirty => frames'[call[u].fresh].is_dirty
           /\ frames[call[u].fresh].page_id \notin ToSet(M)
           /\ Creating(t)' => call'[t].fresh # call[u].fresh
  PROVE  CreatorOK(M, u)'
<1>1. pc'[u] = pc[u] /\ call'[u] = call[u]
  BY DEF Others
<1>2. SUFFICES ASSUME Creating(u) PROVE CreatorOK(M, u)'
  BY <1>1 DEF CreatorOK, Creating
<1>3. ASSUME NEW w \in Thread \ {u}, Creating(w)' PROVE call'[w].fresh # call'[u].fresh
  <2>1. CASE w = t
    BY <1>1, <1>2, <1>3, <2>1
  <2>2. CASE w # t
    <3>1. Creating(w) /\ call'[w] = call[w]
      BY <1>3, <2>2 DEF Others, Creating
    <3> QED
      BY <1>1, <1>2, <3>1 DEF CreatorOK
  <2> QED
    BY <2>1, <2>2
<1> QED
  BY <1>1, <1>2, <1>3 DEF CreatorOK, Creating

LEMMA LocksKept ==
  ASSUME Locks, NEW t \in Thread, Others(t),
         call'[t].rid \in RIDs => /\ call'[t].rid = call[t].rid
                                  /\ call[t].op = "get" => call'[t].op = "get",
         call'[t].op \in {"insert", "update"} => call[t].op \in {"insert", "update"},
         call'[t].op \in {"roll back", "restore"} => call[t].op \in {"roll back", "restore"}
  PROVE  Locks'
<1>1. \A u \in Thread \ {t} : call'[u] = call[u]
  BY DEF Others
<1>2. ASSUME NEW v \in Thread, NEW u \in Thread, v # u, call'[v].rid = call'[u].rid,
             call'[v].rid \in RIDs
      PROVE  call'[v].op = "get"
  <2>1. \A w \in {u, v} : call'[w].rid = call[w].rid /\ (call[w].op = "get" => call'[w].op = "get")
    BY <1>1, <1>2
  <2>2. call[v].op = "get"
    BY <1>2, <2>1 DEF Locks
  <2> QED
    BY <2>1, <2>2
<1>3. (Inserting' => Inserting) /\ (RollingBack' => RollingBack)
  BY <1>1 DEF Inserting, RollingBack
<1> QED
  BY <1>2, <1>3 DEF Locks

(* A step after which every frame holds the page it held, and the same     *)
(* pages are being created.                                                *)
Quiet(t) ==
  /\ \A f \in Frame :
       /\ frames'[f].page_id = frames[f].page_id
       /\ frames[f].is_dirty => frames'[f].is_dirty
       /\ frames'[f].is_dirty => frames[f].is_dirty \/ frames[f].page_id # INVALID_PAGE_ID
  /\ \A u \in Thread \ {t} :
       Creating(u) => frames'[call[u].fresh].page = frames[call[u].fresh].page
  /\ Creating(t)' <=> Creating(t)
  /\ Creating(t) => call'[t].fresh = call[t].fresh

LEMMA QuietStep ==
  ASSUME NEW L, ChainInv(L), NEW t \in Thread, Others(t), Quiet(t)
  PROVE  /\ OneHolder' /\ HeldPages(L)' /\ InCreation' = InCreation
         /\ \A u \in Thread \ {t} : WalkOK(L, u)' /\ CreatorOK(L, u)'
<1>1. /\ \A f \in Frame : frames'[f].page_id = frames[f].page_id
      /\ \A u \in Thread : WalkOK(L, u) /\ CreatorOK(L, u)
  BY DEF Quiet, ChainInv
<1>2. OneHolder'
  BY <1>1 DEF OneHolder, ChainInv
<1>3. \A u \in Thread : /\ Creating(u)' <=> Creating(u)
                        /\ Creating(u) => call'[u].fresh = call[u].fresh /\ call[u].fresh \in Frame
  BY <1>1 DEF Others, Quiet, Creating, CreatorOK
<1>4. InCreation = {frames[call[u].fresh].page_id : u \in {w \in Thread : Creating(w)}}
  BY DEF InCreation, Creating
<1>5. InCreation' = {frames'[call'[u].fresh].page_id : u \in {w \in Thread : Creating(w)'}}
  BY DEF InCreation, Creating
<1>6. InCreation' = InCreation
  BY <1>1, <1>3, <1>4, <1>5
<1>7. HeldPages(L)'
  BY <1>1, <1>6 DEF HeldPages, ChainInv, Quiet
<1>8. ASSUME NEW u \in Thread \ {t} PROVE WalkOK(L, u)' /\ CreatorOK(L, u)'
  <2>1. WalkOK(L, u) /\ CreatorOK(L, u)
    BY <1>1
  <2>2. Working(u) => frames'[call[u].frame].page_id = frames[call[u].frame].page_id
    BY <1>1, <2>1 DEF WalkOK
  <2>3. WalkOK(L, u)'
    BY <2>1, <2>2, WalkOthers
  <2>4. Creating(u) =>
           /\ frames'[call[u].fresh].page_id = frames[call[u].fresh].page_id
           /\ frames'[call[u].fresh].page = frames[call[u].fresh].page
           /\ frames[call[u].fresh].is_dirty => frames'[call[u].fresh].is_dirty
           /\ frames[call[u].fresh].page_id \notin ToSet(L)
           /\ Creating(t)' => call'[t].fresh # call[u].fresh
    <3> SUFFICES ASSUME Creating(u)
                 PROVE  /\ frames'[call[u].fresh].page_id = frames[call[u].fresh].page_id
                        /\ frames'[call[u].fresh].page = frames[call[u].fresh].page
                        /\ frames[call[u].fresh].is_dirty => frames'[call[u].fresh].is_dirty
                        /\ frames[call[u].fresh].page_id \notin ToSet(L)
                        /\ Creating(t)' => call'[t].fresh # call[u].fresh
      OBVIOUS
    <3>1. /\ call[u].fresh \in Frame /\ frames[call[u].fresh].page_id \notin ToSet(L)
          /\ \A w \in Thread \ {u} : Creating(w) => call[w].fresh # call[u].fresh
      BY <2>1 DEF CreatorOK
    <3> QED
      BY <1>3, <3>1 DEF Quiet
  <2>5. CreatorOK(L, u)'
    BY <2>1, <2>4, CreatorOthers
  <2> QED
    BY <2>3, <2>5
<1> QED
  BY <1>2, <1>6, <1>7, <1>8

(* Such a step keeps a page that it does not change.                       *)
LEMMA PageQuiet ==
  ASSUME NEW L, NEW i, PageKept(L, i),
         \A f \in Frame : /\ frames'[f].page_id = frames[f].page_id
                          /\ frames'[f].page_id = L[i] =>
                               /\ frames'[f].page = frames[f].page
                               /\ Behind(f) => Behind(f)',
         disk'[L[i]] = disk[L[i]],
         \A s \in Nat : \A u : Fits(Rid(L[i], s), u, rows, unsaved)
                              => Fits(Rid(L[i], s), u, rows', unsaved')
  PROVE  PageKept(L, i)'
<1>1. \A p : Keeps(L, i, p, rows, unsaved) => Keeps(L, i, p, rows', unsaved')
  BY DEF Keeps
<1> QED
  BY <1>1 DEF PageKept

LEMMA PlacesKept ==
  ASSUME NEW L, Places(L), InCreation' = InCreation, UNCHANGED <<allocVars, lost>>
  PROVE  Places(L)'
BY DEF Places, allocVars

(* A quiet step that changes neither rows nor pages of the heap.           *)
LEMMA PlainStep ==
  ASSUME NEW L, ChainInv(L), NEW t \in Thread, Others(t), Quiet(t),
         UNCHANGED <<disk, rowVars>>, ~(pc[t] = "unpin" /\ call[t].dirty),
         \A f \in Frame : frames[f].page_id \in ToSet(L) => frames'[f].page = frames[f].page
  PROVE  /\ OneHolder' /\ HeldPages(L)' /\ InCreation' = InCreation
         /\ \A u \in Thread \ {t} : WalkOK(L, u)' /\ RowOK(u)' /\ CreatorOK(L, u)'
         /\ \A i \in 1 .. Len(L) : PageKept(L, i)'
         /\ RowPages(L)'
<1>1. /\ OneHolder' /\ HeldPages(L)' /\ InCreation' = InCreation
      /\ \A u \in Thread \ {t} : WalkOK(L, u)' /\ CreatorOK(L, u)'
  BY QuietStep
<1>2. rows' = rows /\ unsaved' = unsaved /\ disk' = disk
  BY DEF rowVars
<1>3. ASSUME NEW u \in Thread \ {t} PROVE RowOK(u)'
  BY <1>2, RowOthers DEF ChainInv, RowOK
<1>4. ASSUME NEW i \in 1 .. Len(L) PROVE PageKept(L, i)'
  <2>1. PageKept(L, i) /\ L[i] \in ToSet(L)
    <3>1. L \in Seq(Page) /\ DOMAIN L = 1 .. Len(L)
      BY LenProperties DEF ChainInv, Line
    <3> QED
      BY <3>1 DEF ChainInv, ToSet
  <2>2. ASSUME NEW f \in Frame, frames'[f].page_id = L[i], Behind(f) PROVE Behind(f)'
    BY <2>2 DEF Behind, Pending, Others, Quiet
  <2> QED
    BY <1>2, <2>1, <2>2, PageQuiet DEF Quiet
<1>5. RowPages(L)'
  BY <1>2 DEF RowPages, ChainInv
<1> QED
  BY <1>1, <1>3, <1>4, <1>5

-----------------------------------------------------------------------------
LEMMA OneMore ==
  ASSUME NEW m \in Nat, NEW n \in 0 .. m, n < m
  PROVE  n + 1 \in 0 .. m
OBVIOUS

(* A call begins.                                                          *)
LEMMA BeginKeeps ==
  ASSUME FewThreads, NEW L, ChainInv(L), NEW t \in Thread, NEW c \in Call, Begin(t, c),
         c.page_id \in ToSet(L), ~c.dirty,
         c.op \in {"insert", "update", "get", "delete", "roll back", "scan"},
         c.op \in {"insert", "update"} => c.tuple \in Tuple,
         c.op \notin {"insert", "scan"} => c.rid \in RIDs /\ c.page_id = c.rid.page_id,
         Locks'
  PROVE  ChainInv(L)'
<1>1. /\ pc[t] = "idle" /\ calls < MaxCalls /\ calls' = calls + 1
      /\ pc' = [pc EXCEPT ![t] = "fetch"] /\ call' = [call EXCEPT ![t] = c]
      /\ UNCHANGED <<capacity, free_list, frames, disk, rows, unsaved, lost>>
  BY DEF Begin, Goto, allocVars, rowVars
<1>2. TypeOK /\ WalkOK(L, t) /\ Places(L) /\ PinsCounted
  BY DEF ChainInv
<1>3. /\ pc' \in [Thread -> PC] /\ call' \in [Thread -> Call]
      /\ pc'[t] = "fetch" /\ call'[t] = c /\ Others(t)
  BY <1>1, <1>2, StepIs DEF PC
<1>4. TypeOK'
  <2>0. calls \in 0 .. MaxCalls /\ MaxCalls \in Nat
    BY <1>2, ChainAssumption DEF TypeOK
  <2>2. calls' = calls + 1 /\ calls < MaxCalls
    BY <1>1
  <2>1. calls' \in 0 .. MaxCalls
    BY <2>0, <2>2, OneMore
  <2> QED
    BY <1>1, <1>2, <1>3, <2>1 DEF TypeOK
<1>5. Quiet(t)
  BY <1>1, <1>3 DEF Quiet, Creating
<1>6. /\ OneHolder' /\ HeldPages(L)' /\ InCreation' = InCreation
      /\ \A u \in Thread \ {t} : WalkOK(L, u)' /\ RowOK(u)' /\ CreatorOK(L, u)'
      /\ \A i \in 1 .. Len(L) : PageKept(L, i)'
      /\ RowPages(L)'
  BY <1>1, <1>3, <1>5, PlainStep DEF rowVars
<1>7. PinsCounted'
  <2>1. \A f \in Frame : frames'[f].pin_count = frames[f].pin_count /\ (Uses(t, f)' <=> Uses(t, f))
    BY <1>1, <1>3 DEF Uses, Working
  <2> QED
    BY <1>2, <1>3, <2>1, PinsStep
<1>8. Places(L)'
  BY <1>1, <1>2, <1>6, PlacesKept DEF allocVars
<1>9. WalkOK(L, t)' /\ CreatorOK(L, t)'
  BY <1>3 DEF WalkOK, CreatorOK, Creating, Working
<1>10. RowOK(t)'
  BY <1>3 DEF RowOK, OnItsRow
<1> QED
  BY <1>4, <1>6, <1>7, <1>8, <1>9, <1>10 DEF ChainInv

LEMMA LineIs ==
  ASSUME NEW L, Line(L)
  PROVE  /\ Len(L) \in Nat /\ Len(L) >= 1 /\ DOMAIN L = 1 .. Len(L) /\ L \in Seq(Page)
         /\ ToSet(L) \subseteq Page /\ first_page_id \in ToSet(L)
         /\ \A i \in 1 .. Len(L) : L[i] \in ToSet(L) /\ L[i] \in Page
         /\ \A i, j \in 1 .. Len(L) : L[i] = L[j] => i = j
         /\ \A p \in ToSet(L) : \E i \in 1 .. Len(L) : p = L[i]
<1>1. L \in Seq(Page) /\ IsInjective(L) /\ Len(L) >= 1 /\ L[1] = first_page_id
  BY DEF Line
<1>2. Len(L) \in Nat /\ DOMAIN L = 1 .. Len(L) /\ \A i \in 1 .. Len(L) : L[i] \in Page
  BY <1>1, LenProperties, ElementOfSeq
<1> QED
  BY <1>1, <1>2 DEF ToSet, IsInjective

LEMMA LocksBegin ==
  ASSUME Locks, NEW t \in Thread, \A u \in Thread \ {t} : call'[u] = call[u],
         call'[t].rid \in RIDs => MayTouch(call'[t].rid, call'[t].op),
         call'[t].op \in {"insert", "update"} => ~RollingBack,
         call'[t].op = "roll back" => ~Inserting, call'[t].op # "restore"
  PROVE  Locks'
<1>1. ASSUME NEW v \in Thread, NEW u \in Thread, v # u, call'[v].rid = call'[u].rid,
             call'[v].rid \in RIDs
      PROVE  call'[v].op = "get"
  <2>1. CASE v = t
    BY <1>1, <2>1 DEF MayTouch
  <2>2. CASE u = t
    BY <1>1, <2>2 DEF MayTouch
  <2>3. CASE v # t /\ u # t
    BY <1>1, <2>3 DEF Locks
  <2> QED
    BY <2>1, <2>2, <2>3
<1>2. ~(Inserting /\ RollingBack)' 
  <2>1. Inserting' => Inserting \/ call'[t].op \in {"insert", "update"}
    BY DEF Inserting
  <2>2. RollingBack' => RollingBack \/ call'[t].op = "roll back"
    BY DEF RollingBack
  <2> QED
    BY <2>1, <2>2 DEF Locks
<1> QED
  BY <1>1, <1>2 DEF Locks

LEMMA ClientKeeps ==
  ASSUME FewThreads, NEW L, ChainInv(L), NEW t \in Thread, Client(t)
  PROVE  ChainInv(L)'
<1>1. /\ TypeOK /\ Locks /\ RowPages(L)
      /\ first_page_id \in ToSet(L) /\ ToSet(L) \subseteq Page /\ Page \subseteq PageOrNot
      /\ NoCall \in Call /\ ~NoCall.dirty /\ NoCall.rid \notin RIDs
  BY LineIs, NoCallIs DEF ChainInv, PageOrNot
<1>2. \A rid \in DOMAIN rows : rid \in RIDs /\ rid.page_id \in ToSet(L)
  BY <1>1 DEF TypeOK, RowPages
<1>3. ASSUME NEW c \in Call, Begin(t, c)
      PROVE  call'[t] = c /\ \A u \in Thread \ {t} : call'[u] = call[u]
  <2>1. call \in [Thread -> Call] /\ call' = [call EXCEPT ![t] = c]
    BY <1>1, <1>3 DEF Begin, TypeOK
  <2> QED
    BY <2>1
<1>4. ASSUME NEW u \in Tuple, Insert(t, u) PROVE ChainInv(L)'
  <2> DEFINE c == [NoCall EXCEPT !.op = "insert", !.tuple = u, !.page_id = first_page_id]
  <2>1. Begin(t, c) /\ ~RollingBack
    BY <1>4 DEF Insert
  <2>2. /\ c \in Call /\ c.op = "insert" /\ c.tuple \in Tuple /\ c.page_id = first_page_id
        /\ ~c.dirty /\ c.rid \notin RIDs
    BY <1>1 DEF Call, NoCall
  <2> HIDE DEF c
  <2>3. Locks'
    BY <1>1, <1>3, <2>1, <2>2, LocksBegin
  <2> QED
    BY <1>1, <2>1, <2>2, <2>3, BeginKeeps
<1>5. ASSUME NEW rid \in DOMAIN rows, NEW u \in Tuple, Update(t, rid, u) PROVE ChainInv(L)'
  <2> DEFINE c == [NoCall EXCEPT !.op = "update", !.tuple = u, !.rid = rid,
                                 !.page_id = rid.page_id]
  <2>1. Begin(t, c) /\ ~RollingBack /\ MayTouch(rid, "update")
    BY <1>5 DEF Update
  <2>2. /\ c \in Call /\ c.op = "update" /\ c.tuple \in Tuple /\ c.page_id = rid.page_id
        /\ ~c.dirty /\ c.rid = rid
    BY <1>1, <1>2 DEF Call, NoCall
  <2> HIDE DEF c
  <2>3. Locks'
    BY <1>1, <1>3, <2>1, <2>2, LocksBegin
  <2> QED
    BY <1>2, <2>1, <2>2, <2>3, BeginKeeps
<1>6. ASSUME NEW rid \in DOMAIN rows, NEW op \in {"get", "delete", "roll back"}, OnRow(t, rid, op)
      PROVE  ChainInv(L)'
  <2> DEFINE c == [NoCall EXCEPT !.op = op, !.rid = rid, !.page_id = rid.page_id]
  <2>1. Begin(t, c) /\ (op = "roll back" => ~Inserting) /\ MayTouch(rid, op)
    BY <1>6 DEF OnRow
  <2>2. /\ c \in Call /\ c.op = op /\ c.page_id = rid.page_id
        /\ ~c.dirty /\ c.rid = rid
    BY <1>1, <1>2 DEF Call, NoCall
  <2> HIDE DEF c
  <2>3. Locks'
    BY <1>1, <1>3, <2>1, <2>2, LocksBegin
  <2> QED
    BY <1>2, <2>1, <2>2, <2>3, BeginKeeps
<1>7. ASSUME Scan(t) PROVE ChainInv(L)'
  <2> DEFINE c == [NoCall EXCEPT !.op = "scan", !.page_id = first_page_id]
  <2>1. Begin(t, c)
    BY <1>7 DEF Scan
  <2>2. /\ c \in Call /\ c.op = "scan" /\ c.page_id = first_page_id
        /\ ~c.dirty /\ c.rid \notin RIDs
    BY <1>1 DEF Call, NoCall
  <2> HIDE DEF c
  <2>3. Locks'
    BY <1>1, <1>3, <2>1, <2>2, LocksBegin
  <2> QED
    BY <1>1, <2>1, <2>2, <2>3, BeginKeeps
<1> QED
  BY <1>4, <1>5, <1>6, <1>7 DEF Client

-----------------------------------------------------------------------------
(* fetch_page.                                                             *)
LEMMA PinRange ==
  ASSUME NEW n \in Int
  PROVE  n % kPIN_MODULUS \in 0 .. kPIN_MODULUS - 1
<1> DEFINE m == kPIN_MODULUS
<1>1. m \in Nat /\ m >= 1
  BY ConstantTypes
<1> HIDE DEF m
<1>2. n % m \in 0 .. m - 1
  BY <1>1
<1> QED
  BY <1>2 DEF m

LEMMA SetFrame ==
  ASSUME NEW c \in Call, NEW f \in Frame
  PROVE  LET d == [c EXCEPT !.frame = f] IN
         /\ d \in Call /\ d.frame = f /\ d.op = c.op /\ d.rid = c.rid /\ d.tuple = c.tuple
         /\ d.page_id = c.page_id /\ d.fresh = c.fresh /\ d.dirty = c.dirty
BY DEF Call

LEMMA FetchHitKeeps ==
  ASSUME FewThreads, NEW L, ChainInv(L), NEW t \in Thread, pc[t] = "fetch",
         NEW f \in Holding(call[t].page_id),
         frames' = [frames EXCEPT ![f].pin_count = (@ + 1) % kPIN_MODULUS],
         call' = [call EXCEPT ![t].frame = f], Goto(t, "work"),
         UNCHANGED <<disk, allocVars, rowVars, lost, calls>>
  PROVE  ChainInv(L)'
<1> DEFINE n == (frames[f].pin_count + 1) % kPIN_MODULUS
           c == [call[t] EXCEPT !.frame = f]
<1>1. /\ TypeOK /\ WalkOK(L, t) /\ RowOK(t) /\ Places(L) /\ PinsCounted /\ Locks
      /\ f \in Frame /\ frames[f].page_id = call[t].page_id
  BY DEF ChainInv, Holding
<1>2. /\ frames \in [Frame -> FrameRec] /\ call[t] \in Call /\ call \in [Thread -> Call]
      /\ frames[f].pin_count + 1 \in Int
  BY <1>1, FrameTypes, CallTypes
<1>3. n \in 0 .. kPIN_MODULUS - 1 /\ frames' = [frames EXCEPT ![f].pin_count = n]
  BY <1>2, PinRange
<1>4. /\ c \in Call /\ c.frame = f /\ c.op = call[t].op /\ c.rid = call[t].rid
      /\ c.tuple = call[t].tuple /\ c.page_id = call[t].page_id /\ c.fresh = call[t].fresh
      /\ c.dirty = call[t].dirty
  BY <1>1, <1>2, SetFrame
<1>5. call' = [call EXCEPT ![t] = c]
  BY <1>2
<1> HIDE DEF n, c
<1>6. /\ pc' \in [Thread -> PC] /\ call' \in [Thread -> Call]
      /\ pc'[t] = "work" /\ call'[t] = c /\ Others(t)
  BY <1>1, <1>4, <1>5, StepIs DEF PC, Goto
<1>7. /\ frames' \in [Frame -> FrameRec]
      /\ \A g \in Frame : /\ frames'[g].page_id = frames[g].page_id
                          /\ frames'[g].pin_count = IF g = f THEN n ELSE frames[g].pin_count
                          /\ frames'[g].is_dirty = frames[g].is_dirty
                          /\ frames'[g].page = frames[g].page
  <2> DEFINE G == [frames EXCEPT ![f].pin_count = n]
  <2>1. /\ G \in [Frame -> FrameRec]
        /\ \A g \in Frame : /\ G[g].page_id = frames[g].page_id
                            /\ G[g].pin_count = IF g = f THEN n ELSE frames[g].pin_count
                            /\ G[g].is_dirty = frames[g].is_dirty
                            /\ G[g].page = frames[g].page
    BY <1>1, <1>2, <1>3, SetPin
  <2>2. frames' = G
    BY <1>3
  <2> HIDE DEF G
  <2> QED
    BY <2>1, <2>2
<1>8. TypeOK'
  BY <1>1, <1>6, <1>7 DEF TypeOK, FrameRec, allocVars, rowVars
<1>9. Quiet(t)
  BY <1>1, <1>6, <1>7 DEF Quiet, Creating, CreatorOK, ChainInv
<1>10. /\ OneHolder' /\ HeldPages(L)' /\ InCreation' = InCreation
       /\ \A u \in Thread \ {t} : WalkOK(L, u)' /\ RowOK(u)' /\ CreatorOK(L, u)'
       /\ \A i \in 1 .. Len(L) : PageKept(L, i)'
       /\ RowPages(L)'
  BY <1>6, <1>7, <1>9, PlainStep
<1>11. PinsCounted'
  <2>1. \A g \in Frame : ~Uses(t, g) /\ (Uses(t, g)' <=> g = f)
    BY <1>4, <1>6 DEF Uses, Working
  <2>2. \A g \in Frame :
          \/ frames'[g].pin_count = frames[g].pin_count /\ (Uses(t, g)' <=> Uses(t, g))
          \/ /\ frames'[g].pin_count = (frames[g].pin_count + 1) % kPIN_MODULUS
             /\ ~Uses(t, g) /\ Uses(t, g)'
    BY <1>7, <2>1 DEF n
  <2> QED
    BY <1>1, <1>6, <2>2, PinsStep
<1>12. Places(L)'
  BY <1>1, <1>10, PlacesKept DEF allocVars
<1>13. WalkOK(L, t)' /\ CreatorOK(L, t)'
  BY <1>1, <1>4, <1>6, <1>7 DEF WalkOK, CreatorOK, Creating, Working
<1>14. RowOK(t)'
  BY <1>1, <1>4, <1>6 DEF RowOK, OnItsRow, rowVars
<1>15. Locks'
  BY <1>1, <1>4, <1>6, LocksKept
<1> QED
  BY <1>8, <1>10, <1>11, <1>12, <1>13, <1>14, <1>15 DEF ChainInv

(* The call returns: without a frame to fetch to.                          *)
LEMMA ReturnKeeps ==
  ASSUME FewThreads, NEW L, ChainInv(L), NEW t \in Thread, pc[t] = "fetch", Return(t),
         UNCHANGED <<frames, disk, allocVars, rowVars, lost, calls>>
  PROVE  ChainInv(L)'
<1>1. /\ TypeOK /\ WalkOK(L, t) /\ RowOK(t) /\ Places(L) /\ PinsCounted /\ Locks
      /\ NoCall \in Call /\ NoCall.op = "none" /\ NoCall.page_id = INVALID_PAGE_ID
      /\ ~NoCall.dirty /\ NoCall.rid \notin RIDs
  BY NoCallIs DEF ChainInv
<1>2. /\ pc' \in [Thread -> PC] /\ call' \in [Thread -> Call]
      /\ pc'[t] = "idle" /\ call'[t] = NoCall /\ Others(t)
  BY <1>1, StepIs DEF PC, Goto, Return
<1>3. TypeOK'
  BY <1>1, <1>2 DEF TypeOK, allocVars, rowVars
<1>4. Quiet(t)
  BY <1>1, <1>2 DEF Quiet, Creating
<1>5. /\ OneHolder' /\ HeldPages(L)' /\ InCreation' = InCreation
      /\ \A u \in Thread \ {t} : WalkOK(L, u)' /\ RowOK(u)' /\ CreatorOK(L, u)'
      /\ \A i \in 1 .. Len(L) : PageKept(L, i)'
      /\ RowPages(L)'
  BY <1>2, <1>4, PlainStep
<1>6. PinsCounted'
  <2>1. \A f \in Frame : frames'[f].pin_count = frames[f].pin_count /\ (Uses(t, f)' <=> Uses(t, f))
    BY <1>2 DEF Uses, Working
  <2> QED
    BY <1>1, <1>2, <2>1, PinsStep
<1>7. Places(L)'
  BY <1>1, <1>5, PlacesKept DEF allocVars
<1>8. WalkOK(L, t)' /\ RowOK(t)' /\ CreatorOK(L, t)'
  BY <1>1, <1>2 DEF WalkOK, RowOK, OnItsRow, CreatorOK, Creating, Working
<1>9. Locks'
  BY <1>1, <1>2, LocksKept
<1> QED
  BY <1>3, <1>5, <1>6, <1>7, <1>8, <1>9 DEF ChainInv

(* The frame that find_next_frame picks holds no page, or one of the heap  *)
(* that nobody has pinned.                                                 *)
LEMMA VictimIs ==
  ASSUME FewThreads, Careful, NEW L, ChainInv(L), NEW f \in NextFrames
  PROVE  /\ f \in Frame /\ Users(f) = {}
         /\ frames[f].page_id \in ToSet(L) \cup {INVALID_PAGE_ID}
         /\ \A u \in Thread : Working(u) => call[u].frame # f
         /\ \A u \in Thread : Creating(u) => call[u].fresh # f
<1>1. /\ f \in Frame /\ f \notin Fresh
      /\ frames[f].page_id = INVALID_PAGE_ID \/ frames[f].pin_count = 0
  BY DEF NextFrames, FreeFrames, Empty, Holding
<1>2. /\ \A u \in Thread : WalkOK(L, u) /\ CreatorOK(L, u)
      /\ INVALID_PAGE_ID \notin Page /\ ToSet(L) \subseteq Page
  BY LineIs, ConstantTypes DEF ChainInv
<1>3. Users(f) = {}
  <2>1. CASE frames[f].page_id = INVALID_PAGE_ID
    <3>1. \A u \in Thread : ~Uses(u, f)
      BY <1>2, <2>1 DEF Uses, WalkOK, CreatorOK, Creating
    <3> QED
      BY <3>1 DEF Users
  <2>2. CASE frames[f].pin_count = 0
    BY <1>1, <2>2, NoUsers DEF ChainInv
  <2> QED
    BY <1>1, <2>1, <2>2
<1>4. \A u \in Thread : Working(u) => call[u].frame # f
  BY <1>3 DEF Users, Uses
<1>5. \A u \in Thread : Creating(u) => call[u].fresh # f
  BY <1>1, <1>3 DEF Users, Uses, Fresh, Creating
<1>6. frames[f].page_id \in ToSet(L) \cup {INVALID_PAGE_ID}
  <2> SUFFICES ASSUME frames[f].page_id \in InCreation PROVE FALSE
    BY <1>1 DEF ChainInv, HeldPages
  <2>1. PICK u \in Thread : Creating(u) /\ frames[f].page_id = frames[call[u].fresh].page_id
    BY DEF InCreation, Creating
  <2>2. call[u].fresh \in Frame /\ frames[call[u].fresh].page_id \in Page
    BY <1>2, <2>1 DEF CreatorOK
  <2>3. f = call[u].fresh
    BY <1>1, <1>2, <2>1, <2>2 DEF ChainInv, OneHolder
  <2> QED
    BY <1>5, <2>1, <2>3
<1> QED
  BY <1>1, <1>3, <1>4, <1>5, <1>6

(* The frame is given to page q, which no frame holds.                     *)
Replaces(f, q, pg) ==
  /\ frames' = [frames EXCEPT ![f] = Loaded(q, pg)]
  /\ disk' = Flushed(f)
  /\ UNCHANGED rowVars

LEMMA ReplacedFrames ==
  ASSUME FewThreads, Careful, NEW L, ChainInv(L), NEW t \in Thread, NEW f \in NextFrames,
         NEW q \in Page, NEW pg \in HeapPage, Replaces(f, q, pg)
  PROVE  /\ frames' \in [Frame -> FrameRec]
         /\ frames'[f].page_id = q /\ frames'[f].pin_count = 1
         /\ ~frames'[f].is_dirty /\ frames'[f].page = pg
         /\ \A g \in Frame \ {f} : frames'[g] = frames[g]
         /\ disk' \in [Page -> HeapPage]
         /\ \A p \in Page : disk'[p] = IF frames[f].is_dirty /\ frames[f].page_id = p
                                       THEN frames[f].page ELSE disk[p]
<1>1. /\ f \in Frame /\ frames[f].page_id \in ToSet(L) \cup {INVALID_PAGE_ID}
  BY VictimIs
<1>2. /\ TypeOK /\ frames \in [Frame -> FrameRec] /\ frames[f].page \in HeapPage
      /\ disk \in [Page -> HeapPage] /\ ToSet(L) \subseteq Page
      /\ frames[f].page_id = INVALID_PAGE_ID => ~frames[f].is_dirty
  BY <1>1, FrameTypes, LineIs DEF TypeOK, ChainInv, HeldPages
<1>3. kPIN_MODULUS \in Nat /\ kPIN_MODULUS > 1
  <2>1. Cardinality(Thread) \in Nat /\ Cardinality(Thread) # 0 /\ Cardinality(Thread) < kPIN_MODULUS
    BY FS_CardinalityType, FS_EmptySet DEF FewThreads
  <2> QED
    BY <2>1, ConstantTypes
<1>4. Loaded(q, pg) \in FrameRec
  <2>1. 1 \in 0 .. kPIN_MODULUS - 1
    BY <1>3
  <2> QED
    BY <2>1 DEF Loaded, FrameRec, PageOrNot
<1> DEFINE rec == Loaded(q, pg)
<1>5. rec.page_id = q /\ rec.pin_count = 1 /\ ~rec.is_dirty /\ rec.page = pg /\ rec \in FrameRec
  BY <1>4 DEF Loaded
<1> HIDE DEF rec
<1>6. frames' = [frames EXCEPT ![f] = rec]
  BY DEF Replaces, rec
<1>7. /\ frames' \in [Frame -> FrameRec] /\ frames'[f] = rec
      /\ \A g \in Frame \ {f} : frames'[g] = frames[g]
  BY <1>1, <1>2, <1>5, <1>6
<1>8. CASE frames[f].is_dirty
  <2> DEFINE z == frames[f].page
             o == frames[f].page_id
  <2>1. disk' = [disk EXCEPT ![o] = z] /\ o \in Page /\ z \in HeapPage
    BY <1>1, <1>2, <1>8 DEF Replaces, Flushed
  <2> HIDE DEF z, o
  <2>2. disk' \in [Page -> HeapPage] /\ \A p \in Page : disk'[p] = IF o = p THEN z ELSE disk[p]
    BY <1>2, <2>1
  <2> QED
    BY <1>5, <1>7, <1>8, <2>2 DEF z, o
<1>9. CASE ~frames[f].is_dirty
  <2>1. disk' = disk
    BY <1>9 DEF Replaces, Flushed
  <2> QED
    BY <1>2, <1>5, <1>7, <1>9, <2>1
<1> QED
  BY <1>8, <1>9

LEMMA ReplacedKeeps ==
  ASSUME FewThreads, Careful, NEW L, ChainInv(L), NEW t \in Thread, Others(t),
         ~(pc[t] = "unpin" /\ call[t].dirty), NEW f \in NextFrames,
         NEW q \in Page, Holding(q) = {}, NEW pg \in HeapPage, Replaces(f, q, pg)
  PROVE  /\ OneHolder' /\ RowPages(L)'
         /\ \A i \in 1 .. Len(L) : L[i] # q => PageKept(L, i)'
         /\ \A u \in Thread \ {t} : WalkOK(L, u)' /\ RowOK(u)'
         /\ \A u \in Thread \ {t} : Creating(u) => frames'[call[u].fresh] = frames[call[u].fresh]
<1>1. /\ f \in Frame /\ Users(f) = {}
      /\ frames[f].page_id \in ToSet(L) \cup {INVALID_PAGE_ID}
      /\ \A u \in Thread : Working(u) => call[u].frame # f
      /\ \A u \in Thread : Creating(u) => call[u].fresh # f
  BY VictimIs
<1>2. /\ frames'[f].page_id = q /\ frames'[f].pin_count = 1
      /\ ~frames'[f].is_dirty /\ frames'[f].page = pg
      /\ \A g \in Frame \ {f} : frames'[g] = frames[g]
      /\ \A p \in Page : disk'[p] = IF frames[f].is_dirty /\ frames[f].page_id = p
                                    THEN frames[f].page ELSE disk[p]
  BY ReplacedFrames
<1>3. rows' = rows /\ unsaved' = unsaved /\ \A g \in Frame : frames[g].page_id # q
  BY DEF Replaces, rowVars, Holding
<1>4. OneHolder'
  BY <1>1, <1>2, <1>3 DEF OneHolder, ChainInv
<1>5. RowPages(L)'
  BY <1>3 DEF RowPages, ChainInv
<1>6. ASSUME NEW u \in Thread \ {t} PROVE WalkOK(L, u)' /\ RowOK(u)'
  <2>1. Working(u) => frames'[call[u].frame].page_id = frames[call[u].frame].page_id
    BY <1>1, <1>2 DEF WalkOK, ChainInv
  <2>2. WalkOK(L, u)'
    BY <2>1, WalkOthers DEF ChainInv
  <2>3. RowOK(u)'
    BY <1>3, RowOthers DEF ChainInv, RowOK
  <2> QED
    BY <2>2, <2>3
<1>7. ASSUME NEW u \in Thread \ {t}, Creating(u)
      PROVE  frames'[call[u].fresh] = frames[call[u].fresh]
  BY <1>1, <1>2, <1>7 DEF ChainInv, CreatorOK
<1>8. ASSUME NEW i \in 1 .. Len(L), L[i] # q PROVE PageKept(L, i)'
  <2>1. PageKept(L, i) /\ L[i] \in Page
    BY LineIs DEF ChainInv
  <2>2. ASSUME NEW g \in Frame, frames'[g].page_id = L[i]
        PROVE  /\ g # f /\ frames[g].page_id = L[i] /\ frames'[g] = frames[g]
               /\ Behind(g) => Behind(g)'
    <3>1. g # f /\ frames'[g] = frames[g]
      BY <1>2, <1>8, <2>2
    <3> QED
      BY <2>2, <3>1 DEF Behind, Pending, Others
  <2>3. \A g \in Frame : frames'[g].page_id = L[i] => Keeps(L, i, frames'[g].page, rows', unsaved')
    BY <1>3, <2>1, <2>2 DEF PageKept
  <2>4. CASE frames[f].page_id = L[i]
    <3>1. \A g \in Frame : frames[g].page_id = L[i] => g = f
      BY <1>1, <2>1, <2>4, ConstantTypes DEF ChainInv, OneHolder
    <3>2. CASE frames[f].is_dirty
      <4>1. disk'[L[i]] = frames[f].page /\ Keeps(L, i, frames[f].page, rows, unsaved)
        BY <1>1, <1>2, <2>1, <2>4, <3>2 DEF PageKept
      <4> QED
        BY <1>3, <2>3, <4>1 DEF PageKept
    <3>3. CASE ~frames[f].is_dirty
      <4>1. ~Behind(f)
        BY <1>1, <3>3 DEF Behind, Pending, Users, Uses, Working
      <4>2. Keeps(L, i, disk[L[i]], rows, unsaved) /\ disk'[L[i]] = disk[L[i]]
        BY <1>2, <2>1, <3>1, <3>3, <4>1 DEF PageKept
      <4> QED
        BY <1>3, <2>3, <4>2 DEF PageKept
    <3> QED
      BY <3>2, <3>3
  <2>5. CASE frames[f].page_id # L[i]
    <3>1. disk'[L[i]] = disk[L[i]]
      BY <1>2, <2>1, <2>5
    <3>2. ASSUME \A g \in Frame : frames'[g].page_id = L[i] => ~Behind(g)'
          PROVE  Keeps(L, i, disk[L[i]], rows, unsaved)
      <4>1. ASSUME NEW g \in Frame, frames[g].page_id = L[i] PROVE ~Behind(g)
        <5>1. g # f /\ frames'[g].page_id = L[i]
          BY <1>2, <2>5, <4>1
        <5> QED
          BY <2>2, <3>2, <5>1
      <4> QED
        BY <2>1, <4>1 DEF PageKept
    <3> QED
      BY <1>3, <2>3, <3>1, <3>2 DEF PageKept
  <2> QED
    BY <2>4, <2>5
<1> QED
  BY <1>4, <1>5, <1>6, <1>7, <1>8

LEMMA FetchMissKeeps ==
  ASSUME FewThreads, Careful, NEW L, ChainInv(L), NEW t \in Thread, pc[t] = "fetch",
         NEW f \in NextFrames, Holding(call[t].page_id) = {},
         Replaces(f, call[t].page_id, disk[call[t].page_id]),
         call' = [call EXCEPT ![t].frame = f], Goto(t, "work"),
         UNCHANGED <<allocVars, lost, calls>>
  PROVE  ChainInv(L)'
<1> DEFINE q == call[t].page_id
           c == [call[t] EXCEPT !.frame = f]
<1>1. /\ TypeOK /\ WalkOK(L, t) /\ RowOK(t) /\ Places(L) /\ PinsCounted /\ Locks
      /\ q \in ToSet(L) /\ q \in Page /\ disk[q] \in HeapPage
  BY LineIs DEF ChainInv, WalkOK, TypeOK
<1>2. /\ frames \in [Frame -> FrameRec] /\ call[t] \in Call /\ call \in [Thread -> Call]
  BY <1>1, CallTypes DEF TypeOK, FrameRec
<1>3. /\ f \in Frame /\ Users(f) = {}
      /\ frames[f].page_id \in ToSet(L) \cup {INVALID_PAGE_ID}
      /\ \A u \in Thread : Working(u) => call[u].frame # f
      /\ \A u \in Thread : Creating(u) => call[u].fresh # f
  BY VictimIs
<1>4. /\ c \in Call /\ c.frame = f /\ c.op = call[t].op /\ c.rid = call[t].rid
      /\ c.tuple = call[t].tuple /\ c.page_id = q /\ c.fresh = call[t].fresh
      /\ c.dirty = call[t].dirty
  BY <1>2, <1>3, SetFrame
<1>5. call' = [call EXCEPT ![t] = c]
  BY <1>2
<1> HIDE DEF c
<1>6. /\ pc' \in [Thread -> PC] /\ call' \in [Thread -> Call]
      /\ pc'[t] = "work" /\ call'[t] = c /\ Others(t)
  BY <1>1, <1>4, <1>5, StepIs DEF PC, Goto
<1>7. /\ frames' \in [Frame -> FrameRec]
      /\ frames'[f].page_id = q /\ frames'[f].pin_count = 1
      /\ ~frames'[f].is_dirty /\ frames'[f].page = disk[q]
      /\ \A g \in Frame \ {f} : frames'[g] = frames[g]
      /\ disk' \in [Page -> HeapPage]
      /\ \A p \in Page : disk'[p] = IF frames[f].is_dirty /\ frames[f].page_id = p
                                    THEN frames[f].page ELSE disk[p]
  BY <1>1, ReplacedFrames
<1>8. /\ OneHolder' /\ RowPages(L)'
      /\ \A i \in 1 .. Len(L) : L[i] # q => PageKept(L, i)'
      /\ \A u \in Thread \ {t} : WalkOK(L, u)' /\ RowOK(u)'
      /\ \A u \in Thread \ {t} : Creating(u) => frames'[call[u].fresh] = frames[call[u].fresh]
  BY <1>1, <1>6, ReplacedKeeps
<1>9. TypeOK'
  BY <1>1, <1>6, <1>7 DEF TypeOK, FrameRec, allocVars, rowVars, Replaces
<1>10. InCreation' = InCreation
  <2>1. \A u \in Thread : /\ Creating(u)' <=> Creating(u)
                          /\ Creating(u) => call'[u] = call[u]
    BY <1>6 DEF Others, Creating
  <2>2. \A u \in Thread : Creating(u) => frames'[call'[u].fresh] = frames[call[u].fresh]
    BY <1>8, <2>1 DEF Creating
  <2>3. InCreation = {frames[call[u].fresh].page_id : u \in {w \in Thread : Creating(w)}}
    BY DEF InCreation, Creating
  <2>4. InCreation' = {frames'[call'[u].fresh].page_id : u \in {w \in Thread : Creating(w)'}}
    BY DEF InCreation, Creating
  <2> QED
    BY <2>1, <2>2, <2>3, <2>4
<1>11. HeldPages(L)'
  BY <1>1, <1>7, <1>10 DEF HeldPages, ChainInv
<1>12. PinsCounted'
  <2>1. \A g \in Frame : ~Uses(t, g) /\ (Uses(t, g)' <=> g = f)
    BY <1>4, <1>6 DEF Uses, Working
  <2>2. \A g \in Frame :
          \/ frames'[g].pin_count = frames[g].pin_count /\ (Uses(t, g)' <=> Uses(t, g))
          \/ frames'[g].pin_count = 1 /\ Users(g) = {} /\ Uses(t, g)'
    BY <1>3, <1>7, <2>1
  <2> QED
    BY <1>1, <1>6, <2>2, PinsStep
<1>13. ASSUME NEW u \in Thread \ {t} PROVE CreatorOK(L, u)'
  <2>1. CreatorOK(L, u) /\ ~Creating(t)'
    BY <1>6 DEF ChainInv, Creating
  <2>2. Creating(u) => frames[call[u].fresh].page_id \notin ToSet(L)
    BY <2>1 DEF CreatorOK
  <2> QED
    BY <1>6, <1>8, <2>1, <2>2, CreatorOthers
<1>14. ASSUME NEW i \in 1 .. Len(L), L[i] = q PROVE PageKept(L, i)'
  <2>1. \A g \in Frame : frames[g].page_id # q
    BY DEF Holding
  <2>2. Keeps(L, i, disk[q], rows, unsaved)
    BY <1>14, <2>1 DEF ChainInv, PageKept
  <2>3. disk'[q] = disk[q] /\ rows' = rows /\ unsaved' = unsaved
    BY <1>1, <1>3, <1>7, <2>1 DEF Replaces, rowVars
  <2>4. \A g \in Frame : frames'[g].page_id = L[i] => g = f
    BY <1>7, <1>14, <2>1
  <2> QED
    BY <1>7, <1>14, <2>2, <2>3, <2>4 DEF PageKept
<1>15. Places(L)'
  BY <1>1, <1>10, PlacesKept DEF allocVars
<1>16. WalkOK(L, t)' /\ CreatorOK(L, t)'
  BY <1>1, <1>3, <1>4, <1>6, <1>7 DEF WalkOK, CreatorOK, Creating, Working
<1>17. RowOK(t)'
  BY <1>1, <1>4, <1>6 DEF RowOK, OnItsRow, rowVars, Replaces
<1>18. Locks'
  BY <1>1, <1>4, <1>6, LocksKept
<1> QED
  BY <1>8, <1>9, <1>11, <1>12, <1>13, <1>14, <1>15, <1>16, <1>17, <1>18 DEF ChainInv

LEMMA FetchKeeps ==
  ASSUME FewThreads, Careful, NEW L, ChainInv(L), NEW t \in Thread, Fetch(t)
  PROVE  ChainInv(L)'
<1>1. pc[t] = "fetch" /\ UNCHANGED <<allocVars, rowVars, lost, calls>>
  BY DEF Fetch
<1>2. CASE \E f \in Holding(call[t].page_id) :
             /\ frames' = [frames EXCEPT ![f].pin_count = (@ + 1) % kPIN_MODULUS]
             /\ call' = [call EXCEPT ![t].frame = f]
             /\ Goto(t, "work") /\ UNCHANGED disk
  BY <1>1, <1>2, FetchHitKeeps
<1>3. CASE \E f \in NextFrames :
             /\ Holding(call[t].page_id) = {}
             /\ frames' = [frames EXCEPT ![f] = Loaded(call[t].page_id, disk[call[t].page_id])]
             /\ disk' = Flushed(f)
             /\ call' = [call EXCEPT ![t].frame = f]
             /\ Goto(t, "work")
  BY <1>1, <1>3, FetchMissKeeps DEF Replaces
<1>4. CASE Return(t) /\ UNCHANGED <<frames, disk>>
  BY <1>1, <1>4, ReturnKeeps
<1> QED
  BY <1>1, <1>2, <1>3, <1>4 DEF Fetch, Finds

-----------------------------------------------------------------------------
(* new_page: the id comes from the free list or is the next one.           *)
LEMMA AllocateIs ==
  ASSUME NEW L, ChainInv(L), NEW p \in Page, allocate_page(p)
  PROVE  /\ capacity' \in 1 .. kMAX_CAPACITY
         /\ free_list' \in Seq(Page) /\ IsInjective(free_list')
         /\ p \notin ToSet(L) \cup InCreation \cup lost \cup ToSet(free_list')
         /\ ToSet(free_list') \subseteq ToSet(free_list)
         /\ ToSet(L) \cup ToSet(free_list') \cup {p} \cup InCreation \cup lost = 1 .. capacity' - 1
<1>1. /\ capacity \in 1 .. kMAX_CAPACITY /\ free_list \in Seq(Page) /\ Places(L)
      /\ kMAX_CAPACITY \in Nat
  BY ConstantTypes DEF ChainInv, TypeOK
<1>2. CASE free_list # <<>>
  <2>1. p = Last(free_list) /\ free_list' = Front(free_list) /\ capacity' = capacity
    BY <1>2 DEF allocate_page, reuse
  <2>2. IsInjective(free_list)
    BY <1>1 DEF Places
  <2>3. /\ free_list' \in Seq(Page) /\ IsInjective(free_list') /\ p \in ToSet(free_list)
        /\ ToSet(free_list') = ToSet(free_list) \ {p}
    BY <1>1, <1>2, <2>1, <2>2, FrontProperties
  <2> QED
    BY <1>1, <2>1, <2>3 DEF Places
<1>3. CASE free_list = <<>>
  <2>1. p = capacity /\ capacity' = capacity + 1 /\ free_list' = free_list
    BY <1>3 DEF allocate_page, grow
  <2>2. ToSet(L) \cup ToSet(free_list) \cup InCreation \cup lost = 1 .. capacity - 1
    BY <1>1 DEF Places
  <2>3. capacity' \in 1 .. kMAX_CAPACITY /\ p \notin 1 .. capacity - 1
    BY <1>1, <2>1 DEF Page
  <2>4. 1 .. capacity' - 1 = (1 .. capacity - 1) \cup {p}
    BY <1>1, <2>1
  <2>5. IsInjective(free_list)
    BY <1>1 DEF Places
  <2> QED
    BY <1>1, <2>1, <2>2, <2>3, <2>4, <2>5
<1> QED
  BY <1>2, <1>3

LEMMA InitIs == init \in HeapPage /\ EmptyFrame \in FrameRec
<1>1. kPAGE_SIZE \in Nat /\ kPIN_MODULUS \in Nat /\ kPIN_MODULUS >= 1
  BY PageSize, ConstantTypes
<1>2. init \in HeapPage
  <2>1. init.data \in [0 .. kPAGE_SIZE - 1 -> Value \cup {Blank}]
    BY DEF init
  <2>2. <<>> \in Seq(Slot) /\ kPAGE_SIZE \in 0 .. kPAGE_SIZE
    BY <1>1
  <2> QED
    BY <2>1, <2>2 DEF init, HeapPage, PageOrNot
<1>3. Zeroed \in HeapPage
  <2>1. 0 \in 0 .. kPAGE_SIZE
    BY <1>1
  <2>2. \A r \in HeapPage : [r EXCEPT !.next_page_id = 0, !.free_space_offset = 0] \in HeapPage
    BY <2>1 DEF HeapPage
  <2> QED
    BY <1>2, <2>2, Zenon DEF Zeroed
<1>4. 0 \in 0 .. kPIN_MODULUS - 1
  BY <1>1
<1> QED
  BY <1>2, <1>3, <1>4 DEF EmptyFrame, FrameRec, PageOrNot

LEMMA SetFresh ==
  ASSUME NEW c \in Call, NEW f \in Frame
  PROVE  LET d == [c EXCEPT !.fresh = f, !.created_new_page = TRUE] IN
         /\ d \in Call /\ d.fresh = f /\ d.op = c.op /\ d.rid = c.rid /\ d.tuple = c.tuple
         /\ d.page_id = c.page_id /\ d.frame = c.frame /\ d.dirty = c.dirty
BY DEF Call

(* The creators, by their own name.                                        *)
LEMMA InCreationIs ==
  /\ InCreation = {frames[call[u].fresh].page_id : u \in {w \in Thread : Creating(w)}}
  /\ InCreation' = {frames'[call'[u].fresh].page_id : u \in {w \in Thread : Creating(w)'}}
BY DEF InCreation, Creating

LEMMA CreatedKeeps ==
  ASSUME FewThreads, Careful, NEW L, ChainInv(L), NEW t \in Thread, pc[t] = "extend",
         NEW p \in Page, allocate_page(p), NEW f \in NextFrames,
         Replaces(f, p, init),
         call' = [call EXCEPT ![t].fresh = f, ![t].created_new_page = TRUE], Goto(t, "filled"),
         UNCHANGED <<lost, calls>>
  PROVE  ChainInv(L)'
<1> DEFINE c == [call[t] EXCEPT !.fresh = f, !.created_new_page = TRUE]
<1>1. /\ TypeOK /\ WalkOK(L, t) /\ RowOK(t) /\ Places(L) /\ PinsCounted /\ Locks
      /\ init \in HeapPage
  BY InitIs DEF ChainInv
<1>2. /\ frames \in [Frame -> FrameRec] /\ call[t] \in Call /\ call \in [Thread -> Call]
  BY <1>1, CallTypes DEF TypeOK, FrameRec
<1>3. /\ f \in Frame /\ Users(f) = {}
      /\ frames[f].page_id \in ToSet(L) \cup {INVALID_PAGE_ID}
      /\ \A u \in Thread : Working(u) => call[u].frame # f
      /\ \A u \in Thread : Creating(u) => call[u].fresh # f
  BY VictimIs
<1>4. /\ c \in Call /\ c.fresh = f /\ c.op = call[t].op /\ c.rid = call[t].rid
      /\ c.tuple = call[t].tuple /\ c.page_id = call[t].page_id /\ c.frame = call[t].frame
      /\ c.dirty = call[t].dirty
  BY <1>2, <1>3, SetFresh
<1>5. call' = [call EXCEPT ![t] = c]
  BY <1>2
<1> HIDE DEF c
<1>6. /\ pc' \in [Thread -> PC] /\ call' \in [Thread -> Call]
      /\ pc'[t] = "filled" /\ call'[t] = c /\ Others(t)
  BY <1>1, <1>4, <1>5, StepIs DEF PC, Goto
<1>7. /\ frames' \in [Frame -> FrameRec]
      /\ frames'[f].page_id = p /\ frames'[f].pin_count = 1
      /\ ~frames'[f].is_dirty /\ frames'[f].page = init
      /\ \A g \in Frame \ {f} : frames'[g] = frames[g]
      /\ disk' \in [Page -> HeapPage]
  BY <1>1, ReplacedFrames
<1>8. /\ capacity' \in 1 .. kMAX_CAPACITY
      /\ free_list' \in Seq(Page) /\ IsInjective(free_list')
      /\ p \notin ToSet(L) \cup InCreation \cup lost \cup ToSet(free_list')
      /\ ToSet(free_list') \subseteq ToSet(free_list)
      /\ ToSet(L) \cup ToSet(free_list') \cup {p} \cup InCreation \cup lost = 1 .. capacity' - 1
  BY AllocateIs
<1>9. Holding(p) = {}
  BY <1>8, ConstantTypes DEF Holding, HeldPages, ChainInv
<1>10. /\ OneHolder' /\ RowPages(L)'
       /\ \A i \in 1 .. Len(L) : L[i] # p => PageKept(L, i)'
       /\ \A u \in Thread \ {t} : WalkOK(L, u)' /\ RowOK(u)'
       /\ \A u \in Thread \ {t} : Creating(u) => frames'[call[u].fresh] = frames[call[u].fresh]
  BY <1>1, <1>6, <1>9, ReplacedKeeps
<1>11. \A i \in 1 .. Len(L) : PageKept(L, i)'
  BY <1>8, <1>10, LineIs DEF ChainInv
<1>12. TypeOK'
  BY <1>1, <1>6, <1>7, <1>8 DEF TypeOK, FrameRec, rowVars, Replaces
<1>13. InCreation' = InCreation \cup {p}
  <2>1. /\ \A u \in Thread \ {t} : /\ Creating(u)' <=> Creating(u)
                                   /\ Creating(u) => call'[u] = call[u]
        /\ ~Creating(t) /\ Creating(t)' /\ call'[t].fresh = f
    BY <1>4, <1>6 DEF Others, Creating
  <2>2. \A u \in Thread \ {t} : Creating(u) => frames'[call'[u].fresh] = frames[call[u].fresh]
    BY <1>10, <2>1
  <2> DEFINE Old == {u \in Thread : Creating(u)}
             Id(u) == frames[call[u].fresh].page_id
             Id2(u) == frames'[call'[u].fresh].page_id
  <2>3. {u \in Thread : Creating(u)'} = Old \cup {t} /\ t \notin Old
    BY <2>1
  <2>4. \A u \in Old : Id2(u) = Id(u)
    BY <2>1, <2>2
  <2>5. Id2(t) = p
    BY <1>7, <2>1
  <2>6. InCreation = {Id(u) : u \in Old} /\ InCreation' = {Id2(u) : u \in Old \cup {t}}
    BY <2>3, InCreationIs
  <2> HIDE DEF Old, Id, Id2
  <2> QED
    BY <2>3, <2>4, <2>5, <2>6
<1>14. HeldPages(L)'
  BY <1>1, <1>7, <1>13 DEF HeldPages, ChainInv
<1>15. PinsCounted'
  <2>1. \A g \in Frame \ {f} : Uses(t, g)' <=> Uses(t, g)
    BY <1>4, <1>6 DEF Uses, Working
  <2>2. Uses(t, f)'
    BY <1>4, <1>6 DEF Uses
  <2>3. \A g \in Frame :
          \/ frames'[g].pin_count = frames[g].pin_count /\ (Uses(t, g)' <=> Uses(t, g))
          \/ frames'[g].pin_count = 1 /\ Users(g) = {} /\ Uses(t, g)'
    BY <1>3, <1>7, <2>1, <2>2
  <2> QED
    BY <1>1, <1>6, <2>3, PinsStep
<1>16. ASSUME NEW u \in Thread \ {t} PROVE CreatorOK(L, u)'
  <2>1. CreatorOK(L, u) /\ call'[t].fresh = f
    BY <1>4, <1>6 DEF ChainInv
  <2>2. Creating(u) => frames[call[u].fresh].page_id \notin ToSet(L) /\ call[u].fresh # f
    BY <1>3, <2>1 DEF CreatorOK
  <2> QED
    BY <1>6, <1>10, <2>1, <2>2, CreatorOthers
<1>17. Places(L)'
  BY <1>1, <1>8, <1>13 DEF Places
<1>18. WalkOK(L, t)'
  <2>1. Working(t) /\ call[t].frame \in Frame /\ call[t].frame # f
    BY <1>1, <1>3 DEF WalkOK, Working
  <2>2. frames'[call'[t].frame] = frames[call[t].frame] /\ Working(t)'
    BY <1>4, <1>6, <1>7, <2>1 DEF Working
  <2> QED
    BY <1>1, <1>4, <1>6, <2>1, <2>2 DEF WalkOK, Working
<1>19. CreatorOK(L, t)'
  <2>1. \A u \in Thread \ {t} : Creating(u)' => call'[u].fresh # f
    BY <1>3, <1>6 DEF Others, Creating
  <2> QED
    BY <1>3, <1>4, <1>6, <1>7, <1>8, <2>1 DEF CreatorOK
<1>20. RowOK(t)'
  BY <1>1, <1>4, <1>6 DEF RowOK, OnItsRow, rowVars, Replaces
<1>21. Locks'
  BY <1>1, <1>4, <1>6, LocksKept
<1> QED
  BY <1>10, <1>11, <1>12, <1>14, <1>15, <1>16, <1>17, <1>18, <1>19, <1>20, <1>21 DEF ChainInv

LEMMA ExtendKeeps ==
  ASSUME FewThreads, Careful, NEW L, ChainInv(L), NEW t \in Thread, Extend(t)
  PROVE  ChainInv(L)'
<1>1. PICK p \in Page :
       /\ allocate_page(p)
       /\ \/ \E f \in NextFrames :
               /\ frames' = [frames EXCEPT ![f] = Created(p)]
               /\ disk' = Flushed(f)
               /\ call' = [call EXCEPT ![t].fresh = f, ![t].created_new_page = TRUE]
               /\ Goto(t, "filled") /\ UNCHANGED lost
          \/ /\ FreeFrames = {}
             /\ lost' = lost \cup {p}
             /\ Goto(t, "unpin") /\ UNCHANGED <<frames, disk, call>>
  BY DEF Extend
<1>2. pc[t] = "extend" /\ UNCHANGED <<rowVars, calls>>
  BY DEF Extend
<1>3. ASSUME NEW f \in NextFrames, frames' = [frames EXCEPT ![f] = Created(p)],
             disk' = Flushed(f),
             call' = [call EXCEPT ![t].fresh = f, ![t].created_new_page = TRUE],
             Goto(t, "filled"), UNCHANGED lost
      PROVE  ChainInv(L)'
  <2>1. Replaces(f, p, init)
    BY <1>2, <1>3 DEF Replaces, Created
  <2> QED
    BY <1>1, <1>2, <1>3, <2>1, CreatedKeeps
<1>4. ASSUME lost' = lost \cup {p}, Goto(t, "unpin"), UNCHANGED <<frames, disk, call>>
      PROVE  ChainInv(L)'
  <2>1. /\ TypeOK /\ WalkOK(L, t) /\ RowOK(t) /\ Places(L) /\ PinsCounted /\ Locks
    BY DEF ChainInv
  <2>2. pc \in [Thread -> PC] /\ call \in [Thread -> Call]
    BY <2>1 DEF TypeOK
  <2>3. pc' \in [Thread -> PC] /\ pc'[t] = "unpin" /\ Others(t) /\ call' = call
    BY <1>4, <2>2 DEF PC, Goto, Others
  <2>4. /\ capacity' \in 1 .. kMAX_CAPACITY
        /\ free_list' \in Seq(Page) /\ IsInjective(free_list')
        /\ p \notin ToSet(L) \cup InCreation \cup lost \cup ToSet(free_list')
        /\ ToSet(free_list') \subseteq ToSet(free_list)
        /\ ToSet(L) \cup ToSet(free_list') \cup {p} \cup InCreation \cup lost = 1 .. capacity' - 1
    BY <1>1, AllocateIs
  <2>5. Quiet(t)
    BY <1>2, <1>4, <2>3 DEF Quiet, Creating
  <2>6. /\ OneHolder' /\ HeldPages(L)' /\ InCreation' = InCreation
        /\ \A u \in Thread \ {t} : WalkOK(L, u)' /\ RowOK(u)' /\ CreatorOK(L, u)'
        /\ \A i \in 1 .. Len(L) : PageKept(L, i)'
        /\ RowPages(L)'
    BY <1>2, <1>4, <2>3, <2>5, PlainStep
  <2>7. TypeOK'
    BY <1>2, <1>4, <2>1, <2>3, <2>4 DEF TypeOK, rowVars
  <2>8. PinsCounted'
    <3>1. \A g \in Frame : frames'[g].pin_count = frames[g].pin_count /\ (Uses(t, g)' <=> Uses(t, g))
      BY <1>2, <1>4, <2>3 DEF Uses, Working
    <3> QED
      BY <2>1, <2>3, <3>1, PinsStep
  <2>9. Places(L)'
    BY <1>4, <2>1, <2>4, <2>6 DEF Places
  <2>10. WalkOK(L, t)' /\ CreatorOK(L, t)'
    BY <1>2, <1>4, <2>1, <2>3 DEF WalkOK, CreatorOK, Creating, Working
  <2>11. RowOK(t)'
    BY <1>2, <2>1, <2>3 DEF RowOK, OnItsRow, rowVars
  <2>12. Locks'
    BY <2>1, <2>3, LocksKept
  <2> QED
    BY <2>6, <2>7, <2>8, <2>9, <2>10, <2>11, <2>12 DEF ChainInv
<1> QED
  BY <1>1, <1>3, <1>4

-----------------------------------------------------------------------------
(* unpin_page of a frame that holds a page.                                *)
LEMMA UnpinnedIs ==
  ASSUME TypeOK, NEW f \in Frame, frames[f].page_id # INVALID_PAGE_ID, NEW d \in BOOLEAN,
         frames' = Unpinned(f, d)
  PROVE  /\ frames' \in [Frame -> FrameRec]
         /\ frames'[f].pin_count = (frames[f].pin_count + kPIN_MODULUS - 1) % kPIN_MODULUS
         /\ \A g \in Frame : /\ frames'[g].page_id = frames[g].page_id
                             /\ g # f => frames'[g].pin_count = frames[g].pin_count
                             /\ frames'[g].is_dirty = IF g = f THEN frames[g].is_dirty \/ d
                                                      ELSE frames[g].is_dirty
                             /\ frames'[g].page = frames[g].page
<1> DEFINE n == (frames[f].pin_count + kPIN_MODULUS - 1) % kPIN_MODULUS
<1>1. frames \in [Frame -> FrameRec] /\ frames[f].pin_count + kPIN_MODULUS - 1 \in Int
  BY FrameTypes, ConstantTypes
<1>2. n \in 0 .. kPIN_MODULUS - 1
  BY <1>1, PinRange
<1> DEFINE b == frames[f].is_dirty \/ d
           G == [frames EXCEPT ![f].pin_count = n, ![f].is_dirty = b]
<1>3. b \in BOOLEAN
  OBVIOUS
<1>4. frames' = G
  <2>1. frames' = [frames EXCEPT ![f].pin_count = n, ![f].is_dirty = @ \/ d]
    BY <1>1 DEF Unpinned
  <2> QED
    BY <2>1, Zenon
<1>5. b = (frames[f].is_dirty \/ d)
  OBVIOUS
<1>6. n = (frames[f].pin_count + kPIN_MODULUS - 1) % kPIN_MODULUS
  OBVIOUS
<1> HIDE DEF n, b
<1>7. /\ G \in [Frame -> FrameRec]
      /\ \A g \in Frame : /\ G[g].page_id = frames[g].page_id
                          /\ G[g].pin_count = IF g = f THEN n ELSE frames[g].pin_count
                          /\ G[g].is_dirty = IF g = f THEN b ELSE frames[g].is_dirty
                          /\ G[g].page = frames[g].page
  BY <1>1, <1>2, <1>3 DEF FrameRec
<1> HIDE DEF G
<1> QED
  BY <1>4, <1>5, <1>6, <1>7

(* The new page is unpinned, dirty.                                        *)
LEMMA FilledKeeps ==
  ASSUME FewThreads, NEW L, ChainInv(L), NEW t \in Thread, Filled(t)
  PROVE  ChainInv(L)'
<1>1. /\ pc[t] = "filled" /\ frames' = Unpinned(call[t].fresh, TRUE) /\ Goto(t, "link")
      /\ UNCHANGED <<allocVars, disk, call, rowVars, lost, calls>>
  BY DEF Filled
<1>2. /\ TypeOK /\ WalkOK(L, t) /\ RowOK(t) /\ CreatorOK(L, t) /\ Places(L) /\ PinsCounted
      /\ Locks /\ INVALID_PAGE_ID \notin Page
  BY ConstantTypes DEF ChainInv
<1>3. PICK f \in Frame : f = call[t].fresh
  BY <1>1, <1>2 DEF CreatorOK, Creating
<1>4. /\ frames[f].page_id \in Page \ ToSet(L) /\ frames[f].page = init
      /\ \A u \in Thread \ {t} : Creating(u) => call[u].fresh # f
  BY <1>1, <1>2, <1>3 DEF CreatorOK, Creating
<1>5. frames \in [Frame -> FrameRec]
  BY <1>2, <1>3, FrameTypes
<1>6. pc \in [Thread -> PC] /\ pc' \in [Thread -> PC] /\ pc'[t] = "link" /\ Others(t) /\ call' = call
  BY <1>1, <1>2 DEF TypeOK, PC, Goto, Others
<1>7. /\ frames' \in [Frame -> FrameRec]
      /\ frames'[f].pin_count = (frames[f].pin_count + kPIN_MODULUS - 1) % kPIN_MODULUS
      /\ \A g \in Frame : /\ frames'[g].page_id = frames[g].page_id
                          /\ g # f => frames'[g].pin_count = frames[g].pin_count
                          /\ frames'[g].is_dirty = IF g = f THEN frames[g].is_dirty \/ TRUE
                                                   ELSE frames[g].is_dirty
                          /\ frames'[g].page = frames[g].page
  BY <1>1, <1>2, <1>3, <1>4, UnpinnedIs
<1>8. TypeOK'
  BY <1>1, <1>2, <1>6, <1>7 DEF TypeOK, FrameRec, allocVars, rowVars
<1>9. Quiet(t)
  BY <1>1, <1>2, <1>4, <1>6, <1>7 DEF Quiet, Creating, CreatorOK, ChainInv
<1>10. /\ OneHolder' /\ HeldPages(L)' /\ InCreation' = InCreation
       /\ \A u \in Thread \ {t} : WalkOK(L, u)' /\ RowOK(u)' /\ CreatorOK(L, u)'
       /\ \A i \in 1 .. Len(L) : PageKept(L, i)'
       /\ RowPages(L)'
  BY <1>1, <1>6, <1>7, <1>9, PlainStep
<1>11. PinsCounted'
  <2>1. call[t].frame # f /\ call[t].fresh = f
    BY <1>1, <1>2, <1>3, <1>4 DEF WalkOK, Working
  <2>2. Uses(t, f) /\ ~Uses(t, f)'
    BY <1>1, <1>6, <2>1 DEF Uses
  <2>3. \A g \in Frame \ {f} : Uses(t, g)' <=> Uses(t, g)
    BY <1>1, <1>6, <2>1 DEF Uses, Working
  <2>4. \A g \in Frame :
          \/ frames'[g].pin_count = frames[g].pin_count /\ (Uses(t, g)' <=> Uses(t, g))
          \/ /\ frames'[g].pin_count = (frames[g].pin_count + kPIN_MODULUS - 1) % kPIN_MODULUS
             /\ Uses(t, g) /\ ~Uses(t, g)'
    BY <1>7, <2>2, <2>3
  <2> QED
    BY <1>2, <1>6, <2>4, PinsStep
<1>12. Places(L)'
  BY <1>1, <1>2, <1>10, PlacesKept DEF allocVars
<1>13. WalkOK(L, t)'
  BY <1>1, <1>2, <1>6, <1>7 DEF WalkOK, Working
<1>14. CreatorOK(L, t)'
  <2>1. \A u \in Thread \ {t} : Creating(u)' => call'[u].fresh # f
    BY <1>4, <1>6 DEF Others, Creating
  <2> QED
    BY <1>2, <1>3, <1>4, <1>6, <1>7, <2>1 DEF CreatorOK
<1>15. RowOK(t)'
  BY <1>1, <1>2, <1>6 DEF RowOK, OnItsRow, rowVars
<1>16. Locks'
  BY <1>2, <1>6, LocksKept
<1> QED
  BY <1>8, <1>10, <1>11, <1>12, <1>13, <1>14, <1>15, <1>16 DEF ChainInv

(* delete_page of the new page: nobody pins it, and its id is free, or     *)
(* lost when the free list is full.                                        *)
LEMMA DropKeeps ==
  ASSUME FewThreads, NEW L, ChainInv(L), NEW t \in Thread, Drop(t)
  PROVE  ChainInv(L)'
<1>1. /\ pc[t] = "drop" /\ Unneeded(call[t].fresh) /\ Goto(t, "unpin")
      /\ UNCHANGED <<disk, call, rowVars, calls>>
  BY DEF Drop
<1>2. /\ TypeOK /\ WalkOK(L, t) /\ RowOK(t) /\ CreatorOK(L, t) /\ Places(L) /\ PinsCounted
      /\ Locks /\ OneHolder /\ INVALID_PAGE_ID \notin Page
  BY ConstantTypes DEF ChainInv
<1>0. PICK f \in Frame, p \in Page : f = call[t].fresh /\ p = frames[f].page_id
  BY <1>1, <1>2 DEF CreatorOK, Creating
<1>3. /\ p \notin ToSet(L) /\ p = frames[f].page_id /\ f = call[t].fresh
      /\ \A u \in Thread \ {t} : Creating(u) => call[u].fresh # f
  BY <1>0, <1>1, <1>2 DEF CreatorOK, Creating
<1>4. /\ frames \in [Frame -> FrameRec] /\ free_list \in Seq(Page) /\ lost \subseteq Page
      /\ Len(free_list) \in Nat
  BY <1>2, <1>3, FrameTypes, LenProperties DEF TypeOK
<1>5. \A u \in Thread : Working(u) => call[u].frame # f
  BY <1>3 DEF ChainInv, WalkOK
<1>6. \A u \in Thread : ~Uses(u, f)
  BY <1>1, <1>3, <1>5 DEF Uses, Creating
<1>7. Users(f) = {} /\ ~(frames[f].pin_count > 0)
  <2>1. Users(f) = {}
    BY <1>6 DEF Users
  <2> QED
    BY <1>2, <1>3, <2>1, NoUsers
<1>8. /\ frames' = [frames EXCEPT ![f] = EmptyFrame] /\ deallocate(p)
      /\ lost' = IF Len(free_list) > kFREE_LIST_LIMIT THEN lost \cup {p} ELSE lost
  BY <1>1, <1>3, <1>7 DEF Unneeded
<1>9. /\ frames' \in [Frame -> FrameRec] /\ frames'[f] = EmptyFrame
      /\ \A g \in Frame \ {f} : frames'[g] = frames[g]
  BY <1>3, <1>4, <1>8, InitIs
<1>10. /\ frames'[f].page_id = INVALID_PAGE_ID /\ frames'[f].pin_count = 0
       /\ ~frames'[f].is_dirty
  BY <1>9 DEF EmptyFrame
<1>11. pc \in [Thread -> PC] /\ pc' \in [Thread -> PC] /\ pc'[t] = "unpin" /\ Others(t) /\ call' = call
  BY <1>1, <1>2 DEF TypeOK, PC, Goto, Others
<1>12. p \in InCreation
  <2>1. Creating(t)
    BY <1>1 DEF Creating
  <2> QED
    BY <1>3, <2>1, InCreationIs
<1>13. InCreation' = InCreation \ {p}
  <2>1. /\ \A u \in Thread \ {t} : /\ Creating(u)' <=> Creating(u)
        /\ Creating(t) /\ ~Creating(t)' /\ frames[call[t].fresh].page_id = p
    BY <1>1, <1>3, <1>11 DEF Others, Creating
  <2>2. \A u \in Thread \ {t} : Creating(u) => /\ frames'[call'[u].fresh] = frames[call[u].fresh]
                                               /\ frames[call[u].fresh].page_id # p
    <3> SUFFICES ASSUME NEW u \in Thread \ {t}, Creating(u)
                 PROVE  /\ frames'[call'[u].fresh] = frames[call[u].fresh]
                        /\ frames[call[u].fresh].page_id # p
      OBVIOUS
    <3>1. call[u].fresh \in Frame \ {f} /\ call' = call
      BY <1>3, <1>11 DEF ChainInv, CreatorOK
    <3>2. frames[call[u].fresh].page_id # p
      BY <1>2, <1>3, <3>1 DEF OneHolder
    <3> QED
      BY <1>9, <3>1, <3>2
  <2> DEFINE New == {u \in Thread : Creating(u)'}
             Id(u) == frames[call[u].fresh].page_id
             Id2(u) == frames'[call'[u].fresh].page_id
  <2>3. {u \in Thread : Creating(u)} = New \cup {t} /\ t \notin New
    BY <2>1
  <2>4. \A u \in New : Id2(u) = Id(u) /\ Id(u) # p
    BY <2>1, <2>2
  <2>5. Id(t) = p
    BY <2>1
  <2>6. InCreation' = {Id2(u) : u \in New} /\ InCreation = {Id(u) : u \in New \cup {t}}
    BY <2>3, InCreationIs
  <2> HIDE DEF New, Id, Id2
  <2> QED
    BY <2>3, <2>4, <2>5, <2>6
<1>14. /\ free_list' \in Seq(Page) /\ lost' \subseteq Page /\ capacity' = capacity /\ Places(L)'
  <2>1. CASE Len(free_list) > kFREE_LIST_LIMIT
    <3>1. free_list' = free_list /\ lost' = lost \cup {p} /\ capacity' = capacity
      BY <1>8, <2>1 DEF deallocate
    <3> QED
      BY <1>2, <1>3, <1>4, <1>12, <1>13, <3>1 DEF Places
  <2>2. CASE ~(Len(free_list) > kFREE_LIST_LIMIT)
    <3>1. free_list' = Append(free_list, p) /\ lost' = lost /\ capacity' = capacity
      BY <1>8, <2>2 DEF deallocate
    <3>2. p \notin ToSet(free_list) /\ IsInjective(free_list)
      BY <1>2, <1>12 DEF Places
    <3>3. /\ free_list' \in Seq(Page) /\ IsInjective(free_list')
          /\ ToSet(free_list') = ToSet(free_list) \cup {p}
      BY <1>3, <1>4, <3>1, <3>2, AppendedProperties
    <3> QED
      BY <1>2, <1>3, <1>4, <1>12, <1>13, <3>1, <3>3 DEF Places
  <2> QED
    BY <2>1, <2>2
<1>15. TypeOK'
  BY <1>1, <1>2, <1>9, <1>11, <1>14 DEF TypeOK, FrameRec, rowVars
<1>16. OneHolder'
  BY <1>2, <1>9, <1>10 DEF OneHolder
<1>17. HeldPages(L)'
  <2>1. \A g \in Frame \ {f} : frames[g].page_id # p
    BY <1>2, <1>3 DEF OneHolder
  <2> QED
    BY <1>9, <1>10, <1>13, <2>1 DEF HeldPages, ChainInv
<1>18. PinsCounted'
  <2>1. \A g \in Frame \ {f} : Uses(t, g)' <=> Uses(t, g)
    BY <1>1, <1>11 DEF Uses, Working
  <2>2. ~Uses(t, f)'
    BY <1>1, <1>5, <1>11 DEF Uses, Working
  <2>3. \A g \in Frame :
          \/ frames'[g].pin_count = frames[g].pin_count /\ (Uses(t, g)' <=> Uses(t, g))
          \/ frames'[g].pin_count = 0 /\ Users(g) = {} /\ ~Uses(t, g)'
    BY <1>7, <1>9, <1>10, <2>1, <2>2
  <2> QED
    BY <1>2, <1>11, <2>3, PinsStep
<1>19. ASSUME NEW u \in Thread \ {t} PROVE WalkOK(L, u)' /\ RowOK(u)' /\ CreatorOK(L, u)'
  <2>1. WalkOK(L, u) /\ RowOK(u) /\ CreatorOK(L, u)
    BY DEF ChainInv
  <2>2. Working(u) => frames'[call[u].frame].page_id = frames[call[u].frame].page_id
    BY <1>5, <1>9, <2>1 DEF WalkOK
  <2>3. WalkOK(L, u)'
    BY <1>11, <2>1, <2>2, WalkOthers
  <2>4. RowOK(u)'
    BY <1>1, <1>11, <2>1, RowOthers DEF rowVars, RowOK
  <2>5. Creating(u) => /\ frames'[call[u].fresh] = frames[call[u].fresh]
                       /\ frames[call[u].fresh].page_id \notin ToSet(L)
    BY <1>3, <1>9, <2>1 DEF CreatorOK
  <2>6. ~Creating(t)'
    BY <1>11 DEF Creating
  <2>7. CreatorOK(L, u)'
    BY <1>11, <2>1, <2>5, <2>6, CreatorOthers
  <2> QED
    BY <2>3, <2>4, <2>7
<1>20. ASSUME NEW i \in 1 .. Len(L) PROVE PageKept(L, i)'
  <2>1. PageKept(L, i) /\ L[i] \in ToSet(L) /\ L[i] # INVALID_PAGE_ID
    BY <1>2, LineIs DEF ChainInv
  <2>2. ASSUME NEW g \in Frame, frames[g].page_id = L[i] \/ frames'[g].page_id = L[i]
        PROVE  g # f /\ frames'[g] = frames[g] /\ (Behind(g) => Behind(g)')
    <3>1. g # f /\ frames'[g] = frames[g]
      BY <1>3, <1>9, <1>10, <2>1, <2>2
    <3> QED
      BY <1>1, <1>11, <3>1 DEF Behind, Pending, Others
  <2>3. disk' = disk /\ rows' = rows /\ unsaved' = unsaved
    BY <1>1 DEF rowVars
  <2> QED
    BY <2>1, <2>2, <2>3 DEF PageKept
<1>21. WalkOK(L, t)' /\ CreatorOK(L, t)'
  <2>1. Working(t) /\ Working(t)'
    BY <1>1, <1>11 DEF Working
  <2>2. call[t].frame \in Frame /\ frames'[call[t].frame] = frames[call[t].frame]
    BY <1>2, <1>5, <1>9, <2>1 DEF WalkOK
  <2> QED
    BY <1>1, <1>2, <1>11, <2>1, <2>2 DEF WalkOK, CreatorOK, Creating, Starts
<1>22. RowOK(t)'
  BY <1>1, <1>2, <1>11 DEF RowOK, OnItsRow, rowVars
<1>23. Locks'
  BY <1>2, <1>11, LocksKept
<1>24. RowPages(L)'
  BY <1>1 DEF RowPages, ChainInv, rowVars
<1> QED
  BY <1>14, <1>15, <1>16, <1>17, <1>18, <1>19, <1>20, <1>21, <1>22, <1>23, <1>24 DEF ChainInv

-----------------------------------------------------------------------------
(* What a page shows does not depend on its link.                          *)
LEMMA Relinked ==
  ASSUME NEW p, GoodPage(p), NEW n \in PageOrNot
  PROVE  LET q == [p EXCEPT !.next_page_id = n]
         IN  /\ GoodPage(q) /\ q.next_page_id = n
             /\ \A s : RowOf(q, s) = RowOf(p, s)
<1> DEFINE q == [p EXCEPT !.next_page_id = n]
<1>1. PICK r : Sound(p, r, kPAGE_SIZE)
  BY DEF GoodPage
<1>2. p \in PageType
  BY <1>1 DEF Sound
<1>3. n \in Nat \cup {INVALID_PAGE_ID}
  BY ConstantTypes DEF PageOrNot
<1>4. /\ q \in PageType /\ q.next_page_id = n
      /\ q.free_space_offset = p.free_space_offset
      /\ q.slots = p.slots /\ q.data = p.data
  BY <1>2, <1>3 DEF PageType
<1> HIDE DEF q
<1>5. /\ slot_count(q) = slot_count(p) /\ SlotNums(q) = SlotNums(p) /\ SlotsEnd(q) = SlotsEnd(p)
      /\ \A s : slot(q, s) = slot(p, s)
  BY <1>4 DEF slot_count, SlotNums, slot, SlotsEnd
<1>6. \A s : has_slot(q, s) <=> has_slot(p, s)
  BY <1>5 DEF has_slot
<1>7. Occupied(q) = Occupied(p)
  BY <1>5, <1>6 DEF Occupied
<1>8. PackedEnd(q) = PackedEnd(p)
  <2> DEFINE k == slot_count(p)
  <2>1. k \in Nat /\ k \notin SlotNums(p)
    BY <1>2, SlotTypes
  <2>2. Used(p, k) = 0 /\ Used(q, k) = 0
    BY <1>5, <2>1 DEF Used, has_slot
  <2>3. \A s \in SlotNums(p) \ {k} : Used(q, s) = Used(p, s)
    BY <1>5, <1>6 DEF Used
  <2>4. PackedEnd(q) = PackedEnd(p) + Used(p, k) - Used(q, k)
    BY <1>2, <1>4, <1>5, <2>1, <2>3, PackedChange
  <2>5. PackedEnd(p) \in Int
    <3>1. /\ Packed(p) \in [-1 .. k - 1 -> Int]
      BY <1>2, PackedFalls
    <3>2. k - 1 \in -1 .. k - 1
      BY <2>1
    <3> HIDE DEF k
    <3>3. Packed(p)[k - 1] \in Int
      BY <3>1, <3>2
    <3> QED
      BY <3>3 DEF PackedEnd, k
  <2> QED
    BY <2>2, <2>4, <2>5
<1>9. Sound(q, r, kPAGE_SIZE)
  <2>1. \A s : Lies(q, s) <=> Lies(p, s)
    BY <1>4, <1>5 DEF Lies
  <2>2. \A s, t : Apart(q, s, t) <=> Apart(p, s, t)
    BY <1>5 DEF Apart
  <2>3. \A s, u : Shows(q, s, u) <=> Shows(p, s, u)
    BY <1>4, <1>5, <1>6 DEF Shows
  <2> QED
    BY <1>1, <1>4, <1>5, <1>7, <1>8, <2>1, <2>2, <2>3 DEF Sound
<1>10. \A s : RowOf(q, s) = RowOf(p, s)
  <2>1. ASSUME NEW s PROVE get_tuple(q, s) = get_tuple(p, s)
    <3>1. q.data = p.data /\ slot(q, s) = slot(p, s) /\ (has_slot(q, s) <=> has_slot(p, s))
      BY <1>4, <1>5, <1>6
    <3>2. CASE has_slot(p, s)
      <4>1. get_tuple(p, s) =
              [i \in 1 .. slot(p, s).length |-> p.data[slot(p, s).offset + i - 1]]
        BY <3>2 DEF get_tuple
      <4>2. get_tuple(q, s) =
              [i \in 1 .. slot(q, s).length |-> q.data[slot(q, s).offset + i - 1]]
        BY <3>1, <3>2 DEF get_tuple
      <4> QED
        BY <3>1, <4>1, <4>2
    <3>3. CASE ~has_slot(p, s)
      BY <3>1, <3>3 DEF get_tuple
    <3> QED
      BY <3>2, <3>3
  <2> QED
    BY <2>1 DEF RowOf
<1> QED
  BY <1>4, <1>9, <1>10 DEF q, GoodPage

LEMMA GoodIsHeapPage ==
  ASSUME NEW p, GoodPage(p), p.next_page_id \in PageOrNot
  PROVE  p \in HeapPage
<1>1. p \in PageType
  BY DEF GoodPage, Sound
<1>2. kPAGE_SIZE \in Nat /\ PageHeaderBytes = 8
  BY PageSize DEF PageHeaderBytes
<1>3. \A b \in PageHeaderBytes .. kPAGE_SIZE : b \in 0 .. kPAGE_SIZE
  BY <1>2
<1> QED
  BY <1>1, <1>3 DEF PageType, HeapPage

(* The page a call is at.                                                  *)
LEMMA PageAt ==
  ASSUME NEW L, ChainInv(L), NEW f \in Frame, frames[f].page_id \in ToSet(L)
  PROVE  \E i \in 1 .. Len(L) : /\ frames[f].page_id = L[i] /\ PageKept(L, i)
                                /\ Keeps(L, i, frames[f].page, rows, unsaved)
<1>1. PICK i \in 1 .. Len(L) : frames[f].page_id = L[i]
  BY LineIs DEF ChainInv
<1> QED
  BY <1>1 DEF ChainInv, PageKept

LEMMA FollowsIs ==
  ASSUME NEW L, Line(L), NEW i \in 1 .. Len(L)
  PROVE  /\ Follows(L, i) \in PageOrNot
         /\ Follows(L, i) = INVALID_PAGE_ID <=> i = Len(L)
         /\ Follows(L, i) # INVALID_PAGE_ID => /\ Follows(L, i) \in ToSet(L)
                                               /\ Ahead(L, L[i], Follows(L, i))
<1>1. /\ Len(L) \in Nat /\ INVALID_PAGE_ID \notin Page
      /\ \A j \in 1 .. Len(L) : L[j] \in ToSet(L) /\ L[j] \in Page
  BY LineIs, ConstantTypes
<1>2. CASE i < Len(L)
  <2>1. i + 1 \in 1 .. Len(L) /\ i < i + 1 /\ Follows(L, i) = L[i + 1]
    BY <1>1, <1>2 DEF Follows
  <2> QED
    BY <1>1, <1>2, <2>1 DEF Ahead, PageOrNot
<1>3. CASE ~(i < Len(L))
  BY <1>1, <1>3 DEF Follows, PageOrNot
<1> QED
  BY <1>2, <1>3

LEMMA SetGoal ==
  ASSUME NEW c \in Call, NEW q \in PageOrNot
  PROVE  /\ LET d == [c EXCEPT !.page_id = q] IN
            /\ d \in Call /\ d.page_id = q /\ d.op = c.op /\ d.rid = c.rid /\ d.tuple = c.tuple
            /\ d.fresh = c.fresh /\ d.frame = c.frame /\ d.dirty = c.dirty
         /\ LET d == [[c EXCEPT !.page_id = q] EXCEPT !.dirty = TRUE] IN
            /\ d \in Call /\ d.page_id = q /\ d.op = c.op /\ d.rid = c.rid /\ d.tuple = c.tuple
            /\ d.fresh = c.fresh /\ d.frame = c.frame /\ d.dirty = TRUE
         /\ LET d == [c EXCEPT !.dirty = TRUE, !.page_id = q] IN
            /\ d \in Call /\ d.page_id = q /\ d.op = c.op /\ d.rid = c.rid /\ d.tuple = c.tuple
            /\ d.fresh = c.fresh /\ d.frame = c.frame /\ d.dirty = TRUE
BY DEF Call

(* Another page has been linked meanwhile: the walk goes on to it.         *)
LEMMA SecondKeeps ==
  ASSUME FewThreads, NEW L, ChainInv(L), NEW t \in Thread, pc[t] = "link",
         Here(t).next_page_id # INVALID_PAGE_ID,
         call' = [call EXCEPT ![t] = Onwards(t, Here(t).next_page_id)], Goto(t, "drop"),
         UNCHANGED <<frames, allocVars, disk, rowVars, lost, calls>>
  PROVE  ChainInv(L)'
<1>1. /\ TypeOK /\ WalkOK(L, t) /\ RowOK(t) /\ CreatorOK(L, t) /\ Places(L) /\ PinsCounted
      /\ Locks /\ INVALID_PAGE_ID \notin Page /\ Line(L)
  BY ConstantTypes DEF ChainInv
<1>2. PICK f \in Frame : f = call[t].frame /\ frames[f].page_id \in ToSet(L)
  BY <1>1 DEF WalkOK, Working
<1>3. PICK i \in 1 .. Len(L) : /\ frames[f].page_id = L[i]
                               /\ Keeps(L, i, frames[f].page, rows, unsaved)
  BY <1>2, PageAt
<1>4. PICK q \in Page : /\ q = Here(t).next_page_id /\ q \in ToSet(L) /\ q # INVALID_PAGE_ID
                        /\ Ahead(L, frames[f].page_id, q)
  <2>1. Here(t).next_page_id = Follows(L, i)
    BY <1>2, <1>3 DEF Here, Keeps
  <2> QED
    BY <1>1, <1>3, <2>1, FollowsIs DEF PageOrNot
<1>5. call[t] \in Call /\ call \in [Thread -> Call] /\ q \in PageOrNot
  BY <1>1, CallTypes DEF PageOrNot
<1> DEFINE c == [call[t] EXCEPT !.page_id = q]
<1>6. /\ c \in Call /\ c.page_id = q /\ c.op = call[t].op /\ c.rid = call[t].rid
      /\ c.tuple = call[t].tuple /\ c.fresh = call[t].fresh /\ c.frame = call[t].frame
      /\ c.dirty = call[t].dirty
  BY <1>5, SetGoal
<1>7. call' = [call EXCEPT ![t] = c]
  BY <1>4 DEF Onwards
<1> HIDE DEF c
<1>8. /\ pc' \in [Thread -> PC] /\ call' \in [Thread -> Call]
      /\ pc'[t] = "drop" /\ call'[t] = c /\ Others(t)
  BY <1>1, <1>6, <1>7, StepIs DEF PC, Goto
<1>9. TypeOK'
  BY <1>1, <1>8 DEF TypeOK, allocVars, rowVars
<1>10. Quiet(t)
  BY <1>6, <1>8 DEF Quiet, Creating
<1>11. /\ OneHolder' /\ HeldPages(L)' /\ InCreation' = InCreation
       /\ \A u \in Thread \ {t} : WalkOK(L, u)' /\ RowOK(u)' /\ CreatorOK(L, u)'
       /\ \A j \in 1 .. Len(L) : PageKept(L, j)'
       /\ RowPages(L)'
  BY <1>8, <1>10, PlainStep
<1>12. PinsCounted'
  <2>1. \A g \in Frame : frames'[g].pin_count = frames[g].pin_count /\ (Uses(t, g)' <=> Uses(t, g))
    BY <1>6, <1>8 DEF Uses, Working
  <2> QED
    BY <1>1, <1>8, <2>1, PinsStep
<1>13. Places(L)'
  BY <1>1, <1>11, PlacesKept
<1>14. WalkOK(L, t)'
  BY <1>1, <1>2, <1>4, <1>6, <1>8 DEF WalkOK, Working
<1>15. CreatorOK(L, t)'
  <2>1. \A u \in Thread \ {t} : Creating(u)' <=> Creating(u)
    BY <1>8 DEF Others, Creating
  <2> QED
    BY <1>1, <1>6, <1>8, <2>1 DEF CreatorOK, Others, Creating
<1>16. RowOK(t)'
  BY <1>1, <1>6, <1>8 DEF RowOK, OnItsRow, rowVars, WalkOK
<1>17. Locks'
  BY <1>1, <1>6, <1>8, LocksKept
<1> QED
  BY <1>1, <1>9, <1>11, <1>12, <1>13, <1>14, <1>15, <1>16, <1>17 DEF ChainInv

(* The new page is linked: the line is longer by it.                       *)
LEMMA FirstKeeps ==
  ASSUME FewThreads, NEW L, ChainInv(L), NEW t \in Thread, pc[t] = "link",
         NEW p \in Page, p = frames[call[t].fresh].page_id,
         Here(t).next_page_id = INVALID_PAGE_ID,
         frames' = [frames EXCEPT ![call[t].frame].page.next_page_id = p],
         call' = [call EXCEPT ![t] = Linked(t, p)], Goto(t, "unpin"),
         UNCHANGED <<allocVars, disk, rowVars, lost, calls>>
  PROVE  ChainInv(Append(L, p))'
<1> DEFINE M == Append(L, p)
<1>1. /\ TypeOK /\ WalkOK(L, t) /\ RowOK(t) /\ CreatorOK(L, t) /\ Places(L) /\ PinsCounted
      /\ Locks /\ INVALID_PAGE_ID \notin Page /\ Line(L) /\ OneHolder
      /\ Creating(t) /\ Working(t)
  BY ConstantTypes DEF ChainInv, Creating, Working
<1>2. PICK f \in Frame, g \in Frame :
        /\ f = call[t].frame /\ g = call[t].fresh
        /\ frames[f].page_id \in ToSet(L) /\ p \notin ToSet(L) /\ p = frames[g].page_id
        /\ frames[g].page = init /\ frames[g].is_dirty
        /\ \A u \in Thread \ {t} : Creating(u) => call[u].fresh # g
  BY <1>1 DEF WalkOK, CreatorOK
<1>3. PICK n \in 1 .. Len(L) : /\ frames[f].page_id = L[n]
                               /\ Keeps(L, n, frames[f].page, rows, unsaved)
  BY <1>2, PageAt
<1>4. /\ Len(L) \in Nat /\ Len(L) >= 1 /\ L \in Seq(Page) /\ DOMAIN L = 1 .. Len(L)
      /\ \A i \in 1 .. Len(L) : L[i] \in ToSet(L) /\ L[i] \in Page
      /\ \A i, j \in 1 .. Len(L) : L[i] = L[j] => i = j
      /\ IsInjective(L) /\ L[1] = first_page_id
  BY <1>1, LineIs DEF Line
<1>5. n = Len(L)
  BY <1>1, <1>2, <1>3, FollowsIs DEF Here, Keeps
<1>6. /\ M \in Seq(Page) /\ IsInjective(M) /\ ToSet(M) = ToSet(L) \cup {p}
  BY <1>2, <1>4, AppendedProperties
<1>7. /\ Len(M) = n + 1 /\ M[n + 1] = p /\ \A i \in 1 .. n : M[i] = L[i]
  BY <1>4, <1>5, AppendProperties
<1> HIDE DEF M
<1>8. Line(M)
  BY <1>4, <1>5, <1>6, <1>7 DEF Line
<1>9. /\ \A i \in 1 .. n - 1 : Follows(M, i) = Follows(L, i)
      /\ Follows(M, n) = p /\ Follows(M, n + 1) = INVALID_PAGE_ID
  BY <1>4, <1>5, <1>7 DEF Follows
<1>10. \A a, b : Ahead(L, a, b) => Ahead(M, a, b)
  BY <1>4, <1>5, <1>7 DEF Ahead
<1>11. Ahead(M, L[n], p)
  <2>1. n \in 1 .. Len(M) /\ n + 1 \in 1 .. Len(M) /\ n < n + 1
    BY <1>4, <1>5, <1>7
  <2>2. L[n] = M[n] /\ p = M[n + 1]
    BY <1>7
  <2> QED
    BY <2>1, <2>2 DEF Ahead
<1> DEFINE pg == [frames[f].page EXCEPT !.next_page_id = p]
           c == Linked(t, p)
<1>12. call[t] \in Call /\ call \in [Thread -> Call] /\ frames \in [Frame -> FrameRec] /\ p \in PageOrNot
  BY <1>1, <1>2, CallTypes, FrameTypes DEF PageOrNot
<1>13. /\ GoodPage(pg) /\ pg.next_page_id = p
       /\ \A s : RowOf(pg, s) = RowOf(frames[f].page, s)
  BY <1>3, <1>12, Relinked DEF Keeps
<1>14. pg \in HeapPage
  BY <1>12, <1>13, GoodIsHeapPage
<1>15. /\ c \in Call /\ c.page_id = p /\ c.op = call[t].op /\ c.rid = call[t].rid
       /\ c.tuple = call[t].tuple /\ c.fresh = call[t].fresh /\ c.frame = call[t].frame
       /\ c.dirty = TRUE
  BY <1>12 DEF Linked, Onwards, Call
<1>16. call' = [call EXCEPT ![t] = c] /\ frames' = Turned(f, pg)
  BY <1>2, <1>12 DEF Turned
<1> HIDE DEF c, pg
<1>17. /\ pc' \in [Thread -> PC] /\ call' \in [Thread -> Call]
       /\ pc'[t] = "unpin" /\ call'[t] = c /\ Others(t)
  BY <1>1, <1>15, <1>16, StepIs DEF PC, Goto
<1>18. /\ frames' \in [Frame -> FrameRec]
       /\ \A h \in Frame : /\ frames'[h].page_id = frames[h].page_id
                           /\ frames'[h].pin_count = frames[h].pin_count
                           /\ frames'[h].is_dirty = frames[h].is_dirty
                           /\ frames'[h].page = IF h = f THEN pg ELSE frames[h].page
  BY <1>1, <1>14, <1>16, SetPage
<1>19. TypeOK'
  BY <1>1, <1>17, <1>18 DEF TypeOK, FrameRec, allocVars, rowVars
<1>20. OneHolder'
  BY <1>1, <1>18 DEF OneHolder
<1>21. ASSUME NEW u \in Thread \ {t}, Creating(u)
       PROVE  /\ call[u].fresh \in Frame \ {f, g} /\ frames[call[u].fresh].page_id # p
              /\ frames[call[u].fresh].page_id \notin ToSet(L)
  <2>1. /\ call[u].fresh \in Frame /\ frames[call[u].fresh].page_id \notin ToSet(L)
    BY <1>21 DEF ChainInv, CreatorOK
  <2> QED
    BY <1>1, <1>2, <1>21, <2>1 DEF OneHolder
<1>22. InCreation' = InCreation \ {p} /\ p \in InCreation
  <2>1. /\ \A u \in Thread \ {t} : Creating(u)' <=> Creating(u)
        /\ Creating(t) /\ ~Creating(t)' /\ frames[call[t].fresh].page_id = p
    BY <1>1, <1>2, <1>17 DEF Others, Creating
  <2> DEFINE New == {u \in Thread : Creating(u)'}
             Id(u) == frames[call[u].fresh].page_id
             Id2(u) == frames'[call'[u].fresh].page_id
  <2>2. {u \in Thread : Creating(u)} = New \cup {t} /\ t \notin New
    BY <2>1
  <2>3. ASSUME NEW u \in New PROVE Id2(u) = Id(u) /\ Id(u) # p
    <3>1. u \in Thread \ {t} /\ Creating(u) /\ call'[u] = call[u]
      BY <1>17, <2>1 DEF Others
    <3> QED
      BY <1>18, <1>21, <3>1
  <2>4. Id(t) = p
    BY <2>1
  <2>5. InCreation' = {Id2(u) : u \in New} /\ InCreation = {Id(u) : u \in New \cup {t}}
    BY <2>2, InCreationIs
  <2> HIDE DEF New, Id, Id2
  <2> QED
    BY <2>2, <2>3, <2>4, <2>5
<1>23. HeldPages(M)'
  BY <1>6, <1>18, <1>22 DEF HeldPages, ChainInv
<1>24. PinsCounted'
  <2>1. \A h \in Frame : frames'[h].pin_count = frames[h].pin_count /\ (Uses(t, h)' <=> Uses(t, h))
    BY <1>15, <1>17, <1>18 DEF Uses, Working
  <2> QED
    BY <1>1, <1>17, <2>1, PinsStep
<1>25. ASSUME NEW u \in Thread \ {t} PROVE WalkOK(M, u)' /\ RowOK(u)' /\ CreatorOK(M, u)'
  <2>1. WalkOK(L, u) /\ RowOK(u) /\ CreatorOK(L, u)
    BY DEF ChainInv
  <2>2. Working(u) => frames'[call[u].frame].page_id = frames[call[u].frame].page_id
    BY <1>18, <2>1 DEF WalkOK
  <2>3. WalkOK(M, u)'
    BY <1>6, <1>10, <1>17, <2>1, <2>2, WalkOthers
  <2>4. RowOK(u)'
    BY <1>17, <2>1, RowOthers DEF rowVars, RowOK
  <2>5. ~Creating(t)'
    BY <1>17 DEF Creating
  <2>6. Creating(u) =>
           /\ frames'[call[u].fresh].page_id = frames[call[u].fresh].page_id
           /\ frames'[call[u].fresh].page = frames[call[u].fresh].page
           /\ frames[call[u].fresh].is_dirty => frames'[call[u].fresh].is_dirty
           /\ frames[call[u].fresh].page_id \notin ToSet(M)
    BY <1>6, <1>18, <1>21
  <2>7. CreatorOK(M, u)'
    BY <1>17, <2>1, <2>5, <2>6, CreatorOthers
  <2> QED
    BY <2>3, <2>4, <2>7
<1>26. WalkOK(M, t)' /\ CreatorOK(M, t)'
  <2>1. c.page_id # first_page_id /\ c.page_id \in ToSet(M)
    BY <1>2, <1>4, <1>6, <1>15
  <2>2. frames'[f].page_id = L[n] /\ L[n] \in ToSet(M) /\ c.frame = f
    BY <1>2, <1>3, <1>4, <1>6, <1>15, <1>18
  <2> QED
    BY <1>1, <1>11, <1>15, <1>17, <2>1, <2>2 DEF WalkOK, CreatorOK, Creating, Working
<1>27. RowOK(t)'
  <2>1. call[t].op = "insert"
    BY <1>1 DEF WalkOK
  <2> QED
    BY <1>1, <1>15, <1>17, <2>1 DEF RowOK, OnItsRow
<1>28. Locks'
  BY <1>1, <1>15, <1>17, LocksKept
<1>29. Places(M)'
  BY <1>1, <1>2, <1>6, <1>22 DEF Places, allocVars
<1>30. RowPages(M)'
  BY <1>6 DEF RowPages, ChainInv, rowVars
<1>31. disk' = disk /\ rows' = rows /\ unsaved' = unsaved
  BY DEF rowVars
<1>32. \A h \in Frame : Behind(h) => Behind(h)'
  BY <1>17, <1>18 DEF Behind, Pending, Others
<1>33. ASSUME NEW i \in 1 .. n - 1 PROVE PageKept(M, i)'
  <2>1. PageKept(L, i) /\ M[i] = L[i] /\ L[i] # L[n] /\ Follows(M, i) = Follows(L, i)
    BY <1>4, <1>5, <1>7, <1>9 DEF ChainInv
  <2>2. \A x, r, w : Keeps(M, i, x, r, w) <=> Keeps(L, i, x, r, w)
    BY <2>1 DEF Keeps
  <2>3. \A h \in Frame : frames[h].page_id = L[i] => frames'[h].page = frames[h].page
    BY <1>3, <1>18, <2>1
  <2> QED
    BY <1>18, <1>31, <1>32, <2>1, <2>2, <2>3 DEF PageKept
<1>34. PageKept(M, n)'
  <2>1. M[n] = L[n] /\ \A h \in Frame : frames'[h].page_id = L[n] <=> h = f
    <3>1. L[n] # INVALID_PAGE_ID /\ M[n] = L[n]
      BY <1>1, <1>4, <1>5, <1>7
    <3> QED
      BY <1>1, <1>3, <1>18, <3>1 DEF OneHolder
  <2>2. Keeps(M, n, pg, rows, unsaved)
    BY <1>3, <1>9, <1>13, <2>1 DEF Keeps
  <2>3. Behind(f)'
    BY <1>2, <1>15, <1>17 DEF Behind, Pending
  <2> QED
    BY <1>18, <1>31, <2>1, <2>2, <2>3 DEF PageKept
<1>35. PageKept(M, n + 1)'
  <2>1. \A h \in Frame : frames'[h].page_id = p <=> h = g
    BY <1>1, <1>2, <1>18 DEF OneHolder
  <2>2. frames'[g].page = init /\ frames'[g].is_dirty
    BY <1>2, <1>18
  <2>3. \A s : Rid(p, s) \notin DOMAIN rows
    <3>1. \A s : Rid(p, s).page_id = p
      BY DEF Rid
    <3> QED
      BY <1>2, <3>1 DEF ChainInv, RowPages
  <2>4. GoodPage(init) /\ (\A s : RowOf(init, s) = NoTuple) /\ init.next_page_id = INVALID_PAGE_ID
    BY InitGood DEF init
  <2>5. Keeps(M, n + 1, init, rows, unsaved)
    BY <1>7, <1>9, <2>3, <2>4 DEF Keeps, Fits, Expected
  <2>6. Behind(g)'
    BY <2>2 DEF Behind
  <2> QED
    BY <1>7, <1>31, <2>1, <2>2, <2>5, <2>6 DEF PageKept
<1>36. \A i \in 1 .. Len(M) : PageKept(M, i)'
  <2>1. \A i \in 1 .. n + 1 : i \in 1 .. n - 1 \/ i = n \/ i = n + 1
    BY <1>4, <1>5
  <2> QED
    BY <1>7, <1>33, <1>34, <1>35, <2>1
<1> QED
  BY <1>8, <1>19, <1>20, <1>23, <1>24, <1>25, <1>26, <1>27, <1>28, <1>29, <1>30, <1>36
  DEF ChainInv, M

(* So a step leaves the line as it is, or longer by a page.                *)
Grown(L, M) == M = L \/ \E p \in Page : M = Append(L, p)

LEMMA LinkKeeps ==
  ASSUME FewThreads, NEW L, ChainInv(L), NEW t \in Thread, Link(t)
  PROVE  \E M : ChainInv(M)' /\ Grown(L, M)
<1>1. /\ pc[t] = "link" /\ UNCHANGED <<allocVars, disk, rowVars, lost, calls>>
  BY DEF Link
<1>2. CASE Here(t).next_page_id = INVALID_PAGE_ID
  <2>1. PICK p \in Page : p = frames[call[t].fresh].page_id
    BY <1>1 DEF ChainInv, CreatorOK, Creating
  <2>2. ChainInv(Append(L, p))'
    BY <1>1, <1>2, <2>1, FirstKeeps DEF Link
  <2> QED
    BY <2>2 DEF Grown
<1>3. CASE Here(t).next_page_id # INVALID_PAGE_ID
  <2>1. ChainInv(L)'
    BY <1>1, <1>3, SecondKeeps DEF Link
  <2> QED
    BY <2>1 DEF Grown
<1> QED
  BY <1>2, <1>3

-----------------------------------------------------------------------------
(* Under the page latch.  The step of a call that turns its page into "pg" *)
(* keeps the invariant if the page then shows the rows as they are to be.  *)
Rest(t, i, L, c, label) ==
  /\ c.frame = call[t].frame /\ c.rid = call[t].rid
  /\ call[t].op = "get" => c.op = "get"
  /\ c.op \in {"insert", "update"} => /\ call[t].op \in {"insert", "update"}
                                      /\ c.tuple \in Tuple
  /\ c.op \in {"roll back", "restore"} => call[t].op \in {"roll back", "restore"}
  /\ c.page_id \in ToSet(L) \cup {INVALID_PAGE_ID}
  /\ label = "extend" => ~c.dirty /\ c.op = "insert" /\ c.page_id = INVALID_PAGE_ID
  /\ c.op \in {"insert", "scan"} /\ c.page_id # INVALID_PAGE_ID
       /\ ~(c.dirty /\ c.page_id = first_page_id) => Ahead(L, L[i], c.page_id)
RowsAre(L, i, pg, r, w, r2, w2) ==
  /\ DOMAIN r2 \subseteq RIDs /\ \A rid \in DOMAIN r2 : r2[rid] \in Tuple /\ rid.page_id \in ToSet(L)
  /\ w2 \subseteq DOMAIN r2
  /\ \A s \in Nat : Fits(Rid(L[i], s), RowOf(pg, s), r2, w2)
  /\ \A j \in 1 .. Len(L) : L[j] # L[i] =>
       \A s \in Nat : \A u : Fits(Rid(L[j], s), u, r, w) => Fits(Rid(L[j], s), u, r2, w2)

LEMMA WorkedKeeps ==
  ASSUME FewThreads, NEW L, ChainInv(L), NEW t \in Thread, pc[t] = "work",
         NEW f \in Frame, f = call[t].frame, NEW i \in 1 .. Len(L), frames[f].page_id = L[i],
         NEW pg, GoodPage(pg), pg.next_page_id = Follows(L, i),
         NEW c \in Call, NEW label \in {"unpin", "extend"}, Works(t, pg, c, label),
         Rest(t, i, L, c, label),
         RowsAre(L, i, pg, rows, unsaved, rows', unsaved'),
         \/ frames[f].is_dirty \/ (c.dirty /\ label = "unpin")
         \/ \A s \in Nat : \A u : Fits(Rid(L[i], s), u, rows, unsaved)
                                    => Fits(Rid(L[i], s), u, rows', unsaved'),
         c.op \in {"get", "update", "delete", "roll back", "restore"}
           /\ c.page_id # INVALID_PAGE_ID =>
             /\ c.rid \in RIDs /\ c.page_id = c.rid.page_id
             /\ c.op = "restore" /\ c.tuple \in Tuple /\ c.rid \notin DOMAIN rows',
         \A u \in Thread \ {t} : call[u].op = "restore" /\ OnItsRow(u) =>
                                   call[u].rid \notin DOMAIN rows'
  PROVE  ChainInv(L)'
<1>1. /\ TypeOK /\ WalkOK(L, t) /\ Places(L) /\ PinsCounted /\ OneHolder
      /\ Locks /\ INVALID_PAGE_ID \notin Page /\ Line(L)
  BY ConstantTypes DEF ChainInv
<1>2. /\ frames' = Turned(f, pg) /\ call' = [call EXCEPT ![t] = c]
      /\ Goto(t, label) /\ UNCHANGED <<capacity, free_list, disk, lost, calls>>
  BY DEF Works, allocVars, Turned
<1>3. /\ pc' \in [Thread -> PC] /\ call' \in [Thread -> Call]
      /\ pc'[t] = label /\ call'[t] = c /\ Others(t)
  BY <1>1, <1>2, StepIs DEF PC, Goto
<1>4. pg \in HeapPage /\ L[i] \in ToSet(L) /\ L[i] \in Page
  BY <1>1, GoodIsHeapPage, FollowsIs, LineIs
<1>5. /\ frames' \in [Frame -> FrameRec]
      /\ \A h \in Frame : /\ frames'[h].page_id = frames[h].page_id
                          /\ frames'[h].pin_count = frames[h].pin_count
                          /\ frames'[h].is_dirty = frames[h].is_dirty
                          /\ frames'[h].page = IF h = f THEN pg ELSE frames[h].page
  BY <1>1, <1>2, <1>4, SetPage
<1>6. TypeOK'
  BY <1>1, <1>2, <1>3, <1>5 DEF TypeOK, FrameRec, RowsAre
<1>7. Quiet(t)
  <2>1. \A u \in Thread \ {t} : Creating(u) => call[u].fresh # f
    BY <1>4 DEF ChainInv, CreatorOK
  <2>2. \A u \in Thread \ {t} : Creating(u) => call[u].fresh \in Frame
    BY DEF ChainInv, CreatorOK
  <2>3. ~Creating(t) /\ ~Creating(t)'
    BY <1>3 DEF Creating
  <2> QED
    BY <1>5, <2>1, <2>2, <2>3 DEF Quiet
<1>8. /\ OneHolder' /\ HeldPages(L)' /\ InCreation' = InCreation
      /\ \A u \in Thread \ {t} : WalkOK(L, u)' /\ CreatorOK(L, u)'
  BY <1>3, <1>7, QuietStep
<1>9. ASSUME NEW u \in Thread \ {t} PROVE RowOK(u)'
  BY <1>3, RowOthers DEF ChainInv
<1>10. PinsCounted'
  <2>1. \A h \in Frame : frames'[h].pin_count = frames[h].pin_count /\ (Uses(t, h)' <=> Uses(t, h))
    BY <1>3, <1>5 DEF Uses, Working, Rest
  <2> QED
    BY <1>1, <1>3, <2>1, PinsStep
<1>11. Places(L)'
  BY <1>1, <1>2, <1>8, PlacesKept DEF allocVars
<1>12. WalkOK(L, t)' /\ CreatorOK(L, t)'
  <2>1. c.frame = f /\ frames'[f].page_id = L[i]
    BY <1>5 DEF Rest
  <2> QED
    BY <1>3, <1>4, <2>1 DEF WalkOK, CreatorOK, Creating, Working, Rest, Starts
<1>13. RowOK(t)'
  BY <1>3 DEF RowOK, OnItsRow, Rest
<1>14. Locks'
  BY <1>1, <1>3, LocksKept DEF Rest
<1>15. RowPages(L)'
  BY DEF RowsAre, RowPages
<1>16. ASSUME NEW h \in Frame, Behind(h) PROVE Behind(h)'
  <2>1. CASE frames[h].is_dirty
    BY <1>5, <2>1 DEF Behind
  <2>2. CASE \E u \in Thread : Pending(u, h)
    <3>1. PICK u \in Thread : Pending(u, h)
      BY <2>2
    <3>2. u # t /\ pc'[u] = pc[u] /\ call'[u] = call[u]
      BY <1>3, <3>1 DEF Pending, Others
    <3>3. Pending(u, h)'
      BY <3>1, <3>2 DEF Pending
    <3> QED
      BY <3>3 DEF Behind
  <2> QED
    BY <1>16, <2>1, <2>2 DEF Behind
<1>17. ASSUME NEW j \in 1 .. Len(L), L[j] # L[i] PROVE PageKept(L, j)'
  <2>1. PageKept(L, j) /\ L[j] \in Page
    BY <1>1, LineIs DEF ChainInv
  <2>2. \A s \in Nat : \A u : Fits(Rid(L[j], s), u, rows, unsaved)
                             => Fits(Rid(L[j], s), u, rows', unsaved')
    BY <1>17 DEF RowsAre
  <2>3. \A h \in Frame : /\ frames'[h].page_id = frames[h].page_id
                         /\ frames'[h].page_id = L[j] =>
                               /\ frames'[h].page = frames[h].page
                               /\ Behind(h) => Behind(h)'
    BY <1>5, <1>16, <1>17
  <2> QED
    BY <1>2, <2>1, <2>2, <2>3, PageQuiet
<1>18. PageKept(L, i)'
  <2>1. PageKept(L, i) /\ L[i] # INVALID_PAGE_ID
    BY <1>1, <1>4 DEF ChainInv
  <2>2. \A h \in Frame : (frames[h].page_id = L[i] <=> h = f) /\ frames'[h].page_id = frames[h].page_id
    <3> TAKE h \in Frame
    <3>1. frames[f].page_id = L[i] /\ frames'[h].page_id = frames[h].page_id
      BY <1>5
    <3>2. frames[h].page_id = L[i] => h = f
      BY <1>1, <2>1, <3>1 DEF OneHolder
    <3> QED
      BY <3>1, <3>2
  <2>3. Keeps(L, i, frames'[f].page, rows', unsaved')
    BY <1>5 DEF Keeps, RowsAre
  <2>4. Behind(f)' \/ Keeps(L, i, disk'[L[i]], rows', unsaved')
    <3>1. CASE Behind(f)
      BY <1>16, <3>1
    <3>2. CASE c.dirty /\ label = "unpin"
      <4>1. Pending(t, f)'
        BY <1>3, <3>2 DEF Pending, Rest
      <4> QED
        BY <4>1 DEF Behind
    <3>3. CASE ~Behind(f) /\ \A s \in Nat : \A u : Fits(Rid(L[i], s), u, rows, unsaved)
                                    => Fits(Rid(L[i], s), u, rows', unsaved')
      <4>1. Keeps(L, i, disk[L[i]], rows, unsaved)
        BY <2>1, <2>2, <3>3 DEF PageKept
      <4> QED
        BY <1>2, <3>3, <4>1 DEF Keeps
    <3> QED
      BY <3>1, <3>2, <3>3 DEF Behind
  <2> QED
    BY <2>2, <2>3, <2>4 DEF PageKept
<1>19. ASSUME NEW u \in Thread PROVE WalkOK(L, u)' /\ RowOK(u)' /\ CreatorOK(L, u)'
  <2>1. CASE u = t
    BY <1>12, <1>13, <2>1
  <2>2. CASE u # t
    BY <1>8, <1>9, <2>2
  <2> QED
    BY <2>1, <2>2
<1>20. ASSUME NEW j \in 1 .. Len(L) PROVE PageKept(L, j)'
  <2>1. CASE L[j] # L[i]
    BY <1>17, <2>1
  <2>2. CASE L[j] = L[i]
    <3>1. j = i
      BY <1>1, <2>2, LineIs
    <3> QED
      BY <1>18, <3>1
  <2> QED
    BY <2>1, <2>2
<1> QED
  BY <1>1, <1>6, <1>8, <1>10, <1>11, <1>14, <1>15, <1>19, <1>20 DEF ChainInv

(* How the rows of the callers change.                                     *)
LEMMA RowTypes ==
  ASSUME TypeOK
  PROVE  /\ DOMAIN rows \subseteq RIDs /\ \A r \in DOMAIN rows : rows[r] \in Tuple
         /\ unsaved \subseteq DOMAIN rows
BY DEF TypeOK

LEMMA PutIs ==
  ASSUME TypeOK, NEW rid \in RIDs, NEW u \in Tuple, Put(rid, u)
  PROVE  /\ DOMAIN rows' = DOMAIN rows \cup {rid}
         /\ \A r \in DOMAIN rows' : rows'[r] \in Tuple
         /\ Expected(rid, rows') = u
         /\ \A r : r # rid => Expected(r, rows') = Expected(r, rows)
<1>1. rows' = [r \in DOMAIN rows \cup {rid} |-> IF r = rid THEN u ELSE rows[r]]
  BY DEF Put
<1>2. DOMAIN rows' = DOMAIN rows \cup {rid}
  BY <1>1
<1>3. \A r \in DOMAIN rows \cup {rid} : rows'[r] = IF r = rid THEN u ELSE rows[r]
  BY <1>1
<1> QED
  BY <1>2, <1>3, RowTypes DEF Expected

LEMMA WithoutIs ==
  ASSUME TypeOK, NEW rid \in RIDs, WithoutRow(rid)
  PROVE  /\ DOMAIN rows' = DOMAIN rows \ {rid}
         /\ \A r \in DOMAIN rows' : rows'[r] \in Tuple
         /\ Expected(rid, rows') = NoTuple
         /\ \A r : r # rid => Expected(r, rows') = Expected(r, rows)
         /\ unsaved' \subseteq DOMAIN rows' /\ \A r \in unsaved : r # rid => r \in unsaved'
<1>1. rows' = [r \in DOMAIN rows \ {rid} |-> rows[r]]
  BY DEF WithoutRow
<1>2. DOMAIN rows' = DOMAIN rows \ {rid}
  BY <1>1
<1>3. \A r \in DOMAIN rows \ {rid} : rows'[r] = rows[r]
  BY <1>1
<1>4. unsaved' = unsaved \ {rid}
  BY DEF WithoutRow
<1> QED
  BY <1>2, <1>3, <1>4, RowTypes DEF Expected

LEMMA RidIs ==
  /\ \A rid \in RIDs : rid = Rid(rid.page_id, rid.slot_num) /\ rid.slot_num \in Nat
  /\ \A p \in Page, s \in Nat : Rid(p, s) \in RIDs
  /\ \A p, s : Rid(p, s).page_id = p /\ Rid(p, s).slot_num = s
BY DEF RIDs, Rid

(* The page, and the rows, have changed in one slot.                       *)
LEMMA OneRow ==
  ASSUME NEW L, ChainInv(L), NEW i \in 1 .. Len(L), NEW p, Keeps(L, i, p, rows, unsaved),
         NEW k \in Nat, NEW pg, \A s : s # k => RowOf(pg, s) = RowOf(p, s),
         NEW rid, rid = Rid(L[i], k), RowOf(pg, k) = Expected(rid, rows'),
         DOMAIN rows' \subseteq DOMAIN rows \cup {rid},
         \A r \in DOMAIN rows' : rows'[r] \in Tuple,
         \A r : r # rid => Expected(r, rows') = Expected(r, rows),
         unsaved' \subseteq DOMAIN rows', \A r \in unsaved : r # rid => r \in unsaved'
  PROVE  RowsAre(L, i, pg, rows, unsaved, rows', unsaved')
<1>1. L[i] \in ToSet(L) /\ L[i] \in Page
  BY LineIs DEF ChainInv
<1>2. rid \in RIDs /\ rid.page_id = L[i]
  BY <1>1, RidIs
<1>3. \A r \in DOMAIN rows : r \in RIDs /\ r.page_id \in ToSet(L)
  BY RowTypes DEF ChainInv, RowPages
<1>4. ASSUME NEW r, NEW u, Fits(r, u, rows, unsaved), r # rid
      PROVE  Fits(r, u, rows', unsaved')
  BY <1>4 DEF Fits
<1>5. ASSUME NEW s \in Nat PROVE Fits(Rid(L[i], s), RowOf(pg, s), rows', unsaved')
  <2>1. CASE s = k
    BY <2>1 DEF Fits
  <2>2. CASE s # k
    <3>1. Rid(L[i], s) # rid
      BY <2>2, RidIs
    <3>2. Fits(Rid(L[i], s), RowOf(p, s), rows, unsaved)
      BY DEF Keeps
    <3> QED
      BY <1>4, <2>2, <3>1, <3>2
  <2> QED
    BY <2>1, <2>2
<1>6. ASSUME NEW j \in 1 .. Len(L), L[j] # L[i], NEW s \in Nat, NEW u,
             Fits(Rid(L[j], s), u, rows, unsaved)
      PROVE  Fits(Rid(L[j], s), u, rows', unsaved')
  <2>1. Rid(L[j], s) # rid
    BY <1>6, RidIs
  <2> QED
    BY <1>4, <1>6, <2>1
<1>7. /\ DOMAIN rows' \subseteq RIDs
      /\ \A r \in DOMAIN rows' : rows'[r] \in Tuple /\ r.page_id \in ToSet(L)
  BY <1>1, <1>2, <1>3
<1> QED
  BY <1>5, <1>6, <1>7 DEF RowsAre

(* Nothing has changed.                                                    *)
LEMMA SameRows ==
  ASSUME NEW L, ChainInv(L), NEW i \in 1 .. Len(L), NEW p, Keeps(L, i, p, rows, unsaved),
         NEW pg, \A s : RowOf(pg, s) = RowOf(p, s), UNCHANGED rowVars
  PROVE  RowsAre(L, i, pg, rows, unsaved, rows', unsaved')
<1>1. \A r \in DOMAIN rows : r \in RIDs /\ rows[r] \in Tuple /\ r.page_id \in ToSet(L)
  BY RowTypes DEF ChainInv, RowPages
<1>2. unsaved \subseteq DOMAIN rows /\ rows' = rows /\ unsaved' = unsaved
  BY RowTypes DEF ChainInv, rowVars
<1> QED
  BY <1>1, <1>2 DEF RowsAre, Keeps

(* What a good page shows, and its link, through the calls.                *)
LEMMA GoodRow ==
  ASSUME NEW p, GoodPage(p)
  PROVE  /\ \A s : RowOf(p, s) # NoTuple <=> has_slot(p, s)
         /\ \A u, s : /\ insert_tuple(p, u, s).next_page_id = p.next_page_id
                      /\ compact(p).next_page_id = p.next_page_id
                      /\ delete_tuple(p, s).next_page_id = p.next_page_id
                      /\ try_update_in_place(p, s, u).next_page_id = p.next_page_id
                      /\ restore_tuple(p, s, u).next_page_id = p.next_page_id
                      /\ Try(p, u).page.next_page_id = p.next_page_id
<1>1. PICK r : Sound(p, r, kPAGE_SIZE)
  BY DEF GoodPage
<1>2. p \in PageType
  BY <1>1 DEF Sound
<1>3. compact(p) \in PageType
  <2>1. GoodPage(compact(p))
    BY PageCompact
  <2> QED
    BY <2>1 DEF GoodPage, Sound
<1>4. \A s : RowOf(p, s) # NoTuple <=> has_slot(p, s)
  BY <1>1, RowOfIs
<1> QED
  BY <1>2, <1>3, <1>4, LinkKept

(* A call at work, its frame and its page.                                 *)
LEMMA AtWork ==
  ASSUME NEW L, ChainInv(L), NEW t \in Thread, pc[t] = "work"
  PROVE  /\ \E f \in Frame, i \in 1 .. Len(L) :
              /\ f = call[t].frame /\ frames[f].page_id = L[i] /\ L[i] = call[t].page_id
              /\ Here(t) = frames[f].page
              /\ Keeps(L, i, Here(t), rows, unsaved)
         /\ GoodPage(Here(t)) /\ call[t] \in Call /\ ~call[t].dirty
         /\ call[t].op \in {"insert", "update"} => call[t].tuple \in Tuple
         /\ call[t].op \in {"get", "update", "delete", "roll back", "restore"} =>
              /\ call[t].rid \in RIDs /\ call[t].page_id = call[t].rid.page_id
              /\ call[t].rid.slot_num \in Nat
         /\ call[t].op = "restore" => call[t].tuple \in Tuple /\ call[t].rid \notin DOMAIN rows
<1>1. WalkOK(L, t) /\ RowOK(t) /\ TypeOK /\ Line(L) /\ INVALID_PAGE_ID \notin Page
  BY ConstantTypes DEF ChainInv
<1>2. /\ call[t].frame \in Frame /\ frames[call[t].frame].page_id \in ToSet(L)
      /\ frames[call[t].frame].page_id = call[t].page_id /\ ~call[t].dirty
  BY <1>1 DEF WalkOK, Working
<1>3. PICK i \in 1 .. Len(L) : /\ frames[call[t].frame].page_id = L[i]
                               /\ Keeps(L, i, frames[call[t].frame].page, rows, unsaved)
  BY <1>2, PageAt
<1>4. call[t].page_id # INVALID_PAGE_ID
  BY <1>1, <1>2, LineIs
<1>5. call[t].op \in {"get", "update", "delete", "roll back", "restore"} =>
        /\ call[t].rid \in RIDs /\ call[t].page_id = call[t].rid.page_id
        /\ call[t].rid.slot_num \in Nat
  BY <1>1, <1>4, RidIs DEF RowOK, OnItsRow
<1> QED
  BY <1>1, <1>2, <1>3, <1>4, <1>5, CallTypes DEF Here, Keeps, RowOK, OnItsRow

(* A row that is restored is on no other call's way.                       *)
LEMMA RestoredAlone ==
  ASSUME NEW L, ChainInv(L), NEW t \in Thread, NEW u \in Thread \ {t},
         call[u].op = "restore", OnItsRow(u)
  PROVE  /\ call[u].rid \notin DOMAIN rows
         /\ call[t].op \notin {"insert", "update"}
         /\ call[t].rid \in RIDs => call[t].rid # call[u].rid \/ call[t].op = "get"
<1>1. Locks /\ RowOK(u)
  BY DEF ChainInv
<1>2. RollingBack /\ ~Inserting
  BY <1>1 DEF RollingBack, Locks
<1> QED
  BY <1>1, <1>2 DEF Locks, RowOK, Inserting

LEMMA DoneIs ==
  ASSUME NEW t, call[t] \in Call
  PROVE  /\ Done(t) \in Call /\ Done(t).page_id = INVALID_PAGE_ID /\ Done(t).op = call[t].op
         /\ Done(t).rid = call[t].rid /\ Done(t).tuple = call[t].tuple
         /\ Done(t).frame = call[t].frame /\ Done(t).dirty
<1>1. INVALID_PAGE_ID \in PageOrNot
  BY DEF PageOrNot
<1> QED
  BY <1>1 DEF Done, Call

LEMMA OnwardsIs ==
  ASSUME NEW t, call[t] \in Call, NEW q \in PageOrNot
  PROVE  /\ Onwards(t, q) \in Call /\ Onwards(t, q).page_id = q /\ Onwards(t, q).op = call[t].op
         /\ Onwards(t, q).rid = call[t].rid /\ Onwards(t, q).tuple = call[t].tuple
         /\ Onwards(t, q).frame = call[t].frame /\ Onwards(t, q).dirty = call[t].dirty
BY DEF Onwards, Call

(* A call that leaves the rows as they are, and its page, but for the      *)
(* place of the tuples on it.                                              *)
LEMMA LookedKeeps ==
  ASSUME FewThreads, NEW L, ChainInv(L), NEW t \in Thread, pc[t] = "work",
         NEW pg, GoodPage(pg), pg.next_page_id = Here(t).next_page_id,
         \A s : RowOf(pg, s) = RowOf(Here(t), s),
         NEW q \in {Here(t).next_page_id, INVALID_PAGE_ID}, NEW label \in {"unpin", "extend"},
         call[t].op \notin {"insert", "scan"} => q = INVALID_PAGE_ID,
         label = "extend" => call[t].op = "insert" /\ q = INVALID_PAGE_ID,
         Works(t, pg, Onwards(t, q), label), UNCHANGED rowVars
  PROVE  ChainInv(L)'
<1>1. PICK f \in Frame, i \in 1 .. Len(L) :
        /\ f = call[t].frame /\ frames[f].page_id = L[i] /\ L[i] = call[t].page_id
        /\ Here(t) = frames[f].page /\ Keeps(L, i, Here(t), rows, unsaved)
  BY AtWork
<1>2. Here(t).next_page_id = Follows(L, i) /\ Line(L)
  BY <1>1 DEF Keeps, ChainInv
<1>3. /\ q \in ToSet(L) \cup {INVALID_PAGE_ID} /\ q \in PageOrNot
      /\ q # INVALID_PAGE_ID => Ahead(L, L[i], q)
  BY <1>2, FollowsIs DEF PageOrNot
<1> DEFINE c == Onwards(t, q)
<1>4. /\ c \in Call /\ c.page_id = q /\ c.op = call[t].op /\ c.rid = call[t].rid
      /\ c.tuple = call[t].tuple /\ c.frame = call[t].frame /\ ~c.dirty
      /\ call[t].op \in {"insert", "update"} => call[t].tuple \in Tuple
  <2>1. /\ call[t] \in Call /\ ~call[t].dirty
        /\ call[t].op \in {"insert", "update"} => call[t].tuple \in Tuple
    BY AtWork
  <2>2. c \in Call /\ c.dirty = call[t].dirty
    BY <1>3, <2>1, OnwardsIs
  <2>3. /\ c.page_id = q /\ c.op = call[t].op /\ c.rid = call[t].rid
        /\ c.tuple = call[t].tuple /\ c.frame = call[t].frame
    BY <1>3, <2>1, OnwardsIs
  <2> HIDE DEF c
  <2> QED
    BY <2>1, <2>2, <2>3
<1> HIDE DEF c
<1>5. Rest(t, i, L, c, label)
  BY <1>3, <1>4 DEF Rest
<1>6. RowsAre(L, i, pg, rows, unsaved, rows', unsaved')
  BY <1>1, SameRows
<1>7. rows' = rows /\ unsaved' = unsaved
  BY DEF rowVars
<1>8. \A u \in Thread \ {t} : call[u].op = "restore" /\ OnItsRow(u) =>
                                call[u].rid \notin DOMAIN rows'
  BY <1>7, RestoredAlone
<1>9. c.op \in {"get", "update", "delete", "roll back", "restore"} => c.page_id = INVALID_PAGE_ID
  BY <1>4
<1>10. pg.next_page_id = Follows(L, i) /\ Works(t, pg, c, label)
  BY <1>2 DEF c
<1> QED
  BY <1>1, <1>4, <1>5, <1>6, <1>7, <1>8, <1>9, <1>10, WorkedKeeps

LEMMA LooksKeep ==
  ASSUME FewThreads, NEW L, ChainInv(L), NEW t \in Thread, LookHere(t) \/ ScanHere(t)
  PROVE  ChainInv(L)'
<1>1. CASE LookHere(t)
  <2>1. /\ pc[t] = "work" /\ call[t].op \notin {"insert", "scan"} /\ UNCHANGED rowVars
        /\ Works(t, Here(t), Onwards(t, INVALID_PAGE_ID), "unpin")
    BY <1>1 DEF LookHere, At
  <2> QED
    BY <2>1, AtWork, LookedKeeps
<1>2. CASE ScanHere(t)
  <2>1. pc[t] = "work" /\ call[t].op = "scan" /\ UNCHANGED rowVars
    BY <1>2 DEF ScanHere, At
  <2>2. PICK q \in {Here(t).next_page_id, INVALID_PAGE_ID} :
          Works(t, Here(t), Onwards(t, q), "unpin")
    BY <1>2 DEF ScanHere
  <2> QED
    BY <2>1, <2>2, AtWork, LookedKeeps
<1> QED
  BY <1>1, <1>2

(* The page does not take the tuple.                                       *)
LEMMA TriedKeeps ==
  ASSUME FewThreads, NEW L, ChainInv(L), NEW t \in Thread, InsertFurther(t) \/ InsertAtEnd(t)
  PROVE  ChainInv(L)'
<1>1. /\ pc[t] = "work" /\ call[t].op = "insert" /\ UNCHANGED rowVars
      /\ ~Try(Here(t), call[t].tuple).ok
  BY DEF InsertFurther, InsertAtEnd, At
<1> DEFINE pg == Try(Here(t), call[t].tuple).page
<1>2. GoodPage(Here(t)) /\ call[t].tuple \in Tuple
  BY <1>1, AtWork
<1>3. /\ GoodPage(pg) /\ \A s : RowOf(pg, s) = RowOf(Here(t), s)
  BY <1>1, <1>2, TryIs
<1>4. pg.next_page_id = Here(t).next_page_id
  BY <1>2, GoodRow
<1>5. PICK q \in {pg.next_page_id, INVALID_PAGE_ID}, label \in {"unpin", "extend"} :
        /\ label = "extend" => q = INVALID_PAGE_ID
        /\ Works(t, pg, Onwards(t, q), label)
  BY DEF InsertFurther, InsertAtEnd
<1> HIDE DEF pg
<1> QED
  BY <1>1, <1>3, <1>4, <1>5, LookedKeeps

(* The page takes it.                                                      *)
LEMMA InsertHereKeeps ==
  ASSUME FewThreads, NEW L, ChainInv(L), NEW t \in Thread, InsertHere(t)
  PROVE  ChainInv(L)'
<1> DEFINE try == Try(Here(t), call[t].tuple)
           pg == try.page
           k == try.slot
           c == Done(t)
           rid == Rid(frames[call[t].frame].page_id, k)
<1>1. /\ pc[t] = "work" /\ call[t].op = "insert" /\ try.ok
      /\ Works(t, pg, c, "unpin") /\ WithRow(rid, call[t].tuple)
  BY DEF InsertHere, At
<1>2. PICK f \in Frame, i \in 1 .. Len(L) :
        /\ f = call[t].frame /\ frames[f].page_id = L[i] /\ L[i] = call[t].page_id
        /\ Here(t) = frames[f].page /\ Keeps(L, i, Here(t), rows, unsaved)
  BY <1>1, AtWork
<1>3. GoodPage(Here(t)) /\ call[t].tuple \in Tuple /\ TypeOK /\ Line(L)
  BY <1>1, AtWork DEF ChainInv
<1>4. /\ GoodPage(pg) /\ k \in Nat /\ RowOf(pg, k) = call[t].tuple
      /\ \A s : s # k => RowOf(pg, s) = RowOf(Here(t), s)
  BY <1>1, <1>3, TryIs
<1>5. pg.next_page_id = Follows(L, i)
  BY <1>2, <1>3, GoodRow DEF Keeps
<1>6. /\ c \in Call /\ c.page_id = INVALID_PAGE_ID /\ c.op = "insert" /\ c.rid = call[t].rid
      /\ c.tuple = call[t].tuple /\ c.frame = call[t].frame /\ c.dirty
  BY <1>1, AtWork, DoneIs
<1>7. rid = Rid(L[i], k) /\ rid \in RIDs
  BY <1>2, <1>3, <1>4, LineIs, RidIs
<1> HIDE DEF c, pg, k, try, rid
<1>8. /\ Put(rid, call[t].tuple) /\ unsaved' = unsaved \ {rid}
  BY <1>1 DEF WithRow
<1>9. /\ DOMAIN rows' = DOMAIN rows \cup {rid}
      /\ \A r \in DOMAIN rows' : rows'[r] \in Tuple
      /\ Expected(rid, rows') = call[t].tuple
      /\ \A r : r # rid => Expected(r, rows') = Expected(r, rows)
  BY <1>3, <1>7, <1>8, PutIs
<1>10. unsaved' \subseteq DOMAIN rows' /\ \A r \in unsaved : r # rid => r \in unsaved'
  BY <1>3, <1>8, <1>9, RowTypes
<1>11. RowsAre(L, i, pg, rows, unsaved, rows', unsaved')
  BY <1>2, <1>4, <1>7, <1>9, <1>10, OneRow
<1>12. Rest(t, i, L, c, "unpin")
  BY <1>1, <1>3, <1>6 DEF Rest
<1>13. \A u \in Thread \ {t} : call[u].op = "restore" /\ OnItsRow(u) =>
                                 call[u].rid \notin DOMAIN rows'
  BY <1>1, RestoredAlone
<1> QED
  BY <1>1, <1>2, <1>4, <1>5, <1>6, <1>11, <1>12, <1>13, WorkedKeeps

(* update_tuple has written the row in its slot.                           *)
LEMMA WrittenKeeps ==
  ASSUME FewThreads, NEW L, ChainInv(L), NEW t \in Thread, pc[t] = "work", call[t].op = "update",
         NEW pg, GoodPage(pg), pg.next_page_id = Here(t).next_page_id,
         RowOf(pg, call[t].rid.slot_num) = call[t].tuple,
         \A s : s # call[t].rid.slot_num => RowOf(pg, s) = RowOf(Here(t), s),
         Works(t, pg, Done(t), "unpin"), WithRow(call[t].rid, call[t].tuple)
  PROVE  ChainInv(L)'
<1> DEFINE rid == call[t].rid
           k == rid.slot_num
           c == Done(t)
<1>1. PICK f \in Frame, i \in 1 .. Len(L) :
        /\ f = call[t].frame /\ frames[f].page_id = L[i] /\ L[i] = call[t].page_id
        /\ Here(t) = frames[f].page /\ Keeps(L, i, Here(t), rows, unsaved)
  BY AtWork
<1>2. /\ call[t].tuple \in Tuple /\ rid \in RIDs /\ call[t].page_id = rid.page_id /\ k \in Nat
      /\ TypeOK
  BY AtWork DEF ChainInv
<1>3. rid = Rid(L[i], k)
  BY <1>1, <1>2, RidIs
<1>4. /\ c \in Call /\ c.page_id = INVALID_PAGE_ID /\ c.op = "update" /\ c.rid = call[t].rid
      /\ c.tuple = call[t].tuple /\ c.frame = call[t].frame /\ c.dirty
  BY AtWork, DoneIs
<1>5. /\ RowOf(pg, k) = call[t].tuple /\ \A s : s # k => RowOf(pg, s) = RowOf(Here(t), s)
      /\ pg.next_page_id = Follows(L, i)
  BY <1>1 DEF Keeps
<1>6. /\ Put(rid, call[t].tuple) /\ unsaved' = unsaved \ {rid}
  BY DEF WithRow
<1>7. Works(t, pg, c, "unpin") /\ c.rid = rid
  BY <1>4
<1> HIDE DEF c, k, rid
<1>8. /\ DOMAIN rows' = DOMAIN rows \cup {rid}
      /\ \A r \in DOMAIN rows' : rows'[r] \in Tuple
      /\ Expected(rid, rows') = call[t].tuple
      /\ \A r : r # rid => Expected(r, rows') = Expected(r, rows)
  BY <1>2, <1>6, PutIs
<1>9. unsaved' \subseteq DOMAIN rows' /\ \A r \in unsaved : r # rid => r \in unsaved'
  BY <1>2, <1>6, <1>8, RowTypes
<1>10. RowsAre(L, i, pg, rows, unsaved, rows', unsaved')
  BY <1>1, <1>2, <1>3, <1>5, <1>8, <1>9, OneRow
<1>11. Rest(t, i, L, c, "unpin")
  BY <1>2, <1>4 DEF Rest
<1>12. \A u \in Thread \ {t} : call[u].op = "restore" /\ OnItsRow(u) =>
                                 call[u].rid \notin DOMAIN rows'
  BY RestoredAlone
<1> QED
  BY <1>1, <1>4, <1>5, <1>7, <1>10, <1>11, <1>12, WorkedKeeps

(* The row is taken off the page: for good, or to be put elsewhere, or to  *)
(* be restored.                                                            *)
LEMMA RemovedKeeps ==
  ASSUME FewThreads, NEW L, ChainInv(L), NEW t \in Thread, pc[t] = "work",
         call[t].op \in {"update", "delete", "roll back"},
         NEW pg, GoodPage(pg), pg.next_page_id = Here(t).next_page_id,
         RowOf(pg, call[t].rid.slot_num) = NoTuple,
         \A s : s # call[t].rid.slot_num => RowOf(pg, s) = RowOf(Here(t), s),
         NEW c \in Call, Works(t, pg, c, "unpin"), WithoutRow(call[t].rid),
         c.dirty, c.frame = call[t].frame, c.rid = call[t].rid,
         \/ c.op = "delete" /\ c.page_id = INVALID_PAGE_ID
         \/ /\ call[t].op = "update" /\ c.op = "insert" /\ c.page_id = first_page_id
            /\ c.tuple = call[t].tuple
         \/ /\ call[t].op = "roll back" /\ c.op = "restore" /\ c.page_id = call[t].page_id
            /\ c.tuple \in Tuple
  PROVE  ChainInv(L)'
<1> DEFINE rid == call[t].rid
           k == rid.slot_num
<1>1. PICK f \in Frame, i \in 1 .. Len(L) :
        /\ f = call[t].frame /\ frames[f].page_id = L[i] /\ L[i] = call[t].page_id
        /\ Here(t) = frames[f].page /\ Keeps(L, i, Here(t), rows, unsaved)
  BY AtWork
<1>2. /\ rid \in RIDs /\ call[t].page_id = rid.page_id /\ k \in Nat
      /\ TypeOK
      /\ call[t].op = "update" => call[t].tuple \in Tuple
  BY AtWork DEF ChainInv
<1>3. rid = Rid(L[i], k)
  BY <1>1, <1>2, RidIs
<1>4. /\ RowOf(pg, k) = NoTuple /\ \A s : s # k => RowOf(pg, s) = RowOf(Here(t), s)
      /\ pg.next_page_id = Follows(L, i)
  BY <1>1 DEF Keeps
<1>5. WithoutRow(rid) /\ unsaved' = unsaved \ {rid} /\ c.rid = rid
  BY DEF WithoutRow
<1> HIDE DEF k, rid
<1>6. /\ DOMAIN rows' = DOMAIN rows \ {rid}
      /\ \A r \in DOMAIN rows' : rows'[r] \in Tuple
      /\ Expected(rid, rows') = NoTuple
      /\ \A r : r # rid => Expected(r, rows') = Expected(r, rows)
      /\ unsaved' \subseteq DOMAIN rows' /\ \A r \in unsaved : r # rid => r \in unsaved'
  BY <1>2, <1>5, WithoutIs
<1>8. RowsAre(L, i, pg, rows, unsaved, rows', unsaved')
  <2>1. RowOf(pg, k) = Expected(rid, rows') /\ DOMAIN rows' \subseteq DOMAIN rows \cup {rid}
    BY <1>4, <1>6
  <2>2. PICK r \in RIDs : r = rid
    BY <1>2
  <2>3. /\ RowOf(pg, k) = Expected(r, rows') /\ DOMAIN rows' \subseteq DOMAIN rows \cup {r}
        /\ r = Rid(L[i], k) /\ unsaved' \subseteq DOMAIN rows'
        /\ \A x \in unsaved : x # r => x \in unsaved'
        /\ \A x : x # r => Expected(x, rows') = Expected(x, rows)
    BY <1>3, <1>6, <2>1, <2>2
  <2>4. PICK n \in Nat : n = k
    BY <1>2
  <2> DEFINE p == Here(t)
  <2>5. /\ \A s : s # n => RowOf(pg, s) = RowOf(p, s)
        /\ r = Rid(L[i], n) /\ RowOf(pg, n) = Expected(r, rows')
    BY <1>4, <2>3, <2>4
  <2>6. \A x \in DOMAIN rows' : rows'[x] \in Tuple
    BY <1>6
  <2>7. Keeps(L, i, p, rows, unsaved)
    BY <1>1
  <2> HIDE DEF p
  <2> QED
    BY <2>3, <2>5, <2>6, <2>7, OneRow
<1>9. first_page_id \in ToSet(L) /\ call[t].page_id \in ToSet(L)
  BY <1>1, LineIs DEF ChainInv
<1>10. Rest(t, i, L, c, "unpin")
  BY <1>2, <1>9 DEF Rest
<1>11. \A u \in Thread \ {t} : call[u].op = "restore" /\ OnItsRow(u) =>
                                 call[u].rid \notin DOMAIN rows'
  BY <1>6, RestoredAlone
<1>12. c.op \in {"get", "update", "delete", "roll back", "restore"}
         /\ c.page_id # INVALID_PAGE_ID =>
           /\ c.rid \in RIDs /\ c.page_id = c.rid.page_id
           /\ c.op = "restore" /\ c.tuple \in Tuple /\ c.rid \notin DOMAIN rows'
  BY <1>2, <1>5, <1>6 DEF rid
<1> QED
  BY <1>1, <1>4, <1>8, <1>10, <1>11, <1>12, WorkedKeeps

(* delete_tuple and then compact, unless the page calls itself compacted.  *)
RoomyOf(p, k) ==
  IF is_compacted(delete_tuple(p, k)) THEN delete_tuple(p, k) ELSE compact(delete_tuple(p, k))

LEMMA RoomyIs ==
  ASSUME NEW p, GoodPage(p), NEW k, has_slot(p, k)
  PROVE  LET q == RoomyOf(p, k) IN
         /\ GoodPage(q) /\ q.next_page_id = p.next_page_id
         /\ RowOf(q, k) = NoTuple /\ \A s : s # k => RowOf(q, s) = RowOf(p, s)
         /\ SlotIsEmpty(q, k)
<1> DEFINE d == delete_tuple(p, k)
           q == RoomyOf(p, k)
<1>1. /\ GoodPage(d) /\ slot_count(d) = slot_count(p)
      /\ RowOf(d, k) = NoTuple /\ \A s : s # k => RowOf(d, s) = RowOf(p, s)
      /\ d.next_page_id = p.next_page_id
  BY PageDelete, GoodRow
<1>2. /\ GoodPage(compact(d)) /\ slot_count(compact(d)) = slot_count(d)
      /\ \A s : RowOf(compact(d), s) = RowOf(d, s)
      /\ compact(d).next_page_id = d.next_page_id
  BY <1>1, PageCompact, GoodRow
<1>3. q = d \/ q = compact(d)
  BY DEF RoomyOf
<1> HIDE DEF d, q
<1>4. /\ GoodPage(q) /\ slot_count(q) = slot_count(p) /\ q.next_page_id = p.next_page_id
      /\ RowOf(q, k) = NoTuple /\ \A s : s # k => RowOf(q, s) = RowOf(p, s)
  BY <1>1, <1>2, <1>3
<1>5. ~has_slot(q, k)
  BY <1>4, GoodRow
<1>6. SlotIsEmpty(q, k)
  BY <1>4, <1>5 DEF SlotIsEmpty, SlotNums, has_slot
<1> QED
  BY <1>4, <1>6 DEF q

LEMMA UpdateKeepsChain ==
  ASSUME FewThreads, NEW L, ChainInv(L), NEW t \in Thread, UpdateHere(t)
  PROVE  ChainInv(L)'
<1> DEFINE rid == call[t].rid
           k == rid.slot_num
           u == call[t].tuple
           p == Here(t)
           q == RoomyOf(p, k)
<1>1. pc[t] = "work" /\ call[t].op = "update" /\ has_slot(p, k)
  BY DEF UpdateHere, At
<1>2. /\ GoodPage(p) /\ u \in Tuple /\ rid \in RIDs /\ k \in Nat /\ call[t] \in Call
  BY <1>1, AtWork
<1>3. /\ GoodPage(q) /\ q.next_page_id = p.next_page_id
      /\ RowOf(q, k) = NoTuple /\ \A s : s # k => RowOf(q, s) = RowOf(p, s)
      /\ SlotIsEmpty(q, k)
  BY <1>1, <1>2, RoomyIs
<1>4. CASE /\ CanUpdateInPlace(p, k, u)
           /\ Works(t, try_update_in_place(p, k, u), Done(t), "unpin")
           /\ WithRow(rid, u)
  <2> DEFINE pg == try_update_in_place(p, k, u)
  <2>1. /\ GoodPage(pg) /\ RowOf(pg, k) = u
        /\ \A s : s # k => RowOf(pg, s) = RowOf(p, s)
    BY <1>2, <1>4, PageUpdate
  <2>2. pg.next_page_id = p.next_page_id
    BY <1>2, GoodRow
  <2>3. Works(t, pg, Done(t), "unpin")
    BY <1>4
  <2> HIDE DEF pg
  <2> QED
    BY <1>1, <1>4, <2>1, <2>2, <2>3, WrittenKeeps
<1>5. CASE /\ CanInsert(q, u, k)
           /\ Works(t, insert_tuple(q, u, k), Done(t), "unpin")
           /\ WithRow(rid, u)
  <2> DEFINE pg == insert_tuple(q, u, k)
  <2>1. SlotFor(q, k) = k
    BY <1>3 DEF SlotIsEmpty, SlotFor
  <2>2. /\ GoodPage(pg) /\ RowOf(pg, k) = u
        /\ \A s : s # k => RowOf(pg, s) = RowOf(q, s)
    <3>1. k \in Int
      BY <1>2
    <3> QED
      BY <1>2, <1>3, <1>5, <2>1, <3>1, PageInsert
  <2>3. pg.next_page_id = p.next_page_id
    BY <1>3, GoodRow
  <2>4. Works(t, pg, Done(t), "unpin")
    BY <1>5
  <2> HIDE DEF pg, q
  <2> QED
    BY <1>1, <1>3, <1>5, <2>2, <2>3, <2>4, WrittenKeeps
<1>6. CASE /\ Works(t, q, [call[t] EXCEPT !.op = "insert", !.dirty = TRUE,
                                          !.page_id = first_page_id], "unpin")
           /\ WithoutRow(rid)
  <2> DEFINE c == [call[t] EXCEPT !.op = "insert", !.dirty = TRUE, !.page_id = first_page_id]
  <2>1. first_page_id \in PageOrNot
    BY ConstantTypes DEF PageOrNot
  <2>2. /\ c \in Call /\ c.dirty /\ c.frame = call[t].frame /\ c.rid = call[t].rid
        /\ c.op = "insert" /\ c.page_id = first_page_id /\ c.tuple = call[t].tuple
    BY <1>2, <2>1 DEF Call
  <2>3. Works(t, q, c, "unpin") /\ WithoutRow(rid)
    BY <1>6
  <2> HIDE DEF c, q
  <2> QED
    BY <1>1, <1>3, <2>2, <2>3, RemovedKeeps
<1> QED
  BY <1>4, <1>5, <1>6 DEF UpdateHere, RoomyOf

LEMMA DeleteKeepsChain ==
  ASSUME FewThreads, NEW L, ChainInv(L), NEW t \in Thread, DeleteHere(t)
  PROVE  ChainInv(L)'
<1> DEFINE rid == call[t].rid
           k == rid.slot_num
           p == Here(t)
           d == delete_tuple(p, k)
<1>1. /\ pc[t] = "work" /\ call[t].op \in {"delete", "roll back"} /\ has_slot(p, k)
      /\ WithoutRow(rid)
  BY DEF DeleteHere, At
<1>2. /\ GoodPage(p) /\ rid \in RIDs /\ k \in Nat /\ call[t] \in Call
      /\ call[t].page_id = rid.page_id
  BY <1>1, AtWork
<1>3. /\ GoodPage(d) /\ d.next_page_id = p.next_page_id
      /\ RowOf(d, k) = NoTuple /\ \A s : s # k => RowOf(d, s) = RowOf(p, s)
  <2>1. d.next_page_id = p.next_page_id
    BY <1>2, GoodRow
  <2>2. /\ GoodPage(d)
        /\ RowOf(d, k) = NoTuple /\ \A s : s # k => RowOf(d, s) = RowOf(p, s)
    BY <1>1, <1>2, PageDelete
  <2> QED
    BY <2>1, <2>2
<1>4. CASE call[t].op = "delete" /\ Works(t, d, Done(t), "unpin")
  <2> DEFINE c == Done(t)
  <2>1. /\ c \in Call /\ c.dirty /\ c.frame = call[t].frame /\ c.rid = call[t].rid
        /\ c.op = "delete" /\ c.page_id = INVALID_PAGE_ID
    BY <1>2, <1>4, DoneIs
  <2>2. Works(t, d, c, "unpin")
    BY <1>4
  <2> HIDE DEF c, d
  <2> QED
    BY <1>1, <1>3, <2>1, <2>2, RemovedKeeps
<1>5. CASE /\ call[t].op = "roll back"
           /\ Works(t, d, [call[t] EXCEPT !.op = "restore", !.dirty = TRUE, !.tuple = rows[rid]],
                    "unpin")
  <2>1. rows[rid] \in Tuple
    <3>1. PICK f \in Frame, i \in 1 .. Len(L) :
            L[i] = call[t].page_id /\ Keeps(L, i, p, rows, unsaved)
      BY <1>1, AtWork
    <3>2. rid = Rid(L[i], k)
      BY <1>2, <3>1, RidIs
    <3>3. RowOf(p, k) # NoTuple
      BY <1>1, <1>2, GoodRow
    <3>4. Fits(rid, RowOf(p, k), rows, unsaved)
      BY <1>2, <3>1, <3>2 DEF Keeps
    <3>5. rid \in DOMAIN rows
      BY <3>3, <3>4 DEF Fits, Expected
    <3> QED
      BY <3>5, RowTypes DEF ChainInv
  <2> DEFINE c == [call[t] EXCEPT !.op = "restore", !.dirty = TRUE, !.tuple = rows[rid]]
             row == rows[rid]
  <2>2. /\ c \in Call /\ c.dirty /\ c.frame = call[t].frame /\ c.rid = call[t].rid
        /\ c.op = "restore" /\ c.page_id = call[t].page_id /\ c.tuple \in Tuple
    <3>1. row \in Tuple /\ c = [call[t] EXCEPT !.op = "restore", !.dirty = TRUE, !.tuple = row]
      BY <2>1
    <3> HIDE DEF row
    <3> QED
      BY <1>2, <3>1 DEF Call
  <2>3. Works(t, d, c, "unpin")
    BY <1>5
  <2> HIDE DEF c, d
  <2> QED
    BY <1>1, <1>3, <1>5, <2>2, <2>3, RemovedKeeps
<1> QED
  BY <1>4, <1>5 DEF DeleteHere, At

(* restore_tuple: the file may still show the page without the row.        *)
LEMMA RestoreKeepsChain ==
  ASSUME FewThreads, NEW L, ChainInv(L), NEW t \in Thread, RestoreHere(t)
  PROVE  ChainInv(L)'
<1> DEFINE rid == call[t].rid
           k == rid.slot_num
           u == call[t].tuple
           p == Here(t)
           pg == restore_tuple(p, k, u)
           c == Onwards(t, INVALID_PAGE_ID)
<1>1. /\ pc[t] = "work" /\ call[t].op = "restore"
      /\ SlotIsEmpty(p, k) /\ RestoreFits(p, u)
      /\ Works(t, pg, c, "unpin") /\ Put(rid, u)
  BY DEF RestoreHere, At
<1>2. PICK f \in Frame, i \in 1 .. Len(L) :
        /\ f = call[t].frame /\ frames[f].page_id = L[i] /\ L[i] = call[t].page_id
        /\ p = frames[f].page /\ Keeps(L, i, p, rows, unsaved)
  BY <1>1, AtWork
<1>3. /\ GoodPage(p) /\ u \in Tuple /\ rid \in RIDs /\ k \in Nat /\ call[t] \in Call
      /\ call[t].page_id = rid.page_id /\ rid \notin DOMAIN rows /\ ~call[t].dirty
  BY <1>1, AtWork
<1>4. rid = Rid(L[i], k) /\ TypeOK
  BY <1>2, <1>3, RidIs DEF ChainInv
<1>5. /\ GoodPage(pg) /\ RowOf(pg, k) = u
      /\ \A s : s # k => RowOf(pg, s) = RowOf(p, s)
  BY <1>1, <1>3, PageRestore
<1>6. pg.next_page_id = Follows(L, i)
  BY <1>2, <1>3, GoodRow DEF Keeps
<1>7. /\ c \in Call /\ c.page_id = INVALID_PAGE_ID /\ c.op = "restore" /\ c.rid = call[t].rid
      /\ c.frame = call[t].frame
  <2>1. INVALID_PAGE_ID \in PageOrNot
    BY DEF PageOrNot
  <2> QED
    BY <1>1, <1>3, <2>1, OnwardsIs
<1>8. unsaved' = IF frames[f].is_dirty THEN unsaved ELSE unsaved \cup {rid}
  BY <1>2 DEF RestoreHere
<1> HIDE DEF rid, k, u, pg, c, p
<1>9. /\ DOMAIN rows' = DOMAIN rows \cup {rid}
      /\ \A r \in DOMAIN rows' : rows'[r] \in Tuple
      /\ Expected(rid, rows') = u
      /\ \A r : r # rid => Expected(r, rows') = Expected(r, rows)
  BY <1>1, <1>3, <1>4, PutIs
<1>10. unsaved' \subseteq DOMAIN rows' /\ \A r \in unsaved : r # rid => r \in unsaved'
  BY <1>4, <1>8, <1>9, RowTypes
<1>11. RowsAre(L, i, pg, rows, unsaved, rows', unsaved')
  BY <1>2, <1>3, <1>4, <1>5, <1>9, <1>10, OneRow
<1>12. Rest(t, i, L, c, "unpin")
  BY <1>1, <1>7 DEF Rest
<1>13. ASSUME NEW v \in Thread \ {t}, call[v].op = "restore", OnItsRow(v)
       PROVE  call[v].rid \notin DOMAIN rows'
  <2>1. call[v].rid \notin DOMAIN rows /\ rid # call[v].rid
    BY <1>1, <1>3, <1>13, RestoredAlone DEF rid
  <2> QED
    BY <1>9, <2>1
<1>14. \/ frames[f].is_dirty
       \/ \A s \in Nat : \A v : Fits(Rid(L[i], s), v, rows, unsaved)
                                  => Fits(Rid(L[i], s), v, rows', unsaved')
  <2> SUFFICES ASSUME ~frames[f].is_dirty, NEW s \in Nat, NEW v,
                      Fits(Rid(L[i], s), v, rows, unsaved)
               PROVE  Fits(Rid(L[i], s), v, rows', unsaved')
    OBVIOUS
  <2>1. unsaved' = unsaved \cup {rid}
    BY <1>8
  <2>2. CASE Rid(L[i], s) = rid
    BY <1>3, <2>1, <2>2 DEF Fits, Expected
  <2>3. CASE Rid(L[i], s) # rid
    BY <1>9, <2>1, <2>3 DEF Fits
  <2> QED
    BY <2>2, <2>3
<1> QED
  BY <1>1, <1>2, <1>5, <1>6, <1>7, <1>11, <1>12, <1>13, <1>14, WorkedKeeps

-----------------------------------------------------------------------------
(* A PinnedPage goes: the frame is dirty if the call has changed the page, *)
(* and with it the rows restored there are safe.                           *)
LEMMA SetClean ==
  ASSUME NEW c \in Call
  PROVE  LET d == [c EXCEPT !.dirty = FALSE] IN
         /\ d \in Call /\ ~d.dirty /\ d.op = c.op /\ d.rid = c.rid /\ d.tuple = c.tuple
         /\ d.page_id = c.page_id /\ d.frame = c.frame /\ d.fresh = c.fresh
BY DEF Call

LEMMA UnpinGoes ==
  ASSUME TypeOK, NEW t \in Thread, Unpin(t)
  PROVE  /\ pc' \in [Thread -> PC] /\ call' \in [Thread -> Call] /\ Others(t)
         /\ \/ /\ pc'[t] = "idle" /\ call'[t] = NoCall
            \/ /\ pc'[t] = "fetch" /\ call[t].page_id # INVALID_PAGE_ID
               /\ call'[t] \in Call /\ ~call'[t].dirty /\ call'[t].op = call[t].op
               /\ call'[t].rid = call[t].rid /\ call'[t].tuple = call[t].tuple
               /\ call'[t].page_id = call[t].page_id
<1>1. CASE Return(t)
  BY <1>1, StepIs, NoCallIs DEF Return, Goto, PC
<1>2. CASE /\ call' = [call EXCEPT ![t].dirty = FALSE] /\ Goto(t, "fetch")
           /\ call[t].page_id # INVALID_PAGE_ID
  <2> DEFINE c == [call[t] EXCEPT !.dirty = FALSE]
  <2>1. /\ c \in Call /\ ~c.dirty /\ c.op = call[t].op /\ c.rid = call[t].rid
        /\ c.tuple = call[t].tuple /\ c.page_id = call[t].page_id
    BY CallTypes, SetClean
  <2>2. call' = [call EXCEPT ![t] = c] /\ pc' = [pc EXCEPT ![t] = "fetch"] /\ "fetch" \in PC
    BY <1>2 DEF Goto, PC
  <2> HIDE DEF c
  <2>3. /\ pc' \in [Thread -> PC] /\ call' \in [Thread -> Call]
        /\ pc'[t] = "fetch" /\ call'[t] = c /\ Others(t)
    BY <2>1, <2>2, StepIs
  <2> QED
    BY <1>2, <2>1, <2>3
<1> QED
  BY <1>1, <1>2 DEF Unpin

LEMMA UnpinKeeps ==
  ASSUME FewThreads, NEW L, ChainInv(L), NEW t \in Thread, Unpin(t)
  PROVE  ChainInv(L)'
<1>1. /\ pc[t] = "unpin" /\ frames' = Unpinned(call[t].frame, call[t].dirty)
      /\ unsaved' = StillUnsaved(call[t].frame, call[t].dirty)
      /\ UNCHANGED <<allocVars, disk, rows, lost, calls>>
  BY DEF Unpin
<1>2. /\ TypeOK /\ WalkOK(L, t) /\ RowOK(t) /\ Places(L) /\ PinsCounted
      /\ Locks /\ OneHolder /\ Line(L) /\ INVALID_PAGE_ID \notin Page
  BY ConstantTypes DEF ChainInv
<1>3. PICK f \in Frame, d \in BOOLEAN :
        /\ f = call[t].frame /\ d = call[t].dirty /\ frames[f].page_id \in ToSet(L)
  BY <1>1, <1>2, CallTypes DEF WalkOK, Working
<1>4. frames[f].page_id # INVALID_PAGE_ID
  BY <1>2, <1>3, LineIs
<1>5. /\ frames' \in [Frame -> FrameRec]
      /\ frames'[f].pin_count = (frames[f].pin_count + kPIN_MODULUS - 1) % kPIN_MODULUS
      /\ \A g \in Frame : /\ frames'[g].page_id = frames[g].page_id
                          /\ g # f => frames'[g].pin_count = frames[g].pin_count
                          /\ frames'[g].is_dirty = IF g = f THEN frames[g].is_dirty \/ d
                                                   ELSE frames[g].is_dirty
                          /\ frames'[g].page = frames[g].page
  <2>1. frames' = Unpinned(f, d)
    BY <1>1, <1>3
  <2> QED
    BY <1>2, <1>4, <2>1, UnpinnedIs
<1>6. /\ pc' \in [Thread -> PC] /\ call' \in [Thread -> Call] /\ Others(t)
      /\ \/ /\ pc'[t] = "idle" /\ call'[t] = NoCall
         \/ /\ pc'[t] = "fetch" /\ call[t].page_id # INVALID_PAGE_ID
            /\ call'[t] \in Call /\ ~call'[t].dirty /\ call'[t].op = call[t].op
            /\ call'[t].rid = call[t].rid /\ call'[t].tuple = call[t].tuple
            /\ call'[t].page_id = call[t].page_id
  BY <1>2, UnpinGoes
<1>7. /\ unsaved' \subseteq unsaved
      /\ \A rid \in unsaved \ unsaved' :
           d /\ rid.page_id = frames[f].page_id /\ has_slot(frames[f].page, rid.slot_num)
  BY <1>1, <1>3 DEF StillUnsaved
<1>8. TypeOK'
  <2>1. unsaved' \subseteq DOMAIN rows'
    BY <1>1, <1>2, <1>7, RowTypes
  <2> QED
    BY <1>1, <1>2, <1>5, <1>6, <2>1 DEF TypeOK, FrameRec, allocVars
<1>9. Quiet(t)
  <2>1. ~Creating(t) /\ ~Creating(t)'
    BY <1>1, <1>6 DEF Creating
  <2>2. \A g \in Frame : frames'[g].is_dirty <=> frames[g].is_dirty \/ (g = f /\ d)
    <3> TAKE g \in Frame
    <3>1. frames[g].is_dirty \in BOOLEAN
      BY <1>2, FrameTypes
    <3> QED
      BY <1>5, <3>1
  <2>3. \A u \in Thread : Creating(u) => call[u].fresh \in Frame
    BY DEF ChainInv, CreatorOK
  <2> QED
    BY <1>4, <1>5, <2>1, <2>2, <2>3 DEF Quiet
<1>10. /\ OneHolder' /\ HeldPages(L)' /\ InCreation' = InCreation
       /\ \A u \in Thread \ {t} : WalkOK(L, u)' /\ CreatorOK(L, u)'
  BY <1>6, <1>9, QuietStep
<1>11. PinsCounted'
  <2>1. Uses(t, f) /\ \A g \in Frame : g # f => ~Uses(t, g)
    BY <1>1, <1>3 DEF Uses, Working
  <2>2. \A g \in Frame : ~Uses(t, g)'
    BY <1>6 DEF Uses, Working
  <2>3. \A g \in Frame :
          \/ frames'[g].pin_count = frames[g].pin_count /\ (Uses(t, g)' <=> Uses(t, g))
          \/ /\ frames'[g].pin_count = (frames[g].pin_count + kPIN_MODULUS - 1) % kPIN_MODULUS
             /\ Uses(t, g) /\ ~Uses(t, g)'
    BY <1>5, <2>1, <2>2
  <2> QED
    BY <1>2, <1>6, <2>3, PinsStep
<1>12. Places(L)'
  BY <1>1, <1>2, <1>10, PlacesKept DEF allocVars
<1>13. WalkOK(L, t)' /\ CreatorOK(L, t)'
  BY <1>2, <1>6, NoCallIs DEF WalkOK, Working, CreatorOK, Creating
<1>14. RowOK(t)'
  BY <1>1, <1>2, <1>6, NoCallIs DEF RowOK, OnItsRow
<1>15. ASSUME NEW u \in Thread \ {t} PROVE RowOK(u)'
  <2>1. RowOK(u)
    BY DEF ChainInv
  <2> QED
    BY <1>1, <1>6, <2>1, RowOthers DEF RowOK
<1>16. Locks'
  BY <1>2, <1>6, NoCallIs, LocksKept
<1>17. RowPages(L)'
  BY <1>1 DEF RowPages, ChainInv
<1>18. ASSUME NEW i \in 1 .. Len(L), ~(d /\ L[i] = frames[f].page_id) PROVE PageKept(L, i)'
  <2>1. PageKept(L, i) /\ disk'[L[i]] = disk[L[i]]
    BY <1>1 DEF ChainInv
  <2>2. ASSUME NEW g \in Frame, frames'[g].page_id = L[i], Behind(g) PROVE Behind(g)'
    <3>1. ~Pending(t, g)
      BY <1>3, <1>5, <1>18, <2>2 DEF Pending
    <3>2. frames[g].is_dirty => frames'[g].is_dirty
      BY <1>5
    <3> QED
      BY <1>6, <2>2, <3>1, <3>2 DEF Behind, Pending, Others
  <2>3. ASSUME NEW s \in Nat, NEW u, Fits(Rid(L[i], s), u, rows, unsaved)
        PROVE  Fits(Rid(L[i], s), u, rows', unsaved')
    <3>1. Rid(L[i], s).page_id = L[i]
      BY RidIs
    <3>2. Rid(L[i], s) \in unsaved => Rid(L[i], s) \in unsaved'
      BY <1>7, <1>18, <3>1
    <3> QED
      BY <1>1, <2>3, <3>2 DEF Fits
  <2>4. \A g \in Frame : /\ frames'[g].page_id = frames[g].page_id
                         /\ frames'[g].page_id = L[i] =>
                               /\ frames'[g].page = frames[g].page
                               /\ Behind(g) => Behind(g)'
    BY <1>5, <2>2
  <2> QED
    BY <2>1, <2>3, <2>4, PageQuiet
<1>19. ASSUME NEW i \in 1 .. Len(L), d, L[i] = frames[f].page_id PROVE PageKept(L, i)'
  <2>1. PageKept(L, i)
    BY DEF ChainInv
  <2>2. frames'[f].is_dirty /\ frames'[f].page_id = L[i]
    BY <1>5, <1>19
  <2>3. \A g \in Frame : frames'[g].page_id = L[i] => g = f
    BY <1>2, <1>4, <1>5, <1>19 DEF OneHolder
  <2>4. Keeps(L, i, frames[f].page, rows, unsaved)
    BY <1>19, <2>1 DEF PageKept
  <2>5. ASSUME NEW s \in Nat
        PROVE  Fits(Rid(L[i], s), RowOf(frames[f].page, s), rows, unsaved')
    <3>1. Fits(Rid(L[i], s), RowOf(frames[f].page, s), rows, unsaved) /\ GoodPage(frames[f].page)
      BY <2>4 DEF Keeps
    <3>2. Rid(L[i], s).slot_num = s
      BY RidIs
    <3>3. CASE RowOf(frames[f].page, s) = NoTuple
      <4>1. ~has_slot(frames[f].page, s)
        BY <3>1, <3>3, GoodRow
      <4> QED
        BY <1>7, <3>1, <3>2, <4>1 DEF Fits
    <3> QED
      BY <3>1, <3>3 DEF Fits
  <2>6. Keeps(L, i, frames'[f].page, rows', unsaved')
    BY <1>1, <1>5, <2>4, <2>5 DEF Keeps
  <2>7. Behind(f)'
    BY <2>2 DEF Behind
  <2> QED
    BY <2>2, <2>3, <2>6, <2>7 DEF PageKept
<1> QED
  BY <1>8, <1>10, <1>11, <1>12, <1>13, <1>14, <1>15, <1>16, <1>17, <1>18, <1>19, <1>2 DEF ChainInv

-----------------------------------------------------------------------------
(* Each step.                                                              *)
LEMMA ProceedKeeps ==
  ASSUME FewThreads, Careful, NEW L, ChainInv(L), NEW t \in Thread, Proceed(t)
  PROVE  \E M : ChainInv(M)' /\ Grown(L, M)
<1> SUFFICES ASSUME ~Link(t) PROVE ChainInv(L)'
  BY LinkKeeps DEF Grown
<1>1. CASE Fetch(t)
  BY <1>1, FetchKeeps
<1>2. CASE InsertHere(t)
  BY <1>2, InsertHereKeeps
<1>3. CASE InsertFurther(t) \/ InsertAtEnd(t)
  BY <1>3, TriedKeeps
<1>4. CASE Extend(t)
  BY <1>4, ExtendKeeps
<1>5. CASE Filled(t)
  BY <1>5, FilledKeeps
<1>7. CASE Drop(t)
  BY <1>7, DropKeeps
<1>8. CASE UpdateHere(t)
  BY <1>8, UpdateKeepsChain
<1>9. CASE DeleteHere(t)
  BY <1>9, DeleteKeepsChain
<1>10. CASE RestoreHere(t)
  BY <1>10, RestoreKeepsChain
<1>11. CASE LookHere(t) \/ ScanHere(t)
  BY <1>11, LooksKeep
<1>12. CASE Unpin(t)
  BY <1>12, UnpinKeeps
<1> QED
  BY <1>1, <1>2, <1>3, <1>4, <1>5, <1>7, <1>8, <1>9, <1>10, <1>11, <1>12 DEF Proceed

LEMMA StutterKeeps ==
  ASSUME NEW L, ChainInv(L), UNCHANGED vars
  PROVE  ChainInv(L)'
<1>1. UNCHANGED <<capacity, free_list, frames, disk, pc, call, rows, unsaved, lost, calls>>
  BY DEF vars
<1>2. TypeOK' /\ Line(L)
  BY <1>1 DEF ChainInv, TypeOK
<1>3. InCreation' = InCreation
  BY <1>1 DEF InCreation
<1>4. OneHolder' /\ HeldPages(L)' /\ RowPages(L)' /\ Places(L)'
  BY <1>1, <1>3 DEF ChainInv, OneHolder, HeldPages, RowPages, Places
<1>5. PinsCounted'
  BY <1>1 DEF ChainInv, PinsCounted, Users, Uses, Working
<1>6. ASSUME NEW t \in Thread PROVE WalkOK(L, t)' /\ RowOK(t)' /\ CreatorOK(L, t)'
  BY <1>1 DEF ChainInv, WalkOK, Working, Starts, RowOK, OnItsRow, CreatorOK, Creating
<1>7. ASSUME NEW i \in 1 .. Len(L) PROVE PageKept(L, i)'
  <2>1. PageKept(L, i)
    BY DEF ChainInv
  <2>2. \A f \in Frame : Behind(f)' <=> Behind(f)
    BY <1>1 DEF Behind, Pending
  <2> QED
    BY <1>1, <2>1, <2>2 DEF PageKept
<1>8. Locks'
  BY <1>1 DEF ChainInv, Locks, Inserting, RollingBack
<1> QED
  BY <1>2, <1>4, <1>5, <1>6, <1>7, <1>8 DEF ChainInv

LEMMA NextKeeps ==
  ASSUME FewThreads, Careful, NEW L, ChainInv(L), [Next]_vars
  PROVE  \E M : ChainInv(M)' /\ Grown(L, M)
<1>1. CASE \E t \in Thread : Client(t)
  BY <1>1, ClientKeeps DEF Grown
<1>2. CASE \E t \in Thread : Proceed(t)
  BY <1>2, ProceedKeeps
<1>3. CASE Finished \/ UNCHANGED vars
  BY <1>3, StutterKeeps DEF Finished, Grown
<1> QED
  BY <1>1, <1>2, <1>3 DEF Next

-----------------------------------------------------------------------------
(* The pages in the file at the start.                                     *)
FirstOf(i) == [init EXCEPT !.next_page_id = IF i = Len(Stored) THEN @ ELSE i + 1]
IsStored(i, f, m) ==
  /\ f = [n \in 0 .. m |-> f[n]] /\ f[0] = FirstOf(i)
  /\ \A n \in 1 .. m : f[n] = insert_tuple(f[n - 1], Stored[i][n], NoSlot)

LEMMA StoredTypes ==
  /\ Len(Stored) \in Nat /\ Len(Stored) >= 1 /\ DOMAIN Stored = 1 .. Len(Stored)
  /\ Len(Stored) + 1 \in 1 .. kMAX_CAPACITY
  /\ \A i \in 1 .. Len(Stored) :
       /\ i \in Page /\ Stored[i] \in Seq(Tuple) /\ Len(Stored[i]) \in Nat
       /\ DOMAIN Stored[i] = 1 .. Len(Stored[i])
       /\ \A n \in 1 .. Len(Stored[i]) : Stored[i][n] \in Tuple
<1>1. Stored \in Seq(Seq(Tuple)) /\ Len(Stored) \in 1 .. kMAX_CAPACITY - 1 /\ kMAX_CAPACITY \in Nat
  BY ChainAssumption
<1>2. /\ Len(Stored) \in Nat /\ Len(Stored) >= 1 /\ DOMAIN Stored = 1 .. Len(Stored)
      /\ Len(Stored) + 1 \in 1 .. kMAX_CAPACITY
  BY <1>1, LenProperties
<1>3. ASSUME NEW i \in 1 .. Len(Stored)
      PROVE  /\ i \in Page /\ Stored[i] \in Seq(Tuple) /\ Len(Stored[i]) \in Nat
             /\ DOMAIN Stored[i] = 1 .. Len(Stored[i])
             /\ \A n \in 1 .. Len(Stored[i]) : Stored[i][n] \in Tuple
  <2>1. Stored[i] \in Seq(Tuple)
    BY <1>1, ElementOfSeq
  <2>2. i \in Page
    BY <1>1 DEF Page
  <2> QED
    BY <2>1, <2>2, LenProperties, ElementOfSeq
<1> QED
  BY <1>2, <1>3

LEMMA StoredExists ==
  ASSUME NEW i \in 1 .. Len(Stored)
  PROVE  \A m \in 0 .. Len(Stored[i]) : \E f : IsStored(i, f, m)
<1> DEFINE N == Len(Stored[i])
           T == {m \in 0 .. N : \E f : IsStored(i, f, m)}
<1>1. N \in Nat
  BY StoredTypes
<1>2. 0 \in T
  <2> DEFINE f == [n \in 0 .. 0 |-> FirstOf(i)]
  <2>1. IsStored(i, f, 0)
    <3>1. f = [n \in 0 .. 0 |-> f[n]] /\ f[0] = FirstOf(i) /\ 1 .. 0 = {}
      OBVIOUS
    <3> HIDE DEF f
    <3> QED
      BY <3>1 DEF IsStored
  <2> QED
    BY <1>1, <2>1
<1>3. ASSUME NEW m \in 1 .. N, m - 1 \in T PROVE m \in T
  <2>1. PICK f : IsStored(i, f, m - 1)
    BY <1>3
  <2> DEFINE new == insert_tuple(f[m - 1], Stored[i][m], NoSlot)
             g == [n \in 0 .. m |-> IF n = m THEN new ELSE f[n]]
  <2>2. /\ f[0] = FirstOf(i)
        /\ \A n \in 1 .. m - 1 : f[n] = insert_tuple(f[n - 1], Stored[i][n], NoSlot)
    BY <2>1 DEF IsStored
  <2>3. m \in Nat /\ m >= 1
    BY <1>1
  <2>4. g[m] = new /\ \A n \in 0 .. m - 1 : g[n] = f[n]
    <3> HIDE DEF new
    <3> QED
      BY <2>3
  <2>5. g = [n \in 0 .. m |-> g[n]]
    <3> HIDE DEF new
    <3> QED
      OBVIOUS
  <2> HIDE DEF g
  <2>6. g[0] = FirstOf(i)
    BY <2>2, <2>3, <2>4
  <2>7. ASSUME NEW n \in 1 .. m PROVE g[n] = insert_tuple(g[n - 1], Stored[i][n], NoSlot)
    <3>1. g[n - 1] = f[n - 1]
      BY <2>3, <2>4
    <3>2. CASE n = m
      BY <2>4, <3>1, <3>2
    <3>3. CASE n # m
      <4>1. n \in 1 .. m - 1 /\ g[n] = f[n]
        BY <2>3, <2>4, <3>3
      <4> QED
        BY <2>2, <3>1, <4>1
    <3> QED
      BY <3>2, <3>3
  <2>8. IsStored(i, g, m)
    BY <2>5, <2>6, <2>7 DEF IsStored
  <2> QED
    BY <1>1, <2>8
<1> HIDE DEF T
<1>4. \A m \in 0 .. N : m \in T
  BY <1>1, <1>2, <1>3, Climb
<1> QED
  BY <1>4 DEF T

LEMMA StoredIs ==
  ASSUME NEW i \in 1 .. Len(Stored)
  PROVE  /\ StoredPages(i)[0] = FirstOf(i)
         /\ \A n \in 1 .. Len(Stored[i]) :
              StoredPages(i)[n] = insert_tuple(StoredPages(i)[n - 1], Stored[i][n], NoSlot)
<1> DEFINE N == Len(Stored[i])
           Body(f) == [n \in 0 .. N |->
                         IF n = 0 THEN FirstOf(i)
                         ELSE insert_tuple(f[n - 1], Stored[i][n], NoSlot)]
<1>1. N \in Nat /\ N \in 0 .. N
  BY StoredTypes
<1>2. PICK f : IsStored(i, f, N)
  BY <1>1, StoredExists
<1>3. f = Body(f)
  <2>1. \A n \in 0 .. N : f[n] = IF n = 0 THEN FirstOf(i)
                                 ELSE insert_tuple(f[n - 1], Stored[i][n], NoSlot)
    <3> TAKE n \in 0 .. N
    <3>1. n = 0 \/ n \in 1 .. N
      BY <1>1
    <3> QED
      BY <1>2, <3>1 DEF IsStored
  <2>2. f = [n \in 0 .. N |-> f[n]]
    BY <1>2 DEF IsStored
  <2> QED
    BY <2>1, <2>2
<1>4. StoredPages(i) = CHOOSE g : g = Body(g)
  BY DEF StoredPages, FirstOf
<1>5. StoredPages(i) = Body(StoredPages(i))
  BY <1>3, <1>4
<1> DEFINE h == StoredPages(i)
<1> HIDE DEF h
<1>6. h = Body(h)
  BY <1>5 DEF h
<1>7. h[0] = FirstOf(i) /\ \A n \in 1 .. N : h[n] = insert_tuple(h[n - 1], Stored[i][n], NoSlot)
  BY <1>1, <1>6
<1> QED
  BY <1>7 DEF h

(* Each row is in the slot of its turn.                                    *)
Filling(i, n) ==
  LET p == StoredPages(i)[n] IN
  /\ GoodPage(p) /\ p.next_page_id = FirstOf(i).next_page_id /\ slot_count(p) = n
  /\ \A s \in Nat : RowOf(p, s) = IF s < n THEN Stored[i][s + 1] ELSE NoTuple

LEMMA NextOfStored ==
  ASSUME NEW i \in 1 .. Len(Stored)
  PROVE  (IF i = Len(Stored) THEN INVALID_PAGE_ID ELSE i + 1) \in PageOrNot
<1>1. CASE i = Len(Stored)
  BY <1>1 DEF PageOrNot
<1>2. CASE i # Len(Stored)
  <2>1. Len(Stored) \in Nat
    BY StoredTypes
  <2>2. i + 1 \in 1 .. Len(Stored)
    BY <1>2, <2>1
  <2>3. i + 1 \in Page
    BY <2>2, StoredTypes
  <2> QED
    BY <1>2, <2>3 DEF PageOrNot
<1> QED
  BY <1>1, <1>2

LEMMA GoodSlots ==
  ASSUME NEW p, GoodPage(p), NEW n \in Nat, slot_count(p) = n,
         \A s \in 0 .. n - 1 : RowOf(p, s) # NoTuple
  PROVE  SlotFor(p, NoSlot) = n /\ n < kPAGE_SIZE
<1>1. PICK r : Sound(p, r, kPAGE_SIZE)
  BY DEF GoodPage
<1>2. p \in PageType
  BY <1>1 DEF Sound
<1>3. SlotFor(p, NoSlot) \in 0 .. n /\ ~has_slot(p, SlotFor(p, NoSlot))
  <2>1. NoSlot \in Int
    BY DEF NoSlot
  <2> QED
    BY <1>2, <2>1, SlotForProperties
<1>4. \A s \in 0 .. n - 1 : has_slot(p, s)
  BY GoodRow
<1>5. n < kPAGE_SIZE
  BY <1>1, RowOfIs
<1> QED
  BY <1>3, <1>4, <1>5

LEMMA StoredShows ==
  ASSUME NEW i \in 1 .. Len(Stored)
  PROVE  \A n \in 0 .. Len(Stored[i]) : Filling(i, n)
<1> DEFINE N == Len(Stored[i])
           T == {n \in 0 .. N : Filling(i, n)}
<1>1. N \in Nat /\ \A n \in 1 .. N : Stored[i][n] \in Tuple
  BY StoredTypes
<1>2. 0 \in T
  <2> DEFINE b == IF i = Len(Stored) THEN INVALID_PAGE_ID ELSE i + 1
  <2>1. FirstOf(i) = [init EXCEPT !.next_page_id = b]
    BY DEF FirstOf, init
  <2>2. b \in PageOrNot
    BY NextOfStored
  <2> HIDE DEF b
  <2>3. /\ GoodPage(FirstOf(i)) /\ \A s : RowOf(FirstOf(i), s) = RowOf(init, s)
    BY <2>1, <2>2, InitGood, Relinked
  <2>4. slot_count(FirstOf(i)) = 0
    BY <2>1, InitGood DEF slot_count, init
  <2> QED
    BY <1>1, <2>3, <2>4, InitGood, StoredIs DEF Filling
<1>3. ASSUME NEW n \in 1 .. N, n - 1 \in T PROVE n \in T
  <2> DEFINE p == StoredPages(i)[n - 1]
             q == StoredPages(i)[n]
             u == Stored[i][n]
             m == n - 1
  <2>1. /\ GoodPage(p) /\ p.next_page_id = FirstOf(i).next_page_id /\ slot_count(p) = m
        /\ \A s \in Nat : RowOf(p, s) = IF s < m THEN Stored[i][s + 1] ELSE NoTuple
    BY <1>3 DEF Filling
  <2>2. q = insert_tuple(p, u, NoSlot) /\ u \in Tuple
    BY <1>1, StoredIs
  <2>3. CanInsert(p, u, NoSlot)
    BY <1>1, StoredTypes, StoredAssumption
  <2>4. m \in Nat /\ n = m + 1 /\ m <= N
    BY <1>1
  <2>5. SlotFor(p, NoSlot) = m
    <3>1. \A s \in 0 .. m - 1 : RowOf(p, s) # NoTuple
      <4> TAKE s \in 0 .. m - 1
      <4>1. RowOf(p, s) = Stored[i][s + 1] /\ s + 1 \in 1 .. N
        BY <1>1, <2>1, <2>4
      <4> QED
        BY <1>1, <4>1, TupleTypes
    <3> HIDE DEF p, m
    <3> QED
      BY <2>1, <2>4, <3>1, GoodSlots
  <2>6. q.next_page_id = p.next_page_id
    BY <2>1, <2>2, GoodRow
  <2> HIDE DEF p, q, u, m
  <2>7. /\ GoodPage(q) /\ RowOf(q, m) = u /\ \A s : s # m => RowOf(q, s) = RowOf(p, s)
        /\ slot_count(q) = slot_count(p) + 1
    <3>1. NoSlot \in Int
      BY DEF NoSlot
    <3> QED
      BY <2>1, <2>2, <2>3, <2>5, <3>1, PageInsert
  <2>8. \A s \in Nat : RowOf(q, s) = IF s < n THEN Stored[i][s + 1] ELSE NoTuple
    <3> TAKE s \in Nat
    <3>1. CASE s = m
      BY <2>4, <2>7, <3>1 DEF u
    <3>2. CASE s # m
      BY <2>1, <2>4, <2>7, <3>2
    <3> QED
      BY <3>1, <3>2
  <2>9. Filling(i, n)
    BY <2>1, <2>4, <2>6, <2>7, <2>8 DEF Filling, q
  <2> QED
    BY <2>9
<1> HIDE DEF T
<1>4. \A n \in 0 .. N : n \in T
  BY <1>1, <1>2, <1>3, Climb
<1> QED
  BY <1>4 DEF T

LEMMA StoredPageIs ==
  ASSUME NEW i \in 1 .. Len(Stored)
  PROVE  /\ GoodPage(StoredPage(i)) /\ StoredPage(i) \in HeapPage
         /\ StoredPage(i).next_page_id = IF i = Len(Stored) THEN INVALID_PAGE_ID ELSE i + 1
         /\ Len(Stored[i]) < kPAGE_SIZE
         /\ \A s \in Nat : RowOf(StoredPage(i), s) =
                             IF s < Len(Stored[i]) THEN Stored[i][s + 1] ELSE NoTuple
<1> DEFINE N == Len(Stored[i])
           p == StoredPage(i)
<1>1. N \in Nat /\ N \in 0 .. N /\ \A n \in 1 .. N : Stored[i][n] \in Tuple
  BY StoredTypes
<1>2. /\ GoodPage(p) /\ p.next_page_id = FirstOf(i).next_page_id /\ slot_count(p) = N
      /\ \A s \in Nat : RowOf(p, s) = IF s < N THEN Stored[i][s + 1] ELSE NoTuple
  BY <1>1, StoredShows DEF Filling, StoredPage
<1>3. FirstOf(i).next_page_id = IF i = Len(Stored) THEN INVALID_PAGE_ID ELSE i + 1
  BY DEF FirstOf, init
<1> HIDE DEF p
<1>4. N < kPAGE_SIZE
  <2>1. PICK r : Sound(p, r, kPAGE_SIZE)
    BY <1>2 DEF GoodPage
  <2> QED
    BY <1>2, <2>1, RowOfIs
<1>5. p.next_page_id \in PageOrNot
  BY <1>2, <1>3, NextOfStored
<1>6. p \in HeapPage
  BY <1>2, <1>5, GoodIsHeapPage
<1> QED
  BY <1>2, <1>3, <1>4, <1>6 DEF p

LEMMA InitTypes ==
  ASSUME Init
  PROVE  TypeOK
<1>1. capacity \in 1 .. kMAX_CAPACITY /\ free_list \in Seq(Page)
  BY StoredTypes DEF Init
<1>2. frames \in [Frame -> FrameRec]
  BY InitIs DEF Init
<1>3. disk \in [Page -> HeapPage]
  <2>1. Zeroed \in HeapPage
    <3>1. 0 \in 0 .. kPAGE_SIZE /\ <<>> \in Seq(Slot) /\ 0 \in PageOrNot \cup {0}
      BY PageSize
    <3> QED
      BY <3>1 DEF Zeroed, init, HeapPage
  <2>2. ASSUME NEW p \in Page, p <= Len(Stored) PROVE StoredPage(p) \in HeapPage
    <3>1. p \in 1 .. Len(Stored)
      BY <2>2, StoredTypes, ConstantTypes DEF Page
    <3> QED
      BY <3>1, StoredPageIs
  <2>3. disk = [p \in Page |-> IF p <= Len(Stored) THEN StoredPage(p) ELSE Zeroed]
    BY DEF Init
  <2> QED
    BY <2>1, <2>2, <2>3
<1>4. pc \in [Thread -> PC] /\ call \in [Thread -> Call]
  BY NoCallIs DEF Init, PC
<1>5. DOMAIN rows \subseteq RIDs /\ \A rid \in DOMAIN rows : rows[rid] \in Tuple
  <2> DEFINE R == {r \in [page_id : DOMAIN Stored, slot_num : 0 .. kPAGE_SIZE] :
                     r.slot_num < Len(Stored[r.page_id])}
  <2>1. rows = [rid \in R |-> Stored[rid.page_id][rid.slot_num + 1]]
    BY DEF Init
  <2>2. ASSUME NEW rid \in R
        PROVE  rid \in RIDs /\ Stored[rid.page_id][rid.slot_num + 1] \in Tuple
    <3>1. /\ rid \in [page_id : DOMAIN Stored, slot_num : 0 .. kPAGE_SIZE]
          /\ rid.page_id \in DOMAIN Stored /\ rid.slot_num \in 0 .. kPAGE_SIZE
          /\ rid.slot_num < Len(Stored[rid.page_id])
      OBVIOUS
    <3>2. /\ rid.page_id \in 1 .. Len(Stored) /\ rid.page_id \in Page
          /\ Len(Stored[rid.page_id]) \in Nat
          /\ \A n \in 1 .. Len(Stored[rid.page_id]) : Stored[rid.page_id][n] \in Tuple
      BY <3>1, StoredTypes
    <3>3. rid.slot_num \in Nat
      BY <3>1, PageSize
    <3>4. rid \in RIDs
      <4>1. rid = [page_id |-> rid.page_id, slot_num |-> rid.slot_num]
        BY <3>1
      <4> QED
        BY <3>2, <3>3, <4>1 DEF RIDs
    <3>5. rid.slot_num + 1 \in 1 .. Len(Stored[rid.page_id])
      BY <3>1, <3>2, <3>3
    <3> QED
      BY <3>2, <3>4, <3>5
  <2> HIDE DEF R
  <2> QED
    BY <2>1, <2>2
<1>6. unsaved \subseteq DOMAIN rows /\ lost \subseteq Page /\ calls \in 0 .. MaxCalls
  BY ChainAssumption DEF Init
<1> QED
  BY <1>1, <1>2, <1>3, <1>4, <1>5, <1>6 DEF TypeOK, FrameRec

LEMMA InitChain ==
  ASSUME FewThreads, Init
  PROVE  \E L : ChainInv(L)
<1> DEFINE n == Len(Stored)
           L == [i \in 1 .. n |-> i]
<1>1. TypeOK
  BY InitTypes
<1>2. n \in Nat /\ n >= 1 /\ \A i \in 1 .. n : i \in Page
  BY StoredTypes
<1>3. /\ L \in Seq(Page) /\ Len(L) = n /\ DOMAIN L = 1 .. n /\ ToSet(L) = 1 .. n
      /\ \A i \in 1 .. n : L[i] = i
  <2>1. DOMAIN L = 1 .. n /\ \A i \in 1 .. n : L[i] = i
    OBVIOUS
  <2>2. L \in Seq(Page)
    BY <1>2, IsASeq
  <2>3. Len(L) = n
    BY <1>2, <2>1, <2>2, LenProperties
  <2>4. ToSet(L) = 1 .. n
    BY <2>1 DEF ToSet
  <2> QED
    BY <2>1, <2>2, <2>3, <2>4
<1> HIDE DEF L
<1>4. Line(L)
  BY <1>2, <1>3 DEF Line, IsInjective, first_page_id
<1>5. /\ \A t \in Thread : pc[t] = "idle" /\ call[t] = NoCall
      /\ \A f \in Frame : /\ frames[f].page_id = INVALID_PAGE_ID
                          /\ frames[f].pin_count = 0 /\ ~frames[f].is_dirty
  BY DEF Init, EmptyFrame
<1>6. OneHolder /\ HeldPages(L)
  BY <1>5 DEF OneHolder, HeldPages
<1>7. PinsCounted
  <2>1. \A f \in Frame : Users(f) = {}
    BY <1>5 DEF Users, Uses, Working
  <2> QED
    BY <1>5, <2>1, FS_EmptySet DEF PinsCounted
<1>8. ASSUME NEW t \in Thread PROVE WalkOK(L, t) /\ RowOK(t) /\ CreatorOK(L, t)
  BY <1>5, NoCallIs DEF WalkOK, Working, RowOK, OnItsRow, CreatorOK, Creating
<1>9. Places(L)
  <2>1. InCreation = {}
    BY <1>5 DEF InCreation
  <2>2. lost = {} /\ free_list = <<>> /\ capacity = n + 1
    BY DEF Init
  <2>3. ToSet(<<>>) = {} /\ IsInjective(<<>>)
    BY DEF ToSet, IsInjective
  <2>4. 1 .. (n + 1) - 1 = 1 .. n
    BY <1>2
  <2> QED
    BY <1>3, <2>1, <2>2, <2>3, <2>4 DEF Places
<1>10. Locks
  BY <1>5, NoCallIs DEF Locks, Inserting, RollingBack
<1> DEFINE R == {r \in [page_id : DOMAIN Stored, slot_num : 0 .. kPAGE_SIZE] :
                   r.slot_num < Len(Stored[r.page_id])}
<1>11. rows = [rid \in R |-> Stored[rid.page_id][rid.slot_num + 1]] /\ unsaved = {}
  BY DEF Init
<1>12. RowPages(L)
  <2>1. \A rid \in R : rid.page_id \in 1 .. n
    BY StoredTypes
  <2> HIDE DEF R
  <2> QED
    BY <1>3, <1>11, <2>1 DEF RowPages
<1>13. ASSUME NEW i \in 1 .. n PROVE PageKept(L, i)
  <2> DEFINE p == StoredPage(i)
  <2>1. /\ GoodPage(p) /\ p.next_page_id = IF i = n THEN INVALID_PAGE_ID ELSE i + 1
        /\ Len(Stored[i]) < kPAGE_SIZE
        /\ \A s \in Nat : RowOf(p, s) = IF s < Len(Stored[i]) THEN Stored[i][s + 1] ELSE NoTuple
    BY StoredPageIs
  <2>2. i \in Page /\ i <= n /\ Len(Stored[i]) \in Nat /\ i \in DOMAIN Stored
    BY <1>2, StoredTypes
  <2>3. disk[L[i]] = p
    BY <1>3, <2>2 DEF Init
  <2>4. \A f \in Frame : frames[f].page_id # L[i]
    BY <1>3, <1>5, <2>2, ConstantTypes
  <2> HIDE DEF p
  <2>5. p.next_page_id = Follows(L, i)
    <3>1. CASE i = n
      BY <1>2, <1>3, <2>1, <3>1 DEF Follows
    <3>2. CASE i # n
      <4>1. i < n /\ i + 1 \in 1 .. n
        BY <1>2, <3>2
      <4> QED
        BY <1>3, <2>1, <3>2, <4>1 DEF Follows
    <3> QED
      BY <3>1, <3>2
  <2>6. ASSUME NEW s \in Nat PROVE RowOf(p, s) = Expected(Rid(i, s), rows)
    <3> DEFINE rid == Rid(i, s)
    <3>1. rid.page_id = i /\ rid.slot_num = s
      BY RidIs
    <3>2. CASE s < Len(Stored[i])
      <4>1. s \in 0 .. kPAGE_SIZE
        BY <2>1, <2>2, <3>2, PageSize
      <4>2. rid \in R
        BY <2>2, <3>1, <3>2, <4>1 DEF Rid
      <4> HIDE DEF R, rid
      <4>3. rid \in DOMAIN rows /\ rows[rid] = Stored[i][s + 1]
        BY <1>11, <3>1, <4>2
      <4>4. Expected(rid, rows) = Stored[i][s + 1]
        BY <4>3 DEF Expected
      <4> QED
        BY <2>1, <3>2, <4>4 DEF rid
    <3>3. CASE ~(s < Len(Stored[i]))
      <4>1. rid \notin R
        BY <3>1, <3>3
      <4> HIDE DEF R, rid
      <4>2. rid \notin DOMAIN rows
        BY <1>11, <4>1
      <4>3. Expected(rid, rows) = NoTuple
        BY <4>2 DEF Expected
      <4> QED
        BY <2>1, <3>3, <4>3 DEF rid
    <3> QED
      BY <3>2, <3>3
  <2>7. Keeps(L, i, p, rows, unsaved)
    BY <1>3, <2>1, <2>5, <2>6 DEF Keeps, Fits
  <2> QED
    BY <2>3, <2>4, <2>7 DEF PageKept
<1>14. ChainInv(L)
  BY <1>1, <1>3, <1>4, <1>6, <1>7, <1>8, <1>9, <1>10, <1>12, <1>13 DEF ChainInv
<1> QED
  BY <1>14

(* The invariant: there is such a line.                                    *)
IsALine == \E L : ChainInv(L)

LEMMA ChainInvariant ==
  ASSUME Careful, FewThreads
  PROVE  Spec => []IsALine
<1>1. Init => IsALine
  BY InitChain DEF IsALine
<1>2. IsALine /\ [Next]_vars => IsALine'
  <2> SUFFICES ASSUME IsALine, [Next]_vars PROVE IsALine'
    OBVIOUS
  <2>1. PICK L : ChainInv(L)
    BY DEF IsALine
  <2>2. \E M : ChainInv(M)'
    BY <2>1, NextKeeps
  <2> QED
    BY <2>2 DEF IsALine
<1> QED
  BY <1>1, <1>2, PTL DEF Spec

-----------------------------------------------------------------------------
(* The chain of the model is the line.                                     *)
LEMMA CurrentKept ==
  ASSUME NEW L, ChainInv(L), NEW i \in 1 .. Len(L)
  PROVE  Keeps(L, i, Current(L[i]), rows, unsaved)
<1>1. PageKept(L, i)
  BY DEF ChainInv
<1>2. CASE Holding(L[i]) # {}
  <2>1. FrameOf(L[i]) \in Holding(L[i])
    BY <1>2 DEF FrameOf
  <2>2. FrameOf(L[i]) \in Frame /\ frames[FrameOf(L[i])].page_id = L[i]
    BY <2>1 DEF Holding
  <2>3. Keeps(L, i, frames[FrameOf(L[i])].page, rows, unsaved)
    BY <1>1, <2>2 DEF PageKept
  <2> QED
    BY <1>2, <2>3 DEF Current
<1>3. CASE Holding(L[i]) = {}
  <2>1. \A f \in Frame : frames[f].page_id # L[i]
    BY <1>3 DEF Holding
  <2>2. Keeps(L, i, disk[L[i]], rows, unsaved)
    BY <1>1, <2>1 DEF PageKept
  <2> QED
    BY <1>3, <2>2 DEF Current
<1> QED
  BY <1>2, <1>3

LEMMA LinkIs ==
  ASSUME NEW L, ChainInv(L), NEW i \in 1 .. Len(L)
  PROVE  next_page(L[i]) = Follows(L, i)
BY CurrentKept DEF Keeps, next_page

LEMMA UpTo ==
  ASSUME NEW n \in Nat
  PROVE  IsFiniteSet(1 .. n) /\ Cardinality(1 .. n) = n
<1>1. /\ IsFiniteSet(1 .. n)
      /\ Cardinality(1 .. n) = IF 1 > n THEN 0 ELSE n - 1 + 1
  BY FS_Interval
<1> QED
  BY <1>1

(* A line has no more pages than there are.                                *)
LEMMA LineEnds ==
  ASSUME NEW L, Line(L)
  PROVE  Len(L) <= kMAX_CAPACITY
<1>1. /\ Len(L) \in Nat /\ \A i \in 1 .. Len(L) : L[i] \in Page
      /\ \A i, j \in 1 .. Len(L) : L[i] = L[j] => i = j
      /\ L \in Seq(Page)
  BY LineIs
<1>2. kMAX_CAPACITY \in Nat
  BY ConstantTypes
<1> SUFFICES ASSUME Len(L) > kMAX_CAPACITY PROVE FALSE
  BY <1>1, <1>2
<1>3. IsFiniteSet(1 .. Len(L)) /\ Cardinality(1 .. Len(L)) = Len(L)
  <2>1. Len(L) \in Nat
    BY <1>1
  <2> QED
    BY <2>1, UpTo
<1>4. IsFiniteSet(Page) /\ Cardinality(Page) < Len(L)
  <2>1. CASE kMAX_CAPACITY = 0
    <3>1. Page = {} /\ Len(L) > 0
      BY <2>1 DEF Page
    <3> QED
      BY <3>1, FS_EmptySet
  <2>2. CASE kMAX_CAPACITY # 0
    <3>1. kMAX_CAPACITY - 1 \in Nat /\ kMAX_CAPACITY - 1 < Len(L)
      BY <1>1, <1>2, <2>2
    <3>2. IsFiniteSet(Page) /\ Cardinality(Page) = kMAX_CAPACITY - 1
      BY <3>1, UpTo DEF Page
    <3> QED
      BY <3>1, <3>2
  <2> QED
    BY <2>1, <2>2
<1>5. L \in [1 .. Len(L) -> Page]
  BY <1>1, LenProperties
<1> QED
  BY <1>1, <1>3, <1>4, <1>5, FS_PigeonHole

(* From a page on, the links lead to the pages that come after it.         *)
Beyond(L, i, n) == {L[j] : j \in {k \in i .. Len(L) : k <= i + n}}

LEMMA BeyondGrows ==
  ASSUME NEW L, ChainInv(L), NEW i \in 1 .. Len(L), NEW n \in Nat
  PROVE  Beyond(L, i, n + 1) =
           Beyond(L, i, n) \cup ({next_page(q) : q \in Beyond(L, i, n)} \cap Page)
<1>1. /\ Len(L) \in Nat /\ i \in Nat /\ INVALID_PAGE_ID \notin Page
      /\ \A j \in 1 .. Len(L) : L[j] \in Page
  BY LineIs, ConstantTypes DEF ChainInv
<1>2. \A j \in 1 .. Len(L) : next_page(L[j]) = IF j < Len(L) THEN L[j + 1] ELSE INVALID_PAGE_ID
  BY LinkIs DEF Follows
<1>3. ASSUME NEW j \in i .. Len(L), j <= i + (n + 1)
      PROVE  L[j] \in Beyond(L, i, n) \cup ({next_page(q) : q \in Beyond(L, i, n)} \cap Page)
  <2>1. CASE j <= i + n
    BY <2>1 DEF Beyond
  <2>2. CASE j = i + (n + 1)
    <3>1. j - 1 \in i .. Len(L) /\ j - 1 <= i + n /\ j - 1 \in 1 .. Len(L) /\ j - 1 < Len(L)
      BY <1>1, <2>2
    <3>2. (j - 1) + 1 = j /\ j \in 1 .. Len(L)
      BY <1>1
    <3>3. next_page(L[j - 1]) = L[j] /\ L[j] \in Page
      BY <1>1, <1>2, <3>1, <3>2
    <3>4. L[j - 1] \in Beyond(L, i, n)
      BY <3>1 DEF Beyond
    <3> QED
      BY <3>3, <3>4
  <2>3. j <= i + n \/ j = i + (n + 1)
    BY <1>1, <1>3
  <2> QED
    BY <2>1, <2>2, <2>3
<1>4. ASSUME NEW j \in i .. Len(L), j <= i + n, next_page(L[j]) \in Page
      PROVE  next_page(L[j]) \in Beyond(L, i, n + 1)
  <2>1. j \in 1 .. Len(L)
    BY <1>1
  <2>2. j < Len(L) /\ next_page(L[j]) = L[j + 1]
    BY <1>1, <1>2, <1>4, <2>1
  <2>3. j + 1 \in i .. Len(L) /\ j + 1 <= i + (n + 1)
    BY <1>1, <1>4, <2>1, <2>2
  <2> QED
    BY <2>2, <2>3 DEF Beyond
<1>5. ASSUME NEW j \in i .. Len(L), j <= i + n PROVE L[j] \in Beyond(L, i, n + 1)
  <2>1. j <= i + (n + 1)
    BY <1>1, <1>5
  <2> QED
    BY <2>1 DEF Beyond
<1> DEFINE A == Beyond(L, i, n)
           B == Beyond(L, i, n + 1)
<1>6. /\ \A q \in A : \E j \in i .. Len(L) : j <= i + n /\ q = L[j]
      /\ \A q \in B : \E j \in i .. Len(L) : j <= i + (n + 1) /\ q = L[j]
  BY DEF Beyond
<1>7. \A q \in B : q \in A \cup ({next_page(x) : x \in A} \cap Page)
  BY <1>3, <1>6
<1>8. \A q \in A : q \in B /\ (next_page(q) \in Page => next_page(q) \in B)
  BY <1>4, <1>5, <1>6
<1> HIDE DEF A, B
<1>9. B = A \cup ({next_page(x) : x \in A} \cap Page)
  BY <1>7, <1>8
<1> QED
  BY <1>9 DEF A, B

LEMMA FromIs ==
  ASSUME NEW L, ChainInv(L), NEW i \in 1 .. Len(L)
  PROVE  From(L[i]) = {L[j] : j \in i .. Len(L)}
<1> DEFINE Step(S) == S \cup ({next_page(q) : q \in S} \cap Page)
           Body(g) == [n \in Nat |-> IF n = 0 THEN {L[i]} ELSE Step(g[n - 1])]
           h == CHOOSE g : g = Body(g)
           K == kMAX_CAPACITY
<1>1. /\ Len(L) \in Nat /\ i \in Nat /\ K \in Nat /\ Len(L) <= K
  BY LineIs, LineEnds, ConstantTypes DEF ChainInv
<1>2. From(L[i]) = h[K]
  BY DEF From
<1>3. \A n \in Nat : Beyond(L, i, n + 1) = Step(Beyond(L, i, n))
  BY BeyondGrows
<1>4. Beyond(L, i, 0) = {L[i]}
  <2>1. {k \in i .. Len(L) : k <= i + 0} = {i}
    BY <1>1
  <2> QED
    BY <2>1 DEF Beyond
<1>5. Beyond(L, i, K) = {L[j] : j \in i .. Len(L)}
  <2>1. {k \in i .. Len(L) : k <= i + K} = i .. Len(L)
    BY <1>1
  <2> QED
    BY <2>1 DEF Beyond
<1> HIDE DEF Step, K
<1>6. h = Body(h)
  <2> DEFINE f == [n \in Nat |-> Beyond(L, i, n)]
  <2>1. \A n \in Nat : f[n] = IF n = 0 THEN {L[i]} ELSE Step(f[n - 1])
    <3> TAKE n \in Nat
    <3>1. CASE n = 0
      BY <1>4, <3>1
    <3>2. CASE n # 0
      <4>1. n - 1 \in Nat /\ (n - 1) + 1 = n
        BY <3>2
      <4>2. Beyond(L, i, n) = Step(Beyond(L, i, n - 1))
        BY <1>3, <4>1
      <4> QED
        BY <3>2, <4>1, <4>2
    <3> QED
      BY <3>1, <3>2
  <2>2. f = [n \in Nat |-> f[n]]
    OBVIOUS
  <2> HIDE DEF f
  <2>3. f = Body(f)
    BY <2>1, <2>2
  <2> QED
    BY <2>3
<1> HIDE DEF h
<1>7. h[0] = {L[i]} /\ \A n \in Nat : n # 0 => h[n] = Step(h[n - 1])
  BY <1>6
<1> DEFINE T == {n \in Nat : h[n] = Beyond(L, i, n)}
<1>8. 0 \in T
  BY <1>4, <1>7
<1>9. ASSUME NEW n \in 1 .. K, n - 1 \in T PROVE n \in T
  <2>1. n - 1 \in Nat /\ (n - 1) + 1 = n /\ n \in Nat /\ n # 0
    BY <1>1
  <2>2. h[n - 1] = Beyond(L, i, n - 1)
    BY <1>9
  <2>3. h[n] = Step(Beyond(L, i, n - 1))
    BY <1>7, <2>1, <2>2
  <2> QED
    BY <1>3, <2>1, <2>3
<1> HIDE DEF T
<1>10. K \in Nat /\ K \in 0 .. K
  BY <1>1
<1>11. \A n \in 0 .. K : n \in T
  BY <1>8, <1>9, <1>10, Climb
<1>12. K \in T
  BY <1>10, <1>11
<1> QED
  BY <1>2, <1>5, <1>12 DEF T

LEMMA InChainIs ==
  ASSUME NEW L, ChainInv(L)
  PROVE  InChain = ToSet(L)
<1>1. 1 \in 1 .. Len(L) /\ L[1] = first_page_id /\ DOMAIN L = 1 .. Len(L)
  BY LineIs DEF ChainInv, Line
<1>2. From(L[1]) = {L[j] : j \in 1 .. Len(L)}
  BY <1>1, FromIs
<1> QED
  BY <1>1, <1>2 DEF InChain, ToSet

-----------------------------------------------------------------------------
(* Bytes and rows.                                                         *)
LEMMA ShownIs ==
  ASSUME NEW p, GoodPage(p), NEW s \in Nat
  PROVE  /\ RowOf(p, s) = NoTuple => ~has_slot(p, s) /\ get_tuple(p, s) = <<>>
         /\ RowOf(p, s) # NoTuple =>
              /\ s \in SlotNums(p)
              /\ get_tuple(p, s) = [i \in 1 .. RowOf(p, s).size |-> RowOf(p, s).value]
<1> DEFINE u == RowOf(p, s)
<1>1. PICK r : Sound(p, r, kPAGE_SIZE)
  BY DEF GoodPage
<1>2. u # NoTuple <=> has_slot(p, s)
  BY GoodRow
<1> HIDE DEF u
<1>3. CASE u = NoTuple
  BY <1>2, <1>3 DEF get_tuple, u
<1>4. CASE u # NoTuple
  <2>1. has_slot(p, s) /\ s \in SlotNums(p) /\ s \in 0 .. kPAGE_SIZE - 1
    BY <1>1, <1>2, <1>4, HasSlotInPage DEF has_slot
  <2>2. r[s] = u /\ u \in Tuple
    BY <1>1, <1>4, <2>1, RowOfIs DEF u
  <2>3. Shows(p, s, u) /\ p \in PageType
    BY <1>1, <2>1, <2>2 DEF Sound
  <2>4. /\ slot(p, s).length = u.size
        /\ \A b \in slot(p, s).offset .. slot(p, s).offset + u.size - 1 : p.data[b] = u.value
    BY <1>4, <2>3 DEF Shows
  <2>5. u.size \in Nat /\ slot(p, s).offset \in Nat
    BY <2>1, <2>2, <2>3, TupleTypes, PageTypes, PageSize
  <2>6. \A i \in 1 .. u.size : p.data[slot(p, s).offset + i - 1] = u.value
    BY <2>4, <2>5
  <2>7. get_tuple(p, s) = [i \in 1 .. u.size |-> p.data[slot(p, s).offset + i - 1]]
    BY <2>1, <2>4 DEF get_tuple
  <2>8. get_tuple(p, s) = [i \in 1 .. u.size |-> u.value]
    BY <2>6, <2>7
  <2> QED
    BY <1>4, <2>1, <2>8 DEF u
<1> QED
  BY <1>3, <1>4 DEF u

LEMMA RowsFollow ==
  ASSUME NEW L, ChainInv(L)
  PROVE  RowsAreKept
<1>1. /\ TypeOK /\ RowPages(L) /\ InChain = ToSet(L) /\ Line(L)
  BY InChainIs DEF ChainInv
<1>2. \A rid \in DOMAIN rows : rid.page_id \in InChain
  BY <1>1 DEF RowPages
<1>3. ASSUME NEW p \in InChain
      PROVE  /\ GoodPage(Current(p))
             /\ \A s \in Nat : Fits(Rid(p, s), RowOf(Current(p), s), rows, unsaved)
  <2>1. PICK i \in 1 .. Len(L) : p = L[i]
    BY <1>1, LineIs
  <2> QED
    BY <2>1, CurrentKept DEF Keeps
<1>4. \A rid \in DOMAIN rows : rows[rid] \in Tuple /\ rows[rid] # NoTuple
  BY <1>1, RowTypes, TupleTypes
<1>5. ASSUME NEW p \in InChain, NEW s \in SlotNums(Current(p)), Rid(p, s) \notin unsaved
      PROVE  get_tuple(Current(p), s) =
               IF Rid(p, s) \in DOMAIN rows
               THEN [i \in 1 .. rows[Rid(p, s)].size |-> rows[Rid(p, s)].value]
               ELSE <<>>
  <2> DEFINE page_p == Current(p)
             rid == Rid(p, s)
  <2>1. GoodPage(page_p) /\ s \in Nat
    BY <1>3 DEF SlotNums
  <2>2. RowOf(page_p, s) = Expected(rid, rows)
    BY <1>3, <1>5, <2>1 DEF Fits
  <2> HIDE DEF page_p, rid
  <2>3. CASE rid \in DOMAIN rows
    <3>1. RowOf(page_p, s) = rows[rid] /\ rows[rid] # NoTuple
      BY <1>4, <2>2, <2>3 DEF Expected
    <3>2. get_tuple(page_p, s) = [i \in 1 .. rows[rid].size |-> rows[rid].value]
      BY <2>1, <3>1, ShownIs
    <3> QED
      BY <2>3, <3>2 DEF page_p, rid
  <2>4. CASE rid \notin DOMAIN rows
    <3>1. RowOf(page_p, s) = NoTuple
      BY <2>2, <2>4 DEF Expected
    <3>2. get_tuple(page_p, s) = <<>>
      BY <2>1, <3>1, ShownIs
    <3> QED
      BY <2>4, <3>2 DEF page_p, rid
  <2> QED
    BY <2>3, <2>4
<1>6. ASSUME NEW rid \in DOMAIN rows \ unsaved
      PROVE  rid.slot_num \in SlotNums(Current(rid.page_id))
  <2> DEFINE p == rid.page_id
             s == rid.slot_num
  <2>1. p \in InChain /\ rid \in RIDs /\ rid = Rid(p, s) /\ s \in Nat
    BY <1>1, <1>2, RowTypes, RidIs
  <2>2. GoodPage(Current(p)) /\ Fits(rid, RowOf(Current(p), s), rows, unsaved)
    BY <1>3, <2>1
  <2>3. RowOf(Current(p), s) = rows[rid] /\ rows[rid] # NoTuple
    BY <1>4, <1>6, <2>2 DEF Fits, Expected
  <2> HIDE DEF p, s
  <2>4. s \in SlotNums(Current(p))
    BY <2>1, <2>2, <2>3, ShownIs
  <2> QED
    BY <2>4 DEF p, s
<1> QED
  BY <1>2, <1>5, <1>6 DEF RowsAreKept

-----------------------------------------------------------------------------
(* The line is what the properties ask of the chain.                       *)
LEMMA ChainFollows ==
  ASSUME NEW L, ChainInv(L)
  PROVE  ChainIsSound
<1>1. /\ TypeOK /\ Line(L) /\ Len(L) \in Nat /\ DOMAIN L = 1 .. Len(L)
      /\ \A i, j \in 1 .. Len(L) : L[i] = L[j] => i = j
      /\ L[1] = first_page_id /\ 1 \in 1 .. Len(L)
      /\ \A p \in ToSet(L) : \E i \in 1 .. Len(L) : p = L[i]
  BY LineIs DEF ChainInv, Line
<1>2. InChain = ToSet(L)
  BY InChainIs
<1>3. \A i \in 1 .. Len(L) : next_page(L[i]) = Follows(L, i)
  BY LinkIs
<1>4. ASSUME NEW p \in InChain
      PROVE  next_page(p) \in PageOrNot \ {first_page_id}
  <2>1. PICK i \in 1 .. Len(L) : p = L[i]
    BY <1>1, <1>2
  <2>2. Follows(L, i) \in PageOrNot
    BY <1>1, FollowsIs
  <2>3. Follows(L, i) # first_page_id
    <3>1. CASE i < Len(L)
      <4>1. i + 1 \in 1 .. Len(L) /\ i + 1 # 1 /\ Follows(L, i) = L[i + 1]
        BY <1>1, <3>1 DEF Follows
      <4> QED
        BY <1>1, <4>1
    <3>2. CASE ~(i < Len(L))
      BY <3>2, ConstantTypes DEF Follows
    <3> QED
      BY <3>1, <3>2
  <2> QED
    BY <1>3, <2>1, <2>2, <2>3
<1>5. ASSUME NEW p \in InChain, NEW q \in InChain \ {p}, next_page(p) = next_page(q)
      PROVE  next_page(p) = INVALID_PAGE_ID
  <2>1. PICK i \in 1 .. Len(L), j \in 1 .. Len(L) : p = L[i] /\ q = L[j] /\ i # j
    BY <1>1, <1>2
  <2>2. Follows(L, i) = Follows(L, j) /\ next_page(p) = Follows(L, i)
    BY <1>3, <1>5, <2>1
  <2>3. \A k \in 1 .. Len(L) : ~(k < Len(L)) => Follows(L, k) = INVALID_PAGE_ID
    BY DEF Follows
  <2> SUFFICES ASSUME i < Len(L), j < Len(L) PROVE FALSE
    BY <2>2, <2>3
  <2>4. /\ i + 1 \in 1 .. Len(L) /\ j + 1 \in 1 .. Len(L) /\ i + 1 # j + 1
        /\ L[i + 1] = L[j + 1]
    BY <1>1, <2>1, <2>2 DEF Follows
  <2> QED
    BY <1>1, <2>4
<1>6. ASSUME NEW t \in Thread, pc[t] = "unpin", call[t].op \in {"insert", "scan"},
             call[t].page_id # INVALID_PAGE_ID, ~Starts(t)
      PROVE  call[t].page_id \in
               From(frames[call[t].frame].page_id) \ {frames[call[t].frame].page_id}
  <2>1. WalkOK(L, t)
    BY DEF ChainInv
  <2>2. Ahead(L, frames[call[t].frame].page_id, call[t].page_id)
    BY <1>6, <2>1 DEF WalkOK
  <2>3. PICK i \in 1 .. Len(L), j \in 1 .. Len(L) :
          i < j /\ frames[call[t].frame].page_id = L[i] /\ call[t].page_id = L[j]
    BY <2>2 DEF Ahead
  <2>4. L[j] \in From(L[i]) /\ L[j] # L[i]
    <3>1. j \in i .. Len(L) /\ i # j
      BY <1>1, <2>3
    <3>2. From(L[i]) = {L[k] : k \in i .. Len(L)}
      BY FromIs
    <3> QED
      BY <1>1, <3>1, <3>2
  <2> QED
    BY <2>3, <2>4
<1> QED
  BY <1>1, <1>4, <1>5, <1>6 DEF ChainIsSound, OneLine, WalksGoForward

(* As many as the places of a sequence that names nothing twice.           *)
LEMMA SeqCount ==
  ASSUME NEW S, NEW s \in Seq(S), IsInjective(s)
  PROVE  IsFiniteSet(ToSet(s)) /\ Cardinality(ToSet(s)) = Len(s)
<1>1. Len(s) \in Nat /\ DOMAIN s = 1 .. Len(s)
  BY LenProperties
<1>2. IsFiniteSet(1 .. Len(s)) /\ Cardinality(1 .. Len(s)) = Len(s)
  BY <1>1, UpTo
<1>3. s \in Bijection(1 .. Len(s), ToSet(s))
  <2>1. s \in [1 .. Len(s) -> ToSet(s)]
    BY <1>1, LenProperties DEF ToSet
  <2>2. \A y \in ToSet(s) : \E x \in 1 .. Len(s) : s[x] = y
    BY <1>1 DEF ToSet
  <2> QED
    BY <1>1, <2>1, <2>2 DEF Bijection, Injection, Surjection, IsInjective
<1>4. ExistsBijection(1 .. Len(s), ToSet(s))
  BY <1>3 DEF ExistsBijection
<1> QED
  BY <1>2, <1>4, FS_Bijection

LEMMA CountApart ==
  ASSUME NEW S, NEW T, IsFiniteSet(S), IsFiniteSet(T), S \cap T = {}
  PROVE  IsFiniteSet(S \cup T) /\ Cardinality(S \cup T) = Cardinality(S) + Cardinality(T)
<1>1. Cardinality(S) \in Nat /\ Cardinality(T) \in Nat
  BY FS_CardinalityType
<1>2. /\ IsFiniteSet(S \cup T)
      /\ Cardinality(S \cup T) = Cardinality(S) + Cardinality(T) - Cardinality(S \cap T)
  BY FS_Union
<1>3. Cardinality(S \cap T) = 0
  BY FS_EmptySet
<1> QED
  BY <1>1, <1>2, <1>3

LEMMA PlacesFollow ==
  ASSUME NEW L, ChainInv(L)
  PROVE  EveryPageHasAPlace
<1> DEFINE A == ToSet(L)
           B == ToSet(free_list)
           C == InCreation
           D == lost
<1>1. /\ TypeOK /\ Line(L) /\ Places(L) /\ InChain = ToSet(L)
  BY InChainIs DEF ChainInv
<1>2. /\ A \cup B \cup C \cup D = 1 .. capacity - 1
      /\ A \cap (B \cup C \cup D) = {} /\ B \cap (C \cup D) = {} /\ C \cap D = {}
  BY <1>1 DEF Places
<1>3. Cardinality(B) = Len(free_list)
  <2>1. free_list \in Seq(Page) /\ IsInjective(free_list)
    BY <1>1 DEF TypeOK, Places
  <2> QED
    BY <2>1, SeqCount
<1> HIDE DEF A, B, C, D
<1>4. /\ IsFiniteSet(1 .. capacity - 1) /\ Cardinality(1 .. capacity - 1) = capacity - 1
  <2>1. capacity - 1 \in Nat
    BY <1>1, ConstantTypes DEF TypeOK
  <2> QED
    BY <2>1, UpTo
<1>5. IsFiniteSet(A) /\ IsFiniteSet(B) /\ IsFiniteSet(C) /\ IsFiniteSet(D)
  BY <1>2, <1>4, FS_Subset
<1>6. IsFiniteSet(C \cup D) /\ Cardinality(C \cup D) = Cardinality(C) + Cardinality(D)
  BY <1>2, <1>5, CountApart
<1>7. /\ IsFiniteSet(B \cup (C \cup D))
      /\ Cardinality(B \cup (C \cup D)) = Cardinality(B) + Cardinality(C \cup D)
  BY <1>2, <1>5, <1>6, CountApart
<1>8. Cardinality(A \cup (B \cup (C \cup D))) = Cardinality(A) + Cardinality(B \cup (C \cup D))
  <2>1. A \cap (B \cup (C \cup D)) = {}
    BY <1>2
  <2> QED
    BY <1>5, <1>7, <2>1, CountApart
<1>9. Cardinality(A \cup (B \cup (C \cup D))) = capacity - 1
  <2>1. A \cup (B \cup (C \cup D)) = 1 .. capacity - 1
    BY <1>2
  <2> QED
    BY <1>4, <2>1, Zenon
<1>10. /\ Cardinality(A) \in Nat /\ Cardinality(B) \in Nat
       /\ Cardinality(C) \in Nat /\ Cardinality(D) \in Nat
  BY <1>5, FS_CardinalityType
<1>11. Cardinality(A) + Cardinality(B) + Cardinality(C) + Cardinality(D) = capacity - 1
  BY <1>6, <1>7, <1>8, <1>9, <1>10
<1> QED
  BY <1>1, <1>2, <1>3, <1>11 DEF EveryPageHasAPlace, A, B, C, D

LEMMA PinsFollow ==
  ASSUME FewThreads, NEW L, ChainInv(L)
  PROVE  PinsAreHeld
<1> SUFFICES ASSUME NEW f \in Frame
             PROVE  frames[f].pin_count =
                      Cardinality({t \in Thread : call[t].frame = f /\ pc[t] \notin {"idle", "fetch"}})
                      + Cardinality({t \in Thread : call[t].fresh = f /\ pc[t] = "filled"})
  BY DEF PinsAreHeld
<1> DEFINE S == {t \in Thread : call[t].frame = f /\ pc[t] \notin {"idle", "fetch"}}
           T == {t \in Thread : call[t].fresh = f /\ pc[t] = "filled"}
<1>1. frames[f].pin_count = Cardinality(Users(f))
  BY DEF ChainInv, PinsCounted
<1>2. Users(f) = S \cup T
  BY DEF Users, Uses, Working
<1>3. IsFiniteSet(S) /\ IsFiniteSet(T)
  <2>1. S \in SUBSET Thread /\ T \in SUBSET Thread /\ IsFiniteSet(Thread)
    BY DEF FewThreads
  <2> HIDE DEF S, T
  <2> QED
    BY <2>1, FS_Subset
<1>4. S \cap T = {}
  <2> SUFFICES ASSUME NEW t \in S, NEW u \in T PROVE t # u
    OBVIOUS
  <2>1. WalkOK(L, t) /\ CreatorOK(L, u)
    BY DEF ChainInv
  <2>2. frames[f].page_id \in ToSet(L)
    BY <2>1 DEF WalkOK, Working
  <2>3. frames[f].page_id \notin ToSet(L)
    BY <2>1 DEF CreatorOK, Creating
  <2> QED
    BY <2>2, <2>3
<1> HIDE DEF S, T
<1>5. Cardinality(S \cup T) = Cardinality(S) + Cardinality(T)
  BY <1>3, <1>4, CountApart
<1> QED
  BY <1>1, <1>2, <1>5 DEF S, T

AreLinked == \A L : ChainInv(L) => \A i \in 1 .. Len(L) : next_page(L[i]) = Follows(L, i)

LEMMA LinkedBefore == AreLinked
BY LinkIs DEF AreLinked

LEMMA LinkedAfter == AreLinked'
BY LinkedBefore, PTL

LEMMA LinksFollow ==
  ASSUME Careful, FewThreads, NEW L, ChainInv(L), [Next]_vars,
         NEW p \in InChain, next_page(p) # INVALID_PAGE_ID
  PROVE  next_page(p)' = next_page(p)
<1>1. PICK M : ChainInv(M)' /\ Grown(L, M)
  BY NextKeeps
<1>2. Line(L) /\ Len(L) \in Nat /\ InChain = ToSet(L) /\ L \in Seq(Page)
  BY InChainIs, LineIs DEF ChainInv
<1>3. PICK i \in 1 .. Len(L) : p = L[i]
  BY <1>2, LineIs
<1>4. next_page(p) = L[i + 1] /\ i < Len(L) /\ i \in Nat
  BY <1>2, <1>3, LinkIs DEF Follows
<1>5. /\ i \in 1 .. Len(M) /\ M[i] = L[i] /\ i < Len(M) /\ M[i + 1] = L[i + 1]
  <2>1. CASE M = L
    BY <1>3, <1>4, <2>1
  <2>2. CASE \E q \in Page : M = Append(L, q)
    <3>1. PICK q \in Page : M = Append(L, q)
      BY <2>2
    <3>2. Len(M) = Len(L) + 1 /\ \A j \in 1 .. Len(L) : M[j] = L[j]
      BY <1>2, <3>1, AppendProperties
    <3> QED
      BY <1>2, <1>3, <1>4, <3>2
  <2> QED
    BY <1>1, <2>1, <2>2 DEF Grown
<1>6. next_page(M[i])' = Follows(M, i)
  BY <1>1, <1>5, LinkedAfter DEF AreLinked
<1> QED
  BY <1>3, <1>4, <1>5, <1>6 DEF Follows

-----------------------------------------------------------------------------
(***************************************************************************)
(* What the heap promises a pool that keeps its pages (Careful), whatever  *)
(* its calls, its rows, its pages, its frames and the frames evicted, to   *)
(* fewer threads than pin_count_ can count.                                *)
(***************************************************************************)
(* Two inserts that both find the end of the chain and both create a page  *)
(* leave one chain (TableHeap::insert_tuple): nothing leads back, no page  *)
(* is linked twice, and no insert or scan comes to a page it has been to.  *)
THEOREM ChainStaysSound == ASSUME Careful, FewThreads PROVE Spec => []ChainIsSound
<1>1. IsALine => ChainIsSound
  BY ChainFollows DEF IsALine
<1> QED
  BY <1>1, ChainInvariant, PTL

(* The page of the insert that links second goes back to the allocator,    *)
(* once: each id is on the chain, free, being created, or counted as lost. *)
THEOREM EveryPageKeepsAPlace ==
  ASSUME Careful, FewThreads PROVE Spec => []EveryPageHasAPlace
<1>1. IsALine => EveryPageHasAPlace
  BY PlacesFollow DEF IsALine
<1> QED
  BY <1>1, ChainInvariant, PTL

(* Evictions write back what they must: every row is read as it was put,   *)
(* at its RID, but for one that restore_tuple has left in a clean frame.   *)
THEOREM HeapRowsAreKept == ASSUME Careful, FewThreads PROVE Spec => []RowsAreKept
<1>1. IsALine => RowsAreKept
  BY RowsFollow DEF IsALine
<1> QED
  BY <1>1, ChainInvariant, PTL

(* Every way out of a call, the `continue` of the second insert included,  *)
(* gives back the pins it has taken, and gives none back twice.            *)
THEOREM HeapPinsAreHeld == ASSUME Careful, FewThreads PROVE Spec => []PinsAreHeld
<1>1. FewThreads /\ IsALine => PinsAreHeld
  BY PinsFollow DEF IsALine
<1> QED
  BY <1>1, ChainInvariant, PTL

(* A link that is set is never set again, nor read as unset after its page *)
(* was evicted: no page falls off the chain.                               *)
THEOREM ChainLinksStay == ASSUME Careful, FewThreads PROVE Spec => LinksStay
<1> DEFINE Stays == \A p \in InChain : next_page(p) # INVALID_PAGE_ID => next_page(p)' = next_page(p)
<1>1. IsALine /\ [Next]_vars => [Stays]_vars
  <2> SUFFICES ASSUME IsALine, [Next]_vars PROVE Stays
    OBVIOUS
  <2>1. PICK L : ChainInv(L)
    BY DEF IsALine
  <2> QED
    BY <2>1, LinksFollow
<1>2. Spec => [][Stays]_vars
  BY <1>1, ChainInvariant, PTL DEF Spec
<1> QED
  BY <1>2 DEF LinksStay
=============================================================================
