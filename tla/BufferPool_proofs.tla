------------------------- MODULE BufferPool_proofs -------------------------
(***************************************************************************)
(* Theorems about BufferPool, for any number of threads, frames, pages and *)
(* pins: first for whatever calls overlap and whenever the disk fails,     *)
(* then for clients whose calls keep off each other (Discipline).          *)
(***************************************************************************)
EXTENDS BufferPool, SequenceTheorems, FunctionTheorems, FiniteSetTheorems,
        WellFoundedInduction, TLAPS

(* What a call carries from one step to the next. *)
CallsCarry ==
  \A t \in Thread :
    /\ pc[t] \in {"hit", "miss", "swap", "read", "delete"} => call[t].page \in Page
    /\ pc[t] \in {"hit", "miss", "swap", "read"} => Len(pins[t]) < kMAX_PINS
    /\ pc[t] = "unpin" => call[t].pin \in DOMAIN pins[t]

(* Only a frame with a page is ever written back. *)
DirtyHavePages == \A f \in Frame : frames[f].is_dirty => frames[f].page_id \in Page

(* Whoever works under latch_ has it, and what it has found stays.        *)
LatchHeld ==
  \A t \in Thread :
    /\ pc[t] \in {"hit", "swap", "delete"} => latch.writer = t
    /\ pc[t] = "hit" => Cached(call[t].page)

PInv == TypeOK /\ TableMatchesFrames /\ CallsCarry /\ DirtyHavePages /\ LatchHeld

-----------------------------------------------------------------------------
(* A sequence without its element at one place.                            *)
LEMMA RemoveAtProperties ==
  ASSUME NEW S, NEW s \in Seq(S), NEW i \in DOMAIN s
  PROVE  /\ RemoveAt(s, i) \in Seq(S)
         /\ Len(RemoveAt(s, i)) = Len(s) - 1
         /\ \A j \in 1 .. Len(s) - 1 : RemoveAt(s, i)[j] = IF j < i THEN s[j] ELSE s[j + 1]
<1> DEFINE n == Len(s)
           u == SubSeq(s, 1, i - 1)
           v == SubSeq(s, i + 1, n)
<1>1. n \in Nat /\ i \in 1 .. n /\ \A j \in 1 .. n : s[j] \in S
  BY LenProperties
<1>2. /\ u \in Seq(S) /\ Len(u) = i - 1
      /\ \A j \in 1 .. i - 1 : u[j] = s[j]
  <2>1. 1 \in Int /\ i - 1 \in Int /\ \A j \in 1 .. i - 1 : s[j] \in S
    BY <1>1
  <2>2. /\ u \in Seq(S)
        /\ Len(u) = IF 1 <= i - 1 THEN (i - 1) - 1 + 1 ELSE 0
        /\ \A j \in 1 .. (i - 1) - 1 + 1 : u[j] = s[1 + j - 1]
    BY <2>1, SubSeqProperties
  <2> HIDE DEF u, v
  <2> QED
    BY <1>1, <2>2
<1>3. /\ v \in Seq(S) /\ Len(v) = n - i
      /\ \A j \in 1 .. n - i : v[j] = s[i + j]
  <2>1. i + 1 \in Int /\ n \in Int /\ \A j \in i + 1 .. n : s[j] \in S
    BY <1>1
  <2>2. /\ v \in Seq(S)
        /\ Len(v) = IF i + 1 <= n THEN n - (i + 1) + 1 ELSE 0
        /\ \A j \in 1 .. n - (i + 1) + 1 : v[j] = s[(i + 1) + j - 1]
    BY <2>1, SubSeqProperties
  <2> HIDE DEF u, v
  <2> QED
    BY <1>1, <2>2
<1>4. /\ u \o v \in Seq(S)
      /\ Len(u \o v) = Len(u) + Len(v)
      /\ \A j \in 1 .. Len(u) + Len(v) :
           (u \o v)[j] = IF j <= Len(u) THEN u[j] ELSE v[j - Len(u)]
  BY <1>2, <1>3, ConcatProperties
<1>5. RemoveAt(s, i) = u \o v
  BY DEF RemoveAt
<1> HIDE DEF u, v, n
<1>6. /\ Len(u \o v) = n - 1
      /\ \A j \in 1 .. n - 1 : (u \o v)[j] = IF j < i THEN s[j] ELSE s[j + 1]
  <2>1. Len(u) + Len(v) = n - 1
    BY <1>1, <1>2, <1>3
  <2>2. ASSUME NEW j \in 1 .. n - 1 PROVE (u \o v)[j] = IF j < i THEN s[j] ELSE s[j + 1]
    <3>1. CASE j < i
      BY <1>1, <1>2, <1>4, <2>1, <3>1
    <3>2. CASE ~(j < i)
      <4>1. j - (i - 1) \in 1 .. n - i /\ i + (j - (i - 1)) = j + 1
        BY <1>1, <3>2
      <4>2. (u \o v)[j] = v[j - (i - 1)]
        BY <1>1, <1>2, <1>4, <2>1, <3>2
      <4> QED
        BY <1>3, <3>2, <4>1, <4>2
    <3> QED
      BY <3>1, <3>2
  <2> QED
    BY <1>4, <2>1, <2>2
<1> QED
  BY <1>4, <1>5, <1>6 DEF n

(* BufferReplacer::remove takes the page out, and nothing else.            *)
LEMMA RemovedProperties ==
  ASSUME NEW S, NEW s \in Seq(S), IsInjective(s), NEW p
  PROVE  /\ Removed(s, p) \in Seq(S)
         /\ IsInjective(Removed(s, p))
         /\ ToSet(Removed(s, p)) = ToSet(s) \ {p}
<1>1. CASE p \notin ToSet(s)
  BY <1>1 DEF Removed
<1>2. CASE p \in ToSet(s)
  <2> DEFINE i == CHOOSE j \in DOMAIN s : s[j] = p
             r == RemoveAt(s, i)
  <2>1. i \in DOMAIN s /\ s[i] = p
    BY <1>2 DEF ToSet
  <2>2. Removed(s, p) = r
    BY <1>2 DEF Removed
  <2> HIDE DEF i
  <2>3. /\ r \in Seq(S) /\ Len(r) = Len(s) - 1
        /\ \A j \in 1 .. Len(s) - 1 : r[j] = IF j < i THEN s[j] ELSE s[j + 1]
    BY <2>1, RemoveAtProperties
  <2>4. /\ Len(s) \in Nat /\ DOMAIN s = 1 .. Len(s) /\ i \in 1 .. Len(s)
        /\ Len(r) \in Nat /\ DOMAIN r = 1 .. Len(s) - 1
    BY <2>1, <2>3, LenProperties
  <2> HIDE DEF r
  <2>5. \A a, b \in 1 .. Len(s) : s[a] = s[b] => a = b
    BY <2>4 DEF IsInjective
  <2>6. IsInjective(r)
    <3> SUFFICES ASSUME NEW a \in 1 .. Len(s) - 1, NEW b \in 1 .. Len(s) - 1, r[a] = r[b]
                 PROVE  a = b
      BY <2>4 DEF IsInjective
    <3> DEFINE x == IF a < i THEN a ELSE a + 1
               y == IF b < i THEN b ELSE b + 1
    <3>1. x \in 1 .. Len(s) /\ y \in 1 .. Len(s) /\ s[x] = s[y]
      BY <2>3, <2>4
    <3>2. x = y
      BY <2>5, <3>1
    <3> QED
      BY <2>4, <3>2
  <2>7. ToSet(r) = ToSet(s) \ {p}
    <3>1. ASSUME NEW j \in 1 .. Len(s) - 1 PROVE r[j] \in ToSet(s) \ {p}
      <4> DEFINE x == IF j < i THEN j ELSE j + 1
      <4>1. x \in 1 .. Len(s) /\ x # i /\ r[j] = s[x]
        BY <2>3, <2>4
      <4>2. s[x] # p
        BY <2>1, <2>4, <2>5, <4>1
      <4> QED
        BY <2>4, <4>1, <4>2 DEF ToSet
    <3>2. ASSUME NEW k \in 1 .. Len(s), s[k] # p PROVE s[k] \in ToSet(r)
      <4> DEFINE y == IF k < i THEN k ELSE k - 1
      <4>1. k # i
        BY <2>1, <3>2
      <4>2. y \in 1 .. Len(s) - 1 /\ r[y] = s[k]
        BY <2>3, <2>4, <4>1
      <4> QED
        BY <2>4, <4>2 DEF ToSet
    <3> QED
      BY <2>4, <3>1, <3>2 DEF ToSet
  <2> QED
    BY <2>2, <2>3, <2>6, <2>7
<1> QED
  BY <1>1, <1>2

(* A new element at the end.                                               *)
LEMMA AppendedProperties ==
  ASSUME NEW S, NEW s \in Seq(S), IsInjective(s), NEW e \in S, e \notin ToSet(s)
  PROVE  /\ Append(s, e) \in Seq(S)
         /\ IsInjective(Append(s, e))
         /\ ToSet(Append(s, e)) = ToSet(s) \cup {e}
<1> DEFINE r == Append(s, e)
<1>1. /\ r \in Seq(S) /\ Len(r) = Len(s) + 1
      /\ \A j \in 1 .. Len(s) : r[j] = s[j]
      /\ r[Len(s) + 1] = e
  BY AppendProperties
<1>2. /\ Len(s) \in Nat /\ DOMAIN s = 1 .. Len(s) /\ DOMAIN r = 1 .. Len(s) + 1
  BY <1>1, LenProperties
<1> HIDE DEF r
<1>3. \A j \in 1 .. Len(s) : s[j] # e
  BY <1>2 DEF ToSet
<1>4. IsInjective(r)
  <2> SUFFICES ASSUME NEW a \in 1 .. Len(s) + 1, NEW b \in 1 .. Len(s) + 1, r[a] = r[b]
               PROVE  a = b
    BY <1>2 DEF IsInjective
  <2>1. \A x, y \in 1 .. Len(s) : s[x] = s[y] => x = y
    BY <1>2 DEF IsInjective
  <2>2. CASE a \in 1 .. Len(s) /\ b \in 1 .. Len(s)
    BY <1>1, <2>1, <2>2
  <2>3. CASE a = Len(s) + 1 /\ b \in 1 .. Len(s)
    BY <1>1, <1>3, <2>3
  <2>4. CASE a \in 1 .. Len(s) /\ b = Len(s) + 1
    BY <1>1, <1>3, <2>4
  <2> QED
    BY <1>2, <2>2, <2>3, <2>4
<1>5. ToSet(r) = ToSet(s) \cup {e}
  <2>1. ASSUME NEW j \in 1 .. Len(s) + 1 PROVE r[j] \in ToSet(s) \cup {e}
    <3>1. CASE j \in 1 .. Len(s)
      BY <1>1, <1>2, <3>1 DEF ToSet
    <3> QED
      BY <1>1, <1>2, <3>1
  <2>2. ASSUME NEW j \in 1 .. Len(s) PROVE s[j] \in ToSet(r)
    <3>1. j \in 1 .. Len(s) + 1 /\ r[j] = s[j]
      BY <1>1, <1>2
    <3> QED
      BY <1>2, <3>1 DEF ToSet
  <2>3. e \in ToSet(r)
    <3>1. Len(s) + 1 \in 1 .. Len(s) + 1
      BY <1>2
    <3> QED
      BY <1>1, <1>2, <3>1 DEF ToSet
  <2> QED
    BY <1>2, <2>1, <2>2, <2>3 DEF ToSet
<1> QED
  BY <1>1, <1>4, <1>5 DEF r

(* BufferReplacer::record makes the page the newest.                       *)
LEMMA RecordedProperties ==
  ASSUME NEW S, NEW s \in Seq(S), IsInjective(s), NEW p \in S
  PROVE  /\ Recorded(s, p) \in Seq(S)
         /\ IsInjective(Recorded(s, p))
         /\ ToSet(Recorded(s, p)) = ToSet(s) \cup {p}
<1>1. /\ Removed(s, p) \in Seq(S) /\ IsInjective(Removed(s, p))
      /\ ToSet(Removed(s, p)) = ToSet(s) \ {p}
  BY RemovedProperties
<1> QED
  BY <1>1, AppendedProperties DEF Recorded

(* free_frames_list_.pop_back(), and that of free_list_.                   *)
LEMMA FrontProperties ==
  ASSUME NEW S, NEW s \in Seq(S), s # <<>>
  PROVE  /\ Front(s) \in Seq(S)
         /\ Last(s) \in S /\ Last(s) \in ToSet(s)
         /\ IsInjective(s) => /\ IsInjective(Front(s))
                              /\ ToSet(Front(s)) = ToSet(s) \ {Last(s)}
<1> DEFINE n == Len(s) - 1
           r == Front(s)
<1>1. n \in Nat /\ Len(s) \in 1 .. Len(s) /\ DOMAIN s = 1 .. n + 1 /\ Len(s) = n + 1
  BY EmptySeq, LenProperties
<1>2. Last(s) \in S /\ Last(s) \in ToSet(s) /\ Last(s) = s[n + 1]
  BY <1>1, ElementOfSeq DEF Last, ToSet
<1>3. r \in Seq(S) /\ DOMAIN r = 1 .. n /\ \A j \in 1 .. n : r[j] = s[j]
  <2>1. \A j \in 1 .. n : s[j] \in S
    BY <1>1, ElementOfSeq
  <2>2. /\ SubSeq(s, 1, n) \in Seq(S)
        /\ Len(SubSeq(s, 1, n)) = IF 1 <= n THEN n - 1 + 1 ELSE 0
        /\ \A j \in 1 .. n - 1 + 1 : SubSeq(s, 1, n)[j] = s[1 + j - 1]
    BY <1>1, <2>1, SubSeqProperties
  <2>3. r = SubSeq(s, 1, n)
    BY DEF Front
  <2> HIDE DEF n, r
  <2>4. n - 1 + 1 = n /\ Len(r) = n
    BY <1>1, <2>2, <2>3
  <2>5. DOMAIN r = 1 .. n
    BY <2>2, <2>3, <2>4, LenProperties
  <2> QED
    BY <1>1, <2>2, <2>3, <2>4, <2>5
<1> HIDE DEF r, n
<1>4. ASSUME IsInjective(s) PROVE IsInjective(r) /\ ToSet(r) = ToSet(s) \ {Last(s)}
  <2>1. \A x, y \in 1 .. n + 1 : s[x] = s[y] => x = y
    BY <1>1, <1>4 DEF IsInjective
  <2>2. IsInjective(r)
    BY <1>1, <1>3, <2>1 DEF IsInjective
  <2>3. \A j \in 1 .. n : r[j] \in ToSet(s) \ {Last(s)}
    <3> TAKE j \in 1 .. n
    <3>1. j \in 1 .. n + 1 /\ n + 1 \in 1 .. n + 1 /\ j # n + 1
      BY <1>1
    <3> QED
      BY <1>1, <1>2, <1>3, <2>1, <3>1 DEF ToSet
  <2>4. \A j \in 1 .. n + 1 : s[j] # Last(s) => s[j] \in ToSet(r)
    <3> TAKE j \in 1 .. n + 1
    <3> HAVE s[j] # Last(s)
    <3>1. j \in 1 .. n /\ r[j] = s[j]
      BY <1>1, <1>2, <1>3
    <3> QED
      BY <1>3, <3>1 DEF ToSet
  <2> QED
    BY <1>1, <1>3, <2>2, <2>3, <2>4 DEF ToSet
<1> QED
  BY <1>2, <1>3, <1>4 DEF r

(* An unsigned counter stays in its range.                                 *)
LEMMA CounterRange ==
  ASSUME NEW n \in 0 .. kPIN_MODULUS - 1
  PROVE  Inc(n) \in 0 .. kPIN_MODULUS - 1 /\ Dec(n) \in 0 .. kPIN_MODULUS - 1
<1>1. kPIN_MODULUS \in Nat \ {0, 1}
  BY PoolAssumption
<1>2. \A m \in Nat : m % kPIN_MODULUS \in 0 .. kPIN_MODULUS - 1
  BY <1>1
<1>3. n + 1 \in Nat /\ n + kPIN_MODULUS - 1 \in Nat
  BY <1>1
<1> QED
  BY <1>2, <1>3 DEF Inc, Dec

-----------------------------------------------------------------------------
(* The constants as sets of numbers.                                       *)
LEMMA Ranges ==
  /\ kMAX_CAPACITY \in Nat \ {0} /\ kPOOL_CAPACITY \in Nat /\ kMAX_PINS \in Nat
  /\ NoPage \notin Page /\ NoFrame \notin Frame
  /\ \A f \in Frame : f \in Nat /\ f < kPOOL_CAPACITY
  /\ \A p \in Page : p \in Nat /\ p < kMAX_CAPACITY
BY PoolAssumption DEF NoPage, Page, NoFrame, Frame

(* A frame that find_next_frame finds is one of the pool's, and its page   *)
(* is none that another frame has in page_table_.                          *)
LEMMA NextFrame ==
  ASSUME PInv, NEW f \in find_next_frame
  PROVE  /\ f \in Frame
         /\ free_frames # <<>> => f = Last(free_frames)
         /\ free_frames = <<>> => f < pool_size \/ (f = pool_size /\ pool_size < kPOOL_CAPACITY)
<1>1. TypeOK /\ TableMatchesFrames
  BY DEF PInv
<1>2. CASE free_frames # <<>>
  <2>1. Last(free_frames) \in Frame
    BY <1>1, <1>2, FrontProperties DEF TypeOK
  <2> QED
    BY <1>2, <2>1 DEF find_next_frame
<1>3. CASE free_frames = <<>> /\ pool_size < kPOOL_CAPACITY
  BY <1>1, <1>3, Ranges DEF find_next_frame, TypeOK, Frame
<1>4. CASE free_frames = <<>> /\ ~(pool_size < kPOOL_CAPACITY)
  <2>1. PICK p \in find_lru : f = page_table[p]
    BY <1>4 DEF find_next_frame
  <2>2. Cached(p)
    BY <2>1 DEF find_lru, Evictable
  <2>3. p \in Page /\ page_table[p] \in Frame
    BY <1>1, <2>2 DEF Cached, TypeOK
  <2>4. page_table[p] < pool_size
    BY <1>1, <2>2, <2>3 DEF TableMatchesFrames
  <2> QED
    BY <1>4, <2>1, <2>3, <2>4
<1> QED
  BY <1>2, <1>3, <1>4

-----------------------------------------------------------------------------
(* unpin_page on a frame.                                                  *)
LEMMA UnpinnedPage ==
  ASSUME NEW g \in [page_id : Page \cup {NoPage},
                    pin_count : 0 .. kPIN_MODULUS - 1, is_dirty : BOOLEAN],
         NEW b \in BOOLEAN
  PROVE  /\ unpin_page(g, b) \in [page_id : Page \cup {NoPage},
                                  pin_count : 0 .. kPIN_MODULUS - 1, is_dirty : BOOLEAN]
         /\ unpin_page(g, b).page_id = g.page_id
<1>1. Dec(g.pin_count) \in 0 .. kPIN_MODULUS - 1 /\ set_dirty(g.is_dirty, b) \in BOOLEAN
  BY CounterRange DEF set_dirty
<1> QED
  BY <1>1 DEF unpin_page

(* A PinnedPage more for a thread that has room for it.                    *)
LEMMA PinnedMore ==
  ASSUME TypeOK, NEW t \in Thread, Len(pins[t]) < kMAX_PINS,
         NEW f \in Frame, NEW p \in Page, NEW b \in BOOLEAN, Pin(t, f, p, b)
  PROVE  /\ pins' \in [Thread -> Seq(PinnedPage)]
         /\ \A u \in Thread : Len(pins'[u]) <= kMAX_PINS
<1> DEFINE h == [frame |-> f, page |-> p, wrote |-> FALSE, fresh |-> b]
<1>1. h \in PinnedPage /\ pins[t] \in Seq(PinnedPage) /\ Len(pins[t]) \in Nat
  BY LenProperties DEF TypeOK, PinnedPage
<1>2. pins' = [pins EXCEPT ![t] = Append(pins[t], h)]
  BY DEF Pin
<1> HIDE DEF h
<1>3. Append(pins[t], h) \in Seq(PinnedPage) /\ Len(Append(pins[t], h)) = Len(pins[t]) + 1
  BY <1>1, AppendProperties
<1> QED
  BY <1>1, <1>2, <1>3, Ranges DEF TypeOK

LEMMA NoCallIsCall == NoCall \in Call
BY Ranges DEF NoCall, Call

(* Every variable keeps its type.                                          *)
LEMMA TypeStep == PInv /\ [Next]_vars => TypeOK'
<1> SUFFICES ASSUME PInv, [Next]_vars PROVE TypeOK'
  OBVIOUS
<1>1. TypeOK /\ TableMatchesFrames /\ CallsCarry /\ DirtyHavePages /\ LatchHeld
  BY DEF PInv
<1> USE DEF poolVars, allocVars, dataVars
<1>2. CASE UNCHANGED vars
  BY <1>1, <1>2 DEF vars, TypeOK
<1>3. ASSUME NEW t \in Thread, NewPage(t) PROVE TypeOK'
  <2>1. PICK p \in Page : allocate_page(p) /\ call' = [call EXCEPT ![t] = [page |-> p, pin |-> 0, read |-> FALSE]]
    BY <1>3 DEF NewPage
  <2>2. capacity' \in 1 .. kMAX_CAPACITY /\ free_list' \in Seq(Page)
    <3>1. CASE free_list # <<>>
      <4>1. Front(free_list) \in Seq(Page)
        BY <1>1, <3>1, FrontProperties DEF TypeOK
      <4> QED
        BY <1>1, <2>1, <3>1, <4>1 DEF TypeOK, allocate_page, reuse
    <3>2. CASE free_list = <<>>
      BY <1>1, <2>1, <3>2, Ranges DEF TypeOK, allocate_page, grow
    <3> QED
      BY <3>1, <3>2
  <2>3. [page |-> p, pin |-> 0, read |-> FALSE] \in Call
    BY Ranges DEF Call
  <2> QED
    BY <1>1, <1>3, <2>1, <2>2, <2>3 DEF NewPage, TypeOK, PC
<1>4. ASSUME NEW t \in Thread, NEW p \in Page, Fetch(t, p) \/ Delete(t, p) PROVE TypeOK'
  <2>1. \A b \in BOOLEAN : [page |-> p, pin |-> 0, read |-> b] \in Call
    BY Ranges DEF Call
  <2>2. CASE Fetch(t, p)
    <3>1. /\ call' = [call EXCEPT ![t] = [page |-> p, pin |-> 0, read |-> TRUE]]
          /\ latch' \in {latch, [latch EXCEPT !.writer = t]}
          /\ pc' \in {[pc EXCEPT ![t] = "hit"], [pc EXCEPT ![t] = "miss"]}
          /\ UNCHANGED <<poolVars, allocVars, dataVars, loading, pins>>
      BY <2>2 DEF Fetch, TakeLatch
    <3> QED
      BY <1>1, <2>1, <3>1 DEF TypeOK, PC
  <2>3. CASE Delete(t, p)
    BY <1>1, <2>1, <2>3 DEF Delete, TypeOK, PC, TakeLatch
  <2> QED
    BY <1>4, <2>2, <2>3
<1>5. ASSUME NEW t \in Thread, NEW i \in DOMAIN pins[t], Write(t, i) \/ Unpin(t, i) PROVE TypeOK'
  <2>1. pins[t] \in Seq(PinnedPage) /\ i \in 1 .. Len(pins[t]) /\ pins[t][i] \in PinnedPage
    BY <1>1, LenProperties, ElementOfSeq DEF TypeOK
  <2>2. pins[t][i].frame \in Frame /\ pins[t][i].page \in Page
    BY <2>1 DEF PinnedPage
  <2>3. CASE Write(t, i)
    <3>1. [pins[t][i] EXCEPT !.wrote = TRUE, !.fresh = FALSE] \in PinnedPage
      BY <2>1 DEF PinnedPage
    <3> DEFINE h == [pins[t][i] EXCEPT !.wrote = TRUE, !.fresh = FALSE]
    <3>2. [pins[t] EXCEPT ![i] = h] \in Seq(PinnedPage) /\ Len([pins[t] EXCEPT ![i] = h]) = Len(pins[t])
      BY <2>1, <3>1, ExceptSeq
    <3>3. pins' = [pins EXCEPT ![t] = [pins[t] EXCEPT ![i] = h]]
      BY <2>3 DEF Write
    <3> HIDE DEF h
    <3>4. pins' \in [Thread -> Seq(PinnedPage)] /\ \A u \in Thread : Len(pins'[u]) <= kMAX_PINS
      BY <1>1, <3>2, <3>3 DEF TypeOK
    <3>5. live' \in SUBSET Page /\ latest_frames' \in SUBSET Frame /\ latest_disk' \in SUBSET Page
      BY <1>1, <2>2, <2>3 DEF Write, TypeOK
    <3> QED
      BY <1>1, <2>3, <3>4, <3>5 DEF Write, TypeOK
  <2>4. CASE Unpin(t, i)
    <3>1. [page |-> frames[pins[t][i].frame].page_id, pin |-> i, read |-> FALSE] \in Call
      BY <1>1, <2>1, <2>2, Ranges DEF TypeOK, Call
    <3> QED
      BY <1>1, <2>4, <3>1 DEF Unpin, TypeOK, PC
  <2> QED
    BY <1>5, <2>3, <2>4
<1>6. ASSUME NEW t \in Thread, FetchHit(t) PROVE TypeOK'
  <2> DEFINE p == call[t].page
             f == page_table[p]
  <2>1. pc[t] = "hit" /\ p \in Page /\ Len(pins[t]) < kMAX_PINS
    BY <1>1, <1>6 DEF FetchHit, CallsCarry
  <2>2. f \in Frame
    BY <1>1, <2>1 DEF TypeOK, LatchHeld, Cached
  <2>3. Inc(frames[f].pin_count) \in 0 .. kPIN_MODULUS - 1
    BY <1>1, <2>2, CounterRange DEF TypeOK
  <2>4. frames' = [frames EXCEPT ![f].pin_count = Inc(@)]
    BY <1>6 DEF FetchHit
  <2>5. Recorded(mru_pages, p) \in Seq(Page)
    BY <1>1, <2>1, RecordedProperties DEF TypeOK, TableMatchesFrames
  <2>6. /\ pins' \in [Thread -> Seq(PinnedPage)]
        /\ \A u \in Thread : Len(pins'[u]) <= kMAX_PINS
    <3>1. Pin(t, f, p, FALSE)
      BY <1>6 DEF FetchHit
    <3> QED
      BY <1>1, <2>1, <2>2, <3>1, PinnedMore
  <2>7. mru_pages' = Recorded(mru_pages, p) /\ DropLatch /\ Return(t)
        /\ UNCHANGED <<page_table, free_frames, pool_size, allocVars, dataVars, loading>>
    BY <1>6 DEF FetchHit
  <2> HIDE DEF f
  <2>8. frames' \in [Frame -> [page_id : Page \cup {NoPage},
                              pin_count : 0 .. kPIN_MODULUS - 1, is_dirty : BOOLEAN]]
    BY <1>1, <2>2, <2>3, <2>4 DEF TypeOK
  <2> HIDE DEF p
  <2> QED
    BY <1>1, <2>5, <2>6, <2>7, <2>8, NoCallIsCall DEF TypeOK, PC, DropLatch, Return
<1>7. ASSUME NEW t \in Thread, SwapBegin(t) \/ SwapFails(t) PROVE TypeOK'
  <2>1. CASE SwapBegin(t)
    BY <1>1, <2>1 DEF SwapBegin, TypeOK, PC, TakeLatch
  <2>2. CASE SwapFails(t)
    BY <1>1, <2>2, NoCallIsCall DEF SwapFails, TypeOK, PC, DropLatch, Return
  <2> QED
    BY <1>7, <2>1, <2>2
<1>8. ASSUME NEW t \in Thread, SwapInstall(t) PROVE TypeOK'
  <2> DEFINE p == call[t].page
  <2>1. PICK f \in find_next_frame : SwapInstall(t)!(f)
    BY <1>8 DEF SwapInstall
  <2> DEFINE old == frames[f].page_id
  <2>2. pc[t] = "swap" /\ p \in Page /\ Len(pins[t]) < kMAX_PINS
    BY <1>1, <2>1 DEF CallsCarry
  <2>3. f \in Frame /\ (free_frames = <<>> => f < pool_size \/ pool_size < kPOOL_CAPACITY)
    BY NextFrame
  <2>4. free_frames' \in Seq(Frame)
    BY <1>1, <2>1, FrontProperties DEF TypeOK
  <2>5. pool_size' \in 0 .. kPOOL_CAPACITY
    BY <1>1, <2>1, Ranges DEF TypeOK
  <2>6. page_table' \in [Page -> Frame \cup {NoFrame}]
    BY <1>1, <2>1, <2>3 DEF TypeOK
  <2>7. mru_pages' \in Seq(Page)
    <3>1. Removed(mru_pages, old) \in Seq(Page) /\ IsInjective(Removed(mru_pages, old))
      BY <1>1, RemovedProperties DEF TypeOK, TableMatchesFrames
    <3> QED
      BY <2>1, <2>2, <3>1, RecordedProperties
  <2>8. frames' = [frames EXCEPT ![f] = FreshFrame(p, 1)]
        /\ FreshFrame(p, 1) \in [page_id : Page \cup {NoPage},
                                  pin_count : 0 .. kPIN_MODULUS - 1, is_dirty : BOOLEAN]
    BY <2>1, <2>2, PoolAssumption DEF FreshFrame
  <2>9. latest_disk' \in SUBSET Page /\ latest_frames' \in SUBSET Frame
    BY <1>1, <2>1, <2>3 DEF TypeOK, flush_page, DirtyHavePages
  <2>10. /\ loading' \in [Frame -> Thread \cup {NoThread}]
         /\ pc' \in [Thread -> PC] /\ call' \in [Thread -> Call]
         /\ pins' \in [Thread -> Seq(PinnedPage)]
         /\ \A u \in Thread : Len(pins'[u]) <= kMAX_PINS
    <3>1. CASE call[t].read
      <4>1. /\ loading' = [loading EXCEPT ![f] = t] /\ pc' = [pc EXCEPT ![t] = "read"]
            /\ call' = call /\ pins' = pins
        BY <2>1, <3>1
      <4> QED
        BY <1>1, <4>1 DEF TypeOK, PC
    <3>2. CASE ~call[t].read
      <4>1. Pin(t, f, p, TRUE) /\ Return(t) /\ UNCHANGED loading
        BY <2>1, <3>2
      <4>2. /\ pins' \in [Thread -> Seq(PinnedPage)]
            /\ \A u \in Thread : Len(pins'[u]) <= kMAX_PINS
        BY <1>1, <2>2, <2>3, <4>1, PinnedMore
      <4> QED
        BY <1>1, <4>1, <4>2, NoCallIsCall DEF TypeOK, PC, Return
    <3> QED
      BY <3>1, <3>2
  <2>11. DropLatch /\ UNCHANGED <<allocVars, live>>
    BY <2>1
  <2> QED
    BY <1>1, <2>3, <2>4, <2>5, <2>6, <2>7, <2>8, <2>9, <2>10, <2>11 DEF TypeOK, DropLatch
<1>9. ASSUME NEW t \in Thread, WriteFails(t) PROVE TypeOK'
  <2>1. PICK f \in find_next_frame : WriteFails(t)!(f)
    BY <1>9 DEF WriteFails
  <2> DEFINE old == frames[f].page_id
  <2>2. Removed(mru_pages, old) \in Seq(Page)
    BY <1>1, RemovedProperties DEF TypeOK, TableMatchesFrames
  <2>3. page_table' \in [Page -> Frame \cup {NoFrame}]
    BY <1>1, <2>1 DEF TypeOK
  <2>4. mru_pages' = Removed(mru_pages, old) /\ DropLatch /\ Return(t)
        /\ UNCHANGED <<frames, free_frames, pool_size, allocVars, dataVars, loading, pins>>
    BY <2>1
  <2> QED
    BY <1>1, <2>2, <2>3, <2>4, NoCallIsCall DEF TypeOK, PC, DropLatch, Return
<1>10. ASSUME NEW t \in Thread, SwapRead(t) PROVE TypeOK'
  <2> DEFINE p == call[t].page
  <2>1. PICK f \in Frame : SwapRead(t)!(f)
    BY <1>10 DEF SwapRead
  <2>2. p \in Page /\ Len(pins[t]) < kMAX_PINS
    BY <1>1, <2>1 DEF CallsCarry
  <2>3. Pin(t, f, p, FALSE)
    BY <2>1
  <2>4. /\ pins' \in [Thread -> Seq(PinnedPage)]
        /\ \A u \in Thread : Len(pins'[u]) <= kMAX_PINS
    BY <1>1, <2>2, <2>3, PinnedMore
  <2>5. latest_frames' \in SUBSET Frame
    BY <1>1, <2>1 DEF TypeOK
  <2>6. loading' = [loading EXCEPT ![f] = NoThread] /\ Return(t)
        /\ UNCHANGED <<poolVars, allocVars, live, latest_disk, latch>>
    BY <2>1
  <2> QED
    BY <1>1, <2>4, <2>5, <2>6, NoCallIsCall DEF TypeOK, PC, Return
<1>11. ASSUME NEW t \in Thread, ReadFails(t) PROVE TypeOK'
  BY <1>1, <1>11, NoCallIsCall DEF ReadFails, TypeOK, PC, Return
<1>12. ASSUME NEW t \in Thread, UnpinEnd(t) PROVE TypeOK'
  <2> DEFINE p == call[t].page
             f == page_table[p]
             i == call[t].pin
  <2>1. pc[t] = "unpin" /\ i \in DOMAIN pins[t] /\ pins[t] \in Seq(PinnedPage)
    BY <1>1, <1>12 DEF UnpinEnd, CallsCarry, TypeOK
  <2>2. pins[t][i].wrote \in BOOLEAN
    <3>1. pins[t][i] \in PinnedPage
      BY <2>1, LenProperties, ElementOfSeq
    <3> QED
      BY <3>1 DEF PinnedPage
  <2>3. frames' \in [Frame -> [page_id : Page \cup {NoPage},
                              pin_count : 0 .. kPIN_MODULUS - 1, is_dirty : BOOLEAN]]
    <3>1. CASE Cached(p)
      <4>1. p \in Page /\ f \in Frame
        BY <1>1, <3>1 DEF Cached, TypeOK
      <4>2. unpin_page(frames[f], pins[t][i].wrote)
              \in [page_id : Page \cup {NoPage},
                   pin_count : 0 .. kPIN_MODULUS - 1, is_dirty : BOOLEAN]
        BY <1>1, <2>2, <4>1, UnpinnedPage DEF TypeOK
      <4>3. frames' = [frames EXCEPT ![f] = unpin_page(frames[f], pins[t][i].wrote)]
        BY <1>12, <3>1 DEF UnpinEnd
      <4> HIDE DEF f, i
      <4> QED
        BY <1>1, <4>1, <4>2, <4>3 DEF TypeOK
    <3>2. CASE ~Cached(p)
      BY <1>1, <1>12, <3>2 DEF UnpinEnd, TypeOK
    <3> QED
      BY <3>1, <3>2
  <2>4. /\ pins' \in [Thread -> Seq(PinnedPage)]
        /\ \A u \in Thread : Len(pins'[u]) <= kMAX_PINS
    <3>1. /\ RemoveAt(pins[t], i) \in Seq(PinnedPage)
          /\ Len(RemoveAt(pins[t], i)) = Len(pins[t]) - 1
      BY <2>1, RemoveAtProperties
    <3>2. pins' = [pins EXCEPT ![t] = RemoveAt(@, i)] /\ Len(pins[t]) \in Nat
      BY <1>12, <2>1, LenProperties DEF UnpinEnd
    <3> QED
      BY <1>1, <3>1, <3>2, Ranges DEF TypeOK
  <2>5. latch' = [latch EXCEPT !.readers = @ \ {t}] /\ Return(t)
        /\ UNCHANGED <<page_table, free_frames, pool_size, mru_pages, allocVars, dataVars, loading>>
    BY <1>12 DEF UnpinEnd
  <2> QED
    BY <1>1, <2>3, <2>4, <2>5, NoCallIsCall DEF TypeOK, PC, Return
<1>13. ASSUME NEW t \in Thread, DeleteRefused(t) PROVE TypeOK'
  BY <1>1, <1>13, NoCallIsCall DEF DeleteRefused, TypeOK, PC, DropLatch, Return
<1>14. ASSUME NEW t \in Thread, DeleteEnd(t) PROVE TypeOK'
  <2> DEFINE p == call[t].page
             f == page_table[p]
  <2>1. p \in Page
    BY <1>1, <1>14 DEF DeleteEnd, CallsCarry
  <2>2. /\ page_table' \in [Page -> Frame \cup {NoFrame}]
        /\ mru_pages' \in Seq(Page)
        /\ frames' \in [Frame -> [page_id : Page \cup {NoPage},
                                 pin_count : 0 .. kPIN_MODULUS - 1, is_dirty : BOOLEAN]]
        /\ free_frames' \in Seq(Frame)
        /\ latest_frames' \in SUBSET Frame
    <3>1. CASE Cached(p)
      <4>1. f \in Frame
        BY <1>1, <3>1 DEF Cached, TypeOK
      <4>2. Removed(mru_pages, p) \in Seq(Page)
        BY <1>1, RemovedProperties DEF TypeOK, TableMatchesFrames
      <4>3. FreshFrame(NoPage, 0) \in [page_id : Page \cup {NoPage},
                                       pin_count : 0 .. kPIN_MODULUS - 1, is_dirty : BOOLEAN]
        BY PoolAssumption DEF FreshFrame
      <4>4. Append(free_frames, f) \in Seq(Frame)
        BY <1>1, <4>1, AppendProperties DEF TypeOK
      <4>5. /\ page_table' = [page_table EXCEPT ![p] = NoFrame]
            /\ mru_pages' = Removed(mru_pages, p)
            /\ frames' = [frames EXCEPT ![f] = FreshFrame(NoPage, 0)]
            /\ free_frames' = Append(free_frames, f)
            /\ latest_frames' = latest_frames \ {f}
        BY <1>14, <3>1 DEF DeleteEnd, Freed
      <4> QED
        BY <1>1, <4>1, <4>2, <4>3, <4>4, <4>5 DEF TypeOK
    <3>2. CASE ~Cached(p)
      BY <1>1, <1>14, <3>2 DEF DeleteEnd, TypeOK
    <3> QED
      BY <3>1, <3>2
  <2>3. free_list' \in Seq(Page) /\ capacity' = capacity
    <3>1. Append(free_list, p) \in Seq(Page)
      BY <1>1, <2>1, AppendProperties DEF TypeOK
    <3> QED
      BY <1>1, <1>14, <3>1 DEF DeleteEnd, deallocate, TypeOK
  <2>4. live' = live \ {p} /\ DropLatch /\ Return(t)
        /\ UNCHANGED <<pool_size, latest_disk, loading, pins>>
    BY <1>14 DEF DeleteEnd
  <2> QED
    BY <1>1, <2>2, <2>3, <2>4, NoCallIsCall DEF TypeOK, PC, DropLatch, Return
<1>15. CASE Close
  <2>1. latest_disk' \in SUBSET Page
    <3> DEFINE dirty == {f \in 0 .. pool_size - 1 : frames[f].is_dirty}
    <3>1. \A f \in dirty : frames[f].page_id \in Page
      BY <1>1, Ranges DEF DirtyHavePages, TypeOK, Frame
    <3>2. latest_disk' = (latest_disk \ {frames[f].page_id : f \in dirty \ latest_frames})
                           \cup {frames[f].page_id : f \in dirty \cap latest_frames}
      BY <1>15 DEF Close
    <3> HIDE DEF dirty
    <3> QED
      BY <1>1, <3>1, <3>2 DEF TypeOK
  <2> QED
    BY <1>1, <1>15, <2>1 DEF Close, TypeOK, PC
<1>16. CASE Closed
  BY <1>1, <1>16 DEF Closed, vars, TypeOK
<1> QED
  BY <1>2, <1>3, <1>4, <1>5, <1>6, <1>7, <1>8, <1>9, <1>10, <1>11, <1>12, <1>13, <1>14,
     <1>15, <1>16 DEF Next, Client, Proceed

(* What goes in and out of a page leaves the structures alone.             *)
LEMMA TableKept ==
  ASSUME TypeOK, TableMatchesFrames,
         UNCHANGED <<page_table, mru_pages, free_frames, pool_size>>,
         \A f \in Frame : frames'[f].page_id = frames[f].page_id
  PROVE  TableMatchesFrames'
<1>1. \A f \in ToSet(free_frames) : f \in Frame
  BY LenProperties, ElementOfSeq DEF TypeOK, ToSet
<1>2. \A p \in Page : Cached(p) => page_table[p] \in Frame
  BY DEF Cached, TypeOK
<1>3. \A p \in Page : Cached(p)' <=> Cached(p)
  BY DEF Cached
<1> QED
  BY <1>1, <1>2, <1>3 DEF TableMatchesFrames

(* A page leaves the pool: its frame is empty and freed, or lost.          *)
LEMMA PageLeaves ==
  ASSUME TypeOK, TableMatchesFrames, NEW p,
         page_table' = [page_table EXCEPT ![p] = NoFrame],
         mru_pages' = Removed(mru_pages, p)
  PROVE  /\ \A q \in Page : Cached(q)' <=> Cached(q) /\ q # p
         /\ ToSet(mru_pages') = {q \in Page : Cached(q)'}
         /\ IsInjective(mru_pages')
<1>1. \A q \in Page : page_table'[q] = IF q = p THEN NoFrame ELSE page_table[q]
  BY DEF TypeOK
<1>2. \A q \in Page : Cached(q)' <=> Cached(q) /\ q # p
  BY <1>1 DEF Cached
<1>3. mru_pages \in Seq(Page) /\ IsInjective(mru_pages)
      /\ ToSet(mru_pages) = {q \in Page : Cached(q)}
  BY DEF TypeOK, TableMatchesFrames
<1>4. ToSet(mru_pages') = ToSet(mru_pages) \ {p} /\ IsInjective(mru_pages')
  BY <1>3, RemovedProperties
<1> QED
  BY <1>2, <1>3, <1>4

(* The structures agree after every step.                                  *)
LEMMA TableStep == PInv /\ [Next]_vars => TableMatchesFrames'
<1> SUFFICES ASSUME PInv, [Next]_vars PROVE TableMatchesFrames'
  OBVIOUS
<1>1. TypeOK /\ TableMatchesFrames /\ CallsCarry /\ DirtyHavePages /\ LatchHeld
  BY DEF PInv
<1> USE DEF poolVars, allocVars, dataVars
<1>a. \A f \in ToSet(free_frames) : f \in Frame /\ frames[f].page_id = NoPage /\ f < pool_size
  BY <1>1, LenProperties, ElementOfSeq DEF TypeOK, ToSet, TableMatchesFrames
<1>b. \A p \in Page : Cached(p) => /\ page_table[p] \in Frame
                                  /\ frames[page_table[p]].page_id = p
                                  /\ page_table[p] < pool_size
  BY <1>1 DEF TypeOK, Cached, TableMatchesFrames
<1>2. CASE UNCHANGED poolVars
  BY <1>1, <1>2, TableKept
<1>3. ASSUME NEW t \in Thread, FetchHit(t) PROVE TableMatchesFrames'
  <2> DEFINE p == call[t].page
             f == page_table[p]
  <2>1. p \in Page /\ Cached(p) /\ f \in Frame
    BY <1>1, <1>3, <1>b DEF FetchHit, CallsCarry, LatchHeld
  <2>2. \A g \in Frame : frames'[g].page_id = frames[g].page_id
    BY <1>1, <1>3, <2>1 DEF FetchHit, TypeOK
  <2>3. /\ mru_pages' = Recorded(mru_pages, p)
        /\ UNCHANGED <<page_table, free_frames, pool_size>>
    BY <1>3 DEF FetchHit
  <2>4. mru_pages \in Seq(Page) /\ IsInjective(mru_pages) /\ p \in ToSet(mru_pages)
    BY <1>1, <2>1 DEF TypeOK, TableMatchesFrames
  <2>5. IsInjective(mru_pages') /\ ToSet(mru_pages') = ToSet(mru_pages)
    <3>1. p \in Page
      BY <2>1
    <3> HIDE DEF p, f
    <3>2. /\ IsInjective(Recorded(mru_pages, p))
          /\ ToSet(Recorded(mru_pages, p)) = ToSet(mru_pages) \cup {p}
      BY <2>4, <3>1, RecordedProperties
    <3> QED
      BY <2>3, <2>4, <3>2
  <2>6. \A q \in Page : Cached(q)' <=> Cached(q)
    BY <2>3 DEF Cached
  <2> QED
    BY <1>1, <1>a, <1>b, <2>2, <2>3, <2>5, <2>6 DEF TableMatchesFrames
<1>4. ASSUME NEW t \in Thread, SwapInstall(t) PROVE TableMatchesFrames'
  <2> DEFINE p == call[t].page
  <2>1. PICK f \in find_next_frame : SwapInstall(t)!(f)
    BY <1>4 DEF SwapInstall
  <2> DEFINE old == frames[f].page_id
  <2>2. p \in Page
    BY <1>1, <2>1 DEF CallsCarry
  <2>3. /\ f \in Frame
        /\ free_frames # <<>> => f = Last(free_frames)
        /\ free_frames = <<>> => f < pool_size \/ (f = pool_size /\ pool_size < kPOOL_CAPACITY)
    BY NextFrame
  <2>4. \A q \in Page : page_table'[q] = IF q = p THEN f
                                        ELSE IF q = old THEN NoFrame ELSE page_table[q]
    BY <2>1
  <2>5. \A g \in Frame : frames'[g].page_id = IF g = f THEN p ELSE frames[g].page_id
    BY <1>1, <2>1, <2>3 DEF TypeOK, FreshFrame
  <2>6. /\ IsInjective(mru_pages')
        /\ ToSet(mru_pages') = (ToSet(mru_pages) \ {old}) \cup {p}
    <3>1. mru_pages \in Seq(Page) /\ IsInjective(mru_pages)
      BY <1>1 DEF TypeOK, TableMatchesFrames
    <3> DEFINE r == Removed(mru_pages, old)
    <3>2. r \in Seq(Page) /\ IsInjective(r) /\ ToSet(r) = ToSet(mru_pages) \ {old}
      BY <3>1, RemovedProperties
    <3>3. mru_pages' = Recorded(r, p)
      BY <2>1
    <3> HIDE DEF r
    <3> QED
      BY <2>2, <3>2, <3>3, RecordedProperties
  <2>7. \A q \in Page : Cached(q)' <=> q = p \/ (q # old /\ Cached(q))
    BY <2>3, <2>4, Ranges DEF Cached
  <2>8. ToSet(mru_pages') = {q \in Page : Cached(q)'}
    BY <1>1, <2>2, <2>6, <2>7 DEF TableMatchesFrames
  <2>9. /\ IsInjective(free_frames')
        /\ \A g \in ToSet(free_frames') : g \in ToSet(free_frames) /\ g # f
    <3>1. CASE free_frames # <<>>
      <4>1. free_frames' = Front(free_frames)
        BY <2>1, <3>1
      <4>2. IsInjective(free_frames) /\ free_frames \in Seq(Frame)
        BY <1>1 DEF TypeOK, TableMatchesFrames
      <4> QED
        BY <2>3, <3>1, <4>1, <4>2, FrontProperties
    <3>2. CASE free_frames = <<>>
      <4>1. free_frames' = <<>>
        BY <2>1, <3>2
      <4>2. ToSet(free_frames') = {}
        BY <4>1 DEF ToSet
      <4> QED
        BY <4>1, <4>2 DEF IsInjective
    <3> QED
      BY <3>1, <3>2
  <2>10. f < pool_size' /\ pool_size \in Nat /\ pool_size' >= pool_size
    <3>1. CASE free_frames # <<>>
      <4>1. Last(free_frames) \in ToSet(free_frames)
        BY <1>1, <3>1, FrontProperties DEF TypeOK
      <4>2. f < pool_size /\ pool_size' = pool_size
        BY <1>a, <2>1, <2>3, <3>1, <4>1
      <4> QED
        BY <1>1, <4>2 DEF TypeOK
    <3>2. CASE free_frames = <<>>
      <4>1. pool_size \in Nat /\ f \in Nat
        BY <1>1, <2>3, Ranges DEF TypeOK
      <4>2. pool_size' = IF pool_size < kPOOL_CAPACITY THEN pool_size + 1 ELSE pool_size
        BY <2>1, <3>2
      <4> QED
        BY <2>3, <3>2, <4>1, <4>2, Ranges
    <3> QED
      BY <3>1, <3>2
  <2>c. \A g \in Frame : g < pool_size => g < pool_size'
    <3>1. pool_size' \in Nat
      BY <1>1, <2>1, <2>10 DEF TypeOK
    <3> QED
      BY <2>10, <3>1, Ranges
  <2>11. ASSUME NEW q \in Page, Cached(q)'
         PROVE  frames'[page_table'[q]].page_id = q /\ page_table'[q] < pool_size'
    <3>1. CASE q = p
      BY <2>3, <2>4, <2>5, <2>10, <3>1
    <3>2. CASE q # p
      <4>1. q # old /\ Cached(q) /\ page_table'[q] = page_table[q]
        BY <2>4, <2>7, <2>11, <3>2
      <4>2. page_table[q] \in Frame /\ frames[page_table[q]].page_id = q /\ page_table[q] < pool_size
        BY <1>b, <4>1
      <4>3. page_table[q] # f
        BY <4>1, <4>2
      <4> QED
        BY <2>5, <2>c, <4>1, <4>2, <4>3
    <3> QED
      BY <3>1, <3>2
  <2>12. \A g \in ToSet(free_frames') : frames'[g].page_id = NoPage /\ g < pool_size'
    <3> TAKE g \in ToSet(free_frames')
    <3>1. g \in Frame /\ g # f /\ frames[g].page_id = NoPage /\ g < pool_size
      BY <1>a, <2>9
    <3> QED
      BY <2>5, <2>c, <3>1
  <2> QED
    BY <2>6, <2>8, <2>9, <2>11, <2>12 DEF TableMatchesFrames
<1>5. ASSUME NEW t \in Thread, WriteFails(t) PROVE TableMatchesFrames'
  <2>1. PICK f \in find_next_frame : WriteFails(t)!(f)
    BY <1>5 DEF WriteFails
  <2> DEFINE old == frames[f].page_id
  <2>2. /\ page_table' = [page_table EXCEPT ![old] = NoFrame]
        /\ mru_pages' = Removed(mru_pages, old)
        /\ UNCHANGED <<frames, free_frames, pool_size>>
    BY <2>1
  <2>3. /\ \A q \in Page : Cached(q)' <=> Cached(q) /\ q # old
        /\ ToSet(mru_pages') = {q \in Page : Cached(q)'}
        /\ IsInjective(mru_pages')
    BY <1>1, <2>2, PageLeaves
  <2>4. \A q \in Page : q # old => page_table'[q] = page_table[q]
    BY <1>1, <2>2 DEF TypeOK
  <2> QED
    BY <1>1, <2>2, <2>3, <2>4 DEF TableMatchesFrames
<1>6. ASSUME NEW t \in Thread, UnpinEnd(t) PROVE TableMatchesFrames'
  <2> DEFINE p == call[t].page
             f == page_table[p]
             i == call[t].pin
  <2>1. UNCHANGED <<page_table, mru_pages, free_frames, pool_size>>
    BY <1>6 DEF UnpinEnd
  <2>2. CASE ~Cached(p)
    BY <1>1, <1>6, <2>1, <2>2, TableKept DEF UnpinEnd
  <2>3. CASE Cached(p)
    <3>1. p \in Page /\ f \in Frame
      BY <1>b, <2>3 DEF Cached
    <3>2. pins[t][i].wrote \in BOOLEAN
      <4>1. pins[t] \in Seq(PinnedPage) /\ i \in DOMAIN pins[t]
        BY <1>1, <1>6 DEF UnpinEnd, CallsCarry, TypeOK
      <4>2. pins[t][i] \in PinnedPage
        BY <4>1, LenProperties, ElementOfSeq
      <4> QED
        BY <4>2 DEF PinnedPage
    <3>3. unpin_page(frames[f], pins[t][i].wrote).page_id = frames[f].page_id
      BY <1>1, <3>1, <3>2, UnpinnedPage DEF TypeOK
    <3>4. frames' = [frames EXCEPT ![f] = unpin_page(frames[f], pins[t][i].wrote)]
      BY <1>6, <2>3 DEF UnpinEnd
    <3> HIDE DEF f, i
    <3>5. \A g \in Frame : frames'[g].page_id = frames[g].page_id
      BY <1>1, <3>1, <3>3, <3>4 DEF TypeOK
    <3> QED
      BY <1>1, <2>1, <3>5, TableKept
  <2> QED
    BY <2>2, <2>3
<1>7. ASSUME NEW t \in Thread, DeleteEnd(t) PROVE TableMatchesFrames'
  <2> DEFINE p == call[t].page
             f == page_table[p]
  <2>1. CASE ~Cached(p)
    BY <1>1, <1>7, <2>1, TableKept DEF DeleteEnd
  <2>2. CASE Cached(p)
    <3>1. /\ page_table' = [page_table EXCEPT ![p] = NoFrame]
          /\ mru_pages' = Removed(mru_pages, p)
          /\ frames' = [frames EXCEPT ![f] = FreshFrame(NoPage, 0)]
          /\ free_frames' = Append(free_frames, f)
          /\ pool_size' = pool_size
      BY <1>7, <2>2 DEF DeleteEnd, Freed
    <3>2. p \in Page /\ f \in Frame /\ frames[f].page_id = p /\ f < pool_size
      BY <1>b, <2>2 DEF Cached
    <3>3. /\ \A q \in Page : Cached(q)' <=> Cached(q) /\ q # p
          /\ ToSet(mru_pages') = {q \in Page : Cached(q)'}
          /\ IsInjective(mru_pages')
      BY <1>1, <3>1, PageLeaves
    <3>4. \A q \in Page : q # p => page_table'[q] = page_table[q]
      BY <1>1, <3>1 DEF TypeOK
    <3> HIDE DEF f
    <3>5. \A g \in Frame : frames'[g].page_id = IF g = f THEN NoPage ELSE frames[g].page_id
      BY <1>1, <3>1, <3>2 DEF TypeOK, FreshFrame
    <3>6. f \notin ToSet(free_frames)
      BY <1>a, <3>2, Ranges
    <3>7. IsInjective(free_frames') /\ ToSet(free_frames') = ToSet(free_frames) \cup {f}
      BY <1>1, <3>1, <3>2, <3>6, AppendedProperties DEF TypeOK, TableMatchesFrames
    <3>8. \A g \in ToSet(free_frames') : frames'[g].page_id = NoPage /\ g < pool_size'
      BY <1>a, <3>1, <3>2, <3>5, <3>7
    <3>9. ASSUME NEW q \in Page, Cached(q)'
          PROVE  frames'[page_table'[q]].page_id = q /\ page_table'[q] < pool_size'
      <4>1. Cached(q) /\ q # p /\ page_table'[q] = page_table[q]
        BY <3>3, <3>4, <3>9
      <4>2. page_table[q] \in Frame /\ frames[page_table[q]].page_id = q /\ page_table[q] < pool_size
        BY <1>b, <4>1
      <4>3. page_table[q] # f
        BY <3>2, <4>1, <4>2
      <4> QED
        BY <3>1, <3>5, <4>1, <4>2, <4>3
    <3> QED
      BY <3>3, <3>7, <3>8, <3>9 DEF TableMatchesFrames
  <2> QED
    BY <2>1, <2>2
<1>8. CASE UNCHANGED vars \/ Close \/ Closed
  BY <1>2, <1>8 DEF vars, Close, Closed
<1>9. ASSUME NEW t \in Thread, Client(t) PROVE TableMatchesFrames'
  BY <1>2, <1>9 DEF Client, NewPage, Fetch, Delete, Write, Unpin
<1>10. ASSUME NEW t \in Thread,
              \/ SwapBegin(t) \/ SwapFails(t) \/ SwapRead(t) \/ ReadFails(t) \/ DeleteRefused(t)
       PROVE  TableMatchesFrames'
  BY <1>2, <1>10 DEF SwapBegin, SwapFails, SwapRead, ReadFails, DeleteRefused
<1> QED
  BY <1>3, <1>4, <1>5, <1>6, <1>7, <1>8, <1>9, <1>10 DEF Next, Proceed

(* A call keeps what it carries until it returns.                          *)
LEMMA CarryStep == PInv /\ [Next]_vars => CallsCarry'
<1> SUFFICES ASSUME PInv, [Next]_vars PROVE CallsCarry'
  OBVIOUS
<1>1. TypeOK /\ CallsCarry
  BY DEF PInv
<1> USE DEF poolVars, allocVars, dataVars
<1>2. CASE UNCHANGED <<pc, call, pins>>
  BY <1>1, <1>2 DEF CallsCarry
<1>3. ASSUME NEW t \in Thread, Return(t), UNCHANGED pins
             \/ (\E f, p, b : Pin(t, f, p, b))
             \/ (\E i : pins' = [pins EXCEPT ![t] = RemoveAt(@, i)])
      PROVE  CallsCarry'
  <2>1. \A u \in Thread \ {t} : pc'[u] = pc[u] /\ call'[u] = call[u] /\ pins'[u] = pins[u]
    BY <1>1, <1>3 DEF TypeOK, Return, Pin
  <2>2. pc'[t] = "idle"
    BY <1>1, <1>3 DEF TypeOK, Return
  <2> QED
    BY <1>1, <2>1, <2>2 DEF CallsCarry
<1>4. ASSUME NEW t \in Thread, NewPage(t) PROVE CallsCarry'
  <2>1. PICK p \in Page : call' = [call EXCEPT ![t] = [page |-> p, pin |-> 0, read |-> FALSE]]
    BY <1>4 DEF NewPage
  <2> QED
    BY <1>1, <1>4, <2>1 DEF NewPage, TypeOK, CallsCarry
<1>5. ASSUME NEW t \in Thread, NEW p \in Page, Fetch(t, p) PROVE CallsCarry'
  <2>1. /\ Len(pins[t]) < kMAX_PINS /\ UNCHANGED pins
        /\ call' = [call EXCEPT ![t] = [page |-> p, pin |-> 0, read |-> TRUE]]
        /\ pc' \in {[pc EXCEPT ![t] = "hit"], [pc EXCEPT ![t] = "miss"]}
    BY <1>5 DEF Fetch
  <2> QED
    BY <1>1, <2>1 DEF TypeOK, CallsCarry
<1>6. ASSUME NEW t \in Thread, NEW p \in Page, Delete(t, p) PROVE CallsCarry'
  BY <1>1, <1>6 DEF Delete, TypeOK, CallsCarry
<1>7. ASSUME NEW t \in Thread, NEW i \in DOMAIN pins[t], Write(t, i) PROVE CallsCarry'
  <2> DEFINE h == [pins[t][i] EXCEPT !.wrote = TRUE, !.fresh = FALSE]
  <2>1. pins' = [pins EXCEPT ![t] = [pins[t] EXCEPT ![i] = h]] /\ pc[t] = "idle"
        /\ UNCHANGED <<pc, call>>
    BY <1>7 DEF Write
  <2> HIDE DEF h
  <2>2. \A u \in Thread \ {t} : pins'[u] = pins[u]
    BY <1>1, <2>1 DEF TypeOK
  <2> QED
    BY <1>1, <2>1, <2>2 DEF CallsCarry
<1>8. ASSUME NEW t \in Thread, NEW i \in DOMAIN pins[t], Unpin(t, i) PROVE CallsCarry'
  BY <1>1, <1>8 DEF Unpin, TypeOK, CallsCarry
<1>9. ASSUME NEW t \in Thread, SwapBegin(t) PROVE CallsCarry'
  BY <1>1, <1>9 DEF SwapBegin, TypeOK, CallsCarry
<1>10. ASSUME NEW t \in Thread, SwapInstall(t) PROVE CallsCarry'
  <2>1. PICK f \in find_next_frame : SwapInstall(t)!(f)
    BY <1>10 DEF SwapInstall
  <2>2. CASE call[t].read
    <3>1. pc[t] = "swap" /\ pc' = [pc EXCEPT ![t] = "read"] /\ UNCHANGED <<call, pins>>
      BY <2>1, <2>2
    <3> QED
      BY <1>1, <3>1 DEF TypeOK, CallsCarry
  <2>3. CASE ~call[t].read
    <3>1. Return(t) /\ Pin(t, f, call[t].page, TRUE)
      BY <2>1, <2>3
    <3> QED
      BY <1>3, <3>1
  <2> QED
    BY <2>2, <2>3
<1>11. ASSUME NEW t \in Thread, FetchHit(t) \/ SwapRead(t) PROVE CallsCarry'
  <2>1. Return(t) /\ \E f, p, b : Pin(t, f, p, b)
    BY <1>11 DEF FetchHit, SwapRead
  <2> QED
    BY <1>3, <2>1
<1>12. ASSUME NEW t \in Thread, UnpinEnd(t) PROVE CallsCarry'
  <2>1. Return(t) /\ \E i : pins' = [pins EXCEPT ![t] = RemoveAt(@, i)]
    BY <1>12 DEF UnpinEnd
  <2> QED
    BY <1>3, <2>1
<1>13. ASSUME NEW t \in Thread,
              \/ SwapFails(t) \/ WriteFails(t) \/ ReadFails(t) \/ DeleteRefused(t) \/ DeleteEnd(t)
       PROVE  CallsCarry'
  <2>1. Return(t) /\ UNCHANGED pins
    BY <1>13 DEF SwapFails, WriteFails, ReadFails, DeleteRefused, DeleteEnd
  <2> QED
    BY <1>3, <2>1
<1>14. CASE Close
  BY <1>1, <1>14 DEF Close, TypeOK, CallsCarry
<1>15. CASE UNCHANGED vars \/ Closed
  BY <1>2, <1>15 DEF vars, Closed
<1> QED
  BY <1>4, <1>5, <1>6, <1>7, <1>8, <1>9, <1>10, <1>11, <1>12, <1>13, <1>14, <1>15
     DEF Next, Client, Proceed

(* A frame that is dirty holds a page.                                     *)
LEMMA DirtyStep == PInv /\ [Next]_vars => DirtyHavePages'
<1> SUFFICES ASSUME PInv, [Next]_vars PROVE DirtyHavePages'
  OBVIOUS
<1>1. TypeOK /\ TableMatchesFrames /\ CallsCarry /\ DirtyHavePages /\ LatchHeld
  BY DEF PInv
<1> USE DEF poolVars
<1>2. CASE UNCHANGED frames
  BY <1>1, <1>2 DEF DirtyHavePages
<1>3. ASSUME NEW t \in Thread, FetchHit(t) PROVE DirtyHavePages'
  <2> DEFINE f == page_table[call[t].page]
  <2>1. f \in Frame
    BY <1>1, <1>3 DEF FetchHit, LatchHeld, Cached, TypeOK
  <2>2. frames' = [frames EXCEPT ![f].pin_count = Inc(@)]
    BY <1>3 DEF FetchHit
  <2> HIDE DEF f
  <2>3. \A g \in Frame : /\ frames'[g].page_id = frames[g].page_id
                         /\ frames'[g].is_dirty = frames[g].is_dirty
    BY <1>1, <2>1, <2>2 DEF TypeOK
  <2> QED
    BY <1>1, <2>3 DEF DirtyHavePages
<1>4. ASSUME NEW t \in Thread, NEW f \in Frame, NEW p, NEW n,
             frames' = [frames EXCEPT ![f] = FreshFrame(p, n)]
      PROVE  DirtyHavePages'
  <2>1. \A g \in Frame : IF g = f THEN ~frames'[g].is_dirty ELSE frames'[g] = frames[g]
    BY <1>1, <1>4 DEF TypeOK, FreshFrame
  <2> QED
    BY <1>1, <2>1 DEF DirtyHavePages
<1>5. ASSUME NEW t \in Thread, SwapInstall(t) PROVE DirtyHavePages'
  <2>1. PICK f \in find_next_frame : frames' = [frames EXCEPT ![f] = FreshFrame(call[t].page, 1)]
    BY <1>5 DEF SwapInstall
  <2> QED
    BY <1>4, <2>1, NextFrame
<1>6. ASSUME NEW t \in Thread, UnpinEnd(t) PROVE DirtyHavePages'
  <2> DEFINE p == call[t].page
             f == page_table[p]
             b == pins[t][call[t].pin].wrote
  <2>1. CASE ~Cached(p)
    BY <1>2, <1>6, <2>1 DEF UnpinEnd
  <2>2. CASE Cached(p)
    <3>1. p \in Page /\ f \in Frame /\ frames[f].page_id = p
      BY <1>1, <2>2 DEF Cached, TypeOK, TableMatchesFrames
    <3>2. frames' = [frames EXCEPT ![f] = unpin_page(frames[f], b)]
      BY <1>6, <2>2 DEF UnpinEnd
    <3> HIDE DEF f, b
    <3>3. unpin_page(frames[f], b).page_id = p
      BY <1>1, <3>1 DEF unpin_page, TypeOK
    <3>4. \A g \in Frame : IF g = f THEN frames'[g].page_id = p ELSE frames'[g] = frames[g]
      BY <1>1, <3>1, <3>2, <3>3 DEF TypeOK
    <3> QED
      BY <1>1, <3>1, <3>4 DEF DirtyHavePages
  <2> QED
    BY <2>1, <2>2
<1>7. ASSUME NEW t \in Thread, DeleteEnd(t) PROVE DirtyHavePages'
  <2> DEFINE p == call[t].page
             f == page_table[p]
  <2>1. CASE ~Cached(p)
    BY <1>2, <1>7, <2>1 DEF DeleteEnd
  <2>2. CASE Cached(p)
    <3>1. f \in Frame
      BY <1>1, <2>2 DEF Cached, TypeOK
    <3>2. frames' = [frames EXCEPT ![f] = FreshFrame(NoPage, 0)]
      BY <1>7, <2>2 DEF DeleteEnd
    <3> QED
      BY <1>4, <3>1, <3>2
  <2> QED
    BY <2>1, <2>2
<1>8. CASE UNCHANGED vars \/ Close \/ Closed
  BY <1>2, <1>8 DEF vars, Close, Closed
<1>9. ASSUME NEW t \in Thread, Client(t) PROVE DirtyHavePages'
  BY <1>2, <1>9 DEF Client, NewPage, Fetch, Delete, Write, Unpin
<1>10. ASSUME NEW t \in Thread,
              \/ SwapBegin(t) \/ SwapFails(t) \/ SwapRead(t)
              \/ WriteFails(t) \/ ReadFails(t) \/ DeleteRefused(t)
       PROVE  DirtyHavePages'
  BY <1>2, <1>10 DEF SwapBegin, SwapFails, SwapRead, WriteFails, ReadFails, DeleteRefused
<1> QED
  BY <1>3, <1>5, <1>6, <1>7, <1>8, <1>9, <1>10 DEF Next, Proceed

(* latch_ keeps everybody else out.                                        *)
LEMMA LatchStep == PInv /\ [Next]_vars => LatchHeld'
<1> SUFFICES ASSUME PInv, [Next]_vars PROVE LatchHeld'
  OBVIOUS
<1>1. TypeOK /\ LatchHeld
  BY DEF PInv
<1> USE DEF poolVars, allocVars, dataVars
(* Nobody waits under latch_ when t comes, so all that counts is t.        *)
<1>2. ASSUME NEW t \in Thread, TakeLatch(t), UNCHANGED page_table,
             pc' \in {[pc EXCEPT ![t] = s] : s \in {"hit", "swap", "delete"}},
             \A u \in Thread \ {t} : call'[u] = call[u],
             pc'[t] = "hit" => Cached(call'[t].page)
      PROVE  LatchHeld'
  <2>1. latch.writer = NoThread /\ latch'.writer = t
    BY <1>1, <1>2 DEF TakeLatch, LatchFree, TypeOK
  <2>2. \A u \in Thread \ {t} : pc'[u] = pc[u] /\ pc[u] \notin {"hit", "swap", "delete"}
    BY <1>1, <1>2, <2>1, PoolAssumption DEF LatchHeld, TypeOK
  <2> QED
    BY <1>1, <1>2, <2>1, <2>2 DEF LatchHeld, Cached
(* The one that had latch_ goes: nobody else had it.                       *)
<1>3. ASSUME NEW t \in Thread, pc[t] \in {"hit", "swap", "delete"}, DropLatch,
             pc' \in {[pc EXCEPT ![t] = s] : s \in {"idle", "read"}}
      PROVE  LatchHeld'
  <2>1. \A u \in Thread \ {t} : pc'[u] = pc[u] /\ pc[u] \notin {"hit", "swap", "delete"}
    BY <1>1, <1>3 DEF LatchHeld, TypeOK
  <2>2. pc'[t] \in {"idle", "read"}
    BY <1>1, <1>3 DEF TypeOK
  <2> QED
    BY <2>1, <2>2 DEF LatchHeld
(* A step outside latch_, or with latch_ shared.                           *)
<1>4. ASSUME NEW t \in Thread, latch'.writer = latch.writer, UNCHANGED page_table,
             pc' \in {[pc EXCEPT ![t] = s] : s \in {"idle", "miss", "unpin"}},
             \A u \in Thread \ {t} : call'[u] = call[u]
      PROVE  LatchHeld'
  <2>1. \A u \in Thread \ {t} : pc'[u] = pc[u]
    BY <1>1, <1>4 DEF TypeOK
  <2>2. pc'[t] \in {"idle", "miss", "unpin"}
    BY <1>1, <1>4 DEF TypeOK
  <2> QED
    BY <1>1, <1>4, <2>1, <2>2 DEF LatchHeld, Cached
<1>5. CASE UNCHANGED <<latch, page_table, pc, call>>
  BY <1>1, <1>5 DEF LatchHeld, Cached
<1>6. ASSUME NEW t \in Thread, NewPage(t) PROVE LatchHeld'
  BY <1>1, <1>4, <1>6 DEF NewPage, TypeOK
<1>7. ASSUME NEW t \in Thread, NEW p \in Page, Fetch(t, p) PROVE LatchHeld'
  <2>1. UNCHANGED page_table /\ call' = [call EXCEPT ![t] = [page |-> p, pin |-> 0, read |-> TRUE]]
    BY <1>7 DEF Fetch
  <2>2. call'[t].page = p /\ \A u \in Thread \ {t} : call'[u] = call[u]
    BY <1>1, <2>1 DEF TypeOK
  <2>3. CASE Cached(p)
    BY <1>2, <1>7, <2>1, <2>2, <2>3 DEF Fetch
  <2>4. CASE ~Cached(p)
    BY <1>4, <1>7, <2>1, <2>2, <2>4 DEF Fetch
  <2> QED
    BY <2>3, <2>4
<1>8. ASSUME NEW t \in Thread, NEW p \in Page, Delete(t, p) PROVE LatchHeld'
  <2>1. \A u \in Thread \ {t} : call'[u] = call[u]
    BY <1>1, <1>8 DEF Delete, TypeOK
  <2>2. pc' = [pc EXCEPT ![t] = "delete"] /\ pc'[t] = "delete" /\ TakeLatch(t) /\ UNCHANGED page_table
    BY <1>1, <1>8 DEF Delete, TypeOK
  <2> QED
    BY <1>2, <2>1, <2>2
<1>9. ASSUME NEW t \in Thread, SwapBegin(t) PROVE LatchHeld'
  <2>1. pc' = [pc EXCEPT ![t] = "swap"] /\ pc'[t] = "swap" /\ TakeLatch(t) /\ UNCHANGED <<page_table, call>>
    BY <1>1, <1>9 DEF SwapBegin, TypeOK
  <2> QED
    BY <1>2, <2>1
<1>10. ASSUME NEW t \in Thread,
              \/ FetchHit(t) \/ SwapFails(t) \/ SwapInstall(t) \/ WriteFails(t)
              \/ DeleteRefused(t) \/ DeleteEnd(t)
       PROVE  LatchHeld'
  <2>1. pc[t] \in {"hit", "swap", "delete"} /\ DropLatch
        /\ pc' \in {[pc EXCEPT ![t] = s] : s \in {"idle", "read"}}
    BY <1>10 DEF FetchHit, SwapFails, SwapInstall, WriteFails, DeleteRefused, DeleteEnd, Return
  <2> QED
    BY <1>3, <2>1
<1>11. ASSUME NEW t \in Thread, SwapRead(t) \/ ReadFails(t) \/ UnpinEnd(t) PROVE LatchHeld'
  <2>1. latch'.writer = latch.writer
    BY <1>1, <1>11 DEF SwapRead, ReadFails, UnpinEnd, TypeOK
  <2>2. Return(t) /\ UNCHANGED page_table
    BY <1>11 DEF SwapRead, ReadFails, UnpinEnd
  <2> QED
    BY <1>1, <1>4, <2>1, <2>2 DEF Return, TypeOK
<1>12. ASSUME NEW t \in Thread, NEW i \in DOMAIN pins[t], Unpin(t, i) PROVE LatchHeld'
  <2>1. latch'.writer = latch.writer
    BY <1>1, <1>12 DEF Unpin, TypeOK
  <2> QED
    BY <1>1, <1>4, <1>12, <2>1 DEF Unpin, TypeOK
<1>13. ASSUME NEW t \in Thread, NEW i \in DOMAIN pins[t], Write(t, i) PROVE LatchHeld'
  BY <1>5, <1>13 DEF Write
<1>14. CASE Close
  BY <1>1, <1>14 DEF Close, LatchHeld
<1>15. CASE UNCHANGED vars \/ Closed
  BY <1>5, <1>15 DEF vars, Closed
<1> QED
  BY <1>6, <1>7, <1>8, <1>9, <1>10, <1>11, <1>12, <1>13, <1>14, <1>15 DEF Next, Client, Proceed

-----------------------------------------------------------------------------
LEMMA PInvInit == Init => PInv
<1> SUFFICES ASSUME Init PROVE PInv
  OBVIOUS
<1> USE DEF Init
<1>1. TypeOK
  <2>1. FreshFrame(NoPage, 0) \in [page_id : Page \cup {NoPage},
                                   pin_count : 0 .. kPIN_MODULUS - 1, is_dirty : BOOLEAN]
    BY PoolAssumption DEF FreshFrame
  <2> QED
    BY <2>1, Ranges, NoCallIsCall DEF TypeOK, PC
<1>2. \A p \in Page : ~Cached(p)
  BY DEF Cached
<1>3. ToSet(mru_pages) = {} /\ ToSet(free_frames) = {}
  BY DEF ToSet
<1>4. TableMatchesFrames
  BY <1>2, <1>3 DEF TableMatchesFrames, IsInjective
<1>5. CallsCarry /\ DirtyHavePages /\ LatchHeld
  BY DEF CallsCarry, DirtyHavePages, LatchHeld, FreshFrame
<1> QED
  BY <1>1, <1>4, <1>5 DEF PInv

THEOREM Invariance == Spec => []PInv
<1>1. PInv /\ [Next]_vars => PInv'
  BY TypeStep, TableStep, CarryStep, DirtyStep, LatchStep DEF PInv
<1> QED
  BY <1>1, PInvInit, PTL DEF Spec

(* Every variable keeps its type: no counter leaves the range of its C++   *)
(* type, no page id and no frame number comes from nowhere.                *)
THEOREM TypeCorrect == Spec => []TypeOK
BY Invariance, PTL DEF PInv

(* page_table_, the frames, the replacer and the list of freed frames      *)
(* agree, however calls overlap - also when two threads load a page twice, *)
(* and when the disk fails in the middle of swap_page.                     *)
THEOREM StructuresAgree == Spec => []TableMatchesFrames
BY Invariance, PTL DEF PInv

-----------------------------------------------------------------------------
(***************************************************************************)
(* What the pool promises clients whose calls do not overlap on a page, on *)
(* a disk that works, for any number of threads, frames, pages and pins.   *)
(***************************************************************************)
(* The discipline of the clients, a disk that works, and fewer pins than   *)
(* pin_count_ can count.                                                   *)
Discipline ==
  /\ Exclusive /\ ~Faults
  /\ IsFiniteSet(Thread)
  /\ Cardinality(Thread) * kMAX_PINS < kPIN_MODULUS /\ kPIN_MODULUS > 1

(* The PinnedPages of all threads.                                         *)
Held == UNION {ToSet(pins[t]) : t \in Thread}

(* A page that allocate_page can return is in no use.                      *)
FreeAreUnused ==
  /\ IsInjective(free_list)
  /\ \A p \in ToSet(free_list) : p < capacity
  /\ \A p \in Page : p \in live \/ Cached(p) \/ Missing(p)
                       => p \notin ToSet(free_list) /\ p < capacity

(* A miss stays a miss, and nobody else's.                                 *)
MissesStay ==
  \A t \in Thread : pc[t] \in {"miss", "swap"} =>
    /\ ~Cached(call[t].page)
    /\ call[t].read <=> call[t].page \in live
    /\ \A u \in Thread \ {t} : pc[u] \in {"miss", "swap"} => call[u].page # call[t].page

(* What calls are about.                                                   *)
CallsAreCurrent ==
  \A t \in Thread :
    /\ pc[t] \in {"hit", "read", "delete"} => call[t].page \in live
    /\ pc[t] = "delete" => ~Missing(call[t].page)
    /\ pc[t] = "unpin" => call[t].page = pins[t][call[t].pin].page
    /\ pc[t] = "closed" => \A u \in Thread : pc[u] = "closed"

(* A frame that is being read, and who reads it.                           *)
Loads ==
  /\ \A f \in Frame : loading[f] # NoThread =>
       /\ loading[f] \in Thread /\ pc[loading[f]] = "read"
       /\ frames[f].page_id = call[loading[f]].page /\ frames[f].page_id \in Page
       /\ ~frames[f].is_dirty /\ f \notin latest_frames
  /\ \A t \in Thread : pc[t] = "read" => \E f \in Frame : loading[f] = t

(* A page is in one frame; an empty frame is freed or was never used.      *)
FramesFound ==
  \A f \in Frame :
    /\ frames[f].page_id \in Page => page_table[frames[f].page_id] = f
    /\ f >= pool_size => frames[f].page_id = NoPage
    /\ f < pool_size /\ frames[f].page_id = NoPage => f \in ToSet(free_frames)

PinsHold ==
  \A h \in Held :
    /\ frames[h.frame].page_id = h.page
    /\ loading[h.frame] = NoThread
    /\ ~h.fresh => h.page \in live

LatestInFrames ==
  \A f \in Frame : frames[f].page_id \in live /\ loading[f] = NoThread => f \in latest_frames

(* The latest content is in the file, or will be written.                  *)
WillBeWritten(p) ==
  /\ Cached(p)
  /\ frames[page_table[p]].is_dirty \/ \E h \in Held : h.frame = page_table[p] /\ h.wrote
  /\ \A t \in Thread : pc[t] # "closed"
WritesAreKept == \A p \in live : p \in latest_disk \/ WillBeWritten(p)

EInv == /\ FreeAreUnused /\ MissesStay /\ CallsAreCurrent
        /\ Loads /\ FramesFound /\ PinsHold /\ LatestInFrames /\ WritesAreKept /\ PinsAreCounted

-----------------------------------------------------------------------------
(* The places of PinnedPages around a frame.                               *)
PinTable == {P \in [Thread -> Seq(PinnedPage)] : \A t \in Thread : Len(P[t]) <= kMAX_PINS}
SpotsIn(P, f) == {h \in Thread \X (1 .. kMAX_PINS) :
                    /\ h[2] \in DOMAIN P[h[1]]
                    /\ P[h[1]][h[2]].frame = f}

LEMMA InSpots ==
  ASSUME NEW P, NEW f
  PROVE  /\ \A u \in Thread : \A j \in 1 .. kMAX_PINS :
              <<u, j>> \in SpotsIn(P, f) <=> j \in DOMAIN P[u] /\ P[u][j].frame = f
         /\ \A h \in SpotsIn(P, f) :
              \E u \in Thread : \E j \in 1 .. kMAX_PINS : h = <<u, j>>
BY DEF SpotsIn

LEMMA SpotsFinite ==
  ASSUME Discipline, NEW P, NEW f
  PROVE  /\ IsFiniteSet(SpotsIn(P, f))
         /\ Cardinality(SpotsIn(P, f)) \in Nat
         /\ Cardinality(SpotsIn(P, f)) < kPIN_MODULUS
         /\ Cardinality(SpotsIn(P, f)) = 0 <=> SpotsIn(P, f) = {}
<1> DEFINE A == Thread \X (1 .. kMAX_PINS)
<1>1. kMAX_PINS \in Nat /\ 1 \in Int /\ kMAX_PINS \in Int /\ kPIN_MODULUS \in Nat
  BY PoolAssumption
<1>2. IsFiniteSet(1 .. kMAX_PINS) /\ Cardinality(1 .. kMAX_PINS) = kMAX_PINS
  BY <1>1, FS_Interval
<1>3. /\ IsFiniteSet(Thread) /\ Cardinality(Thread) * kMAX_PINS < kPIN_MODULUS
  BY DEF Discipline
<1>4. IsFiniteSet(A) /\ Cardinality(A) = Cardinality(Thread) * kMAX_PINS
  BY <1>2, <1>3, FS_Product
<1>5. SpotsIn(P, f) \in SUBSET A
  BY DEF SpotsIn
<1> HIDE DEF A
<1>6. IsFiniteSet(SpotsIn(P, f)) /\ Cardinality(SpotsIn(P, f)) <= Cardinality(A)
  BY <1>4, <1>5, FS_Subset
<1>7. Cardinality(SpotsIn(P, f)) \in Nat /\ Cardinality(A) \in Nat
  BY <1>4, <1>6, FS_CardinalityType
<1>8. Cardinality(SpotsIn(P, f)) = 0 <=> SpotsIn(P, f) = {}
  BY <1>6, FS_EmptySet
<1>9. Cardinality(SpotsIn(P, f)) < kPIN_MODULUS
  <2>1. Cardinality(A) < kPIN_MODULUS
    BY <1>3, <1>4
  <2> QED
    BY <1>1, <1>6, <1>7, <2>1
<1> QED
  BY <1>6, <1>7, <1>8, <1>9

LEMMA Matched ==
  ASSUME NEW S, IsFiniteSet(S), NEW T, NEW F \in [S -> T], NEW G \in [T -> S],
         \A x \in S : G[F[x]] = x, \A y \in T : F[G[y]] = y
  PROVE  Cardinality(T) = Cardinality(S)
<1>1. \A a, b \in S : F[a] = F[b] => a = b
  OBVIOUS
<1>2. \A y \in T : \E x \in S : F[x] = y
  <2> TAKE y \in T
  <2>1. G[y] \in S /\ F[G[y]] = y
    OBVIOUS
  <2> QED
    BY <2>1
<1>3. F \in Bijection(S, T)
  BY <1>1, <1>2, Fun_IsBij
<1>4. ExistsBijection(S, T)
  BY <1>3 DEF ExistsBijection
<1> QED
  BY <1>4, FS_Bijection

(* One PinnedPage more.                                                    *)
LEMMA SpotsMore ==
  ASSUME Discipline, NEW P \in PinTable, NEW Q \in PinTable, NEW t \in Thread,
         NEW h \in PinnedPage, Q[t] = Append(P[t], h), \A u \in Thread : u # t => Q[u] = P[u],
         NEW f
  PROVE  Cardinality(SpotsIn(Q, f)) =
           Cardinality(SpotsIn(P, f)) + (IF h.frame = f THEN 1 ELSE 0)
<1> DEFINE n == Len(P[t])
           A == SpotsIn(P, f)
           B == SpotsIn(Q, f)
<1>1. /\ P \in [Thread -> Seq(PinnedPage)] /\ P[t] \in Seq(PinnedPage)
      /\ n \in Nat /\ DOMAIN P[t] = 1 .. n
      /\ Q[t] = Append(P[t], h)
      /\ \A u \in Thread : u # t => Q[u] = P[u]
  BY LenProperties DEF PinTable
<1>2. /\ Q[t] \in Seq(PinnedPage) /\ Len(Q[t]) = n + 1 /\ DOMAIN Q[t] = 1 .. n + 1
      /\ Q[t][n + 1] = h
      /\ \A j \in 1 .. n : Q[t][j] = P[t][j]
  BY <1>1, AppendProperties, LenProperties
<1>3. n + 1 <= kMAX_PINS /\ kMAX_PINS \in Nat
  BY <1>2, PoolAssumption DEF PinTable
<1>a. \A u \in Thread : \A j \in 1 .. kMAX_PINS :
        <<u, j>> \in A <=> j \in DOMAIN P[u] /\ P[u][j].frame = f
  BY DEF SpotsIn
<1>b. \A u \in Thread : \A j \in 1 .. kMAX_PINS :
        <<u, j>> \in B <=> j \in DOMAIN Q[u] /\ Q[u][j].frame = f
  BY DEF SpotsIn
<1> HIDE DEF n, A, B
<1>4. \A u \in Thread : \A j \in 1 .. kMAX_PINS : <<u, j>> # <<t, n + 1>> =>
        (<<u, j>> \in B <=> <<u, j>> \in A)
  <2> TAKE u \in Thread
  <2> TAKE j \in 1 .. kMAX_PINS
  <2> HAVE <<u, j>> # <<t, n + 1>>
  <2>1. CASE u # t
    BY <1>1, <1>a, <1>b, <2>1
  <2>2. CASE u = t
    <3>1. j # n + 1
      BY <2>2
    <3>2. j \in DOMAIN Q[t] <=> j \in DOMAIN P[t]
      BY <1>1, <1>2, <3>1
    <3>3. j \in DOMAIN P[t] => Q[t][j] = P[t][j]
      BY <1>1, <1>2
    <3> QED
      BY <1>a, <1>b, <2>2, <3>2, <3>3
  <2> QED
    BY <2>1, <2>2
<1>c. n + 1 \in 1 .. kMAX_PINS /\ n + 1 \notin DOMAIN P[t] /\ n + 1 \in DOMAIN Q[t]
  BY <1>1, <1>2, <1>3
<1>5. <<t, n + 1>> \notin A
  BY <1>a, <1>c
<1>6. <<t, n + 1>> \in B <=> h.frame = f
  BY <1>2, <1>b, <1>c
<1>7. B = IF h.frame = f THEN A \cup {<<t, n + 1>>} ELSE A
  <2>1. \A x \in B : \E u \in Thread : \E j \in 1 .. kMAX_PINS : x = <<u, j>>
    BY InSpots DEF B
  <2>2. \A x \in A : \E u \in Thread : \E j \in 1 .. kMAX_PINS : x = <<u, j>>
    BY InSpots DEF A
  <2>3. \A x : x # <<t, n + 1>> => (x \in B <=> x \in A)
    BY <1>4, <2>1, <2>2
  <2>4. CASE h.frame = f
    <3>1. \A x : x \in B <=> x \in A \cup {<<t, n + 1>>}
      BY <1>6, <2>3, <2>4
    <3> QED
      BY <2>4, <3>1
  <2>5. CASE h.frame # f
    <3>1. \A x : x \in B <=> x \in A
      BY <1>5, <1>6, <2>3, <2>5
    <3> QED
      BY <2>5, <3>1
  <2> QED
    BY <2>4, <2>5
<1>8. IsFiniteSet(A) /\ Cardinality(A) \in Nat
  BY SpotsFinite DEF A
<1>9. CASE h.frame = f
  BY <1>5, <1>7, <1>8, <1>9, FS_AddElement DEF A, B
<1>10. CASE h.frame # f
  BY <1>7, <1>8, <1>10 DEF A, B
<1> QED
  BY <1>9, <1>10

(* One PinnedPage less: those behind it move up.                           *)
LEMMA SpotsLess ==
  ASSUME Discipline, NEW P \in PinTable, NEW Q \in PinTable, NEW t \in Thread,
         NEW i \in DOMAIN P[t],
         Q[t] = RemoveAt(P[t], i), \A u \in Thread : u # t => Q[u] = P[u],
         NEW f
  PROVE  Cardinality(SpotsIn(Q, f)) =
           Cardinality(SpotsIn(P, f)) - (IF P[t][i].frame = f THEN 1 ELSE 0)
<1> DEFINE n == Len(P[t])
           A == SpotsIn(P, f) \ {<<t, i>>}
           B == SpotsIn(Q, f)
           F == [x \in A |-> IF x[1] = t /\ x[2] > i THEN <<t, x[2] - 1>> ELSE x]
           G == [y \in B |-> IF y[1] = t /\ y[2] >= i THEN <<t, y[2] + 1>> ELSE y]
<1>1. /\ P \in [Thread -> Seq(PinnedPage)] /\ P[t] \in Seq(PinnedPage)
      /\ n \in Nat /\ DOMAIN P[t] = 1 .. n /\ i \in 1 .. n
      /\ Q[t] = RemoveAt(P[t], i)
      /\ \A u \in Thread : u # t => Q[u] = P[u]
  BY LenProperties DEF PinTable
<1>2. /\ DOMAIN Q[t] = 1 .. n - 1
      /\ \A j \in 1 .. n - 1 : Q[t][j] = IF j < i THEN P[t][j] ELSE P[t][j + 1]
  <2>1. /\ RemoveAt(P[t], i) \in Seq(PinnedPage)
        /\ Len(RemoveAt(P[t], i)) = n - 1
        /\ \A j \in 1 .. n - 1 : RemoveAt(P[t], i)[j] = IF j < i THEN P[t][j] ELSE P[t][j + 1]
    BY <1>1, RemoveAtProperties
  <2>2. DOMAIN RemoveAt(P[t], i) = 1 .. n - 1
    BY <2>1, LenProperties
  <2> QED
    BY <1>1, <2>1, <2>2
<1>3. n <= kMAX_PINS /\ kMAX_PINS \in Nat
  BY PoolAssumption DEF PinTable
<1> HIDE DEF n
<1>4. \A x \in A : \E u \in Thread : \E j \in 1 .. kMAX_PINS : x = <<u, j>>
  BY InSpots
<1>5. \A y \in B : \E u \in Thread : \E j \in 1 .. kMAX_PINS : y = <<u, j>>
  BY InSpots
<1>6. \A u \in Thread : \A j \in 1 .. kMAX_PINS :
        <<u, j>> \in A <=> /\ j \in DOMAIN P[u] /\ P[u][j].frame = f
                          /\ ~(u = t /\ j = i)
  <2> SUFFICES ASSUME NEW u \in Thread, NEW j \in 1 .. kMAX_PINS
               PROVE  <<u, j>> \in A <=> /\ j \in DOMAIN P[u] /\ P[u][j].frame = f
                                        /\ ~(u = t /\ j = i)
    OBVIOUS
  <2>1. <<u, j>> \in SpotsIn(P, f) <=> j \in DOMAIN P[u] /\ P[u][j].frame = f
    BY InSpots
  <2>2. <<u, j>> = <<t, i>> <=> u = t /\ j = i
    OBVIOUS
  <2> QED
    BY <2>1, <2>2
<1>7. \A u \in Thread : \A j \in 1 .. kMAX_PINS :
        <<u, j>> \in B <=> j \in DOMAIN Q[u] /\ Q[u][j].frame = f
  BY DEF SpotsIn
<1> HIDE DEF A, B
<1>8. ASSUME NEW u \in Thread, NEW j \in 1 .. kMAX_PINS, <<u, j>> \in A
      PROVE  /\ F[<<u, j>>] \in B
             /\ F[<<u, j>>] = IF u = t /\ j > i THEN <<t, j - 1>> ELSE <<u, j>>
  <2>1. F[<<u, j>>] = IF u = t /\ j > i THEN <<t, j - 1>> ELSE <<u, j>>
    BY <1>8
  <2>2. CASE u # t
    BY <1>1, <1>6, <1>7, <1>8, <2>1, <2>2
  <2>3. CASE u = t
    <3>1. j \in 1 .. n /\ P[t][j].frame = f /\ j # i
      BY <1>1, <1>6, <1>8, <2>3
    <3>2. CASE j > i
      <4>1. /\ j - 1 \in 1 .. n - 1 /\ j - 1 \in 1 .. kMAX_PINS
            /\ ~(j - 1 < i) /\ (j - 1) + 1 = j
        BY <1>1, <1>3, <3>1, <3>2
      <4>2. Q[t][j - 1] = P[t][j]
        BY <1>2, <4>1
      <4>3. <<t, j - 1>> \in B
        BY <1>2, <1>7, <3>1, <4>1, <4>2
      <4> QED
        BY <2>1, <2>3, <3>2, <4>3
    <3>3. CASE j < i
      <4>1. j \in 1 .. n - 1
        BY <1>1, <3>1, <3>3
      <4>2. <<t, j>> \in B
        BY <1>2, <1>7, <3>1, <3>3, <4>1
      <4> QED
        BY <1>1, <2>1, <2>3, <3>3, <4>2
    <3> QED
      BY <1>1, <3>1, <3>2, <3>3
  <2> QED
    BY <2>2, <2>3
<1>9. ASSUME NEW u \in Thread, NEW j \in 1 .. kMAX_PINS, <<u, j>> \in B
      PROVE  /\ G[<<u, j>>] \in A
             /\ G[<<u, j>>] = IF u = t /\ j >= i THEN <<t, j + 1>> ELSE <<u, j>>
  <2>1. G[<<u, j>>] = IF u = t /\ j >= i THEN <<t, j + 1>> ELSE <<u, j>>
    BY <1>9
  <2>2. CASE u # t
    BY <1>1, <1>6, <1>7, <1>9, <2>1, <2>2
  <2>3. CASE u = t
    <3>1. j \in 1 .. n - 1 /\ Q[t][j].frame = f
      BY <1>2, <1>7, <1>9, <2>3
    <3>2. CASE j >= i
      <4>1. /\ j + 1 \in 1 .. n /\ j + 1 \in 1 .. kMAX_PINS /\ j + 1 # i
            /\ Q[t][j] = P[t][j + 1]
        BY <1>1, <1>2, <1>3, <3>1, <3>2
      <4>2. <<t, j + 1>> \in A
        BY <1>1, <1>6, <3>1, <4>1
      <4> QED
        BY <2>1, <2>3, <3>2, <4>2
    <3>3. CASE ~(j >= i)
      <4>1. j \in 1 .. n /\ j # i /\ Q[t][j] = P[t][j]
        BY <1>1, <1>2, <3>1, <3>3
      <4>2. <<t, j>> \in A
        BY <1>1, <1>6, <3>1, <4>1
      <4> QED
        BY <2>1, <2>3, <3>3, <4>2
    <3> QED
      BY <3>2, <3>3
  <2> QED
    BY <2>2, <2>3
<1>10. \A x \in A : F[x] \in B /\ G[F[x]] = x
  <2> SUFFICES ASSUME NEW x \in A PROVE F[x] \in B /\ G[F[x]] = x
    OBVIOUS
  <2>1. PICK u \in Thread, j \in 1 .. kMAX_PINS : x = <<u, j>>
    BY <1>4
  <2>2. F[x] \in B /\ F[x] = IF u = t /\ j > i THEN <<t, j - 1>> ELSE <<u, j>>
    BY <1>8, <2>1
  <2>3. u = t => j # i
    BY <1>6, <2>1
  <2> HIDE DEF F, G
  <2>4. CASE u = t /\ j > i
    <3>1. j - 1 \in 1 .. kMAX_PINS /\ j - 1 >= i /\ (j - 1) + 1 = j
      BY <1>1, <1>3, <2>4
    <3>2. G[<<t, j - 1>>] = <<t, (j - 1) + 1>>
      BY <1>9, <2>2, <2>4, <3>1
    <3> QED
      BY <2>1, <2>2, <2>4, <3>1, <3>2
  <2>5. CASE ~(u = t /\ j > i)
    <3>1. ~(u = t /\ j >= i)
      BY <1>1, <2>3, <2>5
    <3> QED
      BY <1>9, <2>1, <2>2, <2>5, <3>1
  <2> QED
    BY <2>4, <2>5
<1>11. \A y \in B : G[y] \in A /\ F[G[y]] = y
  <2> SUFFICES ASSUME NEW y \in B PROVE G[y] \in A /\ F[G[y]] = y
    OBVIOUS
  <2>1. PICK u \in Thread, j \in 1 .. kMAX_PINS : y = <<u, j>>
    BY <1>5
  <2>2. G[y] \in A /\ G[y] = IF u = t /\ j >= i THEN <<t, j + 1>> ELSE <<u, j>>
    BY <1>9, <2>1
  <2> HIDE DEF F, G
  <2>3. CASE u = t /\ j >= i
    <3>0. j \in 1 .. n - 1
      BY <1>2, <1>7, <2>1, <2>3
    <3>1. j + 1 > i /\ (j + 1) - 1 = j /\ j + 1 \in 1 .. kMAX_PINS
      BY <1>1, <1>3, <2>3, <3>0
    <3>2. F[<<t, j + 1>>] = <<t, (j + 1) - 1>>
      BY <1>8, <2>2, <2>3, <3>1
    <3> QED
      BY <2>1, <2>2, <2>3, <3>1, <3>2
  <2>4. CASE ~(u = t /\ j >= i)
    <3>1. ~(u = t /\ j > i)
      BY <1>1, <2>4
    <3> QED
      BY <1>8, <2>1, <2>2, <2>4, <3>1
  <2> QED
    BY <2>3, <2>4
<1>12. F \in [A -> B] /\ G \in [B -> A]
  BY <1>10, <1>11
<1>13. IsFiniteSet(SpotsIn(P, f)) /\ Cardinality(SpotsIn(P, f)) \in Nat
  BY SpotsFinite
<1>14. /\ IsFiniteSet(A)
       /\ Cardinality(A) = Cardinality(SpotsIn(P, f)) - (IF P[t][i].frame = f THEN 1 ELSE 0)
  <2>1. <<t, i>> \in SpotsIn(P, f) <=> P[t][i].frame = f
    BY <1>1, <1>3, InSpots
  <2>2. /\ IsFiniteSet(A)
        /\ Cardinality(A) = IF <<t, i>> \in SpotsIn(P, f)
                            THEN Cardinality(SpotsIn(P, f)) - 1
                            ELSE Cardinality(SpotsIn(P, f))
    BY <1>13, FS_RemoveElement DEF A
  <2> QED
    BY <1>13, <2>1, <2>2
<1> HIDE DEF F, G
<1>15. Cardinality(B) = Cardinality(A)
  BY <1>10, <1>11, <1>12, <1>14, Matched
<1> QED
  BY <1>14, <1>15 DEF B

(* No PinnedPage is added, removed or given another frame.                 *)
LEMMA SpotsKept ==
  ASSUME NEW P, NEW Q, NEW f,
         \A u \in Thread : /\ DOMAIN Q[u] = DOMAIN P[u]
                           /\ \A j \in DOMAIN P[u] : Q[u][j].frame = P[u][j].frame
  PROVE  SpotsIn(Q, f) = SpotsIn(P, f)
BY DEF SpotsIn

-----------------------------------------------------------------------------
LEMMA PinsOnIs ==
  \A f : /\ PinsOn(f) = Cardinality(SpotsIn(pins, f))
        /\ PinsOn(f)' = Cardinality(SpotsIn(pins', f))
BY DEF PinsOn, SpotsIn

LEMMA HeldFacts ==
  ASSUME TypeOK, FramesFound, PinsHold
  PROVE  /\ \A h \in Held :
              /\ h \in PinnedPage /\ h.frame \in Frame /\ h.page \in Page
              /\ frames[h.frame].page_id = h.page /\ loading[h.frame] = NoThread
              /\ page_table[h.page] = h.frame /\ Cached(h.page)
         /\ \A t \in Thread : \A i \in DOMAIN pins[t] : pins[t][i] \in Held
<1>1. ASSUME NEW t \in Thread PROVE \A i \in DOMAIN pins[t] : pins[t][i] \in PinnedPage
  BY LenProperties, ElementOfSeq DEF TypeOK
<1>2. \A t \in Thread : \A i \in DOMAIN pins[t] : pins[t][i] \in Held
  BY DEF Held, ToSet
<1>3. ASSUME NEW h \in Held
      PROVE  h \in PinnedPage /\ h.frame \in Frame /\ h.page \in Page
  <2>0. PICK t \in Thread : \E i \in DOMAIN pins[t] : h = pins[t][i]
    BY DEF Held, ToSet
  <2>1. PICK i \in DOMAIN pins[t] : h = pins[t][i]
    BY <2>0
  <2> QED
    BY <1>1, <2>1 DEF PinnedPage
<1>4. \A h \in Held :
        /\ frames[h.frame].page_id = h.page /\ loading[h.frame] = NoThread
        /\ page_table[h.page] = h.frame /\ Cached(h.page)
  BY <1>3, Ranges DEF PinsHold, FramesFound, Cached
<1> QED
  BY <1>2, <1>3, <1>4

LEMMA TableFacts ==
  ASSUME TypeOK, TableMatchesFrames
  PROVE  /\ \A p : Cached(p) => /\ p \in Page /\ page_table[p] \in Frame
                                /\ frames[page_table[p]].page_id = p
                                /\ page_table[p] < pool_size
         /\ live \subseteq Page /\ NoPage \notin live
BY Ranges DEF TypeOK, Cached, TableMatchesFrames

(* A frame whose count is 0 is nobody's, and the other way round.          *)
LEMMA CountZero ==
  ASSUME Discipline, TypeOK, PinsAreCounted, NEW f \in Frame
  PROVE  /\ frames[f].pin_count = 0 =>
              loading[f] = NoThread /\ \A h \in Held : h.frame # f
         /\ (\A h \in Held : h.frame # f) => Cardinality(SpotsIn(pins, f)) = 0
<1> DEFINE S == SpotsIn(pins, f)
<1>1. Cardinality(S) \in Nat /\ (Cardinality(S) = 0 <=> S = {})
  BY SpotsFinite
<1>2. frames[f].pin_count = Cardinality(S) + (IF loading[f] = NoThread THEN 0 ELSE 1)
  BY PinsOnIs DEF PinsAreCounted
<1>3. ASSUME NEW h \in Held, h.frame = f PROVE S # {}
  <2>0. PICK t \in Thread : \E i \in DOMAIN pins[t] : h = pins[t][i]
    BY DEF Held, ToSet
  <2>1. PICK i \in DOMAIN pins[t] : h = pins[t][i]
    BY <2>0
  <2>2. pins[t] \in Seq(PinnedPage) /\ Len(pins[t]) <= kMAX_PINS /\ kMAX_PINS \in Nat
    BY PoolAssumption DEF TypeOK
  <2>3. i \in 1 .. kMAX_PINS
    BY <2>2, LenProperties
  <2>4. <<t, i>> \in S
    BY <1>3, <2>1, <2>3 DEF SpotsIn
  <2> QED
    BY <2>4
<1>4. ASSUME S # {} PROVE \E h \in Held : h.frame = f
  <2>1. PICK x \in S : TRUE
    BY <1>4
  <2>2. /\ x[1] \in Thread /\ x[2] \in DOMAIN pins[x[1]]
        /\ pins[x[1]][x[2]].frame = f
    BY <2>1 DEF SpotsIn
  <2>3. pins[x[1]][x[2]] \in Held
    BY <2>2 DEF Held, ToSet
  <2> QED
    BY <2>2, <2>3
<1> HIDE DEF S
<1>5. frames[f].pin_count = 0 => loading[f] = NoThread /\ Cardinality(S) = 0
  BY <1>1, <1>2
<1> QED
  BY <1>1, <1>3, <1>4, <1>5 DEF S

(* The PinnedPages after one more, one less, one that was written.         *)
LEMMA HeldMore ==
  ASSUME TypeOK, NEW t \in Thread, NEW f, NEW p, NEW b, Pin(t, f, p, b)
  PROVE  /\ Held' = Held \cup {[frame |-> f, page |-> p, wrote |-> FALSE, fresh |-> b]}
         /\ \A u \in Thread \ {t} : pins'[u] = pins[u]
<1> DEFINE h == [frame |-> f, page |-> p, wrote |-> FALSE, fresh |-> b]
<1>1. pins' = [pins EXCEPT ![t] = Append(pins[t], h)] /\ pins \in [Thread -> Seq(PinnedPage)]
  BY DEF Pin, TypeOK
<1> HIDE DEF h
<1>2. pins'[t] = Append(pins[t], h) /\ \A u \in Thread \ {t} : pins'[u] = pins[u]
  BY <1>1
<1>3. ToSet(pins'[t]) = ToSet(pins[t]) \cup {h}
  <2> DEFINE n == Len(pins[t])
  <2>1. /\ n \in Nat /\ DOMAIN pins[t] = 1 .. n
        /\ DOMAIN pins'[t] = 1 .. n + 1
        /\ \A i \in 1 .. n : pins'[t][i] = pins[t][i]
        /\ pins'[t][n + 1] = h
    BY <1>1, <1>2, LenProperties
  <2> HIDE DEF n
  <2>2. \A i \in 1 .. n : i \in 1 .. n + 1
    BY <2>1
  <2>3. \A i \in 1 .. n + 1 : i \in 1 .. n \/ i = n + 1
    BY <2>1
  <2>4. n + 1 \in 1 .. n + 1
    BY <2>1
  <2>5. \A x : x \in ToSet(pins'[t]) <=> x \in ToSet(pins[t]) \/ x = h
    BY <2>1, <2>2, <2>3, <2>4 DEF ToSet
  <2> QED
    BY <2>5
<1>4. Held' = UNION {ToSet(pins'[u]) : u \in Thread}
  BY DEF Held
<1>5. \A x : x \in Held' <=> x \in Held \/ x = h
  <2>1. \A x : x \in Held' <=> \E u \in Thread : x \in ToSet(pins'[u])
    BY <1>4
  <2>2. \A x : x \in Held <=> \E u \in Thread : x \in ToSet(pins[u])
    BY DEF Held
  <2> QED
    BY <1>2, <1>3, <2>1, <2>2
<1> QED
  BY <1>2, <1>5 DEF h

LEMMA HeldLess ==
  ASSUME TypeOK, NEW t \in Thread, NEW i \in DOMAIN pins[t],
         pins' = [pins EXCEPT ![t] = RemoveAt(pins[t], i)]
  PROVE  /\ Held' \subseteq Held
         /\ \A h \in Held : h \in Held' \/ h = pins[t][i]
         /\ \A u \in Thread \ {t} : pins'[u] = pins[u]
<1> DEFINE n == Len(pins[t])
<1>1. pins \in [Thread -> Seq(PinnedPage)] /\ pins[t] \in Seq(PinnedPage)
  BY DEF TypeOK
<1>2. pins'[t] = RemoveAt(pins[t], i) /\ \A u \in Thread \ {t} : pins'[u] = pins[u]
  BY <1>1
<1>3. /\ n \in Nat /\ DOMAIN pins[t] = 1 .. n /\ i \in 1 .. n
      /\ DOMAIN pins'[t] = 1 .. n - 1
      /\ \A j \in 1 .. n - 1 : pins'[t][j] = IF j < i THEN pins[t][j] ELSE pins[t][j + 1]
  BY <1>1, <1>2, LenProperties, RemoveAtProperties
<1> HIDE DEF n
<1>4. ASSUME NEW x \in ToSet(pins'[t]) PROVE x \in ToSet(pins[t])
  <2>1. PICK j \in 1 .. n - 1 : x = pins'[t][j]
    BY <1>3 DEF ToSet
  <2>2. j \in 1 .. n /\ j + 1 \in 1 .. n
    BY <1>3
  <2> QED
    BY <1>3, <2>1, <2>2 DEF ToSet
<1>5. ASSUME NEW x \in ToSet(pins[t]) PROVE x \in ToSet(pins'[t]) \/ x = pins[t][i]
  <2>1. PICK j \in 1 .. n : x = pins[t][j]
    BY <1>3 DEF ToSet
  <2>2. CASE j < i
    <3>1. j \in 1 .. n - 1
      BY <1>3, <2>2
    <3> QED
      BY <1>3, <2>1, <2>2, <3>1 DEF ToSet
  <2>3. CASE j > i
    <3>1. j - 1 \in 1 .. n - 1 /\ ~(j - 1 < i) /\ (j - 1) + 1 = j
      BY <1>3, <2>3
    <3> QED
      BY <1>3, <2>1, <3>1 DEF ToSet
  <2> QED
    BY <1>3, <2>1, <2>2, <2>3
<1>6. \A x : x \in Held' <=> \E u \in Thread : x \in ToSet(pins'[u])
  BY DEF Held
<1>7. \A x : x \in Held <=> \E u \in Thread : x \in ToSet(pins[u])
  BY DEF Held
<1> QED
  BY <1>2, <1>4, <1>5, <1>6, <1>7

LEMMA HeldWrite ==
  ASSUME TypeOK, NEW t \in Thread, NEW i \in DOMAIN pins[t], NEW g,
         pins' = [pins EXCEPT ![t] = [pins[t] EXCEPT ![i] = g]]
  PROVE  /\ g \in Held'
         /\ \A h \in Held' : h \in Held \/ h = g
         /\ \A h \in Held : h \in Held' \/ h = pins[t][i]
         /\ \A u \in Thread \ {t} : pins'[u] = pins[u]
<1>1. pins \in [Thread -> Seq(PinnedPage)]
  BY DEF TypeOK
<1>2. /\ DOMAIN pins'[t] = DOMAIN pins[t] /\ pins'[t][i] = g
      /\ \A j \in DOMAIN pins[t] : j # i => pins'[t][j] = pins[t][j]
      /\ \A u \in Thread \ {t} : pins'[u] = pins[u]
  BY <1>1
<1>3. \A x : x \in Held' <=> \E u \in Thread : \E j \in DOMAIN pins'[u] : x = pins'[u][j]
  BY DEF Held, ToSet
<1>4. \A x : x \in Held <=> \E u \in Thread : \E j \in DOMAIN pins[u] : x = pins[u][j]
  BY DEF Held, ToSet
<1>5. g \in Held'
  BY <1>2, <1>3
<1>6. ASSUME NEW h \in Held' PROVE h \in Held \/ h = g
  <2>0. PICK u \in Thread : \E j \in DOMAIN pins'[u] : h = pins'[u][j]
    BY <1>3
  <2>1. PICK j \in DOMAIN pins'[u] : h = pins'[u][j]
    BY <2>0
  <2> QED
    BY <1>2, <1>4, <2>1
<1>7. ASSUME NEW h \in Held PROVE h \in Held' \/ h = pins[t][i]
  <2>0. PICK u \in Thread : \E j \in DOMAIN pins[u] : h = pins[u][j]
    BY <1>4
  <2>1. PICK j \in DOMAIN pins[u] : h = pins[u][j]
    BY <2>0
  <2> QED
    BY <1>2, <1>3, <2>1
<1> QED
  BY <1>2, <1>5, <1>6, <1>7

-----------------------------------------------------------------------------
Misses(u) == pc[u] \in {"miss", "swap"}

(* A step that only begins a call, goes on in it, or returns from it.      *)
LEMMA CallStep ==
  ASSUME Discipline, PInv, EInv, NEW t \in Thread,
         UNCHANGED <<poolVars, dataVars, loading, pins>>,
         pc[t] \notin {"read", "closed"}, pc'[t] \notin {"read", "closed"},
         \A u \in Thread \ {t} : pc'[u] = pc[u] /\ call'[u] = call[u],
         IsInjective(free_list'),
         \A p \in ToSet(free_list') : p \in ToSet(free_list) /\ p < capacity',
         capacity \in Nat, capacity' \in Nat, capacity <= capacity',
         Misses(t)' =>
           /\ ~Cached(call'[t].page)
           /\ call'[t].read <=> call'[t].page \in live
           /\ call'[t].page \notin ToSet(free_list') /\ call'[t].page < capacity'
           /\ \A u \in Thread \ {t} : Misses(u) \/ pc[u] = "delete"
                                        => call[u].page # call'[t].page,
         pc'[t] \in {"hit", "delete"} => call'[t].page \in live,
         pc'[t] = "delete" =>
           \A u \in Thread \ {t} : Misses(u) => call[u].page # call'[t].page,
         pc'[t] = "unpin" => call'[t].page = pins[t][call'[t].pin].page
  PROVE  EInv'
<1>1. /\ FreeAreUnused /\ MissesStay /\ CallsAreCurrent
      /\ Loads /\ FramesFound /\ PinsHold /\ LatestInFrames /\ WritesAreKept /\ PinsAreCounted
  BY DEF EInv
<1>2. /\ UNCHANGED <<frames, page_table, free_frames, pool_size, mru_pages>>
      /\ UNCHANGED <<live, latest_frames, latest_disk>> /\ UNCHANGED <<loading, pins>>
  BY DEF poolVars, dataVars
<1>3. Held' = Held /\ \A p : Cached(p)' <=> Cached(p)
  BY <1>2 DEF Held, Cached
<1>4. \A u \in Thread \ {t} : Misses(u)' <=> Misses(u)
  BY DEF Misses
<1>5. \A p : Missing(p)' => Missing(p) \/ (Misses(t)' /\ call'[t].page = p)
  BY DEF Missing, Misses
<1>6. FreeAreUnused'
  <2>1. ASSUME NEW p \in Page, p \in live' \/ Cached(p)' \/ Missing(p)'
        PROVE  p \notin ToSet(free_list') /\ p < capacity'
    <3>1. CASE p \in live \/ Cached(p) \/ Missing(p)
      <4>1. p \notin ToSet(free_list) /\ p < capacity
        BY <1>1, <3>1 DEF FreeAreUnused
      <4> QED
        BY <4>1, Ranges
    <3>2. CASE Misses(t)' /\ call'[t].page = p
      BY <3>2
    <3> QED
      BY <1>2, <1>3, <1>5, <2>1, <3>1, <3>2
  <2> QED
    BY <2>1 DEF FreeAreUnused
<1>7. MissesStay'
  <2>1. ASSUME NEW u \in Thread, Misses(u)'
        PROVE  /\ ~Cached(call'[u].page)
               /\ call'[u].read <=> call'[u].page \in live
               /\ \A w \in Thread \ {u} : Misses(w)' => call'[w].page # call'[u].page
    <3>1. CASE u = t
      BY <1>4, <2>1, <3>1
    <3>2. CASE u # t
      <4>1. Misses(u) /\ call'[u] = call[u]
        BY <1>4, <2>1, <3>2
      <4>2. /\ ~Cached(call[u].page)
            /\ call[u].read <=> call[u].page \in live
            /\ \A w \in Thread \ {u} : Misses(w) => call[w].page # call[u].page
        BY <1>1, <4>1 DEF MissesStay, Misses
      <4>3. \A w \in Thread \ {u} : Misses(w)' => call'[w].page # call'[u].page
        BY <1>4, <3>2, <4>1, <4>2
      <4> QED
        BY <4>1, <4>2, <4>3
    <3> QED
      BY <3>1, <3>2
  <2> QED
    BY <1>2, <2>1 DEF MissesStay, Misses, Cached
<1>8. CallsAreCurrent'
  <2>1. ASSUME NEW u \in Thread
        PROVE  /\ pc'[u] \in {"hit", "read", "delete"} => call'[u].page \in live'
               /\ pc'[u] = "delete" => (~Missing(call[u].page))'
               /\ pc'[u] = "unpin" => call'[u].page = pins'[u][call'[u].pin].page
               /\ pc'[u] = "closed" => \A w \in Thread : pc'[w] = "closed"
    <3>1. CASE u = t
      <4>1. pc'[t] = "delete" => (~Missing(call[t].page))'
        BY <1>4 DEF Missing, Misses
      <4> QED
        BY <1>2, <3>1, <4>1
    <3>2. CASE u # t
      <4>1. pc'[u] = pc[u] /\ call'[u] = call[u] /\ pins'[u] = pins[u]
        BY <1>2, <3>2
      <4>2. /\ pc[u] \in {"hit", "read", "delete"} => call[u].page \in live
            /\ pc[u] = "delete" => ~Missing(call[u].page)
            /\ pc[u] = "unpin" => call[u].page = pins[u][call[u].pin].page
            /\ pc[u] # "closed"
        BY <1>1 DEF CallsAreCurrent
      <4>3. pc[u] = "delete" => (~Missing(call[u].page))'
        BY <3>2, <4>1, <4>2 DEF Missing, Misses
      <4> QED
        BY <1>2, <4>1, <4>2, <4>3
    <3> QED
      BY <3>1, <3>2
  <2> QED
    BY <2>1 DEF CallsAreCurrent
<1>9. Loads'
  <2>1. ASSUME NEW f \in Frame, loading'[f] # NoThread
        PROVE  /\ loading'[f] \in Thread /\ pc'[loading'[f]] = "read"
               /\ frames'[f].page_id = call'[loading'[f]].page /\ frames'[f].page_id \in Page
               /\ ~frames'[f].is_dirty /\ f \notin latest_frames'
    <3>1. /\ loading[f] \in Thread /\ pc[loading[f]] = "read"
          /\ frames[f].page_id = call[loading[f]].page /\ frames[f].page_id \in Page
          /\ ~frames[f].is_dirty /\ f \notin latest_frames
      BY <1>1, <1>2, <2>1 DEF Loads
    <3>2. loading[f] # t
      BY <3>1
    <3> QED
      BY <1>2, <3>1, <3>2
  <2>2. ASSUME NEW u \in Thread, pc'[u] = "read" PROVE \E f \in Frame : loading'[f] = u
    <3>1. u # t /\ pc[u] = "read"
      BY <2>2
    <3> QED
      BY <1>1, <1>2, <3>1 DEF Loads
  <2> QED
    BY <2>1, <2>2 DEF Loads
<1>10. FramesFound'
  BY <1>1, <1>2 DEF FramesFound
<1>11. PinsHold'
  BY <1>1, <1>2, <1>3 DEF PinsHold
<1>12. LatestInFrames'
  BY <1>1, <1>2 DEF LatestInFrames
<1>13. WritesAreKept'
  <2>1. \A u \in Thread : pc'[u] # "closed"
    BY <1>1 DEF CallsAreCurrent
  <2>2. \A p : WillBeWritten(p) => WillBeWritten(p)'
    BY <1>2, <1>3, <2>1 DEF WillBeWritten
  <2> QED
    BY <1>1, <1>2, <2>2 DEF WritesAreKept
<1>14. PinsAreCounted'
  <2>1. \A f : PinsOn(f)' = PinsOn(f)
    BY <1>2, PinsOnIs
  <2> QED
    BY <1>1, <1>2, <2>1 DEF PinsAreCounted
<1> QED
  BY <1>6, <1>7, <1>8, <1>9, <1>10, <1>11, <1>12, <1>13, <1>14 DEF EInv

-----------------------------------------------------------------------------
(* A step of a call that leaves every page where it is, then returns.      *)
LEMMA StayStep ==
  ASSUME Discipline, PInv, EInv, NEW t \in Thread,
         UNCHANGED <<page_table, free_frames, pool_size, capacity, free_list>>,
         \A f \in Frame : frames'[f].page_id = frames[f].page_id,
         pc[t] # "closed", pc'[t] = "idle",
         \A u \in Thread \ {t} : pc'[u] = pc[u] /\ call'[u] = call[u] /\ pins'[u] = pins[u],
         live \subseteq live', \A p \in live' : p \in live \/ Cached(p),
         \A f \in Frame :
           /\ loading'[f] = IF loading[f] = t THEN NoThread ELSE loading[f]
           /\ loading[f] # NoThread /\ loading[f] # t
                => frames'[f].is_dirty = frames[f].is_dirty /\ (f \in latest_frames' => f \in latest_frames),
         \A h \in Held' :
           \/ h \in Held
           \/ /\ h.frame \in Frame /\ frames[h.frame].page_id = h.page
              /\ loading'[h.frame] = NoThread /\ (~h.fresh => h.page \in live')
  PROVE  /\ FreeAreUnused' /\ MissesStay' /\ CallsAreCurrent'
         /\ Loads' /\ FramesFound' /\ PinsHold'
         /\ \A u \in Thread : pc'[u] # "closed"
         /\ \A p : Cached(p)' <=> Cached(p)
<1>1. /\ TypeOK /\ FreeAreUnused /\ MissesStay /\ CallsAreCurrent
      /\ Loads /\ FramesFound /\ PinsHold
  BY DEF EInv, PInv
<1>2. \A p : Cached(p)' <=> Cached(p)
  BY DEF Cached
<1>3. \A p : Missing(p)' => Missing(p)
  BY DEF Missing
<1>4. FreeAreUnused'
  <2>1. ASSUME NEW p \in Page, p \in live' \/ Cached(p)' \/ Missing(p)'
        PROVE  p \in live \/ Cached(p) \/ Missing(p)
    BY <1>2, <1>3, <2>1
  <2> QED
    BY <1>1, <2>1 DEF FreeAreUnused
<1>5. MissesStay'
  <2>1. ASSUME NEW u \in Thread, pc'[u] \in {"miss", "swap"}
        PROVE  /\ ~Cached(call'[u].page)
               /\ call'[u].read <=> call'[u].page \in live'
               /\ \A w \in Thread \ {u} : pc'[w] \in {"miss", "swap"} => call'[w].page # call'[u].page
    <3>1. u # t /\ pc[u] \in {"miss", "swap"} /\ call'[u] = call[u]
      BY <2>1
    <3>2. /\ ~Cached(call[u].page)
          /\ call[u].read <=> call[u].page \in live
          /\ \A w \in Thread \ {u} : pc[w] \in {"miss", "swap"} => call[w].page # call[u].page
      BY <1>1, <3>1 DEF MissesStay
    <3>3. call[u].page \in live' <=> call[u].page \in live
      BY <3>2
    <3>4. \A w \in Thread \ {u} : pc'[w] \in {"miss", "swap"} => call'[w].page # call'[u].page
      BY <3>1, <3>2
    <3> QED
      BY <3>1, <3>2, <3>3, <3>4
  <2> QED
    BY <2>1 DEF MissesStay, Cached
<1>6. \A u \in Thread : pc'[u] # "closed"
  BY <1>1 DEF CallsAreCurrent
<1>7. CallsAreCurrent'
  <2>1. ASSUME NEW u \in Thread \ {t}
        PROVE  /\ pc'[u] \in {"hit", "read", "delete"} => call'[u].page \in live'
               /\ pc'[u] = "delete" => (~Missing(call[u].page))'
               /\ pc'[u] = "unpin" => call'[u].page = pins'[u][call'[u].pin].page
    <3>1. /\ pc[u] \in {"hit", "read", "delete"} => call[u].page \in live
          /\ pc[u] = "delete" => ~Missing(call[u].page)
          /\ pc[u] = "unpin" => call[u].page = pins[u][call[u].pin].page
      BY <1>1 DEF CallsAreCurrent
    <3>2. pc'[u] = pc[u] /\ call'[u] = call[u] /\ pins'[u] = pins[u]
      OBVIOUS
    <3>3. pc'[u] = "delete" => (~Missing(call[u].page))'
      BY <3>1, <3>2 DEF Missing
    <3> QED
      BY <3>1, <3>2, <3>3
  <2> QED
    BY <1>6, <2>1 DEF CallsAreCurrent
<1>8. Loads'
  <2>1. ASSUME NEW f \in Frame, loading'[f] # NoThread
        PROVE  /\ loading'[f] \in Thread /\ pc'[loading'[f]] = "read"
               /\ frames'[f].page_id = call'[loading'[f]].page /\ frames'[f].page_id \in Page
               /\ ~frames'[f].is_dirty /\ f \notin latest_frames'
    <3>1. loading[f] # t /\ loading[f] # NoThread /\ loading'[f] = loading[f]
      BY <2>1
    <3>2. /\ loading[f] \in Thread /\ pc[loading[f]] = "read"
          /\ frames[f].page_id = call[loading[f]].page /\ frames[f].page_id \in Page
          /\ ~frames[f].is_dirty /\ f \notin latest_frames
      BY <1>1, <3>1 DEF Loads
    <3> QED
      BY <3>1, <3>2
  <2>2. ASSUME NEW u \in Thread, pc'[u] = "read" PROVE \E f \in Frame : loading'[f] = u
    <3>1. u # t /\ pc[u] = "read"
      BY <2>2
    <3>2. PICK f \in Frame : loading[f] = u
      BY <1>1, <3>1 DEF Loads
    <3> QED
      BY <3>1, <3>2
  <2> QED
    BY <2>1, <2>2 DEF Loads
<1>9. FramesFound'
  BY <1>1 DEF FramesFound
<1>10. PinsHold'
  <2>1. ASSUME NEW h \in Held'
        PROVE  /\ frames'[h.frame].page_id = h.page
               /\ loading'[h.frame] = NoThread
               /\ ~h.fresh => h.page \in live'
    <3>1. CASE h \in Held
      <4>1. /\ h.frame \in Frame /\ frames[h.frame].page_id = h.page
            /\ loading[h.frame] = NoThread /\ (~h.fresh => h.page \in live)
        BY <1>1, <3>1, HeldFacts DEF PinsHold
      <4> QED
        BY <4>1
    <3>2. CASE h \notin Held
      BY <2>1, <3>2
    <3> QED
      BY <3>1, <3>2
  <2> QED
    BY <2>1 DEF PinsHold
<1> QED
  BY <1>2, <1>4, <1>5, <1>6, <1>7, <1>8, <1>9, <1>10

(* The parts of the invariants.                                            *)
LEMMA Parts ==
  ASSUME PInv, EInv
  PROVE  /\ TypeOK /\ TableMatchesFrames /\ CallsCarry /\ DirtyHavePages /\ LatchHeld
         /\ FreeAreUnused /\ MissesStay /\ CallsAreCurrent
         /\ Loads /\ FramesFound /\ PinsHold /\ LatestInFrames /\ WritesAreKept /\ PinsAreCounted
BY DEF PInv, EInv

(* latch_ is free: nobody works under it.                                  *)
LEMMA LatchFreeMeans ==
  ASSUME LatchHeld, LatchFree, NEW u \in Thread
  PROVE  pc[u] \notin {"hit", "swap", "delete"}
BY PoolAssumption DEF LatchHeld, LatchFree

LEMMA NewPageStep ==
  ASSUME Discipline, PInv, EInv, TypeOK', NEW t \in Thread, NewPage(t)
  PROVE  EInv'
<1>1. TypeOK /\ FreeAreUnused /\ CallsAreCurrent
  BY Parts
<1>2. PICK p \in Page : /\ allocate_page(p)
                        /\ call' = [call EXCEPT ![t] = [page |-> p, pin |-> 0, read |-> FALSE]]
  BY DEF NewPage
<1>3. /\ pc[t] = "idle" /\ pc' = [pc EXCEPT ![t] = "miss"]
      /\ UNCHANGED <<poolVars, dataVars, loading, pins>>
  BY DEF NewPage
<1>4. /\ pc'[t] = "miss" /\ call'[t] = [page |-> p, pin |-> 0, read |-> FALSE]
      /\ \A u \in Thread \ {t} : pc'[u] = pc[u] /\ call'[u] = call[u]
  BY <1>1, <1>2, <1>3 DEF TypeOK
<1>5. /\ IsInjective(free_list') /\ p \notin ToSet(free_list') /\ p < capacity'
      /\ \A q \in ToSet(free_list') : q \in ToSet(free_list) /\ q < capacity'
      /\ capacity \in Nat /\ capacity' \in Nat /\ capacity <= capacity'
      /\ p \in ToSet(free_list) \/ ~(p < capacity)
  <2>0. free_list \in Seq(Page) /\ IsInjective(free_list) /\ capacity \in Nat /\ p \in Nat
        /\ \A q \in ToSet(free_list) : q < capacity /\ q \in Nat
    <3>1. ToSet(free_list) \subseteq Page
      BY <1>1, LenProperties, ElementOfSeq DEF TypeOK, ToSet
    <3> QED
      BY <1>1, <3>1, Ranges DEF TypeOK, FreeAreUnused
  <2>1. CASE free_list # <<>>
    <3>1. p = Last(free_list) /\ free_list' = Front(free_list) /\ capacity' = capacity
      BY <1>2, <2>1 DEF allocate_page, reuse
    <3>2. /\ IsInjective(Front(free_list)) /\ ToSet(Front(free_list)) = ToSet(free_list) \ {p}
          /\ p \in ToSet(free_list)
      BY <2>0, <2>1, <3>1, FrontProperties
    <3> QED
      BY <2>0, <3>1, <3>2
  <2>2. CASE free_list = <<>>
    <3>1. p = capacity /\ capacity' = capacity + 1 /\ free_list' = free_list
      BY <1>2, <2>2 DEF allocate_page, grow
    <3>2. ~(p < capacity)
      BY <2>0, <3>1
    <3> QED
      BY <2>0, <3>1, <3>2
  <2> QED
    BY <2>1, <2>2
<1>6. p \notin live /\ ~Cached(p) /\ ~Missing(p)
  BY <1>1, <1>5 DEF FreeAreUnused
<1>7. \A u \in Thread \ {t} : Misses(u) \/ pc[u] = "delete" => call[u].page # p
  BY <1>1, <1>6 DEF Missing, Misses, CallsAreCurrent
<1> QED
  BY <1>3, <1>4, <1>5, <1>6, <1>7, CallStep

LEMMA FetchStep ==
  ASSUME Discipline, PInv, EInv, TypeOK', NEW t \in Thread, NEW p \in Page, Fetch(t, p)
  PROVE  EInv'
<1>1. TypeOK /\ FreeAreUnused /\ CallsAreCurrent /\ LatchHeld
  BY Parts
<1>2. /\ pc[t] = "idle" /\ p \in live /\ LatchFree /\ ~Missing(p)
      /\ call' = [call EXCEPT ![t] = [page |-> p, pin |-> 0, read |-> TRUE]]
      /\ pc' = [pc EXCEPT ![t] = IF Cached(p) THEN "hit" ELSE "miss"]
      /\ UNCHANGED <<poolVars, allocVars, dataVars, loading, pins>>
  BY DEF Fetch, TakeLatch, Allowed, Discipline
<1>3. /\ pc'[t] = (IF Cached(p) THEN "hit" ELSE "miss")
      /\ call'[t] = [page |-> p, pin |-> 0, read |-> TRUE]
      /\ \A u \in Thread \ {t} : pc'[u] = pc[u] /\ call'[u] = call[u]
  BY <1>1, <1>2 DEF TypeOK
<1>4. UNCHANGED <<capacity, free_list>> /\ capacity \in Nat /\ capacity <= capacity
  BY <1>1, <1>2 DEF allocVars, TypeOK
<1>5. IsInjective(free_list) /\ \A q \in ToSet(free_list) : q < capacity
  BY <1>1 DEF FreeAreUnused
<1>6. p \notin ToSet(free_list) /\ p < capacity
  BY <1>1, <1>2 DEF FreeAreUnused
<1>7. \A u \in Thread \ {t} : Misses(u) \/ pc[u] = "delete" => call[u].page # p
  BY <1>1, <1>2, LatchFreeMeans DEF Missing, Misses
<1>8. pc'[t] \notin {"read", "closed", "delete", "unpin"}
      /\ (pc'[t] \in {"miss", "swap"} => ~Cached(p))
  BY <1>3
<1> QED
  BY <1>2, <1>3, <1>4, <1>5, <1>6, <1>7, <1>8, CallStep DEF Misses

LEMMA DeleteStep ==
  ASSUME Discipline, PInv, EInv, TypeOK', NEW t \in Thread, NEW p \in Page, Delete(t, p)
  PROVE  EInv'
<1>1. TypeOK /\ FreeAreUnused
  BY Parts
<1>2. /\ pc[t] = "idle" /\ p \in live /\ ~Missing(p)
      /\ call' = [call EXCEPT ![t] = [page |-> p, pin |-> 0, read |-> FALSE]]
      /\ pc' = [pc EXCEPT ![t] = "delete"]
      /\ UNCHANGED <<poolVars, allocVars, dataVars, loading, pins>>
  BY DEF Delete, Allowed, Discipline
<1>3. /\ pc'[t] = "delete" /\ call'[t].page = p
      /\ \A u \in Thread \ {t} : pc'[u] = pc[u] /\ call'[u] = call[u]
  BY <1>1, <1>2 DEF TypeOK
<1>4. UNCHANGED <<capacity, free_list>> /\ capacity \in Nat /\ capacity <= capacity
  BY <1>1, <1>2 DEF allocVars, TypeOK
<1>5. IsInjective(free_list) /\ \A q \in ToSet(free_list) : q < capacity
  BY <1>1 DEF FreeAreUnused
<1>6. \A u \in Thread \ {t} : Misses(u) => call[u].page # p
  BY <1>2 DEF Missing, Misses
<1> QED
  BY <1>2, <1>3, <1>4, <1>5, <1>6, CallStep DEF Misses

LEMMA UnpinStep ==
  ASSUME Discipline, PInv, EInv, TypeOK', NEW t \in Thread, NEW i \in DOMAIN pins[t], Unpin(t, i)
  PROVE  EInv'
<1>1. TypeOK /\ FreeAreUnused /\ FramesFound /\ PinsHold
  BY Parts
<1> DEFINE c == [page |-> frames[pins[t][i].frame].page_id, pin |-> i, read |-> FALSE]
<1>2. /\ pc[t] = "idle"
      /\ call' = [call EXCEPT ![t] = c]
      /\ pc' = [pc EXCEPT ![t] = "unpin"]
      /\ UNCHANGED <<poolVars, allocVars, dataVars, loading, pins>>
  BY DEF Unpin
<1>a. c.page = pins[t][i].page /\ c.pin = i
  BY <1>1, HeldFacts
<1> HIDE DEF c
<1>3. /\ pc'[t] = "unpin" /\ call'[t] = c
      /\ \A u \in Thread \ {t} : pc'[u] = pc[u] /\ call'[u] = call[u]
  BY <1>1, <1>2 DEF TypeOK
<1>4. UNCHANGED <<capacity, free_list>> /\ capacity \in Nat /\ capacity <= capacity
  BY <1>1, <1>2 DEF allocVars, TypeOK
<1>5. IsInjective(free_list) /\ \A q \in ToSet(free_list) : q < capacity
  BY <1>1 DEF FreeAreUnused
<1> QED
  BY <1>a, <1>2, <1>3, <1>4, <1>5, CallStep DEF Misses

LEMMA SwapBeginStep ==
  ASSUME Discipline, PInv, EInv, TypeOK', NEW t \in Thread, SwapBegin(t)
  PROVE  EInv'
<1>1. TypeOK /\ FreeAreUnused /\ MissesStay /\ LatchHeld /\ CallsCarry
  BY Parts
<1>2. /\ pc[t] = "miss" /\ LatchFree /\ call' = call
      /\ pc' = [pc EXCEPT ![t] = "swap"]
      /\ UNCHANGED <<poolVars, allocVars, dataVars, loading, pins>>
  BY DEF SwapBegin, TakeLatch
<1>3. /\ pc'[t] = "swap" /\ call'[t] = call[t]
      /\ \A u \in Thread \ {t} : pc'[u] = pc[u] /\ call'[u] = call[u]
  BY <1>1, <1>2 DEF TypeOK
<1>4. UNCHANGED <<capacity, free_list>> /\ capacity \in Nat /\ capacity <= capacity
  BY <1>1, <1>2 DEF allocVars, TypeOK
<1>5. IsInjective(free_list) /\ \A q \in ToSet(free_list) : q < capacity
  BY <1>1 DEF FreeAreUnused
<1>6. call[t].page \in Page /\ Missing(call[t].page)
  BY <1>1, <1>2 DEF CallsCarry, Missing
<1>7. call[t].page \notin ToSet(free_list) /\ call[t].page < capacity
  BY <1>1, <1>6 DEF FreeAreUnused
<1>8. /\ ~Cached(call[t].page) /\ (call[t].read <=> call[t].page \in live)
      /\ \A u \in Thread \ {t} : Misses(u) => call[u].page # call[t].page
  BY <1>1, <1>2 DEF MissesStay, Misses
<1>9. \A u \in Thread : pc[u] # "delete"
  BY <1>1, <1>2, LatchFreeMeans
<1> QED
  BY <1>2, <1>3, <1>4, <1>5, <1>7, <1>8, <1>9, CallStep DEF Misses

LEMMA RefusedStep ==
  ASSUME Discipline, PInv, EInv, TypeOK', NEW t \in Thread, SwapFails(t) \/ DeleteRefused(t)
  PROVE  EInv'
<1>1. TypeOK /\ FreeAreUnused
  BY Parts
<1>2. /\ pc[t] \in {"swap", "delete"} /\ Return(t)
      /\ UNCHANGED <<poolVars, allocVars, dataVars, loading, pins>>
  BY DEF SwapFails, DeleteRefused
<1>3. /\ pc'[t] = "idle"
      /\ \A u \in Thread \ {t} : pc'[u] = pc[u] /\ call'[u] = call[u]
  BY <1>1, <1>2 DEF TypeOK, Return
<1>4. UNCHANGED <<capacity, free_list>> /\ capacity \in Nat /\ capacity <= capacity
  BY <1>1, <1>2 DEF allocVars, TypeOK
<1>5. IsInjective(free_list) /\ \A q \in ToSet(free_list) : q < capacity
  BY <1>1 DEF FreeAreUnused
<1> QED
  BY <1>2, <1>3, <1>4, <1>5, CallStep DEF Misses

-----------------------------------------------------------------------------
LEMMA CountMore ==
  ASSUME Discipline, TypeOK, TypeOK', NEW t \in Thread,
         NEW f \in Frame, NEW p \in Page, NEW b \in BOOLEAN, Pin(t, f, p, b)
  PROVE  \A g : /\ PinsOn(g) \in Nat /\ PinsOn(g)' \in Nat /\ PinsOn(g)' < kPIN_MODULUS
                /\ PinsOn(g)' = PinsOn(g) + (IF g = f THEN 1 ELSE 0)
<1> DEFINE h == [frame |-> f, page |-> p, wrote |-> FALSE, fresh |-> b]
<1>1. h \in PinnedPage /\ h.frame = f
  BY DEF PinnedPage
<1>2. pins' = [pins EXCEPT ![t] = Append(pins[t], h)]
  BY DEF Pin
<1>3. pins \in PinTable /\ pins' \in PinTable
  BY DEF TypeOK, PinTable
<1> HIDE DEF h
<1> TAKE g
<1>4. Cardinality(SpotsIn(pins', g)) =
        Cardinality(SpotsIn(pins, g)) + (IF h.frame = g THEN 1 ELSE 0)
  <2>1. PICK P \in PinTable, Q \in PinTable : P = pins /\ Q = pins'
    BY <1>3
  <2>2. Q[t] = Append(P[t], h) /\ \A u \in Thread : u # t => Q[u] = P[u]
    BY <1>2, <2>1 DEF PinTable
  <2>3. Cardinality(SpotsIn(Q, g)) = Cardinality(SpotsIn(P, g)) + (IF h.frame = g THEN 1 ELSE 0)
    BY <1>1, <2>2, SpotsMore
  <2> QED
    BY <2>1, <2>3
<1>5. /\ Cardinality(SpotsIn(pins, g)) \in Nat
      /\ Cardinality(SpotsIn(pins', g)) \in Nat /\ Cardinality(SpotsIn(pins', g)) < kPIN_MODULUS
  BY SpotsFinite
<1>6. (IF h.frame = g THEN 1 ELSE 0) = (IF g = f THEN 1 ELSE 0)
  BY <1>1
<1> QED
  BY <1>4, <1>5, <1>6, PinsOnIs

(* A counter that does not run over counts.                                *)
LEMMA CounterCounts ==
  ASSUME NEW n \in Nat
  PROVE  /\ n + 1 < kPIN_MODULUS => Inc(n) = n + 1
         /\ n > 0 /\ n < kPIN_MODULUS => Dec(n) = n - 1
<1>1. kPIN_MODULUS \in Nat \ {0, 1}
  BY PoolAssumption
<1>2. ASSUME n + 1 < kPIN_MODULUS PROVE Inc(n) = n + 1
  <2>1. \A m \in Nat : m < kPIN_MODULUS => m % kPIN_MODULUS = m
    BY <1>1
  <2>2. n + 1 \in Nat
    OBVIOUS
  <2> QED
    BY <1>2, <2>1, <2>2 DEF Inc
<1>3. ASSUME n > 0, n < kPIN_MODULUS PROVE Dec(n) = n - 1
  <2>1. \A m \in Nat : m < kPIN_MODULUS => (m + kPIN_MODULUS) % kPIN_MODULUS = m
    BY <1>1
  <2>2. n - 1 \in Nat /\ n - 1 < kPIN_MODULUS /\ n + kPIN_MODULUS - 1 = (n - 1) + kPIN_MODULUS
    BY <1>1, <1>3
  <2> QED
    BY <2>1, <2>2 DEF Dec
<1> QED
  BY <1>2, <1>3

LEMMA FetchHitStep ==
  ASSUME Discipline, PInv, EInv, TypeOK', NEW t \in Thread, FetchHit(t)
  PROVE  EInv'
<1>0. PICK p, f : p = call[t].page /\ f = page_table[p]
  OBVIOUS
<1>1. /\ TypeOK /\ TableMatchesFrames /\ LatchHeld /\ CallsAreCurrent /\ FramesFound
      /\ PinsHold /\ LatestInFrames /\ WritesAreKept /\ PinsAreCounted
  BY Parts
<1>2. /\ pc[t] = "hit" /\ loading[f] = NoThread
      /\ frames' = [frames EXCEPT ![f].pin_count = Inc(@)]
      /\ Pin(t, f, p, FALSE) /\ Return(t)
      /\ UNCHANGED <<page_table, free_frames, pool_size, allocVars, dataVars, loading>>
  BY <1>0 DEF FetchHit, PageLatchFree
<1>3. Cached(p) /\ p \in Page /\ f \in Frame /\ frames[f].page_id = p /\ p \in live
  BY <1>0, <1>1, <1>2, TableFacts DEF LatchHeld, CallsAreCurrent
<1>4. /\ pc'[t] = "idle"
      /\ \A u \in Thread \ {t} : pc'[u] = pc[u] /\ call'[u] = call[u]
  BY <1>1, <1>2 DEF TypeOK, Return
<1>5. /\ Held' = Held \cup {[frame |-> f, page |-> p, wrote |-> FALSE, fresh |-> FALSE]}
      /\ \A u \in Thread \ {t} : pins'[u] = pins[u]
  BY <1>1, <1>2, HeldMore
<1>6. \A g : /\ PinsOn(g) \in Nat /\ PinsOn(g)' \in Nat /\ PinsOn(g)' < kPIN_MODULUS
             /\ PinsOn(g)' = PinsOn(g) + (IF g = f THEN 1 ELSE 0)
  BY <1>1, <1>2, <1>3, CountMore
<1>7. \A g \in Frame : /\ frames'[g].page_id = frames[g].page_id
                       /\ frames'[g].is_dirty = frames[g].is_dirty
                       /\ frames'[g].pin_count = IF g = f THEN Inc(frames[f].pin_count)
                                                 ELSE frames[g].pin_count
  BY <1>1, <1>2, <1>3 DEF TypeOK
<1>8. UNCHANGED <<capacity, free_list>> /\ UNCHANGED <<live, latest_frames, latest_disk>>
  BY <1>2 DEF allocVars, dataVars
<1>9. \A g \in Frame : loading[g] # t
  <2>1. \A g \in Frame : loading[g] = t => pc[t] = "read"
    BY Parts, PoolAssumption DEF Loads
  <2> QED
    BY <1>2, <2>1
<1>10. \A h \in Held' :
         \/ h \in Held
         \/ /\ h.frame \in Frame /\ frames[h.frame].page_id = h.page
            /\ loading'[h.frame] = NoThread /\ (~h.fresh => h.page \in live')
  BY <1>2, <1>3, <1>5, <1>8
<1>11. /\ FreeAreUnused' /\ MissesStay' /\ CallsAreCurrent'
       /\ Loads' /\ FramesFound' /\ PinsHold'
       /\ \A u \in Thread : pc'[u] # "closed"
       /\ \A q : Cached(q)' <=> Cached(q)
  BY <1>2, <1>4, <1>5, <1>7, <1>8, <1>9, <1>10, StayStep
<1>12. LatestInFrames'
  BY <1>1, <1>2, <1>7, <1>8 DEF LatestInFrames
<1>13. WritesAreKept'
  <2>1. ASSUME NEW q \in live, WillBeWritten(q) PROVE WillBeWritten(q)'
    <3>1. Cached(q) /\ page_table[q] \in Frame
      BY <1>1, <2>1, TableFacts DEF WillBeWritten
    <3>2. frames[page_table[q]].is_dirty \/ \E h \in Held' : h.frame = page_table[q] /\ h.wrote
      BY <1>5, <2>1 DEF WillBeWritten
    <3> QED
      BY <1>2, <1>7, <1>11, <3>1, <3>2 DEF WillBeWritten
  <2> QED
    BY <1>1, <1>8, <2>1 DEF WritesAreKept
<1>14. PinsAreCounted'
  <2>1. ASSUME NEW g \in Frame
        PROVE  frames'[g].pin_count = PinsOn(g)' + (IF loading'[g] = NoThread THEN 0 ELSE 1)
    <3>1. frames[g].pin_count = PinsOn(g) + (IF loading[g] = NoThread THEN 0 ELSE 1)
      BY <1>1 DEF PinsAreCounted
    <3>2. CASE g = f
      <4>1. frames[f].pin_count = PinsOn(f) /\ PinsOn(f)' = PinsOn(f) + 1
            /\ PinsOn(f) \in Nat /\ PinsOn(f) + 1 < kPIN_MODULUS
        BY <1>2, <1>6, <3>1, <3>2
      <4>2. Inc(PinsOn(f)) = PinsOn(f) + 1
        BY <4>1, CounterCounts
      <4> QED
        BY <1>2, <1>7, <3>2, <4>1, <4>2
    <3>3. CASE g # f
      <4>1. PinsOn(g)' = PinsOn(g)
        BY <1>6, <3>3
      <4> QED
        BY <1>2, <1>7, <3>1, <3>3, <4>1
    <3> QED
      BY <3>2, <3>3
  <2> QED
    BY <2>1 DEF PinsAreCounted
<1> QED
  BY <1>11, <1>12, <1>13, <1>14 DEF EInv

LEMMA SwapReadStep ==
  ASSUME Discipline, PInv, EInv, TypeOK', NEW t \in Thread, SwapRead(t)
  PROVE  EInv'
<1>1. /\ TypeOK /\ TableMatchesFrames /\ CallsCarry /\ CallsAreCurrent /\ Loads /\ FramesFound
      /\ PinsHold /\ LatestInFrames /\ WritesAreKept /\ PinsAreCounted
  BY Parts
<1>2. PICK f \in Frame : SwapRead(t)!(f)
  BY DEF SwapRead
<1>0. PICK p : p = call[t].page
  OBVIOUS
<1>3. /\ pc[t] = "read" /\ loading[f] = t
      /\ latest_frames' = IF p \in latest_disk THEN latest_frames \cup {f}
                                               ELSE latest_frames \ {f}
      /\ loading' = [loading EXCEPT ![f] = NoThread]
      /\ Pin(t, f, p, FALSE) /\ Return(t)
      /\ UNCHANGED <<frames, page_table, free_frames, pool_size>>
      /\ UNCHANGED <<capacity, free_list>> /\ UNCHANGED <<live, latest_disk>>
  BY <1>0, <1>2 DEF poolVars, allocVars
<1>4. /\ p \in Page /\ p \in live /\ frames[f].page_id = p /\ page_table[p] = f
      /\ ~frames[f].is_dirty /\ t # NoThread
  BY <1>0, <1>1, <1>3, PoolAssumption DEF CallsCarry, CallsAreCurrent, Loads, FramesFound
<1>5. \A g \in Frame : loading[g] = t => g = f
  BY <1>0, <1>1, <1>3, <1>4 DEF Loads, FramesFound
<1>6. /\ pc'[t] = "idle"
      /\ \A u \in Thread \ {t} : pc'[u] = pc[u] /\ call'[u] = call[u]
  BY <1>1, <1>3 DEF TypeOK, Return
<1>7. /\ Held' = Held \cup {[frame |-> f, page |-> p, wrote |-> FALSE, fresh |-> FALSE]}
      /\ \A u \in Thread \ {t} : pins'[u] = pins[u]
  BY <1>1, <1>3, HeldMore
<1>8. \A g : /\ PinsOn(g) \in Nat /\ PinsOn(g)' \in Nat
             /\ PinsOn(g)' = PinsOn(g) + (IF g = f THEN 1 ELSE 0)
  BY <1>1, <1>3, <1>4, CountMore
<1>9. \A g \in Frame : loading'[g] = IF g = f THEN NoThread ELSE loading[g]
  BY <1>1, <1>3 DEF TypeOK
<1>10. \A h \in Held' :
         \/ h \in Held
         \/ /\ h.frame \in Frame /\ frames[h.frame].page_id = h.page
            /\ loading'[h.frame] = NoThread /\ (~h.fresh => h.page \in live')
  BY <1>3, <1>4, <1>7, <1>9
<1>11. /\ FreeAreUnused' /\ MissesStay' /\ CallsAreCurrent'
       /\ Loads' /\ FramesFound' /\ PinsHold'
       /\ \A u \in Thread : pc'[u] # "closed"
       /\ \A q : Cached(q)' <=> Cached(q)
  <2>1. \A g \in Frame :
          /\ loading'[g] = IF loading[g] = t THEN NoThread ELSE loading[g]
          /\ loading[g] # NoThread /\ loading[g] # t
               => frames'[g].is_dirty = frames[g].is_dirty /\ (g \in latest_frames' => g \in latest_frames)
    BY <1>3, <1>5, <1>9
  <2> QED
    BY <1>3, <1>6, <1>7, <1>10, <2>1, StayStep
<1>12. p \in latest_disk
  <2>1. ASSUME WillBeWritten(p) PROVE FALSE
    <3>1. PICK h \in Held : h.frame = f
      BY <1>4, <2>1 DEF WillBeWritten
    <3>2. loading[f] = NoThread
      BY <1>1, <3>1 DEF PinsHold
    <3> QED
      BY <1>3, <1>4, <3>2
  <2> QED
    BY <1>1, <1>4, <2>1 DEF WritesAreKept
<1>13. LatestInFrames'
  BY <1>1, <1>3, <1>9, <1>12 DEF LatestInFrames
<1>14. WritesAreKept'
  <2>1. ASSUME NEW q, WillBeWritten(q) PROVE WillBeWritten(q)'
    <3>1. frames[page_table[q]].is_dirty \/ \E h \in Held' : h.frame = page_table[q] /\ h.wrote
      BY <1>7, <2>1 DEF WillBeWritten
    <3> QED
      BY <1>3, <1>11, <2>1, <3>1 DEF WillBeWritten
  <2> QED
    BY <1>1, <1>3, <2>1 DEF WritesAreKept
<1>15. PinsAreCounted'
  <2>1. ASSUME NEW g \in Frame
        PROVE  frames'[g].pin_count = PinsOn(g)' + (IF loading'[g] = NoThread THEN 0 ELSE 1)
    <3>1. frames[g].pin_count = PinsOn(g) + (IF loading[g] = NoThread THEN 0 ELSE 1)
      BY <1>1 DEF PinsAreCounted
    <3>2. PinsOn(g)' = PinsOn(g) + (IF g = f THEN 1 ELSE 0) /\ PinsOn(g) \in Nat
      BY <1>8
    <3> QED
      BY <1>3, <1>4, <1>9, <3>1, <3>2
  <2> QED
    BY <2>1 DEF PinsAreCounted
<1> QED
  BY <1>11, <1>13, <1>14, <1>15 DEF EInv

LEMMA UnpinEndStep ==
  ASSUME Discipline, PInv, EInv, TypeOK', NEW t \in Thread, UnpinEnd(t)
  PROVE  EInv'
<1>1. /\ TypeOK /\ TableMatchesFrames /\ CallsCarry /\ CallsAreCurrent /\ Loads /\ FramesFound
      /\ PinsHold /\ LatestInFrames /\ WritesAreKept /\ PinsAreCounted
  BY Parts
<1>0. PICK p, f, i, h : p = call[t].page /\ f = page_table[p] /\ i = call[t].pin /\ h = pins[t][i]
  OBVIOUS
<1>2. /\ pc[t] = "unpin" /\ i \in DOMAIN pins[t] /\ h.page = p
      /\ pins' = [pins EXCEPT ![t] = RemoveAt(pins[t], i)]
      /\ Return(t)
      /\ UNCHANGED <<page_table, free_frames, pool_size, allocVars, dataVars, loading>>
  BY <1>0, <1>1 DEF UnpinEnd, CallsCarry, CallsAreCurrent
<1>3. /\ h \in Held /\ h \in PinnedPage /\ h.frame = f /\ f \in Frame
      /\ Cached(p) /\ p \in Page /\ loading[f] = NoThread
  BY <1>0, <1>1, <1>2, HeldFacts
<1>4. frames' = [frames EXCEPT ![f] = unpin_page(@, h.wrote)]
  BY <1>0, <1>3 DEF UnpinEnd
<1>5. UNCHANGED <<capacity, free_list>> /\ UNCHANGED <<live, latest_frames, latest_disk>>
  BY <1>2 DEF allocVars, dataVars
<1>6. /\ pc'[t] = "idle"
      /\ \A u \in Thread \ {t} : pc'[u] = pc[u] /\ call'[u] = call[u]
  BY <1>1, <1>2 DEF TypeOK, Return
<1>7. /\ Held' \subseteq Held
      /\ \A g \in Held : g \in Held' \/ g = h
      /\ \A u \in Thread \ {t} : pins'[u] = pins[u]
  BY <1>0, <1>1, <1>2, HeldLess
<1>8. \A g \in Frame : /\ frames'[g].page_id = frames[g].page_id
                       /\ frames'[g].is_dirty = IF g = f THEN frames[f].is_dirty \/ h.wrote
                                                ELSE frames[g].is_dirty
                       /\ frames'[g].pin_count = IF g = f THEN Dec(frames[f].pin_count)
                                                 ELSE frames[g].pin_count
  <2>1. frames[f] \in [page_id : Page \cup {NoPage},
                       pin_count : 0 .. kPIN_MODULUS - 1, is_dirty : BOOLEAN]
    BY <1>1, <1>3 DEF TypeOK
  <2>2. /\ unpin_page(frames[f], h.wrote).page_id = frames[f].page_id
        /\ unpin_page(frames[f], h.wrote).is_dirty = (frames[f].is_dirty \/ h.wrote)
        /\ unpin_page(frames[f], h.wrote).pin_count = Dec(frames[f].pin_count)
    BY <2>1 DEF unpin_page, set_dirty
  <2>3. \A g \in Frame : frames'[g] = IF g = f THEN unpin_page(frames[f], h.wrote) ELSE frames[g]
    BY <1>1, <1>3, <1>4 DEF TypeOK
  <2> QED
    BY <2>2, <2>3
<1>9. \A g \in Frame : loading[g] # t
  <2>1. \A g \in Frame : loading[g] = t => pc[t] = "read"
    BY <1>1, PoolAssumption DEF Loads
  <2> QED
    BY <1>2, <2>1
<1>10. /\ FreeAreUnused' /\ MissesStay' /\ CallsAreCurrent'
       /\ Loads' /\ FramesFound' /\ PinsHold'
       /\ \A u \in Thread : pc'[u] # "closed"
       /\ \A q : Cached(q)' <=> Cached(q)
  <2>1. \A g \in Frame :
          /\ loading'[g] = IF loading[g] = t THEN NoThread ELSE loading[g]
          /\ loading[g] # NoThread /\ loading[g] # t
               => frames'[g].is_dirty = frames[g].is_dirty /\ (g \in latest_frames' => g \in latest_frames)
    BY <1>2, <1>3, <1>5, <1>8, <1>9
  <2>2. \A g \in Held' : g \in Held
    BY <1>7
  <2> QED
    BY <1>2, <1>5, <1>6, <1>7, <1>8, <2>1, <2>2, StayStep
<1>11. LatestInFrames'
  BY <1>1, <1>2, <1>5, <1>8 DEF LatestInFrames
<1>12. WritesAreKept'
  <2>1. ASSUME NEW q \in live, WillBeWritten(q) PROVE WillBeWritten(q)'
    <3>1. Cached(q) /\ page_table[q] \in Frame
      BY <1>1, <2>1, TableFacts DEF WillBeWritten
    <3>2. frames'[page_table[q]].is_dirty \/ \E g \in Held' : g.frame = page_table[q] /\ g.wrote
      <4>1. CASE frames[page_table[q]].is_dirty
        BY <1>8, <3>1, <4>1
      <4>2. CASE \E g \in Held : g.frame = page_table[q] /\ g.wrote
        <5>1. PICK g \in Held : g.frame = page_table[q] /\ g.wrote
          BY <4>2
        <5>2. CASE g = h
          BY <1>3, <1>8, <5>1, <5>2
        <5>3. CASE g # h
          BY <1>7, <5>1, <5>3
        <5> QED
          BY <5>2, <5>3
      <4> QED
        BY <2>1, <4>1, <4>2 DEF WillBeWritten
    <3> QED
      BY <1>2, <1>10, <3>1, <3>2 DEF WillBeWritten
  <2> QED
    BY <1>1, <1>5, <2>1 DEF WritesAreKept
<1>13. PinsAreCounted'
  <2>1. ASSUME NEW g
        PROVE  /\ PinsOn(g) \in Nat /\ PinsOn(g)' \in Nat /\ PinsOn(g) < kPIN_MODULUS
               /\ PinsOn(g)' = PinsOn(g) - (IF g = f THEN 1 ELSE 0)
    <3>1. PICK P \in PinTable, Q \in PinTable : P = pins /\ Q = pins'
      BY <1>1 DEF TypeOK, PinTable
    <3>2. Q[t] = RemoveAt(P[t], i) /\ i \in DOMAIN P[t]
          /\ \A u \in Thread : u # t => Q[u] = P[u]
      BY <1>2, <3>1 DEF PinTable
    <3>3. Cardinality(SpotsIn(Q, g)) =
            Cardinality(SpotsIn(P, g)) - (IF P[t][i].frame = g THEN 1 ELSE 0)
      BY <3>2, SpotsLess
    <3>4. /\ Cardinality(SpotsIn(P, g)) \in Nat /\ Cardinality(SpotsIn(P, g)) < kPIN_MODULUS
          /\ Cardinality(SpotsIn(Q, g)) \in Nat
      BY SpotsFinite
    <3>5. P[t][i].frame = f
      BY <1>0, <1>3, <3>1
    <3> QED
      BY <3>1, <3>3, <3>4, <3>5, PinsOnIs
  <2>2. ASSUME NEW g \in Frame
        PROVE  frames'[g].pin_count = PinsOn(g)' + (IF loading'[g] = NoThread THEN 0 ELSE 1)
    <3>1. frames[g].pin_count = PinsOn(g) + (IF loading[g] = NoThread THEN 0 ELSE 1)
      BY <1>1 DEF PinsAreCounted
    <3>2. CASE g = f
      <4>1. /\ PinsOn(g) \in Nat /\ PinsOn(g) > 0 /\ PinsOn(g) < kPIN_MODULUS
            /\ PinsOn(g)' = PinsOn(g) - 1 /\ frames[f].pin_count = PinsOn(g)
        BY <1>3, <2>1, <3>1, <3>2
      <4>2. Dec(PinsOn(g)) = PinsOn(g) - 1
        BY <4>1, CounterCounts
      <4>3. frames'[g].pin_count = PinsOn(g)' /\ loading'[g] = NoThread
        BY <1>2, <1>3, <1>8, <3>2, <4>1, <4>2
      <4> QED
        BY <2>1, <4>3
    <3>3. CASE g # f
      <4>1. PinsOn(g)' = PinsOn(g)
        BY <2>1, <3>3
      <4> QED
        BY <1>2, <1>8, <3>1, <3>3, <4>1
    <3> QED
      BY <3>2, <3>3
  <2> QED
    BY <2>2 DEF PinsAreCounted
<1> QED
  BY <1>10, <1>11, <1>12, <1>13 DEF EInv

LEMMA WriteStep ==
  ASSUME Discipline, PInv, EInv, TypeOK', NEW t \in Thread, NEW i \in DOMAIN pins[t], Write(t, i)
  PROVE  EInv'
<1>1. /\ TypeOK /\ TableMatchesFrames /\ CallsCarry /\ CallsAreCurrent /\ Loads /\ FramesFound
      /\ PinsHold /\ LatestInFrames /\ WritesAreKept /\ PinsAreCounted
  BY Parts
<1>0. PICK h, p, g : /\ h = pins[t][i] /\ p = frames[h.frame].page_id
                     /\ g = [h EXCEPT !.wrote = TRUE, !.fresh = FALSE]
  OBVIOUS
<1>2. /\ pc[t] = "idle" /\ loading[h.frame] = NoThread
      /\ pins' = [pins EXCEPT ![t] = [pins[t] EXCEPT ![i] = g]]
      /\ live' = IF h.fresh THEN live \cup {h.page} ELSE live
      /\ latest_frames' =
           {e \in latest_frames : frames[e].page_id # p}
             \cup (IF h.fresh \/ h.frame \in latest_frames THEN {h.frame} ELSE {})
      /\ latest_disk' = latest_disk \ {p}
      /\ UNCHANGED <<frames, page_table, free_frames, pool_size>>
      /\ UNCHANGED <<capacity, free_list>> /\ UNCHANGED <<loading, pc, call>>
  BY <1>0 DEF Write, PageLatchFree, poolVars, allocVars
<1>3. /\ h \in Held /\ h \in PinnedPage /\ h.frame \in Frame /\ h.page = p /\ p \in Page
      /\ Cached(p) /\ page_table[p] = h.frame
      /\ ~h.fresh => p \in live
  <2>1. h \in Held
    BY <1>0, <1>1, HeldFacts
  <2> QED
    BY <1>0, <1>1, <2>1, HeldFacts DEF PinsHold
<1>4. g.frame = h.frame /\ g.page = p /\ g.wrote /\ ~g.fresh
  BY <1>0, <1>3 DEF PinnedPage
<1>5. /\ g \in Held'
      /\ \A e \in Held' : e \in Held \/ e = g
      /\ \A e \in Held : e \in Held' \/ e = h
      /\ \A u \in Thread \ {t} : pins'[u] = pins[u]
  BY <1>0, <1>1, <1>2, HeldWrite
<1>6. p \in live' /\ \A q : q \in live' <=> q \in live \/ q = p
  BY <1>2, <1>3
<1>7. \A e \in Frame : loading[e] # t
  <2>1. \A e \in Frame : loading[e] = t => pc[t] = "read"
    BY <1>1, PoolAssumption DEF Loads
  <2> QED
    BY <1>2, <2>1
<1>8. /\ FreeAreUnused' /\ MissesStay' /\ CallsAreCurrent'
      /\ Loads' /\ FramesFound' /\ PinsHold'
      /\ \A u \in Thread : pc'[u] # "closed"
      /\ \A q : Cached(q)' <=> Cached(q)
  <2>1. \A e \in Frame :
          /\ loading'[e] = IF loading[e] = t THEN NoThread ELSE loading[e]
          /\ loading[e] # NoThread /\ loading[e] # t
               => frames'[e].is_dirty = frames[e].is_dirty /\ (e \in latest_frames' => e \in latest_frames)
    BY <1>2, <1>7
  <2>2. \A e \in Held' :
         \/ e \in Held
         \/ /\ e.frame \in Frame /\ frames[e.frame].page_id = e.page
            /\ loading'[e.frame] = NoThread /\ (~e.fresh => e.page \in live')
    BY <1>0, <1>2, <1>3, <1>4, <1>5, <1>6
  <2>3. live \subseteq live' /\ \A q \in live' : q \in live \/ Cached(q)
    BY <1>3, <1>6
  <2>4. \A u \in Thread \ {t} : pc'[u] = pc[u] /\ call'[u] = call[u] /\ pins'[u] = pins[u]
    BY <1>2, <1>5
  <2> QED
    BY <1>2, <2>1, <2>2, <2>3, <2>4, StayStep
<1>9. h.frame \in latest_frames'
  <2>1. CASE h.fresh
    BY <1>2, <2>1
  <2>2. CASE ~h.fresh
    BY <1>0, <1>1, <1>2, <1>3, <2>2 DEF LatestInFrames
  <2> QED
    BY <2>1, <2>2
<1>10. LatestInFrames'
  <2>1. ASSUME NEW e \in Frame, frames[e].page_id \in live', loading[e] = NoThread
        PROVE  e \in latest_frames'
    <3>1. CASE frames[e].page_id = p
      BY <1>1, <1>3, <1>9, <3>1 DEF FramesFound
    <3>2. CASE frames[e].page_id # p
      BY <1>1, <1>2, <1>6, <2>1, <3>2 DEF LatestInFrames
    <3> QED
      BY <3>1, <3>2
  <2> QED
    BY <1>2, <2>1 DEF LatestInFrames
<1>11. WritesAreKept'
  <2>1. WillBeWritten(p)'
    BY <1>2, <1>3, <1>4, <1>5, <1>8 DEF WillBeWritten
  <2>2. ASSUME NEW q \in live, q # p, WillBeWritten(q) PROVE WillBeWritten(q)'
    <3>1. Cached(q) /\ frames[page_table[q]].page_id = q
      BY <1>1, <2>2, TableFacts DEF WillBeWritten
    <3>2. page_table[q] # h.frame
      BY <1>0, <2>2, <3>1
    <3>3. frames[page_table[q]].is_dirty \/ \E e \in Held' : e.frame = page_table[q] /\ e.wrote
      BY <1>5, <2>2, <3>2 DEF WillBeWritten
    <3> QED
      BY <1>2, <1>8, <2>2, <3>1, <3>3 DEF WillBeWritten
  <2>3. ASSUME NEW q \in live', q # p PROVE q \in latest_disk' \/ WillBeWritten(q)'
    <3>1. q \in live /\ (q \in latest_disk \/ WillBeWritten(q))
      BY <1>1, <1>6, <2>3 DEF WritesAreKept
    <3> QED
      BY <1>2, <2>2, <2>3, <3>1
  <2> QED
    BY <2>1, <2>3 DEF WritesAreKept
<1>12. PinsAreCounted'
  <2>1. ASSUME NEW u \in Thread
        PROVE  /\ DOMAIN pins'[u] = DOMAIN pins[u]
               /\ \A j \in DOMAIN pins[u] : pins'[u][j].frame = pins[u][j].frame
    BY <1>0, <1>1, <1>2, <1>4 DEF TypeOK
  <2>2. \A e : SpotsIn(pins', e) = SpotsIn(pins, e)
    BY <2>1 DEF SpotsIn
  <2>3. \A e : PinsOn(e)' = PinsOn(e)
    BY <2>2, PinsOnIs
  <2> QED
    BY <1>1, <1>2, <2>3 DEF PinsAreCounted
<1> QED
  BY <1>8, <1>10, <1>11, <1>12 DEF EInv

-----------------------------------------------------------------------------
(* The frame that find_next_frame finds is nobody's, and empty or the      *)
(* victim's.                                                               *)
LEMMA NextFrameFree ==
  ASSUME Discipline, PInv, EInv, NEW f \in find_next_frame
  PROVE  /\ f \in Frame /\ \A h \in Held : h.frame # f
         /\ Cardinality(SpotsIn(pins, f)) = 0
<1>1. /\ TypeOK /\ TableMatchesFrames /\ FramesFound /\ PinsHold /\ PinsAreCounted
  BY Parts
<1>2. f \in Frame
  BY NextFrame
<1>3. ASSUME frames[f].page_id = NoPage PROVE \A h \in Held : h.frame # f
  BY <1>1, <1>3, HeldFacts, Ranges
<1>4. CASE free_frames # <<>>
  <2>0. f = Last(free_frames) /\ free_frames \in Seq(Frame)
    BY <1>1, <1>4, NextFrame DEF TypeOK
  <2>1. f \in ToSet(free_frames)
    BY <1>4, <2>0, FrontProperties
  <2> QED
    BY <1>1, <1>2, <1>3, <2>1, CountZero DEF TableMatchesFrames
<1>5. CASE free_frames = <<>> /\ pool_size < kPOOL_CAPACITY
  <2>1. f = pool_size /\ pool_size \in Nat
    BY <1>1, <1>5, Ranges DEF find_next_frame, TypeOK
  <2>2. f >= pool_size
    BY <2>1
  <2> QED
    BY <1>1, <1>2, <1>3, <2>2, CountZero DEF FramesFound
<1>6. CASE free_frames = <<>> /\ ~(pool_size < kPOOL_CAPACITY)
  <2>1. PICK q \in find_lru : f = page_table[q]
    BY <1>6 DEF find_next_frame
  <2>2. frames[f].pin_count = 0
    BY <2>1 DEF find_lru, Evictable
  <2> QED
    BY <1>1, <1>2, <2>2, CountZero
<1> QED
  BY <1>4, <1>5, <1>6

(* What SwapInstall does to pool_size_ and free_frames_list_.              *)
LEMMA InstallSpace ==
  ASSUME PInv, EInv, TypeOK', NEW t \in Thread, NEW f \in find_next_frame, SwapInstall(t)!(f)
  PROVE  /\ ~(f >= pool_size')
         /\ \A g \in Frame \ {f} :
              /\ g >= pool_size' => g >= pool_size
              /\ g < pool_size' => g < pool_size
              /\ g \in ToSet(free_frames) => g \in ToSet(free_frames')
<1>1. TypeOK /\ TableMatchesFrames
  BY Parts
<1>2. /\ f \in Frame
      /\ free_frames # <<>> => f = Last(free_frames)
      /\ free_frames = <<>> => f < pool_size \/ (f = pool_size /\ pool_size < kPOOL_CAPACITY)
  BY NextFrame DEF PInv
<1>3. /\ pool_size \in Nat /\ pool_size' \in Nat /\ f \in Nat /\ kPOOL_CAPACITY \in Nat
      /\ \A g \in Frame : g \in Nat /\ g < kPOOL_CAPACITY
  BY <1>1, <1>2, Ranges DEF TypeOK
<1>4. CASE free_frames # <<>>
  <2>1. free_frames' = Front(free_frames) /\ pool_size' = pool_size
    BY <1>4
  <2>2. free_frames \in Seq(Frame) /\ IsInjective(free_frames)
    BY <1>1 DEF TypeOK, TableMatchesFrames
  <2>3. f \in ToSet(free_frames) /\ ToSet(free_frames') = ToSet(free_frames) \ {f}
    BY <1>2, <1>4, <2>1, <2>2, FrontProperties
  <2>4. f < pool_size
    BY <1>1, <2>3 DEF TableMatchesFrames
  <2> QED
    BY <1>3, <2>1, <2>3, <2>4
<1>5. CASE free_frames = <<>>
  <2>1. free_frames' = free_frames
    BY <1>5
  <2>2. pool_size' = IF pool_size < kPOOL_CAPACITY THEN pool_size + 1 ELSE pool_size
    BY <1>5
  <2>3. ToSet(free_frames) = {}
    BY <1>5 DEF ToSet
  <2>4. pool_size < kPOOL_CAPACITY => f = pool_size
    BY <1>5 DEF find_next_frame
  <2>5. ~(f >= pool_size')
    BY <1>2, <1>3, <1>5, <2>2
  <2>6. ASSUME NEW g \in Frame \ {f}
        PROVE  /\ g >= pool_size' => g >= pool_size
               /\ g < pool_size' => g < pool_size
               /\ g \in ToSet(free_frames) => g \in ToSet(free_frames')
    <3>1. g \notin ToSet(free_frames)
      BY <2>3
    <3>2. /\ g >= pool_size' => g >= pool_size
          /\ g < pool_size' => g < pool_size
      BY <1>3, <2>2, <2>4
    <3> QED
      BY <3>1, <3>2
  <2> QED
    BY <2>5, <2>6
<1> QED
  BY <1>4, <1>5

LEMMA SwapInstallStep ==
  ASSUME Discipline, PInv, EInv, TypeOK', NEW t \in Thread, SwapInstall(t)
  PROVE  EInv'
<1>1. /\ TypeOK /\ TableMatchesFrames /\ CallsCarry /\ FreeAreUnused /\ MissesStay
      /\ CallsAreCurrent /\ Loads /\ FramesFound
      /\ PinsHold /\ LatestInFrames /\ WritesAreKept /\ PinsAreCounted
  BY Parts
<1>2. PICK f \in find_next_frame : SwapInstall(t)!(f)
  BY DEF SwapInstall
<1>3. f \in Frame /\ \A h \in Held : h.frame # f
      /\ Cardinality(SpotsIn(pins, f)) = 0
  BY NextFrameFree
<1>0. PICK p, old : p = call[t].page /\ old = frames[f].page_id
  OBVIOUS
<1>4. /\ pc[t] = "swap" /\ loading[f] = NoThread /\ p \in Page /\ ~Cached(p)
      /\ call[t].read <=> p \in live
      /\ p \notin ToSet(free_list) /\ p < capacity
      /\ old \in Page => page_table[old] = f
      /\ \A q \in Page : page_table'[q] = IF q = p THEN f
                                         ELSE IF q = old THEN NoFrame ELSE page_table[q]
      /\ frames' = [frames EXCEPT ![f] = FreshFrame(p, 1)]
      /\ latest_disk' = IF frames[f].is_dirty THEN flush_page(old, f) ELSE latest_disk
      /\ latest_frames' = latest_frames \ {f}
      /\ UNCHANGED <<capacity, free_list, live>>
      /\ \A u \in Thread \ {t} : pc'[u] = pc[u] /\ call'[u] = call[u] /\ pins'[u] = pins[u]
      /\ \/ /\ p \in live /\ loading' = [loading EXCEPT ![f] = t]
            /\ pc'[t] = "read" /\ call'[t].page = p /\ UNCHANGED pins
         \/ /\ p \notin live /\ pc'[t] = "idle" /\ UNCHANGED loading
            /\ Pin(t, f, p, TRUE)
  <2>1. pc[t] = "swap" /\ loading[f] = NoThread
    BY <1>2 DEF PageLatchFree
  <2>2. p \in Page /\ ~Cached(p) /\ (call[t].read <=> p \in live) /\ Missing(p)
    BY <1>0, <1>1, <2>1 DEF CallsCarry, MissesStay, Missing
  <2>3. p \notin ToSet(free_list) /\ p < capacity
    BY <1>1, <2>2 DEF FreeAreUnused
  <2>4. old \in Page => page_table[old] = f
    BY <1>0, <1>1, <1>3 DEF FramesFound
  <2>5. /\ \A q \in Page : page_table'[q] = IF q = p THEN f
                                         ELSE IF q = old THEN NoFrame ELSE page_table[q]
        /\ frames' = [frames EXCEPT ![f] = FreshFrame(p, 1)]
        /\ latest_disk' = IF frames[f].is_dirty THEN flush_page(old, f) ELSE latest_disk
        /\ latest_frames' = latest_frames \ {f}
        /\ UNCHANGED <<capacity, free_list, live>>
    BY <1>0, <1>2 DEF allocVars
  <2>6. CASE call[t].read
    <3>1. loading' = [loading EXCEPT ![f] = t] /\ pc' = [pc EXCEPT ![t] = "read"]
          /\ UNCHANGED <<call, pins>>
      BY <1>2, <2>6
    <3>2. pc'[t] = "read" /\ \A u \in Thread \ {t} : pc'[u] = pc[u]
      BY <1>1, <3>1 DEF TypeOK
    <3> QED
      BY <1>0, <2>1, <2>2, <2>3, <2>4, <2>5, <2>6, <3>1, <3>2
  <2>7. CASE ~call[t].read
    <3>1. Pin(t, f, p, TRUE) /\ Return(t) /\ UNCHANGED loading
      BY <1>0, <1>2, <2>7
    <3>2. pc'[t] = "idle" /\ \A u \in Thread \ {t} : pc'[u] = pc[u] /\ call'[u] = call[u]
      BY <1>1, <3>1 DEF TypeOK, Return
    <3>3. \A u \in Thread \ {t} : pins'[u] = pins[u]
      BY <1>1, <3>1, HeldMore
    <3> QED
      BY <2>1, <2>2, <2>3, <2>4, <2>5, <2>7, <3>1, <3>2, <3>3
  <2> QED
    BY <2>6, <2>7
<1>5. \A g \in Frame : IF g = f
        THEN frames'[g].page_id = p /\ frames'[g].pin_count = 1 /\ ~frames'[g].is_dirty
        ELSE frames'[g] = frames[g]
  BY <1>1, <1>3, <1>4 DEF TypeOK, FreshFrame
<1>6. \A q : Cached(q)' <=> q = p \/ (q # old /\ Cached(q))
  BY <1>3, <1>4, Ranges DEF Cached
<1>7. \A q : Missing(q)' => Missing(q) /\ q # p
  <2>1. ASSUME NEW u \in Thread, pc'[u] \in {"miss", "swap"}
        PROVE  u # t /\ pc[u] \in {"miss", "swap"} /\ call'[u] = call[u] /\ call[u].page # p
    <3>1. u # t /\ pc[u] = pc'[u] /\ call'[u] = call[u]
      BY <1>4, <2>1
    <3> QED
      BY <1>0, <1>1, <1>4, <2>1, <3>1 DEF MissesStay
  <2> QED
    BY <2>1 DEF Missing
<1>8. \A g \in Frame \ {f} : loading'[g] = loading[g]
  BY <1>1, <1>4 DEF TypeOK
<1>9. /\ Held \subseteq Held'
      /\ \A h \in Held' : \/ h \in Held
                          \/ h.frame = f /\ h.page = p /\ h.fresh /\ loading'[f] = NoThread
  <2>1. CASE UNCHANGED pins
    BY <2>1 DEF Held
  <2>2. CASE UNCHANGED loading /\ Pin(t, f, p, TRUE)
    <3>1. Held' = Held \cup {[frame |-> f, page |-> p, wrote |-> FALSE, fresh |-> TRUE]}
      BY <1>1, <2>2, HeldMore
    <3> QED
      BY <1>4, <2>2, <3>1
  <2> QED
    BY <1>4, <2>1, <2>2
<1>10. FreeAreUnused'
  <2>1. ASSUME NEW q \in Page, q \in live' \/ Cached(q)' \/ Missing(q)'
        PROVE  q \notin ToSet(free_list) /\ q < capacity
    BY <1>1, <1>4, <1>6, <1>7, <2>1 DEF FreeAreUnused
  <2> QED
    BY <1>1, <1>4, <2>1 DEF FreeAreUnused
<1>11. MissesStay'
  <2>1. ASSUME NEW u \in Thread, pc'[u] \in {"miss", "swap"}
        PROVE  /\ (~Cached(call[u].page))'
               /\ call'[u].read <=> call'[u].page \in live'
               /\ \A w \in Thread \ {u} : pc'[w] \in {"miss", "swap"} => call'[w].page # call'[u].page
    <3>1. u # t /\ pc[u] = pc'[u] /\ call'[u] = call[u]
      BY <1>4, <2>1
    <3>2. /\ ~Cached(call[u].page)
          /\ call[u].read <=> call[u].page \in live
          /\ \A w \in Thread \ {u} : pc[w] \in {"miss", "swap"} => call[w].page # call[u].page
      BY <1>1, <2>1, <3>1 DEF MissesStay
    <3>3. call[u].page # p
      BY <1>0, <1>4, <3>1, <3>2
    <3>4. (~Cached(call[u].page))'
      <4>1. PICK q : q = call[u].page
        OBVIOUS
      <4>2. ~(Cached(q)')
        BY <1>6, <3>2, <3>3, <4>1
      <4> QED
        BY <3>1, <4>1, <4>2 DEF Cached
    <3>5. \A w \in Thread \ {u} : pc'[w] \in {"miss", "swap"} => call'[w].page # call'[u].page
      BY <1>4, <3>1, <3>2
    <3> QED
      BY <1>4, <3>1, <3>2, <3>4, <3>5
  <2> QED
    BY <2>1 DEF MissesStay
<1>12. CallsAreCurrent'
  <2>1. ASSUME NEW u \in Thread
        PROVE  /\ pc'[u] \in {"hit", "read", "delete"} => call'[u].page \in live'
               /\ pc'[u] = "delete" => (~Missing(call[u].page))'
               /\ pc'[u] = "unpin" => call'[u].page = pins'[u][call'[u].pin].page
               /\ pc'[u] # "closed"
    <3>1. CASE u = t
      BY <1>4, <3>1
    <3>2. CASE u # t
      <4>1. /\ pc[u] \in {"hit", "read", "delete"} => call[u].page \in live
            /\ pc[u] = "delete" => ~Missing(call[u].page)
            /\ pc[u] = "unpin" => call[u].page = pins[u][call[u].pin].page
            /\ pc[u] # "closed"
        BY <1>1, <1>4 DEF CallsAreCurrent
      <4>2. pc'[u] = pc[u] /\ call'[u] = call[u] /\ pins'[u] = pins[u]
        BY <1>4, <3>2
      <4>3. pc[u] = "delete" => (~Missing(call[u].page))'
        <5>1. PICK q : q = call[u].page
          OBVIOUS
        <5>2. pc[u] = "delete" => ~(Missing(q)')
          BY <1>7, <4>1, <5>1
        <5> QED
          BY <4>2, <5>1, <5>2 DEF Missing
      <4> QED
        BY <1>4, <4>1, <4>2, <4>3
    <3> QED
      BY <3>1, <3>2
  <2> QED
    BY <2>1 DEF CallsAreCurrent
<1>13. Loads'
  <2>1. ASSUME NEW g \in Frame, loading'[g] # NoThread
        PROVE  /\ loading'[g] \in Thread /\ pc'[loading'[g]] = "read"
               /\ frames'[g].page_id = call'[loading'[g]].page /\ frames'[g].page_id \in Page
               /\ ~frames'[g].is_dirty /\ g \notin latest_frames'
    <3>1. CASE g = f
      <4>0. loading' = [loading EXCEPT ![f] = t] /\ pc'[t] = "read" /\ call'[t].page = p
        BY <1>4, <2>1, <3>1
      <4>1. loading'[f] = t
        BY <1>1, <1>3, <4>0 DEF TypeOK
      <4> QED
        BY <1>4, <1>5, <3>1, <4>0, <4>1
    <3>2. CASE g # f
      <4>1. loading'[g] = loading[g] /\ frames'[g] = frames[g]
        BY <1>5, <1>8, <3>2
      <4>2. /\ loading[g] \in Thread /\ pc[loading[g]] = "read"
            /\ frames[g].page_id = call[loading[g]].page /\ frames[g].page_id \in Page
            /\ ~frames[g].is_dirty /\ g \notin latest_frames
        BY <1>1, <2>1, <4>1 DEF Loads
      <4>3. loading[g] # t
        BY <1>4, <4>2
      <4> QED
        BY <1>4, <4>1, <4>2, <4>3
    <3> QED
      BY <3>1, <3>2
  <2>2. ASSUME NEW u \in Thread, pc'[u] = "read" PROVE \E g \in Frame : loading'[g] = u
    <3>1. CASE u = t
      BY <1>1, <1>3, <1>4, <2>2, <3>1 DEF TypeOK
    <3>2. CASE u # t
      <4>1. PICK g \in Frame : loading[g] = u
        BY <1>1, <1>4, <2>2, <3>2 DEF Loads
      <4>2. g # f
        BY <1>4, <4>1, PoolAssumption
      <4> QED
        BY <1>8, <4>1, <4>2
    <3> QED
      BY <3>1, <3>2
  <2> QED
    BY <2>1, <2>2 DEF Loads
<1>14. FramesFound'
  <2>1. ASSUME NEW g \in Frame
        PROVE  /\ frames'[g].page_id \in Page => page_table'[frames'[g].page_id] = g
               /\ g >= pool_size' => frames'[g].page_id = NoPage
               /\ g < pool_size' /\ frames'[g].page_id = NoPage => g \in ToSet(free_frames')
    <3>1. CASE g = f
      <4>1. frames'[g].page_id = p /\ page_table'[p] = f /\ p # NoPage
        BY <1>4, <1>5, <3>1, Ranges
      <4>2. ~(g >= pool_size')
        BY <1>1, <1>2, <3>1, InstallSpace
      <4> QED
        BY <3>1, <4>1, <4>2
    <3>2. CASE g # f
      <4>1. /\ frames[g].page_id \in Page => page_table[frames[g].page_id] = g
            /\ g >= pool_size => frames[g].page_id = NoPage
            /\ g < pool_size /\ frames[g].page_id = NoPage => g \in ToSet(free_frames)
            /\ frames'[g] = frames[g]
        BY <1>1, <1>5, <3>2 DEF FramesFound
      <4>2. frames[g].page_id \in Page => frames[g].page_id # p /\ frames[g].page_id # old
        BY <1>4, <3>2, <4>1, Ranges DEF Cached
      <4>3. /\ g >= pool_size' => g >= pool_size
            /\ g < pool_size' => g < pool_size
            /\ g \in ToSet(free_frames) => g \in ToSet(free_frames')
        BY <1>1, <1>2, <3>2, InstallSpace
      <4> QED
        BY <1>4, <4>1, <4>2, <4>3
    <3> QED
      BY <3>1, <3>2
  <2> QED
    BY <2>1 DEF FramesFound
<1>15. PinsHold'
  <2>1. ASSUME NEW h \in Held'
        PROVE  /\ frames'[h.frame].page_id = h.page
               /\ loading'[h.frame] = NoThread
               /\ ~h.fresh => h.page \in live'
    <3>1. CASE h \in Held
      <4>1. /\ h.frame \in Frame \ {f} /\ frames[h.frame].page_id = h.page
            /\ loading[h.frame] = NoThread /\ (~h.fresh => h.page \in live)
        BY <1>1, <1>3, <3>1, HeldFacts DEF PinsHold
      <4> QED
        BY <1>4, <1>5, <1>8, <4>1
    <3>2. CASE h \notin Held
      BY <1>3, <1>5, <1>9, <2>1, <3>2
    <3> QED
      BY <3>1, <3>2
  <2> QED
    BY <2>1 DEF PinsHold
<1>16. LatestInFrames'
  <2>1. ASSUME NEW g \in Frame, frames'[g].page_id \in live', loading'[g] = NoThread
        PROVE  g \in latest_frames'
    <3>1. g # f
      <4>1. ASSUME g = f PROVE FALSE
        <5>1. p \in live
          BY <1>4, <1>5, <2>1, <4>1
        <5>0. loading' = [loading EXCEPT ![f] = t]
          BY <1>4, <5>1
        <5>2. loading'[f] = t
          BY <1>1, <1>3, <5>0 DEF TypeOK
        <5> QED
          BY <2>1, <4>1, <5>2, PoolAssumption
      <4> QED
        BY <4>1
    <3> QED
      BY <1>1, <1>4, <1>5, <1>8, <2>1, <3>1 DEF LatestInFrames
  <2> QED
    BY <2>1 DEF LatestInFrames
<1>17. WritesAreKept'
  <2>1. ASSUME NEW q \in live, q \in latest_disk PROVE q \in latest_disk'
    BY <1>1, <1>0, <1>3, <1>4, <2>1 DEF LatestInFrames, flush_page
  <2>2. ASSUME NEW q \in live, WillBeWritten(q), q = old PROVE q \in latest_disk'
    <3>1. q \in Page /\ page_table[q] = f
      BY <1>1, <1>4, <2>2 DEF TypeOK
    <3>2. frames[f].is_dirty
      BY <1>3, <2>2, <3>1 DEF WillBeWritten
    <3>3. f \in latest_frames
      BY <1>0, <1>1, <1>3, <1>4, <2>2 DEF LatestInFrames
    <3> QED
      BY <1>4, <2>2, <3>2, <3>3 DEF flush_page
  <2>3. ASSUME NEW q \in live, WillBeWritten(q), q # old PROVE WillBeWritten(q)'
    <3>1. /\ Cached(q) /\ q \in Page /\ page_table[q] \in Frame
          /\ frames[page_table[q]].page_id = q
      BY <1>1, <2>3, TableFacts DEF WillBeWritten
    <3>2. q # p /\ page_table[q] # f /\ page_table'[q] = page_table[q]
      BY <1>0, <1>4, <2>3, <3>1
    <3>3. frames'[page_table[q]] = frames[page_table[q]]
      BY <1>5, <3>1, <3>2
    <3>4. \A u \in Thread : pc'[u] # "closed"
      BY <1>1, <1>4 DEF CallsAreCurrent
    <3>5. frames[page_table[q]].is_dirty \/ \E h \in Held' : h.frame = page_table[q] /\ h.wrote
      BY <1>9, <2>3 DEF WillBeWritten
    <3>6. Cached(q)'
      BY <1>6, <2>3, <3>1
    <3> QED
      BY <3>2, <3>3, <3>4, <3>5, <3>6 DEF WillBeWritten
  <2>4. ASSUME NEW q \in live PROVE q \in latest_disk' \/ WillBeWritten(q)'
    BY <1>1, <2>1, <2>2, <2>3 DEF WritesAreKept
  <2> QED
    BY <1>4, <2>4 DEF WritesAreKept
<1>18. PinsAreCounted'
  <2>1. ASSUME NEW g \in Frame
        PROVE  frames'[g].pin_count = PinsOn(g)' + (IF loading'[g] = NoThread THEN 0 ELSE 1)
    <3>1. frames[g].pin_count = PinsOn(g) + (IF loading[g] = NoThread THEN 0 ELSE 1)
      BY <1>1 DEF PinsAreCounted
    <3>2. g = f => PinsOn(g) = 0
      <4>1. ASSUME g \in find_next_frame PROVE PinsOn(g) = 0
        BY <4>1, NextFrameFree, PinsOnIs
      <4> QED
        BY <4>1
    <3>3. CASE p \in live
      <4>1. loading' = [loading EXCEPT ![f] = t] /\ UNCHANGED pins
        BY <1>4, <3>3
      <4>2. PinsOn(g)' = PinsOn(g)
        BY <4>1, PinsOnIs
      <4>3. loading'[g] = IF g = f THEN t ELSE loading[g]
        BY <1>1, <4>1 DEF TypeOK
      <4> QED
        BY <1>5, <3>1, <3>2, <4>2, <4>3, PoolAssumption
    <3>4. CASE p \notin live
      <4>1. UNCHANGED loading /\ Pin(t, f, p, TRUE)
        BY <1>4, <3>4
      <4>2. PinsOn(g)' = PinsOn(g) + (IF g = f THEN 1 ELSE 0) /\ PinsOn(g) \in Nat
        BY <1>1, <1>3, <1>4, <4>1, CountMore
      <4> QED
        BY <1>4, <1>5, <3>1, <3>2, <4>1, <4>2
    <3> QED
      BY <3>3, <3>4
  <2> QED
    BY <2>1 DEF PinsAreCounted
<1> QED
  BY <1>10, <1>11, <1>12, <1>13, <1>14, <1>15, <1>16, <1>17, <1>18 DEF EInv

LEMMA DeleteEndStep ==
  ASSUME Discipline, PInv, EInv, TypeOK', NEW t \in Thread, DeleteEnd(t)
  PROVE  EInv'
<1>1. /\ TypeOK /\ TableMatchesFrames /\ CallsCarry /\ LatchHeld /\ FreeAreUnused /\ MissesStay
      /\ CallsAreCurrent /\ Loads /\ FramesFound
      /\ PinsHold /\ LatestInFrames /\ WritesAreKept /\ PinsAreCounted
  BY Parts
<1>0. PICK p, f : p = call[t].page /\ f = page_table[p]
  OBVIOUS
<1>2. /\ pc[t] = "delete" /\ Return(t) /\ live' = live \ {p} /\ deallocate(p)
      /\ UNCHANGED <<pool_size, latest_disk, loading, pins>>
      /\ p \in live /\ p \in Page /\ ~Missing(p)
  BY <1>0, <1>1 DEF DeleteEnd, CallsAreCurrent, CallsCarry
<1>3. /\ pc'[t] = "idle" /\ Held' = Held
      /\ \A u \in Thread \ {t} : pc'[u] = pc[u] /\ call'[u] = call[u]
  BY <1>1, <1>2 DEF TypeOK, Return, Held
(* Nobody has the page pinned, nobody reads it.                            *)
<1>4. /\ FramesFound' /\ PinsHold' /\ LatestInFrames'
      /\ \A g \in Frame :
           /\ loading[g] # NoThread
                => frames'[g] = frames[g] /\ (g \in latest_frames' => g \in latest_frames)
           /\ frames'[g].pin_count = frames[g].pin_count
      /\ \A q \in live : q # p /\ Cached(q) =>
           /\ Cached(q)' /\ page_table'[q] = page_table[q]
           /\ frames'[page_table[q]] = frames[page_table[q]]
      /\ \A q : Cached(q)' => Cached(q) /\ q # p
  <2>1. CASE Cached(p)
    <3>1. f \in Frame /\ frames[f].page_id = p /\ f < pool_size
      BY <1>0, <1>1, <2>1, TableFacts
    <3>2. /\ loading[f] = NoThread /\ frames[f].pin_count = 0
          /\ page_table' = [page_table EXCEPT ![p] = NoFrame]
          /\ frames' = [frames EXCEPT ![f] = FreshFrame(NoPage, 0)]
          /\ free_frames' = Append(free_frames, f)
          /\ latest_frames' = latest_frames \ {f}
      BY <1>0, <2>1 DEF DeleteEnd, PageLatchFree, Freed
    <3>3. \A h \in Held : h.frame # f /\ h.page # p
      BY <1>0, <1>1, <3>1, <3>2, CountZero, HeldFacts
    <3>4. /\ \A g \in Frame \ {f} : frames'[g] = frames[g] /\ frames[g].page_id # p
          /\ \A g \in ToSet(free_frames) \cup {f} : g \in ToSet(free_frames')
          /\ frames'[f] = FreshFrame(NoPage, 0)
      <4>1. free_frames \in Seq(Frame) /\ IsInjective(free_frames) /\ f \notin ToSet(free_frames)
        BY <1>1, <1>2, <3>1, Ranges DEF TypeOK, TableMatchesFrames
      <4>2. ToSet(free_frames') = ToSet(free_frames) \cup {f}
        BY <3>1, <3>2, <4>1, AppendedProperties
      <4>3. \A g \in Frame : frames'[g] = IF g = f THEN FreshFrame(NoPage, 0) ELSE frames[g]
        BY <1>1, <3>1, <3>2 DEF TypeOK
      <4>4. \A g \in Frame \ {f} : frames[g].page_id # p
        BY <1>0, <1>1, <1>2 DEF FramesFound
      <4> QED
        BY <3>1, <4>2, <4>3, <4>4
    <3>5. \A q \in Page : page_table'[q] = IF q = p THEN NoFrame ELSE page_table[q]
      BY <1>1, <3>2 DEF TypeOK
    <3>6. FramesFound'
      <4>1. ASSUME NEW g \in Frame
            PROVE  /\ frames'[g].page_id \in Page => page_table'[frames'[g].page_id] = g
                   /\ g >= pool_size' => frames'[g].page_id = NoPage
                   /\ g < pool_size' /\ frames'[g].page_id = NoPage => g \in ToSet(free_frames')
        <5>1. CASE g = f
          BY <3>4, <5>1, Ranges DEF FreshFrame
        <5>2. CASE g # f
          <6>1. /\ frames[g].page_id \in Page => page_table[frames[g].page_id] = g
                /\ g >= pool_size => frames[g].page_id = NoPage
                /\ g < pool_size /\ frames[g].page_id = NoPage => g \in ToSet(free_frames)
            BY <1>1 DEF FramesFound
          <6>2. /\ frames'[g] = frames[g] /\ frames[g].page_id # p
                /\ g \in ToSet(free_frames) => g \in ToSet(free_frames')
            BY <3>4, <5>2
          <6> QED
            BY <1>2, <3>5, <6>1, <6>2
        <5> QED
          BY <5>1, <5>2
      <4> QED
        BY <4>1 DEF FramesFound
    <3>7. PinsHold'
      <4>1. ASSUME NEW h \in Held
            PROVE  /\ frames'[h.frame].page_id = h.page
                   /\ loading'[h.frame] = NoThread
                   /\ ~h.fresh => h.page \in live'
        <5>1. /\ h.frame \in Frame \ {f} /\ frames[h.frame].page_id = h.page /\ h.page # p
              /\ loading[h.frame] = NoThread /\ (~h.fresh => h.page \in live)
          BY <1>1, <3>3, HeldFacts DEF PinsHold
        <5> QED
          BY <1>2, <3>4, <5>1
      <4> QED
        BY <1>3, <4>1 DEF PinsHold
    <3>8. LatestInFrames'
      <4>1. ASSUME NEW g \in Frame, frames'[g].page_id \in live', loading'[g] = NoThread
            PROVE  g \in latest_frames'
        <5>1. g # f
          BY <1>1, <1>2, <3>4, <4>1, TableFacts DEF FreshFrame
        <5> QED
          BY <1>1, <1>2, <3>2, <3>4, <4>1, <5>1 DEF LatestInFrames
      <4> QED
        BY <4>1 DEF LatestInFrames
    <3>9. ASSUME NEW g \in Frame, loading[g] # NoThread
          PROVE  frames'[g] = frames[g] /\ (g \in latest_frames' => g \in latest_frames)
      BY <3>2, <3>4, <3>9
    <3>10. ASSUME NEW q \in live, q # p, Cached(q)
           PROVE  /\ Cached(q)' /\ page_table'[q] = page_table[q]
                  /\ frames'[page_table[q]] = frames[page_table[q]]
      <4>1. q \in Page /\ page_table[q] \in Frame /\ frames[page_table[q]].page_id = q
        BY <1>1, <3>10, TableFacts
      <4>2. page_table[q] # f
        BY <3>1, <3>10, <4>1
      <4> QED
        BY <3>4, <3>5, <3>10, <4>1, <4>2 DEF Cached
    <3>11. \A q : Cached(q)' => Cached(q) /\ q # p
      BY <3>5 DEF Cached
    <3>12. \A g \in Frame : frames'[g].pin_count = frames[g].pin_count
      BY <3>2, <3>4 DEF FreshFrame
    <3> QED
      BY <3>6, <3>7, <3>8, <3>9, <3>10, <3>11, <3>12
  <2>2. CASE ~Cached(p)
    <3>1. UNCHANGED <<page_table, frames, free_frames, latest_frames>>
      BY <1>0, <2>2 DEF DeleteEnd
    <3>2. \A q : Cached(q)' <=> Cached(q)
      BY <3>1 DEF Cached
    <3>3. FramesFound' /\ LatestInFrames'
      BY <1>1, <1>2, <3>1 DEF FramesFound, LatestInFrames
    <3>4. PinsHold'
      <4>1. \A h \in Held : h.page # p
        BY <1>1, <2>2, HeldFacts
      <4> QED
        BY <1>1, <1>2, <1>3, <3>1, <4>1 DEF PinsHold
    <3> QED
      BY <2>2, <3>1, <3>2, <3>3, <3>4
  <2> QED
    BY <2>1, <2>2
<1>5. /\ IsInjective(free_list') /\ capacity' = capacity
      /\ \A q \in ToSet(free_list') : q \in ToSet(free_list) \/ (q = p /\ p < capacity)
  <2>1. free_list \in Seq(Page) /\ IsInjective(free_list)
        /\ p \notin ToSet(free_list) /\ p < capacity
    BY <1>1, <1>2 DEF TypeOK, FreeAreUnused
  <2>2. /\ IsInjective(Append(free_list, p))
        /\ ToSet(Append(free_list, p)) = ToSet(free_list) \cup {p}
    BY <1>2, <2>1, AppendedProperties
  <2>3. free_list' \in {free_list, Append(free_list, p)} /\ capacity' = capacity
    BY <1>2 DEF deallocate
  <2> QED
    BY <2>1, <2>2, <2>3
<1>6. FreeAreUnused'
  <2>1. \A q : Missing(q)' => Missing(q)
    BY <1>3 DEF Missing
  <2>2. ASSUME NEW q \in Page, q \in live' \/ Cached(q)' \/ Missing(q)'
        PROVE  q \notin ToSet(free_list') /\ q < capacity'
    <3>1. q # p /\ (q \in live \/ Cached(q) \/ Missing(q))
      BY <1>2, <1>4, <2>1, <2>2
    <3> QED
      BY <1>1, <1>5, <3>1 DEF FreeAreUnused
  <2> QED
    BY <1>1, <1>5, <2>2 DEF FreeAreUnused
<1>7. MissesStay'
  <2>1. ASSUME NEW u \in Thread, pc'[u] \in {"miss", "swap"}
        PROVE  /\ (~Cached(call[u].page))'
               /\ call'[u].read <=> call'[u].page \in live'
               /\ \A w \in Thread \ {u} : pc'[w] \in {"miss", "swap"} => call'[w].page # call'[u].page
    <3>1. u # t /\ pc[u] = pc'[u] /\ call'[u] = call[u]
      BY <1>3, <2>1
    <3>2. /\ ~Cached(call[u].page) /\ call[u].page # p
          /\ call[u].read <=> call[u].page \in live
          /\ \A w \in Thread \ {u} : pc[w] \in {"miss", "swap"} => call[w].page # call[u].page
      BY <1>1, <1>2, <2>1, <3>1 DEF MissesStay, Missing
    <3>3. (~Cached(call[u].page))'
      <4>1. PICK q : q = call[u].page
        OBVIOUS
      <4>2. ~(Cached(q)')
        BY <1>4, <3>2, <4>1
      <4> QED
        BY <3>1, <4>1, <4>2 DEF Cached
    <3>4. \A w \in Thread \ {u} : pc'[w] \in {"miss", "swap"} => call'[w].page # call'[u].page
      BY <1>3, <3>1, <3>2
    <3> QED
      BY <1>2, <3>1, <3>2, <3>3, <3>4
  <2> QED
    BY <2>1 DEF MissesStay
<1>8. CallsAreCurrent'
  <2>1. ASSUME NEW u \in Thread
        PROVE  /\ pc'[u] \in {"hit", "read", "delete"} => call'[u].page \in live'
               /\ pc'[u] = "delete" => (~Missing(call[u].page))'
               /\ pc'[u] = "unpin" => call'[u].page = pins'[u][call'[u].pin].page
               /\ pc'[u] # "closed"
    <3>1. CASE u = t
      BY <1>3, <3>1
    <3>2. CASE u # t
      <4>1. /\ pc[u] = "read" => call[u].page \in live
            /\ pc[u] = "unpin" => call[u].page = pins[u][call[u].pin].page
            /\ pc[u] # "closed"
        BY <1>1, <1>2 DEF CallsAreCurrent
      <4>2. pc[u] \notin {"hit", "delete"}
        BY <1>1, <1>2, <3>2 DEF LatchHeld
      <4>3. pc[u] = "read" => call[u].page # p
        <5>1. ASSUME pc[u] = "read", call[u].page = p PROVE FALSE
          <6>1. PICK g \in Frame : loading[g] = u
            BY <1>1, <5>1 DEF Loads
          <6>2. frames[g].page_id = p /\ u # NoThread
            BY <1>1, <5>1, <6>1, PoolAssumption DEF Loads
          <6>3. page_table[p] = g
            BY <1>1, <1>2, <6>2 DEF FramesFound
          <6>4. Cached(p)
            BY <1>2, <6>3, Ranges DEF Cached
          <6> QED
            BY <1>0, <6>1, <6>2, <6>3, <6>4 DEF DeleteEnd, PageLatchFree
        <5> QED
          BY <5>1
      <4>4. pc'[u] = pc[u] /\ call'[u] = call[u] /\ pins'[u] = pins[u]
        BY <1>2, <1>3, <3>2
      <4> QED
        BY <1>2, <4>1, <4>2, <4>3, <4>4
    <3> QED
      BY <3>1, <3>2
  <2> QED
    BY <2>1 DEF CallsAreCurrent
<1>9. Loads'
  <2>1. ASSUME NEW g \in Frame, loading'[g] # NoThread
        PROVE  /\ loading'[g] \in Thread /\ pc'[loading'[g]] = "read"
               /\ frames'[g].page_id = call'[loading'[g]].page /\ frames'[g].page_id \in Page
               /\ ~frames'[g].is_dirty /\ g \notin latest_frames'
    <3>1. /\ loading[g] \in Thread /\ pc[loading[g]] = "read" /\ loading'[g] = loading[g]
          /\ frames[g].page_id = call[loading[g]].page /\ frames[g].page_id \in Page
          /\ ~frames[g].is_dirty /\ g \notin latest_frames
      BY <1>1, <1>2, <2>1 DEF Loads
    <3>2. loading[g] # t
      BY <1>2, <3>1
    <3> QED
      BY <1>3, <1>4, <2>1, <3>1, <3>2
  <2>2. ASSUME NEW u \in Thread, pc'[u] = "read" PROVE \E g \in Frame : loading'[g] = u
    <3>1. u # t /\ pc[u] = "read"
      BY <1>3, <2>2
    <3> QED
      BY <1>1, <1>2, <3>1 DEF Loads
  <2> QED
    BY <2>1, <2>2 DEF Loads
<1>10. WritesAreKept'
  <2>1. ASSUME NEW q \in live, q # p, WillBeWritten(q) PROVE WillBeWritten(q)'
    <3>1. \A u \in Thread : pc'[u] # "closed"
      BY <1>1, <1>2, <1>3 DEF CallsAreCurrent
    <3>2. /\ Cached(q)' /\ page_table'[q] = page_table[q]
          /\ frames'[page_table[q]] = frames[page_table[q]]
      BY <1>4, <2>1 DEF WillBeWritten
    <3> QED
      BY <1>3, <2>1, <3>1, <3>2 DEF WillBeWritten
  <2> QED
    BY <1>1, <1>2, <2>1 DEF WritesAreKept
<1>11. PinsAreCounted'
  <2>1. \A g : PinsOn(g)' = PinsOn(g)
    BY <1>2, PinsOnIs
  <2> QED
    BY <1>1, <1>2, <1>4, <2>1 DEF PinsAreCounted
<1> QED
  BY <1>4, <1>6, <1>7, <1>8, <1>9, <1>10, <1>11 DEF EInv

-----------------------------------------------------------------------------
LEMMA CloseStep ==
  ASSUME Discipline, PInv, EInv, TypeOK', Close
  PROVE  EInv'
<1>1. /\ TypeOK /\ TableMatchesFrames /\ FreeAreUnused /\ MissesStay
      /\ CallsAreCurrent /\ Loads /\ FramesFound
      /\ PinsHold /\ LatestInFrames /\ WritesAreKept /\ PinsAreCounted
  BY Parts
<1>0. PICK dirty : dirty = {f \in 0 .. pool_size - 1 : frames[f].is_dirty}
  OBVIOUS
<1>2. /\ \A t \in Thread : pc[t] = "idle" /\ pins[t] = <<>>
      /\ latest_disk' = (latest_disk \ {frames[f].page_id : f \in dirty \ latest_frames})
                          \cup {frames[f].page_id : f \in dirty \cap latest_frames}
      /\ pc' = [t \in Thread |-> "closed"]
      /\ UNCHANGED <<frames, page_table, free_frames, pool_size, mru_pages>>
      /\ UNCHANGED <<capacity, free_list>>
      /\ UNCHANGED <<live, latest_frames, loading, call, pins>>
  BY <1>0 DEF Close, poolVars, allocVars
<1>3. /\ Held = {} /\ Held' = {}
  <2>1. \A t \in Thread : DOMAIN pins[t] = {}
    BY <1>2
  <2>2. \A h \in Held : FALSE
    <3> TAKE h \in Held
    <3>1. PICK t \in Thread : \E i \in DOMAIN pins[t] : h = pins[t][i]
      BY DEF Held, ToSet
    <3> QED
      BY <2>1, <3>1
  <2>3. Held' = Held
    BY <1>2 DEF Held
  <2> QED
    BY <2>2, <2>3
<1>4. \A f \in Frame : loading[f] = NoThread
  BY <1>1, <1>2 DEF Loads
<1>5. \A t \in Thread : pc'[t] = "closed"
  BY <1>2
<1>6. \A q : (Cached(q)' <=> Cached(q)) /\ ~(Missing(q)')
  BY <1>2, <1>5 DEF Cached, Missing
<1>7. FreeAreUnused'
  <2>1. ASSUME NEW q \in Page, q \in live' \/ Cached(q)' \/ Missing(q)'
        PROVE  q \notin ToSet(free_list') /\ q < capacity'
    BY <1>1, <1>2, <1>6, <2>1 DEF FreeAreUnused
  <2> QED
    BY <1>1, <1>2, <2>1 DEF FreeAreUnused
<1>8. MissesStay' /\ CallsAreCurrent'
  BY <1>5 DEF MissesStay, CallsAreCurrent
<1>9. Loads'
  BY <1>2, <1>4, <1>5 DEF Loads
<1>10. FramesFound' /\ LatestInFrames' /\ PinsHold'
  BY <1>1, <1>2, <1>3 DEF FramesFound, LatestInFrames, PinsHold
<1>11. WritesAreKept'
  <2>1. ASSUME NEW q \in live, q \in latest_disk PROVE q \in latest_disk'
    <3>1. ASSUME NEW f \in dirty \ latest_frames PROVE frames[f].page_id # q
      <4>1. f \in Frame
        BY <1>0, <1>1, Ranges DEF TypeOK, Frame
      <4> QED
        BY <1>1, <1>4, <3>1, <4>1 DEF LatestInFrames
    <3> QED
      BY <1>2, <2>1, <3>1
  <2>2. ASSUME NEW q \in live, WillBeWritten(q) PROVE q \in latest_disk'
    <3>1. /\ Cached(q) /\ page_table[q] \in Frame /\ page_table[q] < pool_size
          /\ frames[page_table[q]].page_id = q /\ frames[page_table[q]].is_dirty
      BY <1>1, <1>3, <2>2, TableFacts DEF WillBeWritten
    <3>2. page_table[q] \in latest_frames
      BY <1>1, <1>4, <3>1 DEF LatestInFrames
    <3>3. page_table[q] \in 0 .. pool_size - 1
      BY <1>1, <3>1, Ranges DEF TypeOK
    <3> QED
      BY <1>0, <1>2, <3>1, <3>2, <3>3
  <2> QED
    BY <1>1, <1>2, <2>1, <2>2 DEF WritesAreKept
<1>12. PinsAreCounted'
  <2>1. \A g : PinsOn(g)' = PinsOn(g)
    BY <1>2, PinsOnIs
  <2> QED
    BY <1>1, <1>2, <2>1 DEF PinsAreCounted
<1> QED
  BY <1>7, <1>8, <1>9, <1>10, <1>11, <1>12 DEF EInv

LEMMA SameStep ==
  ASSUME EInv, UNCHANGED vars
  PROVE  EInv'
<1>1. UNCHANGED <<frames, page_table, free_frames, pool_size, live, latest_frames, latest_disk>>
      /\ UNCHANGED <<capacity, free_list, loading, pc, call, pins>>
  BY DEF vars, poolVars, allocVars, dataVars
<1>2. FreeAreUnused' /\ MissesStay' /\ CallsAreCurrent'
  BY <1>1 DEF EInv, FreeAreUnused, MissesStay, CallsAreCurrent, Cached, Missing
<1>3. Loads' /\ FramesFound' /\ LatestInFrames'
  BY <1>1 DEF EInv, Loads, FramesFound, LatestInFrames
<1>4. PinsHold' /\ WritesAreKept'
  BY <1>1 DEF EInv, PinsHold, WritesAreKept, WillBeWritten, Held, Cached
<1>5. PinsAreCounted'
  <2>1. \A g : PinsOn(g)' = PinsOn(g)
    BY <1>1, PinsOnIs
  <2> QED
    BY <1>1, <2>1 DEF EInv, PinsAreCounted
<1> QED
  BY <1>2, <1>3, <1>4, <1>5 DEF EInv

LEMMA EInvStep ==
  ASSUME Discipline, PInv, EInv, [Next]_vars
  PROVE  EInv'
<1>0. TypeOK'
  BY TypeStep
<1>1. CASE UNCHANGED vars \/ Closed
  BY <1>1, SameStep DEF Closed
<1>2. CASE Close
  BY <1>0, <1>2, CloseStep
<1>3. ASSUME NEW t \in Thread, Client(t) PROVE EInv'
  <2>1. CASE NewPage(t)
    BY <1>0, <2>1, NewPageStep
  <2>2. CASE \E p \in Page : Fetch(t, p) \/ Delete(t, p)
    BY <1>0, <2>2, FetchStep, DeleteStep
  <2>3. CASE \E i \in DOMAIN pins[t] : Write(t, i) \/ Unpin(t, i)
    BY <1>0, <2>3, WriteStep, UnpinStep
  <2> QED
    BY <1>3, <2>1, <2>2, <2>3 DEF Client
<1>4. ASSUME NEW t \in Thread, Proceed(t) PROVE EInv'
  <2>1. ~WriteFails(t) /\ ~ReadFails(t)
    BY DEF Discipline, WriteFails, ReadFails
  <2>2. CASE FetchHit(t)
    BY <1>0, <2>2, FetchHitStep
  <2>3. CASE SwapBegin(t)
    BY <1>0, <2>3, SwapBeginStep
  <2>4. CASE SwapFails(t) \/ DeleteRefused(t)
    BY <1>0, <2>4, RefusedStep
  <2>5. CASE SwapInstall(t)
    BY <1>0, <2>5, SwapInstallStep
  <2>6. CASE SwapRead(t)
    BY <1>0, <2>6, SwapReadStep
  <2>7. CASE UnpinEnd(t)
    BY <1>0, <2>7, UnpinEndStep
  <2>8. CASE DeleteEnd(t)
    BY <1>0, <2>8, DeleteEndStep
  <2> QED
    BY <1>4, <2>1, <2>2, <2>3, <2>4, <2>5, <2>6, <2>7, <2>8 DEF Proceed
<1> QED
  BY <1>1, <1>2, <1>3, <1>4 DEF Next

LEMMA EInvInit ==
  ASSUME Discipline, Init
  PROVE  EInv
<1> USE DEF Init
<1>1. \A p : ~Cached(p) /\ ~Missing(p)
  BY DEF Cached, Missing
<1>2. ToSet(free_list) = {} /\ \A t \in Thread : DOMAIN pins[t] = {}
  BY DEF ToSet
<1>3. Held = {}
  <2>1. \A h \in Held : FALSE
    <3> TAKE h \in Held
    <3>1. PICK t \in Thread : \E i \in DOMAIN pins[t] : h = pins[t][i]
      BY DEF Held, ToSet
    <3> QED
      BY <1>2, <3>1
  <2> QED
    BY <2>1
<1>4. FreeAreUnused /\ MissesStay /\ CallsAreCurrent
  BY <1>1, <1>2 DEF FreeAreUnused, MissesStay, CallsAreCurrent, IsInjective
<1>5. Loads
  BY DEF Loads
<1>6. FramesFound
  BY Ranges DEF FramesFound, FreshFrame
<1>7. PinsHold /\ LatestInFrames /\ WritesAreKept
  BY <1>3, Ranges DEF PinsHold, LatestInFrames, WritesAreKept, FreshFrame
<1>8. PinsAreCounted
  <2>1. ASSUME NEW f \in Frame PROVE PinsOn(f) = 0
    <3>1. SpotsIn(pins, f) = {}
      BY <1>2 DEF SpotsIn
    <3>2. Cardinality(SpotsIn(pins, f)) = 0
      BY <3>1, SpotsFinite
    <3> QED
      BY <3>2, PinsOnIs
  <2> QED
    BY <2>1 DEF PinsAreCounted, FreshFrame
<1> QED
  BY <1>4, <1>5, <1>6, <1>7, <1>8 DEF EInv

(* EInv, with the type and the agreement of the structures, holds in every *)
(* state: a call of the pool finds what it carries from one latch to the   *)
(* next still true, as long as nobody else fetches the page it misses.     *)
THEOREM EInvariance == ASSUME Discipline PROVE Spec => [](PInv /\ EInv)
<1>1. Init => PInv /\ EInv
  BY PInvInit, EInvInit
<1>2. PInv /\ EInv /\ [Next]_vars => (PInv /\ EInv)'
  BY TypeStep, TableStep, CarryStep, DirtyStep, LatchStep, EInvStep DEF PInv
<1> QED
  BY <1>1, <1>2, PTL DEF Spec

(* pin_count_ is the number of PinnedPages around the frame, plus one for  *)
(* the fetch that reads into it: clients that keep off each other's misses *)
(* neither leak a pin nor give one back twice.                             *)
THEOREM PinsCounted == ASSUME Discipline PROVE Spec => []PinsAreCounted
BY EInvariance, PTL DEF EInv

(* The same clients never see a page they have pinned leave its frame, be  *)
(* evicted, deleted or loaded again, and never see stale content.          *)
THEOREM PinnedStays == ASSUME Discipline PROVE Spec => []PinnedIsCurrent
<1>1. ASSUME PInv, EInv PROVE PinnedIsCurrent
  <2>1. TypeOK /\ FramesFound /\ PinsHold /\ LatestInFrames
    BY <1>1, Parts
  <2>2. ASSUME NEW t \in Thread, NEW i \in DOMAIN pins[t]
        PROVE  /\ frames[pins[t][i].frame].page_id = pins[t][i].page
               /\ page_table[pins[t][i].page] = pins[t][i].frame
               /\ ~pins[t][i].fresh => pins[t][i].frame \in latest_frames
    <3>1. PICK h : h = pins[t][i]
      OBVIOUS
    <3>2. /\ h \in Held /\ h.frame \in Frame
          /\ frames[h.frame].page_id = h.page /\ loading[h.frame] = NoThread
          /\ page_table[h.page] = h.frame
      BY <2>1, <3>1, HeldFacts
    <3>3. ~h.fresh => h.frame \in latest_frames
      BY <2>1, <3>2 DEF PinsHold, LatestInFrames
    <3> QED
      BY <3>1, <3>2, <3>3
  <2> QED
    BY <2>2 DEF PinnedIsCurrent
<1> QED
  BY <1>1, EInvariance, PTL

(* What they have written is never lost: it is in the frame until the file *)
(* has it, the frame is written before it is given away, and flush_all     *)
(* leaves nothing behind.                                                  *)
THEOREM WritesSurvive == ASSUME Discipline PROVE Spec => []NoWriteIsLost
<1>1. ASSUME Discipline, PInv, EInv PROVE NoWriteIsLost
  <2>1. /\ TypeOK /\ TableMatchesFrames /\ Loads /\ FramesFound /\ PinsHold
        /\ LatestInFrames /\ WritesAreKept /\ PinsAreCounted
    BY <1>1, Parts
  <2>2. ASSUME NEW p \in live, WillBeWritten(p)
        PROVE  /\ Cached(p) /\ page_table[p] \in latest_frames
               /\ frames[page_table[p]].is_dirty \/ frames[page_table[p]].pin_count > 0
               /\ \A t \in Thread : pc[t] # "closed"
    <3>1. PICK f : f = page_table[p]
      OBVIOUS
    <3>2. Cached(p) /\ f \in Frame /\ frames[f].page_id = p
      BY <2>1, <2>2, <3>1, TableFacts DEF WillBeWritten
    <3>3. loading[f] = NoThread
      BY <2>1, <2>2, <3>1, <3>2 DEF WillBeWritten, Loads, PinsHold
    <3>4. f \in latest_frames
      BY <2>1, <3>2, <3>3 DEF LatestInFrames
    <3>5. frames[f].is_dirty \/ frames[f].pin_count > 0
      <4>1. CASE \E h \in Held : h.frame = f
        <5>1. frames[f].pin_count # 0
          BY <1>1, <2>1, <3>2, <4>1, CountZero
        <5>2. frames[f].pin_count \in 0 .. kPIN_MODULUS - 1 /\ kPIN_MODULUS \in Nat
          BY <2>1, <3>2, PoolAssumption DEF TypeOK
        <5> QED
          BY <5>1, <5>2
      <4> QED
        BY <2>2, <3>1, <4>1 DEF WillBeWritten
    <3> QED
      BY <2>2, <3>1, <3>2, <3>4, <3>5 DEF WillBeWritten
  <2> QED
    BY <2>1, <2>2 DEF NoWriteIsLost, WritesAreKept
<1> QED
  BY <1>1, EInvariance, PTL

(* The pool never shrinks: a frame that was used is on free_frames_list_   *)
(* or found through page_table_.                                           *)
THEOREM FramesStay == ASSUME Discipline PROVE Spec => []NoFrameIsLost
<1>1. ASSUME PInv, EInv PROVE NoFrameIsLost
  <2>1. TypeOK /\ FramesFound
    BY <1>1, Parts
  <2>2. ASSUME NEW f \in 0 .. pool_size - 1
        PROVE  f \in ToSet(free_frames) \/ \E p \in Page : page_table[p] = f
    <3>1. f \in Frame /\ f < pool_size
      BY <2>1, Ranges DEF TypeOK, Frame
    <3>2. frames[f].page_id \in Page \cup {NoPage}
      BY <2>1, <3>1 DEF TypeOK
    <3> QED
      BY <2>1, <3>1, <3>2 DEF FramesFound
  <2> QED
    BY <2>2 DEF NoFrameIsLost
<1> QED
  BY <1>1, EInvariance, PTL

-----------------------------------------------------------------------------
(* A thread outside the pool owns no page through its call, and never      *)
(* gives back a page it has not filled.                                    *)
CallsEnd ==
  \A t \in Thread :
    /\ pc[t] \in {"idle", "closed"} => call[t].page = NoPage
    /\ pc[t] = "unpin" => ~pins[t][call[t].pin].fresh

LEMMA CallsEndStep ==
  ASSUME PInv, CallsEnd, [Next]_vars
  PROVE  CallsEnd'
<1>1. TypeOK
  BY DEF PInv
<1>2. ASSUME NEW t \in Thread,
             \A u \in Thread \ {t} : pc'[u] = pc[u] /\ call'[u] = call[u] /\ pins'[u] = pins[u],
             pc'[t] \in {"idle", "closed"} => call'[t].page = NoPage,
             pc'[t] = "unpin" => ~pins'[t][call'[t].pin].fresh
      PROVE  CallsEnd'
  BY <1>2 DEF CallsEnd
<1>3. CASE UNCHANGED vars \/ Close \/ Closed
  <2>1. UNCHANGED <<call, pins>> /\ \A t \in Thread : (pc'[t] = "closed" /\ pc[t] = "idle") \/ pc'[t] = pc[t]
    BY <1>3 DEF vars, Close, Closed
  <2> QED
    BY <2>1 DEF CallsEnd
<1>4. ASSUME NEW t \in Thread, Return(t),
             \A u \in Thread \ {t} : pins'[u] = pins[u]
      PROVE  CallsEnd'
  <2>1. /\ pc'[t] = "idle" /\ call'[t] = NoCall
        /\ \A u \in Thread \ {t} : pc'[u] = pc[u] /\ call'[u] = call[u]
    BY <1>1, <1>4 DEF TypeOK, Return
  <2> QED
    BY <1>2, <1>4, <2>1 DEF NoCall
<1>5. ASSUME NEW t \in Thread, Client(t) PROVE CallsEnd'
  <2>1. CASE NewPage(t)
    <3>1. pc' = [pc EXCEPT ![t] = "miss"] /\ UNCHANGED pins
          /\ \E c : call' = [call EXCEPT ![t] = c]
      BY <2>1 DEF NewPage
    <3> QED
      BY <1>1, <1>2, <3>1 DEF TypeOK
  <2>2. ASSUME NEW p \in Page, Fetch(t, p) \/ Delete(t, p) PROVE CallsEnd'
    <3>1. /\ pc' \in {[pc EXCEPT ![t] = s] : s \in {"hit", "miss", "delete"}} /\ UNCHANGED pins
          /\ \E c : call' = [call EXCEPT ![t] = c]
      BY <2>2 DEF Fetch, Delete
    <3>2. pc'[t] \in {"hit", "miss", "delete"} /\ \A u \in Thread \ {t} : pc'[u] = pc[u]
      BY <1>1, <3>1 DEF TypeOK
    <3> QED
      BY <1>1, <1>2, <3>1, <3>2 DEF TypeOK
  <2>3. ASSUME NEW i \in DOMAIN pins[t], Write(t, i) PROVE CallsEnd'
    <3>1. UNCHANGED <<pc, call>> /\ pc[t] = "idle" /\ \E s : pins' = [pins EXCEPT ![t] = s]
      BY <2>3 DEF Write
    <3> QED
      BY <1>1, <3>1 DEF TypeOK, CallsEnd
  <2>4. ASSUME NEW i \in DOMAIN pins[t], Unpin(t, i) PROVE CallsEnd'
    <3>1. PICK c : /\ c.pin = i /\ call' = [call EXCEPT ![t] = c]
                   /\ pc' = [pc EXCEPT ![t] = "unpin"] /\ UNCHANGED pins /\ ~pins[t][i].fresh
      BY <2>4 DEF Unpin
    <3> QED
      BY <1>1, <1>2, <3>1 DEF TypeOK
  <2> QED
    BY <1>5, <2>1, <2>2, <2>3, <2>4 DEF Client
<1>6. ASSUME NEW t \in Thread, Proceed(t) PROVE CallsEnd'
  <2>1. CASE SwapBegin(t)
    BY <1>1, <1>2, <2>1 DEF SwapBegin, TypeOK
  <2>2. ASSUME SwapInstall(t), ~Return(t) PROVE CallsEnd'
    <3>1. PICK f \in find_next_frame : SwapInstall(t)!(f)
      BY <2>2 DEF SwapInstall
    <3>2. pc' = [pc EXCEPT ![t] = "read"] /\ UNCHANGED <<call, pins>>
      BY <2>2, <3>1
    <3> QED
      BY <1>1, <1>2, <3>2 DEF TypeOK
  <2>3. ASSUME Return(t), \E s : pins' = [pins EXCEPT ![t] = s] PROVE CallsEnd'
    BY <1>1, <1>4, <2>3 DEF TypeOK
  <2>4. ASSUME Return(t), UNCHANGED pins PROVE CallsEnd'
    BY <1>4, <2>4
  <2>5. CASE FetchHit(t) \/ SwapRead(t) \/ UnpinEnd(t)
    BY <2>3, <2>5 DEF FetchHit, SwapRead, UnpinEnd, Pin
  <2>6. CASE SwapFails(t) \/ WriteFails(t) \/ ReadFails(t) \/ DeleteRefused(t) \/ DeleteEnd(t)
    BY <2>4, <2>6 DEF SwapFails, WriteFails, ReadFails, DeleteRefused, DeleteEnd
  <2>7. CASE SwapInstall(t) /\ Return(t)
    <3>1. PICK f \in find_next_frame : SwapInstall(t)!(f)
      BY <2>7 DEF SwapInstall
    <3>2. \E s : pins' = [pins EXCEPT ![t] = s]
      <4>1. CASE call[t].read
        <5>1. pc' = [pc EXCEPT ![t] = "read"]
          BY <3>1, <4>1
        <5> QED
          BY <1>1, <2>7, <5>1 DEF TypeOK, Return
      <4>2. CASE ~call[t].read
        BY <3>1, <4>2 DEF Pin
      <4> QED
        BY <4>1, <4>2
    <3> QED
      BY <2>3, <2>7, <3>2
  <2> QED
    BY <1>6, <2>1, <2>2, <2>5, <2>6, <2>7 DEF Proceed
<1> QED
  BY <1>3, <1>5, <1>6 DEF Next

(* A set of naturals has a least one.                                      *)
LEMMA LeastNumber ==
  ASSUME NEW T \in SUBSET Nat, T # {}
  PROVE  \E x \in T : \A y \in T : x <= y
<1> DEFINE R == OpToRel(<, Nat)
<1>1. IsWellFoundedOn(R, Nat)
  BY NatLessThanWellFounded
<1>2. \A x, y \in Nat : x < y => <<x, y>> \in R
  BY DEF OpToRel
<1> HIDE DEF R
<1>3. PICK x \in T : \A y \in T : ~ (<<y, x>> \in R)
  BY <1>1, WFMin
<1>4. \A y \in T : ~ (y < x)
  BY <1>2, <1>3
<1> QED
  BY <1>4

(* find_lru finds a page whenever there is one.                            *)
LEMMA VictimFound ==
  ASSUME TypeOK, TableMatchesFrames, NEW p, Evictable(p)
  PROVE  find_lru # {}
<1> DEFINE T == {i \in DOMAIN mru_pages : Evictable(mru_pages[i])}
<1>1. p \in ToSet(mru_pages) /\ DOMAIN mru_pages = 1 .. Len(mru_pages) /\ Len(mru_pages) \in Nat
  BY LenProperties DEF Evictable, Cached, TableMatchesFrames, TypeOK
<1>2. PICK i \in DOMAIN mru_pages : mru_pages[i] = p
  BY <1>1 DEF ToSet
<1>3. T \in SUBSET Nat /\ i \in T
  BY <1>1, <1>2
<1> HIDE DEF T
<1>4. PICK k \in T : \A j \in T : k <= j
  BY <1>3, LeastNumber
<1>5. k \in DOMAIN mru_pages /\ Evictable(mru_pages[k]) /\ k \in Nat
  BY <1>3, <1>4 DEF T
<1>6. \A j \in 1 .. k - 1 : ~Evictable(mru_pages[j])
  <2> SUFFICES ASSUME NEW j \in 1 .. k - 1, Evictable(mru_pages[j]) PROVE FALSE
    OBVIOUS
  <2>1. j \in DOMAIN mru_pages /\ ~(k <= j)
    BY <1>1, <1>5
  <2>2. j \in T
    BY <2>1 DEF T
  <2> QED
    BY <1>4, <2>1, <2>2
<1>7. mru_pages[k] \in find_lru
  BY <1>5, <1>6 DEF find_lru
<1> QED
  BY <1>7

(* swap_page finds no frame only when all of them are pinned.              *)
LEMMA NoFrameFree ==
  ASSUME PInv, EInv, find_next_frame = {}
  PROVE  \A f \in Frame : frames[f].pin_count > 0
<1>1. TypeOK /\ TableMatchesFrames /\ FramesFound
  BY Parts
<1>2. free_frames = <<>> /\ ~(pool_size < kPOOL_CAPACITY) /\ find_lru = {}
  BY DEF find_next_frame
<1>3. ToSet(free_frames) = {}
  BY <1>2 DEF ToSet
<1> TAKE f \in Frame
<1>4. f < pool_size
  BY <1>1, <1>2, Ranges DEF TypeOK
<1>5. frames[f].page_id \in Page /\ frames[f].pin_count \in 0 .. kPIN_MODULUS - 1
  BY <1>1, <1>3, <1>4 DEF TypeOK, FramesFound
<1>6. ~Evictable(frames[f].page_id)
  BY <1>1, <1>2, VictimFound
<1>7. frames[f].pin_count # 0
  BY <1>1, <1>5, <1>6, Ranges DEF FramesFound, Evictable, Cached
<1> QED
  BY <1>5, <1>7, PoolAssumption

(* The pages somebody owns.                                                *)
Owned == live \cup ToSet(free_list) \cup {call[t].page : t \in Thread} \cup {h.page : h \in Held}

LEMMA LostPagesIs ==
  /\ LostPages = (1 .. capacity - 1) \ Owned
  /\ LostPages' = (1 .. capacity' - 1) \ Owned'
BY DEF LostPages, Owned, Held

(* Nothing that is owned is lost unless the pool or the free list is full. *)
LEMMA LostStep ==
  ASSUME Discipline, PInv, EInv, CallsEnd, [Next]_vars,
         ~(\A f \in Frame : frames[f].pin_count > 0), ~(Len(free_list) > kFREE_LIST_LIMIT)
  PROVE  LostPages' \subseteq LostPages
<1>1. /\ TypeOK /\ TableMatchesFrames /\ CallsCarry /\ LatchHeld /\ CallsAreCurrent
      /\ FramesFound /\ PinsHold
  BY Parts
(* The page of a thread's call and its PinnedPages are what a step changes. *)
<1>2. ASSUME NEW t \in Thread,
             \A u \in Thread \ {t} : call'[u] = call[u],
             call[t].page = NoPage \/ call[t].page \in Owned',
             \A h \in Held : h \in Held' \/ h.page \in Owned',
             \A p \in live : p \in Owned',
             \A p \in ToSet(free_list) : p \in Owned',
             capacity' = capacity
      PROVE  LostPages' \subseteq LostPages
  <2>1. NoPage \notin 1 .. capacity - 1
    BY <1>1, Ranges DEF TypeOK, NoPage
  <2>2. \A u \in Thread \ {t} : call[u].page \in Owned'
    BY <1>2 DEF Owned
  <2>3. \A h \in Held : h.page \in Owned'
    BY <1>2 DEF Owned
  <2>4. \A p \in Owned : p \in Owned' \/ p = NoPage
    BY <1>2, <2>2, <2>3 DEF Owned
  <2> QED
    BY <1>2, <2>1, <2>4, LostPagesIs
<1>3. CASE UNCHANGED <<capacity, live, free_list, call, pins>>
  <2>1. Owned' = Owned
    BY <1>3 DEF Owned, Held
  <2> QED
    BY <1>3, <2>1, LostPagesIs
<1>4. ASSUME NEW t \in Thread, NewPage(t) PROVE LostPages' \subseteq LostPages
  <2>1. PICK p \in Page : /\ allocate_page(p)
                          /\ call' = [call EXCEPT ![t] = [page |-> p, pin |-> 0, read |-> FALSE]]
    BY <1>4 DEF NewPage
  <2>2. /\ pc[t] = "idle" /\ UNCHANGED <<live, pins>>
        /\ call[t].page = NoPage /\ call'[t].page = p
        /\ \A u \in Thread \ {t} : call'[u] = call[u]
    BY <1>1, <1>4, <2>1 DEF NewPage, dataVars, CallsEnd, TypeOK
  <2>3. p \in Owned' /\ Held' = Held
    BY <2>2 DEF Owned, Held
  <2>4. /\ \A q \in ToSet(free_list) : q = p \/ q \in ToSet(free_list')
        /\ capacity \in Nat /\ capacity' \in {capacity, capacity + 1} /\ (capacity' = capacity + 1 => p = capacity)
    <3>1. CASE free_list # <<>>
      <4>1. free_list \in Seq(Page) /\ IsInjective(free_list) /\ capacity \in Nat
        BY <1>1, Parts DEF TypeOK, FreeAreUnused
      <4>2. p = Last(free_list) /\ free_list' = Front(free_list) /\ capacity' = capacity
        BY <2>1, <3>1 DEF allocate_page, reuse
      <4>3. ToSet(free_list') = ToSet(free_list) \ {p}
        BY <3>1, <4>1, <4>2, FrontProperties
      <4> QED
        BY <4>1, <4>2, <4>3
    <3>2. CASE free_list = <<>>
      BY <1>1, <2>1, <3>2 DEF allocate_page, grow, TypeOK
    <3> QED
      BY <3>1, <3>2
  <2>5. \A q \in ToSet(free_list) : q \in Owned'
    BY <2>3, <2>4 DEF Owned
  <2>6. \A q \in Owned : q \in Owned' \/ q = NoPage
    BY <2>2, <2>3, <2>5 DEF Owned
  <2>7. NoPage \notin 1 .. capacity' - 1
    <3>1. capacity' \in 1 .. kMAX_CAPACITY
      BY TypeStep, <1>1 DEF TypeOK
    <3> QED
      BY <3>1, Ranges DEF NoPage
  <2>8. ASSUME NEW q \in 1 .. capacity' - 1, q \notin Owned' PROVE q \in 1 .. capacity - 1
    <3>1. q # p
      BY <2>3, <2>8
    <3>2. /\ capacity \in Nat /\ capacity' \in {capacity, capacity + 1}
          /\ (capacity' = capacity + 1 => p = capacity)
      BY <2>4
    <3>3. capacity' \in Int /\ q \in Int /\ 1 <= q /\ q <= capacity' - 1
      <4>1. capacity' \in Int
        BY <3>2
      <4>2. ASSUME NEW c \in Int, NEW r \in 1 .. c PROVE r \in Int /\ 1 <= r /\ r <= c
        OBVIOUS
      <4>3. capacity' - 1 \in Int
        BY <4>1
      <4>4. q \in 1 .. capacity' - 1
        BY <2>8
      <4> QED
        BY <4>1, <4>2, <4>3, <4>4
    <3>4. CASE capacity' = capacity
      BY <3>3, <3>4
    <3>5. CASE capacity' = capacity + 1
      <4>1. q # capacity
        BY <3>1, <3>2, <3>5
      <4> QED
        BY <3>2, <3>3, <3>5, <4>1
    <3> QED
      BY <3>2, <3>4, <3>5
  <2> QED
    BY <2>6, <2>7, <2>8, LostPagesIs
<1>5. ASSUME NEW t \in Thread, NEW p \in Page, Fetch(t, p) \/ Delete(t, p)
      PROVE  LostPages' \subseteq LostPages
  <2>1. /\ pc[t] = "idle" /\ UNCHANGED <<capacity, free_list>> /\ UNCHANGED <<live, pins>>
        /\ \E c : call' = [call EXCEPT ![t] = c]
    BY <1>5 DEF Fetch, Delete, allocVars, dataVars
  <2>2. call[t].page = NoPage /\ \A u \in Thread \ {t} : call'[u] = call[u]
    BY <1>1, <2>1 DEF CallsEnd, TypeOK
  <2>3. (\A q \in live \cup ToSet(free_list) : q \in Owned') /\ Held' = Held
    BY <2>1 DEF Owned, Held
  <2> QED
    BY <1>2, <2>1, <2>2, <2>3
<1>6. ASSUME NEW t \in Thread, NEW i \in DOMAIN pins[t], Unpin(t, i)
      PROVE  LostPages' \subseteq LostPages
  <2>1. /\ pc[t] = "idle" /\ UNCHANGED <<capacity, free_list>> /\ UNCHANGED <<live, pins>>
        /\ \E c : call' = [call EXCEPT ![t] = c]
    BY <1>6 DEF Unpin, allocVars, dataVars
  <2>2. call[t].page = NoPage /\ \A u \in Thread \ {t} : call'[u] = call[u]
    BY <1>1, <2>1 DEF CallsEnd, TypeOK
  <2>3. (\A q \in live \cup ToSet(free_list) : q \in Owned') /\ Held' = Held
    BY <2>1 DEF Owned, Held
  <2> QED
    BY <1>2, <2>1, <2>2, <2>3
<1>7. ASSUME NEW t \in Thread, NEW i \in DOMAIN pins[t], Write(t, i)
      PROVE  LostPages' \subseteq LostPages
  <2>1. PICK h, g : h = pins[t][i] /\ g = [h EXCEPT !.wrote = TRUE, !.fresh = FALSE]
    OBVIOUS
  <2>2. /\ pins' = [pins EXCEPT ![t] = [pins[t] EXCEPT ![i] = g]]
        /\ UNCHANGED <<capacity, free_list>> /\ call' = call /\ pc[t] = "idle"
        /\ live \subseteq live'
    BY <1>7, <2>1 DEF Write, allocVars
  <2>3. /\ g \in Held' /\ \A e \in Held : e \in Held' \/ e = h
    BY <1>1, <2>1, <2>2, HeldWrite
  <2>4. h \in PinnedPage
    BY <1>1, <2>1, HeldFacts
  <2>5. g.page = h.page
    BY <2>1, <2>4 DEF PinnedPage
  <2>6. \A e \in Held : e \in Held' \/ e.page \in Owned'
    BY <2>3, <2>5 DEF Owned
  <2>7. \A q \in live \cup ToSet(free_list) : q \in Owned'
    BY <2>2 DEF Owned
  <2>8. call[t].page = NoPage
    BY <2>2 DEF CallsEnd
  <2> QED
    BY <1>2, <2>2, <2>6, <2>7, <2>8
(* A PinnedPage takes the page over from the call.                         *)
<1>8. ASSUME NEW t \in Thread, NEW f, NEW b, Pin(t, f, call[t].page, b), Return(t),
             UNCHANGED <<capacity, free_list, live>>
      PROVE  LostPages' \subseteq LostPages
  <2>1. PICK h : h = [frame |-> f, page |-> call[t].page, wrote |-> FALSE, fresh |-> b]
    OBVIOUS
  <2>2. Held' = Held \cup {h} /\ h.page = call[t].page
    <3>1. PICK p : p = call[t].page
      OBVIOUS
    <3>2. Pin(t, f, p, b)
      BY <1>8, <3>1
    <3> QED
      BY <1>1, <2>1, <3>1, <3>2, HeldMore
  <2>3. call[t].page \in Owned'
    BY <2>2 DEF Owned
  <2>4. \A q \in live \cup ToSet(free_list) : q \in Owned'
    BY <1>8 DEF Owned
  <2>5. \A u \in Thread \ {t} : call'[u] = call[u]
    BY <1>1, <1>8 DEF TypeOK, Return
  <2> QED
    BY <1>2, <1>8, <2>2, <2>3, <2>4, <2>5
<1>9. ASSUME NEW t \in Thread, FetchHit(t) \/ SwapRead(t) PROVE LostPages' \subseteq LostPages
  BY <1>8, <1>9 DEF FetchHit, SwapRead, allocVars, dataVars
<1>10. ASSUME NEW t \in Thread, SwapInstall(t) PROVE LostPages' \subseteq LostPages
  <2>1. PICK f \in find_next_frame : SwapInstall(t)!(f)
    BY <1>10 DEF SwapInstall
  <2>2. UNCHANGED <<capacity, free_list, live>>
    BY <2>1 DEF allocVars
  <2>3. CASE call[t].read
    <3>1. UNCHANGED <<call, pins>>
      BY <2>1, <2>3
    <3> QED
      BY <1>3, <2>2, <3>1
  <2>4. CASE ~call[t].read
    <3>1. Pin(t, f, call[t].page, TRUE) /\ Return(t)
      BY <2>1, <2>4
    <3> QED
      BY <1>8, <2>2, <3>1
  <2> QED
    BY <2>3, <2>4
(* The page of the call has been in use, and is, or is on the free list.   *)
<1>11. ASSUME NEW t \in Thread, Return(t), capacity' = capacity, UNCHANGED pins,
              \A q \in live \cup ToSet(free_list) : q \in live' \cup ToSet(free_list'),
              call[t].page \in live
       PROVE  LostPages' \subseteq LostPages
  <2>1. (\A q \in live \cup ToSet(free_list) : q \in Owned') /\ Held' = Held
    BY <1>11 DEF Owned, Held
  <2>2. \A u \in Thread \ {t} : call'[u] = call[u]
    BY <1>1, <1>11 DEF TypeOK, Return
  <2> QED
    BY <1>2, <1>11, <2>1, <2>2
<1>12. ASSUME NEW t \in Thread, UnpinEnd(t) PROVE LostPages' \subseteq LostPages
  <2>1. PICK i, h : i = call[t].pin /\ h = pins[t][i]
    OBVIOUS
  <2>2. /\ i \in DOMAIN pins[t] /\ h \in Held /\ h.page \in live /\ call[t].page = h.page
        /\ pins' = [pins EXCEPT ![t] = RemoveAt(pins[t], i)] /\ Return(t)
        /\ UNCHANGED <<capacity, free_list>> /\ live' = live
    <3>1. pc[t] = "unpin" /\ i \in DOMAIN pins[t]
      BY <1>1, <1>12, <2>1 DEF UnpinEnd, CallsCarry
    <3>2. h \in Held /\ ~h.fresh /\ call[t].page = h.page
      BY <1>1, <2>1, <3>1, HeldFacts DEF CallsEnd, CallsAreCurrent
    <3>3. h.page \in live
      BY <1>1, <3>2 DEF PinsHold
    <3> QED
      BY <1>12, <2>1, <3>1, <3>2, <3>3 DEF UnpinEnd, allocVars, dataVars
  <2>3. \A e \in Held : e \in Held' \/ e = h
    BY <1>1, <2>1, <2>2, HeldLess
  <2>4. \A q \in live \cup ToSet(free_list) : q \in Owned'
    BY <2>2 DEF Owned
  <2>5. \A u \in Thread \ {t} : call'[u] = call[u]
    BY <1>1, <2>2 DEF TypeOK, Return
  <2> QED
    BY <1>2, <2>2, <2>3, <2>4, <2>5
<1>13. ASSUME NEW t \in Thread, SwapFails(t) PROVE FALSE
  BY <1>13, NoFrameFree DEF SwapFails
<1>14. ASSUME NEW t \in Thread, DeleteRefused(t) PROVE LostPages' \subseteq LostPages
  BY <1>1, <1>11, <1>14 DEF DeleteRefused, CallsAreCurrent, allocVars, dataVars
<1>15. ASSUME NEW t \in Thread, DeleteEnd(t) PROVE LostPages' \subseteq LostPages
  <2>1. PICK p : p = call[t].page
    OBVIOUS
  <2>2. /\ p \in Page /\ p \in live /\ live' = live \ {p} /\ Return(t) /\ UNCHANGED pins
        /\ free_list' = Append(free_list, p) /\ capacity' = capacity
    BY <1>1, <1>15, <2>1 DEF DeleteEnd, CallsCarry, CallsAreCurrent, deallocate
  <2>3. free_list \in Seq(Page) /\ IsInjective(free_list) /\ p \notin ToSet(free_list)
    BY <1>1, <2>2, Parts DEF TypeOK, FreeAreUnused
  <2>4. ToSet(free_list') = ToSet(free_list) \cup {p}
    BY <2>2, <2>3, AppendedProperties
  <2> QED
    BY <1>11, <2>1, <2>2, <2>4
<1>16. CASE UNCHANGED vars \/ Close \/ Closed
  BY <1>3, <1>16 DEF vars, Close, Closed, allocVars, dataVars
<1>17. ASSUME NEW t \in Thread, Client(t) PROVE LostPages' \subseteq LostPages
  BY <1>4, <1>5, <1>6, <1>7, <1>17 DEF Client
<1>18. ASSUME NEW t \in Thread, Proceed(t) PROVE LostPages' \subseteq LostPages
  <2>1. ~WriteFails(t) /\ ~ReadFails(t)
    BY DEF Discipline, WriteFails, ReadFails
  <2>2. CASE SwapBegin(t)
    BY <1>3, <2>2 DEF SwapBegin, allocVars, dataVars
  <2> QED
    BY <1>9, <1>10, <1>12, <1>13, <1>14, <1>15, <1>18, <2>1, <2>2 DEF Proceed
<1> QED
  BY <1>16, <1>17, <1>18 DEF Next

(* A page id is only lost by a new_page that finds every frame pinned, or  *)
(* by a delete_page that finds the free list over its limit.               *)
THEOREM NothingElseIsLost == ASSUME Discipline PROVE Spec => LostOnlyWhenFull
<1>1. Init => CallsEnd
  BY DEF Init, CallsEnd, NoCall
<1>2. Spec => [](PInv /\ EInv)
  BY EInvariance
<1>3. Spec => []CallsEnd
  <2>1. PInv /\ CallsEnd /\ [Next]_vars => CallsEnd'
    BY CallsEndStep
  <2> QED
    BY <1>1, <2>1, Invariance, PTL DEF Spec
<1>4. PInv /\ EInv /\ CallsEnd /\ [Next]_vars
        => [\/ LostPages' \subseteq LostPages
            \/ \A f \in Frame : frames[f].pin_count > 0
            \/ Len(free_list) > kFREE_LIST_LIMIT]_vars
  BY LostStep
<1> QED
  BY <1>2, <1>3, <1>4, PTL DEF Spec, LostOnlyWhenFull
=============================================================================
