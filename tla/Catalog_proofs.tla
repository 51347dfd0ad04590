--------------------------- MODULE Catalog_proofs ---------------------------
(***************************************************************************)
(* Theorems about Catalog, for any tables, transactions, frames, rows on a *)
(* page and limit of the free list, when clients keep to Careful.          *)
(***************************************************************************)
EXTENDS Catalog, SequenceTheorems, FiniteSetTheorems, WellFoundedInduction, TLAPS

Creating    == call.op \in {"heap", "row"}
Dropping(n) == call.op \in {"walk", "delete"} /\ call.name = n /\ call.tx = NoTx

(* Pages below n: in one of the heaps, at one place, or in the list free,  *)
(* or in the set lost.                                                     *)
Apart(n, free, heaps, lost) ==
  /\ n \in 1 .. kMAX_CAPACITY
  /\ free \in Seq(PageIDs) /\ IsInjective(free)
  /\ DOMAIN heaps \subseteq PageIDs /\ lost \subseteq PageIDs
  /\ \A h \in DOMAIN heaps :
       /\ heaps[h] \in Seq(PageIDs) /\ IsInjective(heaps[h])
       /\ Len(heaps[h]) > 0 /\ heaps[h][1] = h
       /\ \A p \in Range(heaps[h]) :
            /\ p \notin Range(free) /\ p \notin lost
            /\ \A k \in DOMAIN heaps : p \in Range(heaps[k]) => k = h
  /\ \A p \in lost : p \notin Range(free)
  /\ \A p \in PageIDs : p < n <=> \/ \E h \in DOMAIN heaps : p \in Range(heaps[h])
                                  \/ p \in Range(free)
                                  \/ p \in lost

(* A drop has taken its pages from the heap and not yet given them back:   *)
(* until then they are as good as lost.                                    *)
Lost == leaked \cup Undeleted

PagesApart == /\ Apart(capacity, free_list, chain, Lost)
              /\ Len(free_list) <= kFREE_LIST_LIMIT + 1
              /\ call.op = "delete" => /\ IsInjective(call.page_ids)
                                       /\ \A p \in Undeleted : p \notin leaked

(* A page that is pinned is not handed out.                                *)
Unpinned == \A p \in pinned : p \notin Range(free_list)

(* The heaps are those of the catalog, of its tables but for the one whose *)
(* pages are being deleted, and of the create_table under way, each its    *)
(* own.                                                                    *)
HeapsAreUsed ==
  /\ kCATALOG_FIRST_PAGE_ID \in DOMAIN chain
  /\ \A n \in DOMAIN tables :
       /\ ~Deleting(n) => tables[n].first_page_id \in DOMAIN chain
       /\ tables[n].first_page_id # kCATALOG_FIRST_PAGE_ID
       /\ \A k \in DOMAIN tables : tables[k].first_page_id = tables[n].first_page_id => k = n
       /\ Creating => tables[n].first_page_id # call.page
  /\ Creating => /\ call.page \in DOMAIN chain /\ call.page # kCATALOG_FIRST_PAGE_ID
                 /\ chain[call.page] = <<call.page>>
  /\ \A h \in DOMAIN chain : \/ h = kCATALOG_FIRST_PAGE_ID
                             \/ \E n \in DOMAIN tables :
                                  ~Deleting(n) /\ h = tables[n].first_page_id
                             \/ Creating /\ h = call.page

RowsOnPages == \A r \in DOMAIN rows : r.page_id \in Range(CatalogPages)

(* The types of the other variables.                                       *)
NamesTyped ==
  /\ \A r \in DOMAIN rows : r \in RID /\ rows[r] \in Row
  /\ \A n \in DOMAIN tables : n \in Name /\ tables[n] \in TableEntry
  /\ torn \subseteq DOMAIN tables /\ call \in Call
TxsTyped ==
  /\ state \in [Tx -> {"GROWING", "SHRINKING", "COMMITTED", "ABORTED"}]
  /\ log \in [Tx -> Seq(UndoRecord)] /\ left \in [Tx -> Nat]
  /\ \A t \in Tx : left[t] <= Len(log[t])
  /\ pc \in [Tx -> {"ready", "undo", "thrown", "ended"}]
  /\ locks \in [Tx -> SUBSET RID]
PinsTyped == pinned \subseteq PageIDs /\ Cardinality(pinned) <= kPOOL_CAPACITY
GoneTyped == DOMAIN gone \subseteq PageIDs /\ \A h \in DOMAIN gone : gone[h] \in Seq(PageIDs)

(* The next record that the abort of t undoes is that of n.                *)
Undoes(t, n) == /\ pc[t] = "undo" /\ left[t] > 0
                /\ log[t][left[t]].kind = "drop" /\ log[t][left[t]].name = n

(* The name a call has found to be new stays new; what it has written, and *)
(* what it drops, is still there, and still to be dropped.                 *)
CallsFit ==
  /\ Creating => /\ call.name \notin DOMAIN tables
                 /\ call.tx # NoTx => pc[call.tx] # "undo"
  /\ call.op = "row" =>
       /\ call.rid \in DOMAIN rows /\ rows[call.rid].name = call.name
       /\ rows[call.rid].first_page_id = call.page /\ rows[call.rid].by = call.tx
  /\ call.op \in {"walk", "delete"} =>
       /\ call.name \in DOMAIN tables
       /\ call.tx = NoTx => call.name \notin torn /\ tables[call.name].by = NoTx
       /\ call.tx # NoTx => Undoes(call.tx, call.name)

(* Tables that have their row, and rows that have their table, or are      *)
(* written just now, or about to be deleted by a rollback.                 *)
Settled(n) == n \in DOMAIN tables /\ n \notin torn /\ ~Dropping(n)

TableFits(n) ==
  Settled(n) => /\ tables[n].rid \in DOMAIN rows /\ rows[tables[n].rid].name = n
                /\ rows[tables[n].rid].first_page_id = tables[n].first_page_id
                /\ rows[tables[n].rid].by = tables[n].by

Undoing(r) ==
  \E t \in Tx : /\ pc[t] = "undo" /\ left[t] > 0 /\ rows[r].by = t
                /\ log[t][left[t]].kind = "delete" /\ log[t][left[t]].rid = r

RowFits(r) == \/ Settled(rows[r].name) /\ tables[rows[r].name].rid = r
              \/ call.op = "row" /\ call.rid = r
              \/ Undoing(r)

RowsFollow == /\ \A n \in torn : tables[n].by = NoTx
              /\ \A n \in DOMAIN tables : TableFits(n)
              /\ \A r \in DOMAIN rows : RowFits(r)

(* What is still to be undone if t aborts.                                 *)
Live(t) == IF pc[t] = "ended" THEN 0 ELSE IF pc[t] = "ready" THEN Len(log[t]) ELSE left[t]

(* The log is a sequence of pairs, for tables that are there, of which an  *)
(* abort may have undone the second one only; no record comes twice.       *)
DropFits(t, i) ==
  /\ log[t][i].name \in DOMAIN tables /\ tables[log[t][i].name].by = t
  /\ i > 1 /\ log[t][i - 1].kind = "delete"
  /\ log[t][i - 1].rid = tables[log[t][i].name].rid
  /\ \A j \in 1 .. Live(t) : log[t][j].kind = "drop" /\ log[t][j].name = log[t][i].name => j = i

DeleteFits(t, i) ==
  /\ log[t][i].rid \in DOMAIN rows /\ rows[log[t][i].rid].by = t
  /\ IF i < Live(t) THEN log[t][i + 1].kind = "drop" ELSE pc[t] = "undo"
  /\ \A j \in 1 .. Live(t) : log[t][j].kind = "delete" /\ log[t][j].rid = log[t][i].rid => j = i

LogFits(t) ==
  /\ pc[t] # "ready" => state[t] # "GROWING"
  /\ pc[t] = "ended" => left[t] = 0
  /\ \A i \in 1 .. Live(t) : /\ log[t][i].kind = "drop" => DropFits(t, i)
                             /\ log[t][i].kind = "delete" => DeleteFits(t, i)

(* No table of a transaction is missing in its log.                        *)
Logged(t) ==
  \A n \in DOMAIN tables : tables[n].by = t =>
    \E i \in 1 .. Live(t) : log[t][i].kind = "drop" /\ log[t][i].name = n

Logs == \A t \in Tx : LogFits(t) /\ Logged(t)

PagesInv == PagesApart /\ Unpinned /\ PinsTyped /\ GoneTyped
NamesInv == NamesTyped /\ TxsTyped /\ CallsFit /\ RowsFollow /\ Logs
IInv     == PagesInv /\ HeapsAreUsed /\ RowsOnPages /\ NamesInv

-----------------------------------------------------------------------------
(* A set of naturals has a least one.                                      *)
LEMMA Least ==
  ASSUME NEW T \in SUBSET Nat, T # {}
  PROVE  \E x \in T : \A y \in T : x <= y
<1> DEFINE R == OpToRel(<, Nat)
<1>1. IsWellFoundedOn(R, Nat)
  BY NatLessThanWellFounded
<1>2. \A x, y \in Nat : x < y => <<x, y>> \in R
  BY DEF OpToRel
<1> HIDE DEF R
<1>3. PICK x \in T : \A y \in T : ~ (<<y, x>> \in R)
  BY <1>1, WFMin
<1>4. \A y \in T : ~ (y < x)
  BY <1>2, <1>3
<1> QED
  BY <1>4

LEMMA RangeIs ==
  ASSUME NEW S, NEW s \in Seq(S)
  PROVE  /\ Len(s) \in Nat /\ DOMAIN s = 1 .. Len(s) /\ Range(s) \subseteq S
         /\ \A i \in 1 .. Len(s) : s[i] \in Range(s) /\ s[i] \in S
         /\ \A p : p \in Range(s) <=> \E i \in 1 .. Len(s) : p = s[i]
<1>1. Len(s) \in Nat /\ DOMAIN s = 1 .. Len(s) /\ \A i \in 1 .. Len(s) : s[i] \in S
  BY LenProperties, ElementOfSeq
<1> QED
  BY <1>1 DEF Range

LEMMA Appended ==
  ASSUME NEW S, NEW s \in Seq(S), NEW e \in S
  PROVE  /\ Append(s, e) \in Seq(S) /\ Len(Append(s, e)) = Len(s) + 1
         /\ \A i \in 1 .. Len(s) : Append(s, e)[i] = s[i]
         /\ Append(s, e)[Len(s) + 1] = e
         /\ Range(Append(s, e)) = Range(s) \cup {e}
         /\ IsInjective(s) /\ e \notin Range(s) => IsInjective(Append(s, e))
<1> DEFINE r == Append(s, e)
           n == Len(s)
<1>1. /\ r \in Seq(S) /\ Len(r) = n + 1
      /\ \A j \in 1 .. n : r[j] = s[j]
      /\ r[n + 1] = e
  BY AppendProperties
<1>2. n \in Nat /\ DOMAIN s = 1 .. n /\ DOMAIN r = 1 .. n + 1
  BY <1>1, LenProperties
<1> HIDE DEF r, n
<1>3. Range(r) = Range(s) \cup {e}
  <2>1. \A p \in Range(r) : p \in Range(s) \cup {e}
    <3> SUFFICES ASSUME NEW j \in 1 .. n + 1 PROVE r[j] \in Range(s) \cup {e}
      BY <1>2 DEF Range
    <3>1. CASE j \in 1 .. n
      BY <1>1, <1>2, <3>1 DEF Range
    <3>2. CASE j = n + 1
      BY <1>1, <3>2
    <3> QED
      BY <1>2, <3>1, <3>2
  <2>2. ASSUME NEW j \in 1 .. n PROVE s[j] \in Range(r)
    <3>1. j \in 1 .. n + 1 /\ r[j] = s[j]
      BY <1>1, <1>2
    <3> QED
      BY <1>2, <3>1 DEF Range
  <2>3. e \in Range(r)
    <3>1. n + 1 \in 1 .. n + 1
      BY <1>2
    <3> QED
      BY <1>1, <1>2, <3>1 DEF Range
  <2>4. \A p \in Range(s) : p \in Range(r)
    BY <1>2, <2>2 DEF Range
  <2> QED
    BY <2>1, <2>3, <2>4
<1>4. ASSUME IsInjective(s), e \notin Range(s) PROVE IsInjective(r)
  <2> SUFFICES ASSUME NEW a \in 1 .. n + 1, NEW b \in 1 .. n + 1, r[a] = r[b] PROVE a = b
    BY <1>2 DEF IsInjective
  <2>1. \A x, y \in 1 .. n : s[x] = s[y] => x = y
    BY <1>2, <1>4 DEF IsInjective
  <2>2. \A j \in 1 .. n : s[j] # e
    BY <1>2, <1>4 DEF Range
  <2>3. CASE a \in 1 .. n /\ b \in 1 .. n
    BY <1>1, <2>1, <2>3
  <2>4. CASE a = n + 1 /\ b \in 1 .. n
    BY <1>1, <2>2, <2>4
  <2>5. CASE a \in 1 .. n /\ b = n + 1
    BY <1>1, <2>2, <2>5
  <2> QED
    BY <1>2, <2>3, <2>4, <2>5
<1> QED
  BY <1>1, <1>3, <1>4 DEF r, n

LEMMA FrontOf ==
  ASSUME NEW S, NEW s \in Seq(S), s # <<>>
  PROVE  /\ Front(s) \in Seq(S) /\ Len(Front(s)) = Len(s) - 1
         /\ Last(s) \in S /\ Last(s) \in Range(s)
         /\ IsInjective(s) => /\ IsInjective(Front(s))
                              /\ Range(Front(s)) = Range(s) \ {Last(s)}
<1> DEFINE n == Len(s) - 1
           r == Front(s)
<1>1. n \in Nat /\ DOMAIN s = 1 .. n + 1 /\ Len(s) = n + 1
  BY EmptySeq, LenProperties
<1>2. Last(s) \in S /\ Last(s) \in Range(s) /\ Last(s) = s[n + 1]
  BY <1>1, ElementOfSeq DEF Last, Range
<1>3. r \in Seq(S) /\ Len(r) = n /\ DOMAIN r = 1 .. n /\ \A j \in 1 .. n : r[j] = s[j]
  <2>1. \A j \in 1 .. n : s[j] \in S
    BY <1>1, ElementOfSeq
  <2>2. /\ SubSeq(s, 1, n) \in Seq(S)
        /\ Len(SubSeq(s, 1, n)) = IF 1 <= n THEN n - 1 + 1 ELSE 0
        /\ \A j \in 1 .. n - 1 + 1 : SubSeq(s, 1, n)[j] = s[1 + j - 1]
    BY <1>1, <2>1, SubSeqProperties
  <2>3. r = SubSeq(s, 1, n)
    BY DEF Front
  <2> HIDE DEF n, r
  <2>4. n - 1 + 1 = n /\ Len(r) = n
    BY <1>1, <2>2, <2>3
  <2>5. DOMAIN r = 1 .. n
    BY <2>2, <2>3, <2>4, LenProperties
  <2> QED
    BY <1>1, <2>2, <2>3, <2>4, <2>5
<1> HIDE DEF r, n
<1>4. ASSUME IsInjective(s) PROVE IsInjective(r) /\ Range(r) = Range(s) \ {Last(s)}
  <2>1. \A x, y \in 1 .. n + 1 : s[x] = s[y] => x = y
    BY <1>1, <1>4 DEF IsInjective
  <2>2. IsInjective(r)
    BY <1>1, <1>3, <2>1 DEF IsInjective
  <2>3. \A j \in 1 .. n : r[j] \in Range(s) \ {Last(s)}
    <3> TAKE j \in 1 .. n
    <3>1. j \in 1 .. n + 1 /\ n + 1 \in 1 .. n + 1 /\ j # n + 1
      BY <1>1
    <3> QED
      BY <1>1, <1>2, <1>3, <2>1, <3>1 DEF Range
  <2>4. \A j \in 1 .. n + 1 : s[j] # Last(s) => s[j] \in Range(r)
    <3> TAKE j \in 1 .. n + 1
    <3> HAVE s[j] # Last(s)
    <3>1. j \in 1 .. n /\ r[j] = s[j]
      BY <1>1, <1>2, <1>3
    <3> QED
      BY <1>3, <3>1 DEF Range
  <2>5. \A p \in Range(r) : p \in Range(s) \ {Last(s)}
    BY <1>3, <2>3 DEF Range
  <2>6. \A p \in Range(s) \ {Last(s)} : p \in Range(r)
    BY <1>1, <2>4 DEF Range
  <2> QED
    BY <2>2, <2>5, <2>6
<1> QED
  BY <1>1, <1>2, <1>3, <1>4 DEF r, n

(* One entry more, one entry less.                                         *)
LEMMA Less ==
  ASSUME NEW f, NEW x
  PROVE  /\ DOMAIN Without(f, x) = DOMAIN f \ {x}
         /\ \A z \in DOMAIN f : z # x => Without(f, x)[z] = f[z]
BY DEF Without, Restrict
-----------------------------------------------------------------------------
(* Pages change owners.                                                    *)
LEMMA HeapHas ==
  ASSUME NEW n, NEW free, NEW heaps, NEW lost, Apart(n, free, heaps, lost), NEW h \in DOMAIN heaps
  PROVE  /\ heaps[h] \in Seq(PageIDs) /\ Len(heaps[h]) \in Nat /\ Len(heaps[h]) > 0
         /\ h \in Range(heaps[h]) /\ h \in PageIDs /\ h < n
         /\ \A p \in Range(heaps[h]) : p \in PageIDs /\ p < n
<1>1. heaps[h] \in Seq(PageIDs) /\ Len(heaps[h]) > 0 /\ heaps[h][1] = h
  BY DEF Apart
<1>2. Len(heaps[h]) \in Nat /\ h \in Range(heaps[h]) /\ Range(heaps[h]) \subseteq PageIDs
  <2>1. Len(heaps[h]) \in Nat
    BY <1>1, RangeIs
  <2>2. 1 \in 1 .. Len(heaps[h])
    BY <1>1, <2>1
  <2> QED
    BY <1>1, <2>1, <2>2, RangeIs
<1>3. \A p \in Range(heaps[h]) : p \in PageIDs /\ p < n
  BY <1>2 DEF Apart
<1> QED
  BY <1>1, <1>2, <1>3

(* A page that is lost becomes a heap.                                     *)
LEMMA NewHeap ==
  ASSUME NEW n, NEW free, NEW heaps, NEW lost, NEW p \in PageIDs, p \notin lost,
         Apart(n, free, heaps, lost \cup {p})
  PROVE  Apart(n, free, With(heaps, p, <<p>>), lost) /\ p \notin DOMAIN heaps
<1> DEFINE new == With(heaps, p, <<p>>)
<1>1. p \notin DOMAIN heaps
  <2>1. \A h \in DOMAIN heaps : h \in Range(heaps[h])
    BY HeapHas
  <2>2. \A h \in DOMAIN heaps : p \notin Range(heaps[h])
    BY DEF Apart
  <2> QED
    BY <2>1, <2>2
<1>2. DOMAIN new = DOMAIN heaps \cup {p} /\ new[p] = <<p>>
      /\ \A h \in DOMAIN heaps : h # p /\ new[h] = heaps[h]
  <2>1. PICK s : s = <<p>>
    OBVIOUS
  <2>2. /\ DOMAIN With(heaps, p, s) = DOMAIN heaps \cup {p} /\ With(heaps, p, s)[p] = s
        /\ \A h \in DOMAIN heaps : h # p => With(heaps, p, s)[h] = heaps[h]
    BY DEF With
  <2> QED
    BY <1>1, <2>1, <2>2
<1>3. /\ <<p>> \in Seq(PageIDs) /\ Len(<<p>>) = 1 /\ <<p>>[1] = p
      /\ IsInjective(<<p>>) /\ Range(<<p>>) = {p}
  BY DEF IsInjective, Range
<1> HIDE DEF new
<1>4. ASSUME NEW h \in DOMAIN new
      PROVE  /\ new[h] \in Seq(PageIDs) /\ IsInjective(new[h])
             /\ Len(new[h]) > 0 /\ new[h][1] = h
             /\ \A q \in Range(new[h]) :
                  /\ q \notin Range(free) /\ q \notin lost
                  /\ \A k \in DOMAIN new : q \in Range(new[k]) => k = h
  <2>1. CASE h = p
    <3>1. p \notin Range(free) /\ \A k \in DOMAIN heaps : p \notin Range(heaps[k])
      BY DEF Apart
    <3>2. new[h] = <<p>> /\ Range(new[h]) = {p}
      BY <1>2, <1>3, <2>1
    <3>3. \A k \in DOMAIN new : p \in Range(new[k]) => k = h
      BY <1>2, <2>1, <3>1
    <3>4. new[h] \in Seq(PageIDs) /\ IsInjective(new[h]) /\ Len(new[h]) > 0 /\ new[h][1] = h
      BY <1>3, <2>1, <3>2
    <3> QED
      BY <3>1, <3>2, <3>3, <3>4
  <2>2. CASE h # p
    <3>1. h \in DOMAIN heaps /\ new[h] = heaps[h]
      BY <1>2, <2>2
    <3>2. /\ heaps[h] \in Seq(PageIDs) /\ IsInjective(heaps[h])
          /\ Len(heaps[h]) > 0 /\ heaps[h][1] = h
          /\ \A q \in Range(heaps[h]) :
               /\ q \notin Range(free) /\ q \notin lost /\ q # p
               /\ \A k \in DOMAIN heaps : q \in Range(heaps[k]) => k = h
      BY <3>1 DEF Apart
    <3> QED
      BY <1>2, <1>3, <3>1, <3>2
  <2> QED
    BY <2>1, <2>2
<1>5. ASSUME NEW q \in PageIDs
      PROVE  q < n <=> \/ \E h \in DOMAIN new : q \in Range(new[h])
                       \/ q \in Range(free)
                       \/ q \in lost
  <2>1. q < n <=> \/ \E h \in DOMAIN heaps : q \in Range(heaps[h])
                  \/ q \in Range(free)
                  \/ q \in lost \cup {p}
    BY DEF Apart
  <2>2. (\E h \in DOMAIN new : q \in Range(new[h]))
          <=> q = p \/ \E h \in DOMAIN heaps : q \in Range(heaps[h])
    BY <1>2, <1>3
  <2> QED
    BY <2>1, <2>2
<1>6. /\ n \in 1 .. kMAX_CAPACITY /\ free \in Seq(PageIDs) /\ IsInjective(free)
      /\ DOMAIN new \subseteq PageIDs /\ lost \subseteq PageIDs
      /\ \A q \in lost : q \notin Range(free)
  BY <1>2 DEF Apart
<1>7. Apart(n, free, new, lost)
  BY <1>4, <1>5, <1>6 DEF Apart
<1> QED
  BY <1>1, <1>7 DEF new

(* A page that is lost becomes the last one of a heap.                     *)
LEMMA Longer ==
  ASSUME NEW n, NEW free, NEW heaps, NEW lost, NEW p \in PageIDs, p \notin lost,
         Apart(n, free, heaps, lost \cup {p}), NEW h \in DOMAIN heaps
  PROVE  Apart(n, free, [heaps EXCEPT ![h] = Append(@, p)], lost)
<1> DEFINE new == [heaps EXCEPT ![h] = Append(@, p)]
           long == Append(heaps[h], p)
<1>1. /\ heaps[h] \in Seq(PageIDs) /\ IsInjective(heaps[h])
      /\ Len(heaps[h]) > 0 /\ heaps[h][1] = h
      /\ p \notin Range(free) /\ \A k \in DOMAIN heaps : p \notin Range(heaps[k])
  BY DEF Apart
<1>2. /\ long \in Seq(PageIDs) /\ IsInjective(long) /\ Len(long) > 0 /\ long[1] = h
      /\ Range(long) = Range(heaps[h]) \cup {p}
  <2>1. Len(heaps[h]) \in Nat /\ 1 \in 1 .. Len(heaps[h])
    BY <1>1, RangeIs
  <2>2. p \notin Range(heaps[h])
    BY <1>1
  <2>3. /\ long \in Seq(PageIDs) /\ Len(long) = Len(heaps[h]) + 1
        /\ \A i \in 1 .. Len(heaps[h]) : long[i] = heaps[h][i]
        /\ Range(long) = Range(heaps[h]) \cup {p} /\ IsInjective(long)
    BY <1>1, <2>2, Appended
  <2> HIDE DEF long
  <2> QED
    BY <1>1, <2>1, <2>3
<1>3. /\ DOMAIN new = DOMAIN heaps /\ new[h] = long
      /\ \A k \in DOMAIN heaps : k # h => new[k] = heaps[k]
  OBVIOUS
<1> HIDE DEF new, long
<1>4. ASSUME NEW k \in DOMAIN new
      PROVE  /\ new[k] \in Seq(PageIDs) /\ IsInjective(new[k])
             /\ Len(new[k]) > 0 /\ new[k][1] = k
             /\ \A q \in Range(new[k]) :
                  /\ q \notin Range(free) /\ q \notin lost
                  /\ \A j \in DOMAIN new : q \in Range(new[j]) => j = k
  <2>1. /\ heaps[k] \in Seq(PageIDs) /\ IsInjective(heaps[k])
        /\ Len(heaps[k]) > 0 /\ heaps[k][1] = k
        /\ \A q \in Range(heaps[k]) :
             /\ q \notin Range(free) /\ q \notin lost /\ q # p
             /\ \A j \in DOMAIN heaps : q \in Range(heaps[j]) => j = k
    BY <1>3 DEF Apart
  <2>2. CASE k = h
    BY <1>1, <1>2, <1>3, <2>1, <2>2
  <2>3. CASE k # h
    BY <1>1, <1>2, <1>3, <2>1, <2>3
  <2> QED
    BY <2>2, <2>3
<1>5. ASSUME NEW q \in PageIDs
      PROVE  q < n <=> \/ \E k \in DOMAIN new : q \in Range(new[k])
                       \/ q \in Range(free)
                       \/ q \in lost
  <2>1. q < n <=> \/ \E k \in DOMAIN heaps : q \in Range(heaps[k])
                  \/ q \in Range(free)
                  \/ q \in lost \cup {p}
    BY DEF Apart
  <2>2. (\E k \in DOMAIN new : q \in Range(new[k]))
          <=> q = p \/ \E k \in DOMAIN heaps : q \in Range(heaps[k])
    BY <1>2, <1>3
  <2> QED
    BY <2>1, <2>2
<1>6. /\ n \in 1 .. kMAX_CAPACITY /\ free \in Seq(PageIDs) /\ IsInjective(free)
      /\ DOMAIN new \subseteq PageIDs /\ lost \subseteq PageIDs
      /\ \A q \in lost : q \notin Range(free)
  BY <1>3 DEF Apart
<1>7. Apart(n, free, new, lost)
  BY <1>4, <1>5, <1>6 DEF Apart
<1> QED
  BY <1>7 DEF new

(* The pages of heaps are lost with them.                                  *)
LEMMA HeapsLost ==
  ASSUME NEW n, NEW free, NEW heaps, NEW lost, Apart(n, free, heaps, lost),
         NEW H \in SUBSET DOMAIN heaps, NEW all,
         \A p : p \in all <=> p \in lost \/ \E h \in H : p \in Range(heaps[h])
  PROVE  Apart(n, free, Restrict(heaps, DOMAIN heaps \ H), all)
<1> DEFINE new == Restrict(heaps, DOMAIN heaps \ H)
<1>1. DOMAIN new = DOMAIN heaps \ H /\ \A h \in DOMAIN new : new[h] = heaps[h]
  BY DEF Restrict
<1> HIDE DEF new
<1>2. ASSUME NEW h \in DOMAIN new
      PROVE  /\ new[h] \in Seq(PageIDs) /\ IsInjective(new[h])
             /\ Len(new[h]) > 0 /\ new[h][1] = h
             /\ \A q \in Range(new[h]) :
                  /\ q \notin Range(free) /\ q \notin all
                  /\ \A k \in DOMAIN new : q \in Range(new[k]) => k = h
  <2>1. /\ heaps[h] \in Seq(PageIDs) /\ IsInjective(heaps[h])
        /\ Len(heaps[h]) > 0 /\ heaps[h][1] = h
        /\ \A q \in Range(heaps[h]) :
             /\ q \notin Range(free) /\ q \notin lost
             /\ \A k \in DOMAIN heaps : q \in Range(heaps[k]) => k = h
    BY <1>1 DEF Apart
  <2> QED
    BY <1>1, <2>1
<1>3. ASSUME NEW q \in PageIDs
      PROVE  q < n <=> \/ \E k \in DOMAIN new : q \in Range(new[k])
                       \/ q \in Range(free)
                       \/ q \in all
  <2>1. q < n <=> \/ \E k \in DOMAIN heaps : q \in Range(heaps[k])
                  \/ q \in Range(free)
                  \/ q \in lost
    BY DEF Apart
  <2>2. (\E k \in DOMAIN heaps : q \in Range(heaps[k]))
          <=> \/ \E k \in DOMAIN new : q \in Range(new[k])
              \/ \E k \in H : q \in Range(heaps[k])
    BY <1>1
  <2> QED
    BY <2>1, <2>2
<1>4. /\ n \in 1 .. kMAX_CAPACITY /\ free \in Seq(PageIDs) /\ IsInjective(free)
      /\ DOMAIN new \subseteq PageIDs
  BY <1>1 DEF Apart
<1>5. ASSUME NEW q \in all PROVE q \in PageIDs /\ q \notin Range(free)
  <2>1. CASE q \in lost
    BY <2>1 DEF Apart
  <2>2. ASSUME NEW h \in H, q \in Range(heaps[h]) PROVE q \in PageIDs /\ q \notin Range(free)
    <3>1. \A p \in Range(heaps[h]) : p \in PageIDs
      BY HeapHas
    <3> QED
      BY <2>2, <3>1 DEF Apart
  <2> QED
    BY <2>1, <2>2
<1>6. all \subseteq PageIDs /\ \A q \in all : q \notin Range(free)
  BY <1>5
<1>7. Apart(n, free, new, all)
  BY <1>2, <1>3, <1>4, <1>6 DEF Apart
<1> QED
  BY <1>7 DEF new

LEMMA HeapLost ==
  ASSUME NEW n, NEW free, NEW heaps, NEW lost, Apart(n, free, heaps, lost),
         NEW h \in DOMAIN heaps
  PROVE  Apart(n, free, Without(heaps, h), lost \cup Range(heaps[h]))
<1> DEFINE all == lost \cup Range(heaps[h])
<1>1. {h} \in SUBSET DOMAIN heaps
      /\ \A p : p \in all <=> p \in lost \/ \E k \in {h} : p \in Range(heaps[k])
  OBVIOUS
<1> HIDE DEF all
<1>2. Apart(n, free, Restrict(heaps, DOMAIN heaps \ {h}), all)
  BY <1>1, HeapsLost
<1> QED
  BY <1>2 DEF all, Without

(* Pages that were lost are put on the list.                               *)
LEMMA ListLonger ==
  ASSUME NEW n, NEW free, NEW heaps, NEW lost, Apart(n, free, heaps, lost),
         NEW list \in Seq(PageIDs), IsInjective(list),
         \A p \in Range(free) : p \in Range(list),
         \A p \in Range(list) : p \in Range(free) \/ p \in lost
  PROVE  Apart(n, list, heaps, lost \ Range(list))
<1>1. ASSUME NEW h \in DOMAIN heaps
      PROVE  /\ heaps[h] \in Seq(PageIDs) /\ IsInjective(heaps[h])
             /\ Len(heaps[h]) > 0 /\ heaps[h][1] = h
             /\ \A q \in Range(heaps[h]) :
                  /\ q \notin Range(list) /\ q \notin lost \ Range(list)
                  /\ \A k \in DOMAIN heaps : q \in Range(heaps[k]) => k = h
  BY DEF Apart
<1>2. ASSUME NEW q \in PageIDs
      PROVE  q < n <=> \/ \E k \in DOMAIN heaps : q \in Range(heaps[k])
                       \/ q \in Range(list)
                       \/ q \in lost \ Range(list)
  <2>1. q < n <=> \/ \E k \in DOMAIN heaps : q \in Range(heaps[k])
                  \/ q \in Range(free)
                  \/ q \in lost
    BY DEF Apart
  <2> QED
    BY <2>1
<1>3. /\ n \in 1 .. kMAX_CAPACITY /\ DOMAIN heaps \subseteq PageIDs
      /\ lost \ Range(list) \subseteq PageIDs
  BY DEF Apart
<1> QED
  BY <1>1, <1>2, <1>3 DEF Apart

(* A page that is allocated is nobody's yet.                               *)
LEMMA Allocated ==
  ASSUME PagesApart, NEW p, allocate(p)
  PROVE  /\ p \in PageIDs /\ p \notin Lost
         /\ Apart(capacity', free_list', chain, Lost \cup {p})
         /\ Len(free_list') <= Len(free_list)
         /\ \A q \in Range(free_list') : q \in Range(free_list)
<1>1. p \in PageIDs /\ PageIDs = 1 .. kMAX_CAPACITY - 1 /\ kMAX_CAPACITY \in Nat
  BY CatalogAssumption DEF allocate, PageIDs
<1>2. free_list \in Seq(PageIDs) /\ IsInjective(free_list) /\ capacity \in 1 .. kMAX_CAPACITY
  BY DEF PagesApart, Apart
<1>3. CASE free_list # <<>>
  <2>1. p = Last(free_list) /\ free_list' = Front(free_list) /\ capacity' = capacity
    BY <1>3 DEF allocate, allocate_page, reuse
  <2>2. /\ free_list' \in Seq(PageIDs) /\ Len(free_list') = Len(free_list) - 1
        /\ IsInjective(free_list')
        /\ Range(free_list') = Range(free_list) \ {p} /\ p \in Range(free_list)
    BY <1>2, <1>3, <2>1, FrontOf
  <2>3. Len(free_list') <= Len(free_list)
    BY <1>2, <2>2, RangeIs
  <2>4. p \notin Lost
    BY <2>2 DEF PagesApart, Apart
  <2>5. ASSUME NEW h \in DOMAIN chain
        PROVE  /\ chain[h] \in Seq(PageIDs) /\ IsInjective(chain[h])
               /\ Len(chain[h]) > 0 /\ chain[h][1] = h
               /\ \A q \in Range(chain[h]) :
                    /\ q \notin Range(free_list') /\ q \notin Lost \cup {p}
                    /\ \A k \in DOMAIN chain : q \in Range(chain[k]) => k = h
    BY <2>2 DEF PagesApart, Apart
  <2>6. ASSUME NEW q \in PageIDs
        PROVE  q < capacity' <=> \/ \E k \in DOMAIN chain : q \in Range(chain[k])
                                 \/ q \in Range(free_list')
                                 \/ q \in Lost \cup {p}
    <3>1. q < capacity <=> \/ \E k \in DOMAIN chain : q \in Range(chain[k])
                           \/ q \in Range(free_list)
                           \/ q \in Lost
      BY DEF PagesApart, Apart
    <3> QED
      BY <2>1, <2>2, <3>1
  <2>7. /\ DOMAIN chain \subseteq PageIDs /\ Lost \cup {p} \subseteq PageIDs
        /\ \A q \in Lost \cup {p} : q \notin Range(free_list')
    BY <1>1, <2>2 DEF PagesApart, Apart
  <2>8. Apart(capacity', free_list', chain, Lost \cup {p})
    BY <1>2, <2>1, <2>2, <2>5, <2>6, <2>7 DEF Apart
  <2> QED
    BY <1>1, <2>2, <2>3, <2>4, <2>8
<1>4. CASE free_list = <<>>
  <2>1. p = capacity /\ capacity' = capacity + 1 /\ free_list' = free_list
    BY <1>4 DEF allocate, allocate_page, grow
  <2>2. capacity' \in 1 .. kMAX_CAPACITY /\ ~(p < capacity)
        /\ \A q \in PageIDs : q < capacity' <=> q < capacity \/ q = p
    BY <1>1, <1>2, <2>1
  <2>3. /\ p \notin Lost /\ p \notin Range(free_list)
        /\ \A k \in DOMAIN chain : p \notin Range(chain[k])
    BY <1>1, <2>2 DEF PagesApart, Apart
  <2>4. ASSUME NEW h \in DOMAIN chain
        PROVE  /\ chain[h] \in Seq(PageIDs) /\ IsInjective(chain[h])
               /\ Len(chain[h]) > 0 /\ chain[h][1] = h
               /\ \A q \in Range(chain[h]) :
                    /\ q \notin Range(free_list) /\ q \notin Lost \cup {p}
                    /\ \A k \in DOMAIN chain : q \in Range(chain[k]) => k = h
    BY <2>3 DEF PagesApart, Apart
  <2>5. ASSUME NEW q \in PageIDs
        PROVE  q < capacity' <=> \/ \E k \in DOMAIN chain : q \in Range(chain[k])
                                 \/ q \in Range(free_list)
                                 \/ q \in Lost \cup {p}
    <3>1. q < capacity <=> \/ \E k \in DOMAIN chain : q \in Range(chain[k])
                           \/ q \in Range(free_list)
                           \/ q \in Lost
      BY DEF PagesApart, Apart
    <3> QED
      BY <2>2, <3>1
  <2>6. /\ DOMAIN chain \subseteq PageIDs /\ Lost \cup {p} \subseteq PageIDs
        /\ \A q \in Lost \cup {p} : q \notin Range(free_list)
    BY <1>1, <2>3 DEF PagesApart, Apart
  <2>7. Apart(capacity', free_list, chain, Lost \cup {p})
    BY <1>2, <2>2, <2>4, <2>5, <2>6 DEF Apart
  <2>8. Len(free_list') <= Len(free_list)
    BY <1>2, <2>1, RangeIs
  <2> QED
    BY <1>1, <2>1, <2>3, <2>7, <2>8
<1> QED
  BY <1>3, <1>4
-----------------------------------------------------------------------------
(* The pages that a drop gives back, one after the other.                  *)
LEMMA TailOf ==
  ASSUME NEW S, NEW s \in Seq(S), s # <<>>
  PROVE  /\ Head(s) \in S /\ Tail(s) \in Seq(S)
         /\ Range(s) = Range(Tail(s)) \cup {Head(s)}
         /\ IsInjective(s) => IsInjective(Tail(s)) /\ Head(s) \notin Range(Tail(s))
<1> DEFINE n == Len(s) - 1
           r == Tail(s)
<1>1. n \in Nat /\ DOMAIN s = 1 .. n + 1 /\ Len(s) = n + 1
  BY EmptySeq, LenProperties
<1>2. Head(s) = s[1] /\ Head(s) \in S /\ r \in Seq(S) /\ Len(r) = n
      /\ \A j \in 1 .. n : r[j] = s[j + 1]
  BY <1>1, HeadTailProperties, ElementOfSeq
<1>3. DOMAIN r = 1 .. n
  BY <1>2, LenProperties
<1> HIDE DEF r, n
<1>4. Range(s) = Range(r) \cup {s[1]}
  <2>1. \A j \in 1 .. n + 1 : j = 1 \/ (j - 1 \in 1 .. n /\ s[j] = r[j - 1])
    BY <1>1, <1>2
  <2>2. \A j \in 1 .. n + 1 : s[j] \in Range(r) \cup {s[1]}
    BY <1>3, <2>1 DEF Range
  <2>3. \A j \in 1 .. n : j + 1 \in 1 .. n + 1 /\ r[j] = s[j + 1]
    BY <1>1, <1>2
  <2>4. \A j \in 1 .. n : r[j] \in Range(s)
    BY <1>1, <2>3 DEF Range
  <2>5. s[1] \in Range(s)
    BY <1>1 DEF Range
  <2>6. \A p \in Range(s) : p \in Range(r) \cup {s[1]}
    BY <1>1, <2>2 DEF Range
  <2>7. \A p \in Range(r) : p \in Range(s)
    BY <1>3, <2>4 DEF Range
  <2> QED
    BY <2>5, <2>6, <2>7
<1>5. ASSUME IsInjective(s) PROVE IsInjective(r) /\ s[1] \notin Range(r)
  <2>1. \A x, y \in 1 .. n + 1 : s[x] = s[y] => x = y
    BY <1>1, <1>5 DEF IsInjective
  <2>2. \A x, y \in 1 .. n : r[x] = r[y] => x = y
    <3> TAKE x, y \in 1 .. n
    <3>1. x + 1 \in 1 .. n + 1 /\ y + 1 \in 1 .. n + 1 /\ r[x] = s[x + 1] /\ r[y] = s[y + 1]
      BY <1>1, <1>2
    <3>2. x + 1 = y + 1 => x = y
      BY <1>1
    <3> QED
      BY <2>1, <3>1, <3>2
  <2>3. \A x \in 1 .. n : r[x] # s[1]
    <3> TAKE x \in 1 .. n
    <3>1. x + 1 \in 1 .. n + 1 /\ 1 \in 1 .. n + 1 /\ r[x] = s[x + 1] /\ x + 1 # 1
      BY <1>1, <1>2
    <3> QED
      BY <2>1, <3>1
  <2> QED
    BY <1>3, <2>2, <2>3 DEF IsInjective, Range
<1> QED
  BY <1>2, <1>4, <1>5 DEF r

(* The pages of nobody when no drop is deleting.                           *)
LEMMA NotDeleting ==
  /\ call.op # "delete" => Undeleted = {} /\ Lost = leaked /\ \A n : ~Deleting(n)
  /\ call'.op # "delete" => Undeleted' = {} /\ Lost' = leaked' /\ \A n : ~Deleting(n)'
BY DEF Undeleted, Lost, Deleting

(* One page more is on the list, or nobody's.                              *)
LEMMA PageDeleted ==
  ASSUME PagesInv, call \in Call, DeletePage
  PROVE  PagesInv' /\ chain' = chain
<1> PICK ids, p : ids = call.page_ids /\ p = Head(ids)
  OBVIOUS
<1>1. /\ call.op = "delete" /\ ids \in Seq(PageIDs) /\ ids # <<>> /\ capacity' = capacity
      /\ free_list' = IF p \in pinned \/ Len(free_list) > kFREE_LIST_LIMIT
                      THEN free_list ELSE Append(free_list, p)
      /\ leaked' = IF p \in Range(free_list') THEN leaked ELSE leaked \cup {p}
      /\ chain' = chain /\ pinned' = pinned /\ gone' = gone
      /\ call'.op = "delete" /\ call'.page_ids = Tail(ids)
  <2>1. call.op = "delete" /\ ids # <<>>
    BY DEF DeletePage
  <2>2. /\ ids \in Seq(PageIDs)
        /\ [call EXCEPT !.page_ids = Tail(@)].op = "delete"
        /\ [call EXCEPT !.page_ids = Tail(@)].page_ids = Tail(ids)
    BY <2>1 DEF Call, NoCall
  <2>3. IF p \in pinned THEN capacity' = capacity /\ free_list' = free_list
        ELSE /\ capacity' = capacity
             /\ free_list' = IF Len(free_list) > kFREE_LIST_LIMIT THEN free_list
                             ELSE Append(free_list, p)
    BY DEF DeletePage, Refused, deallocate
  <2> QED
    BY <2>1, <2>2, <2>3 DEF DeletePage
<1>2. /\ p \in PageIDs /\ Undeleted = Undeleted' \cup {p} /\ p \notin Undeleted'
      /\ IsInjective(call'.page_ids)
  <2>1. IsInjective(ids)
    BY <1>1 DEF PagesInv, PagesApart
  <2> QED
    BY <1>1, <2>1, TailOf DEF Undeleted
<1>3. /\ Apart(capacity, free_list, chain, Lost) /\ p \in Lost /\ p \notin Range(free_list)
      /\ free_list \in Seq(PageIDs) /\ IsInjective(free_list)
      /\ Len(free_list) \in Nat /\ Len(free_list) <= kFREE_LIST_LIMIT + 1
      /\ \A q \in Undeleted : q \notin leaked
  <2>1. Apart(capacity, free_list, chain, Lost) /\ p \in Lost
    BY <1>2 DEF PagesInv, PagesApart, Lost
  <2>2. p \notin Range(free_list) /\ free_list \in Seq(PageIDs) /\ IsInjective(free_list)
    BY <2>1 DEF Apart
  <2> QED
    BY <1>1, <2>1, <2>2, RangeIs DEF PagesInv, PagesApart
<1>4. CASE p \in pinned \/ Len(free_list) > kFREE_LIST_LIMIT
  <2>1. free_list' = free_list /\ leaked' = leaked \cup {p}
    BY <1>1, <1>3, <1>4
  <2>2. Lost' = Lost /\ \A q \in Undeleted' : q \notin leaked'
    BY <1>2, <1>3, <2>1 DEF Lost
  <2> QED
    BY <1>1, <1>2, <1>3, <2>1, <2>2 DEF PagesInv, PagesApart, Unpinned, PinsTyped, GoneTyped
<1>5. CASE p \notin pinned /\ ~(Len(free_list) > kFREE_LIST_LIMIT)
  <2> PICK list : list = Append(free_list, p)
    OBVIOUS
  <2>1. /\ list \in Seq(PageIDs) /\ Len(list) = Len(free_list) + 1
        /\ Range(list) = Range(free_list) \cup {p} /\ IsInjective(list)
    BY <1>2, <1>3, Appended
  <2>2. free_list' = list /\ leaked' = leaked
    BY <1>1, <1>5, <2>1
  <2>3. Apart(capacity, list, chain, Lost \ Range(list))
    <3>1. /\ \A q \in Range(free_list) : q \in Range(list)
          /\ \A q \in Range(list) : q \in Range(free_list) \/ q \in Lost
      BY <1>3, <2>1
    <3> QED
      BY <1>3, <2>1, <3>1, ListLonger
  <2>4. Lost' = Lost \ Range(list)
    <3>1. \A q \in Lost : q \notin Range(free_list)
      BY <1>3 DEF Apart
    <3> QED
      BY <1>2, <1>3, <2>1, <2>2, <3>1 DEF Lost
  <2>5. Len(list) <= kFREE_LIST_LIMIT + 1
    BY <1>3, <1>5, <2>1, LimitAssumption
  <2>6. PagesApart'
    BY <1>1, <1>2, <1>3, <2>2, <2>3, <2>4, <2>5 DEF PagesApart
  <2>7. Unpinned'
    BY <1>1, <1>5, <2>1, <2>2 DEF PagesInv, Unpinned
  <2> QED
    BY <1>1, <2>6, <2>7 DEF PagesInv, PinsTyped, GoneTyped
<1> QED
  BY <1>1, <1>4, <1>5
-----------------------------------------------------------------------------
(* Rows and the order of the scan.                                         *)
LEMMA Division ==
  ASSUME NEW r \in Nat \ {0}, NEW k \in Nat
  PROVE  k \div r \in Nat /\ k % r \in 0 .. r - 1 /\ k = r * (k \div r) + (k % r)
OBVIOUS

LEMMA Times ==
  ASSUME NEW r \in Nat \ {0}, NEW a \in Nat, NEW b \in Nat
  PROVE  /\ r * a \in Nat /\ r * (a + 1) = r * a + r
         /\ a < b => r * a + r <= r * b
OBVIOUS

LEMMA Divides ==
  ASSUME NEW r \in Nat \ {0}, NEW q \in Nat, NEW s \in 0 .. r - 1
  PROVE  (r * q + s) \div r = q /\ (r * q + s) % r = s
<1> PICK k : k = r * q + s
  OBVIOUS
<1>1. k \in Nat /\ r * q \in Nat
  OBVIOUS
<1>2. k \div r \in Nat /\ k % r \in 0 .. r - 1 /\ k = r * (k \div r) + (k % r)
  BY <1>1, Division
<1> PICK d, m : d = k \div r /\ m = k % r
  OBVIOUS
<1>3. ~(d < q) /\ ~(q < d)
  <2>1. d < q => r * d + r <= r * q
    BY <1>2, Times
  <2>2. q < d => r * q + r <= r * d
    BY <1>2, Times
  <2>3. r * d \in Nat /\ r * d + m = r * q + s /\ m \in Nat /\ m < r
    BY <1>2
  <2> QED
    BY <1>1, <2>1, <2>2, <2>3
<1>4. d = q
  BY <1>2, <1>3
<1>5. m = s
  BY <1>1, <1>2, <1>4
<1> QED
  BY <1>4, <1>5

LEMMA PlacesAre ==
  ASSUME CatalogPages \in Seq(PageIDs)
  PROVE  /\ Places \in SUBSET Nat
         /\ \A i \in Places : /\ Place(i) \in RID
                              /\ Place(i).page_id \in Range(CatalogPages)
         /\ \A rid \in RID : rid.page_id \in Range(CatalogPages) => \E i \in Places : Place(i) = rid
         /\ IsInjective(CatalogPages) =>
              \A i, j \in Places : Place(i) = Place(j) => i = j
<1> PICK s, r : s = CatalogPages /\ r = RowsPerPage
  OBVIOUS
<1>1. /\ s \in Seq(PageIDs) /\ r \in Nat \ {0} /\ Len(s) \in Nat /\ DOMAIN s = 1 .. Len(s)
      /\ \A i \in 1 .. Len(s) : s[i] \in PageIDs /\ s[i] \in Range(s)
      /\ \A p : p \in Range(s) <=> \E i \in 1 .. Len(s) : p = s[i]
  BY RangeIs, CatalogAssumption
<1>2. r * Len(s) \in Nat /\ Places = 1 .. r * Len(s)
  BY <1>1, Times DEF Places
<1>3. \A i : Place(i) = [page_id |-> s[((i - 1) \div r) + 1], slot_num |-> (i - 1) % r]
  BY DEF Place
<1>4. ASSUME NEW i \in Places
      PROVE  /\ i - 1 \in Nat
             /\ (i - 1) \div r \in Nat /\ (i - 1) % r \in 0 .. r - 1
             /\ i - 1 = r * ((i - 1) \div r) + ((i - 1) % r)
             /\ ((i - 1) \div r) + 1 \in 1 .. Len(s)
  <2> PICK k, n, all : k = i - 1 /\ n = Len(s) /\ all = r * n
    OBVIOUS
  <2>1. k \in Nat /\ k < all /\ all \in Nat /\ n \in Nat
    BY <1>1, <1>2
  <2> PICK d, m, part : d = k \div r /\ m = k % r /\ part = r * d
    OBVIOUS
  <2>2. d \in Nat /\ m \in 0 .. r - 1 /\ k = part + m
    BY <1>1, <2>1, Division
  <2>3. part \in Nat /\ (n < d => all + r <= part)
    BY <1>1, <2>1, <2>2, Times
  <2>4. ~(n < d) /\ n # d
    <3>1. n = d => part = all
      OBVIOUS
    <3> QED
      BY ONLY <1>1, <2>1, <2>2, <2>3, <3>1
  <2>5. d + 1 \in 1 .. n
    BY ONLY <2>1, <2>2, <2>4
  <2> QED
    BY <2>1, <2>2, <2>5
<1>5. ASSUME NEW i \in Places
      PROVE  /\ Place(i) \in RID /\ Place(i).page_id \in Range(s)
             /\ Place(i).page_id = s[((i - 1) \div r) + 1] /\ Place(i).slot_num = (i - 1) % r
  BY <1>1, <1>3, <1>4 DEF RID
<1>6. ASSUME NEW rid \in RID, rid.page_id \in Range(s)
      PROVE  \E i \in Places : Place(i) = rid
  <2>1. PICK q1 \in 1 .. Len(s) : rid.page_id = s[q1]
    BY <1>1, <1>6
  <2> PICK q, m, n, part : q = q1 - 1 /\ m = rid.slot_num /\ n = Len(s) /\ part = r * q
    OBVIOUS
  <2> PICK i, all : i = part + m + 1 /\ all = r * n
    OBVIOUS
  <2>2. /\ q \in Nat /\ q + 1 = q1 /\ n \in Nat /\ q < n /\ m \in 0 .. r - 1
        /\ r \in Nat /\ all \in Nat
    BY <1>1, <1>2, <2>1 DEF RID
  <2>3. part \in Nat /\ part + r <= all
    BY <1>1, <2>2, Times
  <2>4. i \in 1 .. all /\ i - 1 = part + m
    BY ONLY <2>2, <2>3, i = part + m + 1
  <2>5. (i - 1) \div r = q /\ (i - 1) % r = m /\ i \in Places
    <3>1. (r * q + m) \div r = q /\ (r * q + m) % r = m
      BY <1>1, <2>2, Divides
    <3>2. i - 1 = r * q + m
      BY <2>4
    <3>3. i \in Places
      BY <1>2, <2>4
    <3> QED
      BY <3>1, <3>2, <3>3
  <2>6. Place(i) = [page_id |-> s[q1], slot_num |-> m]
    BY <1>3, <2>2, <2>5
  <2>7. rid = [page_id |-> rid.page_id, slot_num |-> m]
    BY DEF RID
  <2> QED
    BY <2>1, <2>5, <2>6, <2>7
<1>7. ASSUME IsInjective(s), NEW i \in Places, NEW j \in Places, Place(i) = Place(j)
      PROVE  i = j
  <2>1. s[((i - 1) \div r) + 1] = s[((j - 1) \div r) + 1] /\ (i - 1) % r = (j - 1) % r
    BY <1>5, <1>7
  <2>2. ((i - 1) \div r) + 1 = ((j - 1) \div r) + 1
    BY <1>1, <1>4, <1>7, <2>1 DEF IsInjective
  <2>3. (i - 1) \div r = (j - 1) \div r
    BY <1>4, <2>2
  <2>4. i - 1 = j - 1
    BY <1>4, <2>1, <2>3
  <2> QED
    BY <1>2, <2>4
<1> QED
  BY <1>2, <1>5, <1>6, <1>7

(* The place that insert_tuple takes.                                      *)
LEMMA FirstEmpty ==
  ASSUME CatalogPages \in Seq(PageIDs), Empty # {}
  PROVE  /\ Place(Min(Empty)) \in RID /\ Place(Min(Empty)).page_id \in Range(CatalogPages)
         /\ Place(Min(Empty)) \notin DOMAIN rows
<1>1. Empty \in SUBSET Nat /\ Empty \subseteq Places
  BY PlacesAre DEF Empty
<1>2. \E x \in Empty : \A y \in Empty : x <= y
  BY <1>1, Least
<1>3. Min(Empty) \in Empty
  BY <1>2 DEF Min
<1>4. Min(Empty) \in Places /\ Place(Min(Empty)) \notin DOMAIN rows
  BY <1>3 DEF Empty
<1> QED
  BY <1>4, PlacesAre

(* What load_existing_tables makes of rows with different names.           *)
LEMMA LoadedIs ==
  ASSUME CatalogPages \in Seq(PageIDs), IsInjective(CatalogPages),
         DOMAIN rows \subseteq RID, RowsOnPages,
         \A r, s \in DOMAIN rows : rows[r].name = rows[s].name => r = s
  PROVE  /\ DOMAIN load_existing_tables = {rows[r].name : r \in DOMAIN rows}
         /\ \A r \in DOMAIN rows : load_existing_tables[rows[r].name] =
              [rid |-> r, first_page_id |-> rows[r].first_page_id, by |-> NoTx]
<1>1. Scanned \subseteq Places /\ \A i \in Places : i \in Scanned <=> Place(i) \in DOMAIN rows
  BY DEF Scanned
<1>2. \A r \in DOMAIN rows : \E i \in Scanned : Place(i) = r
  BY <1>1, PlacesAre DEF RowsOnPages
<1>3. {rows[Place(i)].name : i \in Scanned} = {rows[r].name : r \in DOMAIN rows}
  <2>1. ASSUME NEW i \in Scanned PROVE rows[Place(i)].name \in {rows[r].name : r \in DOMAIN rows}
    BY <1>1
  <2>2. ASSUME NEW r \in DOMAIN rows PROVE rows[r].name \in {rows[Place(i)].name : i \in Scanned}
    BY <1>2
  <2> QED
    BY <2>1, <2>2
<1>4. ASSUME NEW r \in DOMAIN rows
      PROVE  Place(Max({i \in Scanned : rows[Place(i)].name = rows[r].name})) = r
  <2> DEFINE S == {i \in Scanned : rows[Place(i)].name = rows[r].name}
  <2>1. PICK i \in Scanned : Place(i) = r
    BY <1>2
  <2>2. \A j \in S : Place(j) = r
    BY <1>1
  <2>3. \A j \in S : j = i
    BY <1>1, <2>1, <2>2, PlacesAre
  <2>4. S = {i} /\ i \in Nat
    BY <1>1, <2>1, <2>3, PlacesAre
  <2> HIDE DEF S
  <2>5. Max(S) = i
    <3>1. \E x \in S : \A y \in S : x >= y
      BY <2>4
    <3>2. Max(S) \in S
      BY <3>1 DEF Max
    <3> QED
      BY <2>4, <3>2
  <2> QED
    BY <2>1, <2>5 DEF S
<1> DEFINE names1 == {rows[r].name : r \in DOMAIN rows}
           Loads(n, i) == [rid |-> Place(i), first_page_id |-> rows[Place(i)].first_page_id,
                           by |-> NoTx]
<1>5. load_existing_tables =
        [n \in names1 |-> Loads(n, Max({i \in Scanned : rows[Place(i)].name = n}))]
  BY <1>3 DEF load_existing_tables
<1>6. ASSUME NEW r \in DOMAIN rows
      PROVE  load_existing_tables[rows[r].name] =
               [rid |-> r, first_page_id |-> rows[r].first_page_id, by |-> NoTx]
  <2>1. rows[r].name \in names1
    OBVIOUS
  <2> HIDE DEF names1
  <2>2. load_existing_tables[rows[r].name] =
          Loads(rows[r].name, Max({i \in Scanned : rows[Place(i)].name = rows[r].name}))
    BY <1>5, <2>1
  <2> QED
    BY <1>4, <2>2
<1> QED
  BY <1>5, <1>6
-----------------------------------------------------------------------------
(* What the invariant says of calls, rows and logs.                        *)
LEMMA CallTypes ==
  ASSUME call \in Call
  PROVE  /\ call.op \in {"none", "heap", "row", "walk", "delete"}
         /\ call.op = "none" => call = NoCall
         /\ Creating => /\ call.name \in Name /\ call.tx \in Tx \cup {NoTx}
                        /\ call.page \in PageIDs
         /\ call.op = "row" => call.rid \in RID
         /\ call.op \in {"walk", "delete"} => call.name \in Name /\ call.tx \in Tx \cup {NoTx}
         /\ NoCall.op = "none"
BY DEF Call, NoCall, Creating

LEMMA Records ==
  /\ \A x \in TableEntry : /\ x.rid \in RID /\ x.first_page_id \in PageIDs
                           /\ x.by \in Tx \cup {NoTx}
                           /\ x = [rid |-> x.rid, first_page_id |-> x.first_page_id, by |-> x.by]
  /\ \A x \in Row : /\ x.name \in Name /\ x.first_page_id \in PageIDs
                    /\ x.by \in Tx \cup {NoTx}
                    /\ x = [name |-> x.name, first_page_id |-> x.first_page_id, by |-> x.by]
  /\ \A x \in UndoRecord : /\ x.kind \in {"delete", "drop"}
                           /\ x.kind = "delete" => x.rid \in RID
                           /\ x.kind = "drop" => x.name \in Name
BY DEF TableEntry, Row, UndoRecord

LEMMA LiveIs ==
  ASSUME TxsTyped, NEW t \in Tx
  PROVE  /\ Live(t) \in Nat /\ Live(t) <= Len(log[t]) /\ Len(log[t]) \in Nat
         /\ \A i \in 1 .. Live(t) : i \in 1 .. Len(log[t]) /\ log[t][i] \in UndoRecord
<1>1. log[t] \in Seq(UndoRecord) /\ left[t] \in Nat /\ left[t] <= Len(log[t])
  BY DEF TxsTyped
<1>2. Len(log[t]) \in Nat /\ \A i \in 1 .. Len(log[t]) : log[t][i] \in UndoRecord
  BY <1>1, RangeIs
<1>3. Live(t) \in Nat /\ Live(t) <= Len(log[t])
  BY <1>1, <1>2 DEF Live
<1>4. \A i \in 1 .. Live(t) : i \in 1 .. Len(log[t])
  BY <1>2, <1>3
<1> QED
  BY <1>2, <1>3, <1>4

(* A table of a transaction has its row.                                   *)
LEMMA OwnSettled ==
  ASSUME NamesInv, NEW t \in Tx, NEW n \in DOMAIN tables, tables[n].by = t
  PROVE  /\ Settled(n) /\ tables[n].rid \in DOMAIN rows
         /\ rows[tables[n].rid].name = n /\ rows[tables[n].rid].by = t
<1>1. t # NoTx
  BY CatalogAssumption
<1>2. n \notin torn /\ ~Dropping(n)
  BY <1>1 DEF NamesInv, RowsFollow, CallsFit, Dropping
<1> QED
  BY <1>2 DEF NamesInv, RowsFollow, TableFits, Settled

(* The rows in a log are the transaction's own, and not the one just       *)
(* written.                                                                *)
LEMMA LoggedRow ==
  ASSUME NamesInv, NEW t \in Tx, NEW i \in 1 .. Live(t), log[t][i].kind = "delete"
  PROVE  /\ log[t][i].rid \in DOMAIN rows /\ rows[log[t][i].rid].by = t
         /\ ~(call.op = "row" /\ call.rid = log[t][i].rid)
<1>1. DeleteFits(t, i)
  BY DEF NamesInv, Logs, LogFits
<1>2. SUFFICES ASSUME call.op = "row", call.rid = log[t][i].rid PROVE FALSE
  BY <1>1 DEF DeleteFits
<1>3. /\ call.name \notin DOMAIN tables /\ rows[call.rid].name = call.name
      /\ rows[call.rid].by = call.tx /\ (call.tx # NoTx => pc[call.tx] # "undo")
  BY <1>2 DEF NamesInv, CallsFit, Creating
<1>4. call.tx = t /\ t # NoTx /\ pc[t] # "undo"
  BY <1>1, <1>2, <1>3, CatalogAssumption DEF DeleteFits
<1>5. i < Live(t) /\ log[t][i + 1].kind = "drop"
  BY <1>1, <1>4 DEF DeleteFits
<1>6. Live(t) \in Nat
  BY LiveIs DEF NamesInv
<1> PICK j : j = i + 1
  OBVIOUS
<1>7. j \in 1 .. Live(t) /\ j - 1 = i /\ log[t][j].kind = "drop"
  BY <1>5, <1>6
<1> PICK n : n = log[t][j].name
  OBVIOUS
<1>8. DropFits(t, j)
  BY <1>7 DEF NamesInv, Logs, LogFits
<1>9. n \in DOMAIN tables /\ tables[n].by = t /\ log[t][i].rid = tables[n].rid
  BY <1>7, <1>8 DEF DropFits
<1>10. rows[tables[n].rid].name = n
  BY <1>9, OwnSettled
<1> QED
  BY <1>2, <1>3, <1>9, <1>10

(* A log stays as it fits, when it and the tables and rows in it stay; an  *)
(* abort may stop where nothing is left, or where a table is the next.     *)
LEMMA LogKept ==
  ASSUME NEW t \in Tx, LogFits(t), Live(t) \in Nat, Live(t)' = Live(t), log'[t] = log[t],
         pc'[t] # "ready" => state'[t] # "GROWING",
         pc'[t] = "ended" => left'[t] = 0,
         pc[t] = "undo" => \/ pc'[t] = "undo"
                          \/ Live(t) = 0 \/ log[t][Live(t)].kind = "drop",
         \A n \in DOMAIN tables : tables[n].by = t =>
            n \in DOMAIN tables' /\ tables'[n].by = t /\ tables'[n].rid = tables[n].rid,
         \A i \in 1 .. Live(t) : log[t][i].kind = "delete" =>
            log[t][i].rid \in DOMAIN rows' /\ rows'[log[t][i].rid].by = t
  PROVE  LogFits(t)'
<1> PICK m, l : m = Live(t) /\ l = log[t]
  OBVIOUS
<1>0. Live(t)' = m /\ log'[t] = l /\ m \in Nat
  OBVIOUS
<1>1. ASSUME NEW i \in 1 .. m, l[i].kind = "drop" PROVE DropFits(t, i)'
  <2>1. DropFits(t, i)
    BY <1>0, <1>1 DEF LogFits
  <2>2. /\ l[i].name \in DOMAIN tables /\ tables[l[i].name].by = t
        /\ i > 1 /\ l[i - 1].kind = "delete"
        /\ l[i - 1].rid = tables[l[i].name].rid
        /\ \A j \in 1 .. m : l[j].kind = "drop" /\ l[j].name = l[i].name => j = i
    BY <2>1 DEF DropFits
  <2> PICK n : n = l[i].name
    OBVIOUS
  <2>3. n \in DOMAIN tables' /\ tables'[n].by = t /\ tables'[n].rid = tables[n].rid
    BY <2>2
  <2> QED
    BY <1>0, <2>2, <2>3 DEF DropFits
<1>2. ASSUME NEW i \in 1 .. m, l[i].kind = "delete" PROVE DeleteFits(t, i)'
  <2>1. DeleteFits(t, i)
    BY <1>0, <1>2 DEF LogFits
  <2>2. /\ IF i < m THEN l[i + 1].kind = "drop" ELSE pc[t] = "undo"
        /\ \A j \in 1 .. m : l[j].kind = "delete" /\ l[j].rid = l[i].rid => j = i
    BY <2>1 DEF DeleteFits
  <2>3. l[i].rid \in DOMAIN rows' /\ rows'[l[i].rid].by = t
    BY <1>0, <1>2
  <2>4. IF i < m THEN l[i + 1].kind = "drop" ELSE pc'[t] = "undo"
    <3>1. CASE i < m
      BY <2>2, <3>1
    <3>2. CASE ~(i < m)
      <4>1. i = m /\ m # 0 /\ pc[t] = "undo" /\ l[m].kind # "drop"
        BY <1>0, <1>2, <2>2, <3>2
      <4> QED
        BY <3>2, <4>1
    <3> QED
      BY <3>1, <3>2
  <2> QED
    BY <1>0, <2>2, <2>3, <2>4 DEF DeleteFits
<1> QED
  BY <1>0, <1>1, <1>2 DEF LogFits

LEMMA LoggedKept ==
  ASSUME NEW t \in Tx, Logged(t), Live(t)' = Live(t), log'[t] = log[t],
         \A n \in DOMAIN tables' : tables'[n].by = t => n \in DOMAIN tables /\ tables[n].by = t
  PROVE  Logged(t)'
BY DEF Logged

-----------------------------------------------------------------------------
(* The names, the rows and the logs, step by step.                         *)
LEMMA NamesSame ==
  ASSUME NamesInv, UNCHANGED <<names, txs>>, call' \in Call, CallsFit',
         call.op # "row", call'.op # "row", \A n : Dropping(n)' <=> Dropping(n)
  PROVE  NamesInv'
<1>1. rows' = rows /\ tables' = tables /\ torn' = torn /\ state' = state /\ log' = log
      /\ left' = left /\ pc' = pc /\ locks' = locks
  BY DEF names, txs
<1>2. NamesTyped' /\ TxsTyped'
  BY <1>1 DEF NamesInv, NamesTyped, TxsTyped
<1>3. \A n : Settled(n)' <=> Settled(n)
  BY <1>1 DEF Settled
<1>4. RowsFollow'
  <2>1. \A n \in DOMAIN tables : TableFits(n)'
    BY <1>1, <1>3 DEF NamesInv, RowsFollow, TableFits
  <2>2. ASSUME NEW r \in DOMAIN rows PROVE RowFits(r)'
    <3>1. Undoing(r) => Undoing(r)'
      BY <1>1 DEF Undoing
    <3>2. RowFits(r)
      BY DEF NamesInv, RowsFollow
    <3> QED
      BY <1>1, <1>3, <3>1, <3>2 DEF RowFits
  <2> QED
    BY <1>1, <2>1, <2>2 DEF NamesInv, RowsFollow
<1>5. Logs'
  BY <1>1 DEF NamesInv, Logs, LogFits, Logged, Live, DropFits, DeleteFits
<1> QED
  BY <1>2, <1>4, <1>5 DEF NamesInv

(* A create_table that has not written its row begins or ends.             *)
LEMMA CallMade ==
  ASSUME NamesInv, UNCHANGED <<names, txs>>, call' \in Call,
         call.op \in {"none", "heap"}, call'.op \in {"none", "heap"},
         call'.op = "heap" => /\ call'.name \notin DOMAIN tables
                              /\ call'.tx # NoTx => pc'[call'.tx] # "undo"
  PROVE  NamesInv'
<1>1. CallsFit' /\ \A n : Dropping(n)' <=> Dropping(n)
  BY DEF CallsFit, Creating, Dropping, names
<1> QED
  BY <1>1, NamesSame

(* A drop that goes on, for the same table and the same caller.            *)
LEMMA DropGoesOn ==
  ASSUME NamesInv, UNCHANGED <<names, txs>>, call' \in Call,
         call.op \in {"walk", "delete"}, call'.op \in {"walk", "delete"},
         call'.name = call.name, call'.tx = call.tx
  PROVE  NamesInv'
<1>1. CallsFit'
  <2>1. /\ call.name \in DOMAIN tables
        /\ call.tx = NoTx => call.name \notin torn /\ tables[call.name].by = NoTx
        /\ call.tx # NoTx => Undoes(call.tx, call.name)
    BY DEF NamesInv, CallsFit
  <2>2. ~Creating' /\ call'.op # "row"
    BY DEF Creating
  <2>3. tables' = tables /\ torn' = torn /\ pc' = pc /\ log' = log /\ left' = left
    BY DEF names, txs
  <2> QED
    BY <2>1, <2>2, <2>3 DEF CallsFit, Undoes
<1>2. \A n : Dropping(n)' <=> Dropping(n)
  BY DEF Dropping
<1> QED
  BY <1>1, <1>2, NamesSame

(* A call that waits while others go on.                                   *)
LEMMA CallKept ==
  ASSUME call \in Call, CallsFit, call' = call, torn' = torn, DOMAIN tables' = DOMAIN tables,
         \A n \in DOMAIN tables : tables[n].by = NoTx => tables'[n].by = NoTx,
         Creating /\ call.tx # NoTx => pc'[call.tx] # "undo",
         call.op = "row" /\ call.rid \in DOMAIN rows =>
           /\ call.rid \in DOMAIN rows'
           /\ rows'[call.rid].name = rows[call.rid].name
           /\ rows'[call.rid].first_page_id = rows[call.rid].first_page_id
           /\ rows'[call.rid].by = rows[call.rid].by,
         \A t \in Tx : \A n : Undoes(t, n) => Undoes(t, n)'
  PROVE  CallsFit'
<1>1. call.op \in {"walk", "delete"} /\ call.tx # NoTx => call.tx \in Tx
  BY CallTypes
<1>2. Creating => /\ call.name \notin DOMAIN tables'
                  /\ call.tx # NoTx => pc'[call.tx] # "undo"
  BY DEF CallsFit
<1>3. call.op = "row" =>
        /\ call.rid \in DOMAIN rows' /\ rows'[call.rid].name = call.name
        /\ rows'[call.rid].first_page_id = call.page /\ rows'[call.rid].by = call.tx
  BY DEF CallsFit
<1>4. call.op \in {"walk", "delete"} =>
        /\ call.name \in DOMAIN tables'
        /\ call.tx = NoTx => call.name \notin torn' /\ tables'[call.name].by = NoTx
        /\ call.tx # NoTx => Undoes(call.tx, call.name)'
  BY <1>1 DEF CallsFit
<1>5. (Creating' <=> Creating) /\ \A t, n : Undoes(t, n)' => pc'[t] = "undo"
  BY DEF Creating, Undoes
<1> QED
  BY <1>2, <1>3, <1>4, <1>5 DEF CallsFit, Undoes

LEMMA AllSame ==
  ASSUME NamesInv, UNCHANGED <<names, txs, call>>
  PROVE  NamesInv'
<1>1. rows' = rows /\ tables' = tables /\ torn' = torn /\ state' = state /\ log' = log
      /\ left' = left /\ pc' = pc /\ locks' = locks /\ call' = call
  BY DEF names, txs
<1>2. NamesTyped' /\ TxsTyped'
  BY <1>1 DEF NamesInv, NamesTyped, TxsTyped
<1>3. CallsFit'
  BY <1>1 DEF NamesInv, CallsFit, Creating, Undoes
<1>4. RowsFollow'
  BY <1>1 DEF NamesInv, RowsFollow, TableFits, RowFits, Undoing, Settled, Dropping
<1>5. Logs'
  BY <1>1 DEF NamesInv, Logs, LogFits, Logged, Live, DropFits, DeleteFits
<1> QED
  BY <1>2, <1>3, <1>4, <1>5 DEF NamesInv

LEMMA RowWritten ==
  ASSUME NamesInv, call.op = "heap", NEW rid \in RID, rid \notin DOMAIN rows,
         Written(rid), UNCHANGED <<tables, torn, txs>>
  PROVE  NamesInv'
<1>1. tables' = tables /\ torn' = torn /\ state' = state /\ log' = log
      /\ left' = left /\ pc' = pc /\ locks' = locks
  BY DEF txs
<1>2. /\ call.name \in Name /\ call.tx \in Tx \cup {NoTx} /\ call.page \in PageIDs
      /\ call.name \notin DOMAIN tables /\ (call.tx # NoTx => pc[call.tx] # "undo")
  BY CallTypes DEF NamesInv, NamesTyped, CallsFit, Creating
<1> PICK new : new = [name |-> call.name, first_page_id |-> call.page, by |-> call.tx]
  OBVIOUS
<1>3. new \in Row /\ new.name = call.name /\ new.first_page_id = call.page /\ new.by = call.tx
  BY <1>2 DEF Row
<1>4. /\ DOMAIN rows' = DOMAIN rows \cup {rid} /\ rows'[rid] = new
      /\ \A r \in DOMAIN rows : r # rid /\ rows'[r] = rows[r]
  <2>1. rows' = With(rows, rid, new)
    BY DEF Written
  <2> QED
    BY <2>1 DEF With
<1>5. /\ call'.op = "row" /\ call'.name = call.name /\ call'.tx = call.tx
      /\ call'.page = call.page /\ call'.rid = rid /\ call' \in Call
  BY <1>2 DEF Written, Call
<1>6. NamesTyped' /\ TxsTyped'
  BY <1>1, <1>3, <1>4, <1>5 DEF NamesInv, NamesTyped, TxsTyped
<1>7. CallsFit'
  BY <1>1, <1>2, <1>3, <1>4, <1>5 DEF CallsFit, Creating
<1>8. \A n : Settled(n)' <=> Settled(n)
  BY <1>1, <1>5 DEF Settled, Dropping
<1>9. RowsFollow'
  <2>1. \A n \in DOMAIN tables : TableFits(n)'
    BY <1>1, <1>4, <1>8 DEF NamesInv, RowsFollow, TableFits
  <2>2. ASSUME NEW r \in DOMAIN rows PROVE RowFits(r)'
    <3>1. Undoing(r) => Undoing(r)'
      BY <1>1, <1>4 DEF Undoing
    <3>2. RowFits(r)
      BY DEF NamesInv, RowsFollow
    <3> QED
      BY <1>1, <1>4, <1>8, <3>1, <3>2 DEF RowFits
  <2>3. RowFits(rid)'
    BY <1>5 DEF RowFits
  <2> QED
    BY <1>1, <1>4, <2>1, <2>2, <2>3 DEF NamesInv, RowsFollow
<1>10. Logs'
  <2> SUFFICES ASSUME NEW t \in Tx PROVE LogFits(t)' /\ Logged(t)'
    BY DEF Logs
  <2>1. LogFits(t) /\ Logged(t) /\ Live(t)' = Live(t) /\ Live(t) \in Nat
    BY <1>1, LiveIs DEF NamesInv, Logs, Live
  <2>2. \A i \in 1 .. Live(t) : log[t][i].kind = "delete" =>
          log[t][i].rid \in DOMAIN rows' /\ rows'[log[t][i].rid].by = t
    BY <1>4, LoggedRow
  <2>3. (pc[t] # "ready" => state[t] # "GROWING") /\ (pc[t] = "ended" => left[t] = 0)
    BY <2>1 DEF LogFits
  <2>4. LogFits(t)'
    BY <1>1, <2>1, <2>2, <2>3, LogKept
  <2> QED
    BY <1>1, <2>1, <2>4, LoggedKept
<1> QED
  BY <1>6, <1>7, <1>9, <1>10 DEF NamesInv

LEMMA RowKeptNow ==
  ASSUME NamesInv, Careful, KeepRow
  PROVE  NamesInv'
<1> PICK t, name, rid, entry : t = call.tx /\ name = call.name /\ rid = call.rid
      /\ entry = [rid |-> rid, first_page_id |-> call.page, by |-> t]
  OBVIOUS
<1>1. /\ call.op = "row" /\ call' = NoCall /\ rows' = rows /\ torn' = torn
      /\ state' = state /\ left' = left /\ pc' = pc /\ tables' = With(tables, name, entry)
      /\ IF t = NoTx THEN log' = log /\ locks' = locks
         ELSE /\ log' = [log EXCEPT ![t] = @ \o Created(t, name, rid)]
              /\ locks' = [locks EXCEPT ![t] = @ \cup {rid}] /\ state[t] = "GROWING"
  BY DEF KeepRow, Granted
<1>2. /\ name \in Name /\ t \in Tx \cup {NoTx} /\ call.page \in PageIDs /\ rid \in RID
      /\ name \notin DOMAIN tables
      /\ rid \in DOMAIN rows /\ rows[rid].name = name
      /\ rows[rid].first_page_id = call.page /\ rows[rid].by = t
  BY <1>1, CallTypes DEF NamesInv, NamesTyped, CallsFit, Creating
<1>3. /\ entry \in TableEntry /\ entry.rid = rid /\ entry.by = t
      /\ entry.first_page_id = call.page
  BY <1>2 DEF TableEntry
<1>4. /\ DOMAIN tables' = DOMAIN tables \cup {name} /\ tables'[name] = entry
      /\ \A n \in DOMAIN tables : n # name /\ tables'[n] = tables[n]
  BY <1>1, <1>2 DEF With
<1>5. call' = NoCall /\ call' \in Call /\ call'.op = "none"
  BY <1>1, CallTypes DEF NamesInv, NamesTyped, Call, NoCall
<1>6. NamesTyped'
  BY <1>1, <1>2, <1>3, <1>4, <1>5 DEF NamesInv, NamesTyped
<1>7. ASSUME t # NoTx
      PROVE  /\ t \in Tx /\ pc[t] = "ready" /\ Live(t) = Len(log[t]) /\ Len(log[t]) \in Nat
             /\ log'[t] \in Seq(UndoRecord) /\ Len(log'[t]) = Len(log[t]) + 2
             /\ \A i \in 1 .. Len(log[t]) : log'[t][i] = log[t][i]
             /\ log'[t][Len(log[t]) + 1].kind = "delete" /\ log'[t][Len(log[t]) + 1].rid = rid
             /\ log'[t][Len(log[t]) + 2].kind = "drop" /\ log'[t][Len(log[t]) + 2].name = name
             /\ log' \in [Tx -> Seq(UndoRecord)] /\ locks' \in [Tx -> SUBSET RID]
             /\ \A u \in Tx : u # t => log'[u] = log[u]
  <2>1. t \in Tx /\ LogFits(t) /\ state[t] = "GROWING"
    BY <1>1, <1>2, <1>7 DEF NamesInv, Logs
  <2>2. pc[t] = "ready" /\ Live(t) = Len(log[t])
    BY <2>1 DEF LogFits, Live
  <2> PICK d, k, l : d = [kind |-> "delete", rid |-> rid] /\ k = [kind |-> "drop", name |-> name]
                     /\ l = log[t]
    OBVIOUS
  <2>3. d \in UndoRecord /\ k \in UndoRecord /\ <<d, k>> \in Seq(UndoRecord)
    BY <1>2 DEF UndoRecord
  <2>4. log \in [Tx -> Seq(UndoRecord)] /\ l \in Seq(UndoRecord) /\ locks \in [Tx -> SUBSET RID]
        /\ Len(l) \in Nat
    BY <2>1, LenProperties DEF NamesInv, TxsTyped
  <2>5. log' = [log EXCEPT ![t] = l \o <<d, k>>] /\ locks' = [locks EXCEPT ![t] = @ \cup {rid}]
    BY <1>1, <1>7 DEF Created
  <2>6. /\ l \o <<d, k>> \in Seq(UndoRecord) /\ Len(l \o <<d, k>>) = Len(l) + 2
        /\ \A i \in 1 .. Len(l) : (l \o <<d, k>>)[i] = l[i]
        /\ (l \o <<d, k>>)[Len(l) + 1] = d /\ (l \o <<d, k>>)[Len(l) + 2] = k
    BY <2>3, <2>4
  <2>7. log'[t] = l \o <<d, k>> /\ log' \in [Tx -> Seq(UndoRecord)]
        /\ locks' \in [Tx -> SUBSET RID] /\ \A u \in Tx : u # t => log'[u] = log[u]
    BY <1>2, <2>1, <2>4, <2>5, <2>6
  <2> QED
    BY <2>1, <2>2, <2>4, <2>6, <2>7
<1>8. TxsTyped'
  <2>1. CASE t = NoTx
    BY <1>1, <2>1 DEF NamesInv, TxsTyped
  <2>2. CASE t # NoTx
    <3>1. \A u \in Tx : left[u] \in Nat /\ left[u] <= Len(log[u])
      BY DEF NamesInv, TxsTyped
    <3>2. \A u \in Tx : left'[u] <= Len(log'[u])
      BY <1>1, <1>7, <2>2, <3>1
    <3> QED
      BY <1>1, <1>7, <2>2, <3>2 DEF NamesInv, TxsTyped
  <2> QED
    BY <2>1, <2>2
<1>9. CallsFit'
  BY <1>5 DEF CallsFit, Creating
<1>10. \A n \in DOMAIN tables : Settled(n)' <=> Settled(n)
  BY <1>1, <1>4, <1>5 DEF Settled, Dropping
<1>11. RowsFollow'
  <2>1. torn \subseteq DOMAIN tables /\ \A n \in torn : tables'[n].by = NoTx
    BY <1>4 DEF NamesInv, NamesTyped, RowsFollow
  <2>2. ASSUME NEW n \in DOMAIN tables PROVE TableFits(n)'
    BY <1>1, <1>4, <1>10, <2>2 DEF NamesInv, RowsFollow, TableFits
  <2>3. TableFits(name)'
    BY <1>1, <1>2, <1>3, <1>4 DEF TableFits
  <2>4. Settled(name)'
    BY <1>1, <1>2, <1>4, <1>5, <2>1 DEF Settled, Dropping
  <2>5. ASSUME NEW r \in DOMAIN rows, r # rid PROVE RowFits(r)'
    <3>1. RowFits(r) /\ r \in DOMAIN rows' /\ rows'[r] = rows[r]
      BY <1>1 DEF NamesInv, RowsFollow
    <3>2. ASSUME Undoing(r) PROVE Undoing(r)'
      <4>1. PICK u \in Tx : /\ pc[u] = "undo" /\ left[u] > 0 /\ rows[r].by = u
                            /\ log[u][left[u]].kind = "delete" /\ log[u][left[u]].rid = r
        BY <3>2 DEF Undoing
      <4>2. log'[u] = log[u]
        BY <1>1, <1>7, <4>1
      <4> QED
        BY <1>1, <4>1, <4>2 DEF Undoing
    <3>3. ASSUME Settled(rows[r].name), tables[rows[r].name].rid = r
          PROVE  Settled(rows[r].name)' /\ tables'[rows[r].name].rid = r
      <4>1. rows[r].name \in DOMAIN tables
        BY <3>3 DEF Settled
      <4> QED
        BY <1>1, <1>4, <1>10, <3>3, <4>1
    <3>4. ~(call.op = "row" /\ call.rid = r)
      BY <2>5
    <3> QED
      BY <3>1, <3>2, <3>3, <3>4 DEF RowFits
  <2>6. RowFits(rid)'
    BY <1>1, <1>2, <1>3, <1>4, <2>4 DEF RowFits
  <2> QED
    BY <1>1, <1>4, <2>1, <2>2, <2>3, <2>5, <2>6 DEF RowsFollow
<1>12. ASSUME NEW u \in Tx, u # t PROVE LogFits(u)' /\ Logged(u)'
  <2>1. LogFits(u) /\ Logged(u) /\ log'[u] = log[u]
    BY <1>1, <1>7, <1>12 DEF NamesInv, Logs
  <2>2. Live(u)' = Live(u) /\ Live(u) \in Nat
    BY <1>1, <2>1, LiveIs DEF NamesInv, Live
  <2>3. \A i \in 1 .. Live(u) : log[u][i].kind = "delete" =>
          log[u][i].rid \in DOMAIN rows' /\ rows'[log[u][i].rid].by = u
    BY <1>1, LoggedRow
  <2>4. (pc[u] # "ready" => state[u] # "GROWING") /\ (pc[u] = "ended" => left[u] = 0)
    BY <2>1 DEF LogFits
  <2>5. LogFits(u)'
    BY <1>1, <1>4, <2>1, <2>2, <2>3, <2>4, LogKept
  <2>6. \A n \in DOMAIN tables' : tables'[n].by = u => n \in DOMAIN tables /\ tables[n].by = u
    BY <1>3, <1>4, <1>12
  <2> QED
    BY <2>1, <2>2, <2>5, <2>6, LoggedKept
<1>13. ASSUME t # NoTx PROVE LogFits(t)' /\ Logged(t)'
  <2> PICK m, k, old, new : m = Len(log[t]) /\ k = m + 1 /\ old = log[t] /\ new = log'[t]
    OBVIOUS
  <2>1. /\ t \in Tx /\ pc[t] = "ready" /\ pc'[t] = "ready" /\ m \in Nat /\ Live(t) = m
        /\ k \in Nat /\ Live(t)' = k + 1
        /\ \A i \in 1 .. m : new[i] = old[i]
        /\ new[k].kind = "delete" /\ new[k].rid = rid
        /\ new[k + 1].kind = "drop" /\ new[k + 1].name = name
    <3>1. Live(t)' = Len(log'[t]) /\ Len(log[t]) + 2 = Len(log[t]) + 1 + 1
      BY <1>1, <1>7, <1>13 DEF Live
    <3> QED
      BY <1>1, <1>7, <1>13, <3>1
  <2>2. LogFits(t) /\ Logged(t)
    BY <2>1 DEF NamesInv, Logs
  <2>3. \A i \in 1 .. m : old[i].kind = "delete" =>
          /\ old[i].rid \in DOMAIN rows /\ rows[old[i].rid].by = t /\ old[i].rid # rid
    BY <1>1, <2>1, LoggedRow
  <2>4. ASSUME NEW i \in 1 .. m, old[i].kind = "drop" PROVE DropFits(t, i)'
    <3>1. DropFits(t, i)
      BY <2>1, <2>2, <2>4 DEF LogFits
    <3> PICK n, h : n = old[i].name /\ h = i - 1
      OBVIOUS
    <3>2. /\ n \in DOMAIN tables /\ tables[n].by = t /\ i > 1 /\ h \in 1 .. m
          /\ old[h].kind = "delete" /\ old[h].rid = tables[n].rid
          /\ \A j \in 1 .. m : old[j].kind = "drop" /\ old[j].name = n => j = i
      BY <2>1, <3>1 DEF DropFits
    <3>3. /\ new[i].name = n /\ new[h].kind = "delete" /\ new[h].rid = tables'[n].rid
          /\ n \in DOMAIN tables' /\ tables'[n].by = t /\ n # name
      BY <1>4, <2>1, <3>2
    <3>4. \A j \in 1 .. k + 1 : new[j].kind = "drop" /\ new[j].name = n => j = i
      <4> TAKE j \in 1 .. k + 1
      <4>1. j \in 1 .. m \/ j = k \/ j = k + 1
        BY <2>1
      <4> QED
        BY <2>1, <3>2, <3>3, <4>1
    <3> QED
      BY <2>1, <3>2, <3>3, <3>4 DEF DropFits
  <2>5. ASSUME NEW i \in 1 .. m, old[i].kind = "delete" PROVE DeleteFits(t, i)'
    <3>1. DeleteFits(t, i)
      BY <2>1, <2>2, <2>5 DEF LogFits
    <3> PICK h : h = i + 1
      OBVIOUS
    <3>2. /\ i < m /\ h \in 1 .. m /\ old[h].kind = "drop"
          /\ \A j \in 1 .. m : old[j].kind = "delete" /\ old[j].rid = old[i].rid => j = i
      BY <2>1, <3>1 DEF DeleteFits
    <3>3. new[h].kind = "drop" /\ new[i] = old[i] /\ i < k + 1
      BY <2>1, <3>2
    <3>4. \A j \in 1 .. k + 1 : new[j].kind = "delete" /\ new[j].rid = old[i].rid => j = i
      <4> TAKE j \in 1 .. k + 1
      <4>1. j \in 1 .. m \/ j = k \/ j = k + 1
        BY <2>1
      <4> QED
        BY <2>1, <2>3, <2>5, <3>2, <4>1
    <3> QED
      BY <1>1, <2>1, <2>3, <2>5, <3>3, <3>4 DEF DeleteFits
  <2>6. DeleteFits(t, k)'
    <3>1. \A j \in 1 .. k + 1 : new[j].kind = "delete" /\ new[j].rid = rid => j = k
      <4> TAKE j \in 1 .. k + 1
      <4>1. j \in 1 .. m \/ j = k \/ j = k + 1
        BY <2>1
      <4> QED
        BY <2>1, <2>3, <4>1
    <3>2. k < k + 1
      BY <2>1
    <3> QED
      BY <1>1, <1>2, <2>1, <3>1, <3>2 DEF DeleteFits
  <2>7. DropFits(t, k + 1)'
    <3> PICK h : h = k + 1
      OBVIOUS
    <3>1. h > 1 /\ h - 1 = k
      BY <2>1
    <3>2. \A j \in 1 .. h : new[j].kind = "drop" /\ new[j].name = name => j = h
      <4> TAKE j \in 1 .. h
      <4>1. j \in 1 .. m \/ j = k \/ j = h
        BY <2>1
      <4>2. ASSUME j \in 1 .. m, new[j].kind = "drop" PROVE new[j].name # name
        <5>1. old[j].kind = "drop" /\ DropFits(t, j)
          BY <2>1, <2>2, <4>2 DEF LogFits
        <5> QED
          BY <1>2, <2>1, <4>2, <5>1 DEF DropFits
      <4> QED
        BY <2>1, <4>1, <4>2
    <3> QED
      BY <1>3, <1>4, <2>1, <3>1, <3>2 DEF DropFits
  <2>8. LogFits(t)'
    <3>1. ASSUME NEW i \in 1 .. k + 1
          PROVE  /\ new[i].kind = "drop" => DropFits(t, i)'
                 /\ new[i].kind = "delete" => DeleteFits(t, i)'
      <4>1. i \in 1 .. m \/ i = k \/ i = k + 1
        BY <2>1
      <4> QED
        BY <2>1, <2>4, <2>5, <2>6, <2>7, <4>1
    <3> QED
      BY <2>1, <3>1 DEF LogFits
  <2>9. Logged(t)'
    <3> SUFFICES ASSUME NEW n \in DOMAIN tables', tables'[n].by = t
                 PROVE  \E i \in 1 .. k + 1 : new[i].kind = "drop" /\ new[i].name = n
      BY <2>1 DEF Logged
    <3>1. CASE n = name
      BY <2>1, <3>1
    <3>2. CASE n # name
      <4>1. n \in DOMAIN tables /\ tables[n].by = t
        BY <1>4, <3>2
      <4>2. PICK i \in 1 .. m : old[i].kind = "drop" /\ old[i].name = n
        BY <2>1, <2>2, <4>1 DEF Logged
      <4>3. i \in 1 .. k + 1 /\ new[i] = old[i]
        BY <2>1
      <4> QED
        BY <4>2, <4>3
    <3> QED
      BY <3>1, <3>2
  <2> QED
    BY <2>8, <2>9
<1>14. Logs'
  BY <1>12, <1>13, CatalogAssumption DEF Logs
<1> QED
  BY <1>6, <1>8, <1>9, <1>11, <1>14 DEF NamesInv

LEMMA RowRefused ==
  ASSUME NamesInv, Careful, RefuseRow
  PROVE  NamesInv'
<1> PICK t, rid : t = call.tx /\ rid = call.rid
  OBVIOUS
<1>1. /\ call.op = "row" /\ call' = NoCall /\ rows' = Without(rows, rid) /\ tables' = tables
      /\ torn' = torn /\ log' = log /\ left' = left /\ pc' = pc /\ locks' = locks
      /\ t # NoTx
      /\ state' = IF state[t] = "GROWING" THEN [state EXCEPT ![t] = "ABORTED"] ELSE state
  BY DEF RefuseRow, Granted, Withdrawn
<1>2. /\ t \in Tx /\ rid \in DOMAIN rows /\ rows[rid].name \notin DOMAIN tables
      /\ state' \in [Tx -> {"GROWING", "SHRINKING", "COMMITTED", "ABORTED"}]
      /\ \A u \in Tx : state'[u] = state[u] \/ state'[u] # "GROWING"
  BY <1>1, CallTypes DEF NamesInv, NamesTyped, TxsTyped, CallsFit, Creating
<1>3. /\ DOMAIN rows' = DOMAIN rows \ {rid}
      /\ \A r \in DOMAIN rows : r # rid => rows'[r] = rows[r]
  BY <1>1, Less
<1>4. call' \in Call /\ call'.op = "none"
  BY <1>1, CallTypes DEF NamesInv, NamesTyped, Call, NoCall
<1>5. NamesTyped' /\ TxsTyped'
  BY <1>1, <1>2, <1>3, <1>4 DEF NamesInv, NamesTyped, TxsTyped
<1>6. CallsFit'
  BY <1>4 DEF CallsFit, Creating
<1>7. \A n : Settled(n)' <=> Settled(n)
  BY <1>1, <1>4 DEF Settled, Dropping
<1>8. RowsFollow'
  <2>1. ASSUME NEW n \in DOMAIN tables PROVE TableFits(n)'
    <3> SUFFICES ASSUME Settled(n) PROVE TableFits(n)'
      BY <1>7 DEF TableFits
    <3>1. TableFits(n)
      BY DEF NamesInv, RowsFollow
    <3>2. tables[n].rid # rid
      BY <1>2, <3>1 DEF TableFits
    <3> QED
      BY <1>1, <1>3, <3>1, <3>2 DEF TableFits
  <2>2. ASSUME NEW r \in DOMAIN rows' PROVE RowFits(r)'
    <3>1. RowFits(r) /\ r # rid /\ rows'[r] = rows[r]
      BY <1>3 DEF NamesInv, RowsFollow
    <3>2. Undoing(r) => Undoing(r)'
      BY <1>1, <3>1 DEF Undoing
    <3> QED
      BY <1>1, <1>7, <3>1, <3>2 DEF RowFits
  <2> QED
    BY <1>1, <2>1, <2>2 DEF NamesInv, RowsFollow
<1>9. Logs'
  <2> SUFFICES ASSUME NEW u \in Tx PROVE LogFits(u)' /\ Logged(u)'
    BY DEF Logs
  <2>1. LogFits(u) /\ Logged(u) /\ Live(u)' = Live(u) /\ Live(u) \in Nat
    BY <1>1, LiveIs DEF NamesInv, Logs, Live
  <2>2. \A i \in 1 .. Live(u) : log[u][i].kind = "delete" =>
          log[u][i].rid \in DOMAIN rows' /\ rows'[log[u][i].rid].by = u
    BY <1>1, <1>3, LoggedRow
  <2>3. (pc[u] # "ready" => state'[u] # "GROWING") /\ (pc[u] = "ended" => left[u] = 0)
    BY <1>2, <2>1 DEF LogFits
  <2>4. LogFits(u)'
    BY <1>1, <2>1, <2>2, <2>3, LogKept
  <2> QED
    BY <1>1, <2>1, <2>4, LoggedKept
<1> QED
  BY <1>5, <1>6, <1>8, <1>9 DEF NamesInv

LEMMA RowDropped ==
  ASSUME NamesInv, Careful, NEW name \in Name, DropTable(name)
  PROVE  NamesInv'
<1> PICK rid : rid = tables[name].rid
  OBVIOUS
<1>1. /\ call = NoCall /\ name \in DOMAIN tables /\ tables[name].by = NoTx /\ name \notin torn
      /\ rid \in DOMAIN rows /\ rows' = Without(rows, rid)
      /\ call' = [op |-> "walk", name |-> name, tx |-> NoTx, read |-> 0] /\ tables' = tables
      /\ torn' = torn /\ log' = log /\ left' = left /\ pc' = pc /\ locks' = locks
      /\ state' = state
  BY DEF DropTable, Idle, txs
<1>2. /\ call.op = "none" /\ call' \in Call
      /\ call'.op = "walk" /\ call'.name = name /\ call'.tx = NoTx
  BY <1>1, CallTypes DEF NamesInv, NamesTyped, Call
<1>3. /\ DOMAIN rows' = DOMAIN rows \ {rid}
      /\ \A r \in DOMAIN rows : r # rid => rows'[r] = rows[r]
  BY <1>1, Less
<1>4. /\ rows[rid].name = name /\ rows[rid].by = NoTx
      /\ \A n : Settled(n)' <=> Settled(n) /\ n # name
  BY <1>1, <1>2 DEF NamesInv, RowsFollow, TableFits, Settled, Dropping
<1>5. NamesTyped' /\ TxsTyped'
  BY <1>1, <1>2, <1>3 DEF NamesInv, NamesTyped, TxsTyped
<1>6. CallsFit'
  BY <1>1, <1>2 DEF CallsFit, Creating
<1>7. RowsFollow'
  <2>1. ASSUME NEW n \in DOMAIN tables PROVE TableFits(n)'
    <3> SUFFICES ASSUME Settled(n), n # name PROVE TableFits(n)'
      BY <1>4 DEF TableFits
    <3>1. TableFits(n)
      BY DEF NamesInv, RowsFollow
    <3>2. tables[n].rid # rid
      BY <1>4, <3>1 DEF TableFits
    <3> QED
      BY <1>1, <1>3, <3>1, <3>2 DEF TableFits
  <2>2. ASSUME NEW r \in DOMAIN rows' PROVE RowFits(r)'
    <3>1. RowFits(r) /\ r # rid /\ rows'[r] = rows[r]
      BY <1>3 DEF NamesInv, RowsFollow
    <3>2. Undoing(r) => Undoing(r)'
      BY <1>1, <3>1 DEF Undoing
    <3>3. rows[r].name = name => tables[rows[r].name].rid # r
      BY <3>1
    <3> QED
      BY <1>1, <1>2, <1>4, <3>1, <3>2, <3>3 DEF RowFits
  <2> QED
    BY <1>1, <2>1, <2>2 DEF NamesInv, RowsFollow
<1>8. Logs'
  <2> SUFFICES ASSUME NEW u \in Tx PROVE LogFits(u)' /\ Logged(u)'
    BY DEF Logs
  <2>1. LogFits(u) /\ Logged(u) /\ Live(u)' = Live(u) /\ Live(u) \in Nat
    BY <1>1, LiveIs DEF NamesInv, Logs, Live
  <2>2. \A i \in 1 .. Live(u) : log[u][i].kind = "delete" =>
          log[u][i].rid \in DOMAIN rows' /\ rows'[log[u][i].rid].by = u
    BY <1>1, <1>3, <1>4, LoggedRow, CatalogAssumption
  <2>3. (pc[u] # "ready" => state[u] # "GROWING") /\ (pc[u] = "ended" => left[u] = 0)
    BY <2>1 DEF LogFits
  <2>4. LogFits(u)'
    BY <1>1, <2>1, <2>2, <2>3, LogKept
  <2> QED
    BY <1>1, <2>1, <2>4, LoggedKept
<1> QED
  BY <1>5, <1>6, <1>7, <1>8 DEF NamesInv

LEMMA TableDropped ==
  ASSUME NamesInv, EraseTable, call.tx = NoTx
  PROVE  NamesInv'
<1> PICK name : name = call.name
  OBVIOUS
<1>1. /\ call.op = "delete" /\ tables' = Without(tables, name) /\ torn' = torn \ {name}
      /\ call' = NoCall /\ rows' = rows /\ log' = log /\ left' = left /\ pc' = pc
      /\ locks' = locks /\ state' = state
  BY DEF EraseTable
<1>2. /\ name \in DOMAIN tables /\ name \notin torn /\ tables[name].by = NoTx
      /\ call' \in Call /\ call'.op = "none"
  BY <1>1, CallTypes DEF NamesInv, NamesTyped, CallsFit, Call, NoCall
<1>3. /\ DOMAIN tables' = DOMAIN tables \ {name}
      /\ \A n \in DOMAIN tables : n # name => tables'[n] = tables[n]
  BY <1>1, Less
<1>4. NamesTyped' /\ TxsTyped'
  BY <1>1, <1>2, <1>3 DEF NamesInv, NamesTyped, TxsTyped
<1>5. CallsFit'
  BY <1>2 DEF CallsFit, Creating
<1>6. \A n : (Settled(n)' <=> Settled(n)) /\ (Settled(n) => n # name /\ n \in DOMAIN tables)
  BY <1>1, <1>2, <1>3 DEF Settled, Dropping
<1>7. RowsFollow'
  <2>1. \A n \in DOMAIN tables' : TableFits(n)'
    BY <1>1, <1>3, <1>6 DEF NamesInv, RowsFollow, TableFits
  <2>2. ASSUME NEW r \in DOMAIN rows PROVE RowFits(r)'
    <3>1. RowFits(r)
      BY DEF NamesInv, RowsFollow
    <3>2. Undoing(r) => Undoing(r)'
      BY <1>1 DEF Undoing
    <3> QED
      BY <1>1, <1>3, <1>6, <3>1, <3>2 DEF RowFits
  <2>3. \A n \in torn' : tables'[n].by = NoTx
    BY <1>1, <1>3 DEF NamesInv, NamesTyped, RowsFollow
  <2> QED
    BY <1>1, <2>1, <2>2, <2>3 DEF RowsFollow
<1>8. Logs'
  <2> SUFFICES ASSUME NEW u \in Tx PROVE LogFits(u)' /\ Logged(u)'
    BY DEF Logs
  <2>1. LogFits(u) /\ Logged(u) /\ Live(u)' = Live(u) /\ Live(u) \in Nat
    BY <1>1, LiveIs DEF NamesInv, Logs, Live
  <2>2. \A i \in 1 .. Live(u) : log[u][i].kind = "delete" =>
          log[u][i].rid \in DOMAIN rows' /\ rows'[log[u][i].rid].by = u
    BY <1>1, LoggedRow
  <2>3. (pc[u] # "ready" => state[u] # "GROWING") /\ (pc[u] = "ended" => left[u] = 0)
    BY <2>1 DEF LogFits
  <2>4. \A n \in DOMAIN tables : tables[n].by = u =>
          n \in DOMAIN tables' /\ tables'[n].by = u /\ tables'[n].rid = tables[n].rid
    BY <1>2, <1>3, CatalogAssumption
  <2>5. LogFits(u)'
    BY <1>1, <2>1, <2>2, <2>3, <2>4, LogKept
  <2> QED
    BY <1>1, <1>3, <2>1, <2>5, LoggedKept
<1> QED
  BY <1>4, <1>5, <1>7, <1>8 DEF NamesInv

LEMMA TableTorn ==
  ASSUME NamesInv, ReadFails, call.tx = NoTx
  PROVE  NamesInv'
<1> PICK name : name = call.name
  OBVIOUS
<1>1. /\ call.op = "walk" /\ tables' = tables /\ torn' = torn \cup {name}
      /\ call' = NoCall /\ rows' = rows /\ log' = log /\ left' = left /\ pc' = pc
      /\ locks' = locks /\ state' = state
  BY DEF ReadFails
<1>2. /\ name \in DOMAIN tables /\ name \notin torn /\ tables[name].by = NoTx
      /\ call' \in Call /\ call'.op = "none"
  BY <1>1, CallTypes DEF NamesInv, NamesTyped, CallsFit, Call, NoCall
<1>3. NamesTyped' /\ TxsTyped'
  BY <1>1, <1>2 DEF NamesInv, NamesTyped, TxsTyped
<1>4. CallsFit'
  BY <1>2 DEF CallsFit, Creating
<1>5. \A n : Settled(n)' <=> Settled(n)
  BY <1>1, <1>2 DEF Settled, Dropping
<1>6. RowsFollow'
  <2>1. \A n \in DOMAIN tables : TableFits(n)'
    BY <1>1, <1>5 DEF NamesInv, RowsFollow, TableFits
  <2>2. ASSUME NEW r \in DOMAIN rows PROVE RowFits(r)'
    <3>1. RowFits(r)
      BY DEF NamesInv, RowsFollow
    <3>2. Undoing(r) => Undoing(r)'
      BY <1>1 DEF Undoing
    <3> QED
      BY <1>1, <1>5, <3>1, <3>2 DEF RowFits
  <2> QED
    BY <1>1, <1>2, <2>1, <2>2 DEF NamesInv, RowsFollow
<1>7. Logs'
  BY <1>1 DEF NamesInv, Logs, LogFits, Logged, Live, DropFits, DeleteFits
<1> QED
  BY <1>3, <1>4, <1>6, <1>7 DEF NamesInv

LEMMA TxBegun ==
  ASSUME NamesInv, NEW t \in Tx, Begin(t)
  PROVE  NamesInv'
<1>1. /\ pc[t] = "ended" /\ ~Busy(t)
      /\ pc' = [pc EXCEPT ![t] = "ready"] /\ state' = [state EXCEPT ![t] = "GROWING"]
      /\ log' = [log EXCEPT ![t] = <<>>] /\ left' = left /\ locks' = locks
      /\ rows' = rows /\ tables' = tables /\ torn' = torn /\ call' = call
  BY DEF Begin, names
<1>2. TxsTyped /\ TxsTyped' /\ pc'[t] = "ready" /\ log'[t] = <<>> /\ Len(log'[t]) = 0
  <2>1. left[t] = 0
    BY <1>1 DEF NamesInv, Logs, LogFits
  <2>2. /\ <<>> \in Seq(UndoRecord) /\ Len(<<>>) = 0
        /\ log' \in [Tx -> Seq(UndoRecord)] /\ log'[t] = <<>>
        /\ \A u \in Tx : u # t => log'[u] = log[u]
    BY <1>1 DEF NamesInv, TxsTyped
  <2>3. \A u \in Tx : left[u] <= Len(log'[u])
    <3> TAKE u \in Tx
    <3>1. left[u] \in Nat /\ left[u] <= Len(log[u]) /\ Len(log'[t]) = 0
      BY <2>2 DEF NamesInv, TxsTyped
    <3>2. u # t => log'[u] = log[u]
      BY <2>2
    <3> QED
      BY <2>1, <3>1, <3>2
  <2>4. TxsTyped /\ pc'[t] = "ready" /\ pc' \in [Tx -> {"ready", "undo", "thrown", "ended"}]
        /\ state' \in [Tx -> {"GROWING", "SHRINKING", "COMMITTED", "ABORTED"}]
    BY <1>1 DEF NamesInv, TxsTyped
  <2>5. TxsTyped'
    BY <1>1, <2>2, <2>3, <2>4 DEF TxsTyped
  <2> QED
    BY <2>2, <2>4, <2>5
<1>3. NamesTyped' /\ CallsFit'
  <2>1. NamesTyped'
    BY <1>1 DEF NamesInv, NamesTyped
  <2>2. ASSUME NEW u \in Tx, NEW n, Undoes(u, n) PROVE Undoes(u, n)'
    <3>1. u # t
      BY <1>1, <2>2 DEF Undoes
    <3>2. log'[u] = log[u] /\ pc'[u] = pc[u] /\ left'[u] = left[u]
      BY <1>1, <1>2, <3>1 DEF TxsTyped
    <3> QED
      BY <2>2, <3>2 DEF Undoes
  <2>3. Creating /\ call.tx # NoTx => pc'[call.tx] # "undo"
    BY <1>1, <1>2 DEF NamesInv, CallsFit, TxsTyped
  <2> QED
    BY <1>1, <2>1, <2>2, <2>3, CallKept DEF NamesInv, NamesTyped
<1>4. RowsFollow'
  <2>1. \A n \in DOMAIN tables : TableFits(n)'
    BY <1>1 DEF NamesInv, RowsFollow, TableFits, Settled, Dropping
  <2>2. ASSUME NEW r \in DOMAIN rows PROVE RowFits(r)'
    <3>1. RowFits(r)
      BY DEF NamesInv, RowsFollow
    <3>2. Undoing(r) => Undoing(r)'
      BY <1>1, <1>2 DEF Undoing, TxsTyped
    <3> QED
      BY <1>1, <3>1, <3>2 DEF RowFits, Settled, Dropping
  <2> QED
    BY <1>1, <2>1, <2>2 DEF NamesInv, RowsFollow
<1>5. ASSUME NEW u \in Tx, u # t PROVE LogFits(u)' /\ Logged(u)'
  <2>1. /\ LogFits(u) /\ Logged(u) /\ log'[u] = log[u] /\ pc'[u] = pc[u] /\ state'[u] = state[u]
    BY <1>1, <1>2, <1>5 DEF NamesInv, Logs, TxsTyped
  <2>2. Live(u)' = Live(u) /\ Live(u) \in Nat
    BY <1>1, <2>1, LiveIs DEF NamesInv, Live
  <2>3. \A i \in 1 .. Live(u) : log[u][i].kind = "delete" =>
          log[u][i].rid \in DOMAIN rows' /\ rows'[log[u][i].rid].by = u
    BY <1>1, LoggedRow
  <2>4. (pc[u] # "ready" => state[u] # "GROWING") /\ (pc[u] = "ended" => left[u] = 0)
    BY <2>1 DEF LogFits
  <2>5. LogFits(u)'
    BY <1>1, <2>1, <2>2, <2>3, <2>4, LogKept
  <2> QED
    BY <1>1, <2>1, <2>2, <2>5, LoggedKept
<1>6. LogFits(t)' /\ Logged(t)'
  <2>1. Logged(t) /\ Live(t) = 0 /\ Live(t)' = 0 /\ \A i \in 1 .. 0 : FALSE
    BY <1>1, <1>2 DEF NamesInv, Logs, Live
  <2>2. \A n \in DOMAIN tables : tables[n].by # t
    BY <2>1 DEF Logged
  <2> QED
    BY <1>1, <1>2, <2>1, <2>2 DEF LogFits, Logged
<1> QED
  BY <1>2, <1>3, <1>4, <1>5, <1>6 DEF NamesInv, Logs

LEMMA TxCommitted ==
  ASSUME NamesInv, NEW t \in Tx, Commit(t)
  PROVE  NamesInv'
<1>1. /\ pc[t] \in {"ready", "thrown"} /\ ~Busy(t)
      /\ rows' = Published(rows, t) /\ tables' = Published(tables, t)
      /\ pc' = [pc EXCEPT ![t] = "ended"] /\ state' = [state EXCEPT ![t] = "COMMITTED"]
      /\ left' = [left EXCEPT ![t] = 0] /\ locks' = [locks EXCEPT ![t] = {}]
      /\ log' = log /\ torn' = torn /\ call' = call
  BY DEF Commit, MayEnd
<1>2. TxsTyped /\ TxsTyped' /\ pc'[t] = "ended" /\ left'[t] = 0 /\ state'[t] # "GROWING"
  <2>1. \A u \in Tx : Len(log[u]) \in Nat
    BY RangeIs DEF NamesInv, TxsTyped
  <2> QED
    BY <1>1, <2>1 DEF NamesInv, TxsTyped
<1>3. /\ DOMAIN rows' = DOMAIN rows
      /\ \A r \in DOMAIN rows :
           /\ rows'[r] \in Row /\ rows'[r].name = rows[r].name
           /\ rows'[r].first_page_id = rows[r].first_page_id
           /\ rows'[r].by = IF rows[r].by = t THEN NoTx ELSE rows[r].by
  <2>1. \A r \in DOMAIN rows : rows[r] \in Row
    BY DEF NamesInv, NamesTyped
  <2> QED
    BY <1>1, <2>1 DEF Published, Row
<1>4. /\ DOMAIN tables' = DOMAIN tables
      /\ \A n \in DOMAIN tables :
           /\ tables'[n] \in TableEntry /\ tables'[n].rid = tables[n].rid
           /\ tables'[n].first_page_id = tables[n].first_page_id
           /\ tables'[n].by = IF tables[n].by = t THEN NoTx ELSE tables[n].by
  <2>1. \A n \in DOMAIN tables : tables[n] \in TableEntry
    BY DEF NamesInv, NamesTyped
  <2> QED
    BY <1>1, <2>1 DEF Published, TableEntry
<1>5. NamesTyped'
  BY <1>1, <1>3, <1>4 DEF NamesInv, NamesTyped
<1>6. CallsFit'
  <2>1. Creating => call.tx # t
    BY <1>1 DEF Busy, Creating
  <2>2. ASSUME NEW u \in Tx, NEW n, Undoes(u, n) PROVE Undoes(u, n)'
    <3>1. u # t
      BY <1>1, <2>2 DEF Undoes
    <3>2. log'[u] = log[u] /\ pc'[u] = pc[u] /\ left'[u] = left[u]
      BY <1>1, <1>2, <3>1 DEF TxsTyped
    <3> QED
      BY <2>2, <3>2 DEF Undoes
  <2>3. Creating /\ call.tx # NoTx => pc'[call.tx] # "undo"
    BY <1>1, <1>2, <2>1 DEF NamesInv, CallsFit, TxsTyped
  <2>4. call.op = "row" => /\ call.rid \in DOMAIN rows /\ rows[call.rid].by # t
    BY <2>1 DEF NamesInv, CallsFit, Creating
  <2>5. \A n \in DOMAIN tables : tables[n].by = NoTx => tables'[n].by = NoTx
    BY <1>4
  <2>6. call \in Call /\ CallsFit
    BY DEF NamesInv, NamesTyped
  <2> QED
    BY <1>1, <1>3, <1>4, <2>2, <2>3, <2>4, <2>5, <2>6, CallKept
<1>7. \A n : Settled(n)' <=> Settled(n)
  BY <1>1, <1>4 DEF Settled, Dropping
<1>8. RowsFollow'
  <2>1. \A n \in DOMAIN tables : TableFits(n)'
    BY <1>3, <1>4, <1>7 DEF NamesInv, RowsFollow, TableFits, Settled
  <2>2. ASSUME NEW r \in DOMAIN rows PROVE RowFits(r)'
    <3>1. RowFits(r)
      BY DEF NamesInv, RowsFollow
    <3>2. ASSUME Undoing(r) PROVE Undoing(r)'
      <4>1. PICK u \in Tx : /\ pc[u] = "undo" /\ left[u] > 0 /\ rows[r].by = u
                            /\ log[u][left[u]].kind = "delete" /\ log[u][left[u]].rid = r
        BY <3>2 DEF Undoing
      <4>2. u # t /\ pc'[u] = "undo" /\ left'[u] = left[u] /\ rows'[r].by = u
        BY <1>1, <1>2, <1>3, <4>1 DEF TxsTyped
      <4> QED
        BY <1>1, <4>1, <4>2 DEF Undoing
    <3>3. Settled(rows[r].name) => tables'[rows[r].name].rid = tables[rows[r].name].rid
      BY <1>4 DEF Settled
    <3> QED
      BY <1>1, <1>3, <1>7, <3>1, <3>2, <3>3 DEF RowFits
  <2>3. \A n \in torn : tables'[n].by = NoTx
    BY <1>4 DEF NamesInv, NamesTyped, RowsFollow
  <2> QED
    BY <1>1, <1>3, <1>4, <2>1, <2>2, <2>3 DEF RowsFollow
<1>9. ASSUME NEW u \in Tx, u # t PROVE LogFits(u)' /\ Logged(u)'
  <2>1. /\ LogFits(u) /\ Logged(u) /\ pc'[u] = pc[u] /\ state'[u] = state[u] /\ left'[u] = left[u]
    BY <1>1, <1>2, <1>9 DEF NamesInv, Logs, TxsTyped
  <2>2. Live(u)' = Live(u) /\ Live(u) \in Nat
    BY <1>1, <2>1, LiveIs DEF NamesInv, Live
  <2>3. \A i \in 1 .. Live(u) : log[u][i].kind = "delete" =>
          log[u][i].rid \in DOMAIN rows' /\ rows'[log[u][i].rid].by = u
    BY <1>3, <1>9, LoggedRow
  <2>4. (pc[u] # "ready" => state[u] # "GROWING") /\ (pc[u] = "ended" => left[u] = 0)
    BY <2>1 DEF LogFits
  <2>5. \A n \in DOMAIN tables : tables[n].by = u =>
          n \in DOMAIN tables' /\ tables'[n].by = u /\ tables'[n].rid = tables[n].rid
    BY <1>4, <1>9
  <2>6. LogFits(u)'
    BY <1>1, <2>1, <2>2, <2>3, <2>4, <2>5, LogKept
  <2>7. \A n \in DOMAIN tables' : tables'[n].by = u => n \in DOMAIN tables /\ tables[n].by = u
    BY <1>4, CatalogAssumption
  <2> QED
    BY <1>1, <2>1, <2>2, <2>6, <2>7, LoggedKept
<1>10. LogFits(t)' /\ Logged(t)'
  <2>1. Live(t)' = 0 /\ \A i \in 1 .. 0 : FALSE
    BY <1>2 DEF Live
  <2>2. \A n \in DOMAIN tables' : tables'[n].by # t
    BY <1>4, CatalogAssumption
  <2> QED
    BY <1>2, <2>1, <2>2 DEF LogFits, Logged
<1> QED
  BY <1>2, <1>5, <1>6, <1>8, <1>9, <1>10 DEF NamesInv, Logs

LEMMA AbortBegun ==
  ASSUME NamesInv, Careful, NEW t \in Tx, Abort(t)
  PROVE  NamesInv'
<1>1. /\ pc[t] \in {"ready", "thrown"} /\ ~Busy(t) /\ (pc[t] = "thrown" => left[t] = Len(log[t]))
      /\ pc' = [pc EXCEPT ![t] = "undo"] /\ state' = [state EXCEPT ![t] = "SHRINKING"]
      /\ left' = [left EXCEPT ![t] = Len(log[t])] /\ locks' = locks
      /\ rows' = rows /\ tables' = tables /\ log' = log /\ torn' = torn /\ call' = call
  BY DEF Abort, MayEnd, names
<1>2. /\ TxsTyped /\ TxsTyped' /\ pc'[t] = "undo" /\ state'[t] # "GROWING"
      /\ left'[t] = Len(log[t])
  <2>1. \A u \in Tx : Len(log[u]) \in Nat
    BY RangeIs DEF NamesInv, TxsTyped
  <2> QED
    BY <1>1, <2>1 DEF NamesInv, TxsTyped
<1>3. NamesTyped'
  BY <1>1 DEF NamesInv, NamesTyped
<1>4. CallsFit'
  <2>1. Creating => call.tx # t
    BY <1>1 DEF Busy, Creating
  <2>2. \A u : u # t => pc'[u] = pc[u]
    BY <1>1, <1>2 DEF TxsTyped
  <2>3. ASSUME NEW u \in Tx, NEW n, Undoes(u, n) PROVE Undoes(u, n)'
    <3>1. u # t
      BY <1>1, <2>3 DEF Undoes
    <3>2. log'[u] = log[u] /\ pc'[u] = pc[u] /\ left'[u] = left[u]
      BY <1>1, <1>2, <3>1 DEF TxsTyped
    <3> QED
      BY <2>3, <3>2 DEF Undoes
  <2>4. Creating /\ call.tx # NoTx => pc'[call.tx] # "undo"
    BY <2>1, <2>2 DEF NamesInv, CallsFit
  <2> QED
    BY <1>1, <2>3, <2>4, CallKept DEF NamesInv, NamesTyped
<1>5. RowsFollow'
  <2>1. \A n \in DOMAIN tables : TableFits(n)'
    BY <1>1 DEF NamesInv, RowsFollow, TableFits, Settled, Dropping
  <2>2. ASSUME NEW r \in DOMAIN rows PROVE RowFits(r)'
    <3>1. RowFits(r)
      BY DEF NamesInv, RowsFollow
    <3>2. Undoing(r) => Undoing(r)'
      BY <1>1, <1>2 DEF Undoing, TxsTyped
    <3> QED
      BY <1>1, <3>1, <3>2 DEF RowFits, Settled, Dropping
  <2> QED
    BY <1>1, <2>1, <2>2 DEF NamesInv, RowsFollow
<1>6. ASSUME NEW u \in Tx PROVE LogFits(u)' /\ Logged(u)'
  <2>1. LogFits(u) /\ Logged(u) /\ Live(u) \in Nat /\ Live(t) = Len(log[t])
    BY <1>1, LiveIs DEF NamesInv, Logs, Live
  <2>2. Live(u)' = Live(u) /\ (pc[u] = "undo" => pc'[u] = "undo")
        /\ (pc'[u] # "ready" => state'[u] # "GROWING") /\ (pc'[u] = "ended" => left'[u] = 0)
    <3>1. CASE u = t
      BY <1>1, <1>2, <2>1, <3>1 DEF Live
    <3>2. CASE u # t
      <4>1. pc'[u] = pc[u] /\ state'[u] = state[u] /\ left'[u] = left[u]
        BY <1>1, <1>2, <3>2 DEF TxsTyped
      <4> QED
        BY <1>1, <2>1, <4>1 DEF Live, LogFits
    <3> QED
      BY <3>1, <3>2
  <2>3. \A i \in 1 .. Live(u) : log[u][i].kind = "delete" =>
          log[u][i].rid \in DOMAIN rows' /\ rows'[log[u][i].rid].by = u
    BY <1>1, LoggedRow
  <2>4. LogFits(u)'
    BY <1>1, <2>1, <2>2, <2>3, LogKept
  <2> QED
    BY <1>1, <2>1, <2>2, <2>4, LoggedKept
<1> QED
  BY <1>2, <1>3, <1>4, <1>5, <1>6 DEF NamesInv, Logs

LEMMA AbortEnded ==
  ASSUME NamesInv, NEW t \in Tx, AbortEnd(t)
  PROVE  NamesInv'
<1>1. /\ pc[t] = "undo" /\ left[t] = 0
      /\ pc' = [pc EXCEPT ![t] = "ended"] /\ state' = [state EXCEPT ![t] = "ABORTED"]
      /\ left' = left /\ locks' = [locks EXCEPT ![t] = {}]
      /\ rows' = rows /\ tables' = tables /\ log' = log /\ torn' = torn /\ call' = call
  BY DEF AbortEnd, names
<1>2. TxsTyped /\ TxsTyped' /\ pc'[t] = "ended" /\ state'[t] # "GROWING"
  BY <1>1 DEF NamesInv, TxsTyped
<1>3. NamesTyped'
  BY <1>1 DEF NamesInv, NamesTyped
<1>4. CallsFit'
  <2>1. Creating /\ call.tx # NoTx => call.tx \in Tx
    BY CallTypes DEF NamesInv, NamesTyped
  <2>2. \A u \in Tx : pc[u] # "undo" => pc'[u] # "undo"
    BY <1>1, <1>2 DEF TxsTyped
  <2>3. ASSUME NEW u \in Tx, NEW n, Undoes(u, n) PROVE Undoes(u, n)'
    <3>1. u # t
      BY <1>1, <2>3 DEF Undoes
    <3>2. log'[u] = log[u] /\ pc'[u] = pc[u] /\ left'[u] = left[u]
      BY <1>1, <1>2, <3>1 DEF TxsTyped
    <3> QED
      BY <2>3, <3>2 DEF Undoes
  <2>4. Creating /\ call.tx # NoTx => pc'[call.tx] # "undo"
    BY <2>1, <2>2 DEF NamesInv, CallsFit
  <2> QED
    BY <1>1, <2>3, <2>4, CallKept DEF NamesInv, NamesTyped
<1>5. RowsFollow'
  <2>1. \A n \in DOMAIN tables : TableFits(n)'
    BY <1>1 DEF NamesInv, RowsFollow, TableFits, Settled, Dropping
  <2>2. ASSUME NEW r \in DOMAIN rows PROVE RowFits(r)'
    <3>1. RowFits(r)
      BY DEF NamesInv, RowsFollow
    <3>2. Undoing(r) => Undoing(r)'
      BY <1>1, <1>2 DEF Undoing, TxsTyped
    <3> QED
      BY <1>1, <3>1, <3>2 DEF RowFits, Settled, Dropping
  <2> QED
    BY <1>1, <2>1, <2>2 DEF NamesInv, RowsFollow
<1>6. ASSUME NEW u \in Tx PROVE LogFits(u)' /\ Logged(u)'
  <2>1. LogFits(u) /\ Logged(u) /\ Live(u) \in Nat /\ Live(t) = 0
    BY <1>1, LiveIs DEF NamesInv, Logs, Live
  <2>2. /\ Live(u)' = Live(u) /\ (pc[u] = "undo" => pc'[u] = "undo" \/ Live(u) = 0)
        /\ (pc'[u] # "ready" => state'[u] # "GROWING") /\ (pc'[u] = "ended" => left'[u] = 0)
    <3>1. CASE u = t
      BY <1>1, <1>2, <2>1, <3>1 DEF Live
    <3>2. CASE u # t
      <4>1. pc'[u] = pc[u] /\ state'[u] = state[u] /\ left'[u] = left[u]
        BY <1>1, <1>2, <3>2 DEF TxsTyped
      <4> QED
        BY <1>1, <2>1, <4>1 DEF Live, LogFits
    <3> QED
      BY <3>1, <3>2
  <2>3. \A i \in 1 .. Live(u) : log[u][i].kind = "delete" =>
          log[u][i].rid \in DOMAIN rows' /\ rows'[log[u][i].rid].by = u
    BY <1>1, LoggedRow
  <2>4. LogFits(u)'
    BY <1>1, <2>1, <2>2, <2>3, LogKept
  <2> QED
    BY <1>1, <2>1, <2>2, <2>4, LoggedKept
<1> QED
  BY <1>2, <1>3, <1>4, <1>5, <1>6 DEF NamesInv, Logs

(* An abort begins to drop a table.                                        *)
LEMMA UndoBegun ==
  ASSUME NamesInv, NEW t \in Tx, UndoCreate(t)
  PROVE  NamesInv'
<1> PICK name : name = Record(t).name
  OBVIOUS
<1>1. /\ call = NoCall /\ name \in DOMAIN tables /\ UNCHANGED <<names, txs>>
      /\ call' = [op |-> "walk", name |-> name, tx |-> t, read |-> 0]
      /\ t # NoTx /\ Undoes(t, name)
  BY CatalogAssumption DEF UndoCreate, Record, Idle, Undoes
<1>2. call.op = "none" /\ name \in Name
  BY <1>1, CallTypes DEF NamesInv, NamesTyped
<1>3. /\ call' \in Call /\ call'.op = "walk" /\ call'.name = name /\ call'.tx = t
  BY <1>1, <1>2 DEF Call
<1>4. CallsFit'
  BY <1>1, <1>3 DEF CallsFit, Creating, Undoes, names, txs
<1>5. \A n : Dropping(n)' <=> Dropping(n)
  BY <1>1, <1>2, <1>3 DEF Dropping
<1> QED
  BY <1>1, <1>2, <1>3, <1>4, <1>5, NamesSame

(* What an abort that drops a table knows of it.                           *)
LEMMA UndoesIs ==
  ASSUME NamesInv, call.op \in {"walk", "delete"}, call.tx # NoTx
  PROVE  LET t == call.tx
         IN  /\ t \in Tx /\ pc[t] = "undo" /\ left[t] > 0
             /\ log[t][left[t]].kind = "drop" /\ log[t][left[t]].name = call.name
             /\ call.name \in DOMAIN tables
BY CallTypes DEF NamesInv, NamesTyped, CallsFit, Undoes

LEMMA UndoThrown ==
  ASSUME NamesInv, ReadFails, call.tx # NoTx
  PROVE  NamesInv'
<1> PICK t, m, name : t = call.tx /\ m = left[t] /\ name = call.name
  OBVIOUS
<1>1. /\ t \in Tx /\ pc[t] = "undo" /\ m > 0 /\ log[t][m].kind = "drop" /\ call' = NoCall
      /\ log[t][m].name = name /\ name \in DOMAIN tables /\ call.op = "walk"
      /\ rows' = rows /\ state' = state /\ log' = log /\ locks' = locks
      /\ UNCHANGED <<tables, torn, left>> /\ pc' = [pc EXCEPT ![t] = "thrown"]
  BY UndoesIs DEF ReadFails
<1>2. TxsTyped /\ m \in Nat /\ Live(t) = m /\ LogFits(t) /\ Logged(t)
  BY <1>1 DEF NamesInv, TxsTyped, Logs, Live
<1>3. call' \in Call /\ call'.op = "none"
  BY <1>1, CallTypes DEF NamesInv, NamesTyped, Call, NoCall
<1>4. CallsFit' /\ \A n : Settled(n)' <=> Settled(n)
  BY <1>1, <1>3 DEF CallsFit, Creating, Settled, Dropping
<1>5. /\ tables' = tables /\ torn' = torn /\ left' = left /\ pc'[t] = "thrown"
      /\ \A u \in Tx : u # t => pc'[u] = pc[u]
  BY <1>2, <1>1 DEF TxsTyped
<1>6. NamesTyped' /\ TxsTyped'
  BY <1>1, <1>2, <1>3 DEF NamesInv, NamesTyped, TxsTyped
<1>7. RowsFollow'
  <2>1. \A n \in DOMAIN tables : TableFits(n)'
    BY <1>1, <1>5 DEF NamesInv, RowsFollow, TableFits, Settled, Dropping
  <2>2. ASSUME NEW r \in DOMAIN rows PROVE RowFits(r)'
    <3>1. RowFits(r)
      BY DEF NamesInv, RowsFollow
    <3>2. Undoing(r) => Undoing(r)'
      BY <1>1, <1>5 DEF Undoing
    <3> QED
      BY <1>1, <1>4, <1>5, <3>1, <3>2 DEF RowFits
  <2> QED
    BY <1>1, <1>5, <2>1, <2>2 DEF NamesInv, RowsFollow
<1>8. ASSUME NEW u \in Tx PROVE LogFits(u)' /\ Logged(u)'
  <2>1. LogFits(u) /\ Logged(u) /\ Live(u) \in Nat
    BY LiveIs DEF NamesInv, Logs
  <2>2. /\ Live(u)' = Live(u)
        /\ pc[u] = "undo" => pc'[u] = "undo" \/ log[u][Live(u)].kind = "drop"
        /\ pc'[u] # "ready" => state'[u] # "GROWING"
        /\ pc'[u] = "ended" => left'[u] = 0
    <3>1. CASE u = t
      BY <1>1, <1>2, <1>5, <3>1 DEF Live, LogFits
    <3>2. CASE u # t
      BY <1>1, <1>5, <2>1, <3>2 DEF Live, LogFits
    <3> QED
      BY <3>1, <3>2
  <2>3. \A i \in 1 .. Live(u) : log[u][i].kind = "delete" =>
          log[u][i].rid \in DOMAIN rows' /\ rows'[log[u][i].rid].by = u
    BY <1>1, LoggedRow
  <2>4. LogFits(u)'
    BY <1>1, <1>5, <2>1, <2>2, <2>3, LogKept
  <2> QED
    BY <1>1, <1>5, <2>1, <2>2, <2>4, LoggedKept
<1> QED
  BY <1>4, <1>6, <1>7, <1>8 DEF NamesInv, Logs

LEMMA TableUndone ==
  ASSUME NamesInv, EraseTable, call.tx # NoTx
  PROVE  NamesInv'
<1> PICK t, m, name : t = call.tx /\ m = left[t] /\ name = call.name
  OBVIOUS
<1>1. /\ t \in Tx /\ pc[t] = "undo" /\ m > 0 /\ log[t][m].kind = "drop" /\ call' = NoCall
      /\ log[t][m].name = name /\ name \in DOMAIN tables /\ call.op = "delete"
      /\ rows' = rows /\ state' = state /\ log' = log /\ locks' = locks /\ pc' = pc
      /\ tables' = Without(tables, name) /\ torn' = torn \ {name}
      /\ left' = [left EXCEPT ![t] = m - 1]
  BY UndoesIs DEF EraseTable, Undone
<1>2. TxsTyped /\ m \in Nat /\ Live(t) = m /\ LogFits(t) /\ Logged(t)
  BY <1>1 DEF NamesInv, TxsTyped, Logs, Live
<1>3. DropFits(t, m) /\ m \in 1 .. m
  BY <1>1, <1>2 DEF LogFits
<1>4. call' \in Call /\ call'.op = "none" /\ CallsFit'
  BY <1>1, CallTypes DEF NamesInv, NamesTyped, Call, NoCall, CallsFit, Creating
<1> PICK k : k = m - 1
  OBVIOUS
<1>5. /\ DOMAIN tables' = DOMAIN tables \ {name}
      /\ \A n \in DOMAIN tables : n # name => tables'[n] = tables[n]
  BY <1>1 DEF Without, Restrict
<1>6. /\ tables[name].by = t /\ k \in Nat /\ k > 0 /\ k + 1 = m
      /\ log[t][k].kind = "delete" /\ log[t][k].rid = tables[name].rid
      /\ \A j \in 1 .. m : log[t][j].kind = "drop" /\ log[t][j].name = name => j = m
  <2>1. /\ log[t][m].name = name /\ tables[name].by = t /\ m > 1 /\ log[t][m - 1].kind = "delete"
        /\ log[t][m - 1].rid = tables[name].rid
        /\ \A j \in 1 .. m : log[t][j].kind = "drop" /\ log[t][j].name = name => j = m
    BY <1>1, <1>2, <1>3 DEF DropFits
  <2> QED
    BY <1>2, <2>1
<1>7. left'[t] = k /\ Live(t)' = k /\ \A u \in Tx : u # t => left'[u] = left[u]
  BY <1>1, <1>2, <1>1 DEF TxsTyped, Live
<1>8. NamesTyped' /\ TxsTyped'
  <2>1. Len(log[t]) \in Nat /\ m <= Len(log[t])
    BY <1>1, <1>2, RangeIs DEF TxsTyped
  <2>2. \A u \in Tx : left'[u] \in Nat /\ left'[u] <= Len(log[u])
    BY <1>2, <1>6, <1>7, <2>1 DEF TxsTyped
  <2>3. left' \in [Tx -> Nat]
    BY <1>2, <1>1, <1>6 DEF TxsTyped
  <2> QED
    BY <1>1, <1>2, <1>4, <1>5, <2>2, <2>3 DEF NamesInv, NamesTyped, TxsTyped
<1>9. \A n : Settled(n)' <=> Settled(n) /\ n # name
  BY <1>1, <1>4, <1>5 DEF Settled, Dropping
<1>10. RowsFollow'
  <2>1. \A n \in DOMAIN tables' : TableFits(n)'
    BY <1>1, <1>5, <1>9 DEF NamesInv, RowsFollow, TableFits
  <2>2. \A n \in torn' : tables'[n].by = NoTx
    BY <1>1, <1>5 DEF NamesInv, NamesTyped, RowsFollow
  <2>3. ASSUME NEW r \in DOMAIN rows PROVE RowFits(r)'
    <3>1. RowFits(r) /\ call.op # "row" /\ rows'[r] = rows[r]
      BY <1>1, <1>4 DEF NamesInv, RowsFollow
    <3>2. CASE Settled(rows[r].name) /\ tables[rows[r].name].rid = r /\ rows[r].name # name
      <4>1. rows[r].name \in DOMAIN tables
        BY <3>2 DEF Settled
      <4> QED
        BY <1>1, <1>5, <1>9, <3>2, <4>1 DEF RowFits
    <3>3. CASE tables[rows[r].name].rid = r /\ rows[r].name = name
      <4>1. rows[r].by = t
        BY <1>1, <1>6, <3>3, OwnSettled
      <4> QED
        BY <1>1, <1>6, <1>7, <3>3, <4>1 DEF RowFits, Undoing
    <3>4. CASE Undoing(r)
      <4>1. PICK u \in Tx : /\ pc[u] = "undo" /\ left[u] > 0 /\ rows[r].by = u
                            /\ log[u][left[u]].kind = "delete" /\ log[u][left[u]].rid = r
        BY <3>4 DEF Undoing
      <4>2. u # t /\ left'[u] = left[u]
        BY <1>1, <1>7, <4>1
      <4> QED
        BY <1>1, <4>1, <4>2 DEF RowFits, Undoing
    <3> QED
      BY <3>1, <3>2, <3>3, <3>4 DEF RowFits
  <2> QED
    BY <1>1, <2>1, <2>2, <2>3 DEF RowsFollow
<1>11. ASSUME NEW u \in Tx, u # t PROVE LogFits(u)' /\ Logged(u)'
  <2>1. LogFits(u) /\ Logged(u) /\ left'[u] = left[u]
    BY <1>7, <1>11 DEF NamesInv, Logs
  <2>2. Live(u)' = Live(u) /\ Live(u) \in Nat
    BY <1>1, <2>1, LiveIs DEF NamesInv, Live
  <2>3. \A i \in 1 .. Live(u) : log[u][i].kind = "delete" =>
          log[u][i].rid \in DOMAIN rows' /\ rows'[log[u][i].rid].by = u
    BY <1>1, LoggedRow
  <2>4. (pc[u] # "ready" => state[u] # "GROWING") /\ (pc[u] = "ended" => left[u] = 0)
    BY <2>1 DEF LogFits
  <2>5. \A n \in DOMAIN tables : tables[n].by = u =>
          n \in DOMAIN tables' /\ tables'[n].by = u /\ tables'[n].rid = tables[n].rid
    BY <1>5, <1>6, <1>11
  <2>6. LogFits(u)'
    BY <1>1, <2>1, <2>2, <2>3, <2>4, <2>5, LogKept
  <2> QED
    BY <1>1, <1>5, <2>1, <2>2, <2>6, LoggedKept
<1>12. LogFits(t)'
  <2> PICK l : l = log[t]
    OBVIOUS
  <2>1. ASSUME NEW i \in 1 .. k, l[i].kind = "drop" PROVE DropFits(t, i)'
    <3>1. i \in 1 .. m /\ i # m
      BY <1>6
    <3>2. DropFits(t, i)
      BY <1>2, <2>1, <3>1 DEF LogFits
    <3> PICK n : n = l[i].name
      OBVIOUS
    <3>3. /\ n \in DOMAIN tables /\ tables[n].by = t /\ i > 1 /\ l[i - 1].kind = "delete"
          /\ l[i - 1].rid = tables[n].rid
          /\ \A j \in 1 .. m : l[j].kind = "drop" /\ l[j].name = n => j = i
      BY <1>2, <3>2 DEF DropFits
    <3>4. n # name
      BY <1>6, <2>1, <3>1
    <3>5. \A j \in 1 .. k : l[j].kind = "drop" /\ l[j].name = n => j = i
      BY <1>6, <3>3
    <3> QED
      BY <1>1, <1>5, <1>7, <3>3, <3>4, <3>5 DEF DropFits
  <2>2. ASSUME NEW i \in 1 .. k, l[i].kind = "delete" PROVE DeleteFits(t, i)'
    <3>1. i \in 1 .. m /\ i < m
      BY <1>6
    <3>2. DeleteFits(t, i)
      BY <1>2, <2>2, <3>1 DEF LogFits
    <3>3. /\ l[i].rid \in DOMAIN rows /\ rows[l[i].rid].by = t /\ l[i + 1].kind = "drop"
          /\ \A j \in 1 .. m : l[j].kind = "delete" /\ l[j].rid = l[i].rid => j = i
      BY <1>2, <3>1, <3>2 DEF DeleteFits
    <3>4. \A j \in 1 .. k : l[j].kind = "delete" /\ l[j].rid = l[i].rid => j = i
      BY <1>6, <3>3
    <3> QED
      BY <1>1, <1>7, <3>3, <3>4 DEF DeleteFits
  <2>3. state[t] # "GROWING"
    BY <1>1, <1>2 DEF LogFits
  <2> QED
    BY <1>1, <1>7, <2>1, <2>2, <2>3 DEF LogFits
<1>13. Logged(t)'
  <2> SUFFICES ASSUME NEW n \in DOMAIN tables', tables'[n].by = t
               PROVE  \E i \in 1 .. k : log[t][i].kind = "drop" /\ log[t][i].name = n
    BY <1>1, <1>7 DEF Logged
  <2>1. n \in DOMAIN tables /\ n # name /\ tables[n].by = t
    BY <1>5
  <2>2. PICK i \in 1 .. m : log[t][i].kind = "drop" /\ log[t][i].name = n
    BY <1>2, <2>1 DEF Logged
  <2>3. i # m
    BY <1>1, <2>1, <2>2
  <2>4. i \in 1 .. k
    BY <1>6, <2>3
  <2> QED
    BY <2>2, <2>4
<1> QED
  BY <1>4, <1>8, <1>10, <1>11, <1>12, <1>13 DEF NamesInv, Logs

LEMMA RowUndone ==
  ASSUME NamesInv, Careful, NEW t \in Tx, UndoRow(t)
  PROVE  NamesInv'
<1> PICK m, rid, k : m = left[t] /\ rid = log[t][m].rid /\ k = m - 1
  OBVIOUS
<1>1. /\ pc[t] = "undo" /\ m > 0 /\ log[t][m].kind = "delete"
      /\ rows' = Without(rows, rid) /\ left' = [left EXCEPT ![t] = k]
      /\ tables' = tables /\ torn' = torn
      /\ call' = call /\ state' = state /\ log' = log /\ pc' = pc /\ locks' = locks
  BY DEF UndoRow, Record, Withdrawn, Undone
<1>2. /\ TxsTyped /\ m \in Nat /\ Live(t) = m /\ m \in 1 .. m /\ LogFits(t) /\ Logged(t)
      /\ k \in Nat /\ k + 1 = m
  BY <1>1 DEF NamesInv, TxsTyped, Logs, Live
<1>3. /\ rid \in DOMAIN rows /\ rows[rid].by = t /\ ~(call.op = "row" /\ call.rid = rid)
      /\ \A j \in 1 .. m : log[t][j].kind = "delete" /\ log[t][j].rid = rid => j = m
  <2>1. DeleteFits(t, m)
    BY <1>1, <1>2 DEF LogFits
  <2> QED
    BY <1>1, <1>2, <2>1, LoggedRow DEF DeleteFits
<1>4. /\ DOMAIN rows' = DOMAIN rows \ {rid}
      /\ \A r \in DOMAIN rows : r # rid => rows'[r] = rows[r]
  BY <1>1 DEF Without, Restrict
<1>5. left'[t] = k /\ Live(t)' = k /\ \A u \in Tx : u # t => left'[u] = left[u]
  BY <1>1, <1>2 DEF TxsTyped, Live
<1>6. NamesTyped' /\ TxsTyped'
  <2>1. Len(log[t]) \in Nat /\ m <= Len(log[t])
    BY <1>2, RangeIs DEF TxsTyped
  <2>2. \A u \in Tx : left'[u] \in Nat /\ left'[u] <= Len(log[u])
    BY <1>2, <1>5, <2>1 DEF TxsTyped
  <2>3. left' \in [Tx -> Nat]
    BY <1>1, <1>2 DEF TxsTyped
  <2> QED
    BY <1>1, <1>4, <2>2, <2>3 DEF NamesInv, NamesTyped, TxsTyped
<1>7. CallsFit'
  <2>1. ASSUME NEW u \in Tx, NEW n, Undoes(u, n) PROVE Undoes(u, n)'
    <3>1. u # t
      BY <1>1, <2>1 DEF Undoes
    <3> QED
      BY <1>1, <1>5, <2>1, <3>1 DEF Undoes
  <2>2. call \in Call /\ CallsFit
    BY DEF NamesInv, NamesTyped
  <2>3. call.op = "row" => call.rid \in DOMAIN rows /\ call.rid # rid
    BY <1>3, <2>2 DEF CallsFit
  <2>4. Creating /\ call.tx # NoTx => pc'[call.tx] # "undo"
    BY <1>1, <2>2 DEF CallsFit
  <2> QED
    BY <1>1, <1>4, <2>1, <2>2, <2>3, <2>4, CallKept
<1>8. \A n : Settled(n)' <=> Settled(n)
  BY <1>1 DEF Settled, Dropping
(* The table of the row has gone before it. *)
<1>9. ASSUME NEW n \in DOMAIN tables, Settled(n) PROVE tables[n].rid # rid
  <2> SUFFICES ASSUME tables[n].rid = rid PROVE FALSE
    OBVIOUS
  <2>1. tables[n].by = t
    BY <1>3, <1>9 DEF NamesInv, RowsFollow, TableFits
  <2>2. PICK i \in 1 .. m : log[t][i].kind = "drop" /\ log[t][i].name = n
    BY <1>2, <2>1 DEF Logged
  <2>3. DropFits(t, i)
    BY <1>2, <2>2 DEF LogFits
  <2> PICK h : h = i - 1
    OBVIOUS
  <2>4. h \in 1 .. m /\ h # m /\ log[t][h].kind = "delete" /\ log[t][h].rid = rid
    BY <1>2, <2>2, <2>3 DEF DropFits
  <2> QED
    BY <1>3, <2>4
<1>10. RowsFollow'
  <2>1. ASSUME NEW n \in DOMAIN tables PROVE TableFits(n)'
    <3> SUFFICES ASSUME Settled(n) PROVE TableFits(n)'
      BY <1>8 DEF TableFits
    <3>1. TableFits(n) /\ tables[n].rid # rid
      BY <1>9 DEF NamesInv, RowsFollow
    <3> QED
      BY <1>1, <1>4, <3>1 DEF TableFits
  <2>2. ASSUME NEW r \in DOMAIN rows' PROVE RowFits(r)'
    <3>1. RowFits(r) /\ r # rid /\ rows'[r] = rows[r]
      BY <1>4 DEF NamesInv, RowsFollow
    <3>2. ASSUME Undoing(r) PROVE Undoing(r)'
      <4>1. PICK u \in Tx : /\ pc[u] = "undo" /\ left[u] > 0 /\ rows[r].by = u
                            /\ log[u][left[u]].kind = "delete" /\ log[u][left[u]].rid = r
        BY <3>2 DEF Undoing
      <4>2. u # t /\ left'[u] = left[u]
        BY <1>5, <3>1, <4>1
      <4> QED
        BY <1>1, <3>1, <4>1, <4>2 DEF Undoing
    <3> QED
      BY <1>1, <1>8, <3>1, <3>2 DEF RowFits
  <2> QED
    BY <1>1, <2>1, <2>2 DEF NamesInv, RowsFollow
<1>11. ASSUME NEW u \in Tx, u # t PROVE LogFits(u)' /\ Logged(u)'
  <2>1. LogFits(u) /\ Logged(u) /\ left'[u] = left[u]
    BY <1>5, <1>11 DEF NamesInv, Logs
  <2>2. Live(u)' = Live(u) /\ Live(u) \in Nat
    BY <1>1, <2>1, LiveIs DEF NamesInv, Live
  <2>3. \A i \in 1 .. Live(u) : log[u][i].kind = "delete" =>
          log[u][i].rid \in DOMAIN rows' /\ rows'[log[u][i].rid].by = u
    BY <1>3, <1>4, <1>11, LoggedRow
  <2>4. (pc[u] # "ready" => state[u] # "GROWING") /\ (pc[u] = "ended" => left[u] = 0)
    BY <2>1 DEF LogFits
  <2>5. LogFits(u)'
    BY <1>1, <2>1, <2>2, <2>3, <2>4, LogKept
  <2> QED
    BY <1>1, <2>1, <2>2, <2>5, LoggedKept
<1>12. LogFits(t)'
  <2> PICK l : l = log[t]
    OBVIOUS
  <2>1. ASSUME NEW i \in 1 .. k, l[i].kind = "drop" PROVE DropFits(t, i)'
    <3>1. i \in 1 .. m
      BY <1>2
    <3>2. DropFits(t, i)
      BY <1>2, <2>1, <3>1 DEF LogFits
    <3>3. \A j \in 1 .. k : j \in 1 .. m
      BY <1>2
    <3> QED
      BY <1>1, <1>2, <1>5, <3>2, <3>3 DEF DropFits
  <2>2. ASSUME NEW i \in 1 .. k, l[i].kind = "delete" PROVE DeleteFits(t, i)'
    <3>1. i \in 1 .. m /\ i < m
      BY <1>2
    <3>2. DeleteFits(t, i)
      BY <1>2, <2>2, <3>1 DEF LogFits
    <3>3. /\ l[i].rid \in DOMAIN rows /\ rows[l[i].rid].by = t /\ l[i + 1].kind = "drop"
          /\ \A j \in 1 .. m : l[j].kind = "delete" /\ l[j].rid = l[i].rid => j = i
      BY <1>2, <3>1, <3>2 DEF DeleteFits
    <3>4. /\ l[i].rid # rid
          /\ \A j \in 1 .. k : l[j].kind = "delete" /\ l[j].rid = l[i].rid => j = i
      BY <1>2, <1>3, <2>2, <3>1, <3>3
    <3> QED
      BY <1>1, <1>4, <1>5, <3>3, <3>4 DEF DeleteFits
  <2>3. state[t] # "GROWING"
    BY <1>1, <1>2 DEF LogFits
  <2> QED
    BY <1>1, <1>5, <2>1, <2>2, <2>3 DEF LogFits
<1>13. Logged(t)'
  <2> SUFFICES ASSUME NEW n \in DOMAIN tables, tables[n].by = t
               PROVE  \E i \in 1 .. k : log[t][i].kind = "drop" /\ log[t][i].name = n
    BY <1>1, <1>5 DEF Logged
  <2>1. PICK i \in 1 .. m : log[t][i].kind = "drop" /\ log[t][i].name = n
    BY <1>2 DEF Logged
  <2>2. i # m
    BY <1>1, <2>1
  <2>3. i \in 1 .. k
    BY <1>2, <2>2
  <2> QED
    BY <2>1, <2>3
<1> QED
  BY <1>6, <1>7, <1>10, <1>11, <1>12, <1>13 DEF NamesInv, Logs

(* A database that is opened again finds the tables it has had, but for    *)
(* those whose drop has failed half way.                                   *)
LEMMA TablesLoaded ==
  ASSUME NamesInv, RowsOnPages, CatalogPages \in Seq(PageIDs), IsInjective(CatalogPages),
         Idle, \A t \in Tx : pc[t] # "undo"
  PROVE  /\ DOMAIN load_existing_tables = DOMAIN tables \ torn
         /\ \A n \in DOMAIN tables \ torn :
              /\ load_existing_tables[n] = [tables[n] EXCEPT !.by = NoTx]
              /\ load_existing_tables[n] \in TableEntry
              /\ load_existing_tables[n].rid = tables[n].rid
              /\ load_existing_tables[n].first_page_id = tables[n].first_page_id
              /\ load_existing_tables[n].by = NoTx
         /\ \A r \in DOMAIN rows : rows[r].name \in DOMAIN tables \ torn
                                   /\ tables[rows[r].name].rid = r
<1> PICK loaded : loaded = load_existing_tables
  OBVIOUS
<1>1. call.op = "none"
  BY CallTypes DEF Idle, NamesInv, NamesTyped
<1>2. \A n : Settled(n) <=> n \in DOMAIN tables \ torn
  BY <1>1 DEF Settled, Dropping
<1>3. \A r \in DOMAIN rows : rows[r].name \in DOMAIN tables \ torn
                             /\ tables[rows[r].name].rid = r
  BY <1>1, <1>2 DEF NamesInv, RowsFollow, RowFits, Undoing
<1>4. \A n \in DOMAIN tables \ torn :
        /\ tables[n].rid \in DOMAIN rows /\ rows[tables[n].rid].name = n
        /\ rows[tables[n].rid].first_page_id = tables[n].first_page_id
  BY <1>2 DEF NamesInv, RowsFollow, TableFits
<1>5. \A r, s \in DOMAIN rows : rows[r].name = rows[s].name => r = s
  BY <1>3
<1>6. DOMAIN rows \subseteq RID /\ \A n \in DOMAIN tables : tables[n] \in TableEntry
  BY DEF NamesInv, NamesTyped
<1>7. /\ DOMAIN loaded = {rows[r].name : r \in DOMAIN rows}
      /\ \A r \in DOMAIN rows : loaded[rows[r].name] =
           [rid |-> r, first_page_id |-> rows[r].first_page_id, by |-> NoTx]
  BY <1>5, <1>6, LoadedIs
<1>8. DOMAIN loaded = DOMAIN tables \ torn
  <2>1. \A n \in DOMAIN loaded : n \in DOMAIN tables \ torn
    BY <1>3, <1>7
  <2>2. ASSUME NEW n \in DOMAIN tables \ torn PROVE n \in DOMAIN loaded
    <3>1. tables[n].rid \in DOMAIN rows /\ rows[tables[n].rid].name = n
      BY <1>4
    <3> QED
      BY <1>7, <3>1
  <2> QED
    BY <2>1, <2>2
<1>9. ASSUME NEW n \in DOMAIN tables \ torn
      PROVE  /\ loaded[n] = [tables[n] EXCEPT !.by = NoTx] /\ loaded[n] \in TableEntry
             /\ loaded[n].rid = tables[n].rid /\ loaded[n].by = NoTx
             /\ loaded[n].first_page_id = tables[n].first_page_id
  <2> PICK r : r = tables[n].rid
    OBVIOUS
  <2>1. r \in DOMAIN rows /\ rows[r].name = n /\ rows[r].first_page_id = tables[n].first_page_id
    BY <1>4
  <2>2. loaded[n] = [rid |-> tables[n].rid, first_page_id |-> tables[n].first_page_id, by |-> NoTx]
    BY <1>7, <2>1
  <2>3. tables[n] \in TableEntry
    BY <1>6
  <2> QED
    BY <2>2, <2>3 DEF TableEntry
<1> QED
  BY <1>3, <1>8, <1>9

LEMMA NamesReopened ==
  ASSUME NamesInv, RowsOnPages, CatalogPages \in Seq(PageIDs), IsInjective(CatalogPages),
         Reopen
  PROVE  NamesInv'
<1>1. /\ tables' = load_existing_tables /\ torn' = {} /\ call' = call /\ call = NoCall
      /\ rows' = [r \in DOMAIN rows |-> [rows[r] EXCEPT !.by = NoTx]]
      /\ state' = [t \in Tx |-> "GROWING"] /\ log' = [t \in Tx |-> <<>>]
      /\ left' = [t \in Tx |-> 0] /\ pc' = [t \in Tx |-> "ready"]
      /\ locks' = [t \in Tx |-> {}] /\ Idle /\ \A t \in Tx : pc[t] # "undo"
  BY DEF Reopen, Idle
<1>2. /\ DOMAIN tables' = DOMAIN tables \ torn
      /\ \A n \in DOMAIN tables' :
           /\ tables'[n] \in TableEntry /\ tables'[n].rid = tables[n].rid
           /\ tables'[n].first_page_id = tables[n].first_page_id
           /\ tables'[n].by = NoTx
      /\ \A r \in DOMAIN rows : rows[r].name \in DOMAIN tables' /\ tables[rows[r].name].rid = r
  BY <1>1, TablesLoaded
<1>3. /\ DOMAIN rows' = DOMAIN rows
      /\ \A r \in DOMAIN rows : /\ rows'[r] \in Row /\ rows'[r].name = rows[r].name
                                /\ rows'[r].first_page_id = rows[r].first_page_id
                                /\ rows'[r].by = NoTx
  <2>1. \A r \in DOMAIN rows : rows[r] \in Row
    BY DEF NamesInv, NamesTyped
  <2> QED
    BY <1>1, <2>1 DEF Row
<1>4. call.op = "none" /\ NamesTyped'
  BY <1>1, <1>2, <1>3, CallTypes DEF NamesInv, NamesTyped
<1>5. TxsTyped' /\ \A t \in Tx : Len(log'[t]) = 0 /\ pc'[t] = "ready"
  <2>1. <<>> \in Seq(UndoRecord) /\ Len(<<>>) = 0 /\ {} \in SUBSET RID
    OBVIOUS
  <2> QED
    BY <1>1, <2>1 DEF TxsTyped
<1>6. CallsFit'
  BY <1>1, <1>4 DEF CallsFit, Creating
<1>7. \A n \in DOMAIN tables' : Settled(n)' /\ Settled(n)
  BY <1>1, <1>2, <1>4 DEF Settled, Dropping
<1>8. RowsFollow'
  <2>1. ASSUME NEW n \in DOMAIN tables' PROVE TableFits(n)'
    <3>1. TableFits(n) /\ Settled(n)
      BY <1>2, <1>7 DEF NamesInv, RowsFollow
    <3> QED
      BY <1>2, <1>3, <3>1 DEF TableFits
  <2>2. \A r \in DOMAIN rows : RowFits(r)'
    BY <1>2, <1>3, <1>7 DEF RowFits
  <2> QED
    BY <1>1, <1>3, <2>1, <2>2 DEF RowsFollow
<1>9. Logs'
  <2> SUFFICES ASSUME NEW t \in Tx PROVE LogFits(t)' /\ Logged(t)'
    BY DEF Logs
  <2>1. Live(t)' = 0 /\ \A i \in 1 .. 0 : FALSE
    BY <1>5 DEF Live
  <2>2. \A n \in DOMAIN tables' : tables'[n].by # t
    BY <1>2, CatalogAssumption
  <2> QED
    BY <1>5, <2>1, <2>2 DEF LogFits, Logged
<1> QED
  BY <1>4, <1>5, <1>6, <1>8, <1>9 DEF NamesInv
-----------------------------------------------------------------------------
(* The pages, step by step.                                                *)
LEMMA CatalogHeap ==
  ASSUME PagesInv, HeapsAreUsed
  PROVE  /\ Apart(capacity, free_list, chain, Lost)
         /\ kCATALOG_FIRST_PAGE_ID \in DOMAIN chain
         /\ CatalogPages \in Seq(PageIDs) /\ IsInjective(CatalogPages)
BY DEF PagesInv, PagesApart, Apart, HeapsAreUsed, CatalogPages

LEMMA PagesSame ==
  ASSUME PagesInv, UNCHANGED <<pages, pinned, gone>>,
         call' = call \/ (call.op # "delete" /\ call'.op # "delete")
  PROVE  /\ PagesInv' /\ chain' = chain /\ CatalogPages' = CatalogPages
         /\ \A n : Deleting(n)' <=> Deleting(n)
<1>1. /\ capacity' = capacity /\ free_list' = free_list /\ chain' = chain
      /\ leaked' = leaked /\ pinned' = pinned /\ gone' = gone
  BY DEF pages
<1>2. /\ Undeleted' = Undeleted /\ \A n : Deleting(n)' <=> Deleting(n)
      /\ call'.op = "delete" => call.op = "delete" /\ call'.page_ids = call.page_ids
  BY DEF Undeleted, Deleting
<1>3. Lost' = Lost /\ CatalogPages' = CatalogPages
  BY <1>1, <1>2 DEF Lost, CatalogPages
<1>4. PagesApart'
  BY <1>1, <1>2, <1>3 DEF PagesInv, PagesApart
<1> QED
  BY <1>1, <1>2, <1>3, <1>4 DEF PagesInv, Unpinned, PinsTyped, GoneTyped

LEMMA HeapsKept ==
  ASSUME HeapsAreUsed, DOMAIN chain' = DOMAIN chain,
         \A h \in DOMAIN chain : Creating /\ h = call.page => chain'[h] = chain[h],
         Creating' <=> Creating, Creating => call'.page = call.page,
         \A n : Deleting(n)' <=> Deleting(n),
         DOMAIN tables' = DOMAIN tables,
         \A n \in DOMAIN tables : tables'[n].first_page_id = tables[n].first_page_id
  PROVE  HeapsAreUsed'
BY DEF HeapsAreUsed

(* The heap of a create_table that fails.                                  *)
LEMMA CreationGone ==
  ASSUME HeapsAreUsed, Creating, call' = NoCall, tables' = tables,
         kCATALOG_FIRST_PAGE_ID \in DOMAIN chain, NEW heaps,
         DOMAIN heaps = DOMAIN chain,
         \A h \in DOMAIN chain : h # kCATALOG_FIRST_PAGE_ID => heaps[h] = chain[h],
         chain' = Without(heaps, call.page)
  PROVE  HeapsAreUsed' /\ CatalogPages' = heaps[kCATALOG_FIRST_PAGE_ID]
<1>1. /\ DOMAIN chain' = DOMAIN chain \ {call.page}
      /\ \A h \in DOMAIN chain : h # call.page => chain'[h] = heaps[h]
  BY DEF Without, Restrict
<1>2. ~Creating' /\ \A n : ~Deleting(n) /\ ~Deleting(n)'
  BY DEF Creating, Deleting, NoCall
<1> QED
  BY <1>1, <1>2 DEF HeapsAreUsed, CatalogPages

(* The end of a drop: its heap has gone, and its pages have owners.        *)
LEMMA TableGone ==
  ASSUME PagesInv, HeapsAreUsed, EraseTable
  PROVE  PagesInv' /\ HeapsAreUsed' /\ CatalogPages' = CatalogPages
<1> PICK name : name = call.name
  OBVIOUS
<1>1. /\ call.op = "delete" /\ call.page_ids = <<>> /\ call' = NoCall
      /\ tables' = Without(tables, name)
      /\ capacity' = capacity /\ free_list' = free_list /\ chain' = chain
      /\ leaked' = leaked /\ pinned' = pinned /\ gone' = gone
  BY DEF EraseTable, pages
<1>2. ~Creating /\ ~Creating' /\ call'.op # "delete"
      /\ \A n : ~Deleting(n)' /\ (Deleting(n) <=> n = name)
  BY <1>1 DEF Creating, Deleting, NoCall
<1>3. Lost = leaked /\ Lost' = leaked
  <2>1. Range(<<>>) = {}
    BY DEF Range
  <2> QED
    BY <1>1, <1>2, <2>1 DEF Lost, Undeleted
<1>4. /\ DOMAIN tables' = DOMAIN tables \ {name}
      /\ \A n \in DOMAIN tables : n # name => tables'[n] = tables[n]
  BY <1>1, Less
<1>5. PagesInv'
  BY <1>1, <1>2, <1>3 DEF PagesInv, PagesApart, Unpinned, PinsTyped, GoneTyped
<1>6. HeapsAreUsed'
  BY <1>1, <1>2, <1>4 DEF HeapsAreUsed
<1> QED
  BY <1>1, <1>5, <1>6 DEF CatalogPages

(* A page of the file that is allocated and then belongs to a heap, or to  *)
(* nobody.                                                                 *)
LEMMA PageTaken ==
  ASSUME PagesInv, NEW p, allocate(p), pinned' = pinned, GoneTyped',
         Apart(capacity', free_list', chain', Lost'),
         call'.op = "delete" => call' = call /\ \A q \in Undeleted : q \notin leaked'
  PROVE  PagesInv'
<1>1. /\ Len(free_list') <= Len(free_list)
      /\ \A q \in Range(free_list') : q \in Range(free_list)
  BY Allocated DEF PagesInv
<1>2. /\ Len(free_list) \in Nat /\ Len(free_list') \in Nat /\ kFREE_LIST_LIMIT \in Nat
      /\ Len(free_list) <= kFREE_LIST_LIMIT + 1
  BY RangeIs, LimitAssumption DEF PagesInv, PagesApart, Apart
<1>3. call'.op = "delete" => /\ IsInjective(call'.page_ids)
                             /\ \A q \in Undeleted' : q \notin leaked'
  BY DEF PagesInv, PagesApart, Undeleted
<1>4. PagesApart'
  BY <1>1, <1>2, <1>3 DEF PagesApart
<1> QED
  BY <1>1, <1>4 DEF PagesInv, Unpinned, PinsTyped

LEMMA PagesCreated ==
  ASSUME IInv, NEW t \in Tx \cup {NoTx}, NEW name \in Name, CreateTable(t, name)
  PROVE  PagesInv' /\ HeapsAreUsed' /\ RowsOnPages'
<1>1. /\ call = NoCall /\ IsNew(name) /\ rows' = rows /\ tables' = tables /\ pinned' = pinned
      /\ gone' = gone
  BY DEF CreateTable, Idle, names
<1>2. call.op = "none" /\ ~Creating
  BY <1>1, CallTypes DEF IInv, NamesInv, NamesTyped, Creating
<1>3. PICK p \in PageIDs :
        /\ allocate(p)
        /\ IF CanCreate({})
           THEN /\ chain' = With(chain, p, <<p>>)
                /\ call' = [op |-> "heap", name |-> name, tx |-> t, page |-> p]
                /\ leaked' = leaked
           ELSE leaked' = leaked \cup {p} /\ chain' = chain /\ call' = call
  BY DEF CreateTable
<1>4. /\ call'.op # "delete" /\ Lost = leaked /\ Lost' = leaked' /\ GoneTyped'
      /\ \A n : ~Deleting(n) /\ ~Deleting(n)'
  BY <1>1, <1>2, <1>3, NotDeleting DEF IInv, PagesInv, GoneTyped
<1>5. /\ p \notin leaked /\ Apart(capacity', free_list', chain, leaked \cup {p})
  BY <1>3, <1>4, Allocated DEF IInv, PagesInv
<1>6. CASE CanCreate({})
  <2>1. Apart(capacity', free_list', With(chain, p, <<p>>), leaked) /\ p \notin DOMAIN chain
    BY <1>5, NewHeap
  <2>2. PagesInv'
    BY <1>1, <1>3, <1>4, <1>6, <2>1, PageTaken DEF IInv
  <2> PICK s : s = <<p>>
    OBVIOUS
  <2>3. /\ DOMAIN chain' = DOMAIN chain \cup {p} /\ chain'[p] = s
        /\ \A h \in DOMAIN chain : h # p /\ chain'[h] = chain[h]
    BY <1>3, <1>6, <2>1 DEF With
  <2>4. Creating' /\ call'.page = p
    BY <1>3, <1>6 DEF Creating
  <2>5. HeapsAreUsed'
    BY <1>1, <1>2, <1>4, <2>3, <2>4 DEF IInv, HeapsAreUsed
  <2>6. CatalogPages' = CatalogPages
    BY <2>3 DEF IInv, HeapsAreUsed, CatalogPages
  <2> QED
    BY <1>1, <2>2, <2>5, <2>6 DEF IInv, RowsOnPages
<1>7. CASE ~CanCreate({})
  <2>1. PagesInv'
    BY <1>1, <1>3, <1>4, <1>5, <1>7, PageTaken DEF IInv
  <2>2. HeapsAreUsed'
    BY <1>1, <1>3, <1>4, <1>7, HeapsKept DEF IInv, Creating
  <2>3. CatalogPages' = CatalogPages
    BY <1>3, <1>7 DEF CatalogPages
  <2> QED
    BY <1>1, <2>1, <2>2, <2>3 DEF IInv, RowsOnPages
<1> QED
  BY <1>6, <1>7

(* The heap of the table goes, and its page with it, whether the catalog's *)
(* heap stays as it is, or loses an id, or grows.                          *)
LEMMA PagesOfFailure ==
  ASSUME IInv, FailToWrite
  PROVE  PagesInv' /\ HeapsAreUsed' /\ RowsOnPages'
<1> PICK page : page = call.page
  OBVIOUS
<1>1. /\ call.op = "heap" /\ call' = NoCall
      /\ rows' = rows /\ tables' = tables /\ pinned' = pinned /\ gone' = gone
  BY DEF FailToWrite, names
<1>2. /\ Creating /\ page \in DOMAIN chain /\ page # kCATALOG_FIRST_PAGE_ID
      /\ Range(chain[page]) = {page}
  <2>1. Creating
    BY <1>1 DEF Creating
  <2>2. page \in DOMAIN chain /\ page # kCATALOG_FIRST_PAGE_ID /\ chain[page] = <<page>>
    BY <2>1 DEF IInv, HeapsAreUsed
  <2>3. Range(<<page>>) = {page}
    BY DEF Range
  <2> QED
    BY <2>1, <2>2, <2>3
<1>3. call'.op # "delete" /\ Lost = leaked /\ Lost' = leaked' /\ GoneTyped'
  BY <1>1, NotDeleting DEF NoCall, IInv, PagesInv, GoneTyped
<1>4. /\ Apart(capacity, free_list, chain, leaked) /\ kCATALOG_FIRST_PAGE_ID \in DOMAIN chain
      /\ CatalogPages \in Seq(PageIDs) /\ CatalogPages = chain[kCATALOG_FIRST_PAGE_ID]
  BY <1>3, CatalogHeap DEF IInv, CatalogPages
<1>5. ASSUME chain' = Without(chain, page) PROVE HeapsAreUsed' /\ CatalogPages' = CatalogPages
  BY <1>1, <1>2, <1>4, <1>5, CreationGone DEF IInv
<1>6. ASSUME UNCHANGED <<capacity, free_list>>, chain' = Without(chain, page),
             leaked' = leaked \cup {page}
      PROVE  PagesInv' /\ HeapsAreUsed' /\ RowsOnPages'
  <2>1. Apart(capacity, free_list, Without(chain, page), leaked \cup {page})
    BY <1>2, <1>4, HeapLost
  <2>2. PagesInv'
    BY <1>1, <1>3, <1>6, <2>1 DEF IInv, PagesInv, PagesApart, Unpinned, PinsTyped
  <2> QED
    BY <1>1, <1>5, <1>6, <2>2 DEF IInv, RowsOnPages
<1>7. ASSUME NEW p \in PageIDs, allocate(p)
      PROVE  p \notin leaked /\ Apart(capacity', free_list', chain, leaked \cup {p})
  BY <1>3, <1>7, Allocated DEF IInv, PagesInv
<1>8. ASSUME NEW p \in PageIDs, allocate(p), chain' = Without(chain, page),
             leaked' = leaked \cup {page, p}
      PROVE  PagesInv' /\ HeapsAreUsed' /\ RowsOnPages'
  <2>1. Apart(capacity', free_list', Without(chain, page), (leaked \cup {p}) \cup {page})
    BY <1>2, <1>7, <1>8, HeapLost
  <2>2. (leaked \cup {p}) \cup {page} = leaked \cup {page, p}
    OBVIOUS
  <2>3. PagesInv'
    BY <1>1, <1>3, <1>8, <2>1, <2>2, PageTaken DEF IInv
  <2> QED
    BY <1>1, <1>5, <1>8, <2>3 DEF IInv, RowsOnPages
<1>9. ASSUME NEW p \in PageIDs, allocate(p), leaked' = leaked \cup {page},
             chain' = Without([chain EXCEPT ![kCATALOG_FIRST_PAGE_ID] = Append(@, p)], page)
      PROVE  PagesInv' /\ HeapsAreUsed' /\ RowsOnPages'
  <2> PICK heaps : heaps = [chain EXCEPT ![kCATALOG_FIRST_PAGE_ID] = Append(@, p)]
    OBVIOUS
  <2>1. Apart(capacity', free_list', heaps, leaked)
    BY <1>4, <1>7, <1>9, Longer
  <2>2. /\ DOMAIN heaps = DOMAIN chain
        /\ \A h \in DOMAIN chain : h # kCATALOG_FIRST_PAGE_ID => heaps[h] = chain[h]
        /\ heaps[kCATALOG_FIRST_PAGE_ID] = Append(CatalogPages, p)
    BY <1>4
  <2>3. Apart(capacity', free_list', Without(heaps, page), leaked \cup {page})
    <3>1. page \in DOMAIN heaps /\ Range(heaps[page]) = {page}
      BY <1>2, <2>2
    <3> QED
      BY <2>1, <3>1, HeapLost
  <2>4. PagesInv'
    BY <1>1, <1>3, <1>9, <2>3, PageTaken DEF IInv
  <2>5. HeapsAreUsed' /\ CatalogPages' = Append(CatalogPages, p)
    BY <1>1, <1>2, <1>4, <1>9, <2>2, CreationGone DEF IInv
  <2>6. Range(CatalogPages') = Range(CatalogPages) \cup {p}
    BY <1>4, <2>5, Appended
  <2> QED
    BY <1>1, <2>4, <2>5, <2>6 DEF IInv, RowsOnPages
<1>10. \/ /\ leaked' = leaked \cup {page} /\ chain' = Without(chain, page)
          /\ UNCHANGED <<capacity, free_list>>
       \/ \E p \in PageIDs :
            /\ allocate(p)
            /\ \/ /\ leaked' = leaked \cup {page}
                  /\ chain' = Without([chain EXCEPT ![kCATALOG_FIRST_PAGE_ID] = Append(@, p)], page)
               \/ leaked' = leaked \cup {page, p} /\ chain' = Without(chain, page)
  BY DEF FailToWrite
<1> QED
  BY <1>6, <1>8, <1>9, <1>10

(* The place the row is written to was empty.                              *)
LEMMA Placed ==
  ASSUME IInv, WriteRow
  PROVE  PagesInv' /\ HeapsAreUsed' /\ RowsOnPages' /\ NamesInv'
<1>1. /\ call.op = "heap" /\ tables' = tables /\ pinned' = pinned /\ gone' = gone
      /\ UNCHANGED <<tables, torn, txs>>
  BY DEF WriteRow
<1>2. CatalogPages \in Seq(PageIDs) /\ kCATALOG_FIRST_PAGE_ID \in DOMAIN chain
  BY CatalogHeap DEF IInv
<1>3. \A rid : Written(rid) =>
        /\ DOMAIN rows' = DOMAIN rows \cup {rid} /\ call'.op = "row" /\ call'.page = call.page
        /\ Creating /\ Creating'
        /\ Lost = leaked /\ Lost' = leaked' /\ \A n : ~Deleting(n) /\ ~Deleting(n)'
  <2>1. \A rid : Written(rid) =>
          DOMAIN rows' = DOMAIN rows \cup {rid} /\ call'.op = "row" /\ call'.page = call.page
    BY DEF Written, With
  <2> QED
    BY <1>1, <2>1, NotDeleting DEF Creating
<1>4. CASE Empty # {} /\ Written(Place(Min(Empty))) /\ UNCHANGED pages
  <2> PICK rid : rid = Place(Min(Empty))
    OBVIOUS
  <2>1. rid \in RID /\ rid.page_id \in Range(CatalogPages) /\ rid \notin DOMAIN rows
    BY <1>2, <1>4, FirstEmpty
  <2>2. NamesInv'
    BY <1>1, <1>4, <2>1, RowWritten DEF IInv
  <2>3. PagesInv' /\ chain' = chain /\ CatalogPages' = CatalogPages
    BY <1>1, <1>3, <1>4, PagesSame DEF IInv
  <2>4. HeapsAreUsed'
    BY <1>1, <1>3, <1>4, <2>3, HeapsKept DEF IInv
  <2>5. RowsOnPages'
    <3>1. DOMAIN rows' = DOMAIN rows \cup {rid}
      BY <1>3, <1>4
    <3>2. \A r \in DOMAIN rows : r.page_id \in Range(CatalogPages)
      BY DEF IInv, RowsOnPages
    <3> QED
      BY <2>1, <2>3, <3>1, <3>2 DEF RowsOnPages
  <2> QED
    BY <2>2, <2>3, <2>4, <2>5
<1>5. ASSUME NEW p \in PageIDs, allocate(p), leaked' = leaked,
             chain' = [chain EXCEPT ![kCATALOG_FIRST_PAGE_ID] = Append(@, p)],
             Written([page_id |-> p, slot_num |-> 0])
      PROVE  PagesInv' /\ HeapsAreUsed' /\ RowsOnPages' /\ NamesInv'
  <2> PICK rid : rid = [page_id |-> p, slot_num |-> 0]
    OBVIOUS
  <2>1. p \notin leaked /\ Apart(capacity', free_list', chain, leaked \cup {p})
    BY <1>3, <1>5, Allocated DEF IInv, PagesInv
  <2>2. p \notin Range(CatalogPages)
    BY <1>2, <2>1 DEF Apart, CatalogPages
  <2>3. rid \in RID /\ rid.page_id = p /\ rid \notin DOMAIN rows
    <3>1. 0 \in 0 .. RowsPerPage - 1
      BY CatalogAssumption
    <3> QED
      BY <2>2, <3>1 DEF RID, IInv, RowsOnPages
  <2>4. NamesInv'
    BY <1>1, <1>5, <2>3, RowWritten DEF IInv
  <2>5. Apart(capacity', free_list', chain', leaked')
    BY <1>2, <1>5, <2>1, Longer
  <2>6. PagesInv'
    <3>1. GoneTyped' /\ Lost' = leaked' /\ call'.op # "delete"
      BY <1>1, <1>3, <1>5 DEF IInv, PagesInv, GoneTyped
    <3> QED
      BY <1>1, <1>5, <2>5, <3>1, PageTaken DEF IInv
  <2>7. /\ DOMAIN chain' = DOMAIN chain
        /\ \A h \in DOMAIN chain : h # kCATALOG_FIRST_PAGE_ID => chain'[h] = chain[h]
        /\ CatalogPages' = Append(CatalogPages, p)
    BY <1>2, <1>5 DEF CatalogPages
  <2>8. Range(CatalogPages') = Range(CatalogPages) \cup {p}
    BY <1>2, <2>7, Appended
  <2>9. HeapsAreUsed'
    <3>1. Creating => call.page # kCATALOG_FIRST_PAGE_ID
      BY DEF IInv, HeapsAreUsed
    <3> QED
      BY <1>1, <1>3, <1>5, <2>7, <3>1, HeapsKept DEF IInv
  <2>10. RowsOnPages'
    BY <1>3, <1>5, <2>3, <2>8 DEF IInv, RowsOnPages
  <2> QED
    BY <2>4, <2>6, <2>9, <2>10
<1> QED
  BY <1>4, <1>5 DEF WriteRow

LEMMA PagesOfRefusal ==
  ASSUME IInv, Careful, RefuseRow
  PROVE  PagesInv' /\ HeapsAreUsed' /\ RowsOnPages'
<1> PICK page : page = call.page
  OBVIOUS
<1>1. /\ call.op = "row" /\ call' = NoCall /\ chain' = Without(chain, page)
      /\ leaked' = leaked \cup {page} /\ capacity' = capacity /\ free_list' = free_list
      /\ rows' = Without(rows, call.rid) /\ tables' = tables /\ pinned' = pinned
      /\ gone' = gone
  BY DEF RefuseRow, Withdrawn
<1>2. Creating /\ page \in DOMAIN chain /\ Range(chain[page]) = {page}
  <2>1. Creating
    BY <1>1 DEF Creating
  <2>2. page \in DOMAIN chain /\ chain[page] = <<page>>
    BY <2>1 DEF IInv, HeapsAreUsed
  <2>3. Range(<<page>>) = {page}
    BY DEF Range
  <2> QED
    BY <2>1, <2>2, <2>3
<1>3. call'.op # "delete" /\ Lost = leaked /\ Lost' = leaked'
  BY <1>1, NotDeleting DEF NoCall
<1>4. Apart(capacity, free_list, chain, leaked) /\ kCATALOG_FIRST_PAGE_ID \in DOMAIN chain
  BY <1>3, CatalogHeap DEF IInv
<1>5. HeapsAreUsed' /\ CatalogPages' = CatalogPages
  BY <1>1, <1>2, <1>4, CreationGone DEF IInv, CatalogPages
<1>6. Apart(capacity, free_list, Without(chain, page), leaked \cup {page})
  BY <1>2, <1>4, HeapLost
<1>7. PagesInv'
  BY <1>1, <1>3, <1>6 DEF IInv, PagesInv, PagesApart, Unpinned, PinsTyped, GoneTyped
<1>8. DOMAIN rows' \subseteq DOMAIN rows
  BY <1>1 DEF Without, Restrict
<1> QED
  BY <1>5, <1>7, <1>8 DEF IInv, RowsOnPages

(* A table grows, or loses an id; a heap that is being dropped grows by a  *)
(* page that is lost.                                                      *)
LEMMA PagesGrown ==
  ASSUME IInv, NEW name \in Name, Grow(name)
  PROVE  PagesInv' /\ HeapsAreUsed' /\ RowsOnPages'
<1> PICK h : h = tables[name].first_page_id
  OBVIOUS
<1>1. /\ name \in DOMAIN tables /\ rows' = rows /\ tables' = tables /\ call' = call
      /\ pinned' = pinned
  BY DEF Grow, names
<1>2. PICK p \in PageIDs :
        /\ allocate(p)
        /\ \/ /\ ~Deleting(name) /\ chain' = [chain EXCEPT ![h] = Append(@, p)]
              /\ leaked' = leaked /\ gone' = gone
           \/ /\ chain' = chain /\ leaked' = leaked \cup {p}
              /\ gone' = gone \/ gone' = [gone EXCEPT ![h] = Append(@, p)]
  BY DEF Grow
<1>3. /\ p \notin Lost /\ Apart(capacity', free_list', chain, Lost \cup {p})
  BY <1>2, Allocated DEF IInv, PagesInv
<1>4. ~Deleting(name) => /\ h \in DOMAIN chain /\ h # kCATALOG_FIRST_PAGE_ID
                         /\ Creating => h # call.page
  BY <1>1 DEF IInv, HeapsAreUsed
<1>5. Undeleted' = Undeleted /\ (call.op = "delete" => \A q \in Undeleted : q \notin leaked)
      /\ \A n : Deleting(n)' <=> Deleting(n)
  BY <1>1 DEF Undeleted, Deleting, IInv, PagesInv, PagesApart
<1>6. Apart(capacity', free_list', chain', Lost')
  <2>1. CASE ~Deleting(name) /\ chain' = [chain EXCEPT ![h] = Append(@, p)] /\ leaked' = leaked
    <3>1. Apart(capacity', free_list', [chain EXCEPT ![h] = Append(@, p)], Lost)
      BY <1>3, <1>4, <2>1, Longer
    <3> QED
      BY <1>5, <2>1, <3>1 DEF Lost
  <2>2. CASE chain' = chain /\ leaked' = leaked \cup {p}
    <3>1. Lost' = Lost \cup {p}
      BY <1>5, <2>2 DEF Lost
    <3> QED
      BY <1>3, <2>2, <3>1
  <2> QED
    BY <1>2, <2>1, <2>2
<1>7. GoneTyped'
  <2>1. GoneTyped
    BY DEF IInv, PagesInv
  <2>2. CASE gone' = gone
    BY <2>1, <2>2 DEF GoneTyped
  <2>3. CASE gone' = [gone EXCEPT ![h] = Append(@, p)]
    <3>1. DOMAIN gone' = DOMAIN gone /\ \A k \in DOMAIN gone : k # h => gone'[k] = gone[k]
      BY <2>3
    <3>2. ASSUME h \in DOMAIN gone PROVE gone'[h] \in Seq(PageIDs)
      <4>1. gone[h] \in Seq(PageIDs) /\ gone'[h] = Append(gone[h], p)
        BY <2>1, <2>3, <3>2 DEF GoneTyped
      <4> QED
        BY <1>2, <4>1, Appended
    <3> QED
      BY <2>1, <3>1, <3>2 DEF GoneTyped
  <2> QED
    BY <1>2, <2>2, <2>3
<1>8. PagesInv'
  <2>1. call'.op = "delete" => call' = call /\ \A q \in Undeleted : q \notin leaked'
    BY <1>1, <1>2, <1>3, <1>5 DEF Lost
  <2> QED
    BY <1>1, <1>2, <1>6, <1>7, <2>1, PageTaken DEF IInv
<1>9. DOMAIN chain' = DOMAIN chain
      /\ \A k \in DOMAIN chain : k # h \/ Deleting(name) => chain'[k] = chain[k]
  BY <1>2
<1>10. HeapsAreUsed'
  <2>1. Creating => ~Deleting(name)
    BY DEF Creating, Deleting
  <2> QED
    BY <1>1, <1>4, <1>5, <1>9, <2>1, HeapsKept DEF IInv, Creating
<1>11. CatalogPages' = CatalogPages
  BY <1>4, <1>9 DEF IInv, HeapsAreUsed, CatalogPages
<1> QED
  BY <1>1, <1>8, <1>10, <1>11 DEF IInv, RowsOnPages

LEMMA PinsCounted ==
  ASSUME PinsTyped
  PROVE  /\ Cardinality(pinned) \in Nat
         /\ \A p : p \notin pinned => Cardinality(pinned \cup {p}) = Cardinality(pinned) + 1
         /\ \A p \in pinned : Cardinality(pinned \ {p}) = Cardinality(pinned) - 1
<1>1. IsFiniteSet(PageIDs)
  BY CatalogAssumption, FS_Interval DEF PageIDs
<1>2. IsFiniteSet(pinned)
  BY <1>1, FS_Subset DEF PinsTyped
<1> QED
  BY <1>2, FS_CardinalityType, FS_AddElement, FS_RemoveElement

(* A reader comes before the drop of its table has given the page back.    *)
LEMMA PagePinned ==
  ASSUME IInv, Careful, NEW p \in PageIDs, Pin(p)
  PROVE  PagesInv' /\ HeapsAreUsed' /\ RowsOnPages'
<1>1. /\ rows' = rows /\ tables' = tables /\ call' = call /\ gone' = gone
      /\ chain' = chain /\ capacity' = capacity /\ free_list' = free_list /\ leaked' = leaked
      /\ p \notin pinned /\ pinned' = pinned \cup {p} /\ CanFetch(p) /\ MayFetch(p)
  BY DEF Pin, names, pages
<1>2. PICK n \in DOMAIN tables :
        p \in Range(Line(n)) /\ (Deleting(n) => p \in Undeleted \cup leaked)
  BY <1>1 DEF MayFetch
<1>3. Apart(capacity, free_list, chain, Lost)
  BY DEF IInv, PagesInv, PagesApart
<1>4. p \notin Range(free_list)
  <2>1. CASE ~Deleting(n)
    <3>1. tables[n].first_page_id \in DOMAIN chain
          /\ p \in Range(chain[tables[n].first_page_id])
      BY <1>2, <2>1 DEF IInv, HeapsAreUsed, Line, PagesOf
    <3> QED
      BY <1>3, <3>1 DEF Apart
  <2>2. CASE Deleting(n)
    BY <1>2, <1>3, <2>2 DEF Apart, Lost
  <2> QED
    BY <2>1, <2>2
<1>5. Cardinality(pinned') <= kPOOL_CAPACITY
  <2>1. Cardinality(pinned) < kPOOL_CAPACITY
    BY <1>1 DEF CanFetch
  <2>2. Cardinality(pinned) \in Nat /\ Cardinality(pinned') = Cardinality(pinned) + 1
    BY <1>1, PinsCounted DEF IInv, PagesInv
  <2> QED
    BY <2>1, <2>2, CatalogAssumption
<1>6. PagesInv'
  <2>1. PagesApart' /\ GoneTyped'
    BY <1>1 DEF IInv, PagesInv, PagesApart, Lost, Undeleted, GoneTyped
  <2>2. Unpinned' /\ PinsTyped'
    BY <1>1, <1>4, <1>5 DEF IInv, PagesInv, Unpinned, PinsTyped
  <2> QED
    BY <2>1, <2>2 DEF PagesInv
<1>7. HeapsAreUsed' /\ CatalogPages' = CatalogPages
  BY <1>1 DEF IInv, HeapsAreUsed, Creating, Deleting, CatalogPages
<1> QED
  BY <1>1, <1>6, <1>7 DEF IInv, RowsOnPages

LEMMA PageUnpinned ==
  ASSUME IInv, NEW p \in PageIDs, Unpin(p)
  PROVE  PagesInv' /\ HeapsAreUsed' /\ RowsOnPages'
<1>1. /\ rows' = rows /\ tables' = tables /\ call' = call /\ gone' = gone
      /\ chain' = chain /\ capacity' = capacity /\ free_list' = free_list /\ leaked' = leaked
      /\ p \in pinned /\ pinned' = pinned \ {p}
  BY DEF Unpin, names, pages
<1>2. Cardinality(pinned') <= kPOOL_CAPACITY
  <2>1. Cardinality(pinned) \in Nat /\ Cardinality(pinned') = Cardinality(pinned) - 1
    BY <1>1, PinsCounted DEF IInv, PagesInv
  <2> QED
    BY <2>1, CatalogAssumption DEF IInv, PagesInv, PinsTyped
<1>3. PagesInv'
  <2>1. PagesApart' /\ GoneTyped'
    BY <1>1 DEF IInv, PagesInv, PagesApart, Lost, Undeleted, GoneTyped
  <2>2. Unpinned' /\ PinsTyped'
    BY <1>1, <1>2 DEF IInv, PagesInv, Unpinned, PinsTyped
  <2> QED
    BY <2>1, <2>2 DEF PagesInv
<1>4. HeapsAreUsed' /\ CatalogPages' = CatalogPages
  BY <1>1 DEF IInv, HeapsAreUsed, Creating, Deleting, CatalogPages
<1> QED
  BY <1>1, <1>3, <1>4 DEF IInv, RowsOnPages

(* The walk of a drop; when it has ended, the pages of the heap are the    *)
(* drop's to delete.                                                       *)
LEMMA PagesRead ==
  ASSUME IInv, ReadPage
  PROVE  IInv'
<1> PICK name, h, s : name = call.name /\ h = tables[name].first_page_id /\ s = chain[h]
  OBVIOUS
<1>1. /\ call.op = "walk" /\ PagesOf(name) = s /\ UNCHANGED <<names, txs>>
      /\ capacity' = capacity /\ free_list' = free_list /\ leaked' = leaked
      /\ pinned' = pinned /\ rows' = rows /\ tables' = tables
      /\ \/ call' = [call EXCEPT !.read = @ + 1] /\ chain' = chain /\ gone' = gone
         \/ /\ call' = [op |-> "delete", name |-> name, tx |-> call.tx, page_ids |-> s]
            /\ chain' = Without(chain, h) /\ gone' = With(gone, h, s)
  BY DEF ReadPage, PagesOf, names
<1>2. /\ NamesInv /\ call \in Call /\ name \in DOMAIN tables /\ name \in Name
      /\ call.tx \in Tx \cup {NoTx} /\ ~Creating
  BY <1>1, CallTypes DEF IInv, NamesInv, NamesTyped, CallsFit, Creating
<1>3. Lost = leaked /\ \A n : ~Deleting(n)
  BY <1>1, NotDeleting
<1>4. /\ h \in DOMAIN chain /\ h # kCATALOG_FIRST_PAGE_ID
      /\ Apart(capacity, free_list, chain, leaked)
  BY <1>2, <1>3 DEF IInv, PagesInv, PagesApart, HeapsAreUsed
<1>5. /\ s \in Seq(PageIDs) /\ IsInjective(s) /\ h \in PageIDs
      /\ \A q \in Range(s) : q \notin leaked
  BY <1>4 DEF Apart
<1>6. CASE call' = [call EXCEPT !.read = @ + 1] /\ chain' = chain /\ gone' = gone
  <2>1. /\ call' \in Call /\ call'.op = "walk" /\ call'.name = name /\ call'.tx = call.tx
    BY <1>1, <1>2, <1>6 DEF Call, NoCall
  <2>2. NamesInv'
    BY <1>1, <1>2, <2>1, DropGoesOn
  <2>3. /\ PagesInv' /\ CatalogPages' = CatalogPages /\ \A n : Deleting(n)' <=> Deleting(n)
    BY <1>1, <1>6, <2>1, PagesSame DEF IInv, pages
  <2>4. HeapsAreUsed'
    BY <1>1, <1>2, <1>6, <2>1, <2>3, HeapsKept DEF IInv, Creating
  <2> QED
    BY <1>1, <2>2, <2>3, <2>4 DEF IInv, RowsOnPages
<1>7. CASE /\ call' = [op |-> "delete", name |-> name, tx |-> call.tx, page_ids |-> s]
           /\ chain' = Without(chain, h) /\ gone' = With(gone, h, s)
  <2>1. /\ call' \in Call /\ call'.op = "delete" /\ call'.name = name /\ call'.tx = call.tx
        /\ call'.page_ids = s
    BY <1>2, <1>5, <1>7 DEF Call
  <2>2. NamesInv'
    BY <1>1, <1>2, <2>1, DropGoesOn
  <2>3. Undeleted' = Range(s) /\ Lost' = leaked \cup Range(s) /\ (\A n : Deleting(n)' <=> n = name)
    BY <1>1, <2>1 DEF Undeleted, Lost, Deleting
  <2>4. Apart(capacity, free_list, Without(chain, h), leaked \cup Range(s))
    BY <1>4, HeapLost
  <2>5. GoneTyped'
    <3>1. /\ DOMAIN gone' = DOMAIN gone \cup {h} /\ gone'[h] = s
          /\ \A k \in DOMAIN gone : k # h => gone'[k] = gone[k]
      BY <1>7 DEF With
    <3> QED
      BY <1>5, <3>1 DEF IInv, PagesInv, GoneTyped
  <2>6. PagesInv'
    BY <1>1, <1>5, <1>7, <2>1, <2>3, <2>4, <2>5 DEF IInv, PagesInv, PagesApart, Unpinned, PinsTyped
  <2>7. /\ DOMAIN chain' = DOMAIN chain \ {h}
        /\ \A k \in DOMAIN chain : k # h => chain'[k] = chain[k]
    BY <1>7 DEF Without, Restrict
  <2>8. HeapsAreUsed' /\ CatalogPages' = CatalogPages
    <3>1. ~Creating'
      BY <2>1 DEF Creating
    <3> QED
      BY <1>1, <1>2, <1>3, <1>4, <2>3, <2>7, <3>1 DEF IInv, HeapsAreUsed, CatalogPages
  <2> QED
    BY <1>1, <2>2, <2>6, <2>8 DEF IInv, RowsOnPages
<1> QED
  BY <1>1, <1>6, <1>7

(* A drop deletes a page.                                                  *)
LEMMA PageGone ==
  ASSUME IInv, DeletePage
  PROVE  IInv'
<1>1. /\ call.op = "delete" /\ call.page_ids # <<>> /\ call' = [call EXCEPT !.page_ids = Tail(@)]
      /\ rows' = rows /\ tables' = tables /\ UNCHANGED <<names, txs>>
      /\ call \in Call /\ NamesInv
  BY DEF DeletePage, names, IInv, NamesInv, NamesTyped
<1>2. call.page_ids \in Seq(PageIDs) /\ call.name \in Name /\ call.tx \in Tx \cup {NoTx}
  BY <1>1 DEF Call, NoCall
<1>3. Tail(call.page_ids) \in Seq(PageIDs)
  BY <1>1, <1>2, TailOf
<1>4. /\ call' \in Call /\ call'.op = "delete" /\ call'.name = call.name /\ call'.tx = call.tx
  BY <1>1, <1>2, <1>3 DEF Call, NoCall
<1>5. NamesInv'
  BY <1>1, <1>4, DropGoesOn
<1>6. PagesInv' /\ chain' = chain
  BY <1>1, PageDeleted DEF IInv
<1>7. HeapsAreUsed' /\ CatalogPages' = CatalogPages
  <2>1. ~Creating /\ ~Creating' /\ \A n : Deleting(n)' <=> Deleting(n)
    BY <1>1, <1>4 DEF Creating, Deleting
  <2> QED
    BY <1>1, <1>6, <2>1, HeapsKept DEF IInv, CatalogPages
<1> QED
  BY <1>1, <1>5, <1>6, <1>7 DEF IInv, RowsOnPages

(* The heaps of tables that have lost their rows are lost with them.       *)
LEMMA PagesReopened ==
  ASSUME IInv, Reopen
  PROVE  PagesInv' /\ HeapsAreUsed' /\ RowsOnPages'
<1> PICK H : H = {tables[n].first_page_id : n \in torn}
  OBVIOUS
<1>1. /\ Idle /\ \A t \in Tx : pc[t] # "undo"
      /\ tables' = load_existing_tables /\ call' = call /\ pinned' = pinned
      /\ capacity' = capacity /\ free_list' = free_list /\ gone' = <<>>
      /\ rows' = [r \in DOMAIN rows |-> [rows[r] EXCEPT !.by = NoTx]]
  BY DEF Reopen
<1>2. /\ NamesInv /\ RowsOnPages /\ CatalogPages \in Seq(PageIDs) /\ IsInjective(CatalogPages)
      /\ Apart(capacity, free_list, chain, leaked)
      /\ call'.op # "delete" /\ Lost' = leaked' /\ ~Creating /\ ~Creating'
      /\ \A n : ~Deleting(n) /\ ~Deleting(n)'
  <2>1. call.op = "none" /\ call'.op = "none"
    BY <1>1, CallTypes DEF Idle, IInv, NamesInv, NamesTyped
  <2> QED
    BY <2>1, CatalogHeap, NotDeleting DEF IInv, Creating
<1>3. /\ DOMAIN load_existing_tables = DOMAIN tables \ torn
      /\ \A n \in DOMAIN tables \ torn :
           load_existing_tables[n].first_page_id = tables[n].first_page_id
  BY <1>1, <1>2, TablesLoaded
<1>4. torn \subseteq DOMAIN tables /\ DOMAIN tables \ DOMAIN load_existing_tables = torn
  BY <1>3 DEF IInv, NamesInv, NamesTyped
<1>5. /\ leaked' = leaked \cup UNION {Range(PagesOf(n)) : n \in torn}
      /\ chain' = Restrict(chain, DOMAIN chain \ H)
  BY <1>4 DEF Reopen
<1>6. H \subseteq DOMAIN chain /\ kCATALOG_FIRST_PAGE_ID \notin H
  BY <1>2, <1>4 DEF IInv, HeapsAreUsed
<1>7. PagesInv'
  <2>1. \A p : p \in leaked' <=> p \in leaked \/ \E h \in H : p \in Range(chain[h])
    BY <1>5 DEF PagesOf
  <2>2. Apart(capacity, free_list, chain', leaked')
    BY <1>2, <1>5, <1>6, <2>1, HeapsLost
  <2>3. GoneTyped'
    <3>1. DOMAIN <<>> = {}
      OBVIOUS
    <3> QED
      BY <1>1, <3>1 DEF GoneTyped
  <2> QED
    BY <1>1, <1>2, <2>2, <2>3 DEF IInv, PagesInv, PagesApart, Unpinned, PinsTyped
<1>8. /\ DOMAIN chain' = DOMAIN chain \ H
      /\ \A h \in DOMAIN chain' : chain'[h] = chain[h]
  BY <1>5 DEF Restrict
<1>9. CatalogPages' = CatalogPages
  BY <1>6, <1>8 DEF IInv, HeapsAreUsed, CatalogPages
<1>10. HeapsAreUsed'
  <2>1. /\ DOMAIN tables' = DOMAIN tables \ torn
        /\ \A n \in DOMAIN tables' : tables'[n].first_page_id = tables[n].first_page_id
    BY <1>1, <1>3
  <2>2. \A n \in DOMAIN tables' : tables'[n].first_page_id \notin H
    BY <1>2, <1>4, <2>1 DEF IInv, HeapsAreUsed
  <2>3. \A h \in DOMAIN chain' : h # kCATALOG_FIRST_PAGE_ID =>
          \E n \in DOMAIN tables' : h = tables'[n].first_page_id
    BY <1>2, <1>8, <2>1 DEF IInv, HeapsAreUsed
  <2> QED
    BY <1>2, <1>6, <1>8, <2>1, <2>2, <2>3 DEF IInv, HeapsAreUsed
<1>11. RowsOnPages'
  BY <1>1, <1>9 DEF IInv, RowsOnPages
<1> QED
  BY <1>7, <1>10, <1>11
-----------------------------------------------------------------------------
LEMMA Starts ==
  ASSUME Init
  PROVE  IInv
<1> USE DEF Init
<1>1. /\ kMAX_CAPACITY \in Nat /\ kMAX_CAPACITY > 2 /\ kFREE_LIST_LIMIT \in Nat
      /\ PageIDs = 1 .. kMAX_CAPACITY - 1 /\ kCATALOG_FIRST_PAGE_ID = 1
      /\ kPOOL_CAPACITY \in Nat
  BY CatalogAssumption, LimitAssumption DEF PageIDs, kCATALOG_FIRST_PAGE_ID
<1> PICK s : s = <<1>>
  OBVIOUS
<1>2. /\ s \in Seq(PageIDs) /\ IsInjective(s) /\ Len(s) = 1 /\ s[1] = 1 /\ Range(s) = {1}
  BY <1>1 DEF IsInjective, Range
<1>3. DOMAIN chain = {1} /\ chain[1] = s
  BY <1>1
<1>4. <<>> \in Seq(PageIDs) /\ Len(<<>>) = 0 /\ Range(<<>>) = {} /\ IsInjective(<<>>)
      /\ DOMAIN <<>> = {} /\ <<>> \in Seq(UndoRecord)
  BY DEF Range, IsInjective
<1>5. PagesInv
  <2>1. Apart(capacity, free_list, chain, Lost)
    <3> PICK heaps, none : heaps = chain /\ none = free_list
      OBVIOUS
    <3>1. /\ none \in Seq(PageIDs) /\ Range(none) = {} /\ IsInjective(none)
          /\ DOMAIN heaps = {1} /\ heaps[1] = s /\ 2 \in 1 .. kMAX_CAPACITY
          /\ {1} \subseteq PageIDs
      BY <1>1, <1>3, <1>4
    <3>2. \A p \in PageIDs : p < 2 <=> p = 1
      BY <1>1
    <3> HIDE DEF Init
    <3>3. Apart(2, none, heaps, {})
      BY ONLY <1>2, <3>1, <3>2 DEF Apart
    <3>4. Lost = {}
      BY DEF Init, Lost, Undeleted, NoCall
    <3> QED
      BY <3>3, <3>4 DEF Init
  <2>2. Cardinality({}) = 0
    BY FS_EmptySet
  <2>3. call.op # "delete"
    BY DEF NoCall
  <2> QED
    BY <1>1, <1>4, <2>1, <2>2, <2>3 DEF PagesInv, PagesApart, Unpinned, PinsTyped, GoneTyped
<1>6. call.op = "none" /\ call \in Call /\ ~Creating
  BY DEF NoCall, Call, Creating
<1>7. DOMAIN rows = {} /\ DOMAIN tables = {}
  BY <1>4
<1>8. HeapsAreUsed /\ RowsOnPages
  BY <1>1, <1>3, <1>6, <1>7 DEF HeapsAreUsed, RowsOnPages
<1>9. NamesTyped /\ TxsTyped /\ CallsFit /\ RowsFollow
  <2>1. NamesTyped /\ CallsFit /\ RowsFollow
    BY <1>6, <1>7 DEF NamesTyped, CallsFit, Creating, RowsFollow
  <2>2. TxsTyped
    BY <1>4 DEF TxsTyped
  <2> QED
    BY <2>1, <2>2
<1>10. Logs
  <2> SUFFICES ASSUME NEW t \in Tx PROVE LogFits(t) /\ Logged(t)
    BY DEF Logs
  <2>1. pc[t] = "ready" /\ Live(t) = 0 /\ \A i \in 1 .. 0 : FALSE
    BY <1>4 DEF Live
  <2> QED
    BY <1>7, <2>1 DEF LogFits, Logged
<1> QED
  BY <1>5, <1>8, <1>9, <1>10 DEF IInv, NamesInv

(* One case for each action.                                               *)
LEMMA Steps ==
  ASSUME IInv, Careful, [Next]_vars
  PROVE  IInv'
<1> USE DEF IInv
<1>1. ASSUME NEW t \in Tx, Begin(t) PROVE IInv'
  <2>1. /\ UNCHANGED <<pages, pinned, gone>> /\ rows' = rows /\ tables' = tables /\ call' = call
    BY <1>1 DEF Begin, names
  <2>2. PagesInv' /\ HeapsAreUsed' /\ CatalogPages' = CatalogPages
    BY <2>1, PagesSame, HeapsKept DEF Creating
  <2> QED
    BY <1>1, <2>1, <2>2, TxBegun DEF RowsOnPages
<1>2. ASSUME NEW t \in Tx, Commit(t) PROVE IInv'
  <2>1. /\ UNCHANGED <<pages, pinned, gone>> /\ call' = call
        /\ DOMAIN rows' = DOMAIN rows /\ DOMAIN tables' = DOMAIN tables
    BY <1>2 DEF Commit, Published
  <2>2. \A n \in DOMAIN tables : tables'[n].first_page_id = tables[n].first_page_id
    <3>1. \A n \in DOMAIN tables : tables[n] \in TableEntry
      BY DEF NamesInv, NamesTyped
    <3> QED
      BY <1>2, <3>1 DEF Commit, Published, TableEntry
  <2>3. PagesInv' /\ HeapsAreUsed' /\ CatalogPages' = CatalogPages
    BY <2>1, <2>2, PagesSame, HeapsKept DEF Creating
  <2> QED
    BY <1>2, <2>1, <2>3, TxCommitted DEF RowsOnPages
<1>3. ASSUME NEW t \in Tx, Abort(t) PROVE IInv'
  <2>1. /\ UNCHANGED <<pages, pinned, gone>> /\ rows' = rows /\ tables' = tables /\ call' = call
    BY <1>3 DEF Abort, names
  <2>2. PagesInv' /\ HeapsAreUsed' /\ CatalogPages' = CatalogPages
    BY <2>1, PagesSame, HeapsKept DEF Creating
  <2> QED
    BY <1>3, <2>1, <2>2, AbortBegun DEF RowsOnPages
<1>4. ASSUME NEW t \in Tx, UndoCreate(t) PROVE IInv'
  <2>1. /\ UNCHANGED <<pages, pinned, gone>> /\ rows' = rows /\ tables' = tables
        /\ ~Creating /\ ~Creating' /\ call.op # "delete" /\ call'.op # "delete"
    BY <1>4 DEF UndoCreate, Idle, NoCall, Creating, names
  <2>2. PagesInv' /\ HeapsAreUsed' /\ CatalogPages' = CatalogPages
    BY <2>1, PagesSame, HeapsKept
  <2> QED
    BY <1>4, <2>1, <2>2, UndoBegun DEF RowsOnPages
<1>5. ASSUME NEW t \in Tx, UndoRow(t) PROVE IInv'
  <2>1. /\ UNCHANGED <<pages, pinned, gone>> /\ tables' = tables /\ call' = call
        /\ DOMAIN rows' \subseteq DOMAIN rows
    BY <1>5 DEF UndoRow, Withdrawn, Without, Restrict
  <2>2. PagesInv' /\ HeapsAreUsed' /\ CatalogPages' = CatalogPages
    BY <2>1, PagesSame, HeapsKept DEF Creating
  <2> QED
    BY <1>5, <2>1, <2>2, RowUndone DEF RowsOnPages
<1>6. ASSUME NEW t \in Tx, AbortEnd(t) PROVE IInv'
  <2>1. /\ UNCHANGED <<pages, pinned, gone>> /\ rows' = rows /\ tables' = tables /\ call' = call
    BY <1>6 DEF AbortEnd, names
  <2>2. PagesInv' /\ HeapsAreUsed' /\ CatalogPages' = CatalogPages
    BY <2>1, PagesSame, HeapsKept DEF Creating
  <2> QED
    BY <1>6, <2>1, <2>2, AbortEnded DEF RowsOnPages
<1>7. ASSUME NEW name \in Name, NEW t \in Tx \cup {NoTx}, CreateTable(t, name) PROVE IInv'
  <2>1. call = NoCall /\ name \notin DOMAIN tables /\ (t # NoTx => pc[t] # "undo")
        /\ UNCHANGED <<names, txs>>
    BY <1>7 DEF CreateTable, Idle, IsNew
  <2>2. PICK p \in PageIDs :
          \/ call' = [op |-> "heap", name |-> name, tx |-> t, page |-> p]
          \/ call' = call
    BY <1>7 DEF CreateTable
  <2>3. call.op = "none" /\ call \in Call
    BY <2>1, CallTypes DEF NamesInv, NamesTyped
  <2>4. CASE call' = call
    BY <1>7, <2>1, <2>4, AllSame, PagesCreated
  <2>5. CASE call' = [op |-> "heap", name |-> name, tx |-> t, page |-> p]
    <3>1. /\ call' \in Call /\ call'.op = "heap" /\ call'.name = name /\ call'.tx = t
          /\ t # NoTx => pc'[t] # "undo"
      BY <1>7, <2>1, <2>5 DEF Call, txs
    <3>2. NamesInv'
      BY <1>7, <2>1, <2>3, <3>1, CallMade
    <3> QED
      BY <1>7, <3>2, PagesCreated
  <2> QED
    BY <2>2, <2>4, <2>5
<1>8. ASSUME NEW name \in Name, DropTable(name) PROVE IInv'
  <2>1. /\ UNCHANGED <<pages, pinned, gone>> /\ tables' = tables /\ ~Creating /\ ~Creating'
        /\ DOMAIN rows' \subseteq DOMAIN rows /\ call.op # "delete" /\ call'.op # "delete"
    BY <1>8 DEF DropTable, Idle, NoCall, Creating, Without, Restrict
  <2>2. PagesInv' /\ HeapsAreUsed' /\ CatalogPages' = CatalogPages
    BY <2>1, PagesSame, HeapsKept
  <2> QED
    BY <1>8, <2>1, <2>2, RowDropped DEF RowsOnPages
<1>9. ASSUME NEW name \in Name, Grow(name) PROVE IInv'
  <2>1. UNCHANGED <<names, txs, call>>
    BY <1>9 DEF Grow
  <2> QED
    BY <1>9, <2>1, AllSame, PagesGrown
<1>10. ASSUME NEW p \in PageIDs, Pin(p) PROVE IInv'
  <2>1. UNCHANGED <<names, txs, call>>
    BY <1>10 DEF Pin
  <2> QED
    BY <1>10, <2>1, AllSame, PagePinned
<1>11. ASSUME WriteRow PROVE IInv'
  BY <1>11, Placed
<1>12. ASSUME FailToWrite PROVE IInv'
  <2>1. call.op = "heap" /\ call' = NoCall /\ UNCHANGED <<names, txs>>
    BY <1>12 DEF FailToWrite
  <2>2. call' \in Call /\ call'.op = "none" /\ ~Creating'
    BY <2>1 DEF NoCall, Call, Creating
  <2>3. NamesInv'
    BY <2>1, <2>2, CallMade
  <2> QED
    BY <1>12, <2>3, PagesOfFailure
<1>13. ASSUME KeepRow PROVE IInv'
  <2>1. /\ UNCHANGED <<pages, pinned, gone>> /\ call.op = "row" /\ call' = NoCall
        /\ call'.op # "delete"
        /\ tables' = With(tables, call.name,
                          [rid |-> call.rid, first_page_id |-> call.page, by |-> call.tx])
        /\ rows' = rows
    BY <1>13 DEF KeepRow, NoCall
  <2>2. PagesInv' /\ chain' = chain /\ CatalogPages' = CatalogPages
    BY <2>1, PagesSame
  <2>3. /\ Creating /\ ~Creating' /\ call.name \notin DOMAIN tables
        /\ \A n : ~Deleting(n) /\ ~Deleting(n)'
    BY <2>1, NotDeleting DEF Creating, NoCall, NamesInv, CallsFit
  <2>4. /\ DOMAIN tables' = DOMAIN tables \cup {call.name}
        /\ tables'[call.name].first_page_id = call.page
        /\ \A n \in DOMAIN tables : n # call.name /\ tables'[n] = tables[n]
    BY <2>1, <2>3 DEF With
  <2>5. HeapsAreUsed'
    BY <2>2, <2>3, <2>4 DEF HeapsAreUsed
  <2> QED
    BY <1>13, <2>1, <2>2, <2>5, RowKeptNow DEF RowsOnPages
<1>14. ASSUME RefuseRow PROVE IInv'
  BY <1>14, RowRefused, PagesOfRefusal
<1>15. ASSUME ReadFails PROVE IInv'
  <2>1. /\ UNCHANGED <<pages, pinned, gone>> /\ tables' = tables /\ rows' = rows
        /\ ~Creating /\ ~Creating' /\ call.op # "delete" /\ call'.op # "delete"
    BY <1>15 DEF ReadFails, NoCall, Creating
  <2>2. PagesInv' /\ HeapsAreUsed' /\ CatalogPages' = CatalogPages
    BY <2>1, PagesSame, HeapsKept
  <2>3. NamesInv'
    BY <1>15, TableTorn, UndoThrown
  <2> QED
    BY <2>1, <2>2, <2>3 DEF RowsOnPages
<1>16. ASSUME EraseTable PROVE IInv'
  <2>1. NamesInv' /\ rows' = rows
    BY <1>16, TableDropped, TableUndone DEF EraseTable
  <2> QED
    BY <1>16, <2>1, TableGone DEF RowsOnPages
<1>17. ASSUME NEW p \in PageIDs, Unpin(p) PROVE IInv'
  <2>1. UNCHANGED <<names, txs, call>>
    BY <1>17 DEF Unpin
  <2> QED
    BY <1>17, <2>1, AllSame, PageUnpinned
<1>18. ASSUME Reopen PROVE IInv'
  <2>1. CatalogPages \in Seq(PageIDs) /\ IsInjective(CatalogPages)
    BY CatalogHeap
  <2> QED
    BY <1>18, <2>1, NamesReopened, PagesReopened
<1>19. ASSUME UNCHANGED vars PROVE IInv'
  <2>1. UNCHANGED <<names, txs, call>> /\ UNCHANGED <<pages, pinned, gone>>
    BY <1>19 DEF vars
  <2>2. rows' = rows /\ tables' = tables /\ call' = call
    BY <2>1 DEF names
  <2>3. PagesInv' /\ HeapsAreUsed' /\ CatalogPages' = CatalogPages
    BY <2>1, <2>2, PagesSame, HeapsKept DEF Creating
  <2> QED
    BY <2>1, <2>2, <2>3, AllSame DEF RowsOnPages
<1> QED
  BY <1>1, <1>2, <1>3, <1>4, <1>5, <1>6, <1>7, <1>8, <1>9, <1>10, <1>11, <1>12, <1>13,
     <1>14, <1>15, <1>16, <1>17, <1>18, <1>19, PagesRead, PageGone DEF Next

LEMMA Holds ==
  ASSUME Careful
  PROVE  Spec => []IInv
<1>1. Careful /\ IInv /\ [Next]_vars => IInv'
  BY Steps
<1> QED
  BY <1>1, Starts, PTL DEF Spec
-----------------------------------------------------------------------------
(* What the invariant means.                                               *)
LEMMA Typed ==
  ASSUME IInv
  PROVE  TypeOK
<1>1. /\ capacity \in 1 .. kMAX_CAPACITY /\ free_list \in Seq(PageIDs)
      /\ Len(free_list) <= kFREE_LIST_LIMIT + 1
      /\ DOMAIN chain \subseteq PageIDs /\ Lost \subseteq PageIDs /\ leaked \subseteq Lost
      /\ pinned \subseteq PageIDs /\ Cardinality(pinned) <= kPOOL_CAPACITY
  BY DEF IInv, PagesInv, PagesApart, Apart, PinsTyped, Lost
<1>2. \A p \in DOMAIN chain : chain[p] \in Seq(PageIDs) /\ Head(chain[p]) = p
  <2> TAKE p \in DOMAIN chain
  <2>1. chain[p] \in Seq(PageIDs) /\ Len(chain[p]) > 0 /\ chain[p][1] = p
    BY DEF IInv, PagesInv, PagesApart, Apart
  <2>2. chain[p] # <<>>
    BY <2>1
  <2> QED
    BY <2>1, <2>2, HeadTailProperties
<1>3. /\ DOMAIN rows \subseteq RID /\ Range(rows) \subseteq Row
      /\ DOMAIN tables \subseteq Name /\ Range(tables) \subseteq TableEntry
      /\ call \in Call /\ torn \subseteq DOMAIN tables
  BY DEF IInv, NamesInv, NamesTyped, Range
<1>4. /\ state \in [Tx -> {"GROWING", "SHRINKING", "COMMITTED", "ABORTED"}]
      /\ log \in [Tx -> Seq(UndoRecord)]
      /\ pc \in [Tx -> {"ready", "undo", "thrown", "ended"}]
      /\ locks \in [Tx -> SUBSET RID]
  BY DEF IInv, NamesInv, TxsTyped
<1>5. DOMAIN gone \subseteq PageIDs /\ Range(gone) \subseteq Seq(PageIDs)
  BY DEF IInv, PagesInv, GoneTyped, Range
<1>6. \A t \in Tx : left[t] \in 0 .. Len(log[t])
  <2> TAKE t \in Tx
  <2>1. log[t] \in Seq(UndoRecord) /\ left[t] \in Nat /\ left[t] <= Len(log[t])
    BY DEF IInv, NamesInv, TxsTyped
  <2>2. Len(log[t]) \in Nat
    BY <2>1, RangeIs
  <2> QED
    BY <2>1, <2>2
<1> QED
  BY <1>1, <1>2, <1>3, <1>4, <1>5, <1>6 DEF TypeOK

LEMMA PlacesInSequence ==
  ASSUME NEW s \in Seq(PageIDs), IsInjective(s), NEW p
  PROVE  /\ p \notin Range(s) => {i \in DOMAIN s : s[i] = p} = {}
         /\ p \in Range(s) => \E i : {j \in DOMAIN s : s[j] = p} = {i}
<1>1. p \notin Range(s) => {i \in DOMAIN s : s[i] = p} = {}
  BY DEF Range
<1>2. ASSUME p \in Range(s) PROVE \E i : {j \in DOMAIN s : s[j] = p} = {i}
  <2>1. PICK i \in DOMAIN s : s[i] = p
    BY <1>2 DEF Range
  <2>2. \A j \in DOMAIN s : s[j] = p => j = i
    BY <2>1 DEF IsInjective
  <2>3. {j \in DOMAIN s : s[j] = p} = {i}
    BY <2>1, <2>2
  <2> QED
    BY <2>3
<1> QED
  BY <1>1, <1>2

LEMMA OneOwner ==
  ASSUME IInv
  PROVE  PagesHaveOneOwner
<1>1. /\ Apart(capacity, free_list, chain, Lost) /\ HeapsAreUsed
      /\ \A q : q \in Lost <=> q \in leaked \/ q \in Undeleted
      /\ call.op = "delete" => /\ call.page_ids \in Seq(PageIDs) /\ IsInjective(call.page_ids)
                               /\ Undeleted = Range(call.page_ids)
                               /\ \A q \in Undeleted : q \notin leaked
      /\ call.op # "delete" => Undeleted = {}
  <2>1. call \in Call
    BY DEF IInv, NamesInv, NamesTyped
  <2>2. call.op = "delete" => call.page_ids \in Seq(PageIDs)
    BY <2>1 DEF Call, NoCall
  <2> QED
    BY <2>2 DEF IInv, PagesInv, PagesApart, Lost, Undeleted
<1>2. pinned \cap Range(free_list) = {}
  BY DEF IInv, PagesInv, Unpinned
<1>3. ASSUME NEW p \in 1 .. capacity - 1 PROVE Cardinality(Owners(p)) = 1
  <2> DEFINE At(s) == {i \in DOMAIN s : s[i] = p}
             Users  == {m \in DOMAIN tables : ~Deleting(m)}
             Table  == UNION {{<<"table", n, i>> : i \in At(PagesOf(n))} : n \in Users}
             Drop   == {<<"drop", i>> : i \in IF call.op = "delete" THEN At(call.page_ids) ELSE {}}
             Catal  == {<<"catalog", i>> : i \in At(CatalogPages)}
             Free   == {<<"free", i>> : i \in At(free_list)}
             Others == {<<owner>> : owner \in {o \in {"creation", "nobody"} :
                          \/ o = "creation" /\ call.op \in {"heap", "row"} /\ call.page = p
                          \/ o = "nobody" /\ p \in leaked}}
  <2>1. Owners(p) = (((Table \cup Catal) \cup Free) \cup Drop) \cup Others
    BY DEF Owners
  <2>2. p \in PageIDs /\ p < capacity
    BY <1>1, CatalogAssumption DEF Apart, PageIDs
  <2>3. /\ free_list \in Seq(PageIDs) /\ IsInjective(free_list)
        /\ \A h \in DOMAIN chain : chain[h] \in Seq(PageIDs) /\ IsInjective(chain[h])
    BY <1>1 DEF Apart
  <2>4. \A h \in DOMAIN chain :
          /\ p \notin Range(chain[h]) => At(chain[h]) = {}
          /\ p \in Range(chain[h]) => \E i : At(chain[h]) = {i}
    BY <2>3, PlacesInSequence
  <2>5. /\ p \notin Range(free_list) => At(free_list) = {}
        /\ p \in Range(free_list) => \E i : At(free_list) = {i}
    BY <2>3, PlacesInSequence
  <2>6. /\ kCATALOG_FIRST_PAGE_ID \in DOMAIN chain /\ CatalogPages = chain[kCATALOG_FIRST_PAGE_ID]
        /\ \A n \in Users : /\ PagesOf(n) = chain[tables[n].first_page_id]
                            /\ tables[n].first_page_id \in DOMAIN chain
    BY <1>1 DEF HeapsAreUsed, CatalogPages, PagesOf
  <2>7. Creating => /\ call.page \in DOMAIN chain
                    /\ \A q : q \in Range(chain[call.page]) <=> q = call.page
    <3>1. Range(<<call.page>>) = {call.page}
      BY DEF Range
    <3> QED
      BY <1>1, <3>1 DEF HeapsAreUsed
  <2>8. /\ p \notin Undeleted => Drop = {}
        /\ p \in Undeleted => /\ \E i : Drop = {<<"drop", i>>}
                              /\ p \notin leaked /\ ~Creating
    <3>1. CASE call.op = "delete"
      <4>1. /\ p \notin Undeleted => At(call.page_ids) = {}
            /\ p \in Undeleted => \E i : At(call.page_ids) = {i}
        BY <1>1, <3>1, PlacesInSequence
      <4>2. Drop = {<<"drop", i>> : i \in At(call.page_ids)}
        BY <3>1
      <4>3. p \in Undeleted => \E i : Drop = {<<"drop", i>>}
        <5> SUFFICES ASSUME NEW i, At(call.page_ids) = {i} PROVE Drop = {<<"drop", i>>}
          BY <4>1
        <5> HIDE DEF At
        <5> QED
          BY <4>2
      <4>4. p \notin Undeleted => Drop = {}
        BY <4>1, <4>2
      <4> HIDE DEF At, Drop
      <4> QED
        BY <1>1, <3>1, <4>3, <4>4 DEF Creating
    <3>2. CASE call.op # "delete"
      BY <1>1, <3>2
    <3> QED
      BY <3>1, <3>2
  <2> HIDE DEF At, Drop
  <2>9. CASE \E h \in DOMAIN chain : p \in Range(chain[h])
    <3>1. PICK h \in DOMAIN chain : p \in Range(chain[h])
      BY <2>9
    <3>2. /\ p \notin Range(free_list) /\ p \notin leaked /\ p \notin Undeleted
          /\ \A k \in DOMAIN chain : k # h => p \notin Range(chain[k])
      BY <1>1, <3>1 DEF Apart
    <3>3. PICK i : At(chain[h]) = {i}
      BY <2>4, <3>1
    <3>4. \A k \in DOMAIN chain : k # h => At(chain[k]) = {}
      BY <2>4, <3>2
    <3>5. Free = {} /\ Drop = {}
      BY <2>5, <2>8, <3>2
    <3>6. CASE h = kCATALOG_FIRST_PAGE_ID
      <4>1. Catal = {<<"catalog", i>>}
        BY <2>6, <3>3, <3>6
      <4>2. Table = {}
        <5>1. \A n \in Users : At(PagesOf(n)) = {}
          BY <1>1, <2>6, <3>4, <3>6 DEF HeapsAreUsed
        <5> QED
          BY <5>1
      <4>3. Others = {}
        BY <1>1, <2>7, <3>2, <3>6 DEF HeapsAreUsed, Creating
      <4>4. Owners(p) = {<<"catalog", i>>}
        BY <2>1, <3>5, <4>1, <4>2, <4>3
      <4> QED
        BY <4>4, FS_Singleton
    <3>7. ASSUME NEW n \in Users, h = tables[n].first_page_id
          PROVE  Cardinality(Owners(p)) = 1
      <4>1. Catal = {}
        <5>1. At(CatalogPages) = {}
          BY <1>1, <2>6, <3>4, <3>7 DEF HeapsAreUsed
        <5> QED
          BY <5>1
      <4>2. Table = {<<"table", n, i>>}
        <5>1. \A k \in Users : k # n => At(PagesOf(k)) = {}
          BY <1>1, <2>6, <3>4, <3>7 DEF HeapsAreUsed
        <5>2. At(PagesOf(n)) = {i}
          BY <2>6, <3>3, <3>7
        <5> QED
          BY <5>1, <5>2
      <4>3. Others = {}
        BY <1>1, <2>7, <3>1, <3>2, <3>7 DEF HeapsAreUsed, Creating
      <4>4. Owners(p) = {<<"table", n, i>>}
        BY <2>1, <3>5, <4>1, <4>2, <4>3
      <4> QED
        BY <4>4, FS_Singleton
    <3>8. CASE Creating /\ h = call.page
      <4>1. Catal = {}
        <5>1. At(CatalogPages) = {}
          BY <1>1, <2>6, <3>4, <3>8 DEF HeapsAreUsed
        <5> QED
          BY <5>1
      <4>2. Table = {}
        <5>1. \A n \in Users : At(PagesOf(n)) = {}
          BY <1>1, <2>6, <3>4, <3>8 DEF HeapsAreUsed
        <5> QED
          BY <5>1
      <4>3. Others = {<<"creation">>}
        BY <2>7, <3>1, <3>2, <3>8 DEF Creating
      <4>4. Owners(p) = {<<"creation">>}
        BY <2>1, <3>5, <4>1, <4>2, <4>3
      <4> QED
        BY <4>4, FS_Singleton
    <3> QED
      BY <1>1, <3>6, <3>7, <3>8 DEF HeapsAreUsed
  <2>10. CASE \A h \in DOMAIN chain : p \notin Range(chain[h])
    <3>1. \A h \in DOMAIN chain : At(chain[h]) = {}
      BY <2>4, <2>10
    <3>2. Catal = {} /\ Table = {} /\ ~(Creating /\ call.page = p)
      <4>1. At(CatalogPages) = {} /\ \A n \in Users : At(PagesOf(n)) = {}
        BY <2>6, <3>1
      <4>2. ~(Creating /\ call.page = p)
        BY <2>7, <2>10
      <4> QED
        BY <4>1, <4>2
    <3>3. p \in Range(free_list) \/ p \in leaked \/ p \in Undeleted
      BY <1>1, <2>2, <2>10 DEF Apart
    <3>4. p \in leaked \/ p \in Undeleted => p \notin Range(free_list)
      BY <1>1 DEF Apart
    <3>5. CASE p \in Range(free_list)
      <4>1. PICK i : At(free_list) = {i}
        BY <2>5, <3>5
      <4>2. Free = {<<"free", i>>} /\ Drop = {} /\ Others = {}
        BY <2>8, <3>2, <3>4, <3>5, <4>1 DEF Creating
      <4>3. Owners(p) = {<<"free", i>>}
        BY <2>1, <3>2, <4>2
      <4> QED
        BY <4>3, FS_Singleton
    <3>6. CASE p \in leaked
      <4>1. Free = {} /\ Drop = {} /\ Others = {<<"nobody">>}
        BY <2>5, <2>8, <3>2, <3>4, <3>6 DEF Creating
      <4>2. Owners(p) = {<<"nobody">>}
        BY <2>1, <3>2, <4>1
      <4> QED
        BY <4>2, FS_Singleton
    <3>7. CASE p \in Undeleted
      <4>1. PICK i : Drop = {<<"drop", i>>}
        BY <2>8, <3>7
      <4>2. Free = {} /\ Others = {}
        BY <2>5, <2>8, <3>4, <3>7 DEF Creating
      <4>3. Owners(p) = {<<"drop", i>>}
        BY <2>1, <3>2, <4>1, <4>2
      <4> QED
        BY <4>3, FS_Singleton
    <3> QED
      BY <3>3, <3>5, <3>6, <3>7
  <2> QED
    BY <2>9, <2>10
<1> QED
  BY <1>2, <1>3, Typed DEF PagesHaveOneOwner

LEMMA RowsMatch ==
  ASSUME IInv
  PROVE  RowsMatchTables
<1>1. \A r \in DOMAIN rows : rows[r] \in Row
  BY DEF IInv, NamesInv, NamesTyped
<1>2. ASSUME NEW n \in DOMAIN tables \ torn
      PROVE  \/ call.op \in {"walk", "delete"} /\ call.name = n /\ call.tx = NoTx
             \/ /\ tables[n].rid \in DOMAIN rows
                /\ rows[tables[n].rid] = [name |-> n, first_page_id |-> tables[n].first_page_id,
                                          by |-> tables[n].by]
  <2>1. TableFits(n)
    BY DEF IInv, NamesInv, RowsFollow
  <2>2. CASE Dropping(n)
    BY <2>2 DEF Dropping
  <2>3. CASE ~Dropping(n)
    <3> PICK r : r = tables[n].rid
      OBVIOUS
    <3>1. /\ r \in DOMAIN rows /\ rows[r].name = n
          /\ rows[r].first_page_id = tables[n].first_page_id /\ rows[r].by = tables[n].by
      BY <2>1, <2>3 DEF TableFits, Settled
    <3>2. rows[r] = [name |-> rows[r].name, first_page_id |-> rows[r].first_page_id,
                     by |-> rows[r].by]
      BY <1>1, <3>1, Records
    <3> QED
      BY <3>1, <3>2
  <2> QED
    BY <2>2, <2>3
<1>3. ASSUME NEW r \in DOMAIN rows
      PROVE  \/ rows[r].name \in DOMAIN tables /\ tables[rows[r].name].rid = r
             \/ call.op = "row" /\ call.rid = r
             \/ BeingUndone(r)
  <2>1. RowFits(r)
    BY DEF IInv, NamesInv, RowsFollow
  <2>2. ASSUME Undoing(r) PROVE BeingUndone(r)
    <3>1. PICK t \in Tx : /\ pc[t] = "undo" /\ left[t] > 0 /\ rows[r].by = t
                          /\ log[t][left[t]].kind = "delete" /\ log[t][left[t]].rid = r
      BY <2>2 DEF Undoing
    <3>2. TxsTyped /\ Live(t) = left[t]
      BY <3>1 DEF IInv, NamesInv, Live
    <3>3. left[t] \in 1 .. Live(t)
      BY <3>1, <3>2 DEF TxsTyped
    <3>4. log[t][left[t]] \in UndoRecord
      BY <3>2, <3>3, LiveIs
    <3>5. Record(t) = [kind |-> "delete", rid |-> r]
      BY <3>1, <3>4 DEF Record, UndoRecord
    <3> QED
      BY <3>1, <3>5 DEF BeingUndone
  <2> QED
    BY <2>1, <2>2 DEF RowFits, Settled
<1> QED
  BY <1>2, <1>3 DEF RowsMatchTables

LEMMA NothingIsLeft ==
  ASSUME IInv
  PROVE  RollbackLeavesNothing
<1> SUFFICES ASSUME NEW t \in Tx, pc[t] = "ended", ~Busy(t)
             PROVE  \A x \in Range(tables) \cup Range(rows) : x.by # t
  BY DEF RollbackLeavesNothing
<1>1. \A n \in DOMAIN tables : tables[n].by # t
  <2>1. Logged(t) /\ Live(t) = 0 /\ \A i \in 1 .. 0 : FALSE
    BY DEF IInv, NamesInv, Logs, Live
  <2> QED
    BY <2>1 DEF Logged
<1>2. ASSUME NEW r \in DOMAIN rows, rows[r].by = t PROVE FALSE
  <2>1. RowFits(r)
    BY DEF IInv, NamesInv, RowsFollow
  <2>2. CASE Settled(rows[r].name) /\ tables[rows[r].name].rid = r
    <3> PICK n : n = rows[r].name
      OBVIOUS
    <3>1. Settled(n) /\ n \in DOMAIN tables /\ tables[n].rid = r
      BY <2>2 DEF Settled
    <3>2. TableFits(n)
      BY <3>1 DEF IInv, NamesInv, RowsFollow
    <3> QED
      BY <1>1, <1>2, <3>1, <3>2 DEF TableFits
  <2>3. CASE call.op = "row" /\ call.rid = r
    BY <1>2, <2>3 DEF IInv, NamesInv, CallsFit, Busy
  <2>4. CASE Undoing(r)
    BY <1>2, <2>4 DEF Undoing
  <2> QED
    BY <2>1, <2>2, <2>3, <2>4 DEF RowFits
<1> QED
  BY <1>1, <1>2 DEF Range

LEMMA UndoFinds ==
  ASSUME IInv
  PROVE  UndoFindsItsTable
<1> SUFFICES ASSUME NEW t \in Tx, pc[t] # "ended",
                    NEW i \in 1 .. IF pc[t] = "ready" THEN Len(log[t]) ELSE left[t]
             PROVE  IF log[t][i].kind = "drop"
                    THEN /\ log[t][i].name \in DOMAIN tables
                         /\ tables[log[t][i].name].by = t
                    ELSE log[t][i].rid \in DOMAIN rows /\ rows[log[t][i].rid].by = t
  BY DEF UndoFindsItsTable
<1>1. i \in 1 .. Live(t) /\ LogFits(t) /\ TxsTyped
  BY DEF IInv, NamesInv, Logs, Live
<1>2. log[t][i].kind \in {"delete", "drop"}
  BY <1>1, LiveIs, Records
<1>3. CASE log[t][i].kind = "drop"
  <2>1. DropFits(t, i)
    BY <1>1, <1>3 DEF LogFits
  <2> QED
    BY <1>3, <2>1 DEF DropFits
<1>4. CASE log[t][i].kind = "delete"
  <2>1. DeleteFits(t, i)
    BY <1>1, <1>4 DEF LogFits
  <2> QED
    BY <1>4, <2>1 DEF DeleteFits
<1> QED
  BY <1>2, <1>3, <1>4

LEMMA ReopenFinds ==
  ASSUME IInv, Reopen
  PROVE  /\ DOMAIN tables' = DOMAIN tables \ torn
         /\ \A n \in DOMAIN tables' : tables'[n] = [tables[n] EXCEPT !.by = NoTx]
<1>1. tables' = load_existing_tables /\ Idle /\ \A t \in Tx : pc[t] # "undo"
  BY DEF Reopen
<1>2. /\ NamesInv /\ RowsOnPages /\ CatalogPages \in Seq(PageIDs) /\ IsInjective(CatalogPages)
  BY CatalogHeap DEF IInv
<1>3. /\ DOMAIN load_existing_tables = DOMAIN tables \ torn
      /\ \A n \in DOMAIN tables \ torn :
           load_existing_tables[n] = [tables[n] EXCEPT !.by = NoTx]
  BY <1>1, <1>2, TablesLoaded
<1> QED
  BY <1>1, <1>3

-----------------------------------------------------------------------------
(* Every variable of the catalog keeps its type, in all calls of           *)
(* create_table, drop_table, the abort of a transaction and reopening:     *)
(* the heaps are never empty, the free list never holds more ids than      *)
(* deallocate_page allows, and readers never pin more pages than the pool  *)
(* has frames.                                                             *)
THEOREM CatalogTyped ==
  ASSUME Careful
  PROVE  Spec => []TypeOK
<1>1. IInv => TypeOK
  BY Typed
<1> QED
  BY <1>1, Holds, PTL

(* No page that create_table, insert_tuple, drop_table, a rollback or a    *)
(* reopening has touched belongs to two heaps, or to a heap and the free   *)
(* list, and none is forgotten: what no heap and no list has is still to   *)
(* be deleted by a drop, or among the pages that are known to be lost.     *)
(* While drop_pages deletes the pages of a table one by one, scans and     *)
(* inserts of its users go on, and no page that a reader has pinned gets   *)
(* to the free list - as long as nobody fetches a page that the drop has   *)
(* given back (src/README.md:21).                                          *)
THEOREM EveryPageHasOneOwner ==
  ASSUME Careful
  PROVE  Spec => []PagesHaveOneOwner
<1>1. IInv => PagesHaveOneOwner
  BY OneOwner
<1> QED
  BY <1>1, Holds, PTL

(* tables_ and the catalog's rows agree at every step of create_table,     *)
(* drop_table and the undo records, whatever fails on the way.             *)
THEOREM RowsAndTablesAgree ==
  ASSUME Careful
  PROVE  Spec => []RowsMatchTables
<1>1. IInv => RowsMatchTables
  BY RowsMatch
<1> QED
  BY <1>1, Holds, PTL

(* An abort that has come to its end leaves no table and no row of its     *)
(* transaction: TransactionManager::abort undoes create_table whole.       *)
THEOREM RollbackIsWhole ==
  ASSUME Careful
  PROVE  Spec => []RollbackLeavesNothing
<1>1. IInv => RollbackLeavesNothing
  BY NothingIsLeft
<1> QED
  BY <1>1, Holds, PTL

(* The assertion of Catalog::delete_table: when an undo record has its     *)
(* turn, the table and the row it names are there, and still those of the  *)
(* transaction.                                                            *)
THEOREM UndoRecordsFit ==
  ASSUME Careful
  PROVE  Spec => []UndoFindsItsTable
<1>1. IInv => UndoFindsItsTable
  BY UndoFinds
<1> QED
  BY <1>1, Holds, PTL

(* load_existing_tables finds every table that the closed database had     *)
(* (but for those whose drop has thrown half way), under the same row and  *)
(* with the same first page.                                               *)
THEOREM ReopenFindsTables ==
  ASSUME Careful
  PROVE  Spec => ReopenFindsTheSameTables
<1>1. IInv /\ [Next]_vars =>
        [Reopen => /\ DOMAIN tables' = DOMAIN tables \ torn
                   /\ \A n \in DOMAIN tables' :
                        tables'[n] = [tables[n] EXCEPT !.by = NoTx]]_vars
  BY ReopenFinds
<1> QED
  BY <1>1, Holds, PTL DEF Spec, ReopenFindsTheSameTables
=============================================================================
