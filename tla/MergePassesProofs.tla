-------------------------- MODULE MergePassesProofs --------------------------
(* Theorems about the pages and the rows of merge, for any matrices, threads  *)
(* and sizes of pages: first what the operations of the heap leave of it,     *)
(* then who works on which row, then the steps of the main loop and of the    *)
(* threads one by one.                                                        *)
EXTENDS MergePasses, FiniteSetTheorems, FunctionTheorems, SequenceTheorems, WellFoundedInduction,
        TLAPS

-------------------------------------------------------------------------------
(* The heap.                                                                  *)

RowNumbers == DOMAIN purged
Chunk == [row : RowNumbers \union {Destroyed}, size : Nat, cells : SUBSET Columns]
Page == [generation : Nat, ptr : Int, data : Seq(Chunk)]

HeapTypes ==
  /\ pages \in Seq(Page)
  /\ full_pages \in Seq(1 .. Len(pages)) /\ empty_pages \in Seq(1 .. Len(pages))
  /\ active_page \in [Threads -> {None} \union 1 .. Len(pages)]
  /\ heap_waste \in [Threads -> Int]
  /\ current_generation \in Nat
  /\ rows \in [RowNumbers -> Nat \X Nat]
  /\ collecting \in [Threads -> [page : {None} \union 1 .. Len(pages), at : Nat, garbage : Int]]

IsFull(p) == \E i \in 1 .. Len(full_pages) : full_pages[i] = p
IsEmpty(p) == \E i \in 1 .. Len(empty_pages) : empty_pages[i] = p
IsActive(p) == \E t \in Threads : active_page[t] = p
IsCollected(p) == \E t \in Threads : collecting[t].page = p

OnePlace(p) ==
  /\ IsFull(p) \/ IsEmpty(p) \/ IsActive(p) \/ IsCollected(p)
  /\ IsFull(p) => ~IsEmpty(p) /\ ~IsActive(p) /\ ~IsCollected(p)
  /\ IsEmpty(p) => ~IsActive(p) /\ ~IsCollected(p)
  /\ IsActive(p) => ~IsCollected(p)

(* No page is in two places, and none is lost.                                *)
PagesApart ==
  /\ \A i, j \in 1 .. Len(full_pages) : full_pages[i] = full_pages[j] => i = j
  /\ \A i, j \in 1 .. Len(empty_pages) : empty_pages[i] = empty_pages[j] => i = j
  /\ \A t, u \in Threads :
       /\ active_page[t] = active_page[u] /\ active_page[t] # None => t = u
       /\ collecting[t].page = collecting[u].page /\ collecting[t].page # None => t = u
  /\ \A p \in 1 .. Len(pages) : OnePlace(p)

(* The rows of page p, and the number of the k-th of them.                    *)
PageLen(p) == Len(pages[p].data)
Number(p, k) == pages[p].data[k].row

(* The row a thread has made room for and not finished.                       *)
Pending(t) == IF th[t].pc = "weights" /\ Op(t).from # None THEN Op(t).to ELSE None

(* A pointer leads to a row of its number that was not moved yet.             *)
RowsReached ==
  \A i \in RowNumbers : rows[i] # NULL =>
    /\ rows[i][1] \in 1 .. Len(pages) /\ rows[i][2] \in 1 .. PageLen(rows[i][1])
    /\ Number(rows[i][1], rows[i][2]) = i
    /\ ~IsEmpty(rows[i][1])
    /\ \A t \in Threads : collecting[t].page = rows[i][1] => rows[i][2] >= collecting[t].at

(* A row that is not finished is the last of the active page of its thread,   *)
(* and nothing points to it.                                                  *)
PendingLast ==
  \A t \in Threads : Pending(t) # None =>
    /\ Pending(t) \in RowNumbers /\ active_page[t] # None /\ PageLen(active_page[t]) >= 1
    /\ Number(active_page[t], PageLen(active_page[t])) = Pending(t)
    /\ rows[Pending(t)] # <<active_page[t], PageLen(active_page[t])>>

(* What is in a page that holds rows is garbage, pointed to, moved, or not    *)
(* finished.                                                                  *)
RowsAccounted ==
  \A p \in 1 .. Len(pages) : \A k \in 1 .. PageLen(p) :
    \/ IsEmpty(p) \/ Number(p, k) = Destroyed \/ rows[Number(p, k)] = <<p, k>>
    \/ \E t \in Threads : collecting[t].page = p /\ k < collecting[t].at
    \/ \E t \in Threads : Pending(t) # None /\ active_page[t] = p /\ k = PageLen(p)

Pointers ==
  /\ RowsReached /\ PendingLast /\ RowsAccounted
  /\ \A t \in Threads : collecting[t].page # None => collecting[t].at >= 1

-------------------------------------------------------------------------------
(* Lists of pages.                                                            *)

(* r is the list s with p put in at place q.                                  *)
PutAt(r, s, q, p) ==
  /\ Len(r) = Len(s) + 1 /\ q \in 1 .. Len(s) + 1
  /\ \A i \in 1 .. Len(r) : r[i] = IF i < q THEN s[i] ELSE IF i = q THEN p ELSE s[i - 1]

(* One list after the other.                                                  *)
LEMMA Joined ==
  ASSUME NEW S, NEW a \in Seq(S), NEW b \in Seq(S)
  PROVE  /\ a \o b \in Seq(S) /\ Len(a \o b) = Len(a) + Len(b)
         /\ \A i \in 1 .. Len(a) + Len(b) :
              (a \o b)[i] = IF i <= Len(a) THEN a[i] ELSE b[i - Len(a)]
  OBVIOUS

(* A page goes into a list once.                                              *)
LEMMA PutOnce ==
  ASSUME NEW S, NEW s \in Seq(S), NEW r \in Seq(S), NEW p \in S, NEW q, PutAt(r, s, q, p),
         \A i, j \in 1 .. Len(s) : s[i] = s[j] => i = j,
         \A i \in 1 .. Len(s) : s[i] # p
  PROVE  /\ \A i, j \in 1 .. Len(r) : r[i] = r[j] => i = j
         /\ \A i \in 1 .. Len(r) : r[i] = p \/ \E j \in 1 .. Len(s) : s[j] = r[i]
         /\ \A i \in 1 .. Len(s) : \E j \in 1 .. Len(r) : r[j] = s[i]
         /\ \E j \in 1 .. Len(r) : r[j] = p
  <1>1. Len(s) \in Nat /\ Len(r) = Len(s) + 1 /\ q \in 1 .. Len(s) + 1
    BY DEF PutAt
  <1>2. ASSUME NEW i \in 1 .. Len(r)
        PROVE  \/ i < q /\ i \in 1 .. Len(s) /\ r[i] = s[i]
               \/ i = q /\ r[i] = p
               \/ i > q /\ i - 1 \in 1 .. Len(s) /\ r[i] = s[i - 1]
    <2>1. r[i] = IF i < q THEN s[i] ELSE IF i = q THEN p ELSE s[i - 1]
      BY DEF PutAt
    <2>2. CASE i < q
      BY <2>1, <2>2, <1>1
    <2>3. CASE i = q
      BY <2>1, <2>3, <1>1
    <2>4. CASE i > q
      BY <2>1, <2>4, <1>1
    <2> QED BY <2>2, <2>3, <2>4, <1>1
  <1>3. ASSUME NEW i \in 1 .. Len(r), NEW j \in 1 .. Len(r), r[i] = r[j] PROVE i = j
    <2>1. CASE i = q \/ j = q
      BY <2>1, <1>1, <1>2, <1>3, SMTT(30)
    <2>2. CASE i < q /\ j < q
      BY <2>2, <1>1, <1>2, <1>3
    <2>3. CASE i < q /\ j > q
      <3>1. i \in 1 .. Len(s) /\ r[i] = s[i] /\ j - 1 \in 1 .. Len(s) /\ r[j] = s[j - 1]
        BY <2>3, <1>1, <1>2
      <3>2. i = j - 1
        BY <3>1, <1>3
      <3> QED BY <2>3, <3>2, <1>1
    <2>4. CASE i > q /\ j < q
      <3>1. j \in 1 .. Len(s) /\ r[j] = s[j] /\ i - 1 \in 1 .. Len(s) /\ r[i] = s[i - 1]
        BY <2>4, <1>1, <1>2
      <3>2. j = i - 1
        BY <3>1, <1>3
      <3> QED BY <2>4, <3>2, <1>1
    <2>5. CASE i > q /\ j > q
      <3>1. /\ i - 1 \in 1 .. Len(s) /\ r[i] = s[i - 1]
            /\ j - 1 \in 1 .. Len(s) /\ r[j] = s[j - 1]
        BY <2>5, <1>1, <1>2
      <3>2. i - 1 = j - 1
        BY <3>1, <1>3
      <3> QED BY <3>2, <1>1
    <2> QED BY <2>1, <2>2, <2>3, <2>4, <2>5, <1>1
  <1>4. ASSUME NEW i \in 1 .. Len(s) PROVE \E j \in 1 .. Len(r) : r[j] = s[i]
    <2>1. CASE i < q
      BY <2>1, <1>1 DEF PutAt
    <2>2. CASE i >= q
      <3>1. i + 1 \in 1 .. Len(r) /\ ~(i + 1 < q) /\ i + 1 # q /\ (i + 1) - 1 = i
        BY <2>2, <1>1
      <3> QED BY <3>1 DEF PutAt
    <2> QED BY <2>1, <2>2, <1>1
  <1>5. \E j \in 1 .. Len(r) : r[j] = p
    BY <1>1 DEF PutAt
  <1>6. \A i \in 1 .. Len(r) : r[i] = p \/ \E j \in 1 .. Len(s) : s[j] = r[i]
    BY <1>2
  <1> QED BY <1>3, <1>4, <1>5, <1>6

(* A function of an interval is a sequence.                                   *)
LEMMA Listed ==
  ASSUME NEW S, NEW m \in Nat, NEW f \in [1 .. m -> S]
  PROVE  f \in Seq(S) /\ Len(f) = m
  OBVIOUS

(* The least of some natural numbers.                                         *)
LEMMA LeastOf ==
  ASSUME NEW S \in SUBSET Nat, S # {}
  PROVE  \E n \in S : \A m \in S : n <= m
  <1> DEFINE less == {ss \in Nat \X Nat : ss[1] < ss[2]}
  <1>1. IsWellFoundedOn(less, Nat)
    BY NatLessThanWellFounded DEF OpToRel
  <1>2. \A x, y \in Nat : x < y => <<x, y>> \in less
    OBVIOUS
  <1> HIDE DEF less
  <1>3. PICK n \in S : \A m \in S : <<m, n>> \notin less
    BY <1>1, WFMin
  <1>4. ASSUME NEW m \in S PROVE n <= m
    <2>1. n \in Nat /\ m \in Nat /\ ~(m < n)
      BY <1>2, <1>3
    <2> QED BY <2>1
  <1> QED BY <1>4

(* heap_release_page() puts the page into the list.                           *)
LEMMA ReleasedPut ==
  ASSUME NEW p \in 1 .. Len(pages), HeapTypes
  PROVE  /\ Released(p) \in Seq(1 .. Len(pages))
         /\ \E q \in Nat : PutAt(Released(p), full_pages, q, p)
  <1> DEFINE s == full_pages
             later == {i \in DOMAIN s : pages[s[i]].generation <= pages[p].generation}
  <1>1. s \in Seq(1 .. Len(pages)) /\ Len(s) \in Nat /\ DOMAIN s = 1 .. Len(s)
    BY DEF HeapTypes
  <1>2. CASE later = {}
    <2>1. Released(p) = Append(s, p)
      BY <1>2 DEF Released
    <2>2. PutAt(Append(s, p), s, Len(s) + 1, p)
      BY <1>1 DEF PutAt
    <2> QED BY <2>1, <2>2, <1>1
  <1>3. CASE later # {}
    <2>1. Max(later) \in 1 .. Len(s)
      <3>1. later \subseteq 1 .. Len(s)
        BY <1>1
      <3>2. \E x \in later : \A y \in later : x >= y
        <4> DEFINE down == {n \in Nat : \E y \in later : n = Len(s) - y}
        <4>1. down # {} /\ down \subseteq Nat
          <5>1. PICK y \in later : TRUE
            BY <1>3
          <5>2. y \in 1 .. Len(s)
            BY <3>1
          <5> HIDE DEF later
          <5>3. Len(s) - y \in down
            BY <5>2, <1>1
          <5> QED BY <5>3
        <4>2. PICK n \in down : \A m \in down : n <= m
          BY <4>1, LeastOf
        <4>3. PICK x \in later : n = Len(s) - x
          BY <4>2
        <4>4. ASSUME NEW y \in later PROVE x >= y
          <5>1. Len(s) - y \in down
            BY <3>1, <1>1
          <5> QED BY <5>1, <4>2, <4>3, <3>1, <1>1, SMTT(30)
        <4> QED BY <4>4
      <3> QED BY <3>1, <3>2 DEF Max
    <2> DEFINE m == Max(later)
    <2>2. Released(p) = InsertAt(s, m, p)
      BY <1>3 DEF Released
    <2> HIDE DEF m, later
    <2>3. m \in 1 .. Len(s)
      BY <2>1 DEF m
    <2> DEFINE a == SubSeq(s, 1, m - 1)  b == <<p>>  c == SubSeq(s, m, Len(s))
    <2>4. /\ a \in Seq(1 .. Len(pages)) /\ Len(a) = m - 1
          /\ \A i \in 1 .. m - 1 : a[i] = s[i]
      BY <2>3, <1>1
    <2>5. /\ c \in Seq(1 .. Len(pages)) /\ Len(c) = Len(s) - m + 1
          /\ \A i \in 1 .. Len(s) - m + 1 : c[i] = s[m + i - 1]
      BY <2>3, <1>1
    <2>6. b \in Seq(1 .. Len(pages)) /\ Len(b) = 1 /\ b[1] = p
      OBVIOUS
    <2>7. InsertAt(s, m, p) = (a \o b) \o c
      BY DEF InsertAt
    <2> HIDE DEF a, b, c
    <2> DEFINE ab == a \o b
    <2>8. /\ ab \in Seq(1 .. Len(pages)) /\ Len(ab) = m
          /\ \A i \in 1 .. m : ab[i] = IF i < m THEN s[i] ELSE p
      <3>1. /\ ab \in Seq(1 .. Len(pages)) /\ Len(ab) = Len(a) + Len(b)
            /\ \A i \in 1 .. Len(a) + Len(b) : ab[i] = IF i <= Len(a) THEN a[i] ELSE b[i - Len(a)]
        BY <2>4, <2>6, Joined
      <3> HIDE DEF ab
      <3>2. Len(ab) = m
        BY <3>1, <2>3, <2>4, <2>6, <1>1
      <3>3. ASSUME NEW i \in 1 .. m PROVE ab[i] = IF i < m THEN s[i] ELSE p
        <4>1. ab[i] = IF i <= Len(a) THEN a[i] ELSE b[i - Len(a)]
          BY <3>1, <2>3, <2>4, <2>6, <1>1
        <4>2. CASE i < m
          BY <4>1, <4>2, <2>3, <2>4, <1>1
        <4>3. CASE i = m
          BY <4>1, <4>3, <2>3, <2>4, <2>6, <1>1
        <4> QED BY <4>2, <4>3, <2>3, <1>1
      <3> QED BY <3>1, <3>2, <3>3
    <2> HIDE DEF ab
    <2> DEFINE r == ab \o c
    <2>9. /\ r \in Seq(1 .. Len(pages)) /\ Len(r) = Len(s) + 1
          /\ \A i \in 1 .. Len(r) : r[i] = IF i <= m THEN ab[i] ELSE c[i - m]
      <3>1. /\ r \in Seq(1 .. Len(pages)) /\ Len(r) = Len(ab) + Len(c)
            /\ \A i \in 1 .. Len(ab) + Len(c) : r[i] = IF i <= Len(ab) THEN ab[i] ELSE c[i - Len(ab)]
        BY <2>5, <2>8, Joined
      <3> HIDE DEF r
      <3>2. Len(ab) = m /\ Len(ab) + Len(c) = Len(s) + 1
        BY <2>3, <2>5, <2>8, <1>1
      <3> QED BY <3>1, <3>2
    <2> HIDE DEF r
    <2>10. ASSUME NEW i \in 1 .. Len(r)
           PROVE  r[i] = IF i < m THEN s[i] ELSE IF i = m THEN p ELSE s[i - 1]
      <3>1. CASE i <= m
        BY <3>1, <2>8, <2>9, <2>3, <1>1
      <3>2. CASE i > m
        <4>1. i - m \in 1 .. Len(s) - m + 1 /\ m + (i - m) - 1 = i - 1
          <5>1. i \in 1 .. Len(s) + 1 /\ m \in 1 .. Len(s) /\ Len(s) \in Nat
            BY <2>9, <2>3, <1>1
          <5> QED BY <5>1, <3>2
        <4>2. r[i] = c[i - m] /\ c[i - m] = s[i - 1]
          BY <3>2, <2>9, <2>5, <4>1, <2>3
        <4> QED BY <4>2, <3>2, <2>3, <1>1
      <3> QED BY <3>1, <3>2, <2>3, <1>1
    <2>11. PutAt(r, s, m, p)
      BY <2>9, <2>10, <2>3, <1>1 DEF PutAt
    <2> QED BY <2>2, <2>7, <2>9, <2>11, <2>3 DEF r, ab
  <1> QED BY <1>2, <1>3

-------------------------------------------------------------------------------
(* Every step of the heap leaves each page in one place.                      *)

(* The lists of pages have only pages in them.                                *)
LEMMA PagesListed ==
  ASSUME HeapTypes
  PROVE  /\ Len(pages) \in Nat /\ DOMAIN pages = 1 .. Len(pages)
         /\ full_pages \in Seq(1 .. Len(pages)) /\ Len(full_pages) \in Nat
         /\ empty_pages \in Seq(1 .. Len(pages)) /\ Len(empty_pages) \in Nat
         /\ \A x : IsFull(x) => x \in 1 .. Len(pages)
         /\ \A x : IsEmpty(x) => x \in 1 .. Len(pages)
         /\ active_page \in [Threads -> {None} \union 1 .. Len(pages)]
         /\ \A t \in Threads : collecting[t].page \in {None} \union 1 .. Len(pages)
         /\ None \notin 1 .. Len(pages)
  BY DEF HeapTypes, IsFull, IsEmpty, None

(* The sets of the types depend on the matrix alone.                          *)
LEMMA SameMatrix ==
  ASSUME UNCHANGED purged
  PROVE  Columns' = Columns /\ RowNumbers' = RowNumbers /\ Chunk' = Chunk /\ Page' = Page
  BY DEF Columns, RowNumbers, Chunk, Page

(* A page that is full is released.                                           *)
LEMMA ReleaseApart ==
  ASSUME HeapTypes, PagesApart, NEW t \in Threads, NEW size, heap_release_page(t, size),
         UNCHANGED purged
  PROVE  HeapTypes' /\ PagesApart'
  <1> DEFINE p == active_page[t]
  <1>1. /\ p \in 1 .. Len(pages) /\ p # None
        /\ full_pages' = Released(p)
        /\ active_page' = [active_page EXCEPT ![t] = None]
        /\ UNCHANGED <<pages, empty_pages, heap_waste, current_generation, rows, collecting>>
    BY DEF heap_release_page, HeapTypes, None
  <1>2. full_pages' \in Seq(1 .. Len(pages))
    BY <1>1, ReleasedPut
  <1>3. active_page' \in [Threads -> {None} \union 1 .. Len(pages)]
    BY <1>1 DEF HeapTypes
  <1>4. HeapTypes'
    BY <1>1, <1>2, <1>3, SameMatrix DEF HeapTypes
  <1>5. IsActive(p) /\ ~IsFull(p) /\ ~IsEmpty(p) /\ ~IsCollected(p)
    BY <1>1 DEF PagesApart, OnePlace, IsActive
  <1>6. PICK q \in Nat : PutAt(full_pages', full_pages, q, p)
    BY <1>1, ReleasedPut
  <1>7. /\ \A i, j \in 1 .. Len(full_pages') : full_pages'[i] = full_pages'[j] => i = j
        /\ \A i \in 1 .. Len(full_pages') :
             full_pages'[i] = p \/ \E j \in 1 .. Len(full_pages) : full_pages[j] = full_pages'[i]
        /\ \A i \in 1 .. Len(full_pages) :
             \E j \in 1 .. Len(full_pages') : full_pages'[j] = full_pages[i]
        /\ \E j \in 1 .. Len(full_pages') : full_pages'[j] = p
    <2>1. \A i, j \in 1 .. Len(full_pages) : full_pages[i] = full_pages[j] => i = j
      BY DEF PagesApart
    <2>2. \A i \in 1 .. Len(full_pages) : full_pages[i] # p
      BY <1>5 DEF IsFull
    <2>3. full_pages \in Seq(1 .. Len(pages)) /\ p \in 1 .. Len(pages)
      BY <1>1, PagesListed
    <2> DEFINE s == full_pages  r == full_pages'  S == 1 .. Len(pages)
    <2>4. /\ s \in Seq(S) /\ r \in Seq(S) /\ p \in S /\ PutAt(r, s, q, p)
          /\ \A i, j \in 1 .. Len(s) : s[i] = s[j] => i = j
          /\ \A i \in 1 .. Len(s) : s[i] # p
      BY <1>2, <1>6, <2>1, <2>2, <2>3
    <2> HIDE DEF p, s, r, S
    <2>5. /\ \A i, j \in 1 .. Len(r) : r[i] = r[j] => i = j
          /\ \A i \in 1 .. Len(r) : r[i] = p \/ \E j \in 1 .. Len(s) : s[j] = r[i]
          /\ \A i \in 1 .. Len(s) : \E j \in 1 .. Len(r) : r[j] = s[i]
          /\ \E j \in 1 .. Len(r) : r[j] = p
      <3>1. \A i, j \in 1 .. Len(r) : r[i] = r[j] => i = j
        BY <2>4, PutOnce
      <3>2. \A i \in 1 .. Len(r) : r[i] = p \/ \E j \in 1 .. Len(s) : s[j] = r[i]
        BY <2>4, PutOnce
      <3>3. \A i \in 1 .. Len(s) : \E j \in 1 .. Len(r) : r[j] = s[i]
        BY <2>4, PutOnce
      <3>4. \E j \in 1 .. Len(r) : r[j] = p
        BY <2>4, PutOnce
      <3> QED BY <3>1, <3>2, <3>3, <3>4
    <2> QED BY <2>5 DEF s, r, p
  <1>8. \A x : IsFull(x)' <=> (x = p \/ IsFull(x))
    BY <1>7 DEF IsFull
  <1>9. \A x : (IsEmpty(x)' <=> IsEmpty(x)) /\ (IsCollected(x)' <=> IsCollected(x))
    BY <1>1 DEF IsEmpty, IsCollected
  <1>10. \A x : x # None => (IsActive(x)' <=> (x # p /\ IsActive(x)))
    <2>1. \A u \in Threads : active_page'[u] = IF u = t THEN None ELSE active_page[u]
      BY <1>1, PagesListed
    <2>2. \A u \in Threads : active_page[u] = p => u = t
      BY <1>1 DEF PagesApart
    <2> QED BY <2>1, <2>2 DEF IsActive
  <1>11. \A u, v \in Threads :
            /\ active_page'[u] = active_page'[v] /\ active_page'[u] # None => u = v
            /\ collecting'[u].page = collecting'[v].page /\ collecting'[u].page # None => u = v
    BY <1>1, PagesListed DEF PagesApart
  <1>12. ASSUME NEW x \in 1 .. Len(pages') PROVE OnePlace(x)'
    <2>1. x \in 1 .. Len(pages) /\ x # None
      BY <1>1, PagesListed
    <2>2. OnePlace(x)
      BY <2>1 DEF PagesApart
    <2> QED BY <2>1, <2>2, <1>5, <1>8, <1>9, <1>10, Zenon DEF OnePlace
  <1> QED BY <1>1, <1>4, <1>7, <1>11, <1>12 DEF PagesApart

(* A thread takes an empty page, or gets a new one.                           *)
LEMMA FreePageApart ==
  ASSUME HeapTypes, PagesApart, NEW t \in Threads, heap_get_free_page(t), UNCHANGED purged
  PROVE  /\ HeapTypes' /\ PagesApart'
         /\ Len(pages) <= Len(pages') /\ Len(pages'[active_page'[t]].data) = 0
         /\ ~\E u \in Threads : active_page[u] = active_page'[t]
         /\ \A x \in 1 .. Len(pages') : x # active_page'[t] =>
              x \in 1 .. Len(pages) /\ pages'[x] = pages[x] /\ (IsEmpty(x)' <=> IsEmpty(x))
         /\ active_page'[t] \in 1 .. Len(pages) => IsEmpty(active_page'[t])
  <1> DEFINE fresh == [generation |-> current_generation, ptr |-> 0, data |-> <<>>]
  <1>1. fresh \in Page
    BY DEF HeapTypes, Page
  <1>2. /\ active_page[t] = None
        /\ UNCHANGED <<full_pages, heap_waste, current_generation, rows, collecting>>
    BY DEF heap_get_free_page
  <1>3. CASE /\ empty_pages # <<>>
             /\ active_page' = [active_page EXCEPT ![t] = Head(empty_pages)]
             /\ pages' = [pages EXCEPT ![Head(empty_pages)] = fresh]
             /\ empty_pages' = Tail(empty_pages)
    <2> DEFINE p == Head(empty_pages)
    <2>1. /\ p \in 1 .. Len(pages) /\ Len(empty_pages) >= 1 /\ p = empty_pages[1]
          /\ Len(empty_pages') = Len(empty_pages) - 1 /\ empty_pages' \in Seq(1 .. Len(pages))
          /\ \A i \in 1 .. Len(empty_pages) - 1 : empty_pages'[i] = empty_pages[i + 1]
      BY <1>3, PagesListed
    <2>2. pages' \in Seq(Page) /\ Len(pages') = Len(pages)
      BY <1>1, <1>3, <2>1 DEF HeapTypes
    <2>3. active_page' = [active_page EXCEPT ![t] = p]
      BY <1>3
    <2>4. IsEmpty(p) /\ p # None /\ ~IsFull(p) /\ ~IsActive(p) /\ ~IsCollected(p)
      BY <2>1, PagesListed DEF PagesApart, OnePlace, IsEmpty
    <2> HIDE DEF p, fresh
    <2>5. HeapTypes'
      BY <1>2, <2>1, <2>2, <2>3, SameMatrix DEF HeapTypes
    <2>6. \A x : (IsFull(x)' <=> IsFull(x)) /\ (IsCollected(x)' <=> IsCollected(x))
      BY <1>2 DEF IsFull, IsCollected
    <2>7. \A x : IsEmpty(x)' <=> (x # p /\ IsEmpty(x))
      <3>1. \A i, j \in 1 .. Len(empty_pages) : empty_pages[i] = empty_pages[j] => i = j
        BY DEF PagesApart
      <3>2. ASSUME NEW x, NEW i \in 1 .. Len(empty_pages'), empty_pages'[i] = x
            PROVE  x # p /\ IsEmpty(x)
        <4>1. i + 1 \in 1 .. Len(empty_pages) /\ 1 \in 1 .. Len(empty_pages) /\ i + 1 # 1
          BY <2>1, PagesListed
        <4>2. empty_pages[i + 1] = x
          BY <2>1, <3>2
        <4> QED BY <2>1, <3>1, <4>1, <4>2 DEF IsEmpty
      <3>3. ASSUME NEW x, x # p, NEW i \in 1 .. Len(empty_pages), empty_pages[i] = x
            PROVE  IsEmpty(x)'
        <4>1. i # 1
          BY <2>1, <3>3
        <4>2. i - 1 \in 1 .. Len(empty_pages) - 1 /\ (i - 1) + 1 = i
          BY <2>1, <4>1, PagesListed
        <4>3. empty_pages'[i - 1] = x
          BY <2>1, <3>3, <4>2
        <4> QED BY <2>1, <4>2, <4>3 DEF IsEmpty
      <3> QED BY <3>2, <3>3 DEF IsEmpty
    <2>8. \A x : x # None => (IsActive(x)' <=> (x = p \/ IsActive(x)))
      <3>1. \A u \in Threads : active_page'[u] = IF u = t THEN p ELSE active_page[u]
        BY <2>3, PagesListed
      <3> QED BY <1>2, <3>1 DEF IsActive
    <2>9. \A u, v \in Threads :
             /\ active_page'[u] = active_page'[v] /\ active_page'[u] # None => u = v
             /\ collecting'[u].page = collecting'[v].page /\ collecting'[u].page # None => u = v
      <3>1. \A u \in Threads : active_page'[u] = IF u = t THEN p ELSE active_page[u]
        BY <2>3, PagesListed
      <3>2. \A u \in Threads : active_page[u] # p
        BY <2>4 DEF IsActive
      <3> QED BY <1>2, <3>1, <3>2 DEF PagesApart
    <2>10. \A i, j \in 1 .. Len(empty_pages') : empty_pages'[i] = empty_pages'[j] => i = j
      <3> SUFFICES ASSUME NEW i \in 1 .. Len(empty_pages'), NEW j \in 1 .. Len(empty_pages'),
                          empty_pages'[i] = empty_pages'[j]
                   PROVE  i = j
        OBVIOUS
      <3>1. i + 1 \in 1 .. Len(empty_pages) /\ j + 1 \in 1 .. Len(empty_pages)
        BY <2>1, PagesListed
      <3>2. empty_pages[i + 1] = empty_pages[j + 1]
        BY <2>1
      <3>3. i + 1 = j + 1
        BY <3>1, <3>2 DEF PagesApart
      <3> QED BY <3>3, <2>1, PagesListed
    <2>11. ASSUME NEW x \in 1 .. Len(pages') PROVE OnePlace(x)'
      <3>1. x \in 1 .. Len(pages) /\ x # None
        BY <2>2, PagesListed
      <3>2. OnePlace(x)
        BY <3>1 DEF PagesApart
      <3> QED BY <3>1, <3>2, <2>4, <2>6, <2>7, <2>8, Zenon DEF OnePlace
    <2>12. \A i, j \in 1 .. Len(full_pages') : full_pages'[i] = full_pages'[j] => i = j
      BY <1>2 DEF PagesApart
    <2>13. active_page'[t] = p /\ Len(pages'[p].data) = 0
      <3>1. active_page'[t] = p
        BY <2>3, PagesListed
      <3>2. pages'[p] = fresh
        BY <1>3, <2>1, PagesListed DEF p
      <3>3. fresh.data = <<>>
        BY DEF fresh
      <3> QED BY <3>1, <3>2, <3>3
    <2>14. \A x \in 1 .. Len(pages') : x # p =>
             x \in 1 .. Len(pages) /\ pages'[x] = pages[x] /\ (IsEmpty(x)' <=> IsEmpty(x))
      BY <1>3, <2>1, <2>2, <2>7, PagesListed DEF p
    <2>15. PagesApart'
      BY <2>9, <2>10, <2>11, <2>12 DEF PagesApart
    <2>16. Len(pages) <= Len(pages') /\ ~(\E u \in Threads : active_page[u] = p)
      BY <2>2, <2>4, PagesListed DEF IsActive
    <2> QED BY <2>4, <2>5, <2>13, <2>14, <2>15, <2>16
  <1>4. CASE /\ empty_pages = <<>>
             /\ active_page' = [active_page EXCEPT ![t] = Len(pages) + 1]
             /\ pages' = Append(pages, fresh)
             /\ UNCHANGED empty_pages
    <2> DEFINE p == Len(pages) + 1
    <2>1. pages' \in Seq(Page) /\ Len(pages') = p /\ p # None /\ p \notin 1 .. Len(pages)
          /\ 1 .. Len(pages') = (1 .. Len(pages)) \union {p}
      BY <1>1, <1>4, PagesListed DEF HeapTypes, None
    <2>2. active_page' = [active_page EXCEPT ![t] = p]
      BY <1>4
    <2> HIDE DEF p, fresh
    <2>3. \A x : (IsFull(x)' <=> IsFull(x)) /\ (IsCollected(x)' <=> IsCollected(x))
                   /\ (IsEmpty(x)' <=> IsEmpty(x))
      BY <1>2, <1>4 DEF IsFull, IsEmpty, IsCollected
    <2>4. \A u \in Threads : active_page'[u] = IF u = t THEN p ELSE active_page[u]
      BY <2>2, PagesListed
    <2>5. \A x : x # None => (IsActive(x)' <=> (x = p \/ IsActive(x)))
      BY <1>2, <2>4 DEF IsActive
    <2>6. ~IsFull(p) /\ ~IsEmpty(p) /\ ~IsActive(p) /\ ~IsCollected(p)
      BY <2>1, PagesListed DEF IsActive, IsCollected
    <2>7. HeapTypes'
      <3>1. Seq(1 .. Len(pages)) \subseteq Seq(1 .. Len(pages'))
        BY <2>1
      <3>2. full_pages' \in Seq(1 .. Len(pages')) /\ empty_pages' \in Seq(1 .. Len(pages'))
        BY <1>2, <1>4, <3>1, PagesListed
      <3>3. active_page' \in [Threads -> {None} \union 1 .. Len(pages')]
        BY <2>1, <2>2, PagesListed
      <3>4. collecting' \in [Threads -> [page : {None} \union 1 .. Len(pages'), at : Nat,
                                         garbage : Int]]
        BY <1>2, <2>1 DEF HeapTypes
      <3> QED BY <1>2, <2>1, <3>2, <3>3, <3>4, SameMatrix DEF HeapTypes
    <2>8. \A u, v \in Threads :
             /\ active_page'[u] = active_page'[v] /\ active_page'[u] # None => u = v
             /\ collecting'[u].page = collecting'[v].page /\ collecting'[u].page # None => u = v
      <3>1. \A u \in Threads : active_page[u] # p
        BY <2>6 DEF IsActive
      <3> QED BY <1>2, <2>4, <3>1 DEF PagesApart
    <2>9. ASSUME NEW x \in 1 .. Len(pages') PROVE OnePlace(x)'
      <3>1. CASE x = p
        BY <3>1, <2>1, <2>3, <2>5, <2>6, Zenon DEF OnePlace
      <3>2. CASE x # p
        <4>1. x \in 1 .. Len(pages) /\ x # None
          BY <3>2, <2>1, PagesListed
        <4>2. OnePlace(x)
          BY <4>1 DEF PagesApart
        <4> QED BY <3>2, <4>1, <4>2, <2>3, <2>5, Zenon DEF OnePlace
      <3> QED BY <3>1, <3>2
    <2>10. /\ \A i, j \in 1 .. Len(full_pages') : full_pages'[i] = full_pages'[j] => i = j
           /\ \A i, j \in 1 .. Len(empty_pages') : empty_pages'[i] = empty_pages'[j] => i = j
      BY <1>2, <1>4 DEF PagesApart
    <2>11. active_page'[t] = p /\ Len(pages'[p].data) = 0
      <3>1. active_page'[t] = p
        BY <2>4
      <3>2. pages'[p] = fresh
        BY <1>4, <2>1 DEF HeapTypes, p
      <3>3. fresh.data = <<>>
        BY DEF fresh
      <3> QED BY <3>1, <3>2, <3>3
    <2>12. \A x \in 1 .. Len(pages') : x # p =>
             x \in 1 .. Len(pages) /\ pages'[x] = pages[x] /\ (IsEmpty(x)' <=> IsEmpty(x))
      BY <1>4, <2>1, <2>3, PagesListed DEF HeapTypes
    <2>13. Len(pages) <= Len(pages') /\ ~\E u \in Threads : active_page[u] = p
      BY <2>1, <2>6, PagesListed DEF IsActive, p
    <2>14. PagesApart'
      BY <2>8, <2>9, <2>10 DEF PagesApart
    <2> QED BY <2>1, <2>7, <2>11, <2>12, <2>13, <2>14
  <1> QED BY <1>3, <1>4 DEF heap_get_free_page

(* A list without its first page.                                             *)
LEMMA TakenOff ==
  ASSUME NEW S, NEW s \in Seq(S), s # <<>>,
         \A i, j \in 1 .. Len(s) : s[i] = s[j] => i = j
  PROVE  /\ Head(s) \in S /\ Tail(s) \in Seq(S) /\ \E j \in 1 .. Len(s) : s[j] = Head(s)
         /\ \A i, j \in 1 .. Len(Tail(s)) : Tail(s)[i] = Tail(s)[j] => i = j
         /\ \A i \in 1 .. Len(Tail(s)) :
              Tail(s)[i] # Head(s) /\ \E j \in 1 .. Len(s) : s[j] = Tail(s)[i]
         /\ \A i \in 1 .. Len(s) :
              s[i] = Head(s) \/ \E j \in 1 .. Len(Tail(s)) : Tail(s)[j] = s[i]
  <1> DEFINE r == Tail(s)
  <1>1. /\ Len(s) \in Nat /\ Len(s) >= 1 /\ Head(s) = s[1] /\ Head(s) \in S
        /\ r \in Seq(S) /\ Len(r) = Len(s) - 1
        /\ \A i \in 1 .. Len(s) - 1 : r[i] = s[i + 1]
    OBVIOUS
  <1> HIDE DEF r
  <1>2. ASSUME NEW i \in 1 .. Len(r)
        PROVE  i + 1 \in 1 .. Len(s) /\ i + 1 # 1 /\ r[i] = s[i + 1] /\ i \in Int
    BY <1>1
  <1>3. 1 \in 1 .. Len(s)
    BY <1>1
  <1>4. ASSUME NEW i \in 1 .. Len(r), NEW j \in 1 .. Len(r), r[i] = r[j] PROVE i = j
    <2>1. i + 1 = j + 1
      BY <1>2, <1>4
    <2> QED BY <2>1, <1>2
  <1>5. ASSUME NEW i \in 1 .. Len(r) PROVE r[i] # Head(s) /\ \E j \in 1 .. Len(s) : s[j] = r[i]
    BY <1>1, <1>2, <1>3
  <1>6. ASSUME NEW i \in 1 .. Len(s), s[i] # Head(s) PROVE \E j \in 1 .. Len(r) : r[j] = s[i]
    <2>1. i - 1 \in 1 .. Len(r) /\ i - 1 \in 1 .. Len(s) - 1 /\ (i - 1) + 1 = i
      BY <1>1, <1>6
    <2>2. r[i - 1] = s[i]
      BY <1>1, <2>1
    <2> QED BY <2>1, <2>2
  <1> QED BY <1>1, <1>3, <1>4, <1>5, <1>6 DEF r

(* A thread takes the first full page to collect it.                          *)
LEMMA FullPageApart ==
  ASSUME HeapTypes, PagesApart, NEW t \in Threads, heap_get_full_page(t), UNCHANGED purged
  PROVE  HeapTypes' /\ PagesApart'
  <1> DEFINE p == Head(full_pages)
  <1>1. /\ collecting[t] = Idle /\ full_pages # <<>>
        /\ collecting' = [collecting EXCEPT ![t].page = p]
        /\ full_pages' = Tail(full_pages)
        /\ UNCHANGED <<pages, empty_pages, active_page, heap_waste, current_generation, rows>>
    BY DEF heap_get_full_page, OldPage
  <1>2. \A i, j \in 1 .. Len(full_pages) : full_pages[i] = full_pages[j] => i = j
    BY DEF PagesApart
  <1> DEFINE s == full_pages  r == full_pages'  S == 1 .. Len(pages)
  <1>3. s \in Seq(S) /\ s # <<>> /\ r = Tail(s) /\ p = Head(s)
    BY <1>1, PagesListed
  <1>4. /\ p \in S /\ r \in Seq(S) /\ \E j \in 1 .. Len(s) : s[j] = p
        /\ \A i, j \in 1 .. Len(r) : r[i] = r[j] => i = j
        /\ \A i \in 1 .. Len(r) : r[i] # p /\ \E j \in 1 .. Len(s) : s[j] = r[i]
        /\ \A i \in 1 .. Len(s) : s[i] = p \/ \E j \in 1 .. Len(r) : r[j] = s[i]
    <2>1. \A i, j \in 1 .. Len(s) : s[i] = s[j] => i = j
      BY <1>2
    <2> HIDE DEF p, r, s, S
    <2> QED BY <1>3, <2>1, TakenOff, SMTT(30)
  <1>5. IsFull(p) /\ p # None /\ ~IsEmpty(p) /\ ~IsActive(p) /\ ~IsCollected(p)
    BY <1>4, PagesListed DEF PagesApart, OnePlace, IsFull
  <1> HIDE DEF p
  <1>6. \A u \in Threads : collecting'[u] \in [page : {None} \union S, at : Nat, garbage : Int]
             /\ collecting'[u].page = IF u = t THEN p ELSE collecting[u].page
    BY <1>1, <1>4, ZenonT(40) DEF HeapTypes
  <1>7. HeapTypes'
    <2>1. collecting' \in [Threads -> [page : {None} \union S, at : Nat, garbage : Int]]
      BY <1>1, <1>6 DEF HeapTypes
    <2> QED BY <1>1, <1>4, <2>1, SameMatrix DEF HeapTypes
  <1>8. \A x : IsFull(x)' <=> (x # p /\ IsFull(x))
    BY <1>4 DEF IsFull
  <1>9. \A x : (IsEmpty(x)' <=> IsEmpty(x)) /\ (IsActive(x)' <=> IsActive(x))
    BY <1>1 DEF IsEmpty, IsActive
  <1>10. \A x : x # None => (IsCollected(x)' <=> (x = p \/ IsCollected(x)))
    <2>1. collecting[t].page = None
      BY <1>1 DEF Idle
    <2> QED BY <1>6, <2>1 DEF IsCollected
  <1>11. \A u, v \in Threads :
            /\ active_page'[u] = active_page'[v] /\ active_page'[u] # None => u = v
            /\ collecting'[u].page = collecting'[v].page /\ collecting'[u].page # None => u = v
    <2>1. \A u \in Threads : collecting[u].page # p
      BY <1>5 DEF IsCollected
    <2> QED BY <1>1, <1>6, <2>1 DEF PagesApart
  <1>12. ASSUME NEW x \in 1 .. Len(pages') PROVE OnePlace(x)'
    <2>1. x \in 1 .. Len(pages) /\ x # None
      BY <1>1, PagesListed
    <2>2. OnePlace(x)
      BY <2>1 DEF PagesApart
    <2> QED BY <2>1, <2>2, <1>5, <1>8, <1>9, <1>10, Zenon DEF OnePlace
  <1>13. \A i, j \in 1 .. Len(empty_pages') : empty_pages'[i] = empty_pages'[j] => i = j
    BY <1>1 DEF PagesApart
  <1> QED BY <1>4, <1>7, <1>11, <1>12, <1>13 DEF PagesApart

(* A page that is through is empty.                                           *)
LEMMA ClearApart ==
  ASSUME HeapTypes, PagesApart, NEW t \in Threads, heap_clear_page(t), UNCHANGED purged
  PROVE  /\ HeapTypes' /\ PagesApart'
         /\ \A x : IsEmpty(x)' <=> (x = collecting[t].page \/ IsEmpty(x))
  <1> DEFINE p == collecting[t].page
  <1>1. /\ p # None /\ p \in 1 .. Len(pages)
        /\ heap_waste' = [heap_waste EXCEPT ![t] = @ - collecting[t].garbage]
        /\ empty_pages' = <<p>> \o empty_pages
        /\ collecting' = [collecting EXCEPT ![t] = Idle]
        /\ UNCHANGED <<pages, full_pages, active_page, current_generation, rows>>
    BY PagesListed DEF heap_clear_page
  <1> DEFINE s == empty_pages  r == empty_pages'  S == 1 .. Len(pages)
  <1>2. IsCollected(p) /\ ~IsFull(p) /\ ~IsEmpty(p) /\ ~IsActive(p)
    BY <1>1 DEF PagesApart, OnePlace, IsCollected
  <1>3. /\ s \in Seq(S) /\ r \in Seq(S) /\ p \in S /\ PutAt(r, s, 1, p)
        /\ \A i, j \in 1 .. Len(s) : s[i] = s[j] => i = j
        /\ \A i \in 1 .. Len(s) : s[i] # p
    <2>1. s \in Seq(S) /\ p \in S
      BY <1>1, PagesListed
    <2>2. \A i, j \in 1 .. Len(s) : s[i] = s[j] => i = j
      BY DEF PagesApart
    <2>3. \A i \in 1 .. Len(s) : s[i] # p
      BY <1>2 DEF IsEmpty
    <2>4. r = <<p>> \o s
      BY <1>1
    <2> HIDE DEF p, s, r, S
    <2>5. r \in Seq(S) /\ PutAt(r, s, 1, p)
      BY <2>1, <2>4 DEF PutAt
    <2> QED BY <2>1, <2>2, <2>3, <2>5
  <1>4. /\ \A i, j \in 1 .. Len(r) : r[i] = r[j] => i = j
        /\ \A i \in 1 .. Len(r) : r[i] = p \/ \E j \in 1 .. Len(s) : s[j] = r[i]
        /\ \A i \in 1 .. Len(s) : \E j \in 1 .. Len(r) : r[j] = s[i]
        /\ \E j \in 1 .. Len(r) : r[j] = p
    <2> HIDE DEF p, s, r, S
    <2>1. \A i, j \in 1 .. Len(r) : r[i] = r[j] => i = j
      BY <1>3, PutOnce
    <2>2. \A i \in 1 .. Len(r) : r[i] = p \/ \E j \in 1 .. Len(s) : s[j] = r[i]
      BY <1>3, PutOnce
    <2>3. \A i \in 1 .. Len(s) : \E j \in 1 .. Len(r) : r[j] = s[i]
      BY <1>3, PutOnce
    <2>4. \E j \in 1 .. Len(r) : r[j] = p
      BY <1>3, PutOnce
    <2> QED BY <2>1, <2>2, <2>3, <2>4
  <1>5. \A u \in Threads : collecting'[u].page = IF u = t THEN None ELSE collecting[u].page
    BY <1>1 DEF HeapTypes, Idle
  <1>6. HeapTypes'
    <2>1. collecting' \in [Threads -> [page : {None} \union S, at : Nat, garbage : Int]]
      BY <1>1 DEF HeapTypes, Idle
    <2>2. heap_waste' \in [Threads -> Int]
      BY <1>1 DEF HeapTypes
    <2> QED BY <1>1, <1>3, <2>1, <2>2, SameMatrix DEF HeapTypes
  <1> HIDE DEF p
  <1>7. \A x : IsEmpty(x)' <=> (x = p \/ IsEmpty(x))
    BY <1>4 DEF IsEmpty
  <1>8. \A x : (IsFull(x)' <=> IsFull(x)) /\ (IsActive(x)' <=> IsActive(x))
    BY <1>1 DEF IsFull, IsActive
  <1>9. \A x : x # None => (IsCollected(x)' <=> (x # p /\ IsCollected(x)))
    <2>1. \A u \in Threads : collecting[u].page = p <=> u = t
      BY <1>1 DEF PagesApart, p
    <2> QED BY <1>5, <2>1 DEF IsCollected
  <1>10. \A u, v \in Threads :
            /\ active_page'[u] = active_page'[v] /\ active_page'[u] # None => u = v
            /\ collecting'[u].page = collecting'[v].page /\ collecting'[u].page # None => u = v
    BY <1>1, <1>5 DEF PagesApart
  <1>11. ASSUME NEW x \in 1 .. Len(pages') PROVE OnePlace(x)'
    <2>1. x \in 1 .. Len(pages) /\ x # None
      BY <1>1, PagesListed
    <2>2. OnePlace(x)
      BY <2>1 DEF PagesApart
    <2> QED BY <2>1, <2>2, <1>2, <1>7, <1>8, <1>9, Zenon DEF OnePlace
  <1>12. \A i, j \in 1 .. Len(full_pages') : full_pages'[i] = full_pages'[j] => i = j
    BY <1>1 DEF PagesApart
  <1> QED BY <1>4, <1>6, <1>7, <1>10, <1>11, <1>12 DEF PagesApart, p

(* Most steps leave the pages where they are.                                 *)
LEMMA StayApart ==
  ASSUME HeapTypes, PagesApart, UNCHANGED <<full_pages, empty_pages, active_page>>,
         Len(pages') = Len(pages),
         \A t \in Threads : collecting'[t].page = collecting[t].page
  PROVE  PagesApart'
  <1>1. \A x : /\ (IsFull(x)' <=> IsFull(x)) /\ (IsEmpty(x)' <=> IsEmpty(x))
               /\ (IsActive(x)' <=> IsActive(x)) /\ (IsCollected(x)' <=> IsCollected(x))
    BY DEF IsFull, IsEmpty, IsActive, IsCollected
  <1>2. ASSUME NEW x \in 1 .. Len(pages') PROVE OnePlace(x)'
    <2>1. OnePlace(x)
      BY DEF PagesApart
    <2> QED BY <1>1, <2>1, Zenon DEF OnePlace
  <1>3. /\ \A i, j \in 1 .. Len(full_pages') : full_pages'[i] = full_pages'[j] => i = j
        /\ \A i, j \in 1 .. Len(empty_pages') : empty_pages'[i] = empty_pages'[j] => i = j
        /\ \A t, u \in Threads :
             /\ active_page'[t] = active_page'[u] /\ active_page'[t] # None => t = u
             /\ collecting'[t].page = collecting'[u].page /\ collecting'[t].page # None => t = u
    BY DEF PagesApart
  <1> QED BY <1>2, <1>3 DEF PagesApart

-------------------------------------------------------------------------------
(* Rows in pages.                                                             *)

(* The rows of a page.                                                        *)
LEMMA PageRows ==
  ASSUME HeapTypes, NEW p \in 1 .. Len(pages)
  PROVE  /\ pages[p] \in Page /\ pages[p].data \in Seq(Chunk) /\ PageLen(p) \in Nat
         /\ \A k \in 1 .. PageLen(p) :
              pages[p].data[k] \in Chunk /\ Number(p, k) \in RowNumbers \union {Destroyed}
  <1>1. pages[p] \in Page
    BY DEF HeapTypes
  <1>2. pages[p].data \in Seq(Chunk) /\ PageLen(p) \in Nat
    BY <1>1 DEF Page, PageLen
  <1>3. \A k \in 1 .. PageLen(p) : pages[p].data[k] \in Chunk
    BY <1>2 DEF PageLen
  <1> QED BY <1>1, <1>2, <1>3 DEF Chunk, Number

(* Rows have numbers above those of None and Destroyed.                       *)
LEMMA MatrixRows ==
  ASSUME purged \in Matrices
  PROVE  /\ RowNumbers = 1 .. Len(purged) /\ Len(purged) \in Nat
         /\ None \notin RowNumbers /\ Destroyed \notin RowNumbers
         /\ \A i \in RowNumbers : purged[i] \in SUBSET Columns
         /\ IsFiniteSet(Columns)
         /\ \A cells \in SUBSET Columns : IsFiniteSet(cells) /\ Cardinality(cells) \in Nat
  <1>1. purged \in Seq(SUBSET (Nat \ {0})) /\ IsFiniteSet(Columns)
    BY MergeAssumption DEF MergeAssumption, Columns
  <1>2. /\ RowNumbers = 1 .. Len(purged) /\ Len(purged) \in Nat
        /\ None \notin RowNumbers /\ Destroyed \notin RowNumbers
    BY <1>1 DEF RowNumbers, None, Destroyed
  <1>3. \A i \in RowNumbers : purged[i] \in SUBSET Columns
    BY DEF RowNumbers, Columns, Range
  <1>4. \A cells \in SUBSET Columns : IsFiniteSet(cells) /\ Cardinality(cells) \in Nat
    BY <1>1, FS_Subset, FS_CardinalityType
  <1> QED BY <1>1, <1>2, <1>3, <1>4

(* A row is written behind the others of the active page.                     *)
LEMMA RowWritten ==
  ASSUME HeapTypes, NEW t \in Threads, active_page[t] # None,
         NEW i \in RowNumbers, NEW size \in Nat, NEW cells \in SUBSET Columns,
         pages' = WithRow(t, i, size, cells)
  PROVE  /\ pages' \in Seq(Page) /\ Len(pages') = Len(pages)
         /\ active_page[t] \in 1 .. Len(pages)
         /\ \A p \in 1 .. Len(pages) :
              /\ PageLen(p)' = IF p = active_page[t] THEN PageLen(p) + 1 ELSE PageLen(p)
              /\ \A k \in 1 .. PageLen(p) : Number(p, k)' = Number(p, k)
         /\ \A k : k = PageLen(active_page[t]) + 1 =>
              pages'[active_page[t]].data[k].row = i
  <1> DEFINE a == active_page[t]
             chunk == [row |-> i, size |-> size, cells |-> cells]
             page == [pages[a] EXCEPT !.ptr = @ + size + 2, !.data = Append(@, chunk)]
  <1>1. a \in 1 .. Len(pages)
    BY PagesListed
  <1>2. pages[a] \in Page /\ pages[a].data \in Seq(Chunk) /\ PageLen(a) \in Nat /\ chunk \in Chunk
    BY <1>1, PageRows DEF Chunk
  <1>3. page \in Page /\ page.data = Append(pages[a].data, chunk)
    <2>1. pages[a].ptr + size + 2 \in Int
      BY <1>2 DEF Page
    <2> HIDE DEF a, chunk
    <2>2. Append(pages[a].data, chunk) \in Seq(Chunk)
      BY <1>2
    <2>3. pages[a] \in [generation : Nat, ptr : Int, data : Seq(Chunk)]
      BY <1>2 DEF Page
    <2> DEFINE d == Append(pages[a].data, chunk)  n == pages[a].ptr + size + 2
    <2>4. page = [pages[a] EXCEPT !.ptr = n, !.data = d]
      OBVIOUS
    <2> HIDE DEF d, n, page
    <2>5. page \in [generation : Nat, ptr : Int, data : Seq(Chunk)] /\ page.data = d
      BY <2>1, <2>2, <2>3, <2>4 DEF d, n
    <2> QED BY <2>5 DEF Page, d
  <1>4. pages' = [pages EXCEPT ![a] = page]
    BY <1>1 DEF WithRow, HeapTypes, Page
  <1>5. chunk.row = i
    OBVIOUS
  <1> HIDE DEF a, chunk, page
  <1>6. pages' \in Seq(Page) /\ Len(pages') = Len(pages)
    BY <1>1, <1>3, <1>4 DEF HeapTypes
  <1>7. \A p \in 1 .. Len(pages) : pages'[p] = IF p = a THEN page ELSE pages[p]
    BY <1>1, <1>4 DEF HeapTypes
  <1>8. /\ Len(page.data) = PageLen(a) + 1
        /\ \A k \in 1 .. PageLen(a) : page.data[k] = pages[a].data[k]
        /\ page.data[PageLen(a) + 1] = chunk
    BY <1>2, <1>3 DEF PageLen
  <1>9. ASSUME NEW p \in 1 .. Len(pages)
        PROVE  /\ PageLen(p)' = IF p = a THEN PageLen(p) + 1 ELSE PageLen(p)
               /\ \A k \in 1 .. PageLen(p) : Number(p, k)' = Number(p, k)
    <2>1. CASE p = a
      <3>1. pages'[p] = page
        BY <2>1, <1>7
      <3> QED BY <3>1, <2>1, <1>8 DEF PageLen, Number
    <2>2. CASE p # a
      <3>1. pages'[p] = pages[p]
        BY <2>2, <1>7
      <3> QED BY <3>1, <2>2 DEF PageLen, Number
    <2> QED BY <2>1, <2>2
  <1>10. \A k : k = PageLen(a) + 1 => pages'[a].data[k].row = i
    BY <1>1, <1>5, <1>7, <1>8
  <1> QED BY <1>1, <1>6, <1>9, <1>10 DEF a

(* One element of a sequence is another one.                                  *)
LEMMA OneReplaced ==
  ASSUME NEW S, NEW s \in Seq(S), NEW i \in 1 .. Len(s), NEW e \in S, NEW r,
         r = [s EXCEPT ![i] = e]
  PROVE  /\ r \in Seq(S) /\ Len(r) = Len(s)
         /\ \A j \in 1 .. Len(s) : r[j] = IF j = i THEN e ELSE s[j]
  OBVIOUS

(* `new` has the rows of `old`, and at <<p, m>> there is garbage.               *)
Marked(new, old, p, m) ==
  /\ new \in Seq(Page) /\ Len(new) = Len(old)
  /\ \A q \in 1 .. Len(old) :
       /\ Len(new[q].data) = Len(old[q].data)
       /\ \A k \in 1 .. Len(old[q].data) :
            new[q].data[k].row = IF q = p /\ k = m THEN Destroyed ELSE old[q].data[k].row

(* `new` has the rows of `old`.                                                 *)
Alike(new, old) ==
  /\ new \in Seq(Page) /\ Len(new) = Len(old)
  /\ \A q \in 1 .. Len(old) :
       /\ Len(new[q].data) = Len(old[q].data)
       /\ \A k \in 1 .. Len(old[q].data) : new[q].data[k].row = old[q].data[k].row

(* A row is marked as garbage.                                                *)
LEMMA RowMarked ==
  ASSUME NEW held \in Seq(Page), NEW p \in 1 .. Len(held), NEW k \in 1 .. Len(held[p].data),
         NEW marked, marked = DestroyedIn(held, <<p, k>>)
  PROVE  Marked(marked, held, p, k)
  <1> DEFINE chunk == [held[p].data[k] EXCEPT !.row = Destroyed]
             data == [held[p].data EXCEPT ![k] = chunk]
             page == [held[p] EXCEPT !.data = data]
  <1>1. held[p] \in Page /\ held[p].data \in Seq(Chunk)
    <2>1. held[p] \in Page
      OBVIOUS
    <2> QED BY <2>1 DEF Page
  <1>2. held[p].data[k] \in Chunk
    BY <1>1
  <1>3. chunk \in Chunk /\ chunk.row = Destroyed
    BY <1>2 DEF Chunk
  <1>4. data \in Seq(Chunk) /\ Len(data) = Len(held[p].data)
        /\ \A m \in 1 .. Len(held[p].data) : data[m] = IF m = k THEN chunk ELSE held[p].data[m]
    BY <1>1, <1>3
  <1>5. page \in Page /\ page.data = data
    BY <1>1, <1>4 DEF Page
  <1>6. marked = [held EXCEPT ![p] = page]
    BY DEF DestroyedIn
  <1> HIDE DEF chunk, data, page
  <1>7. marked \in Seq(Page) /\ Len(marked) = Len(held)
        /\ \A q \in 1 .. Len(held) : marked[q] = IF q = p THEN page ELSE held[q]
    <2>1. held \in Seq(Page) /\ p \in 1 .. Len(held) /\ page \in Page
      BY <1>5
    <2>2. marked \in Seq(Page)
      BY <2>1, <1>6, OneReplaced
    <2>3. Len(marked) = Len(held)
      BY <2>1, <1>6, OneReplaced
    <2>4. \A q \in 1 .. Len(held) : marked[q] = IF q = p THEN page ELSE held[q]
      BY <2>1, <1>6
    <2> QED BY <2>2, <2>3, <2>4
  <1>8. ASSUME NEW q \in 1 .. Len(held)
        PROVE  /\ Len(marked[q].data) = Len(held[q].data)
               /\ \A m \in 1 .. Len(held[q].data) :
                    marked[q].data[m].row =
                      IF q = p /\ m = k THEN Destroyed ELSE held[q].data[m].row
    BY <1>3, <1>4, <1>5, <1>7
  <1> QED BY <1>7, <1>8 DEF Marked

-------------------------------------------------------------------------------
(* Every step of the heap leaves the pointers right.                          *)

(* What has to be shown of the pointers after a step.                         *)
LEMMA ReachedNext ==
  ASSUME UNCHANGED purged,
         \A j \in RowNumbers : \A q, k : rows'[j] # NULL /\ q = rows'[j][1] /\ k = rows'[j][2] =>
           /\ q \in 1 .. Len(pages') /\ k \in 1 .. PageLen(q)' /\ Number(q, k)' = j
           /\ ~IsEmpty(q)'
           /\ \A u \in Threads : collecting'[u].page = q => k >= collecting'[u].at
  PROVE  RowsReached'
  <1> SUFFICES ASSUME NEW j \in RowNumbers, rows'[j] # NULL,
                      NEW q, q = rows'[j][1], NEW k, k = rows'[j][2]
               PROVE  /\ q \in 1 .. Len(pages') /\ k \in 1 .. PageLen(q)' /\ Number(q, k)' = j
                      /\ ~IsEmpty(q)'
                      /\ \A u \in Threads : collecting'[u].page = q => k >= collecting'[u].at
    BY DEF RowsReached, PageLen, Number, IsEmpty, RowNumbers
  <1> QED OBVIOUS

LEMMA PendingNext ==
  ASSUME UNCHANGED purged,
         \A u \in Threads : \A a, j : Pending(u)' # None /\ a = active_page'[u] /\ j = Pending(u)' =>
           /\ j \in RowNumbers /\ a # None /\ PageLen(a)' >= 1
           /\ \A k : k = PageLen(a)' => Number(a, k)' = j /\ rows'[j] # <<a, k>>
  PROVE  PendingLast'
  <1> SUFFICES ASSUME NEW u \in Threads, Pending(u)' # None,
                      NEW a, a = active_page'[u], NEW j, j = Pending(u)'
               PROVE  /\ j \in RowNumbers /\ a # None /\ PageLen(a)' >= 1
                      /\ \A k : k = PageLen(a)' => Number(a, k)' = j /\ rows'[j] # <<a, k>>
    BY DEF PendingLast, PageLen, Number, RowNumbers
  <1> QED OBVIOUS

LEMMA AccountedNext ==
  ASSUME \A q \in 1 .. Len(pages') : \A k \in 1 .. PageLen(q)' :
           \/ IsEmpty(q)' \/ Number(q, k)' = Destroyed \/ rows'[Number(q, k)'] = <<q, k>>
           \/ \E u \in Threads : collecting'[u].page = q /\ k < collecting'[u].at
           \/ \E u \in Threads : Pending(u)' # None /\ active_page'[u] = q /\ k = PageLen(q)'
  PROVE  RowsAccounted'
  BY DEF RowsAccounted

(* The steps that move no rows: a page is released or taken to be collected.  *)
LEMMA PointersStay ==
  ASSUME HeapTypes, Pointers, UNCHANGED <<pages, empty_pages, rows, purged>>,
         \A t \in Threads : Pending(t)' = Pending(t),
         \A t \in Threads : Pending(t) # None => active_page'[t] = active_page[t],
         \A t \in Threads :
            \/ collecting'[t] = collecting[t]
            \/ /\ collecting[t].page = None
               /\ collecting'[t].page = None \/ collecting'[t].at = 1
  PROVE  Pointers'
  <1>1. RowNumbers' = RowNumbers /\ \A p : (IsEmpty(p)' <=> IsEmpty(p)) /\ PageLen(p)' = PageLen(p)
           /\ \A k : Number(p, k)' = Number(p, k)
    BY DEF RowNumbers, IsEmpty, PageLen, Number
  <1>2. RowsReached'
    <2> SUFFICES ASSUME NEW i \in RowNumbers, rows[i] # NULL
                 PROVE  /\ rows[i][1] \in 1 .. Len(pages) /\ rows[i][2] \in 1 .. PageLen(rows[i][1])
                        /\ Number(rows[i][1], rows[i][2]) = i
                        /\ ~IsEmpty(rows[i][1])
                        /\ \A t \in Threads : collecting'[t].page = rows[i][1]
                                                => rows[i][2] >= collecting'[t].at
      BY <1>1 DEF RowsReached, PageLen, Number, IsEmpty
    <2>1. /\ rows[i][1] \in 1 .. Len(pages) /\ rows[i][2] \in 1 .. PageLen(rows[i][1])
          /\ Number(rows[i][1], rows[i][2]) = i
          /\ ~IsEmpty(rows[i][1])
          /\ \A t \in Threads : collecting[t].page = rows[i][1] => rows[i][2] >= collecting[t].at
      BY DEF Pointers, RowsReached
    <2>2. rows[i][2] >= 1 /\ rows[i][1] # None
      BY <2>1, PagesListed, PageRows
    <2> QED BY <2>1, <2>2
  <1>3. PendingLast'
    <2> SUFFICES ASSUME NEW t \in Threads, Pending(t) # None
                 PROVE  /\ Pending(t) \in RowNumbers /\ active_page[t] # None
                        /\ PageLen(active_page[t]) >= 1
                        /\ Number(active_page[t], PageLen(active_page[t])) = Pending(t)
                        /\ rows[Pending(t)] # <<active_page[t], PageLen(active_page[t])>>
      BY <1>1 DEF PendingLast, PageLen, Number
    <2> QED BY DEF Pointers, PendingLast
  <1>4. RowsAccounted'
    <2> SUFFICES ASSUME NEW p \in 1 .. Len(pages), NEW k \in 1 .. PageLen(p)
                 PROVE  \/ IsEmpty(p) \/ Number(p, k) = Destroyed \/ rows[Number(p, k)] = <<p, k>>
                        \/ \E t \in Threads : collecting'[t].page = p /\ k < collecting'[t].at
                        \/ \E t \in Threads : Pending(t)' # None /\ active_page'[t] = p /\ k = PageLen(p)
      BY <1>1 DEF RowsAccounted
    <2>1. p # None
      BY PagesListed
    <2> QED BY <2>1 DEF Pointers, RowsAccounted
  <1>5. \A t \in Threads : collecting'[t].page # None => collecting'[t].at >= 1
    BY DEF Pointers
  <1> QED BY <1>2, <1>3, <1>4, <1>5 DEF Pointers

(* A thread takes an empty page, or gets a new one.                           *)
LEMMA PointersFreePage ==
  ASSUME HeapTypes, PagesApart, Pointers, NEW t \in Threads, heap_get_free_page(t),
         UNCHANGED purged, \A u \in Threads : Pending(u)' = Pending(u)
  PROVE  Pointers'
  <1> DEFINE a == active_page'[t]
  <1>1. /\ active_page[t] = None /\ \A u \in Threads : u # t => active_page'[u] = active_page[u]
        /\ UNCHANGED <<full_pages, rows, collecting>> /\ RowNumbers' = RowNumbers
    BY DEF heap_get_free_page, HeapTypes, RowNumbers
  <1>2. /\ HeapTypes' /\ Len(pages) <= Len(pages') /\ Len(pages'[a].data) = 0
        /\ ~\E u \in Threads : active_page[u] = a
        /\ \A x \in 1 .. Len(pages') : x # a =>
             x \in 1 .. Len(pages) /\ pages'[x] = pages[x] /\ (IsEmpty(x)' <=> IsEmpty(x))
        /\ a \in 1 .. Len(pages) => IsEmpty(a)
    BY FreePageApart
  <1> HIDE DEF a
  <1>3. \A x \in 1 .. Len(pages) : x \in 1 .. Len(pages')
    BY <1>2, PagesListed DEF HeapTypes
  <1>4. \A x \in 1 .. Len(pages') : x # a =>
          PageLen(x)' = PageLen(x) /\ \A k : Number(x, k)' = Number(x, k)
    BY <1>2 DEF PageLen, Number
  <1>5. \A u \in Threads : Pending(u) # None =>
          u # t /\ active_page[u] # a /\ active_page'[u] = active_page[u]
             /\ active_page[u] \in 1 .. Len(pages) /\ active_page[u] \in 1 .. Len(pages')
    BY <1>1, <1>2, <1>3, PagesListed DEF Pointers, PendingLast
  <1>6. RowsReached'
    <2> SUFFICES ASSUME NEW i \in RowNumbers, rows[i] # NULL, NEW p, p = rows[i][1], NEW k, k = rows[i][2]
                 PROVE  /\ p \in 1 .. Len(pages') /\ k \in 1 .. PageLen(p)'
                        /\ Number(p, k)' = i
                        /\ ~IsEmpty(p)'
                        /\ \A u \in Threads : collecting[u].page = p => k >= collecting[u].at
      BY <1>1 DEF RowsReached, PageLen, Number, IsEmpty
    <2>1. /\ p \in 1 .. Len(pages) /\ k \in 1 .. PageLen(p) /\ Number(p, k) = i /\ ~IsEmpty(p)
          /\ \A u \in Threads : collecting[u].page = p => k >= collecting[u].at
      BY DEF Pointers, RowsReached
    <2>2. p # a /\ p \in 1 .. Len(pages')
      BY <1>2, <1>3, <2>1
    <2> QED BY <1>2, <1>4, <2>1, <2>2
  <1>7. PendingLast'
    <2> SUFFICES ASSUME NEW u \in Threads, Pending(u) # None, NEW p, p = active_page[u],
                        NEW n, n = Pending(u)
                 PROVE  /\ n \in RowNumbers /\ p # None /\ PageLen(p)' >= 1
                        /\ \A k : k = PageLen(p)' => Number(p, k)' = n /\ rows[n] # <<p, k>>
      BY <1>1, <1>5 DEF PendingLast, PageLen, Number
    <2>1. /\ n \in RowNumbers /\ p # None /\ PageLen(p) >= 1
          /\ Number(p, PageLen(p)) = n /\ rows[n] # <<p, PageLen(p)>>
      BY DEF Pointers, PendingLast
    <2> QED BY <1>4, <1>5, <2>1
  <1>8. RowsAccounted'
    <2> SUFFICES ASSUME NEW p \in 1 .. Len(pages'), NEW k \in 1 .. PageLen(p)'
                 PROVE  \/ IsEmpty(p)' \/ Number(p, k)' = Destroyed \/ rows[Number(p, k)'] = <<p, k>>
                        \/ \E u \in Threads : collecting[u].page = p /\ k < collecting[u].at
                        \/ \E u \in Threads : Pending(u) # None /\ active_page'[u] = p
                                                /\ k = PageLen(p)'
      BY <1>1 DEF RowsAccounted
    <2>1. p # a
      BY <1>2 DEF PageLen
    <2>2. p \in 1 .. Len(pages) /\ k \in 1 .. PageLen(p)
      BY <1>2, <1>4, <2>1
    <2>3. \/ IsEmpty(p) \/ Number(p, k) = Destroyed \/ rows[Number(p, k)] = <<p, k>>
          \/ \E u \in Threads : collecting[u].page = p /\ k < collecting[u].at
          \/ \E u \in Threads : Pending(u) # None /\ active_page[u] = p /\ k = PageLen(p)
      BY <2>2 DEF Pointers, RowsAccounted
    <2>4. /\ Number(p, k)' = Number(p, k) /\ PageLen(p)' = PageLen(p) /\ (IsEmpty(p)' <=> IsEmpty(p))
      BY <1>2, <1>4, <2>1
    <2> QED BY <1>5, <2>3, <2>4
  <1>9. \A u \in Threads : collecting'[u].page # None => collecting'[u].at >= 1
    BY <1>1 DEF Pointers
  <1> QED BY <1>6, <1>7, <1>8, <1>9 DEF Pointers

(* What a thread that collects a page has not looked at.                      *)
LEMMA LeftRows ==
  ASSUME HeapTypes, Pointers, NEW t \in Threads, collecting[t].page # None,
         NEW p, p = collecting[t].page, NEW at, at = collecting[t].at
  PROVE  /\ p \in 1 .. Len(pages) /\ at \in Nat /\ at >= 1
         /\ Left(t) = <<>> => at > PageLen(p)
         /\ Left(t) # <<>> => /\ at \in 1 .. PageLen(p) /\ Head(Left(t)) = pages[p].data[at]
                              /\ Head(Left(t)) \in Chunk /\ Head(Left(t)).row = Number(p, at)
  <1>1. p \in 1 .. Len(pages)
    BY PagesListed
  <1>2. at \in Nat /\ at >= 1
    BY DEF HeapTypes, Pointers
  <1> DEFINE data == pages[p].data
  <1>3. data \in Seq(Chunk) /\ Len(data) = PageLen(p) /\ Len(data) \in Nat
    BY <1>1, PageRows DEF PageLen
  <1>4. Left(t) = SubSeq(data, at, Len(data))
    BY DEF Left
  <1> HIDE DEF data
  <1>5. CASE at > Len(data)
    <2>1. Left(t) = <<>>
      BY <1>2, <1>3, <1>4, <1>5
    <2> QED BY <1>1, <1>2, <1>3, <1>5, <2>1
  <1>6. CASE at <= Len(data)
    <2>1. /\ Left(t) \in Seq(Chunk) /\ Len(Left(t)) = Len(data) - at + 1 /\ Left(t)[1] = data[at]
      BY <1>2, <1>3, <1>4, <1>6
    <2>2. Left(t) # <<>> /\ Head(Left(t)) = data[at] /\ data[at] \in Chunk
      BY <1>2, <1>3, <1>6, <2>1
    <2> QED BY <1>1, <1>2, <1>3, <1>6, <2>2 DEF Number, data
  <1> QED BY <1>2, <1>3, <1>5, <1>6

(* Garbage is left where it is.                                               *)
LEMMA SkipSafe ==
  ASSUME HeapTypes, PagesApart, Pointers, NEW t \in Threads, SkipGarbage(t),
         purged \in Matrices, UNCHANGED purged,
         \A u \in Threads : Pending(u)' = Pending(u)
  PROVE  HeapTypes' /\ PagesApart' /\ Pointers'
  <1> DEFINE p == collecting[t].page  at == collecting[t].at
  <1>1. /\ p # None /\ Left(t) # <<>> /\ Head(Left(t)).row = Destroyed
        /\ collecting' = [collecting EXCEPT ![t].at = @ + 1,
                                            ![t].garbage = @ + Space(Head(Left(t)))]
        /\ UNCHANGED <<pages, full_pages, empty_pages, active_page, heap_waste,
                       current_generation, rows>>
    BY DEF SkipGarbage
  <1>2. /\ p \in 1 .. Len(pages) /\ at \in 1 .. PageLen(p) /\ Number(p, at) = Destroyed
        /\ Head(Left(t)) \in Chunk /\ at \in Nat /\ at >= 1
    BY <1>1, LeftRows
  <1>3. Space(Head(Left(t))) \in Int
    BY <1>2 DEF Space, Chunk
  <1>4. /\ collecting' \in [Threads -> [page : {None} \union 1 .. Len(pages), at : Nat, garbage : Int]]
        /\ \A u \in Threads : /\ collecting'[u].page = collecting[u].page
                              /\ collecting'[u].at = IF u = t THEN at + 1 ELSE collecting[u].at
    <2> DEFINE g == collecting[t].garbage + Space(Head(Left(t)))
               C == [page : {None} \union 1 .. Len(pages), at : Nat, garbage : Int]
               c == [collecting[t] EXCEPT !.at = at + 1, !.garbage = g]
    <2>1. collecting \in [Threads -> C] /\ collecting[t] \in C
      BY DEF HeapTypes
    <2>2. g \in Int /\ at + 1 \in Nat
      BY <1>2, <1>3, <2>1
    <2>3. collecting' = [collecting EXCEPT ![t] = c]
      BY <1>1
    <2> HIDE DEF g
    <2>4. c \in C /\ c.page = collecting[t].page /\ c.at = at + 1
      BY <2>1, <2>2
    <2> HIDE DEF c, C
    <2>5. collecting' \in [Threads -> C]
          /\ \A u \in Threads : collecting'[u] = IF u = t THEN c ELSE collecting[u]
      BY <2>1, <2>3, <2>4
    <2> QED BY <2>4, <2>5 DEF C
  <1>11. UNCHANGED <<pages, full_pages, empty_pages, active_page, heap_waste, current_generation,
                     rows>>
    BY <1>1
  <1> HIDE DEF p, at
  <1>5. HeapTypes' /\ PagesApart'
    BY <1>11, <1>4, SameMatrix, StayApart DEF HeapTypes
  <1>6. RowNumbers' = RowNumbers /\ \A q : (IsEmpty(q)' <=> IsEmpty(q)) /\ PageLen(q)' = PageLen(q)
           /\ \A k : Number(q, k)' = Number(q, k)
    BY <1>11 DEF RowNumbers, IsEmpty, PageLen, Number
  <1>7. RowsReached'
    <2> SUFFICES ASSUME NEW i \in RowNumbers, rows[i] # NULL, NEW q, q = rows[i][1], NEW k, k = rows[i][2]
                 PROVE  /\ q \in 1 .. Len(pages) /\ k \in 1 .. PageLen(q)
                        /\ Number(q, k) = i /\ ~IsEmpty(q)
                        /\ \A u \in Threads : collecting'[u].page = q => k >= collecting'[u].at
      BY <1>11, <1>6 DEF RowsReached, PageLen, Number, IsEmpty
    <2>1. /\ q \in 1 .. Len(pages) /\ k \in 1 .. PageLen(q) /\ Number(q, k) = i /\ ~IsEmpty(q)
          /\ \A u \in Threads : collecting[u].page = q => k >= collecting[u].at
      BY DEF Pointers, RowsReached
    <2>2. ~(q = p /\ k = at)
      BY <1>2, <2>1, MatrixRows
    <2>3. k \in Nat
      BY <2>1, PageRows
    <2> QED BY <1>2, <1>4, <2>1, <2>2, <2>3 DEF p, at
  <1>8. PendingLast'
    BY <1>11, <1>6 DEF Pointers, PendingLast, PageLen, Number
  <1>9. RowsAccounted'
    <2> SUFFICES ASSUME NEW q \in 1 .. Len(pages), NEW k \in 1 .. PageLen(q)
                 PROVE  \/ IsEmpty(q) \/ Number(q, k) = Destroyed \/ rows[Number(q, k)] = <<q, k>>
                        \/ \E u \in Threads : collecting'[u].page = q /\ k < collecting'[u].at
                        \/ \E u \in Threads : Pending(u) # None /\ active_page[u] = q /\ k = PageLen(q)
      BY <1>11, <1>6 DEF RowsAccounted
    <2>1. \A u \in Threads : k < collecting[u].at => k < collecting'[u].at
      <3>1. PageLen(q) \in Nat /\ k \in Nat
        BY PageRows
      <3> QED BY <1>2, <1>4, <3>1 DEF at
    <2> QED BY <1>4, <2>1 DEF Pointers, RowsAccounted
  <1>10. \A u \in Threads : collecting'[u].page # None => collecting'[u].at >= 1
    BY <1>2, <1>4 DEF Pointers
  <1> QED BY <1>5, <1>7, <1>8, <1>9, <1>10 DEF Pointers

(* A page is empty when all its rows are garbage or were moved.               *)
LEMMA ClearSafe ==
  ASSUME HeapTypes, PagesApart, Pointers, NEW t \in Threads, heap_clear_page(t), UNCHANGED purged,
         \A u \in Threads : Pending(u)' = Pending(u)
  PROVE  HeapTypes' /\ PagesApart' /\ Pointers'
  <1> DEFINE p == collecting[t].page
  <1>1. /\ p # None /\ p \in 1 .. Len(pages) /\ Left(t) = <<>>
        /\ collecting' = [collecting EXCEPT ![t] = Idle]
        /\ UNCHANGED <<pages, full_pages, active_page, current_generation, rows>>
    BY PagesListed DEF heap_clear_page
  <1>2. HeapTypes' /\ PagesApart' /\ \A x : IsEmpty(x)' <=> (x = p \/ IsEmpty(x))
    BY ClearApart
  <1>3. collecting[t].at > PageLen(p) /\ collecting[t].at \in Nat
    BY <1>1, LeftRows
  <1>4. \A u \in Threads : /\ u # t => collecting'[u] = collecting[u]
                           /\ collecting'[t].page = None
    BY <1>1 DEF HeapTypes, Idle
  <1> HIDE DEF p
  <1>5. RowNumbers' = RowNumbers /\ \A q : PageLen(q)' = PageLen(q)
           /\ \A k : Number(q, k)' = Number(q, k)
    BY <1>1 DEF RowNumbers, PageLen, Number
  <1>6. RowsReached'
    <2> SUFFICES ASSUME NEW i \in RowNumbers, rows[i] # NULL, NEW q, q = rows[i][1], NEW k, k = rows[i][2]
                 PROVE  /\ q \in 1 .. Len(pages) /\ k \in 1 .. PageLen(q)
                        /\ Number(q, k) = i /\ ~IsEmpty(q)'
                        /\ \A u \in Threads : collecting'[u].page = q => k >= collecting'[u].at
      BY <1>1, <1>5 DEF RowsReached, PageLen, Number, IsEmpty
    <2>1. /\ q \in 1 .. Len(pages) /\ k \in 1 .. PageLen(q) /\ Number(q, k) = i /\ ~IsEmpty(q)
          /\ \A u \in Threads : collecting[u].page = q => k >= collecting[u].at
      BY DEF Pointers, RowsReached
    <2>2. q # None /\ k \in Nat /\ PageLen(q) \in Nat
      BY <2>1, PagesListed, PageRows
    <2>3. q # p
      BY <1>3, <2>1, <2>2 DEF p
    <2> QED BY <1>2, <1>4, <2>1, <2>2, <2>3
  <1>7. PendingLast'
    BY <1>1, <1>5 DEF Pointers, PendingLast, PageLen, Number
  <1>8. RowsAccounted'
    <2> SUFFICES ASSUME NEW q \in 1 .. Len(pages), NEW k \in 1 .. PageLen(q)
                 PROVE  \/ IsEmpty(q)' \/ Number(q, k) = Destroyed \/ rows[Number(q, k)] = <<q, k>>
                        \/ \E u \in Threads : collecting'[u].page = q /\ k < collecting'[u].at
                        \/ \E u \in Threads : Pending(u) # None /\ active_page[u] = q /\ k = PageLen(q)
      BY <1>1, <1>5 DEF RowsAccounted
    <2>1. \A u \in Threads : collecting[u].page = q => q = p \/ collecting'[u] = collecting[u]
      BY <1>4 DEF p
    <2> QED BY <1>2, <2>1 DEF Pointers, RowsAccounted
  <1>9. \A u \in Threads : collecting'[u].page # None => collecting'[u].at >= 1
    BY <1>4 DEF Pointers
  <1> QED BY <1>2, <1>6, <1>7, <1>8, <1>9 DEF Pointers

(* A row is written and its pointer set: if it was elsewhere, that copy counts *)
(* as moved.                                                                  *)
LEMMA WriteSafe ==
  ASSUME HeapTypes, PagesApart, Pointers, purged \in Matrices, UNCHANGED purged,
         NEW t \in Threads, active_page[t] # None,
         NEW i \in RowNumbers, NEW size \in Nat, NEW cells \in SUBSET Columns,
         pages' = WithRow(t, i, size, cells),
         rows' = [rows EXCEPT ![i] = Allocated(t)],
         UNCHANGED <<full_pages, empty_pages, active_page, heap_waste, current_generation>>,
         \A u \in Threads : Pending(u) = None /\ Pending(u)' = None,
         collecting' \in [Threads -> [page : {None} \union 1 .. Len(pages), at : Nat, garbage : Int]],
         \A u \in Threads : /\ collecting'[u].page = collecting[u].page
                            /\ collecting'[u].at >= collecting[u].at,
         \A j \in RowNumbers, u \in Threads :
            rows[j] # NULL /\ j # i /\ collecting[u].page = rows[j][1]
              => rows[j][2] >= collecting'[u].at,
         rows[i] # NULL => \E u \in Threads : /\ collecting[u].page = rows[i][1]
                                              /\ rows[i][2] < collecting'[u].at
  PROVE  HeapTypes' /\ PagesApart' /\ Pointers'
  <1> DEFINE a == active_page[t]  n == PageLen(a) + 1
  <1>1. /\ pages' \in Seq(Page) /\ Len(pages') = Len(pages) /\ a \in 1 .. Len(pages)
        /\ \A p \in 1 .. Len(pages) :
             /\ PageLen(p)' = IF p = a THEN PageLen(p) + 1 ELSE PageLen(p)
             /\ \A k \in 1 .. PageLen(p) : Number(p, k)' = Number(p, k)
        /\ pages'[a].data[n].row = i
    <2>1. pages' \in Seq(Page) /\ Len(pages') = Len(pages) /\ a \in 1 .. Len(pages)
      BY RowWritten
    <2>2. \A p \in 1 .. Len(pages) :
             /\ PageLen(p)' = IF p = a THEN PageLen(p) + 1 ELSE PageLen(p)
             /\ \A k \in 1 .. PageLen(p) : Number(p, k)' = Number(p, k)
      BY RowWritten
    <2>3. \A k : k = PageLen(a) + 1 => pages'[a].data[k].row = i
      BY RowWritten
    <2> QED BY <2>1, <2>2, <2>3
  <1>2. PageLen(a) \in Nat /\ n \in Nat /\ n >= 1 /\ n > PageLen(a)
    BY <1>1, PageRows
  <1>3. rows' = [rows EXCEPT ![i] = <<a, n>>] /\ <<a, n>> \in Nat \X Nat
    BY <1>1, <1>2 DEF Allocated, PageLen
  <1>4. \A j \in RowNumbers : rows'[j] = IF j = i THEN <<a, n>> ELSE rows[j]
    BY <1>3 DEF HeapTypes
  <1>5. ~IsEmpty(a) /\ ~IsCollected(a) /\ a # None
    BY <1>1, PagesListed DEF PagesApart, OnePlace, IsActive
  <1>6. HeapTypes'
    <2>1. rows' \in [RowNumbers -> Nat \X Nat]
      BY <1>3 DEF HeapTypes
    <2> QED BY <1>1, <2>1, SameMatrix DEF HeapTypes
  <1>7. PagesApart'
    BY <1>1, StayApart
  <1> HIDE DEF a, n
  <1>8. RowNumbers' = RowNumbers /\ Len(pages') = Len(pages) /\ \A q : IsEmpty(q)' <=> IsEmpty(q)
    BY <1>1 DEF RowNumbers, IsEmpty
  <1>9. ASSUME NEW k, k = n PROVE k \in 1 .. PageLen(a) + 1 /\ k \notin 1 .. PageLen(a)
    BY <1>2, <1>9 DEF n
  <1>10. RowsReached'
    <2> SUFFICES ASSUME NEW j \in RowNumbers, NEW q, NEW k,
                        rows'[j] # NULL, q = rows'[j][1], k = rows'[j][2]
                 PROVE  /\ q \in 1 .. Len(pages') /\ k \in 1 .. PageLen(q)' /\ Number(q, k)' = j
                        /\ ~IsEmpty(q)'
                        /\ \A u \in Threads : collecting'[u].page = q => k >= collecting'[u].at
      BY ReachedNext, Zenon
    <2>1. CASE j = i
      <3>1. q = a /\ k = n
        BY <2>1, <1>4
      <3>2. PageLen(q)' = PageLen(a) + 1 /\ k \in 1 .. PageLen(q)'
        BY <1>1, <1>9, <3>1
      <3>3. Number(q, k)' = j
        BY <1>1, <2>1, <3>1 DEF Number
      <3> QED BY <1>1, <1>5, <1>8, <3>1, <3>2, <3>3 DEF IsCollected
    <2>2. CASE j # i
      <3>1. rows'[j] = rows[j] /\ rows[j] # NULL /\ q = rows[j][1] /\ k = rows[j][2]
        BY <2>2, <1>4
      <3>2. /\ q \in 1 .. Len(pages) /\ k \in 1 .. PageLen(q) /\ Number(q, k) = j /\ ~IsEmpty(q)
        BY <3>1 DEF Pointers, RowsReached
      <3>4. PageLen(q) \in Nat /\ k \in Nat
        BY <3>2, PageRows
      <3>5. Number(q, k)' = j
        BY <1>1, <3>2
      <3>6. PageLen(q)' = PageLen(q) + 1 \/ PageLen(q)' = PageLen(q)
        BY <1>1, <3>2
      <3>3. PageLen(q) \in Nat /\ Number(q, k)' = j /\ k \in 1 .. PageLen(q)'
        BY <3>2, <3>4, <3>5, <3>6
      <3> QED BY <1>8, <2>2, <3>1, <3>2, <3>3
    <2> QED BY <2>1, <2>2
  <1>11. PendingLast'
    BY DEF PendingLast
  <1>12. RowsAccounted'
    <2> SUFFICES ASSUME NEW q \in 1 .. Len(pages'), NEW k \in 1 .. PageLen(q)'
                 PROVE  \/ IsEmpty(q)' \/ Number(q, k)' = Destroyed \/ rows'[Number(q, k)'] = <<q, k>>
                        \/ \E u \in Threads : collecting'[u].page = q /\ k < collecting'[u].at
      BY AccountedNext, Zenon
    <2>3. q \in 1 .. Len(pages)
      BY <1>8
    <2>1. CASE q = a /\ k = n
      <3>1. Number(q, k)' = i
        BY <1>1, <2>1 DEF Number
      <3> QED BY <2>1, <3>1, <1>4
    <2>2. CASE k \in 1 .. PageLen(q)
      <3>1. Number(q, k)' = Number(q, k) /\ Number(q, k) \in RowNumbers \union {Destroyed}
              /\ PageLen(q) \in Nat /\ k \in Nat
        BY <1>1, <2>2, <2>3, PageRows
      <3>2. \/ IsEmpty(q) \/ Number(q, k) = Destroyed \/ rows[Number(q, k)] = <<q, k>>
            \/ \E u \in Threads : collecting[u].page = q /\ k < collecting[u].at
        BY <2>2, <2>3 DEF Pointers, RowsAccounted
      <3>3. ASSUME NEW u \in Threads, collecting[u].page = q, k < collecting[u].at
            PROVE  collecting'[u].page = q /\ k < collecting'[u].at
        <4>1. collecting[u].at \in Nat /\ collecting'[u].at \in Nat
          BY DEF HeapTypes
        <4>2. collecting'[u].page = collecting[u].page /\ collecting'[u].at >= collecting[u].at
          OBVIOUS
        <4>3. k \in Nat
          BY <3>1
        <4> QED BY ONLY <3>3, <4>1, <4>2, <4>3
      <3>4. CASE Number(q, k) = i /\ rows[i] = <<q, k>>
        <4>1. rows[i] # NULL /\ rows[i][1] = q /\ rows[i][2] = k
          BY <3>4, PagesListed DEF NULL, None
        <4> QED BY <4>1
      <3>5. CASE IsEmpty(q) \/ Number(q, k) = Destroyed
        BY <3>1, <3>5, <1>8
      <3>6. CASE Number(q, k) \in RowNumbers /\ Number(q, k) # i /\ rows[Number(q, k)] = <<q, k>>
        <4>1. rows'[Number(q, k)] = rows[Number(q, k)]
          BY <3>6, <1>4
        <4> QED BY <3>1, <3>6, <4>1
      <3>7. CASE \E u \in Threads : collecting[u].page = q /\ k < collecting[u].at
        BY <3>3, <3>7
      <3> QED BY <3>1, <3>2, <3>4, <3>5, <3>6, <3>7
    <2> QED BY <2>1, <2>2, <2>3, <1>1, <1>2, <1>8 DEF n
  <1>13. \A u \in Threads : collecting'[u].page # None => collecting'[u].at >= 1
    <2> SUFFICES ASSUME NEW u \in Threads, collecting[u].page # None PROVE collecting'[u].at >= 1
      OBVIOUS
    <2>1. collecting[u].at \in Nat /\ collecting'[u].at \in Nat /\ collecting[u].at >= 1
      BY DEF HeapTypes, Pointers
    <2> QED BY <2>1
  <1> QED BY <1>6, <1>7, <1>10, <1>11, <1>12, <1>13 DEF Pointers

(* A row that is in use is copied into the active page.                       *)
LEMMA MoveSafe ==
  ASSUME HeapTypes, PagesApart, Pointers, NEW t \in Threads, MoveRow(t),
         purged \in Matrices, UNCHANGED purged,
         \A u \in Threads : Pending(u) = None /\ Pending(u)' = None
  PROVE  HeapTypes' /\ PagesApart' /\ Pointers'
  <1> DEFINE p == collecting[t].page  at == collecting[t].at  chunk == Head(Left(t))
  <1>1. /\ p # None /\ Left(t) # <<>> /\ chunk.row # Destroyed
        /\ \/ heap_release_page(t, chunk.size)
           \/ heap_get_free_page(t)
           \/ /\ CanAlloc(t, chunk.size)
              /\ pages' = WithRow(t, chunk.row, chunk.size, chunk.cells)
              /\ rows' = [rows EXCEPT ![chunk.row] = Allocated(t)]
              /\ collecting' = [collecting EXCEPT ![t].at = @ + 1]
              /\ UNCHANGED <<full_pages, empty_pages, active_page, heap_waste, current_generation>>
    BY DEF MoveRow
  <1>2. /\ p \in 1 .. Len(pages) /\ at \in Nat /\ at >= 1 /\ at \in 1 .. PageLen(p)
        /\ chunk \in Chunk /\ chunk.row = Number(p, at)
    BY <1>1, LeftRows
  <1> HIDE DEF p, at, chunk
  <1>3. CASE heap_release_page(t, chunk.size)
    <2>1. UNCHANGED <<pages, empty_pages, rows, collecting>>
      BY <1>3 DEF heap_release_page
    <2> QED BY <1>3, <2>1, ReleaseApart, PointersStay
  <1>4. CASE heap_get_free_page(t)
    BY <1>4, FreePageApart, PointersFreePage
  <1>5. CASE /\ CanAlloc(t, chunk.size)
             /\ pages' = WithRow(t, chunk.row, chunk.size, chunk.cells)
             /\ rows' = [rows EXCEPT ![chunk.row] = Allocated(t)]
             /\ collecting' = [collecting EXCEPT ![t].at = @ + 1]
             /\ UNCHANGED <<full_pages, empty_pages, active_page, heap_waste, current_generation>>
    <2> DEFINE i == chunk.row  C == [page : {None} \union 1 .. Len(pages), at : Nat, garbage : Int]
    <2>1. i \in RowNumbers /\ chunk.size \in Nat /\ chunk.cells \in SUBSET Columns
      BY <1>1, <1>2 DEF Chunk
    <2>2. active_page[t] # None
      BY <1>5 DEF CanAlloc
    <2>3. /\ collecting' \in [Threads -> C]
          /\ \A u \in Threads : /\ collecting'[u].page = collecting[u].page
                                /\ collecting'[u].at = IF u = t THEN at + 1 ELSE collecting[u].at
      <3>1. collecting \in [Threads -> C] /\ collecting[t] \in C
        BY DEF HeapTypes
      <3> DEFINE c == [collecting[t] EXCEPT !.at = @ + 1]
      <3>2. c \in C /\ c.page = collecting[t].page /\ c.at = at + 1
        BY <3>1 DEF at
      <3>3. collecting' = [collecting EXCEPT ![t] = c]
        BY <1>5
      <3> HIDE DEF c, C
      <3> QED BY <3>1, <3>2, <3>3
    <2>4. rows[i] = <<p, at>>
      <3>1. ~IsEmpty(p)
        BY <1>2 DEF PagesApart, OnePlace, IsCollected, p
      <3>2. \A u \in Threads : collecting[u].page = p => u = t
        BY <1>1 DEF PagesApart, p
      <3>3. ~\E u \in Threads : collecting[u].page = p /\ at < collecting[u].at
        BY <3>2, <1>2 DEF at
      <3> QED BY <1>1, <1>2, <3>1, <3>3 DEF Pointers, RowsAccounted
    <2>5. ASSUME NEW j \in RowNumbers, NEW u \in Threads, rows[j] # NULL, j # i,
                 collecting[u].page = rows[j][1]
          PROVE  rows[j][2] >= collecting'[u].at
      <3>1. /\ rows[j][1] \in 1 .. Len(pages) /\ rows[j][2] \in 1 .. PageLen(rows[j][1])
            /\ Number(rows[j][1], rows[j][2]) = j /\ rows[j][2] >= collecting[u].at
        BY <2>5 DEF Pointers, RowsReached
      <3>2. ~(rows[j][1] = p /\ rows[j][2] = at)
        BY <1>2, <2>5, <3>1
      <3>3. rows[j][2] \in Nat
        BY <3>1, PageRows
      <3>4. CASE u = t
        <4>1. collecting'[u].at = at + 1 /\ rows[j][1] = p /\ collecting[u].at = at
          BY <3>4, <2>3, <2>5 DEF p, at
        <4> QED BY <4>1, <1>2, <3>1, <3>2, <3>3
      <3>5. CASE u # t
        BY <3>5, <2>3, <3>1
      <3> QED BY <3>4, <3>5
    <2>6. \A u \in Threads : collecting'[u].page = collecting[u].page
                             /\ collecting'[u].at >= collecting[u].at
      <3>1. \A u \in Threads : collecting[u].at \in Nat
        BY DEF HeapTypes
      <3> QED BY <2>3, <3>1 DEF at
    <2>7. collecting[t].page = rows[i][1] /\ rows[i][2] < collecting'[t].at
      BY <1>2, <2>3, <2>4 DEF p
    <2>8. /\ pages' = WithRow(t, i, chunk.size, chunk.cells)
          /\ rows' = [rows EXCEPT ![i] = Allocated(t)]
          /\ UNCHANGED <<full_pages, empty_pages, active_page, heap_waste, current_generation>>
      BY <1>5
    <2> DEFINE size == chunk.size  cells == chunk.cells
    <2>9. size \in Nat /\ cells \in SUBSET Columns /\ pages' = WithRow(t, i, size, cells)
      BY <2>1, <2>8
    <2> HIDE DEF i, size, cells
    <2> QED BY <2>1, <2>2, <2>3, <2>5, <2>6, <2>7, <2>8, <2>9, WriteSafe
  <1> QED BY <1>1, <1>3, <1>4, <1>5

(* Room is made for a row that the thread then has to finish.                 *)
LEMMA RoomSafe ==
  ASSUME HeapTypes, PagesApart, Pointers, purged \in Matrices, UNCHANGED purged,
         NEW t \in Threads, active_page[t] # None,
         NEW i \in RowNumbers, NEW size \in Nat, rows[i] # NULL,
         pages' = WithRow(t, i, size, {}),
         UNCHANGED <<full_pages, empty_pages, active_page, heap_waste, current_generation, rows,
                     collecting>>,
         Pending(t) = None, Pending(t)' = i,
         \A u \in Threads : u # t => Pending(u)' = Pending(u)
  PROVE  HeapTypes' /\ PagesApart' /\ Pointers'
  <1> DEFINE a == active_page[t]  n == PageLen(a) + 1
  <1>1. /\ pages' \in Seq(Page) /\ Len(pages') = Len(pages) /\ a \in 1 .. Len(pages)
        /\ \A p \in 1 .. Len(pages) :
             /\ PageLen(p)' = IF p = a THEN PageLen(p) + 1 ELSE PageLen(p)
             /\ \A k \in 1 .. PageLen(p) : Number(p, k)' = Number(p, k)
        /\ pages'[a].data[n].row = i
    <2> DEFINE cells == {}
    <2>c. cells \in SUBSET Columns /\ pages' = WithRow(t, i, size, cells)
      OBVIOUS
    <2> HIDE DEF cells
    <2>1. pages' \in Seq(Page) /\ Len(pages') = Len(pages) /\ a \in 1 .. Len(pages)
      BY <2>c, RowWritten
    <2>2. \A p \in 1 .. Len(pages) :
             /\ PageLen(p)' = IF p = a THEN PageLen(p) + 1 ELSE PageLen(p)
             /\ \A k \in 1 .. PageLen(p) : Number(p, k)' = Number(p, k)
      BY <2>c, RowWritten
    <2>3. \A k : k = PageLen(a) + 1 => pages'[a].data[k].row = i
      BY <2>c, RowWritten
    <2> QED BY <2>1, <2>2, <2>3
  <1>2. PageLen(a) \in Nat /\ n \in Nat /\ n >= 1 /\ n > PageLen(a)
    BY <1>1, PageRows
  <1>3. HeapTypes'
    BY <1>1, SameMatrix DEF HeapTypes
  <1>4. PagesApart'
    BY <1>1, StayApart
  <1> HIDE DEF a, n
  <1>5. RowNumbers' = RowNumbers /\ Len(pages') = Len(pages) /\ \A q : IsEmpty(q)' <=> IsEmpty(q)
    BY <1>1 DEF RowNumbers, IsEmpty
  <1>6. ASSUME NEW q \in 1 .. Len(pages), NEW k \in 1 .. PageLen(q)
        PROVE  k \in 1 .. PageLen(q)' /\ k \in Nat /\ Number(q, k)' = Number(q, k)
                 /\ (q = a => k # n)
    <2>1. PageLen(q) \in Nat
      BY PageRows
    <2>2. PageLen(q)' = PageLen(q) + 1 \/ PageLen(q)' = PageLen(q)
      BY <1>1
    <2> QED BY <1>1, <1>2, <2>1, <2>2 DEF n
  <1>7. RowsReached'
    <2> SUFFICES ASSUME NEW j \in RowNumbers, NEW q, NEW k,
                        rows'[j] # NULL, q = rows'[j][1], k = rows'[j][2]
                 PROVE  /\ q \in 1 .. Len(pages') /\ k \in 1 .. PageLen(q)' /\ Number(q, k)' = j
                        /\ ~IsEmpty(q)'
                        /\ \A u \in Threads : collecting'[u].page = q => k >= collecting'[u].at
      BY ReachedNext, Zenon
    <2>1. /\ q \in 1 .. Len(pages) /\ k \in 1 .. PageLen(q) /\ Number(q, k) = j /\ ~IsEmpty(q)
          /\ \A u \in Threads : collecting[u].page = q => k >= collecting[u].at
      BY DEF Pointers, RowsReached
    <2> QED BY <1>5, <1>6, <2>1
  <1>8. PendingLast'
    <2> SUFFICES ASSUME NEW u \in Threads, Pending(u)' # None, NEW p, p = active_page[u],
                        NEW j, j = Pending(u)'
                 PROVE  /\ j \in RowNumbers /\ p # None /\ PageLen(p)' >= 1
                        /\ \A k : k = PageLen(p)' => Number(p, k)' = j /\ rows[j] # <<p, k>>
      BY <1>5 DEF PendingLast, PageLen, Number
    <2>1. CASE u = t
      <3>1. p = a /\ j = i /\ PageLen(p)' = n
        BY <2>1, <1>1 DEF a, n
      <3>2. \A k : k = n => Number(p, k)' = i
        BY <1>1, <3>1 DEF Number
      <3>3. rows[i] # <<a, n>>
        <4>1. /\ rows[i][1] \in 1 .. Len(pages) /\ rows[i][2] \in 1 .. PageLen(rows[i][1])
          BY DEF Pointers, RowsReached
        <4> QED BY <4>1, <1>6
      <3> QED BY <3>1, <3>2, <3>3, <1>2 DEF a
    <2>2. CASE u # t
      <3>1. /\ j \in RowNumbers /\ p # None /\ PageLen(p) >= 1
            /\ Number(p, PageLen(p)) = j /\ rows[j] # <<p, PageLen(p)>>
        BY <2>2 DEF Pointers, PendingLast
      <3>2. p # a /\ p \in 1 .. Len(pages)
        <4>1. active_page[u] # active_page[t]
          BY <2>2, <3>1 DEF PagesApart
        <4>2. active_page[u] \in {None} \union 1 .. Len(pages)
          BY PagesListed
        <4> QED BY <3>1, <4>1, <4>2 DEF a
      <3>3. PageLen(p)' = PageLen(p) /\ PageLen(p) \in Nat
        BY <1>1, <3>2, PageRows
      <3>4. \A k : k = PageLen(p)' => Number(p, k)' = j
        <4>1. ASSUME NEW k, k = PageLen(p) PROVE Number(p, k)' = Number(p, k)
          BY <1>1, <3>1, <3>2, <3>3, <4>1
        <4> QED BY <4>1, <3>1, <3>3
      <3> QED BY <3>1, <3>3, <3>4
    <2> QED BY <2>1, <2>2
  <1>9. RowsAccounted'
    <2> SUFFICES ASSUME NEW q \in 1 .. Len(pages'), NEW k \in 1 .. PageLen(q)'
                 PROVE  \/ IsEmpty(q)' \/ Number(q, k)' = Destroyed \/ rows'[Number(q, k)'] = <<q, k>>
                        \/ \E u \in Threads : collecting'[u].page = q /\ k < collecting'[u].at
                        \/ \E u \in Threads : Pending(u)' # None /\ active_page'[u] = q /\ k = PageLen(q)'
      BY AccountedNext, Zenon
    <2>1. q \in 1 .. Len(pages)
      BY <1>5
    <2>2. CASE q = a /\ k = n
      <3>1. Pending(t)' # None /\ active_page'[t] = q
        BY <2>2, MatrixRows DEF a
      <3>2. PageLen(q)' = k
        BY <2>2, <1>1 DEF n
      <3> QED BY <3>1, <3>2
    <2>3. CASE k \in 1 .. PageLen(q)
      <3>1. \/ IsEmpty(q) \/ Number(q, k) = Destroyed \/ rows[Number(q, k)] = <<q, k>>
            \/ \E u \in Threads : collecting[u].page = q /\ k < collecting[u].at
            \/ \E u \in Threads : Pending(u) # None /\ active_page[u] = q /\ k = PageLen(q)
        BY <2>1, <2>3 DEF Pointers, RowsAccounted
      <3>2. ASSUME NEW u \in Threads, Pending(u) # None, active_page[u] = q, k = PageLen(q)
            PROVE  Pending(u)' # None /\ active_page'[u] = q /\ k = PageLen(q)'
        <4>1. u # t /\ active_page[u] # None
          BY <3>2 DEF Pointers, PendingLast
        <4>2. q # a
          BY <3>2, <4>1 DEF PagesApart, a
        <4> QED BY <3>2, <4>1, <4>2, <2>1, <1>1
      <3>3. Number(q, k)' = Number(q, k)
        BY <1>6, <2>1, <2>3
      <3> QED BY <3>1, <3>2, <3>3, <1>5
    <2> QED BY <2>1, <2>2, <2>3, <1>1, <1>2, <1>5 DEF n
  <1>10. \A u \in Threads : collecting'[u].page # None => collecting'[u].at >= 1
    BY DEF Pointers
  <1> QED BY <1>3, <1>4, <1>7, <1>8, <1>9, <1>10 DEF Pointers

(* The old row i is marked as garbage; its place is taken by the row that t   *)
(* has finished, or by none.                                                  *)
LEMMA MarkSafe ==
  ASSUME HeapTypes, PagesApart, Pointers, purged \in Matrices, UNCHANGED purged,
         NEW t \in Threads, NEW i \in RowNumbers, rows[i] # NULL,
         NEW p, p = rows[i][1], NEW m, m = rows[i][2],
         Marked(pages', pages, p, m),
         NEW new, rows' = [rows EXCEPT ![i] = new],
         \/ new = NULL /\ Pending(t) = None
         \/ new = <<active_page[t], PageLen(active_page[t])>> /\ Pending(t) = i,
         heap_waste' \in [Threads -> Int],
         UNCHANGED <<full_pages, empty_pages, active_page, current_generation, collecting>>,
         Pending(t)' = None, \A u \in Threads : u # t => Pending(u)' = Pending(u)
  PROVE  HeapTypes' /\ PagesApart' /\ Pointers'
  <1>a. /\ pages' \in Seq(Page) /\ Len(pages') = Len(pages)
        /\ \A q \in 1 .. Len(pages) :
             /\ PageLen(q)' = PageLen(q)
             /\ \A k \in 1 .. PageLen(q) :
                  Number(q, k)' = IF q = p /\ k = m THEN Destroyed ELSE Number(q, k)
    BY DEF Marked, PageLen, Number
  <1> USE <1>a
  <1>1. /\ p \in 1 .. Len(pages) /\ m \in 1 .. PageLen(p) /\ Number(p, m) = i
    BY DEF Pointers, RowsReached
  <1>2. rows[i] = <<p, m>>
    <2>1. rows[i] \in Nat \X Nat
      BY DEF HeapTypes
    <2> QED BY <2>1
  <1>3. ASSUME NEW u \in Threads, Pending(u) # None, NEW a, a = active_page[u],
               NEW n, n = PageLen(active_page[u])
        PROVE  /\ a \in 1 .. Len(pages) /\ n \in Nat /\ n \in 1 .. PageLen(a) /\ n = PageLen(a)
               /\ Pending(u) \in RowNumbers
               /\ Number(a, n) = Pending(u) /\ rows[Pending(u)] # <<a, n>> /\ ~(a = p /\ n = m)
    <2>1. /\ Pending(u) \in RowNumbers /\ a # None /\ n >= 1
          /\ Number(a, n) = Pending(u) /\ rows[Pending(u)] # <<a, n>>
      BY <1>3 DEF Pointers, PendingLast
    <2>2. a \in 1 .. Len(pages)
      BY <1>3, <2>1, PagesListed
    <2>3. n \in Nat /\ n \in 1 .. PageLen(a)
      BY <1>3, <2>1, <2>2, PageRows
    <2>4. ~(a = p /\ n = m)
      BY <2>1, <1>1, <1>2
    <2> QED BY <1>3, <2>1, <2>2, <2>3, <2>4
  <1>4. new = NULL \/ (new = <<active_page[t], PageLen(active_page[t])>> /\ new \in Nat \X Nat
                         /\ Pending(t) = i /\ Pending(t) # None)
    <2>1. CASE new # NULL
      <3>1. Pending(t) = i /\ Pending(t) # None /\ new = <<active_page[t], PageLen(active_page[t])>>
        BY <2>1, MatrixRows
      <3>2. active_page[t] \in Nat /\ PageLen(active_page[t]) \in Nat
        <4>1. active_page[t] \in 1 .. Len(pages) /\ PageLen(active_page[t]) \in Nat
          BY <3>1, <1>3
        <4> QED BY <4>1, PagesListed
      <3> QED BY <3>1, <3>2
    <2> QED BY <2>1
  <1>5. rows' \in [RowNumbers -> Nat \X Nat]
        /\ \A j \in RowNumbers : rows'[j] = IF j = i THEN new ELSE rows[j]
    <2>1. new \in Nat \X Nat
      BY <1>4 DEF NULL
    <2> QED BY <2>1 DEF HeapTypes
  <1>6. HeapTypes'
    BY <1>5, SameMatrix DEF HeapTypes
  <1>7. PagesApart'
    BY StayApart
  <1>8. \A q : IsEmpty(q)' <=> IsEmpty(q)
    BY DEF IsEmpty
  <1>9. RowsReached'
    <2> SUFFICES ASSUME NEW j \in RowNumbers, NEW q, NEW k,
                        rows'[j] # NULL, q = rows'[j][1], k = rows'[j][2]
                 PROVE  /\ q \in 1 .. Len(pages') /\ k \in 1 .. PageLen(q)' /\ Number(q, k)' = j
                        /\ ~IsEmpty(q)'
                        /\ \A u \in Threads : collecting'[u].page = q => k >= collecting'[u].at
      BY ReachedNext, Zenon
    <2>1. CASE j = i
      <3>1. /\ Pending(t) = i /\ Pending(t) # None
            /\ q = active_page[t] /\ k = PageLen(active_page[t])
        BY <2>1, <1>4, <1>5
      <3>2. /\ q \in 1 .. Len(pages) /\ k \in 1 .. PageLen(q) /\ Number(q, k) = i
            /\ ~(q = p /\ k = m)
        BY <3>1, <1>3
      <3>3. ~IsEmpty(q) /\ ~IsCollected(q)
        BY <3>1, <3>2 DEF PagesApart, OnePlace, IsActive
      <3> QED BY <2>1, <1>8, <3>2, <3>3 DEF IsCollected
    <2>2. CASE j # i
      <3>1. rows'[j] = rows[j] /\ rows[j] # NULL
        BY <2>2, <1>5
      <3>2. /\ q \in 1 .. Len(pages) /\ k \in 1 .. PageLen(q) /\ Number(q, k) = j /\ ~IsEmpty(q)
            /\ \A u \in Threads : collecting[u].page = q => k >= collecting[u].at
        BY <3>1 DEF Pointers, RowsReached
      <3>3. ~(q = p /\ k = m)
        BY <2>2, <3>2, <1>1
      <3> QED BY <1>8, <3>2, <3>3
    <2> QED BY <2>1, <2>2
  <1>10. PendingLast'
    <2> SUFFICES ASSUME NEW u \in Threads, NEW a, NEW j,
                        Pending(u)' # None, a = active_page'[u], j = Pending(u)'
                 PROVE  /\ j \in RowNumbers /\ a # None /\ PageLen(a)' >= 1
                        /\ \A k : k = PageLen(a)' => Number(a, k)' = j /\ rows'[j] # <<a, k>>
      BY PendingNext, Zenon
    <2>1. u # t /\ j = Pending(u) /\ Pending(u) # None /\ a = active_page[u]
      OBVIOUS
    <2>2. \A n : n = PageLen(active_page[u]) =>
            /\ a \in 1 .. Len(pages) /\ n \in Nat /\ n \in 1 .. PageLen(a) /\ n = PageLen(a)
            /\ Pending(u) \in RowNumbers
            /\ Number(a, n) = Pending(u) /\ rows[Pending(u)] # <<a, n>> /\ ~(a = p /\ n = m)
      BY <2>1, <1>3
    <2>3. a # None
      BY <2>2, PagesListed
    <2>4. new # <<a, PageLen(a)>>
      <3>1. CASE new = NULL
        BY <3>1, <2>3 DEF NULL, None
      <3>2. CASE new # NULL
        <4>1. active_page[u] # active_page[t]
          BY <2>1, <2>3 DEF PagesApart
        <4> QED BY <3>2, <4>1, <1>4
      <3> QED BY <3>1, <3>2
    <2>5. rows'[j] # <<a, PageLen(a)>>
      BY <2>1, <2>2, <2>4, <1>5
    <2> QED BY <2>1, <2>2, <2>3, <2>5
  <1>11. RowsAccounted'
    <2> SUFFICES ASSUME NEW q \in 1 .. Len(pages'), NEW k \in 1 .. PageLen(q)'
                 PROVE  \/ IsEmpty(q)' \/ Number(q, k)' = Destroyed \/ rows'[Number(q, k)'] = <<q, k>>
                        \/ \E u \in Threads : collecting'[u].page = q /\ k < collecting'[u].at
                        \/ \E u \in Threads : Pending(u)' # None /\ active_page'[u] = q /\ k = PageLen(q)'
      BY AccountedNext, Zenon
    <2>1. q \in 1 .. Len(pages) /\ k \in 1 .. PageLen(q) /\ PageLen(q)' = PageLen(q)
      OBVIOUS
    <2>2. CASE q = p /\ k = m
      BY <2>1, <2>2
    <2>3. CASE ~(q = p /\ k = m)
      <3>1. Number(q, k)' = Number(q, k) /\ Number(q, k) \in RowNumbers \union {Destroyed}
        BY <2>1, <2>3, PageRows
      <3>2. \/ IsEmpty(q) \/ Number(q, k) = Destroyed \/ rows[Number(q, k)] = <<q, k>>
            \/ \E u \in Threads : collecting[u].page = q /\ k < collecting[u].at
            \/ \E u \in Threads : Pending(u) # None /\ active_page[u] = q /\ k = PageLen(q)
        BY <2>1 DEF Pointers, RowsAccounted
      <3>3. CASE Number(q, k) # Destroyed /\ rows[Number(q, k)] = <<q, k>>
        <4>1. Number(q, k) # i
          BY <3>3, <2>3, <1>2
        <4> QED BY <3>1, <3>3, <4>1, <1>5
      <3>4. ASSUME NEW u \in Threads, Pending(u) # None, active_page[u] = q, k = PageLen(q)
            PROVE  (Pending(u)' # None /\ active_page'[u] = q /\ k = PageLen(q)')
                     \/ rows'[Number(q, k)'] = <<q, k>>
        <4>1. CASE u = t
          <5>1. Number(q, k) = Pending(t)
            BY <3>4, <4>1, <1>3
          <5>2. new = <<q, k>> /\ Pending(t) = i
            BY <3>4, <4>1, <1>4
          <5> QED BY <5>1, <5>2, <3>1, <1>5
        <4>2. CASE u # t
          BY <3>4, <4>2, <2>1
        <4> QED BY <4>1, <4>2
      <3> QED BY <3>1, <3>2, <3>3, <3>4, <1>8
    <2> QED BY <2>2, <2>3
  <1>12. \A u \in Threads : collecting'[u].page # None => collecting'[u].at >= 1
    BY DEF Pointers
  <1> QED BY <1>6, <1>7, <1>9, <1>10, <1>11, <1>12 DEF Pointers

(* heap_resize_last_row() keeps the number of the row.                        *)
LEMMA RowResized ==
  ASSUME HeapTypes, NEW a \in 1 .. Len(pages), NEW last \in 1 .. PageLen(a),
         NEW chunk \in Chunk, chunk.row = Number(a, last), NEW delta \in Int,
         NEW held, held = [pages EXCEPT ![a].ptr = @ - delta, ![a].data[last] = chunk]
  PROVE  Alike(held, pages)
  <1> DEFINE data == [pages[a].data EXCEPT ![last] = chunk]
             ptr == pages[a].ptr - delta
             page == [pages[a] EXCEPT !.ptr = ptr, !.data = data]
  <1>1. pages[a] \in Page /\ pages[a].data \in Seq(Chunk) /\ pages[a].ptr \in Int
        /\ last \in 1 .. Len(pages[a].data)
    <2>1. pages[a] \in Page /\ pages[a].data \in Seq(Chunk)
      BY PageRows
    <2> QED BY <2>1 DEF PageLen, Page
  <1>2. ptr \in Int
    BY <1>1
  <1>3. data \in Seq(Chunk) /\ Len(data) = Len(pages[a].data)
        /\ \A k \in 1 .. Len(pages[a].data) :
             data[k] = IF k = last THEN chunk ELSE pages[a].data[k]
    <2>1. pages[a].data \in Seq(Chunk) /\ last \in 1 .. Len(pages[a].data) /\ chunk \in Chunk
      BY <1>1
    <2> QED BY <2>1
  <1>4. held = [pages EXCEPT ![a] = page]
    OBVIOUS
  <1> HIDE DEF data, ptr
  <1>5. page \in Page /\ page.data = data
    BY <1>1, <1>2, <1>3 DEF Page
  <1> HIDE DEF page
  <1>6. pages \in Seq(Page)
    BY DEF HeapTypes
  <1>7. /\ held \in Seq(Page) /\ Len(held) = Len(pages)
        /\ \A q \in 1 .. Len(pages) : held[q] = IF q = a THEN page ELSE pages[q]
    <2>1. held \in Seq(Page) /\ Len(held) = Len(pages)
      BY <1>4, <1>5, <1>6
    <2>2. \A q \in 1 .. Len(pages) : held[q] = IF q = a THEN page ELSE pages[q]
      BY <1>4, <1>6
    <2> QED BY <2>1, <2>2
  <1>8. ASSUME NEW q \in 1 .. Len(pages)
        PROVE  /\ Len(held[q].data) = PageLen(q)
               /\ \A k \in 1 .. PageLen(q) : held[q].data[k].row = Number(q, k)
    BY <1>3, <1>5, <1>7 DEF PageLen, Number
  <1> QED BY <1>7, <1>8 DEF Alike, PageLen, Number

(* The size of a row is a number.                                             *)
LEMMA RowSpace ==
  ASSUME HeapTypes, Pointers, NEW i \in RowNumbers, rows[i] # NULL
  PROVE  Space(RowAt(rows[i])) \in Int /\ Row(i) \in SUBSET Columns
  <1>1. rows[i][1] \in 1 .. Len(pages) /\ rows[i][2] \in 1 .. PageLen(rows[i][1])
    BY DEF Pointers, RowsReached
  <1>2. RowAt(rows[i]) \in Chunk
    BY <1>1, PageRows DEF RowAt
  <1> QED BY <1>2 DEF Chunk, Space, Row

(* The end of add_row().                                                      *)
LEMMA ReplaceSafe ==
  ASSUME HeapTypes, PagesApart, Pointers, purged \in Matrices, UNCHANGED purged,
         NEW t \in Threads, NEW i \in RowNumbers, rows[i] # NULL, Pending(t) = i,
         NEW cells \in SUBSET Columns, ReplaceRow(t, i, cells),
         Pending(t)' = None, \A u \in Threads : u # t => Pending(u)' = Pending(u)
  PROVE  HeapTypes' /\ PagesApart' /\ Pointers'
  <1> DEFINE a == active_page[t]
             last == Len(pages[a].data)
             chunk == [pages[a].data[last] EXCEPT !.size = Cardinality(cells), !.cells = cells]
             delta == pages[a].data[last].size - Cardinality(cells)
             held == [pages EXCEPT ![a].ptr = @ - delta, ![a].data[last] = chunk]
             new == <<a, last>>
             space == Space(RowAt(rows[i]))
             p == rows[i][1]
             m == rows[i][2]
             marked == pages'
  <1>1. /\ pages' = DestroyedIn(held, rows[i])
        /\ heap_waste' = [heap_waste EXCEPT ![t] = @ + space]
        /\ rows' = [rows EXCEPT ![i] = new]
        /\ UNCHANGED <<full_pages, empty_pages, active_page, current_generation, collecting>>
    BY DEF ReplaceRow
  <1>2. a \in 1 .. Len(pages) /\ last \in 1 .. PageLen(a)
    <2>1. a # None /\ PageLen(a) >= 1
      BY MatrixRows DEF Pointers, PendingLast
    <2>2. a \in 1 .. Len(pages)
      BY <2>1, PagesListed
    <2>3. PageLen(a) \in Nat
      BY <2>2, PageRows
    <2> QED BY <2>1, <2>2, <2>3 DEF PageLen
  <1>3. /\ p \in 1 .. Len(pages) /\ m \in 1 .. PageLen(p) /\ rows[i] = <<p, m>>
    <2>1. rows[i] \in Nat \X Nat
      BY DEF HeapTypes
    <2> QED BY <2>1 DEF Pointers, RowsReached
  <1>4. heap_waste' \in [Threads -> Int]
    <2>1. space \in Int
      BY RowSpace
    <2> HIDE DEF space
    <2> QED BY <1>1, <2>1, SMTT(30) DEF HeapTypes
  <1>5. chunk \in Chunk /\ chunk.row = Number(a, last) /\ delta \in Int
    <2> DEFINE old == pages[a].data[last]  size == Cardinality(cells)
    <2>1. old \in Chunk
      BY <1>2, PageRows
    <2>2. size \in Nat
      BY MatrixRows
    <2>3. old.row = Number(a, last)
      BY DEF Number
    <2> HIDE DEF old, size
    <2>4. chunk = [old EXCEPT !.size = size, !.cells = cells] /\ delta = old.size - size
      BY DEF old, size
    <2> HIDE DEF a, last, chunk, delta
    <2>5. chunk \in Chunk /\ chunk.row = old.row
      <3>1. chunk = [row |-> old.row, size |-> size, cells |-> cells]
        BY <2>1, <2>4 DEF Chunk
      <3>2. old.row \in RowNumbers \union {Destroyed}
        BY <2>1 DEF Chunk
      <3> QED BY <2>2, <3>1, <3>2 DEF Chunk
    <2>6. delta \in Int
      <3>1. old.size \in Nat
        BY <2>1 DEF Chunk
      <3> QED BY <2>2, <2>4, <3>1
    <2> QED BY <2>3, <2>5, <2>6
  <1>6. a = active_page[t] /\ p = rows[i][1] /\ m = rows[i][2] /\ marked = pages'
        /\ new = <<active_page[t], PageLen(active_page[t])>>
        /\ held = [pages EXCEPT ![a].ptr = @ - delta, ![a].data[last] = chunk]
    BY DEF PageLen
  <1> HIDE DEF a, last, chunk, delta, held, new, p, m, marked, space
  <1>7. Alike(held, pages)
    BY <1>2, <1>5, <1>6, RowResized
  <1>8. Marked(marked, held, p, m)
    <2>1. /\ held \in Seq(Page) /\ p \in 1 .. Len(held) /\ m \in 1 .. Len(held[p].data)
          /\ marked = DestroyedIn(held, <<p, m>>)
      BY <1>1, <1>3, <1>6, <1>7 DEF Alike, PageLen
    <2> QED BY <2>1, RowMarked
  <1>9. Marked(pages', pages, p, m)
    <2>1. Marked(marked, pages, p, m)
      BY <1>7, <1>8 DEF Marked, Alike
    <2> QED BY <1>6, <2>1
  <1>10. /\ new = <<active_page[t], PageLen(active_page[t])>> /\ Pending(t) = i
         /\ p = rows[i][1] /\ m = rows[i][2]
    BY <1>6
  <1>11. /\ rows' = [rows EXCEPT ![i] = new]
         /\ UNCHANGED <<full_pages, empty_pages, active_page, current_generation, collecting>>
    BY <1>1
  <1> QED
    <2>1. HeapTypes'
      BY <1>4, <1>9, <1>10, <1>11, MarkSafe
    <2>2. PagesApart'
      BY <1>4, <1>9, <1>10, <1>11, MarkSafe
    <2>3. Pointers'
      BY <1>4, <1>9, <1>10, <1>11, MarkSafe
    <2> QED BY <2>1, <2>2, <2>3

(* The end of remove_row().                                                   *)
LEMMA DestroySafe ==
  ASSUME HeapTypes, PagesApart, Pointers, purged \in Matrices, UNCHANGED purged,
         NEW t \in Threads, NEW i \in RowNumbers, rows[i] # NULL, Pending(t) = None,
         DestroyRow(t, i), \A u \in Threads : Pending(u)' = Pending(u)
  PROVE  HeapTypes' /\ PagesApart' /\ Pointers'
  <1> DEFINE p == rows[i][1]  m == rows[i][2]  space == Space(RowAt(rows[i]))
             held == pages  marked == pages'  new == NULL
  <1>1. /\ marked = DestroyedIn(held, rows[i])
        /\ heap_waste' = [heap_waste EXCEPT ![t] = @ + space]
        /\ rows' = [rows EXCEPT ![i] = new]
        /\ UNCHANGED <<full_pages, empty_pages, active_page, current_generation, collecting>>
    BY DEF DestroyRow
  <1>2. /\ p \in 1 .. Len(pages) /\ m \in 1 .. PageLen(p) /\ rows[i] = <<p, m>>
    <2>1. rows[i] \in Nat \X Nat
      BY DEF HeapTypes
    <2> QED BY <2>1 DEF Pointers, RowsReached
  <1>3. heap_waste' \in [Threads -> Int]
    <2>1. space \in Int
      BY RowSpace
    <2> HIDE DEF space
    <2> QED BY <1>1, <2>1 DEF HeapTypes
  <1>4. /\ p = rows[i][1] /\ m = rows[i][2] /\ marked = pages' /\ held = pages /\ new = NULL
        /\ held \in Seq(Page)
    BY DEF HeapTypes
  <1> HIDE DEF p, m, space, held, marked, new
  <1>5. Marked(marked, held, p, m)
    <2>1. /\ held \in Seq(Page) /\ p \in 1 .. Len(held) /\ m \in 1 .. Len(held[p].data)
          /\ marked = DestroyedIn(held, <<p, m>>)
      BY <1>1, <1>2, <1>4 DEF PageLen
    <2> QED BY <2>1, RowMarked
  <1>6. Marked(pages', pages, p, m)
    BY <1>4, <1>5
  <1>7. /\ new = NULL /\ Pending(t) = None /\ Pending(t)' = None
        /\ \A u \in Threads : u # t => Pending(u)' = Pending(u)
    BY <1>4
  <1> QED
    <2>1. HeapTypes'
      BY <1>1, <1>3, <1>4, <1>6, <1>7, MarkSafe
    <2>2. PagesApart'
      BY <1>1, <1>3, <1>4, <1>6, <1>7, MarkSafe
    <2>3. Pointers'
      BY <1>1, <1>3, <1>4, <1>6, <1>7, MarkSafe
    <2> QED BY <2>1, <2>2, <2>3

-------------------------------------------------------------------------------
(* The threads.                                                               *)

ThreadFields == {"pc", "it", "last", "k", "tree", "ops", "todo", "seen", "sum"}
NumFields == {"rem_nrows", "rem_ncols", "ncols", "tot_weight", "cwmax", "cbound", "merge_pass",
              "nmerges", "fill_in", "last_nmerges"}

(* What the sequential part of the program keeps.                             *)
MainTypes ==
  /\ purged \in Matrices
  /\ phase \in {"read", "pass", "gc", "prepare", "apply", "recompress", "test", "done", "undefined"}
  /\ DOMAIN num = NumFields /\ num.cwmax \in 2 .. MERGE_LEVEL_MAX /\ num.nmerges \in Nat
  /\ phase # "read" => wt \in [Columns -> Nat]
  /\ \A j \in DOMAIN R : R[j] \subseteq RowNumbers /\ R[j] # {}
  /\ L \in Seq(DOMAIN R) /\ next \in 1 .. Len(L) + 1
  /\ \A j \in DOMAIN order : j \in DOMAIN R /\ order[j] \in [1 .. Cardinality(R[j]) -> R[j]]
  /\ phase # "apply" =>
       order = <<>> /\ next = 1 /\ num.nmerges = 0 /\ \A t \in Threads : th[t] = Resting
  /\ phase # "gc" => \A t \in Threads : collecting[t] = Idle

(* A tree over rows: its nodes are places in ind.                             *)
IsTree(tree) ==
  /\ DOMAIN tree = {"ind", "S", "T", "edges", "w"}
  /\ tree.ind \in Seq(RowNumbers) /\ Len(tree.ind) >= 1
  /\ tree.S \in Seq(1 .. Len(tree.ind)) /\ tree.T \in Seq(1 .. Len(tree.ind))
  /\ tree.edges \in Seq((1 .. Len(tree.ind)) \X (1 .. Len(tree.ind)))

(* Rows to add and, as the last thing to do, one to remove.                   *)
Addition == [from : RowNumbers, to : RowNumbers, destroy : BOOLEAN]
Removal == [from : {None}, to : RowNumbers]
IsWork(ops) ==
  /\ ops \in Seq(Addition \union Removal) /\ Len(ops) >= 1
  /\ \A m \in 1 .. Len(ops) : ops[m].from = None <=> m = Len(ops)

ThreadType(t) ==
  /\ DOMAIN th[t] = ThreadFields
  /\ th[t].pc \in {"loop", "reserve", "tree", "merge", "weights"}
  /\ th[t].it \in Nat /\ th[t].it >= 1 /\ th[t].last \in 0 .. Len(L)
  /\ th[t].k \in Nat /\ th[t].k >= 1 /\ (th[t].pc # "reserve" => th[t].k = 1)
  /\ th[t].sum \in SUBSET Columns
  /\ th[t].pc = "reserve" => th[t].it <= th[t].last /\ Column(t) \in DOMAIN order
  /\ th[t].pc = "tree" => IsTree(th[t].tree)
  /\ th[t].pc \in {"merge", "weights"} => IsWork(th[t].ops)

ThreadTypes == DOMAIN th = Threads /\ \A t \in Threads : ThreadType(t)

(* The rows a thread may work on.                                             *)
Owns(t, i) ==
  \/ /\ th[t].pc = "reserve"
     /\ \E m \in 1 .. Cardinality(R[Column(t)]) : m < th[t].k /\ order[Column(t)][m] = i
  \/ th[t].pc = "tree" /\ \E m \in 1 .. Len(th[t].tree.ind) : th[t].tree.ind[m] = i
  \/ /\ th[t].pc \in {"merge", "weights"}
     /\ \E m \in 1 .. Len(th[t].ops) : th[t].ops[m].to = i \/ th[t].ops[m].from = i

(* No merge will be taken any more.                                           *)
Winding ==
  next > Len(L) /\ \A t \in Threads : th[t].pc # "reserve" /\ th[t].it > th[t].last

(* A row belongs to one thread at most, and is not removed by another; a row  *)
(* that was removed stays reserved as long as merges are taken.               *)
Ownership ==
  /\ \A t \in Threads, i \in RowNumbers : Owns(t, i) => rows[i] # NULL
  /\ \A t, u \in Threads, i \in RowNumbers : Owns(t, i) /\ Owns(u, i) => t = u
  /\ \/ Winding
     \/ /\ \A t \in Threads, i \in RowNumbers : Owns(t, i) => i \in busy_rows
        /\ \A j \in DOMAIN R, i \in RowNumbers : i \in R[j] => rows[i] # NULL \/ i \in busy_rows
  /\ num.nmerges = 0 =>
       /\ \A j \in DOMAIN R, i \in RowNumbers : i \in R[j] => rows[i] # NULL
       /\ \A t \in Threads : th[t].pc \notin {"merge", "weights"}

Inv == HeapTypes /\ PagesApart /\ Pointers /\ MainTypes /\ ThreadTypes /\ Ownership

(* Every thread has a page of its own at first.                               *)
LEMMA SetupPages ==
  ASSUME NEW n \in Nat, n = Cardinality(Threads), NEW order0 \in [1 .. n -> Threads],
         order0 = SetToSeq(Threads)
  PROVE  /\ \A t \in Threads : \E i \in 1 .. n : order0[i] = t
         /\ \A i, j \in 1 .. n : order0[i] = order0[j] => i = j
  <1>1. IsFiniteSet(Threads)
    BY HeapAssumption
  <1>2. ExistsBijection(1 .. n, Threads)
    BY <1>1, FS_CardinalityType
  <1>3. \E f \in [1 .. n -> Threads] : IsInjective(f)
    BY <1>2 DEF ExistsBijection, Bijection, Injection, IsInjective
  <1>4. IsInjective(order0)
    BY <1>3 DEF SetToSeq
  <1>5. order0 \in Injection(1 .. n, Threads)
    BY <1>4 DEF Injection
  <1>6. IsFiniteSet(1 .. n) /\ Cardinality(1 .. n) = n
    BY FS_Interval
  <1>7. order0 \in Surjection(1 .. n, Threads)
    BY <1>1, <1>5, <1>6, FS_Injection
  <1> QED BY <1>4, <1>7 DEF Surjection, IsInjective

LEMMA ThreadCount ==
  /\ Cardinality(Threads) \in Nat
  /\ SetToSeq(Threads) \in [1 .. Cardinality(Threads) -> Threads]
  <1>1. IsFiniteSet(Threads)
    BY HeapAssumption
  <1>2. Cardinality(Threads) \in Nat /\ ExistsBijection(1 .. Cardinality(Threads), Threads)
    BY <1>1, FS_CardinalityType
  <1>3. \E f \in [1 .. Cardinality(Threads) -> Threads] : IsInjective(f)
    BY <1>2 DEF ExistsBijection, Bijection, Injection, IsInjective
  <1> QED BY <1>2, <1>3 DEF SetToSeq

LEMMA InitSafe ==
  ASSUME Init
  PROVE  Inv
  <1> DEFINE n == Cardinality(Threads)  order0 == SetToSeq(Threads)  page == [generation |-> 0, ptr |-> 0, data |-> <<>>]
  <1>1. n \in Nat /\ order0 \in [1 .. n -> Threads] /\ order0 = SetToSeq(Threads) /\ n = Cardinality(Threads)
    BY ThreadCount
  <1>2. /\ pages = [i \in 1 .. n |-> page]
        /\ full_pages = <<>> /\ empty_pages = <<>>
        /\ active_page = [t \in Threads |-> CHOOSE i \in DOMAIN order0 : order0[i] = t]
        /\ heap_waste = [t \in Threads |-> 0] /\ current_generation = 0
        /\ rows = [i \in 1 .. Len(purged) |-> NULL]
        /\ collecting = [t \in Threads |-> Idle]
    BY DEF Init, heap_setup
  <1>3. page \in Page /\ page.data = <<>>
    BY DEF Page
  <1> HIDE DEF n, order0, page
  <1>4. /\ \A t \in Threads : \E i \in 1 .. n : order0[i] = t
        /\ \A i, j \in 1 .. n : order0[i] = order0[j] => i = j
    BY <1>1, SetupPages
  <1>5. \A t \in Threads : active_page[t] \in 1 .. n /\ order0[active_page[t]] = t
    BY <1>1, <1>2, <1>4
  <1>6. pages \in Seq(Page) /\ Len(pages) = n /\ \A p \in 1 .. n : pages[p].data = <<>>
    BY <1>1, <1>2, <1>3, SMTT(30)
  <1>7. purged \in Matrices /\ RowNumbers = 1 .. Len(purged)
    BY MatrixRows DEF Init
  <1>8. HeapTypes
    <2>1. active_page \in [Threads -> {None} \union 1 .. Len(pages)]
      BY <1>2, <1>5, <1>6
    <2>2. heap_waste \in [Threads -> Int] /\ current_generation \in Nat
      BY <1>2
    <2>3. rows \in [RowNumbers -> Nat \X Nat]
      BY <1>2, <1>7 DEF NULL
    <2>4. collecting \in [Threads -> [page : {None} \union 1 .. Len(pages), at : Nat, garbage : Int]]
      BY <1>2 DEF Idle
    <2>5. full_pages \in Seq(1 .. Len(pages)) /\ empty_pages \in Seq(1 .. Len(pages))
      BY <1>2
    <2> QED BY <1>6, <2>1, <2>2, <2>3, <2>4, <2>5 DEF HeapTypes
  <1>9. \A t \in Threads : collecting[t].page = None
    BY <1>2 DEF Idle
  <1>10. PagesApart
    <2>1. Len(full_pages) = 0 /\ Len(empty_pages) = 0
      BY <1>2
    <2>2. ASSUME NEW p \in 1 .. Len(pages) PROVE OnePlace(p)
      <3>1. ~IsFull(p) /\ ~IsEmpty(p)
        BY <2>1 DEF IsFull, IsEmpty
      <3>2. ~IsCollected(p)
        BY <1>9, <1>6, <1>1 DEF IsCollected, None
      <3>3. IsActive(p)
        <4>1. p \in 1 .. n
          BY <1>6
        <4>2. order0[p] \in Threads
          BY <4>1, <1>1
        <4>3. active_page[order0[p]] = p
          BY <4>1, <4>2, <1>4, <1>5
        <4> QED BY <4>2, <4>3 DEF IsActive
      <3> QED BY <3>1, <3>2, <3>3 DEF OnePlace
    <2>3. ASSUME NEW t \in Threads, NEW u \in Threads, active_page[t] = active_page[u] PROVE t = u
      BY <2>3, <1>5
    <2>4. \A i, j \in 1 .. Len(full_pages) : full_pages[i] = full_pages[j] => i = j
      BY <2>1
    <2>5. \A i, j \in 1 .. Len(empty_pages) : empty_pages[i] = empty_pages[j] => i = j
      BY <2>1
    <2> QED BY <1>9, <2>2, <2>3, <2>4, <2>5 DEF PagesApart
  <1>11. \A t \in Threads : th[t] = Resting /\ Pending(t) = None
    BY DEF Init, Pending, Resting
  <1>12. Pointers
    <2>1. RowsReached
      BY <1>2, <1>7 DEF RowsReached
    <2>2. PendingLast
      BY <1>11 DEF PendingLast
    <2>3. RowsAccounted
      BY <1>6 DEF RowsAccounted, PageLen
    <2> QED BY <1>9, <2>1, <2>2, <2>3 DEF Pointers
  <1>13. MainTypes
    <2>1. /\ purged \in Matrices /\ phase = "read" /\ DOMAIN num = NumFields
          /\ num.cwmax = 2 /\ num.nmerges = 0
          /\ R = <<>> /\ order = <<>> /\ L = <<>> /\ next = 1
      <3>1. /\ purged \in Matrices /\ phase = "read"
            /\ R = <<>> /\ order = <<>> /\ L = <<>> /\ next = 1
        BY DEF Init
      <3>2. num.cwmax = 2 /\ num.nmerges = 0
        BY DEF Init
      <3>3. DOMAIN num = NumFields
        BY DEF Init, NumFields
      <3> QED BY <3>1, <3>2, <3>3
    <2>2. 2 \in 2 .. MERGE_LEVEL_MAX
      BY MergeAssumption
    <2>3. DOMAIN R = {} /\ DOMAIN order = {} /\ Len(L) = 0 /\ L \in Seq(DOMAIN R)
      BY <2>1
    <2>4. \A t \in Threads : collecting[t] = Idle
      BY <1>2
    <2> QED BY <1>11, <2>1, <2>2, <2>3, <2>4 DEF MainTypes
  <1>14. ThreadTypes
    <2>1. DOMAIN th = Threads /\ Len(L) = 0
      BY DEF Init
    <2>2. ASSUME NEW t \in Threads PROVE ThreadType(t)
      BY <1>11, <2>1 DEF Resting, ThreadType, ThreadFields
    <2> QED BY <2>1, <2>2 DEF ThreadTypes
  <1>15. Ownership
    <2>1. R = <<>> /\ DOMAIN R = {}
      BY DEF Init
    <2>2. \A t \in Threads : th[t].pc = "loop"
      BY <1>11 DEF Resting
    <2>3. \A t \in Threads : \A i : ~Owns(t, i)
      BY <2>2 DEF Owns
    <2> QED BY <2>1, <2>2, <2>3 DEF Ownership
  <1> QED BY <1>8, <1>10, <1>12, <1>13, <1>14, <1>15 DEF Inv

-------------------------------------------------------------------------------
(* The steps of the sequential part.                                          *)

(* What a step of the heap alone leaves of the rest.                          *)
LEMMA ControlStays ==
  ASSUME MainTypes, ThreadTypes, Ownership, UNCHANGED mergeVars,
         phase # "gc" => UNCHANGED collecting,
         \A i \in RowNumbers : rows[i] # NULL => rows'[i] # NULL
  PROVE  MainTypes' /\ ThreadTypes' /\ Ownership'
  <1>1. UNCHANGED <<purged, phase, num, wt, R, order, L, next, busy_rows, th>>
    BY DEF mergeVars
  <1>2. RowNumbers' = RowNumbers /\ Columns' = Columns
    BY <1>1, SameMatrix
  <1>3. MainTypes'
    BY <1>1, <1>2 DEF MainTypes
  <1>4. ThreadTypes'
    <2>1. ASSUME NEW t \in Threads PROVE ThreadType(t)' <=> ThreadType(t)
      BY <1>1, <1>2 DEF ThreadType, Column, IsTree, IsWork, Addition, Removal
    <2> QED BY <1>1, <2>1 DEF ThreadTypes
  <1>5. Ownership'
    <2>1. \A t \in Threads : \A i : Owns(t, i)' <=> Owns(t, i)
      BY <1>1 DEF Owns, Column
    <2>2. Winding' <=> Winding
      BY <1>1 DEF Winding
    <2>3. \A t \in Threads, i \in RowNumbers : Owns(t, i)' => rows'[i] # NULL
      BY <2>1 DEF Ownership
    <2>4. \A t, u \in Threads, i \in RowNumbers : Owns(t, i)' /\ Owns(u, i)' => t = u
      BY <2>1 DEF Ownership
    <2>5. \/ Winding'
          \/ /\ \A t \in Threads, i \in RowNumbers : Owns(t, i)' => i \in busy_rows'
             /\ \A j \in DOMAIN R', i \in RowNumbers : i \in R'[j] => rows'[i] # NULL \/ i \in busy_rows'
      BY <1>1, <2>1, <2>2 DEF Ownership
    <2>6. num'.nmerges = 0 =>
            /\ \A j \in DOMAIN R', i \in RowNumbers : i \in R'[j] => rows'[i] # NULL
            /\ \A t \in Threads : th'[t].pc \notin {"merge", "weights"}
      BY <1>1 DEF Ownership
    <2> QED BY <1>2, <2>3, <2>4, <2>5, <2>6 DEF Ownership
  <1> QED BY <1>3, <1>4, <1>5

(* What a step that leaves the heap alone leaves of it.                       *)
LEMMA HeapStays ==
  ASSUME HeapTypes, PagesApart, Pointers, UNCHANGED purged,
         UNCHANGED <<pages, full_pages, empty_pages, active_page, heap_waste, rows>>,
         current_generation' \in Nat,
         \A t \in Threads : Pending(t)' = Pending(t),
         \/ UNCHANGED collecting
         \/ /\ collecting' = [t \in Threads |-> Idle]
            /\ \A t \in Threads : collecting[t].page = None
  PROVE  HeapTypes' /\ PagesApart' /\ Pointers'
  <1>1. /\ collecting' \in [Threads -> [page : {None} \union 1 .. Len(pages), at : Nat, garbage : Int]]
        /\ \A t \in Threads : collecting'[t].page = collecting[t].page
        /\ \A t \in Threads : \/ collecting'[t] = collecting[t]
                              \/ /\ collecting[t].page = None
                                 /\ collecting'[t].page = None \/ collecting'[t].at = 1
    <2>1. CASE UNCHANGED collecting
      BY <2>1 DEF HeapTypes
    <2>2. CASE /\ collecting' = [t \in Threads |-> Idle]
               /\ \A t \in Threads : collecting[t].page = None
      BY <2>2 DEF Idle
    <2> QED BY <2>1, <2>2
  <1>2. HeapTypes'
    BY <1>1, SameMatrix DEF HeapTypes
  <1>3. PagesApart'
    BY <1>1, StayApart
  <1>4. Pointers'
    BY <1>1, PointersStay
  <1> QED BY <1>2, <1>3, <1>4

LEMMA StutterSafe ==
  ASSUME Inv, UNCHANGED vars
  PROVE  Inv'
  <1>1. UNCHANGED mergeVars /\ UNCHANGED <<purged, th>>
        /\ UNCHANGED <<pages, full_pages, empty_pages, active_page, heap_waste, current_generation,
                       rows, collecting>>
    BY DEF vars, mergeVars, heapVars
  <1>2. \A t \in Threads : Pending(t)' = Pending(t)
    BY <1>1 DEF Pending, Op
  <1>3. current_generation' \in Nat
    BY <1>1 DEF Inv, HeapTypes
  <1>4. HeapTypes' /\ PagesApart' /\ Pointers'
    BY <1>1, <1>2, <1>3, HeapStays DEF Inv
  <1>5. MainTypes' /\ ThreadTypes' /\ Ownership'
    BY <1>1, ControlStays DEF Inv
  <1> QED BY <1>4, <1>5 DEF Inv

(* Nobody has a row that is not finished while nothing is merged.             *)
LEMMA NonePending ==
  ASSUME MainTypes, phase # "apply", NEW t \in Threads
  PROVE  th[t] = Resting /\ th[t].pc = "loop" /\ Pending(t) = None
  BY DEF MainTypes, Resting, Pending

(* Room for a row.                                                            *)
LEMMA RoomMadeSafe ==
  ASSUME HeapTypes, PagesApart, Pointers, NEW t \in Threads, NEW size,
         heap_release_page(t, size) \/ heap_get_free_page(t), UNCHANGED purged,
         Pending(t) = None, \A u \in Threads : Pending(u)' = Pending(u)
  PROVE  HeapTypes' /\ PagesApart' /\ Pointers' /\ UNCHANGED <<rows, collecting>>
  <1>1. CASE heap_release_page(t, size)
    <2>1. HeapTypes' /\ PagesApart'
      BY <1>1, ReleaseApart
    <2>2. /\ active_page' = [active_page EXCEPT ![t] = None]
          /\ UNCHANGED <<pages, empty_pages, rows, collecting>>
      BY <1>1 DEF heap_release_page
    <2>3. \A u \in Threads : Pending(u) # None => active_page'[u] = active_page[u]
      BY <2>2 DEF HeapTypes
    <2>4. Pointers'
      BY <2>2, <2>3, PointersStay
    <2> QED BY <2>1, <2>2, <2>4
  <1>2. CASE heap_get_free_page(t)
    <2>1. HeapTypes' /\ PagesApart'
      BY <1>2, FreePageApart
    <2>2. Pointers'
      BY <1>2, PointersFreePage
    <2> QED BY <1>2, <2>1, <2>2 DEF heap_get_free_page
  <1> QED BY <1>1, <1>2

LEMMA ReadSafe ==
  ASSUME Inv, NEW t \in Threads, insert_rel_into_table(t)
  PROVE  Inv'
  <1>1. phase = "read" /\ UNCHANGED mergeVars /\ UNCHANGED <<purged, th>> /\ UNCHANGED collecting
    BY DEF insert_rel_into_table, mergeVars, heap_release_page, heap_get_free_page
  <1>2. HeapTypes /\ PagesApart /\ Pointers /\ MainTypes /\ ThreadTypes /\ Ownership
        /\ purged \in Matrices
    BY DEF Inv, MainTypes
  <1>3. \A u \in Threads : Pending(u) = None /\ Pending(u)' = None
    <2>1. \A u \in Threads : Pending(u) = None
      BY <1>1, <1>2, NonePending
    <2> QED BY <1>1, <2>1 DEF Pending, Op
  <1>4. /\ HeapTypes' /\ PagesApart' /\ Pointers'
        /\ \A j \in RowNumbers : rows[j] # NULL => rows'[j] # NULL
    <2> DEFINE i == Min(Unread(t))  size == Cardinality(purged[i])  cells == purged[i]
    <2>1. CASE heap_release_page(t, size) \/ heap_get_free_page(t)
      <3> HIDE DEF size
      <3>1. HeapTypes' /\ PagesApart' /\ Pointers' /\ UNCHANGED rows
        BY <1>1, <1>2, <1>3, <2>1, RoomMadeSafe
      <3> QED BY <3>1
    <2>2. CASE /\ CanAlloc(t, size)
               /\ pages' = WithRow(t, i, size, cells)
               /\ rows' = [rows EXCEPT ![i] = Allocated(t)]
               /\ UNCHANGED <<full_pages, empty_pages, active_page, heap_waste,
                              current_generation, collecting>>
      <3>1. i \in RowNumbers /\ rows[i] = NULL
        <4>1. DOMAIN rows = RowNumbers /\ RowNumbers \subseteq Nat /\ RowNumbers = 1 .. Len(purged)
          BY <1>2, MatrixRows DEF HeapTypes
        <4>2. Unread(t) # {} /\ Unread(t) \subseteq Nat
          BY <4>1 DEF insert_rel_into_table, Unread
        <4>3. \E n \in Unread(t) : \A m \in Unread(t) : n <= m
          BY <4>2, LeastOf
        <4>4. i \in Unread(t)
          BY <4>3 DEF Min
        <4> QED BY <4>1, <4>4 DEF Unread, Live
      <3>2. cells \in SUBSET Columns /\ size \in Nat
        <4> HIDE DEF i
        <4> QED BY <1>2, <3>1, MatrixRows
      <3>3. active_page[t] # None
        BY <2>2 DEF CanAlloc
      <3> HIDE DEF i, size, cells
      <3>4. /\ pages' = WithRow(t, i, size, cells)
            /\ rows' = [rows EXCEPT ![i] = Allocated(t)]
            /\ UNCHANGED <<full_pages, empty_pages, active_page, heap_waste, current_generation>>
        BY <2>2
      <3>5. collecting' \in [Threads -> [page : {None} \union 1 .. Len(pages), at : Nat, garbage : Int]]
        BY <1>1, <1>2 DEF HeapTypes
      <3>6. \A u \in Threads : /\ collecting'[u].page = collecting[u].page
                               /\ collecting'[u].at >= collecting[u].at
        <4>1. \A u \in Threads : collecting[u].at \in Nat
          BY <1>2 DEF HeapTypes
        <4> QED BY <1>1, <4>1
      <3>7. \A j \in RowNumbers, u \in Threads :
              rows[j] # NULL /\ j # i /\ collecting[u].page = rows[j][1]
                => rows[j][2] >= collecting'[u].at
        BY <1>1, <1>2 DEF Pointers, RowsReached
      <3>8. UNCHANGED purged
        BY <1>1
      <3>9. HeapTypes' /\ PagesApart' /\ Pointers'
        <4>1. HeapTypes'
          BY <1>2, <1>3, <3>1, <3>2, <3>3, <3>4, <3>5, <3>6, <3>7, <3>8, WriteSafe
        <4>2. PagesApart'
          BY <1>2, <1>3, <3>1, <3>2, <3>3, <3>4, <3>5, <3>6, <3>7, <3>8, WriteSafe
        <4>3. Pointers'
          BY <1>2, <1>3, <3>1, <3>2, <3>3, <3>4, <3>5, <3>6, <3>7, <3>8, WriteSafe
        <4> QED BY <4>1, <4>2, <4>3
      <3>10. \A j \in RowNumbers : rows[j] # NULL => rows'[j] # NULL
        BY <1>2, <3>1, <3>4 DEF HeapTypes
      <3> QED BY <3>9, <3>10
    <2> QED BY <2>1, <2>2 DEF insert_rel_into_table
  <1>5. MainTypes' /\ ThreadTypes' /\ Ownership'
    BY <1>1, <1>2, <1>4, ControlStays
  <1> QED BY <1>4, <1>5 DEF Inv

LEMMA CollectSafe ==
  ASSUME Inv, NEW t \in Threads, CollectGarbage(t)
  PROVE  Inv'
  <1>1. phase = "gc" /\ Collect(t) /\ UNCHANGED mergeVars /\ UNCHANGED <<purged, th>>
    BY DEF CollectGarbage, mergeVars
  <1>2. HeapTypes /\ PagesApart /\ Pointers /\ MainTypes /\ ThreadTypes /\ Ownership
        /\ purged \in Matrices
    BY DEF Inv, MainTypes
  <1>3. \A u \in Threads : Pending(u) = None /\ Pending(u)' = None
    <2>1. \A u \in Threads : Pending(u) = None
      BY <1>1, <1>2, NonePending
    <2> QED BY <1>1, <2>1 DEF Pending, Op
  <1>4. /\ HeapTypes' /\ PagesApart' /\ Pointers'
        /\ \A j \in RowNumbers : rows[j] # NULL => rows'[j] # NULL
    <2>1. CASE heap_get_full_page(t)
      <3>1. HeapTypes' /\ PagesApart'
        BY <1>1, <1>2, <2>1, FullPageApart
      <3>2. /\ UNCHANGED <<pages, empty_pages, rows, active_page>> /\ collecting[t] = Idle
            /\ collecting' = [collecting EXCEPT ![t].page = Head(full_pages)]
        BY <2>1 DEF heap_get_full_page
      <3>3. \A u \in Threads : \/ collecting'[u] = collecting[u]
                               \/ /\ collecting[u].page = None
                                  /\ collecting'[u].page = None \/ collecting'[u].at = 1
        BY <1>2, <3>2 DEF HeapTypes, Idle
      <3>4. Pointers'
        BY <1>1, <1>2, <1>3, <3>2, <3>3, PointersStay
      <3> QED BY <3>1, <3>2, <3>4
    <2>2. CASE SkipGarbage(t)
      <3>1. HeapTypes' /\ PagesApart' /\ Pointers'
        BY <1>1, <1>2, <1>3, <2>2, SkipSafe
      <3> QED BY <2>2, <3>1 DEF SkipGarbage
    <2>3. CASE MoveRow(t)
      <3>1. HeapTypes' /\ PagesApart' /\ Pointers'
        BY <1>1, <1>2, <1>3, <2>3, MoveSafe
      <3>2. \/ UNCHANGED rows
            \/ /\ active_page[t] # None
               /\ rows' = [rows EXCEPT ![Head(Left(t)).row] = Allocated(t)]
        BY <2>3 DEF MoveRow, heap_release_page, heap_get_free_page, CanAlloc
      <3>3. ASSUME NEW j \in RowNumbers, rows[j] # NULL PROVE rows'[j] # NULL
        <4>1. CASE UNCHANGED rows
          BY <3>3, <4>1
        <4>2. CASE /\ active_page[t] # None
                   /\ rows' = [rows EXCEPT ![Head(Left(t)).row] = Allocated(t)]
          <5>1. Allocated(t) # NULL
            BY <4>2 DEF Allocated, NULL, None
          <5>2. rows'[j] = rows[j] \/ rows'[j] = Allocated(t)
            BY <1>2, <4>2 DEF HeapTypes
          <5> QED BY <3>3, <5>1, <5>2
        <4> QED BY <3>2, <4>1, <4>2
      <3> QED BY <3>1, <3>3
    <2>4. CASE heap_clear_page(t)
      <3>1. HeapTypes' /\ PagesApart' /\ Pointers'
        BY <1>1, <1>2, <1>3, <2>4, ClearSafe
      <3> QED BY <2>4, <3>1 DEF heap_clear_page
    <2>5. CASE LeaveCollection(t)
      <3>1. /\ collecting[t] = Idle /\ collecting' = [collecting EXCEPT ![t] = Through]
            /\ UNCHANGED <<pages, full_pages, empty_pages, active_page, heap_waste,
                           current_generation, rows>>
        BY <2>5 DEF LeaveCollection
      <3>2. collecting' \in [Threads -> [page : {None} \union 1 .. Len(pages), at : Nat, garbage : Int]]
        BY <1>2, <3>1 DEF HeapTypes, Through, Idle
      <3>3. \A u \in Threads : /\ collecting'[u].page = collecting[u].page
                               /\ \/ collecting'[u] = collecting[u]
                                  \/ /\ collecting[u].page = None
                                     /\ collecting'[u].page = None
        BY <1>2, <3>1 DEF HeapTypes, Through, Idle
      <3>4. HeapTypes'
        BY <1>1, <1>2, <3>1, <3>2, SameMatrix DEF HeapTypes
      <3>5. PagesApart'
        BY <1>2, <3>1, <3>3, StayApart
      <3>6. Pointers'
        BY <1>1, <1>2, <1>3, <3>1, <3>3, PointersStay
      <3> QED BY <3>1, <3>4, <3>5, <3>6
    <2> QED BY <1>1, <2>1, <2>2, <2>3, <2>4, <2>5 DEF Collect
  <1>5. MainTypes' /\ ThreadTypes' /\ Ownership'
    BY <1>1, <1>2, <1>4, ControlStays
  <1> QED BY <1>4, <1>5 DEF Inv

(* The rows of a column are rows, and their number is a number.               *)
LEMMA RowsCountable ==
  ASSUME HeapTypes, purged \in Matrices, NEW j
  PROVE  /\ RowsWith(j) \subseteq RowNumbers /\ TrueWeight(j) \in Nat
         /\ \A i \in RowsWith(j) : rows[i] # NULL
         /\ TrueWeight(j) > 0 => RowsWith(j) # {}
  <1>1. RowsWith(j) \subseteq RowNumbers /\ \A i \in RowsWith(j) : rows[i] # NULL
    BY DEF RowsWith, Live, HeapTypes
  <1>2. RowNumbers = 1 .. Len(purged) /\ Len(purged) \in Nat
    BY MatrixRows
  <1>3. IsFiniteSet(RowNumbers)
    BY <1>2, FS_Interval
  <1>4. IsFiniteSet(RowsWith(j))
    BY <1>1, <1>3, FS_Subset
  <1>5. TrueWeight(j) \in Nat
    BY <1>4, FS_CardinalityType DEF TrueWeight
  <1>6. TrueWeight(j) > 0 => RowsWith(j) # {}
    BY <1>4, <1>5, FS_EmptySet DEF TrueWeight
  <1> QED BY <1>1, <1>5, <1>6

(* What a step leaves that changes only counters and weights.                 *)
LEMMA CountersSafe ==
  ASSUME Inv, phase # "apply", phase' \in {"pass", "gc", "prepare", "test", "done", "undefined"},
         UNCHANGED <<pages, full_pages, empty_pages, active_page, heap_waste, rows, purged,
                     R, order, L, next, busy_rows, th>>,
         current_generation' \in Nat, wt' \in [Columns -> Nat],
         DOMAIN num' = DOMAIN num, num'.cwmax = num.cwmax, num'.nmerges = num.nmerges,
         \/ UNCHANGED collecting /\ phase # "gc"
         \/ /\ collecting' = [t \in Threads |-> Idle]
            /\ \A t \in Threads : collecting[t].page = None
  PROVE  Inv'
  <1>1. HeapTypes /\ PagesApart /\ Pointers /\ MainTypes /\ ThreadTypes /\ Ownership
    BY DEF Inv
  <1>2. RowNumbers' = RowNumbers /\ Columns' = Columns
    BY SameMatrix
  <1>3. \A t \in Threads : Pending(t)' = Pending(t)
    BY DEF Pending, Op
  <1>4. HeapTypes' /\ PagesApart' /\ Pointers'
    BY <1>1, <1>3, HeapStays
  <1>5. \A t \in Threads : collecting'[t] = Idle
    BY <1>1 DEF MainTypes
  <1>6. MainTypes'
    BY <1>1, <1>2, <1>5 DEF MainTypes
  <1>7. ThreadTypes'
    <2>1. ASSUME NEW t \in Threads PROVE ThreadType(t)' <=> ThreadType(t)
      BY <1>2 DEF ThreadType, Column, IsTree, IsWork, Addition, Removal
    <2> QED BY <1>1, <2>1 DEF ThreadTypes
  <1>8. Ownership'
    <2>1. \A t \in Threads : \A i : Owns(t, i)' <=> Owns(t, i)
      BY DEF Owns, Column
    <2>2. Winding' <=> Winding
      BY DEF Winding
    <2> QED BY <1>1, <1>2, <2>1, <2>2 DEF Ownership
  <1> QED BY <1>4, <1>6, <1>7, <1>8 DEF Inv

LEMMA WeightsSafe ==
  ASSUME Inv, compute_weights
  PROVE  Inv'
  <1>1. HeapTypes /\ purged \in Matrices
    BY DEF Inv, MainTypes
  <1>2. /\ phase = "read" /\ phase' = "pass"
        /\ UNCHANGED <<pages, full_pages, empty_pages, active_page, heap_waste, rows, purged,
                       current_generation, collecting, R, order, L, next, busy_rows, th>>
        /\ wt' = [j \in Columns |-> TrueWeight(j)]
    BY DEF compute_weights, heapVars
  <1>3. wt' \in [Columns -> Nat]
    BY <1>1, <1>2, RowsCountable
  <1>4. DOMAIN num' = DOMAIN num /\ num'.cwmax = num.cwmax /\ num'.nmerges = num.nmerges
    BY DEF compute_weights, Inv, MainTypes, NumFields
  <1>5. current_generation' \in Nat
    BY <1>1, <1>2 DEF HeapTypes
  <1> QED BY <1>2, <1>3, <1>4, <1>5, CountersSafe

LEMMA PassSafe ==
  ASSUME Inv, StartPass
  PROVE  Inv'
  <1>1. HeapTypes /\ MainTypes
    BY DEF Inv
  <1>2. /\ phase = "pass" /\ phase' \in {"gc", "prepare"}
        /\ UNCHANGED <<pages, full_pages, empty_pages, active_page, heap_waste, rows, purged,
                       collecting, R, order, L, next, busy_rows, th>>
        /\ UNCHANGED wt
    BY DEF StartPass
  <1>3. wt' \in [Columns -> Nat]
    BY <1>1, <1>2 DEF MainTypes
  <1>4. DOMAIN num' = DOMAIN num /\ num'.cwmax = num.cwmax /\ num'.nmerges = num.nmerges
    BY <1>1 DEF StartPass, MainTypes, NumFields
  <1>5. current_generation' \in Nat
    BY <1>1 DEF StartPass, HeapTypes
  <1> QED BY <1>2, <1>3, <1>4, <1>5, CountersSafe

LEMMA CollectedSafe ==
  ASSUME Inv, GarbageCollected
  PROVE  Inv'
  <1>1. HeapTypes /\ MainTypes
    BY DEF Inv
  <1>2. /\ phase = "gc" /\ phase' = "prepare" /\ collecting' = [t \in Threads |-> Idle]
        /\ UNCHANGED <<pages, full_pages, empty_pages, active_page, heap_waste, rows, purged,
                       current_generation, R, order, L, next, busy_rows, th>>
        /\ UNCHANGED <<wt, num>>
    BY DEF GarbageCollected
  <1>3. wt' \in [Columns -> Nat]
    BY <1>1, <1>2 DEF MainTypes
  <1>4. \A t \in Threads : collecting[t].page = None
    BY DEF GarbageCollected, Collected, Through, Idle
  <1>5. current_generation' \in Nat
    BY <1>1, <1>2 DEF HeapTypes
  <1> QED BY <1>2, <1>3, <1>4, <1>5, CountersSafe

(* A cost below 0, the columns counted anew, the end of the main loop.        *)
LEMMA CountedSafe ==
  ASSUME Inv, CostBelowZero \/ Recompress \/ TestEnd
  PROVE  Inv'
  <1>1. HeapTypes /\ MainTypes
    BY DEF Inv
  <1>2. /\ phase \in {"prepare", "recompress", "test"}
        /\ phase' \in {"undefined", "test", "done", "pass"}
        /\ UNCHANGED <<pages, full_pages, empty_pages, active_page, heap_waste, rows, purged,
                       current_generation, collecting, R, order, L, next, busy_rows, th>>
        /\ UNCHANGED wt
    BY DEF CostBelowZero, Recompress, TestEnd, heapVars
  <1>3. wt' \in [Columns -> Nat]
    BY <1>1, <1>2 DEF MainTypes
  <1>4. DOMAIN num' = DOMAIN num /\ num'.cwmax = num.cwmax /\ num'.nmerges = num.nmerges
    <2>1. CASE Recompress
      BY <1>1, <2>1 DEF Recompress, MainTypes, NumFields
    <2>2. CASE ~Recompress
      BY <2>2 DEF CostBelowZero, TestEnd
    <2> QED BY <2>1, <2>2
  <1>5. current_generation' \in Nat
    BY <1>1, <1>2 DEF HeapTypes
  <1> QED BY <1>2, <1>3, <1>4, <1>5, CountersSafe

LEMMA PrepareSafe ==
  ASSUME Inv, WeightsExact, Prepare
  PROVE  Inv'
  <1>1. HeapTypes /\ PagesApart /\ Pointers /\ MainTypes /\ ThreadTypes /\ Ownership
        /\ purged \in Matrices
    BY DEF Inv, MainTypes
  <1>2. /\ phase = "prepare" /\ phase' = "apply"
        /\ UNCHANGED <<pages, full_pages, empty_pages, active_page, heap_waste, rows,
                       current_generation, collecting>>
        /\ UNCHANGED <<purged, num, wt, order, next, busy_rows, th>>
        /\ R' = [j \in Candidates |-> RowsWith(j)]
    BY DEF Prepare, heapVars
  <1>3. RowNumbers' = RowNumbers /\ Columns' = Columns
    BY <1>2, SameMatrix
  <1>4. \A t \in Threads : Pending(t)' = Pending(t)
    BY <1>2 DEF Pending, Op
  <1>5. HeapTypes' /\ PagesApart' /\ Pointers'
    <2>1. current_generation' \in Nat
      BY <1>1, <1>2 DEF HeapTypes
    <2> QED BY <1>1, <1>2, <1>4, <2>1, HeapStays
  <1>6. ASSUME NEW j \in Candidates
        PROVE  RowsWith(j) \subseteq RowNumbers /\ RowsWith(j) # {}
               /\ \A i \in RowsWith(j) : rows[i] # NULL
    <2>1. j \in Columns /\ 0 < wt[j] /\ wt[j] <= num.cwmax
      BY DEF Candidates
    <2>2. wt[j] \in Nat /\ num.cwmax \in 2 .. MERGE_LEVEL_MAX /\ MERGE_LEVEL_MAX \in Nat
      BY <1>1, <1>2, <2>1, MergeAssumption DEF MainTypes
    <2>3. wt[j] = TrueWeight(j)
      BY <1>2, <2>1, <2>2 DEF WeightsExact, Quiet
    <2> QED BY <1>1, <2>1, <2>3, RowsCountable
  <1>7. L' \in Seq(Candidates)
    <2> DEFINE cost == [j \in Candidates |-> merge_cost(j)]
               Cheap == {j \in Candidates : cost[j] <= num.cbound}
    <2>1. PICK l \in [1 .. Cardinality(Cheap) -> Cheap] : L' = l
      BY DEF Prepare
    <2>2. Cheap \subseteq Candidates /\ Candidates \subseteq Columns
      BY DEF Candidates
    <2> HIDE DEF Cheap
    <2>3. IsFiniteSet(Columns)
      BY <1>1, MatrixRows
    <2>4. Cardinality(Cheap) \in Nat
      BY <2>2, <2>3, FS_Subset, FS_CardinalityType
    <2> DEFINE n == Cardinality(Cheap)
    <2> HIDE DEF n
    <2>5. n \in Nat /\ l \in [1 .. n -> Candidates] /\ L' = l
      BY <2>1, <2>2, <2>4 DEF n
    <2> QED BY <2>5
  <1>8. MainTypes'
    <2>1. \A j \in DOMAIN R' : R'[j] \subseteq RowNumbers /\ R'[j] # {}
      BY <1>2, <1>6
    <2>2. L' \in Seq(DOMAIN R') /\ next' \in 1 .. Len(L') + 1 /\ DOMAIN order' = {}
      <3>1. next' = 1 /\ order' = <<>>
        BY <1>1, <1>2 DEF MainTypes
      <3>2. DOMAIN R' = Candidates /\ Len(L') \in Nat
        BY <1>2, <1>7
      <3> QED BY <1>7, <3>1, <3>2
    <2> QED BY <1>1, <1>2, <1>3, <2>1, <2>2 DEF MainTypes
  <1>9. \A t \in Threads : th'[t] = Resting
    BY <1>1, <1>2 DEF MainTypes
  <1>10. ThreadTypes'
    <2>1. ASSUME NEW t \in Threads PROVE ThreadType(t)'
      <3>1. Len(L') \in Nat
        BY <1>7
      <3> QED BY <1>9, <3>1 DEF ThreadType, Resting, ThreadFields
    <2> QED BY <1>1, <1>2, <2>1 DEF ThreadTypes
  <1>11. Ownership'
    <2>1. \A t \in Threads : th'[t].pc = "loop"
      BY <1>9 DEF Resting
    <2>2. \A t \in Threads : \A i : ~Owns(t, i)'
      BY <2>1 DEF Owns
    <2>3. \A j \in DOMAIN R', i \in RowNumbers' : i \in R'[j] => rows'[i] # NULL
      BY <1>2, <1>6
    <2> QED BY <2>1, <2>2, <2>3 DEF Ownership
  <1> QED BY <1>5, <1>8, <1>10, <1>11 DEF Inv

-------------------------------------------------------------------------------
(* The steps of the threads.                                                  *)

(* Merges are taken and counted, rows are reserved and put in order.          *)
Onward ==
  /\ UNCHANGED <<purged, phase, R, L, collecting>>
  /\ next' \in next .. Len(L) + 1 /\ busy_rows \subseteq busy_rows'
  /\ DOMAIN num' = DOMAIN num /\ num'.cwmax = num.cwmax
  /\ num'.nmerges \in Nat /\ num'.nmerges >= num.nmerges
  /\ wt' \in [Columns -> Nat]
  /\ \A j \in DOMAIN order : j \in DOMAIN order' /\ order'[j] = order[j]
  /\ \A j \in DOMAIN order' : j \in DOMAIN R /\ order'[j] \in [1 .. Cardinality(R[j]) -> R[j]]

LEMMA StandingStill ==
  ASSUME MainTypes, phase = "apply",
         UNCHANGED <<purged, phase, R, L, collecting, next, busy_rows, num, wt, order>>
  PROVE  Onward
  BY DEF MainTypes, Onward

(* A step of one thread that keeps its own rows apart from those of others.   *)
LEMMA ThreadStep ==
  ASSUME MainTypes, ThreadTypes, Ownership, phase = "apply",
         NEW t \in Threads, NEW s, th' = [th EXCEPT ![t] = s],
         Onward, ThreadType(t)',
         num'.nmerges = 0 => s.pc \notin {"merge", "weights"},
         \A i \in RowNumbers : rows[i] # NULL /\ rows'[i] = NULL =>
           Owns(t, i) /\ ~Owns(t, i)' /\ num.nmerges # 0,
         \A i \in RowNumbers : Owns(t, i)' =>
           rows'[i] # NULL /\ \A u \in Threads : u # t => ~Owns(u, i),
         \/ Winding'
         \/ ~Winding /\ \A i \in RowNumbers : Owns(t, i)' => i \in busy_rows'
  PROVE  MainTypes' /\ ThreadTypes' /\ Ownership'
  <1> USE DEF Onward
  <1>1. RowNumbers' = RowNumbers /\ Columns' = Columns
    BY SameMatrix
  <1>2. DOMAIN th' = Threads /\ th'[t] = s /\ \A u \in Threads : u # t => th'[u] = th[u]
    BY DEF ThreadTypes
  <1>3. num.nmerges \in Nat /\ next \in 1 .. Len(L) + 1 /\ Len(L) \in Nat
    BY DEF MainTypes
  <1>4. MainTypes'
    <2>1. next' \in 1 .. Len(L') + 1
      BY <1>3
    <2> QED BY <1>1, <2>1 DEF MainTypes
  <1>5. ASSUME NEW u \in Threads, u # t
        PROVE  ThreadType(u)' /\ \A i : Owns(u, i)' <=> Owns(u, i)
    <2>1. ThreadType(u) /\ th'[u] = th[u]
      BY <1>2, <1>5 DEF ThreadTypes
    <2>2. th[u].pc = "reserve" => Column(u)' = Column(u) /\ Column(u) \in DOMAIN order
      BY <2>1 DEF ThreadType, Column
    <2>3. ThreadType(u)'
      BY <1>1, <2>1, <2>2, SMTT(30) DEF ThreadType, IsTree, IsWork, Addition, Removal
    <2>4. \A i : Owns(u, i)' <=> Owns(u, i)
      BY <2>1, <2>2 DEF Owns
    <2> QED BY <2>3, <2>4
  <1>6. ThreadTypes'
    BY <1>2, <1>5 DEF ThreadTypes
  <1>7. ASSUME NEW u \in Threads, NEW i \in RowNumbers, Owns(u, i)'
        PROVE  rows'[i] # NULL /\ \A v \in Threads : Owns(v, i)' => u = v
    <2>1. CASE u = t
      BY <1>5, <1>7, <2>1
    <2>2. CASE u # t
      <3>1. Owns(u, i) /\ rows[i] # NULL /\ \A v \in Threads : Owns(v, i) => u = v
        BY <1>5, <1>7, <2>2 DEF Ownership
      <3>2. rows'[i] # NULL
        BY <2>2, <3>1
      <3>3. ASSUME NEW v \in Threads, Owns(v, i)' PROVE u = v
        BY <1>5, <2>2, <3>1, <3>3
      <3> QED BY <3>2, <3>3
    <2> QED BY <2>1, <2>2
  <1>8. \/ Winding'
        \/ /\ \A u \in Threads, i \in RowNumbers : Owns(u, i)' => i \in busy_rows'
           /\ \A j \in DOMAIN R', i \in RowNumbers : i \in R'[j] => rows'[i] # NULL \/ i \in busy_rows'
    <2>1. CASE ~Winding /\ \A i \in RowNumbers : Owns(t, i)' => i \in busy_rows'
      <3>1. /\ \A u \in Threads, i \in RowNumbers : Owns(u, i) => i \in busy_rows
            /\ \A j \in DOMAIN R, i \in RowNumbers : i \in R[j] => rows[i] # NULL \/ i \in busy_rows
        BY <2>1 DEF Ownership
      <3>2. ASSUME NEW u \in Threads, NEW i \in RowNumbers, Owns(u, i)' PROVE i \in busy_rows'
        BY <1>5, <2>1, <3>1, <3>2
      <3>3. ASSUME NEW j \in DOMAIN R, NEW i \in RowNumbers, i \in R[j]
            PROVE  rows'[i] # NULL \/ i \in busy_rows'
        BY <3>1, <3>3
      <3> QED BY <3>2, <3>3
    <2> QED BY <2>1
  <1>9. ASSUME num'.nmerges = 0
        PROVE  /\ \A j \in DOMAIN R', i \in RowNumbers : i \in R'[j] => rows'[i] # NULL
               /\ \A u \in Threads : th'[u].pc \notin {"merge", "weights"}
    <2>1. num.nmerges = 0
      BY <1>3, <1>9
    <2>2. /\ \A j \in DOMAIN R, i \in RowNumbers : i \in R[j] => rows[i] # NULL
          /\ \A u \in Threads : th[u].pc \notin {"merge", "weights"}
      BY <2>1 DEF Ownership
    <2> QED BY <1>2, <1>9, <2>1, <2>2
  <1>10. Ownership'
    BY <1>1, <1>7, <1>8, <1>9 DEF Ownership
  <1> QED BY <1>4, <1>6, <1>10

(* A step of one thread that leaves the heap alone and takes no row.          *)
LEMMA ThreadAlone ==
  ASSUME Inv, phase = "apply",
         NEW t \in Threads, NEW s, th' = [th EXCEPT ![t] = s], UNCHANGED heapVars,
         Onward, ThreadType(t)', Pending(t)' = Pending(t),
         num'.nmerges = 0 => s.pc \notin {"merge", "weights"},
         Winding => s.pc # "reserve" /\ s.it > s.last,
         \A i \in RowNumbers : Owns(t, i)' => Owns(t, i)
  PROVE  Inv'
  <1>1. HeapTypes /\ PagesApart /\ Pointers /\ MainTypes /\ ThreadTypes /\ Ownership
    BY DEF Inv
  <1>2. /\ UNCHANGED <<pages, full_pages, empty_pages, active_page, heap_waste, rows,
                       current_generation, collecting>>
        /\ UNCHANGED <<purged, L>> /\ next' \in next .. Len(L) + 1 /\ next \in 1 .. Len(L) + 1
        /\ Len(L) \in Nat
    BY <1>1 DEF heapVars, Onward, MainTypes
  <1>3. th'[t] = s /\ \A u \in Threads : u # t => th'[u] = th[u]
    BY <1>1 DEF ThreadTypes
  <1>4. \A u \in Threads : Pending(u)' = Pending(u)
    <2>1. ASSUME NEW u \in Threads, u # t PROVE Pending(u)' = Pending(u)
      BY <1>3, <2>1 DEF Pending, Op
    <2> QED BY <2>1
  <1>5. HeapTypes' /\ PagesApart' /\ Pointers'
    <2>1. current_generation' \in Nat
      BY <1>1, <1>2 DEF HeapTypes
    <2> QED BY <1>1, <1>2, <1>4, <2>1, HeapStays
  <1>6. \A i \in RowNumbers : rows[i] # NULL /\ rows'[i] = NULL =>
          Owns(t, i) /\ ~Owns(t, i)' /\ num.nmerges # 0
    BY <1>2
  <1>7. \A i \in RowNumbers : Owns(t, i)' =>
          rows'[i] # NULL /\ \A u \in Threads : u # t => ~Owns(u, i)
    BY <1>1, <1>2 DEF Ownership
  <1>8. \/ Winding'
        \/ ~Winding /\ \A i \in RowNumbers : Owns(t, i)' => i \in busy_rows'
    <2>1. CASE Winding
      BY <1>2, <1>3, <2>1 DEF Winding
    <2>2. CASE ~Winding
      BY <1>1, <2>2 DEF Ownership, Onward
    <2> QED BY <2>1, <2>2
  <1>9. MainTypes' /\ ThreadTypes' /\ Ownership'
    BY <1>1, <1>6, <1>7, <1>8, ThreadStep
  <1> QED BY <1>5, <1>9 DEF Inv

LEMMA TakeSafe ==
  ASSUME Inv, NEW t \in Threads, TakeChunk(t)
  PROVE  Inv'
  <1>1. MainTypes /\ ThreadTypes /\ ThreadType(t)
    BY DEF Inv, ThreadTypes
  <1>2. PICK n \in 1 .. Len(L) - next + 1 :
          th' = [th EXCEPT ![t].it = next, ![t].last = next + n - 1] /\ next' = next + n
    BY DEF TakeChunk
  <1>3. phase = "apply" /\ th[t].pc = "loop" /\ UNCHANGED heapVars
        /\ UNCHANGED <<purged, phase, num, wt, R, order, L, busy_rows>>
    BY DEF TakeChunk, Looping
  <1> DEFINE s == [th[t] EXCEPT !.it = next, !.last = next + n - 1]
  <1>4. th' = [th EXCEPT ![t] = s]
    BY <1>1, <1>2 DEF ThreadTypes
  <1>5. /\ DOMAIN s = ThreadFields /\ s.pc = "loop" /\ s.k = th[t].k /\ s.sum = th[t].sum
        /\ s.it = next /\ s.last = next + n - 1
    BY <1>1, <1>3 DEF ThreadType, ThreadFields
  <1> HIDE DEF s
  <1>6. next \in 1 .. Len(L) + 1 /\ Len(L) \in Nat /\ next <= Len(L)
    BY <1>1 DEF MainTypes
  <1>7. th'[t] = s
    BY <1>1, <1>4 DEF ThreadTypes
  <1>8. ThreadType(t)'
    BY <1>1, <1>3, <1>5, <1>6, <1>7, SameMatrix DEF ThreadType
  <1>9. Onward
    BY <1>1, <1>2, <1>3, <1>6 DEF MainTypes, Onward, heapVars
  <1>10. Pending(t)' = Pending(t) /\ \A i \in RowNumbers : ~Owns(t, i)'
    BY <1>3, <1>5, <1>7 DEF Pending, Owns
  <1>11. ~Winding
    BY <1>6 DEF Winding
  <1> QED BY <1>3, <1>4, <1>5, <1>8, <1>9, <1>10, <1>11, ThreadAlone

LEMMA LookSafe ==
  ASSUME Inv, NEW t \in Threads, LookAtRows(t)
  PROVE  Inv'
  <1>1. MainTypes /\ ThreadTypes /\ ThreadType(t)
    BY DEF Inv, ThreadTypes
  <1>2. phase = "apply" /\ th[t].pc = "loop" /\ th[t].it <= th[t].last /\ UNCHANGED heapVars
        /\ UNCHANGED <<purged, phase, num, wt, R, L, next, busy_rows>> /\ UNCHANGED collecting
    BY DEF LookAtRows, Looping, heapVars
  <1>3. ~Winding
    BY <1>1, <1>2 DEF Winding, ThreadType
  <1>4. Pending(t) = None
    BY <1>2 DEF Pending
  <1>5. CASE th' = [th EXCEPT ![t] = NextMerge(@)] /\ UNCHANGED order
    <2> DEFINE s == NextMerge(th[t])
    <2>1. th' = [th EXCEPT ![t] = s]
      BY <1>5
    <2>2. /\ DOMAIN s = ThreadFields /\ s.pc = "loop" /\ s.k = 1 /\ s.sum = th[t].sum
          /\ s.it = th[t].it + 1 /\ s.last = th[t].last
      BY <1>1 DEF ThreadType, ThreadFields, NextMerge
    <2> HIDE DEF s
    <2>3. th'[t] = s
      BY <1>1, <2>1 DEF ThreadTypes
    <2>4. ThreadType(t)'
      BY <1>1, <1>2, <2>2, <2>3, SameMatrix DEF ThreadType
    <2>5. Onward
      BY <1>1, <1>2, <1>5, StandingStill
    <2>6. Pending(t)' = Pending(t) /\ \A i \in RowNumbers : ~Owns(t, i)'
      BY <1>4, <2>2, <2>3 DEF Pending, Owns
    <2> QED BY <1>2, <1>3, <2>1, <2>2, <2>4, <2>5, <2>6, ThreadAlone
  <1>6. CASE /\ th' = [th EXCEPT ![t].pc = "reserve"]
             /\ \E o \in Orders(Column(t)) :
                  order' = [x \in DOMAIN order \union {Column(t)} |->
                              IF x = Column(t) THEN o ELSE order[x]]
    <2> DEFINE s == [th[t] EXCEPT !.pc = "reserve"]  j == Column(t)
    <2>1. th' = [th EXCEPT ![t] = s]
      BY <1>6
    <2>2. /\ DOMAIN s = ThreadFields /\ s.pc = "reserve" /\ s.k = 1 /\ s.sum = th[t].sum
          /\ s.it = th[t].it /\ s.last = th[t].last
      BY <1>1, <1>2 DEF ThreadType, ThreadFields
    <2> HIDE DEF s
    <2>3. th'[t] = s
      BY <1>1, <2>1 DEF ThreadTypes
    <2>4. j \in DOMAIN R /\ Column(t)' = j
      <3>1. th[t].it \in 1 .. Len(L) /\ L \in Seq(DOMAIN R)
        BY <1>1, <1>2 DEF ThreadType, MainTypes
      <3> QED BY <1>2, <2>2, <2>3, <3>1 DEF Column
    <2>5. PICK o \in Orders(j) :
            order' = [x \in DOMAIN order \union {j} |-> IF x = j THEN o ELSE order[x]]
      BY <1>6
    <2> HIDE DEF j
    <2>6. o \in [1 .. Cardinality(R[j]) -> R[j]]
      BY <1>1, <2>5 DEF Orders, MainTypes
    <2>7. /\ DOMAIN order' = DOMAIN order \union {j}
          /\ \A x \in DOMAIN order : x # j => order'[x] = order[x]
          /\ order'[j] = o /\ (j \in DOMAIN order => o = order[j])
      BY <2>5 DEF Orders
    <2>8. ThreadType(t)'
      BY <1>1, <1>2, <2>2, <2>3, <2>4, <2>7, SameMatrix DEF ThreadType
    <2>9. \A x \in DOMAIN order' : x \in DOMAIN R /\ order'[x] \in [1 .. Cardinality(R[x]) -> R[x]]
      BY <1>1, <2>4, <2>6, <2>7 DEF MainTypes
    <2>10. Onward
      <3>1. /\ next' \in next .. Len(L) + 1 /\ num.nmerges \in Nat /\ wt \in [Columns -> Nat]
        BY <1>1, <1>2 DEF MainTypes
      <3> QED BY <1>2, <2>7, <2>9, <3>1 DEF Onward
    <2>11. Pending(t)' = Pending(t) /\ \A i \in RowNumbers : ~Owns(t, i)'
      BY <1>4, <2>2, <2>3 DEF Pending, Owns
    <2> QED BY <1>2, <1>3, <2>1, <2>2, <2>8, <2>10, <2>11, ThreadAlone
  <1> QED BY <1>5, <1>6 DEF LookAtRows

LEMMA ReserveSafe ==
  ASSUME Inv, NEW t \in Threads, Reserve(t)
  PROVE  Inv'
  <1>1. /\ HeapTypes /\ PagesApart /\ Pointers /\ MainTypes /\ ThreadTypes /\ Ownership
        /\ ThreadType(t)
    BY DEF Inv, ThreadTypes
  <1> DEFINE j == Column(t)  row == order[Column(t)][th[t].k]
             s == IF row \in busy_rows THEN NextMerge(th[t]) ELSE [th[t] EXCEPT !.k = @ + 1]
  <1>2. /\ th[t].pc = "reserve" /\ th[t].k <= Cardinality(R[j])
        /\ busy_rows' = busy_rows \union {row}
        /\ th' = [th EXCEPT ![t] = s]
        /\ UNCHANGED <<pages, full_pages, empty_pages, active_page, heap_waste,
                       current_generation, rows, collecting>>
        /\ UNCHANGED <<purged, phase, num, wt, R, order, L, next, Buf, history>>
    <2>1. th[t].pc = "reserve" /\ th[t].k <= Cardinality(R[j])
      BY DEF Reserve
    <2>2. th' = [th EXCEPT ![t] = s]
      BY DEF Reserve
    <2> QED BY <2>1, <2>2 DEF Reserve, heapVars
  <1>3. phase = "apply" /\ \A u \in Threads : Pending(u)' = Pending(u)
    <2>1. phase = "apply"
      BY <1>1, <1>2, NonePending
    <2>2. th'[t] = s /\ s.pc \in {"loop", "reserve"} /\ \A u \in Threads : u # t => th'[u] = th[u]
      BY <1>1, <1>2 DEF ThreadTypes, ThreadType, ThreadFields, NextMerge
    <2>3. ASSUME NEW u \in Threads PROVE Pending(u)' = Pending(u)
      <3>1. CASE u = t
        BY <1>2, <2>2, <3>1 DEF Pending
      <3>2. CASE u # t
        BY <2>2, <3>2 DEF Pending, Op
      <3> QED BY <3>1, <3>2
    <2> QED BY <2>1, <2>3
  <1>4. /\ DOMAIN s = ThreadFields /\ s.last = th[t].last /\ s.sum = th[t].sum
        /\ row \in busy_rows => s.pc = "loop" /\ s.k = 1 /\ s.it = th[t].it + 1
        /\ row \notin busy_rows => s.pc = "reserve" /\ s.k = th[t].k + 1 /\ s.it = th[t].it
    BY <1>1, <1>2 DEF ThreadType, ThreadFields, NextMerge
  <1>5. j \in DOMAIN R /\ row \in R[j] /\ row \in RowNumbers
    <2>1. j \in DOMAIN order /\ th[t].k \in 1 .. Cardinality(R[j])
      <3>1. j \in DOMAIN order /\ th[t].k \in Nat /\ th[t].k >= 1
        BY <1>1, <1>2 DEF ThreadType
      <3>2. IsFiniteSet(RowNumbers) /\ R[j] \subseteq RowNumbers
        BY <1>1, <3>1, MatrixRows, FS_Interval DEF MainTypes
      <3>3. Cardinality(R[j]) \in Nat
        BY <3>2, FS_Subset, FS_CardinalityType
      <3> QED BY <1>2, <3>1, <3>3
    <2> HIDE DEF j
    <2>2. j \in DOMAIN R /\ order[j] \in [1 .. Cardinality(R[j]) -> R[j]] /\ R[j] \subseteq RowNumbers
      BY <1>1, <2>1 DEF MainTypes
    <2>3. order[j][th[t].k] \in R[j]
      BY <2>1, <2>2
    <2> QED BY <2>2, <2>3 DEF j
  <1>6. ~Winding
    BY <1>2 DEF Winding
  <1> HIDE DEF s, row
  <1>7. th'[t] = s
    BY <1>1, <1>2 DEF ThreadTypes
  <1>8. HeapTypes' /\ PagesApart' /\ Pointers'
    <2>1. current_generation' \in Nat
      BY <1>1, <1>2 DEF HeapTypes
    <2> QED BY <1>1, <1>2, <1>3, <2>1, HeapStays
  <1>9. ThreadType(t)'
    <2>1. s.pc = "reserve" => Column(t)' = Column(t)
      BY <1>2, <1>4, <1>7 DEF Column
    <2> QED BY <1>1, <1>2, <1>4, <1>7, <2>1, SameMatrix DEF ThreadType
  <1>10. Onward
    BY <1>1, <1>2, <1>3 DEF Onward, MainTypes
  <1>11. ASSUME NEW i \in RowNumbers, Owns(t, i)'
         PROVE  i \in busy_rows' /\ rows[i] # NULL /\ \A u \in Threads : u # t => ~Owns(u, i)
    <2>1. s.pc = "reserve" /\ row \notin busy_rows
      BY <1>4, <1>7, <1>11 DEF Owns
    <2>2. PICK m \in 1 .. Cardinality(R[j]) : m < th[t].k + 1 /\ order[j][m] = i
      BY <1>2, <1>4, <1>7, <1>11, <2>1 DEF Owns, Column
    <2>3. CASE i = row
      BY <1>1, <1>2, <1>5, <1>6, <2>1, <2>3 DEF Ownership
    <2>4. CASE i # row
      <3>1. m # th[t].k
        BY <2>2, <2>4 DEF row
      <3>2. m < th[t].k
        BY <1>1, <2>2, <3>1 DEF ThreadType
      <3>3. Owns(t, i)
        BY <1>2, <2>2, <3>2 DEF Owns
      <3> QED BY <1>1, <1>2, <1>6, <3>3 DEF Ownership
    <2> QED BY <2>3, <2>4
  <1>12. \A i \in RowNumbers : rows[i] # NULL /\ rows'[i] = NULL =>
           Owns(t, i) /\ ~Owns(t, i)' /\ num.nmerges # 0
    BY <1>2
  <1>13. /\ \A i \in RowNumbers : Owns(t, i)' =>
              rows'[i] # NULL /\ \A u \in Threads : u # t => ~Owns(u, i)
         /\ \A i \in RowNumbers : Owns(t, i)' => i \in busy_rows'
    BY <1>2, <1>11
  <1>14. s.pc \notin {"merge", "weights"}
    BY <1>4
  <1>15. MainTypes' /\ ThreadTypes' /\ Ownership'
    BY <1>1, <1>2, <1>3, <1>6, <1>9, <1>10, <1>12, <1>13, <1>14, ThreadStep
  <1> QED BY <1>8, <1>15 DEF Inv

(* The rows of a column in an order are a sequence of rows.                   *)
LEMMA OrderedRows ==
  ASSUME MainTypes, NEW j \in DOMAIN R, NEW o \in [1 .. Cardinality(R[j]) -> R[j]]
  PROVE  o \in Seq(RowNumbers) /\ Len(o) = Cardinality(R[j]) /\ Len(o) >= 1
  <1>1. IsFiniteSet(RowNumbers) /\ R[j] \subseteq RowNumbers /\ R[j] # {}
    <2>1. RowNumbers = 1 .. Len(purged) /\ Len(purged) \in Nat
      BY MatrixRows DEF MainTypes
    <2>2. IsFiniteSet(RowNumbers)
      BY <2>1, FS_Interval
    <2> QED BY <2>2 DEF MainTypes
  <1>2. IsFiniteSet(R[j]) /\ Cardinality(R[j]) \in Nat
    BY <1>1, FS_Subset, FS_CardinalityType
  <1>3. Cardinality(R[j]) # 0
    BY <1>1, <1>2, FS_EmptySet
  <1> DEFINE n == Cardinality(R[j])
  <1>4. n \in Nat /\ n # 0 /\ o \in [1 .. n -> RowNumbers]
    BY <1>1, <1>2, <1>3
  <1> HIDE DEF n
  <1>5. o \in Seq(RowNumbers) /\ Len(o) = n /\ n >= 1
    BY <1>4
  <1> QED BY <1>5 DEF n

LEMMA TreeNext ==
  ASSUME UNCHANGED purged, NEW t, NEW tree, IsTree(tree), th'[t].tree = tree
  PROVE  IsTree(th[t].tree)'
  <1>1. RowNumbers' = RowNumbers
    BY SameMatrix
  <1> QED BY <1>1 DEF IsTree

LEMMA WorkNext ==
  ASSUME UNCHANGED purged, NEW t, NEW ops, IsWork(ops), th'[t].ops = ops
  PROVE  IsWork(th[t].ops)'
  <1>1. RowNumbers' = RowNumbers
    BY SameMatrix
  <1> QED BY <1>1 DEF IsWork, Addition, Removal

LEMMA SeedlingIsTree ==
  ASSUME NEW ind \in Seq(RowNumbers), Len(ind) >= 1
  PROVE  IsTree(Seedling(ind)) /\ Seedling(ind).ind = ind
  <1> DEFINE T == [i \in 1 .. Len(ind) - 1 |-> i + 1]
  <1>1. T \in Seq(1 .. Len(ind))
    <2> DEFINE n == Len(ind)
    <2>1. n \in Nat /\ n >= 1
      OBVIOUS
    <2> HIDE DEF n
    <2> DEFINE m == n - 1  f == [i \in 1 .. m |-> i + 1]
    <2>2. m \in Nat /\ f \in [1 .. m -> 1 .. n]
      BY <2>1
    <2> HIDE DEF m, f
    <2>3. f \in Seq(1 .. n)
      BY <2>2, Listed
    <2>4. T = f /\ n = Len(ind)
      BY DEF n, m, f
    <2> HIDE DEF T
    <2> QED BY <2>3, <2>4
  <1>2. <<1>> \in Seq(1 .. Len(ind)) /\ <<>> \in Seq((1 .. Len(ind)) \X (1 .. Len(ind)))
    <2>1. 1 \in 1 .. Len(ind)
      OBVIOUS
    <2> QED BY <2>1
  <1> HIDE DEF T
  <1>3. Seedling(ind) = [ind |-> ind, S |-> <<1>>, T |-> T, edges |-> <<>>, w |-> 0]
    BY DEF Seedling, T
  <1> QED BY <1>1, <1>2, <1>3 DEF IsTree

LEMMA MergeSafe ==
  ASSUME Inv, NEW t \in Threads, Merge(t)
  PROVE  Inv'
  <1>1. MainTypes /\ ThreadTypes /\ ThreadType(t)
    BY DEF Inv, ThreadTypes
  <1> DEFINE j == Column(t)  ind == order[j]
             s == [NextMerge(th[t]) EXCEPT !.pc = "tree", !.tree = Seedling(ind)]
  <1>2. /\ th[t].pc = "reserve" /\ th[t].k > Cardinality(R[j])
        /\ th' = [th EXCEPT ![t] = s]
        /\ UNCHANGED heapVars /\ UNCHANGED collecting
        /\ UNCHANGED <<purged, phase, num, wt, R, order, L, next, busy_rows>>
    BY DEF Merge, merge_do, heapVars
  <1>3. phase = "apply"
    BY <1>1, <1>2, NonePending
  <1>4. /\ DOMAIN s = ThreadFields /\ s.pc = "tree" /\ s.tree = Seedling(ind)
        /\ s.k = 1 /\ s.it = th[t].it + 1 /\ s.last = th[t].last /\ s.sum = th[t].sum
    BY <1>1 DEF ThreadType, ThreadFields, NextMerge
  <1>5. /\ j \in DOMAIN R /\ ind \in [1 .. Cardinality(R[j]) -> R[j]]
    BY <1>1, <1>2 DEF ThreadType, MainTypes
  <1> HIDE DEF s, ind, j
  <1>6. ind \in Seq(RowNumbers) /\ Len(ind) = Cardinality(R[j]) /\ Len(ind) >= 1
    BY <1>1, <1>5, OrderedRows
  <1>7. IsTree(s.tree) /\ s.tree.ind = ind
    BY <1>4, <1>6, SeedlingIsTree
  <1>8. th'[t] = s
    BY <1>1, <1>2 DEF ThreadTypes
  <1>9. ThreadType(t)'
    <2>1. IsTree(th[t].tree)'
      BY <1>2, <1>7, <1>8, TreeNext
    <2> QED BY <1>1, <1>2, <1>4, <1>8, <2>1, SameMatrix DEF ThreadType
  <1>10. Onward
    BY <1>1, <1>2, <1>3, StandingStill
  <1>11. Pending(t)' = Pending(t)
    BY <1>2, <1>4, <1>8 DEF Pending
  <1>12. ASSUME NEW i \in RowNumbers, Owns(t, i)' PROVE Owns(t, i)
    <2>1. PICK m \in 1 .. Len(ind) : ind[m] = i
      BY <1>4, <1>7, <1>8, <1>12 DEF Owns
    <2>2. m < th[t].k /\ m \in 1 .. Cardinality(R[j])
      BY <1>1, <1>2, <1>6, <2>1 DEF ThreadType
    <2> QED BY <1>2, <2>1, <2>2 DEF Owns, ind, j
  <1>13. ~Winding
    BY <1>2 DEF Winding
  <1> QED BY <1>2, <1>3, <1>4, <1>9, <1>10, <1>11, <1>12, <1>13, ThreadAlone

(* A tree with one edge more.                                                 *)
Grown(tree, e, w) ==
  [tree EXCEPT !.S = Append(tree.S, tree.T[e[2]]),
               !.T = Front([tree.T EXCEPT ![e[2]] = Last(tree.T)]),
               !.edges = Append(tree.edges, <<tree.S[e[1]], tree.T[e[2]]>>),
               !.w = w]

LEMMA GrownIsTree ==
  ASSUME NEW tree, IsTree(tree), NEW e \in (DOMAIN tree.S) \X (DOMAIN tree.T), tree.T # <<>>, NEW w,
         NEW grown, grown = Grown(tree, e, w)
  PROVE  IsTree(grown) /\ grown.ind = tree.ind
  <1> DEFINE n == Len(tree.ind)  S == tree.S  T == tree.T  edges == tree.edges
             S1 == Append(S, T[e[2]])
             T0 == [T EXCEPT ![e[2]] = Last(T)]
             T1 == Front(T0)
             edges1 == Append(edges, <<S[e[1]], T[e[2]]>>)
  <1>1. /\ DOMAIN tree = {"ind", "S", "T", "edges", "w"} /\ tree.ind \in Seq(RowNumbers) /\ n >= 1
        /\ S \in Seq(1 .. n) /\ T \in Seq(1 .. n) /\ edges \in Seq((1 .. n) \X (1 .. n))
    BY DEF IsTree
  <1>2. /\ DOMAIN grown = {"ind", "S", "T", "edges", "w"} /\ grown.ind = tree.ind
        /\ grown.S = S1 /\ grown.T = T1 /\ grown.edges = edges1
    BY <1>1 DEF Grown
  <1>3. e[1] \in DOMAIN S /\ e[2] \in DOMAIN T /\ T # <<>>
    OBVIOUS
  <1> DEFINE N == 1 .. n
  <1> HIDE DEF N, n, S, T, edges
  <1>4. S \in Seq(N) /\ T \in Seq(N) /\ edges \in Seq(N \X N)
    BY <1>1 DEF N
  <1>5. S[e[1]] \in N /\ T[e[2]] \in N /\ Len(T) \in Nat /\ Len(T) >= 1 /\ Last(T) \in N
    BY <1>3, <1>4 DEF Last
  <1>6. S1 \in Seq(N) /\ edges1 \in Seq(N \X N)
    BY <1>4, <1>5
  <1>7. T0 \in Seq(N) /\ Len(T0) = Len(T)
    BY <1>3, <1>4, <1>5
  <1> HIDE DEF T0
  <1>8. T1 \in Seq(N)
    BY <1>5, <1>7 DEF Front
  <1> HIDE DEF S1, T1, edges1
  <1> QED BY <1>1, <1>2, <1>6, <1>8 DEF N, n, IsTree

LEMMA GrowSafe ==
  ASSUME Inv, NEW t \in Threads, GrowTree(t)
  PROVE  Inv'
  <1>1. MainTypes /\ ThreadTypes /\ ThreadType(t)
    BY DEF Inv, ThreadTypes
  <1> DEFINE tree == th[t].tree
  <1>2. /\ th[t].pc = "tree" /\ tree.T # <<>>
        /\ UNCHANGED heapVars /\ UNCHANGED collecting
        /\ UNCHANGED <<purged, phase, num, wt, R, order, L, next, busy_rows>>
    BY DEF GrowTree, heapVars
  <1>3. PICK e \in (DOMAIN tree.S) \X (DOMAIN tree.T) :
          \E w : th' = [th EXCEPT ![t].tree = Grown(tree, e, w)]
    BY ZenonT(40) DEF GrowTree, Grown
  <1>4. PICK grown : IsTree(grown) /\ grown.ind = tree.ind /\ th' = [th EXCEPT ![t].tree = grown]
    <2>1. IsTree(tree) /\ tree.T # <<>>
      BY <1>1, <1>2 DEF ThreadType
    <2> HIDE DEF tree
    <2>2. \A w : IsTree(Grown(tree, e, w)) /\ Grown(tree, e, w).ind = tree.ind
      BY <2>1, GrownIsTree
    <2> QED BY <1>3, <2>2
  <1> DEFINE s == [th[t] EXCEPT !.tree = grown]
  <1>5. th' = [th EXCEPT ![t] = s]
    BY <1>1, <1>4 DEF ThreadTypes
  <1>6. /\ DOMAIN s = ThreadFields /\ s.pc = "tree" /\ s.tree = grown
        /\ s.k = th[t].k /\ s.it = th[t].it /\ s.last = th[t].last /\ s.sum = th[t].sum
    BY <1>1, <1>2 DEF ThreadType, ThreadFields
  <1> HIDE DEF s
  <1>7. th'[t] = s
    BY <1>1, <1>5 DEF ThreadTypes
  <1>8. phase = "apply"
    BY <1>1, <1>2, NonePending
  <1>9. ThreadType(t)'
    <2>1. IsTree(th[t].tree)'
      BY <1>2, <1>4, <1>6, <1>7, TreeNext
    <2> QED BY <1>1, <1>2, <1>6, <1>7, <2>1, SameMatrix DEF ThreadType
  <1>10. Onward
    BY <1>1, <1>2, <1>8, StandingStill
  <1>11. Pending(t)' = Pending(t)
    BY <1>2, <1>6, <1>7 DEF Pending
  <1>12. \A i \in RowNumbers : Owns(t, i)' => Owns(t, i)
    BY <1>2, <1>4, <1>6, <1>7 DEF Owns
  <1>13. Winding => s.pc # "reserve" /\ s.it > s.last
    BY <1>6 DEF Winding
  <1> QED BY <1>2, <1>5, <1>6, <1>8, <1>9, <1>10, <1>11, <1>12, <1>13, ThreadAlone

(* The additions along a tree are of rows of the tree.                        *)
LEMMA AdditionsAdd ==
  ASSUME NEW tree, IsTree(tree)
  PROVE  /\ Additions(tree) \in Seq(Addition)
         /\ \A m \in 1 .. Len(Additions(tree)) :
              \E a, b \in 1 .. Len(tree.ind) : /\ Additions(tree)[m].from = tree.ind[a]
                                               /\ Additions(tree)[m].to = tree.ind[b]
  <1> DEFINE n == Len(tree.ind)  edges == tree.edges
             f == [i \in DOMAIN edges |-> [from |-> tree.ind[edges[i][1]],
                                           to |-> tree.ind[edges[i][2]], destroy |-> i = 1]]
             z == Len(edges)
             r == [i \in 1 .. z |-> f[(z - i) + 1]]
  <1>1. tree.ind \in Seq(RowNumbers) /\ n \in Nat /\ edges \in Seq((1 .. n) \X (1 .. n)) /\ z \in Nat
        /\ DOMAIN edges = 1 .. z
    BY DEF IsTree
  <1>2. ASSUME NEW i \in 1 .. z
        PROVE  /\ f[i] \in Addition
               /\ \E a, b \in 1 .. n : f[i].from = tree.ind[a] /\ f[i].to = tree.ind[b]
    <2>1. edges[i] \in (1 .. n) \X (1 .. n)
      BY <1>1
    <2>2. edges[i][1] \in 1 .. n /\ edges[i][2] \in 1 .. n
      BY <2>1
    <2>3. f[i] = [from |-> tree.ind[edges[i][1]], to |-> tree.ind[edges[i][2]], destroy |-> i = 1]
      BY <1>1
    <2> HIDE DEF f
    <2>4. f[i].from = tree.ind[edges[i][1]] /\ f[i].to = tree.ind[edges[i][2]]
      BY <2>3
    <2>5. tree.ind[edges[i][1]] \in RowNumbers /\ tree.ind[edges[i][2]] \in RowNumbers
      BY <1>1, <2>2
    <2>6. (i = 1) \in BOOLEAN
      OBVIOUS
    <2>7. f[i] \in Addition
      BY <2>3, <2>5, <2>6 DEF Addition
    <2> QED BY <2>2, <2>4, <2>7
  <1>3. Len(f) = z
    <2>1. f \in Seq(Addition)
      <3> HIDE DEF z
      <3>1. f \in [1 .. z -> Addition]
        BY <1>1, <1>2
      <3> HIDE DEF f
      <3> QED BY <1>1, <3>1, Listed
    <2>2. DOMAIN f = 1 .. z
      BY <1>1
    <2> HIDE DEF f, z
    <2> QED BY <1>1, <2>1, <2>2
  <1>4. Additions(tree) = r
    <2>1. Additions(tree) = Reverse(f)
      BY DEF Additions
    <2> HIDE DEF f
    <2> QED BY <1>3, <2>1 DEF Reverse
  <1> HIDE DEF f, z, n
  <1>5. \A i \in 1 .. z : (z - i) + 1 \in 1 .. z
    BY <1>1
  <1>6. r \in [1 .. z -> Addition]
    BY <1>2, <1>5
  <1>7. \A m \in 1 .. z : \E a, b \in 1 .. n : r[m].from = tree.ind[a] /\ r[m].to = tree.ind[b]
    BY <1>2, <1>5
  <1> HIDE DEF r
  <1>8. r \in Seq(Addition) /\ Len(r) = z
    BY <1>1, <1>6, Listed
  <1> QED BY <1>4, <1>7, <1>8 DEF n

(* One more element at the end of a sequence.                                 *)
LEMMA Appended ==
  ASSUME NEW S, NEW seq \in Seq(S), NEW e \in S
  PROVE  /\ Append(seq, e) \in Seq(S) /\ Len(Append(seq, e)) = Len(seq) + 1
         /\ Append(seq, e)[Len(seq) + 1] = e
         /\ \A m \in 1 .. Len(seq) : Append(seq, e)[m] = seq[m]
  OBVIOUS

LEMMA OneListed ==
  ASSUME NEW S, NEW e \in S
  PROVE  <<e>> \in Seq(S) /\ Len(<<e>>) = 1 /\ <<e>>[1] = e
  OBVIOUS

(* The work of a merge: additions, and the removal of the root.               *)
LEMMA WorkOfTree ==
  ASSUME NEW tree, IsTree(tree), NEW removal, removal = [from |-> None, to |-> tree.ind[1]],
         purged \in Matrices, NEW ops,
         ops = IF Len(tree.ind) = 1 THEN <<removal>> ELSE Append(Additions(tree), removal)
  PROVE  /\ IsWork(ops)
         /\ \A i \in RowNumbers, m \in 1 .. Len(ops) : ops[m].to = i \/ ops[m].from = i =>
              \E a \in 1 .. Len(tree.ind) : tree.ind[a] = i
  <1> DEFINE adds == Additions(tree)  n == Len(tree.ind)
  <1>1. n \in Nat /\ n >= 1 /\ tree.ind \in Seq(RowNumbers) /\ None \notin RowNumbers
    BY MatrixRows DEF IsTree
  <1>2. /\ adds \in Seq(Addition)
        /\ \A m \in 1 .. Len(adds) : \E a, b \in 1 .. n : /\ adds[m].from = tree.ind[a]
                                                          /\ adds[m].to = tree.ind[b]
    BY AdditionsAdd
  <1>3. /\ removal \in Removal /\ removal.from = None /\ removal.to = tree.ind[1] /\ 1 \in 1 .. n
    BY <1>1 DEF Removal
  <1> HIDE DEF adds, n
  <1>4. CASE n = 1
    <2>1. ops = <<removal>>
      BY <1>4 DEF n
    <2>2. ops \in Seq(Addition \union Removal) /\ Len(ops) = 1 /\ ops[1] = removal
      <3> DEFINE S == Addition \union Removal
      <3>1. removal \in S
        BY <1>3
      <3> HIDE DEF S
      <3>2. <<removal>> \in Seq(S) /\ Len(<<removal>>) = 1 /\ <<removal>>[1] = removal
        BY ONLY <3>1, OneListed
      <3>3. ops \in Seq(S) /\ Len(ops) = 1 /\ ops[1] = removal
        BY ONLY <2>1, <3>2
      <3> QED BY <3>3 DEF S
    <2>3. IsWork(ops)
      BY <1>3, <2>2 DEF IsWork
    <2> QED BY <1>1, <1>3, <2>2, <2>3 DEF n
  <1>5. CASE n # 1
    <2> DEFINE k == Len(adds)
    <2>1. ops = Append(adds, removal)
      BY <1>5 DEF adds, n
    <2>2. k \in Nat
      BY <1>2
    <2>3. adds \in Seq(Addition \union Removal) /\ removal \in Addition \union Removal
      <3>1. \A m \in 1 .. k : adds[m] \in Addition \union Removal
        BY <1>2
      <3> QED BY <1>2, <1>3, <3>1
    <2>4. /\ ops \in Seq(Addition \union Removal) /\ Len(ops) = k + 1 /\ ops[k + 1] = removal
          /\ \A m \in 1 .. k : ops[m] = adds[m]
      <3> DEFINE S == Addition \union Removal
      <3>1. adds \in Seq(S) /\ removal \in S
        BY <2>3
      <3> HIDE DEF S
      <3>2. /\ Append(adds, removal) \in Seq(S) /\ Len(Append(adds, removal)) = Len(adds) + 1
            /\ Append(adds, removal)[Len(adds) + 1] = removal
            /\ \A m \in 1 .. Len(adds) : Append(adds, removal)[m] = adds[m]
        BY ONLY <3>1, Appended
      <3>3. /\ ops \in Seq(S) /\ Len(ops) = k + 1 /\ ops[k + 1] = removal
            /\ \A m \in 1 .. k : ops[m] = adds[m]
        BY ONLY <2>1, <3>2
      <3> QED BY <3>3 DEF S
    <2> HIDE DEF k
    <2>5. ASSUME NEW m \in 1 .. k PROVE adds[m].from # None
      <3>1. adds[m] \in Addition
        BY <1>2, <2>5 DEF k
      <3> QED BY <1>1, <3>1 DEF Addition
    <2>6. IsWork(ops)
      <3>1. ASSUME NEW m \in 1 .. Len(ops) PROVE ops[m].from = None <=> m = Len(ops)
        <4>1. CASE m = k + 1
          BY <1>3, <2>4, <4>1
        <4>2. CASE m # k + 1
          BY <2>2, <2>4, <2>5, <4>2
        <4> QED BY <4>1, <4>2
      <3> QED BY <2>2, <2>4, <3>1 DEF IsWork
    <2>7. ASSUME NEW i \in RowNumbers, NEW m \in 1 .. Len(ops), ops[m].to = i \/ ops[m].from = i
          PROVE  \E a \in 1 .. n : tree.ind[a] = i
      <3>1. CASE m = k + 1
        BY <1>1, <1>3, <2>4, <2>7, <3>1
      <3>2. CASE m # k + 1
        <4>1. m \in 1 .. Len(adds) /\ ops[m] = adds[m]
          BY <2>2, <2>4, <3>2 DEF k
        <4> QED BY <1>2, <2>7, <4>1
      <3> QED BY <3>1, <3>2
    <2> QED BY <2>6, <2>7 DEF n
  <1> QED BY <1>4, <1>5

LEMMA RowsMergedSafe ==
  ASSUME Inv, NEW t \in Threads, MergeRows(t)
  PROVE  Inv'
  <1>1. MainTypes /\ ThreadTypes /\ ThreadType(t)
    BY DEF Inv, ThreadTypes
  <1> DEFINE tree == th[t].tree  removal == [from |-> None, to |-> tree.ind[1]]
             ops == IF Len(tree.ind) = 1 THEN <<removal>> ELSE Append(Additions(tree), removal)
             s == [th[t] EXCEPT !.pc = "merge", !.tree = <<>>, !.ops = ops]
  <1>2. /\ th[t].pc = "tree"
        /\ th' = [th EXCEPT ![t].pc = "merge", ![t].tree = <<>>, ![t].ops = ops]
        /\ UNCHANGED heapVars /\ UNCHANGED collecting
        /\ UNCHANGED <<purged, phase, wt, R, order, L, next, busy_rows>>
    BY DEF MergeRows, heapVars
  <1>3. phase = "apply"
    BY <1>1, <1>2, NonePending
  <1>4. /\ DOMAIN num' = DOMAIN num /\ num'.cwmax = num.cwmax /\ num'.nmerges = num.nmerges + 1
        /\ num.nmerges \in Nat
    BY <1>1 DEF MergeRows, MainTypes, NumFields
  <1>5. /\ IsWork(ops)
        /\ \A i \in RowNumbers, m \in 1 .. Len(ops) : ops[m].to = i \/ ops[m].from = i =>
             \E a \in 1 .. Len(tree.ind) : tree.ind[a] = i
    <2> DEFINE work == ops
    <2>1. IsTree(tree) /\ purged \in Matrices
      BY <1>1, <1>2 DEF ThreadType, MainTypes
    <2>2. /\ work = IF Len(tree.ind) = 1 THEN <<removal>> ELSE Append(Additions(tree), removal)
          /\ removal = [from |-> None, to |-> tree.ind[1]]
      OBVIOUS
    <2> HIDE DEF tree, removal, work
    <2>3. IsWork(work)
      BY <2>1, <2>2, WorkOfTree
    <2>4. \A i \in RowNumbers, m \in 1 .. Len(work) : work[m].to = i \/ work[m].from = i =>
             \E a \in 1 .. Len(tree.ind) : tree.ind[a] = i
      BY <2>1, <2>2, WorkOfTree
    <2> QED BY <2>3, <2>4 DEF work
  <1> HIDE DEF ops
  <1>6. th' = [th EXCEPT ![t] = s]
    BY <1>1, <1>2 DEF ThreadTypes
  <1>7. /\ DOMAIN s = ThreadFields /\ s.pc = "merge" /\ s.ops = ops
        /\ s.k = 1 /\ s.it = th[t].it /\ s.last = th[t].last /\ s.sum = th[t].sum
    BY <1>1, <1>2 DEF ThreadType, ThreadFields
  <1> HIDE DEF s
  <1>8. th'[t] = s
    BY <1>1, <1>6 DEF ThreadTypes
  <1>9. ThreadType(t)'
    <2>1. IsWork(th[t].ops)'
      BY <1>2, <1>5, <1>7, <1>8, WorkNext
    <2> QED BY <1>1, <1>2, <1>7, <1>8, <2>1, SameMatrix DEF ThreadType
  <1>10. Onward
    BY <1>1, <1>2, <1>3, <1>4 DEF Onward, MainTypes
  <1>11. Pending(t)' = Pending(t)
    BY <1>2, <1>7, <1>8 DEF Pending
  <1>12. ASSUME NEW i \in RowNumbers, Owns(t, i)' PROVE Owns(t, i)
    <2>1. PICK m \in 1 .. Len(ops) : ops[m].to = i \/ ops[m].from = i
      BY <1>7, <1>8, <1>12 DEF Owns
    <2>2. \E a \in 1 .. Len(tree.ind) : tree.ind[a] = i
      BY <1>5, <2>1
    <2> QED BY <1>2, <2>2 DEF Owns
  <1>13. Winding => s.pc # "reserve" /\ s.it > s.last
    BY <1>7 DEF Winding
  <1>14. num'.nmerges # 0
    BY <1>4
  <1> QED BY <1>2, <1>3, <1>6, <1>9, <1>10, <1>11, <1>12, <1>13, <1>14, ThreadAlone

(* A step of a thread at its work that leaves the rows alone.                 *)
LEMMA AtWork ==
  ASSUME Inv, NEW t \in Threads, th[t].pc \in {"merge", "weights"},
         NEW s, th' = [th EXCEPT ![t] = s], DOMAIN s = ThreadFields, s.pc = "weights",
         s.it = th[t].it, s.last = th[t].last, s.k = th[t].k, s.sum = th[t].sum, s.ops = th[t].ops,
         th[t].pc = "weights" \/ Op(t).from = None,
         UNCHANGED heapVars, UNCHANGED <<purged, phase, num, R, order, L, next, busy_rows>>,
         wt' \in [Columns -> Nat]
  PROVE  Inv'
  <1>1. MainTypes /\ ThreadTypes /\ ThreadType(t) /\ Ownership
    BY DEF Inv, ThreadTypes
  <1>2. phase = "apply" /\ UNCHANGED collecting
    BY <1>1, NonePending DEF heapVars
  <1>3. th'[t] = s
    BY <1>1 DEF ThreadTypes
  <1>4. ThreadType(t)'
    <2>1. IsWork(th[t].ops)'
      <3>1. IsWork(th[t].ops)
        BY <1>1 DEF ThreadType
      <3> QED BY <1>3, <3>1, WorkNext
    <2> QED BY <1>1, <1>3, <2>1, SameMatrix DEF ThreadType
  <1>5. Onward
    BY <1>1, <1>2 DEF Onward, MainTypes
  <1>6. Pending(t)' = Pending(t)
    BY <1>3 DEF Pending, Op
  <1>7. \A i \in RowNumbers : Owns(t, i)' => Owns(t, i)
    BY <1>3 DEF Owns
  <1>8. Winding => s.pc # "reserve" /\ s.it > s.last
    BY DEF Winding
  <1>9. num'.nmerges # 0
    BY <1>1 DEF Ownership
  <1> QED BY <1>2, <1>4, <1>5, <1>6, <1>7, <1>8, <1>9, ThreadAlone

LEMMA RemoveSafe ==
  ASSUME Inv, NEW t \in Threads, remove_row(t)
  PROVE  Inv'
  <1>1. MainTypes /\ ThreadTypes /\ ThreadType(t)
    BY DEF Inv, ThreadTypes
  <1>2. PICK todo : th' = [th EXCEPT ![t].pc = "weights", ![t].todo = todo]
    BY DEF remove_row
  <1>3. /\ phase = "apply" /\ th[t].pc = "merge" /\ Op(t).from = None /\ UNCHANGED heapVars
        /\ UNCHANGED <<purged, phase, num, wt, R, order, L, next, busy_rows>>
    BY DEF remove_row
  <1> DEFINE s == [th[t] EXCEPT !.pc = "weights", !.todo = todo]
  <1>4. th' = [th EXCEPT ![t] = s]
    BY <1>1, <1>2 DEF ThreadTypes
  <1>5. /\ DOMAIN s = ThreadFields /\ s.pc = "weights" /\ s.it = th[t].it /\ s.last = th[t].last
        /\ s.k = th[t].k /\ s.sum = th[t].sum /\ s.ops = th[t].ops
    BY <1>1 DEF ThreadType, ThreadFields
  <1> HIDE DEF s
  <1>6. wt' \in [Columns -> Nat]
    BY <1>1, <1>3 DEF MainTypes
  <1> QED BY <1>3, <1>4, <1>5, <1>6, AtWork

LEMMA CheckSafe ==
  ASSUME Inv, NEW t \in Threads, CheckWeight(t)
  PROVE  Inv'
  <1>1. MainTypes /\ ThreadTypes /\ ThreadType(t)
    BY DEF Inv, ThreadTypes
  <1>2. PICK seen, todo : th' = [th EXCEPT ![t].seen = seen, ![t].todo = todo]
    BY DEF CheckWeight
  <1>3. /\ th[t].pc = "weights" /\ UNCHANGED heapVars
        /\ UNCHANGED <<purged, phase, num, wt, R, order, L, next, busy_rows>>
    BY DEF CheckWeight
  <1> DEFINE s == [th[t] EXCEPT !.seen = seen, !.todo = todo]
  <1>4. th' = [th EXCEPT ![t] = s]
    BY <1>1, <1>2 DEF ThreadTypes
  <1>5. /\ DOMAIN s = ThreadFields /\ s.pc = "weights" /\ s.it = th[t].it /\ s.last = th[t].last
        /\ s.k = th[t].k /\ s.sum = th[t].sum /\ s.ops = th[t].ops
    BY <1>1, <1>3 DEF ThreadType, ThreadFields
  <1> HIDE DEF s
  <1>6. phase = "apply"
    BY <1>1, <1>3, NonePending
  <1>7. wt' \in [Columns -> Nat]
    BY <1>1, <1>3, <1>6 DEF MainTypes
  <1> QED BY <1>3, <1>4, <1>5, <1>7, AtWork

LEMMA UpdateSafe ==
  ASSUME Inv, NEW t \in Threads, UpdateWeight(t)
  PROVE  Inv'
  <1>1. MainTypes /\ ThreadTypes /\ ThreadType(t)
    BY DEF Inv, ThreadTypes
  <1>2. PICK todo : th' = [th EXCEPT ![t].seen = FALSE, ![t].todo = todo]
    BY DEF UpdateWeight
  <1>3. /\ th[t].pc = "weights" /\ UNCHANGED heapVars
        /\ UNCHANGED <<purged, phase, num, R, order, L, next, busy_rows>>
    BY DEF UpdateWeight
  <1> DEFINE s == [th[t] EXCEPT !.seen = FALSE, !.todo = todo]
  <1>4. th' = [th EXCEPT ![t] = s]
    BY <1>1, <1>2 DEF ThreadTypes
  <1>5. /\ DOMAIN s = ThreadFields /\ s.pc = "weights" /\ s.it = th[t].it /\ s.last = th[t].last
        /\ s.k = th[t].k /\ s.sum = th[t].sum /\ s.ops = th[t].ops
    BY <1>1, <1>3 DEF ThreadType, ThreadFields
  <1> HIDE DEF s
  <1>6. phase = "apply"
    BY <1>1, <1>3, NonePending
  <1>7. wt' \in [Columns -> Nat]
    <2>1. wt \in [Columns -> Nat]
      BY <1>1, <1>6 DEF MainTypes
    <2> DEFINE j == Head(th[t].todo)  d == IF Increases(t, j) THEN 1 ELSE -1
    <2>2. wt' = [wt EXCEPT ![j] = (wt[j] + d) % 256] /\ d \in {1, -1}
      BY DEF UpdateWeight
    <2> HIDE DEF j, d
    <2>3. CASE j \in Columns
      <3> DEFINE w == (wt[j] + d) % 256
      <3>1. w \in Nat
        <4>1. wt[j] \in Nat /\ d \in Int
          BY <2>1, <2>2, <2>3
        <4> QED BY <4>1
      <3> HIDE DEF w
      <3>2. wt' = [wt EXCEPT ![j] = w]
        BY <2>2 DEF w
      <3> QED BY <2>1, <3>1, <3>2
    <2>4. CASE j \notin Columns
      BY <2>1, <2>2, <2>4
    <2> QED BY <2>3, <2>4
  <1> QED BY <1>3, <1>4, <1>5, <1>7, AtWork

(* The sequential merge of a pass in which the threads were in each other's   *)
(* way.                                                                       *)
LEMMA ApplyFirstSafe ==
  ASSUME Inv, ApplyFirst
  PROVE  Inv'
  <1>1. /\ HeapTypes /\ PagesApart /\ Pointers /\ MainTypes /\ ThreadTypes /\ Ownership
        /\ Main \in Threads /\ ThreadType(Main)
    BY HeapAssumption DEF Inv, ThreadTypes
  <1> DEFINE t == Main  j == L[1]
  <1>2. PICK o \in Orders(j) : merge_do(t, o, th[t])
    BY DEF ApplyFirst
  <1> DEFINE s == [th[t] EXCEPT !.pc = "tree", !.tree = Seedling(o)]
  <1>3. /\ th' = [th EXCEPT ![t] = s]
        /\ UNCHANGED <<pages, full_pages, empty_pages, active_page, heap_waste,
                       current_generation, rows, collecting>>
        /\ UNCHANGED <<purged, phase, num, wt, R, order, L, next, busy_rows>>
    BY <1>2 DEF ApplyFirst, merge_do, heapVars
  <1>4. /\ phase = "apply" /\ num.nmerges = 0 /\ next > Len(L)
        /\ \A u \in Threads : th[u].pc = "loop" /\ th[u].it > th[u].last
    BY DEF ApplyFirst, ParallelSectionOver
  <1>5. j \in DOMAIN R
    <2>1. L \in Seq(DOMAIN R) /\ L # <<>>
      BY <1>1 DEF ApplyFirst, MainTypes
    <2> QED BY <2>1
  <1>6. o \in [1 .. Cardinality(R[j]) -> R[j]]
    BY <1>1, <1>2, <1>5 DEF Orders, MainTypes
  <1>7. /\ DOMAIN s = ThreadFields /\ s.pc = "tree" /\ s.tree = Seedling(o)
        /\ s.k = th[t].k /\ s.it = th[t].it /\ s.last = th[t].last /\ s.sum = th[t].sum
    BY <1>1 DEF ThreadType, ThreadFields
  <1>8. t \in Threads
    BY <1>1
  <1>9. ThreadType(t)
    BY <1>1
  <1> HIDE DEF s, t, j
  <1>10. o \in Seq(RowNumbers) /\ Len(o) = Cardinality(R[j]) /\ Len(o) >= 1
    BY <1>1, <1>5, <1>6, OrderedRows
  <1>11. IsTree(s.tree) /\ s.tree.ind = o
    BY <1>7, <1>10, SeedlingIsTree
  <1>12. th'[t] = s /\ \A u \in Threads : u # t => th'[u] = th[u]
    BY <1>1, <1>3, <1>8 DEF ThreadTypes
  <1>13. \A u \in Threads : Pending(u)' = Pending(u)
    <2>1. ASSUME NEW u \in Threads PROVE th'[u].pc # "weights" /\ th[u].pc # "weights"
      BY <1>4, <1>7, <1>12
    <2> QED BY <2>1 DEF Pending
  <1>14. HeapTypes' /\ PagesApart' /\ Pointers'
    <2>1. current_generation' \in Nat
      BY <1>1, <1>3 DEF HeapTypes
    <2> QED BY <1>1, <1>3, <1>13, <2>1, HeapStays
  <1>15. ThreadType(t)'
    <2>1. IsTree(th[t].tree)'
      BY <1>3, <1>11, <1>12, TreeNext
    <2>2. th[t].pc = "loop"
      BY <1>4, <1>8
    <2> QED BY <1>3, <1>7, <1>9, <1>12, <2>1, <2>2, SameMatrix DEF ThreadType
  <1>16. Onward
    BY <1>1, <1>3, <1>4, StandingStill
  <1>17. ASSUME NEW i \in RowNumbers, Owns(t, i)'
         PROVE  rows'[i] # NULL /\ \A u \in Threads : u # t => ~Owns(u, i)
    <2>1. PICK m \in 1 .. Len(o) : o[m] = i
      BY <1>7, <1>11, <1>12, <1>17 DEF Owns
    <2>2. i \in R[j]
      BY <1>6, <1>10, <2>1
    <2>3. rows[i] # NULL
      BY <1>1, <1>4, <1>5, <2>2 DEF Ownership
    <2> QED BY <1>3, <1>4, <2>3 DEF Owns
  <1>18. \A i \in RowNumbers : rows[i] # NULL /\ rows'[i] = NULL =>
           Owns(t, i) /\ ~Owns(t, i)' /\ num.nmerges # 0
    BY <1>3
  <1>19. Winding'
    <2>1. ASSUME NEW u \in Threads PROVE th'[u].pc # "reserve" /\ th'[u].it > th'[u].last
      BY <1>4, <1>7, <1>8, <1>12
    <2> QED BY <1>3, <1>4, <2>1 DEF Winding
  <1>20. s.pc \notin {"merge", "weights"}
    BY <1>7
  <1>21. MainTypes' /\ ThreadTypes' /\ Ownership'
    BY <1>1, <1>3, <1>4, <1>8, <1>15, <1>16, <1>17, <1>18, <1>19, <1>20, ThreadStep
  <1> QED BY <1>14, <1>21 DEF Inv

(* The end of a pass.                                                         *)
LEMMA EndSafe ==
  ASSUME Inv, EndPass
  PROVE  Inv'
  <1>1. HeapTypes /\ PagesApart /\ Pointers /\ MainTypes /\ ThreadTypes /\ Ownership
    BY DEF Inv
  <1>2. /\ phase = "apply" /\ \A u \in Threads : th[u].pc = "loop"
        /\ th' = [u \in Threads |-> Resting]
        /\ R' = <<>> /\ order' = <<>> /\ L' = <<>> /\ next' = 1 /\ busy_rows' = {}
        /\ UNCHANGED <<pages, full_pages, empty_pages, active_page, heap_waste,
                       current_generation, rows, collecting>>
        /\ UNCHANGED <<purged, wt>>
    BY DEF EndPass, ParallelSectionOver, heapVars
  <1>3. phase' = "recompress"
    BY DEF EndPass
  <1>4. DOMAIN num' = DOMAIN num /\ num'.cwmax = NextLevel /\ num'.nmerges = 0
    <2>1. DOMAIN num = NumFields
      BY <1>1 DEF MainTypes
    <2>2. DOMAIN num' = DOMAIN num
      BY DEF EndPass
    <2>3. num'.cwmax = NextLevel
      BY <2>1 DEF EndPass, NumFields
    <2>4. num'.nmerges = 0
      BY <2>1 DEF EndPass, NumFields
    <2> QED BY <2>2, <2>3, <2>4
  <1>5. num'.cwmax \in 2 .. MERGE_LEVEL_MAX
    <2>1. num.cwmax \in 2 .. MERGE_LEVEL_MAX /\ MERGE_LEVEL_MAX \in Nat /\ MERGE_LEVEL_MAX >= 3
      BY <1>1, MergeAssumption DEF MainTypes
    <2>2. NextLevel \in 2 .. MERGE_LEVEL_MAX
      BY <2>1 DEF NextLevel
    <2> QED BY <1>4, <2>2
  <1>6. RowNumbers' = RowNumbers /\ Columns' = Columns
    BY <1>2, SameMatrix
  <1>7. ASSUME NEW u \in Threads PROVE th'[u] = Resting /\ th'[u].pc = "loop"
    BY <1>2 DEF Resting
  <1>8. \A u \in Threads : Pending(u)' = Pending(u)
    BY <1>2, <1>7 DEF Pending
  <1>9. HeapTypes' /\ PagesApart' /\ Pointers'
    <2>1. current_generation' \in Nat
      BY <1>1, <1>2 DEF HeapTypes
    <2> QED BY <1>1, <1>2, <1>8, <2>1, HeapStays
  <1>10. MainTypes'
    <2>1. L' \in Seq(DOMAIN R') /\ next' \in 1 .. Len(L') + 1
      BY <1>2
    <2>2. DOMAIN R' = {} /\ DOMAIN order' = {}
      BY <1>2
    <2>3. /\ purged' \in Matrices /\ wt' \in [Columns' -> Nat]
          /\ phase' = "recompress"
          /\ \A u \in Threads : collecting'[u] = Idle
      BY <1>1, <1>2, <1>3, <1>6 DEF MainTypes
    <2>4. DOMAIN num' = NumFields
      BY <1>1, <1>4 DEF MainTypes
    <2> QED BY <1>2, <1>4, <1>5, <1>7, <2>1, <2>2, <2>3, <2>4 DEF MainTypes
  <1>11. ThreadTypes'
    <2>1. ASSUME NEW u \in Threads PROVE ThreadType(u)'
      <3>1. Len(L') = 0
        BY <1>2
      <3>2. /\ DOMAIN Resting = ThreadFields /\ Resting.pc = "loop" /\ Resting.it = 1
            /\ Resting.last = 0 /\ Resting.k = 1 /\ Resting.sum = {}
        BY DEF Resting, ThreadFields
      <3> QED BY <1>7, <2>1, <3>1, <3>2 DEF ThreadType
    <2> QED BY <1>2, <2>1 DEF ThreadTypes
  <1>12. Ownership'
    <2>1. \A u \in Threads : \A i : ~Owns(u, i)'
      BY <1>7 DEF Owns
    <2>2. DOMAIN R' = {}
      BY <1>2
    <2> QED BY <1>7, <2>1, <2>2 DEF Ownership
  <1> QED BY <1>9, <1>10, <1>11, <1>12 DEF Inv

(* What is left of a list without its first element.                          *)
LEMMA TailOf ==
  ASSUME NEW S, NEW seq \in Seq(S), Len(seq) >= 1
  PROVE  /\ Tail(seq) \in Seq(S) /\ Len(Tail(seq)) = Len(seq) - 1
         /\ \A m \in 1 .. Len(seq) - 1 : Tail(seq)[m] = seq[m + 1]
  OBVIOUS

(* The rows a thread works on are its own; the last thing is the removal.     *)
LEMMA OpRows ==
  ASSUME ThreadTypes, Ownership, purged \in Matrices,
         NEW t \in Threads, th[t].pc \in {"merge", "weights"}
  PROVE  /\ Op(t).to \in RowNumbers /\ Owns(t, Op(t).to) /\ rows[Op(t).to] # NULL
         /\ Op(t).from # None =>
              /\ Op(t).from \in RowNumbers /\ Owns(t, Op(t).from) /\ rows[Op(t).from] # NULL
              /\ Len(th[t].ops) > 1
         /\ Op(t).from = None => Len(th[t].ops) = 1
         /\ num.nmerges # 0
  <1> DEFINE ops == th[t].ops
  <1>1. IsWork(ops)
    BY DEF ThreadTypes, ThreadType
  <1>2. /\ Len(ops) \in Nat /\ Len(ops) >= 1 /\ Op(t) = ops[1] /\ ops[1] \in Addition \union Removal
        /\ ops[1].from = None <=> 1 = Len(ops)
    <2> DEFINE S == Addition \union Removal
    <2>1. ops \in Seq(S) /\ Len(ops) >= 1 /\ \A m \in 1 .. Len(ops) : ops[m].from = None <=> m = Len(ops)
      BY <1>1 DEF IsWork
    <2>2. Op(t) = Head(ops)
      BY DEF Op
    <2> HIDE DEF S, ops
    <2>3. Len(ops) \in Nat /\ 1 \in 1 .. Len(ops) /\ ops[1] \in S /\ Head(ops) = ops[1]
      BY <2>1
    <2> QED BY <2>1, <2>2, <2>3 DEF S
  <1>3. \A i \in RowNumbers : ops[1].to = i \/ ops[1].from = i => Owns(t, i) /\ rows[i] # NULL
    BY <1>2 DEF Owns, Ownership
  <1>4. None \notin RowNumbers
    BY MatrixRows
  <1> HIDE DEF ops
  <1>5. ops[1].to \in RowNumbers /\ (ops[1].from # None => ops[1].from \in RowNumbers)
    <2>1. CASE ops[1] \in Addition
      BY <2>1 DEF Addition
    <2>2. CASE ops[1] \in Removal
      BY <2>2 DEF Removal
    <2> QED BY <1>2, <2>1, <2>2
  <1>6. num.nmerges # 0
    BY DEF Ownership
  <1>7. Owns(t, ops[1].to) /\ rows[ops[1].to] # NULL
    BY <1>3, <1>5
  <1>8. ops[1].from # None => Owns(t, ops[1].from) /\ rows[ops[1].from] # NULL
    BY <1>3, <1>5
  <1>9. Len(ops) = Len(th[t].ops) /\ Op(t) = ops[1]
    BY <1>2 DEF ops
  <1>10. ops[1].from # None => Len(ops) > 1
    <2> DEFINE n == Len(ops)
    <2>1. n \in Nat /\ n >= 1
      BY <1>2
    <2>2. ops[1].from # None => n # 1
      BY <1>2
    <2> HIDE DEF n
    <2>3. n # 1 => n > 1
      BY <2>1
    <2> QED BY <2>2, <2>3 DEF n
  <1>11. ops[1].from = None => Len(ops) = 1
    BY <1>2
  <1> QED BY <1>5, <1>6, <1>7, <1>8, <1>9, <1>10, <1>11

LEMMA TailIsWork ==
  ASSUME NEW ops, IsWork(ops), Len(ops) > 1
  PROVE  /\ IsWork(Tail(ops)) /\ Len(Tail(ops)) = Len(ops) - 1
         /\ \A m \in 1 .. Len(Tail(ops)) : m + 1 \in 1 .. Len(ops) /\ Tail(ops)[m] = ops[m + 1]
  <1> DEFINE S == Addition \union Removal  rest == Tail(ops)  n == Len(ops)
  <1>1. ops \in Seq(S) /\ \A m \in 1 .. n : ops[m].from = None <=> m = n
    BY DEF IsWork
  <1> HIDE DEF S
  <1>2. n \in Nat /\ n > 1
    BY <1>1
  <1>3. rest \in Seq(S) /\ Len(rest) = n - 1 /\ \A m \in 1 .. n - 1 : rest[m] = ops[m + 1]
    BY <1>1, <1>2, TailOf
  <1> HIDE DEF rest, n
  <1>4. \A m \in 1 .. Len(rest) : m + 1 \in 1 .. n /\ rest[m] = ops[m + 1]
    BY <1>2, <1>3
  <1>5. \A m \in 1 .. Len(rest) : rest[m].from = None <=> m = Len(rest)
    BY <1>1, <1>2, <1>3, <1>4
  <1>6. IsWork(rest)
    BY <1>2, <1>3, <1>5 DEF IsWork, S
  <1> QED BY <1>3, <1>4, <1>6 DEF rest, n

LEMMA AddSafe ==
  ASSUME Inv, NEW t \in Threads, add_row(t)
  PROVE  Inv'
  <1>1. /\ HeapTypes /\ PagesApart /\ Pointers /\ MainTypes /\ ThreadTypes /\ Ownership
        /\ ThreadType(t) /\ purged \in Matrices
    BY DEF Inv, ThreadTypes, MainTypes
  <1> DEFINE i == Op(t).to  target == Row(Op(t).to)  source == Row(Op(t).from)
             size == Cardinality(target) + Cardinality(source)
             sum == SymmetricDifference(target, source)
  <1>2. /\ phase = "apply" /\ th[t].pc = "merge" /\ Op(t).from # None
        /\ UNCHANGED <<purged, phase, num, wt, R, order, L, next, busy_rows, Buf, history>>
        /\ \/ (heap_release_page(t, size) \/ heap_get_free_page(t)) /\ UNCHANGED th
           \/ /\ CanAlloc(t, size)
              /\ pages' = WithRow(t, i, size, {})
              /\ \E todo : th' = [th EXCEPT ![t].pc = "weights", ![t].todo = todo, ![t].sum = sum]
              /\ UNCHANGED <<full_pages, empty_pages, active_page, heap_waste,
                             current_generation, rows, collecting>>
    BY DEF add_row
  <1>3. i \in RowNumbers /\ rows[i] # NULL /\ num.nmerges # 0
    BY <1>1, <1>2, OpRows
  <1>4. size \in Nat /\ sum \in SUBSET Columns
    <2> DEFINE k == Op(t).from
    <2>1. k \in RowNumbers /\ rows[k] # NULL
      BY <1>1, <1>2, OpRows
    <2>2. target = Row(i) /\ source = Row(k)
      OBVIOUS
    <2> HIDE DEF i, k, target, source
    <2>3. target \in SUBSET Columns /\ source \in SUBSET Columns
      BY <1>1, <1>3, <2>1, <2>2, RowSpace
    <2>4. Cardinality(target) \in Nat /\ Cardinality(source) \in Nat
      BY <1>1, <2>3, MatrixRows
    <2> QED BY <2>3, <2>4 DEF SymmetricDifference
  <1> HIDE DEF i, size, sum
  <1>5. CASE (heap_release_page(t, size) \/ heap_get_free_page(t)) /\ UNCHANGED th
    <2>1. Pending(t) = None /\ \A u \in Threads : Pending(u)' = Pending(u)
      BY <1>2, <1>5 DEF Pending, Op
    <2>2. HeapTypes' /\ PagesApart' /\ Pointers' /\ UNCHANGED <<rows, collecting>>
      BY <1>1, <1>2, <1>5, <2>1, RoomMadeSafe
    <2>3. UNCHANGED mergeVars
      BY <1>2, <1>5 DEF mergeVars
    <2>4. MainTypes' /\ ThreadTypes' /\ Ownership'
      BY <1>1, <2>2, <2>3, ControlStays
    <2> QED BY <2>2, <2>4 DEF Inv
  <1>6. CASE /\ CanAlloc(t, size)
             /\ pages' = WithRow(t, i, size, {})
             /\ \E todo : th' = [th EXCEPT ![t].pc = "weights", ![t].todo = todo, ![t].sum = sum]
             /\ UNCHANGED <<full_pages, empty_pages, active_page, heap_waste,
                            current_generation, rows, collecting>>
    <2>0. PICK todo : th' = [th EXCEPT ![t].pc = "weights", ![t].todo = todo, ![t].sum = sum]
      BY <1>6
    <2> DEFINE s == [th[t] EXCEPT !.pc = "weights", !.todo = todo, !.sum = sum]
    <2>1. th' = [th EXCEPT ![t] = s]
      BY <1>1, <2>0 DEF ThreadTypes
    <2>2. /\ DOMAIN s = ThreadFields /\ s.pc = "weights" /\ s.it = th[t].it /\ s.last = th[t].last
          /\ s.k = th[t].k /\ s.sum = sum /\ s.ops = th[t].ops
      BY <1>1 DEF ThreadType, ThreadFields
    <2> HIDE DEF s
    <2>3. th'[t] = s /\ \A u \in Threads : u # t => th'[u] = th[u]
      BY <1>1, <2>1 DEF ThreadTypes
    <2>4. /\ Pending(t) = None /\ Pending(t)' = i
          /\ \A u \in Threads : u # t => Pending(u)' = Pending(u)
      <3>1. Op(t)' = Op(t)
        BY <2>2, <2>3 DEF Op
      <3>2. Pending(t) = None /\ Pending(t)' = i
        BY <1>2, <2>2, <2>3, <3>1 DEF Pending, i
      <3>3. ASSUME NEW u \in Threads, u # t PROVE Pending(u)' = Pending(u)
        BY <2>3, <3>3 DEF Pending, Op
      <3> QED BY <3>2, <3>3
    <2>5. active_page[t] # None
      BY <1>6 DEF CanAlloc
    <2>6. HeapTypes' /\ PagesApart' /\ Pointers'
      BY <1>1, <1>2, <1>3, <1>4, <1>6, <2>4, <2>5, RoomSafe
    <2>7. ThreadType(t)'
      <3>1. IsWork(th[t].ops)'
        <4>1. IsWork(th[t].ops)
          BY <1>1, <1>2 DEF ThreadType
        <4> QED BY <1>2, <2>2, <2>3, <4>1, WorkNext
      <3> QED BY <1>1, <1>2, <1>4, <2>2, <2>3, <3>1, SameMatrix DEF ThreadType
    <2>8. Onward
      BY <1>1, <1>2, <1>6, StandingStill
    <2>9. \A x \in RowNumbers : Owns(t, x)' => Owns(t, x)
      BY <1>2, <2>2, <2>3 DEF Owns
    <2>10. \A x \in RowNumbers : Owns(t, x)' =>
             rows'[x] # NULL /\ \A u \in Threads : u # t => ~Owns(u, x)
      BY <1>1, <1>6, <2>9 DEF Ownership
    <2>11. \A x \in RowNumbers : rows[x] # NULL /\ rows'[x] = NULL =>
             Owns(t, x) /\ ~Owns(t, x)' /\ num.nmerges # 0
      BY <1>6
    <2>12. \/ Winding'
           \/ ~Winding /\ \A x \in RowNumbers : Owns(t, x)' => x \in busy_rows'
      <3>1. CASE Winding
        BY <1>2, <2>2, <2>3, <3>1 DEF Winding
      <3>2. CASE ~Winding
        BY <1>1, <1>2, <2>9, <3>2 DEF Ownership
      <3> QED BY <3>1, <3>2
    <2>13. num'.nmerges # 0
      BY <1>2, <1>3
    <2>14. MainTypes' /\ ThreadTypes' /\ Ownership'
      BY <1>1, <1>2, <2>1, <2>7, <2>8, <2>10, <2>11, <2>12, <2>13, ThreadStep
    <2> QED BY <2>6, <2>14 DEF Inv
  <1> QED BY <1>2, <1>5, <1>6

LEMMA FinishSafe ==
  ASSUME Inv, NEW t \in Threads, FinishOp(t)
  PROVE  Inv'
  <1>1. /\ HeapTypes /\ PagesApart /\ Pointers /\ MainTypes /\ ThreadTypes /\ Ownership
        /\ ThreadType(t) /\ purged \in Matrices
    BY DEF Inv, ThreadTypes, MainTypes
  <1> DEFINE i == Op(t).to  ops == th[t].ops  rest == Tail(ops)  cells == th[t].sum
             pc == IF Len(ops) > 1 THEN "merge" ELSE "loop"
             s == [th[t] EXCEPT !.pc = pc, !.ops = rest, !.sum = {}]
  <1>2. /\ th[t].pc = "weights"
        /\ IF Op(t).from # None THEN ReplaceRow(t, i, cells) ELSE DestroyRow(t, i)
        /\ UNCHANGED <<purged, phase, num, wt, R, order, L, next, busy_rows, Buf, history>>
    BY DEF FinishOp
  <1>3. /\ i \in RowNumbers /\ rows[i] # NULL /\ Owns(t, i) /\ num.nmerges # 0
        /\ Op(t).from # None => Len(ops) > 1
        /\ Op(t).from = None => Len(ops) = 1
    BY <1>1, <1>2, OpRows
  <1>4. th' = [th EXCEPT ![t] = s]
    BY <1>1 DEF FinishOp, ThreadTypes
  <1>5. /\ DOMAIN s = ThreadFields /\ s.pc = pc /\ s.it = th[t].it /\ s.last = th[t].last
        /\ s.k = th[t].k /\ s.sum = {} /\ s.ops = rest
    BY <1>1 DEF ThreadType, ThreadFields
  <1>6. IsWork(ops) /\ cells \in SUBSET Columns
    BY <1>1, <1>2 DEF ThreadType
  <1>7. phase = "apply"
    BY <1>1, <1>2, NonePending
  <1>8. pc = IF Len(ops) > 1 THEN "merge" ELSE "loop"
    OBVIOUS
  <1>9. Len(ops) > 1 => /\ IsWork(rest)
                        /\ \A m \in 1 .. Len(rest) : m + 1 \in 1 .. Len(ops) /\ rest[m] = ops[m + 1]
    <2>1. ASSUME Len(ops) > 1 PROVE IsWork(rest)
      BY <1>6, <2>1, TailIsWork
    <2>2. ASSUME Len(ops) > 1
          PROVE  \A m \in 1 .. Len(rest) : m + 1 \in 1 .. Len(ops) /\ rest[m] = ops[m + 1]
      BY <1>6, <2>2, TailIsWork
    <2> QED BY <2>1, <2>2
  <1>10. Pending(t) = IF Op(t).from # None THEN i ELSE None
    BY <1>2 DEF Pending
  <1>11. ops = th[t].ops
    OBVIOUS
  <1> HIDE DEF i, ops, rest, cells, pc, s
  <1>12. th'[t] = s /\ \A u \in Threads : u # t => th'[u] = th[u]
    BY <1>1, <1>4 DEF ThreadTypes
  <1>13. Pending(t)' = None
    BY <1>5, <1>8, <1>12 DEF Pending
  <1>14. \A u \in Threads : u # t => Pending(u)' = Pending(u)
    BY <1>12 DEF Pending, Op
  <1>15. /\ HeapTypes' /\ PagesApart' /\ Pointers'
         /\ \A x \in RowNumbers : rows[x] # NULL /\ rows'[x] = NULL => x = i /\ Op(t).from = None
         /\ UNCHANGED collecting
    <2>1. CASE Op(t).from # None
      <3>1. ReplaceRow(t, i, cells) /\ Pending(t) = i
        BY <1>2, <1>10, <2>1
      <3>2. HeapTypes' /\ PagesApart' /\ Pointers'
        BY <1>1, <1>2, <1>3, <1>6, <1>13, <1>14, <3>1, ReplaceSafe
      <3>3. active_page[t] # None
        BY <1>1, <1>3, <3>1, MatrixRows DEF Pointers, PendingLast
      <3> DEFINE a == active_page[t]  last == Len(pages[a].data)
      <3>4. rows' = [rows EXCEPT ![i] = <<a, last>>] /\ UNCHANGED collecting
        BY <3>1 DEF ReplaceRow
      <3> HIDE DEF last
      <3>5. <<a, last>> # NULL
        BY <3>3 DEF NULL, None
      <3>6. \A x \in RowNumbers : rows[x] # NULL => rows'[x] # NULL
        BY <1>1, <3>4, <3>5 DEF HeapTypes
      <3> QED BY <3>2, <3>4, <3>6
    <2>2. CASE Op(t).from = None
      <3>1. DestroyRow(t, i) /\ Pending(t) = None
        BY <1>2, <1>10, <2>2
      <3>2. \A u \in Threads : Pending(u)' = Pending(u)
        BY <1>13, <1>14, <3>1
      <3>3. HeapTypes' /\ PagesApart' /\ Pointers'
        BY <1>1, <1>2, <1>3, <3>1, <3>2, DestroySafe
      <3>4. rows' = [rows EXCEPT ![i] = NULL] /\ UNCHANGED collecting
        BY <3>1 DEF DestroyRow
      <3>5. \A x \in RowNumbers : rows[x] # NULL /\ rows'[x] = NULL => x = i
        BY <1>1, <3>4 DEF HeapTypes
      <3> QED BY <2>2, <3>3, <3>4, <3>5
    <2> QED BY <2>1, <2>2
  <1>16. ThreadType(t)'
    <2>1. Len(ops) > 1 => IsWork(th[t].ops)'
      <3>1. ASSUME IsWork(rest) PROVE IsWork(th[t].ops)'
        BY <1>2, <1>5, <1>12, <3>1, WorkNext
      <3> QED BY <1>9, <3>1
    <2> QED BY <1>1, <1>2, <1>5, <1>8, <1>12, <2>1, SameMatrix DEF ThreadType
  <1>17. Onward
    BY <1>1, <1>2, <1>7, <1>15, StandingStill
  <1>18. ASSUME NEW x \in RowNumbers, Owns(t, x)' PROVE Owns(t, x) /\ Len(ops) > 1
    <2>1. Len(ops) > 1
      BY <1>5, <1>8, <1>12, <1>18 DEF Owns
    <2>2. PICK m \in 1 .. Len(rest) : rest[m].to = x \/ rest[m].from = x
      BY <1>5, <1>8, <1>12, <1>18, <2>1 DEF Owns
    <2> DEFINE n == m + 1
    <2>3. n \in 1 .. Len(ops) /\ rest[m] = ops[n]
      BY <1>9, <2>1, <2>2
    <2> HIDE DEF n
    <2> QED BY <1>2, <1>11, <2>1, <2>2, <2>3 DEF Owns
  <1>19. \A x \in RowNumbers : rows[x] # NULL /\ rows'[x] = NULL =>
           Owns(t, x) /\ ~Owns(t, x)' /\ num.nmerges # 0
    <2>1. ASSUME NEW x \in RowNumbers, rows[x] # NULL, rows'[x] = NULL
          PROVE  Owns(t, x) /\ ~Owns(t, x)' /\ num.nmerges # 0
      <3>1. x = i /\ Len(ops) = 1
        BY <1>3, <1>15, <2>1
      <3>2. ~Owns(t, x)'
        <4>1. ~(Len(ops) > 1)
          BY <3>1
        <4> QED BY <1>18, <4>1
      <3> QED BY <1>3, <3>1, <3>2
    <2> QED BY <2>1
  <1>20. \A x \in RowNumbers : Owns(t, x)' =>
           rows'[x] # NULL /\ \A u \in Threads : u # t => ~Owns(u, x)
    <2>1. ASSUME NEW x \in RowNumbers, Owns(t, x)'
          PROVE  rows'[x] # NULL /\ \A u \in Threads : u # t => ~Owns(u, x)
      <3>1. Owns(t, x) /\ rows[x] # NULL
        BY <1>1, <1>18, <2>1 DEF Ownership
      <3>2. rows'[x] # NULL
        BY <1>19, <2>1, <3>1
      <3> QED BY <1>1, <3>1, <3>2 DEF Ownership
    <2> QED BY <2>1
  <1>21. \/ Winding'
         \/ ~Winding /\ \A x \in RowNumbers : Owns(t, x)' => x \in busy_rows'
    <2>1. CASE Winding
      BY <1>2, <1>5, <1>8, <1>12, <2>1 DEF Winding
    <2>2. CASE ~Winding
      BY <1>1, <1>2, <1>18, <2>2 DEF Ownership
    <2> QED BY <2>1, <2>2
  <1>22. num'.nmerges # 0
    BY <1>2, <1>3
  <1>23. MainTypes' /\ ThreadTypes' /\ Ownership'
    BY <1>1, <1>4, <1>7, <1>16, <1>17, <1>19, <1>20, <1>21, <1>22, ThreadStep
  <1> QED BY <1>15, <1>23 DEF Inv

-------------------------------------------------------------------------------
(* The theorems.                                                              *)

LEMMA NextSafe ==
  ASSUME Inv, WeightsExact, [Next]_vars
  PROVE  Inv'
  <1>1. ASSUME NEW t \in Threads, Step(t) PROVE Inv'
    <2>1. CASE CollectGarbage(t)
      BY <2>1, CollectSafe
    <2>2. CASE TakeChunk(t)
      BY <2>2, TakeSafe
    <2>3. CASE LookAtRows(t)
      BY <2>3, LookSafe
    <2>4. CASE Reserve(t)
      BY <2>4, ReserveSafe
    <2>5. CASE Merge(t)
      BY <2>5, MergeSafe
    <2>6. CASE GrowTree(t)
      BY <2>6, GrowSafe
    <2>7. CASE MergeRows(t)
      BY <2>7, RowsMergedSafe
    <2>8. CASE add_row(t)
      BY <2>8, AddSafe
    <2>9. CASE remove_row(t)
      BY <2>9, RemoveSafe
    <2>10. CASE CheckWeight(t)
      BY <2>10, CheckSafe
    <2>11. CASE UpdateWeight(t)
      BY <2>11, UpdateSafe
    <2>12. CASE FinishOp(t)
      BY <2>12, FinishSafe
    <2>13. CASE insert_rel_into_table(t)
      BY <2>13, ReadSafe
    <2> QED BY <1>1, <2>1, <2>2, <2>3, <2>4, <2>5, <2>6, <2>7, <2>8, <2>9, <2>10, <2>11, <2>12,
               <2>13
            DEF Step
  <1>2. ASSUME Sequential PROVE Inv'
    <2>1. CASE CostBelowZero \/ Recompress \/ TestEnd
      BY <2>1, CountedSafe
    <2>2. CASE compute_weights
      BY <2>2, WeightsSafe
    <2>3. CASE StartPass
      BY <2>3, PassSafe
    <2>4. CASE GarbageCollected
      BY <2>4, CollectedSafe
    <2>5. CASE Prepare
      BY <2>5, PrepareSafe
    <2>6. CASE ApplyFirst
      BY <2>6, ApplyFirstSafe
    <2>7. CASE EndPass
      BY <2>7, EndSafe
    <2> QED BY <1>2, <2>1, <2>2, <2>3, <2>4, <2>5, <2>6, <2>7 DEF Sequential
  <1>3. CASE UNCHANGED vars
    BY <1>3, StutterSafe
  <1> QED BY <1>1, <1>2, <1>3 DEF Next, Done

(* For any matrices, threads and sizes of pages: pages are in one place each, *)
(* pointers lead to rows, a row belongs to one thread at most while merges    *)
(* are applied, and what a thread has to do concerns rows that exist.  The    *)
(* weights are taken to be right between passes: with weights that are wrong  *)
(* compute_R() may list no row at all for a column (filter/merge.c:838,       *)
(* :1207, :1421).                                                             *)
THEOREM HeapInvariant == Spec /\ []WeightsExact => []Inv
  <1>1. Init => Inv
    BY InitSafe
  <1>2. Inv /\ WeightsExact /\ [Next]_vars => Inv'
    BY NextSafe
  <1> QED BY <1>1, <1>2, PTL DEF Spec

(* How many elements of a set there are that are the same.                    *)
LEMMA AtMostOne ==
  ASSUME NEW S, \A x, y \in S : x = y
  PROVE  /\ (\E x \in S : TRUE) => Cardinality(S) = 1
         /\ ~(\E x \in S : TRUE) => Cardinality(S) = 0
  <1>1. ASSUME NEW x \in S PROVE Cardinality(S) = 1
    <2>1. S = {x}
      BY <1>1
    <2> QED BY <2>1, FS_Singleton
  <1>2. ASSUME ~(\E x \in S : TRUE) PROVE Cardinality(S) = 0
    <2>1. S = {}
      BY <1>2
    <2> QED BY <2>1, FS_EmptySet
  <1> QED BY <1>1, <1>2

LEMMA PlacesOfPages ==
  ASSUME HeapTypes, PagesApart
  PROVE  PagesInOnePlace
  <1> SUFFICES ASSUME NEW p \in DOMAIN pages
               PROVE  Cardinality({i \in DOMAIN full_pages : full_pages[i] = p})
                      + Cardinality({i \in DOMAIN empty_pages : empty_pages[i] = p})
                      + Cardinality({t \in Threads : active_page[t] = p})
                      + Cardinality({t \in Threads : collecting[t].page = p}) = 1
    BY Zenon DEF PagesInOnePlace
  <1> DEFINE F == {i \in DOMAIN full_pages : full_pages[i] = p}
             E == {i \in DOMAIN empty_pages : empty_pages[i] = p}
             A == {t \in Threads : active_page[t] = p}
             C == {t \in Threads : collecting[t].page = p}
  <1>1. /\ p \in 1 .. Len(pages) /\ p # None
        /\ DOMAIN full_pages = 1 .. Len(full_pages) /\ DOMAIN empty_pages = 1 .. Len(empty_pages)
    BY DEF HeapTypes, None
  <1>2. OnePlace(p)
    BY <1>1 DEF PagesApart
  <1>3. /\ \A x, y \in F : x = y
        /\ \A x, y \in E : x = y
        /\ \A x, y \in A : x = y
        /\ \A x, y \in C : x = y
    BY <1>1 DEF PagesApart
  <1>4. /\ IsFull(p) <=> \E x \in F : TRUE
        /\ IsEmpty(p) <=> \E x \in E : TRUE
        /\ IsActive(p) <=> \E x \in A : TRUE
        /\ IsCollected(p) <=> \E x \in C : TRUE
    BY <1>1 DEF IsFull, IsEmpty, IsActive, IsCollected
  <1> HIDE DEF F, E, A, C
  <1>5. Cardinality(F) = IF IsFull(p) THEN 1 ELSE 0
    BY <1>3, <1>4, AtMostOne
  <1>6. Cardinality(E) = IF IsEmpty(p) THEN 1 ELSE 0
    BY <1>3, <1>4, AtMostOne
  <1>7. Cardinality(A) = IF IsActive(p) THEN 1 ELSE 0
    BY <1>3, <1>4, AtMostOne
  <1>8. Cardinality(C) = IF IsCollected(p) THEN 1 ELSE 0
    BY <1>3, <1>4, AtMostOne
  <1>9. Cardinality(F) + Cardinality(E) + Cardinality(A) + Cardinality(C) = 1
    BY <1>2, <1>5, <1>6, <1>7, <1>8 DEF OnePlace
  <1> QED BY <1>9 DEF F, E, A, C

LEMMA PointersOfRows ==
  ASSUME HeapTypes, Pointers, purged \in Matrices
  PROVE  PointersGood
  <1>1. /\ DOMAIN pages = 1 .. Len(pages) /\ DOMAIN rows = RowNumbers
        /\ DOMAIN empty_pages = 1 .. Len(empty_pages)
    BY DEF HeapTypes
  <1>2. \A p : p \in ToSet(empty_pages) <=> IsEmpty(p)
    BY <1>1 DEF ToSet, IsEmpty
  <1>3. ASSUME NEW i \in DOMAIN rows, rows[i] # NULL
        PROVE  rows[i][1] \in DOMAIN pages \ ToSet(empty_pages) /\ RowAt(rows[i]).row = i
    BY <1>1, <1>2, <1>3 DEF Pointers, RowsReached, RowAt, Number
  <1>4. ASSUME NEW p \in PagesInUse, NEW k \in DOMAIN pages[p].data
        PROVE  \/ pages[p].data[k].row = Destroyed \/ rows[pages[p].data[k].row] = <<p, k>>
               \/ \E t \in Threads : active_page[t] = p /\ k = Len(pages[p].data)
    <2>1. p \in 1 .. Len(pages) /\ ~IsEmpty(p) /\ \A t \in Threads : collecting[t].page # p
      BY <1>1, <1>2 DEF PagesInUse
    <2>2. k \in 1 .. PageLen(p)
      BY <2>1, PageRows DEF PageLen
    <2> QED BY <2>1, <2>2 DEF Pointers, RowsAccounted, Number, PageLen
  <1> QED BY <1>3, <1>4 DEF PointersGood

(* Every page is active for one thread, full, empty or being collected; the   *)
(* pointer of a row leads to a row of that number in a page that is not       *)
(* empty, and what is in use in a page is what a pointer leads to, but for    *)
(* the row a thread is about to finish: heap_malloc(), heap_resize_last_row(),*)
(* heap_destroy_row() and heap_garbage_collection() as add_row(), remove_row()*)
(* and the main loop use them in parallel (filter/merge_heap.c:73, :104,      *)
(* :123, :138, :280).                                                         *)
THEOREM HeapKept == Spec /\ []WeightsExact => []HeapSound
  <1>1. Inv => HeapSound
    <2>1. ASSUME Inv PROVE HeapSound
      <3>1. HeapTypes /\ PagesApart /\ Pointers /\ purged \in Matrices
        BY <2>1 DEF Inv, MainTypes
      <3> QED BY <3>1, PlacesOfPages, PointersOfRows DEF HeapSound
    <2> QED BY <2>1
  <1> QED BY <1>1, HeapInvariant, PTL
================================================================================
