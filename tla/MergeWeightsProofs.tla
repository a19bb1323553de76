-------------------------- MODULE MergeWeightsProofs --------------------------
(* Theorems about the weights of the columns that the threads of merge keep by *)
(* atomic updates, for any matrices, threads and sizes of pages: they are those*)
(* of the matrix if no weight a thread has compared is changed past the largest*)
(* weight that is kept before the thread updates it.  Then a merge removes the *)
(* column it is about, and the rows and columns left are as many as counted.   *)
EXTENDS MergePassesProofs

-------------------------------------------------------------------------------
(* What the threads have still to count.                                       *)

(* decrease_weight() and increase_weight() compare a weight and then update it:*)
(* what a thread has found is still so (filter/merge.c:689, :705).             *)
NoRace ==
  \A t \in Threads : th[t].seen => wt[Head(th[t].todo)] <= MERGE_LEVEL_MAX

(* The row whose columns get other weights.                                    *)
Source(t) == Row(IF Op(t).from = None THEN Op(t).to ELSE Op(t).from)

(* Each column of it has its turn once.                                        *)
Weighing(t) ==
  /\ th[t].seen => th[t].pc = "weights" /\ Len(th[t].todo) >= 1
  /\ th[t].pc = "weights" =>
       /\ th[t].todo \in Seq(Source(t))
       /\ \A a, b \in 1 .. Len(th[t].todo) : th[t].todo[a] = th[t].todo[b] => a = b
       /\ Op(t).from # None => th[t].sum = SymmetricDifference(Row(Op(t).to), Row(Op(t).from))

Weighed(t, j) ==
  /\ th[t].pc = "weights" /\ j \in Source(t)
  /\ \A m \in 1 .. Len(th[t].todo) : th[t].todo[m] # j

(* The threads that have counted column j in a row that does not have it yet,  *)
(* and those that count it no more in a row that still has it.                 *)
Early(j) == {t \in Threads : Weighed(t, j) /\ Increases(t, j)}
Late(j) == {t \in Threads : Weighed(t, j) /\ ~Increases(t, j)}

Balanced(j) ==
  \/ wt[j] > MERGE_LEVEL_MAX
  \/ wt[j] + Cardinality(Late(j)) = TrueWeight(j) + Cardinality(Early(j))

Weights ==
  phase # "read" => (\A t \in Threads : Weighing(t)) /\ \A j \in Columns : Balanced(j)

-------------------------------------------------------------------------------
(* What the rows hold.                                                         *)

(* The steps that leave each row as it is, also if it moves.                   *)
RowsStay ==
  \A i \in RowNumbers : /\ rows'[i] = NULL <=> rows[i] = NULL
                        /\ rows[i] # NULL => Row(i)' = Row(i)

(* A row of that size and columns is written behind those of page a.           *)
RowBehind(a, i, size, cells) ==
  /\ Len(pages') = Len(pages)
  /\ \A p \in 1 .. Len(pages) : p # a => pages'[p] = pages[p]
  /\ pages'[a].ptr = pages[a].ptr + size + 2
  /\ pages'[a].data = Append(pages[a].data, [row |-> i, size |-> size, cells |-> cells])

LEMMA WrittenAt ==
  ASSUME HeapTypes, NEW t \in Threads, active_page[t] # None,
         NEW i \in RowNumbers, NEW size \in Nat, NEW cells \in SUBSET Columns,
         pages' = WithRow(t, i, size, cells),
         NEW a, a = active_page[t]
  PROVE  a \in 1 .. Len(pages) /\ RowBehind(a, i, size, cells)
  <1> DEFINE b == active_page[t]
             chunk == [row |-> i, size |-> size, cells |-> cells]
             page == [pages[b] EXCEPT !.ptr = @ + size + 2, !.data = Append(@, chunk)]
             d == Append(pages[b].data, chunk)  n == pages[b].ptr + size + 2
  <1>1. b \in 1 .. Len(pages) /\ pages \in Seq(Page)
    BY PagesListed DEF HeapTypes
  <1>2. pages[b] \in [generation : Nat, ptr : Int, data : Seq(Chunk)]
    <2>1. pages[b] \in Page
      BY <1>1, PageRows
    <2> QED BY <2>1 DEF Page
  <1>3. pages' = [pages EXCEPT ![b] = page]
    BY <1>1 DEF WithRow, HeapTypes, Page
  <1>4. /\ chunk = [row |-> i, size |-> size, cells |-> cells] /\ d = Append(pages[b].data, chunk)
        /\ n = pages[b].ptr + size + 2 /\ page = [pages[b] EXCEPT !.ptr = n, !.data = d]
        /\ a = b
    OBVIOUS
  <1> HIDE DEF b, chunk, d, n, page
  <1>5. page.ptr = n /\ page.data = d
    BY <1>2, <1>4
  <1>6. pages'[b] = page /\ Len(pages') = Len(pages)
        /\ \A p \in 1 .. Len(pages) : p # b => pages'[p] = pages[p]
    BY <1>1, <1>3
  <1> QED BY <1>1, <1>4, <1>5, <1>6 DEF RowBehind

(* `marked` is `held` with the k-th row of page p marked as garbage.           *)
Struck(marked, held, p, k) ==
  /\ Len(marked) = Len(held)
  /\ \A q \in 1 .. Len(held) : q # p => marked[q] = held[q]
  /\ marked[p].ptr = held[p].ptr
  /\ marked[p].data = [held[p].data EXCEPT ![k] = [held[p].data[k] EXCEPT !.row = Destroyed]]

LEMMA DestroyedAt ==
  ASSUME NEW held \in Seq(Page), NEW p \in 1 .. Len(held), NEW k \in 1 .. Len(held[p].data),
         NEW marked, marked = DestroyedIn(held, <<p, k>>)
  PROVE  Struck(marked, held, p, k)
  <1> DEFINE chunk == [held[p].data[k] EXCEPT !.row = Destroyed]
             data == [held[p].data EXCEPT ![k] = chunk]
             page == [held[p] EXCEPT !.data = data]
  <1>1. held[p] \in [generation : Nat, ptr : Int, data : Seq(Chunk)]
    <2>1. held[p] \in Page
      OBVIOUS
    <2> QED BY <2>1 DEF Page
  <1>2. marked = [held EXCEPT ![p] = page]
    BY DEF DestroyedIn
  <1>3. data = [held[p].data EXCEPT ![k] = chunk] /\ page = [held[p] EXCEPT !.data = data]
    OBVIOUS
  <1>4. data = [held[p].data EXCEPT ![k] = [held[p].data[k] EXCEPT !.row = Destroyed]]
    OBVIOUS
  <1> HIDE DEF chunk, data, page
  <1>5. page.ptr = held[p].ptr /\ page.data = data
    BY <1>1, <1>3
  <1>6. /\ Len(marked) = Len(held) /\ marked[p] = page
        /\ \A q \in 1 .. Len(held) : q # p => marked[q] = held[q]
    BY <1>2
  <1> QED BY <1>4, <1>5, <1>6 DEF Struck

(* A row gets its size and its columns.                                        *)
LEMMA ResizedAt ==
  ASSUME HeapTypes, NEW a \in 1 .. Len(pages), NEW last \in 1 .. PageLen(a),
         NEW chunk, NEW delta,
         NEW held, held = [pages EXCEPT ![a].ptr = @ - delta, ![a].data[last] = chunk]
  PROVE  /\ Len(held) = Len(pages)
         /\ \A q \in 1 .. Len(pages) : q # a => held[q] = pages[q]
         /\ held[a].ptr = pages[a].ptr - delta
         /\ held[a].data = [pages[a].data EXCEPT ![last] = chunk]
  <1> DEFINE data == [pages[a].data EXCEPT ![last] = chunk]
             ptr == pages[a].ptr - delta
             page == [pages[a] EXCEPT !.ptr = ptr, !.data = data]
  <1>1. pages[a] \in [generation : Nat, ptr : Int, data : Seq(Chunk)] /\ pages \in Seq(Page)
    <2>1. pages[a] \in Page /\ pages \in Seq(Page)
      BY PageRows DEF HeapTypes
    <2>2. pages[a] \in [generation : Nat, ptr : Int, data : Seq(Chunk)]
      BY <2>1 DEF Page
    <2> QED BY <2>1, <2>2
  <1>2. held = [pages EXCEPT ![a] = page]
    OBVIOUS
  <1>3. data = [pages[a].data EXCEPT ![last] = chunk] /\ ptr = pages[a].ptr - delta
        /\ page = [pages[a] EXCEPT !.ptr = ptr, !.data = data]
    OBVIOUS
  <1> HIDE DEF data, ptr, page
  <1>4. page.ptr = ptr /\ page.data = data
    BY <1>1, <1>3
  <1>5. /\ Len(held) = Len(pages) /\ held[a] = page
        /\ \A q \in 1 .. Len(pages) : q # a => held[q] = pages[q]
    <2>1. pages \in Seq(Page) /\ a \in 1 .. Len(pages)
      BY <1>1
    <2>2. \A q \in 1 .. Len(pages) : held[q] = IF q = a THEN page ELSE pages[q]
      BY <1>2, <2>1
    <2>3. Len(held) = Len(pages)
      BY <1>2, <2>1
    <2> QED BY <2>1, <2>2, <2>3
  <1> QED BY <1>3, <1>4, <1>5

(* The end of add_row(): what was last in the active page becomes the row.     *)
LEMMA ReplacedRow ==
  ASSUME HeapTypes, Pointers, purged \in Matrices, UNCHANGED purged,
         NEW t \in Threads, NEW i \in RowNumbers, rows[i] # NULL, Pending(t) = i,
         NEW cells \in SUBSET Columns, ReplaceRow(t, i, cells)
  PROVE  /\ rows'[i] # NULL /\ Row(i)' = cells
         /\ \A x \in RowNumbers : x # i => /\ rows'[x] = rows[x]
                                           /\ rows[x] # NULL => Row(x)' = Row(x)
  <1> DEFINE a == active_page[t]
             last == Len(pages[a].data)
             chunk == [pages[a].data[last] EXCEPT !.size = Cardinality(cells), !.cells = cells]
             delta == pages[a].data[last].size - Cardinality(cells)
             held == [pages EXCEPT ![a].ptr = @ - delta, ![a].data[last] = chunk]
             p == rows[i][1]  k == rows[i][2]
  <1>1. pages' = DestroyedIn(held, rows[i]) /\ rows' = [rows EXCEPT ![i] = <<a, last>>]
    BY DEF ReplaceRow
  <1>2. /\ a \in 1 .. Len(pages) /\ last \in 1 .. PageLen(a) /\ a # None
        /\ Number(a, last) = i /\ rows[i] # <<a, last>>
    <2>1. /\ active_page[t] # None /\ PageLen(active_page[t]) >= 1
          /\ Number(active_page[t], PageLen(active_page[t])) = i
          /\ rows[i] # <<active_page[t], PageLen(active_page[t])>>
      BY MatrixRows DEF Pointers, PendingLast
    <2>2. a \in 1 .. Len(pages)
      BY <2>1, PagesListed
    <2>3. PageLen(a) \in Nat /\ last = PageLen(a)
      BY <2>2, PageRows DEF PageLen
    <2> QED BY <2>1, <2>2, <2>3
  <1>3. /\ p \in 1 .. Len(pages) /\ k \in 1 .. PageLen(p) /\ rows[i] = <<p, k>> /\ Number(p, k) = i
    <2>1. rows[i] \in Nat \X Nat
      BY DEF HeapTypes
    <2> QED BY <2>1 DEF Pointers, RowsReached
  <1>4. chunk \in Chunk /\ chunk.row = Number(a, last) /\ chunk.cells = cells
    <2> DEFINE old == pages[a].data[last]  size == Cardinality(cells)
    <2>1. old \in Chunk /\ size \in Nat
      BY <1>2, PageRows, MatrixRows
    <2>2. chunk = [old EXCEPT !.size = size, !.cells = cells] /\ Number(a, last) = old.row
      BY DEF Number
    <2> HIDE DEF a, last, chunk, old, size
    <2> QED BY <2>1, <2>2 DEF Chunk
  <1>5. delta \in Int
    <2>1. pages[a].data[last] \in Chunk /\ Cardinality(cells) \in Nat
      BY <1>2, PageRows, MatrixRows
    <2> DEFINE old == pages[a].data[last]  n == Cardinality(cells)
    <2>2. old.size \in Nat /\ n \in Nat
      BY <2>1 DEF Chunk
    <2> HIDE DEF old, n
    <2>3. old.size - n \in Int
      BY <2>2
    <2> QED BY <2>3 DEF old, n
  <1>6. held = [pages EXCEPT ![a].ptr = @ - delta, ![a].data[last] = chunk]
    OBVIOUS
  <1> HIDE DEF a, last, chunk, delta, held, p, k
  <1>7. Alike(held, pages)
    BY <1>2, <1>4, <1>5, <1>6, RowResized
  <1>8. /\ \A q \in 1 .. Len(pages) : q # a => held[q] = pages[q]
        /\ held[a].data = [pages[a].data EXCEPT ![last] = chunk]
    BY <1>2, <1>6, ResizedAt
  <1>9. held \in Seq(Page) /\ p \in 1 .. Len(held) /\ k \in 1 .. Len(held[p].data)
    BY <1>3, <1>7 DEF Alike, PageLen
  <1>10. pages' = DestroyedIn(held, <<p, k>>)
    BY <1>1, <1>3
  <1>11. Struck(pages', held, p, k)
    BY <1>9, <1>10, DestroyedAt
  <1>12. ASSUME NEW q \in 1 .. Len(pages), NEW m \in 1 .. PageLen(q), ~(q = p /\ m = k)
         PROVE  pages'[q].data[m] = IF q = a /\ m = last THEN chunk ELSE pages[q].data[m]
    <2>1. Len(held) = Len(pages) /\ Len(held[q].data) = PageLen(q) /\ held[q] \in Page
      BY <1>7 DEF Alike, PageLen
    <2>2. pages'[q].data[m] = held[q].data[m]
      <3>1. CASE q # p
        BY <1>11, <2>1, <3>1 DEF Struck
      <3>2. CASE q = p
        <4>1. m # k /\ held[q].data \in Seq(Chunk) /\ m \in 1 .. Len(held[q].data)
          BY <1>12, <2>1, <3>2 DEF Page
        <4> QED BY <1>11, <3>2, <4>1 DEF Struck
      <3> QED BY <3>1, <3>2
    <2>3. held[q].data[m] = IF q = a /\ m = last THEN chunk ELSE pages[q].data[m]
      <3>1. CASE q # a
        BY <1>8, <3>1
      <3>2. CASE q = a
        <4>1. pages[a].data \in Seq(Chunk) /\ m \in 1 .. Len(pages[a].data)
          BY <1>2, <3>2, PageRows DEF PageLen
        <4> QED BY <1>8, <3>2, <4>1
      <3> QED BY <3>1, <3>2
    <2> QED BY <2>2, <2>3
  <1>13. rows'[i] = <<a, last>> /\ \A x \in RowNumbers : x # i => rows'[x] = rows[x]
    BY <1>1 DEF HeapTypes
  <1>14. Row(i)' = cells
    <2>1. ~(a = p /\ last = k)
      BY <1>2, <1>3
    <2>2. pages'[a].data[last] = chunk
      BY <1>2, <1>12, <2>1
    <2> QED BY <1>4, <1>13, <2>2 DEF Row, RowAt
  <1>15. ASSUME NEW x \in RowNumbers, x # i, rows[x] # NULL PROVE Row(x)' = Row(x)
    <2> DEFINE q == rows[x][1]  m == rows[x][2]
    <2>1. q \in 1 .. Len(pages) /\ m \in 1 .. PageLen(q) /\ Number(q, m) = x
      BY <1>15 DEF Pointers, RowsReached
    <2>2. ~(q = p /\ m = k) /\ ~(q = a /\ m = last)
      BY <1>2, <1>3, <1>15, <2>1
    <2>3. pages'[q].data[m] = pages[q].data[m]
      BY <1>12, <2>1, <2>2
    <2> QED BY <1>13, <1>15, <2>3 DEF Row, RowAt
  <1>16. rows'[i] # NULL
    BY <1>2, <1>13 DEF NULL, None
  <1> QED BY <1>13, <1>14, <1>15, <1>16

(* The end of remove_row().                                                    *)
LEMMA RemovedRow ==
  ASSUME HeapTypes, Pointers, NEW t \in Threads, NEW i \in RowNumbers, rows[i] # NULL,
         DestroyRow(t, i)
  PROVE  /\ rows'[i] = NULL
         /\ \A x \in RowNumbers : x # i => /\ rows'[x] = rows[x]
                                           /\ rows[x] # NULL => Row(x)' = Row(x)
  <1> DEFINE p == rows[i][1]  k == rows[i][2]
  <1>1. pages' = DestroyedIn(pages, rows[i]) /\ rows' = [rows EXCEPT ![i] = NULL]
    BY DEF DestroyRow
  <1>2. /\ p \in 1 .. Len(pages) /\ k \in 1 .. PageLen(p) /\ rows[i] = <<p, k>> /\ Number(p, k) = i
    <2>1. rows[i] \in Nat \X Nat
      BY DEF HeapTypes
    <2> QED BY <2>1 DEF Pointers, RowsReached
  <1>3. rows'[i] = NULL /\ \A x \in RowNumbers : x # i => rows'[x] = rows[x]
    BY <1>1 DEF HeapTypes
  <1> HIDE DEF p, k
  <1>4. pages \in Seq(Page) /\ k \in 1 .. Len(pages[p].data) /\ pages' = DestroyedIn(pages, <<p, k>>)
    BY <1>1, <1>2 DEF HeapTypes, PageLen
  <1>5. Struck(pages', pages, p, k)
    BY <1>2, <1>4, DestroyedAt
  <1>6. ASSUME NEW x \in RowNumbers, x # i, rows[x] # NULL PROVE Row(x)' = Row(x)
    <2> DEFINE q == rows[x][1]  m == rows[x][2]
    <2>1. q \in 1 .. Len(pages) /\ m \in 1 .. PageLen(q) /\ Number(q, m) = x
      BY <1>6 DEF Pointers, RowsReached
    <2>2. ~(q = p /\ m = k)
      BY <1>2, <1>6, <2>1
    <2> HIDE DEF q, m
    <2>3. pages'[q].data[m] = pages[q].data[m]
      <3>1. CASE q # p
        BY <1>5, <2>1, <3>1 DEF Struck
      <3>2. CASE q = p
        <4>1. m # k /\ pages[q].data \in Seq(Chunk) /\ m \in 1 .. Len(pages[q].data)
          BY <2>1, <2>2, <3>2, PageRows DEF PageLen
        <4> QED BY <1>5, <3>2, <4>1 DEF Struck
      <3> QED BY <3>1, <3>2
    <2> QED BY <1>3, <1>6, <2>3 DEF Row, RowAt, q, m
  <1> QED BY <1>3, <1>6

(* Rows stay where pages only get more of them.                                *)
LEMMA PlacesStay ==
  ASSUME HeapTypes, Pointers, UNCHANGED rows,
         \A p \in 1 .. Len(pages) : ~IsEmpty(p) =>
           \A k \in 1 .. PageLen(p) : pages'[p].data[k] = pages[p].data[k]
  PROVE  RowsStay
  <1>1. ASSUME NEW i \in RowNumbers, rows[i] # NULL PROVE Row(i)' = Row(i)
    <2> DEFINE p == rows[i][1]  k == rows[i][2]
    <2>1. p \in 1 .. Len(pages) /\ k \in 1 .. PageLen(p) /\ ~IsEmpty(p)
      BY <1>1 DEF Pointers, RowsReached
    <2>2. pages'[p].data[k] = pages[p].data[k]
      BY <2>1
    <2> QED BY <2>2 DEF Row, RowAt
  <1> QED BY <1>1 DEF RowsStay

(* Room for a row leaves the rows as they are.                                 *)
LEMMA RoomStays ==
  ASSUME HeapTypes, PagesApart, Pointers, NEW t \in Threads, NEW size, UNCHANGED purged,
         heap_release_page(t, size) \/ heap_get_free_page(t)
  PROVE  RowsStay
  <1>1. CASE heap_release_page(t, size)
    <2>1. UNCHANGED <<pages, rows>>
      BY <1>1 DEF heap_release_page
    <2> QED BY <2>1, PlacesStay
  <1>2. CASE heap_get_free_page(t)
    <2> DEFINE a == active_page'[t]
    <2>1. /\ \A x \in 1 .. Len(pages') : x # a => x \in 1 .. Len(pages) /\ pages'[x] = pages[x]
          /\ a \in 1 .. Len(pages) => IsEmpty(a)
          /\ Len(pages) <= Len(pages') /\ HeapTypes'
      BY <1>2, FreePageApart
    <2>2. UNCHANGED rows
      BY <1>2 DEF heap_get_free_page
    <2> HIDE DEF a
    <2>3. ASSUME NEW p \in 1 .. Len(pages), ~IsEmpty(p) PROVE pages'[p] = pages[p]
      <3>1. p # a
        BY <2>1, <2>3
      <3>2. Len(pages) \in Nat /\ Len(pages') \in Nat
        BY <2>1 DEF HeapTypes
      <3>3. p \in 1 .. Len(pages')
        BY <2>1, <3>2
      <3> QED BY <2>1, <3>1, <3>3
    <2>4. \A p \in 1 .. Len(pages) : ~IsEmpty(p) =>
            \A k \in 1 .. PageLen(p) : pages'[p].data[k] = pages[p].data[k]
      BY <2>3
    <2> QED BY <2>2, <2>4, PlacesStay
  <1> QED BY <1>1, <1>2

(* What a page has is there when a row is written behind it.                   *)
LEMMA WrittenStays ==
  ASSUME HeapTypes, NEW t \in Threads, active_page[t] # None,
         NEW i \in RowNumbers, NEW size \in Nat, NEW cells \in SUBSET Columns,
         pages' = WithRow(t, i, size, cells),
         NEW a, a = active_page[t]
  PROVE  /\ \A p \in 1 .. Len(pages) : \A k \in 1 .. PageLen(p) : pages'[p].data[k] = pages[p].data[k]
         /\ pages'[a].data[PageLen(a) + 1] = [row |-> i, size |-> size, cells |-> cells]
  <1> DEFINE chunk == [row |-> i, size |-> size, cells |-> cells]
  <1>1. /\ a \in 1 .. Len(pages)
        /\ \A p \in 1 .. Len(pages) : p # a => pages'[p] = pages[p]
        /\ pages'[a].data = Append(pages[a].data, chunk)
    BY WrittenAt DEF RowBehind
  <1> HIDE DEF chunk
  <1>2. pages[a].data \in Seq(Chunk) /\ PageLen(a) = Len(pages[a].data)
    BY <1>1, PageRows DEF PageLen
  <1>3. /\ \A k \in 1 .. PageLen(a) : pages'[a].data[k] = pages[a].data[k]
        /\ pages'[a].data[PageLen(a) + 1] = chunk
    BY <1>1, <1>2
  <1>4. ASSUME NEW p \in 1 .. Len(pages), NEW k \in 1 .. PageLen(p)
        PROVE  pages'[p].data[k] = pages[p].data[k]
    BY <1>1, <1>3
  <1> QED BY <1>3, <1>4 DEF chunk

(* A row is written once more.                                                 *)
LEMMA CopiedStays ==
  ASSUME HeapTypes, Pointers, NEW t \in Threads, active_page[t] # None,
         NEW i \in RowNumbers, rows[i] # NULL, NEW size \in Nat,
         NEW cells \in SUBSET Columns, cells = Row(i),
         pages' = WithRow(t, i, size, cells), rows' = [rows EXCEPT ![i] = Allocated(t)]
  PROVE  RowsStay
  <1> SUFFICES ASSUME NEW a, a = active_page[t], NEW m, m = PageLen(a) + 1
               PROVE  RowsStay
    OBVIOUS
  <1>1. \A q \in 1 .. Len(pages) : \A k \in 1 .. PageLen(q) : pages'[q].data[k] = pages[q].data[k]
    BY WrittenStays
  <1>2. pages'[a].data[m] = [row |-> i, size |-> size, cells |-> cells]
    BY WrittenStays
  <1>3. rows'[i] = <<a, m>> /\ \A x \in RowNumbers : x # i => rows'[x] = rows[x]
    BY DEF HeapTypes, Allocated, PageLen
  <1>4. rows'[i] # NULL
    BY <1>3 DEF NULL, None
  <1>5. Row(i)' = Row(i)
    <2>1. Row(i)' = RowAt(<<a, m>>)'.cells
      BY ONLY <1>3 DEF Row, RowAt
    <2>2. RowAt(<<a, m>>)' = pages'[a].data[m]
      BY ONLY TRUE DEF RowAt
    <2> QED BY <1>2, <2>1, <2>2
  <1>6. ASSUME NEW x \in RowNumbers, x # i, rows[x] # NULL PROVE Row(x)' = Row(x)
    <2> DEFINE q == rows[x][1]  k == rows[x][2]
    <2>1. q \in 1 .. Len(pages) /\ k \in 1 .. PageLen(q)
      BY <1>6 DEF Pointers, RowsReached
    <2>2. pages'[q].data[k] = pages[q].data[k]
      BY <1>1, <2>1
    <2>3. rows'[x] = rows[x]
      BY <1>3, <1>6
    <2> QED BY <2>2, <2>3 DEF Row, RowAt
  <1> QED BY <1>3, <1>4, <1>5, <1>6 DEF RowsStay

(* A row that is in use moves with what it holds.                              *)
LEMMA MovedStays ==
  ASSUME HeapTypes, PagesApart, Pointers, NEW t \in Threads, MoveRow(t), UNCHANGED purged,
         \A u \in Threads : Pending(u) = None
  PROVE  RowsStay
  <1> DEFINE p == collecting[t].page  at == collecting[t].at  chunk == Head(Left(t))
  <1>1. /\ p # None /\ Left(t) # <<>> /\ chunk.row # Destroyed
        /\ \/ heap_release_page(t, chunk.size)
           \/ heap_get_free_page(t)
           \/ /\ CanAlloc(t, chunk.size)
              /\ pages' = WithRow(t, chunk.row, chunk.size, chunk.cells)
              /\ rows' = [rows EXCEPT ![chunk.row] = Allocated(t)]
    BY DEF MoveRow
  <1>2. /\ p \in 1 .. Len(pages) /\ at \in Nat /\ at >= 1 /\ at \in 1 .. PageLen(p)
        /\ chunk \in Chunk /\ chunk.row = Number(p, at) /\ chunk = pages[p].data[at]
    BY <1>1, LeftRows
  <1>3. p = collecting[t].page /\ at = collecting[t].at
    OBVIOUS
  <1> HIDE DEF p, at, chunk
  <1>4. CASE heap_release_page(t, chunk.size) \/ heap_get_free_page(t)
    <2> DEFINE size == chunk.size
    <2>1. heap_release_page(t, size) \/ heap_get_free_page(t)
      BY <1>4
    <2> HIDE DEF size
    <2> QED BY <2>1, RoomStays
  <1>5. CASE /\ CanAlloc(t, chunk.size)
             /\ pages' = WithRow(t, chunk.row, chunk.size, chunk.cells)
             /\ rows' = [rows EXCEPT ![chunk.row] = Allocated(t)]
    <2> DEFINE i == chunk.row  size == chunk.size  cells == chunk.cells  a == active_page[t]
    <2>1. i \in RowNumbers /\ size \in Nat /\ cells \in SUBSET Columns
      BY <1>1, <1>2 DEF Chunk
    <2>2. active_page[t] # None /\ a = active_page[t] /\ a # None
      BY <1>5 DEF CanAlloc
    <2>3. rows[i] = <<p, at>>
      <3>1. ~IsEmpty(p)
        BY <1>2, <1>3 DEF PagesApart, OnePlace, IsCollected
      <3>2. \A u \in Threads : collecting[u].page = p => u = t
        BY <1>1, <1>3 DEF PagesApart
      <3>3. ~\E u \in Threads : collecting[u].page = p /\ at < collecting[u].at
        BY <3>2, <1>2, <1>3
      <3> QED BY <1>1, <1>2, <3>1, <3>3 DEF Pointers, RowsAccounted
    <2>4. pages' = WithRow(t, i, size, cells)
      BY <1>5
    <2>5. rows' = [rows EXCEPT ![i] = Allocated(t)]
      BY <1>5
    <2>6. rows[i] # NULL /\ cells = Row(i)
      BY <1>1, <1>2, <2>3 DEF NULL, None, Row, RowAt
    <2> HIDE DEF i, size, cells, a
    <2> QED BY <2>1, <2>2, <2>4, <2>5, <2>6, CopiedStays
  <1> QED BY <1>1, <1>4, <1>5

(* Collecting garbage leaves the rows as they are.                             *)
LEMMA CollectStays ==
  ASSUME Inv, NEW t \in Threads, CollectGarbage(t)
  PROVE  RowsStay
  <1>1. phase = "gc" /\ Collect(t) /\ UNCHANGED purged
    BY DEF CollectGarbage, mergeVars
  <1>2. HeapTypes /\ PagesApart /\ Pointers /\ MainTypes
    BY DEF Inv
  <1>3. \A u \in Threads : Pending(u) = None
    BY <1>1, <1>2, NonePending
  <1>4. CASE MoveRow(t)
    BY <1>1, <1>2, <1>3, <1>4, MovedStays
  <1>5. CASE heap_get_full_page(t) \/ SkipGarbage(t) \/ heap_clear_page(t) \/ LeaveCollection(t)
    <2>1. UNCHANGED <<pages, rows>>
      BY <1>5 DEF heap_get_full_page, SkipGarbage, heap_clear_page, LeaveCollection
    <2> QED BY <1>2, <2>1, PlacesStay
  <1> QED BY <1>1, <1>4, <1>5 DEF Collect

-------------------------------------------------------------------------------
(* Steps that leave the weights in balance.                                    *)

(* The rows with a column are those of the matrix.                             *)
LEMMA SameWeights ==
  ASSUME HeapTypes, RowsStay, rows' \in [RowNumbers -> Nat \X Nat], NEW j
  PROVE  RowsWith(j)' = RowsWith(j) /\ TrueWeight(j)' = TrueWeight(j)
  <1>1. DOMAIN rows = RowNumbers /\ DOMAIN rows' = RowNumbers
    BY DEF HeapTypes
  <1>2. RowsWith(j)' = RowsWith(j)
    BY <1>1 DEF RowsWith, Live, RowsStay
  <1> QED BY <1>2 DEF TrueWeight

(* What a thread has counted is counted after a step as well.                  *)
SameCount(t) ==
  /\ Weighing(t)'
  /\ \A j : (Weighed(t, j)' <=> Weighed(t, j)) /\ (Weighed(t, j) => (Increases(t, j)' <=> Increases(t, j)))

(* A step that leaves rows and weights, and what each thread counts.           *)
LEMMA BalanceStays ==
  ASSUME HeapTypes, HeapTypes', RowsStay, UNCHANGED <<purged, wt>>,
         \A t \in Threads : SameCount(t), \A j \in Columns : Balanced(j)
  PROVE  Weights'
  <1>1. Columns' = Columns /\ rows' \in [RowNumbers -> Nat \X Nat]
    BY SameMatrix DEF HeapTypes
  <1>2. ASSUME NEW j \in Columns PROVE Balanced(j)'
    <2>1. TrueWeight(j)' = TrueWeight(j)
      BY <1>1, SameWeights
    <2>2. Early(j)' = Early(j) /\ Late(j)' = Late(j)
      <3>1. \A t \in Threads : (Weighed(t, j)' <=> Weighed(t, j))
                                /\ (Weighed(t, j) => (Increases(t, j)' <=> Increases(t, j)))
        BY DEF SameCount
      <3> QED BY <3>1 DEF Early, Late
    <2>3. Balanced(j)
      OBVIOUS
    <2> QED BY <2>1, <2>2, <2>3 DEF Balanced
  <1>3. \A t \in Threads : Weighing(t)'
    BY DEF SameCount
  <1> QED BY <1>1, <1>2, <1>3 DEF Weights

(* The columns of a row, each once.                                            *)
LEMMA InOrder ==
  ASSUME NEW S \in SUBSET Nat, IsFiniteSet(S), NEW s \in InSequence(S)
  PROVE  /\ s \in Seq(S)
         /\ \A a, b \in 1 .. Len(s) : s[a] = s[b] => a = b
         /\ \A x \in S : \E m \in 1 .. Len(s) : s[m] = x
  <1> DEFINE n == Cardinality(S)
  <1>1. n \in Nat /\ s \in [1 .. n -> S] /\ \A a, b \in 1 .. n : a < b => s[a] < s[b]
    BY FS_CardinalityType DEF InSequence
  <1> HIDE DEF n
  <1>2. s \in Seq(S) /\ Len(s) = n
    BY <1>1
  <1>3. \A a, b \in 1 .. n : s[a] = s[b] => a = b
    <2> SUFFICES ASSUME NEW a \in 1 .. n, NEW b \in 1 .. n, s[a] = s[b] PROVE a = b
      OBVIOUS
    <2>1. s[a] \in Nat /\ s[b] \in Nat
      BY <1>1
    <2>2. ~(s[a] < s[b]) /\ ~(s[b] < s[a])
      BY <2>1
    <2>3. ~(a < b) /\ ~(b < a)
      BY <1>1, <2>2
    <2> QED BY <2>3, <1>1
  <1>4. s \in Injection(1 .. n, S)
    BY <1>1, <1>3 DEF Injection, IsInjective
  <1>5. IsFiniteSet(1 .. n) /\ Cardinality(1 .. n) = n
    BY <1>1, FS_Interval
  <1>6. s \in Surjection(1 .. n, S)
    BY <1>4, <1>5, FS_Injection DEF n
  <1> QED BY <1>2, <1>3, <1>6 DEF Surjection

(* The work of a thread concerns the same columns while its rows stay.         *)
LEMMA SourceStays ==
  ASSUME ThreadTypes, Ownership, purged \in Matrices,
         NEW u \in Threads, th[u].pc \in {"merge", "weights"}, th'[u].ops = th[u].ops,
         \A x \in RowNumbers : Owns(u, x) => Row(x)' = Row(x)
  PROVE  /\ Op(u)' = Op(u) /\ Row(Op(u).to)' = Row(Op(u).to)
         /\ Op(u).from # None => Row(Op(u).from)' = Row(Op(u).from)
         /\ Source(u)' = Source(u)
         /\ \A j : Increases(u, j)' <=> Increases(u, j)
  <1>1. Op(u)' = Op(u)
    BY DEF Op
  <1>2. /\ Op(u).to \in RowNumbers /\ Owns(u, Op(u).to)
        /\ Op(u).from # None => Op(u).from \in RowNumbers /\ Owns(u, Op(u).from)
    BY OpRows
  <1>3. \A x : x = Op(u).to => Row(x)' = Row(x)
    BY <1>2
  <1>4. \A x : x = Op(u).from /\ x # None => Row(x)' = Row(x)
    BY <1>2
  <1>5. Row(Op(u).to)' = Row(Op(u).to)
    BY <1>1, <1>3 DEF Row, RowAt
  <1>6. Op(u).from # None => Row(Op(u).from)' = Row(Op(u).from)
    BY <1>1, <1>4 DEF Row, RowAt
  <1>7. Source(u)' = Source(u)
    BY <1>1, <1>3, <1>4 DEF Source, Row, RowAt
  <1>8. \A j : Increases(u, j)' <=> Increases(u, j)
    BY <1>1, <1>5 DEF Increases
  <1> QED BY <1>1, <1>5, <1>6, <1>7, <1>8

(* A thread that does nothing.                                                 *)
LEMMA OtherThread ==
  ASSUME ThreadTypes, Ownership, purged \in Matrices,
         NEW u \in Threads, th'[u] = th[u], Weighing(u),
         \A x \in RowNumbers : Owns(u, x) => Row(x)' = Row(x)
  PROVE  SameCount(u)
  <1>1. CASE th[u].pc # "weights"
    BY <1>1 DEF SameCount, Weighing, Weighed
  <1>2. CASE th[u].pc = "weights"
    <2>1. /\ Op(u)' = Op(u) /\ Row(Op(u).to)' = Row(Op(u).to)
          /\ Op(u).from # None => Row(Op(u).from)' = Row(Op(u).from)
          /\ Source(u)' = Source(u)
          /\ \A j : Increases(u, j)' <=> Increases(u, j)
      BY <1>2, SourceStays
    <2>2. Weighing(u)'
      BY <1>2, <2>1 DEF Weighing, SymmetricDifference
    <2>3. \A j : Weighed(u, j)' <=> Weighed(u, j)
      BY <1>2, <2>1 DEF Weighed
    <2> QED BY <2>1, <2>2, <2>3 DEF SameCount
  <1> QED BY <1>1, <1>2

(* The rows of a thread stay if all do.                                        *)
LEMMA OthersCount ==
  ASSUME Inv, RowsStay, NEW u \in Threads, th'[u] = th[u], Weighing(u)
  PROVE  SameCount(u)
  <1>1. ThreadTypes /\ Ownership /\ purged \in Matrices
    BY DEF Inv, MainTypes
  <1>2. \A x \in RowNumbers : Owns(u, x) => Row(x)' = Row(x)
    BY <1>1 DEF Ownership, RowsStay
  <1> QED BY <1>1, <1>2, OtherThread

(* A thread that counts nothing before and after a step.                       *)
LEMMA NotCounting ==
  ASSUME NEW t \in Threads, th[t].pc # "weights", th'[t].pc # "weights", ~th'[t].seen
  PROVE  SameCount(t)
  BY DEF SameCount, Weighing, Weighed

(* A step of one thread that counts what it counted.                           *)
LEMMA ThreadCounts ==
  ASSUME Inv, HeapTypes', Weights, phase # "read", RowsStay, UNCHANGED <<purged, wt>>,
         NEW t \in Threads, NEW s, th' = [th EXCEPT ![t] = s], SameCount(t)
  PROVE  Weights'
  <1>1. HeapTypes /\ DOMAIN th = Threads
    BY DEF Inv, ThreadTypes
  <1>2. \A u \in Threads : u # t => th'[u] = th[u]
    BY <1>1
  <1>3. \A u \in Threads : Weighing(u)
    BY DEF Weights
  <1>4. \A u \in Threads : SameCount(u)
    BY <1>2, <1>3, OthersCount
  <1>5. \A j \in Columns : Balanced(j)
    BY DEF Weights
  <1> QED BY <1>1, <1>4, <1>5, BalanceStays

(* Nobody counts anything.                                                     *)
LEMMA NobodyCounts ==
  ASSUME Inv, HeapTypes', Weights, phase # "read", RowsStay, UNCHANGED <<purged, wt>>,
         \A t \in Threads : th[t].pc # "weights" /\ th'[t].pc # "weights" /\ ~th'[t].seen
  PROVE  Weights'
  <1>1. \A t \in Threads : SameCount(t)
    BY NotCounting
  <1> QED BY <1>1, BalanceStays DEF Weights, Inv

(* Rows stay where nothing of the heap changes.                                *)
LEMMA SameRows ==
  ASSUME UNCHANGED <<pages, rows>>
  PROVE  RowsStay
  BY DEF RowsStay, Row, RowAt

LEMMA CountsAtPass ==
  ASSUME Inv, Inv', Weights,
         \/ StartPass \/ GarbageCollected \/ Prepare
         \/ CostBelowZero \/ Recompress \/ TestEnd
  PROVE  Weights'
  <1>1. /\ phase \in {"pass", "gc", "prepare", "recompress", "test"}
        /\ UNCHANGED <<pages, rows, purged, wt, th>>
    BY DEF StartPass, GarbageCollected, Prepare, CostBelowZero, Recompress, TestEnd, heapVars
  <1>2. \A t \in Threads : th[t] = Resting
    BY <1>1 DEF Inv, MainTypes
  <1>3. \A t \in Threads : th[t].pc # "weights" /\ th'[t].pc # "weights" /\ ~th'[t].seen
    BY <1>1, <1>2 DEF Resting
  <1>4. RowsStay
    BY <1>1, SameRows
  <1> QED BY <1>1, <1>3, <1>4, NobodyCounts DEF Inv

LEMMA CountsAtCollection ==
  ASSUME Inv, Inv', Weights, NEW t \in Threads, CollectGarbage(t)
  PROVE  Weights'
  <1>1. phase = "gc" /\ UNCHANGED <<purged, wt, th>>
    BY DEF CollectGarbage, mergeVars
  <1>2. \A u \in Threads : th[u] = Resting
    BY <1>1 DEF Inv, MainTypes
  <1>3. \A u \in Threads : th[u].pc # "weights" /\ th'[u].pc # "weights" /\ ~th'[u].seen
    BY <1>1, <1>2 DEF Resting
  <1>4. RowsStay
    BY CollectStays
  <1> QED BY <1>1, <1>3, <1>4, NobodyCounts DEF Inv

LEMMA CountsAtEnd ==
  ASSUME Inv, Inv', Weights, EndPass
  PROVE  Weights'
  <1>1. /\ phase = "apply" /\ \A u \in Threads : th[u].pc = "loop"
        /\ UNCHANGED <<pages, rows, purged, wt>> /\ th' = [u \in Threads |-> Resting]
    BY DEF EndPass, ParallelSectionOver, heapVars
  <1>2. \A u \in Threads : th[u].pc # "weights" /\ th'[u].pc # "weights" /\ ~th'[u].seen
    BY <1>1 DEF Resting
  <1>3. RowsStay
    BY <1>1, SameRows
  <1> QED BY <1>1, <1>2, <1>3, NobodyCounts DEF Inv

(* The weights are right when they are counted.                                *)
LEMMA CountsAtFirst ==
  ASSUME Inv, Inv', compute_weights
  PROVE  Weights'
  <1>1. /\ phase = "read" /\ UNCHANGED <<pages, rows, purged, th>>
        /\ wt' = [j \in Columns |-> TrueWeight(j)]
    BY DEF compute_weights, heapVars
  <1>2. \A t \in Threads : th'[t] = Resting
    BY <1>1 DEF Inv, MainTypes
  <1>3. \A t \in Threads : th'[t].pc # "weights" /\ ~th'[t].seen
    BY <1>2 DEF Resting
  <1>4. \A t \in Threads : Weighing(t)' /\ \A j : ~Weighed(t, j)'
    BY <1>3 DEF Weighing, Weighed
  <1>5. Columns' = Columns
    BY <1>1, SameMatrix
  <1>6. ASSUME NEW j \in Columns PROVE Balanced(j)'
    <2>1. TrueWeight(j)' = TrueWeight(j) /\ TrueWeight(j) \in Nat
      <3>1. RowsStay /\ rows' \in [RowNumbers -> Nat \X Nat] /\ HeapTypes /\ purged \in Matrices
        BY <1>1, SameRows DEF Inv, HeapTypes, MainTypes
      <3> QED BY <3>1, SameWeights, RowsCountable
    <2>2. Early(j)' = {} /\ Late(j)' = {}
      BY <1>4 DEF Early, Late
    <2>3. Cardinality(Early(j)') = 0 /\ Cardinality(Late(j)') = 0
      BY <2>2, FS_EmptySet
    <2>4. wt'[j] = TrueWeight(j)
      BY <1>1
    <2> QED BY <2>1, <2>3, <2>4 DEF Balanced
  <1> QED BY <1>4, <1>5, <1>6 DEF Weights

(* Merges are taken, rows reserved, the tree is found.                         *)
LEMMA OnTheWay ==
  ASSUME Inv, NEW t \in Threads,
         TakeChunk(t) \/ LookAtRows(t) \/ Reserve(t) \/ Merge(t) \/ GrowTree(t) \/ MergeRows(t)
  PROVE  \E s : /\ th' = [th EXCEPT ![t] = s] /\ s.seen = th[t].seen
               /\ s.pc # "weights" /\ th[t].pc # "weights"
  <1>1. DOMAIN th = Threads /\ DOMAIN th[t] = ThreadFields
    BY DEF Inv, ThreadTypes, ThreadType
  <1>2. CASE TakeChunk(t)
    <2>1. th[t].pc = "loop" /\ \E it, last : th' = [th EXCEPT ![t].it = it, ![t].last = last]
      BY <1>2 DEF TakeChunk, Looping
    <2>2. PICK it, last : th' = [th EXCEPT ![t].it = it, ![t].last = last]
      BY <2>1
    <2> DEFINE s == [th[t] EXCEPT !.it = it, !.last = last]
    <2>3. th' = [th EXCEPT ![t] = s]
      BY <1>1, <2>2
    <2>4. s.seen = th[t].seen /\ s.pc = "loop"
      BY <1>1, <2>1 DEF ThreadFields
    <2> QED BY <2>1, <2>3, <2>4
  <1>3. CASE LookAtRows(t)
    <2> DEFINE s1 == NextMerge(th[t])  s2 == [th[t] EXCEPT !.pc = "reserve"]
    <2>1. th[t].pc = "loop" /\ (th' = [th EXCEPT ![t] = s1] \/ th' = [th EXCEPT ![t] = s2])
      BY <1>3 DEF LookAtRows, Looping
    <2>2. s1.seen = th[t].seen /\ s1.pc = "loop" /\ s2.seen = th[t].seen /\ s2.pc = "reserve"
      BY <1>1 DEF ThreadFields, NextMerge
    <2> QED BY <2>1, <2>2
  <1>4. CASE Reserve(t)
    <2> DEFINE s1 == NextMerge(th[t])  s2 == [th[t] EXCEPT !.k = @ + 1]
    <2>1. th[t].pc = "reserve" /\ (th' = [th EXCEPT ![t] = s1] \/ th' = [th EXCEPT ![t] = s2])
      BY <1>4, Zenon DEF Reserve
    <2>2. s1.seen = th[t].seen /\ s1.pc = "loop" /\ s2.seen = th[t].seen /\ s2.pc = th[t].pc
      BY <1>1 DEF ThreadFields, NextMerge
    <2> QED BY <2>1, <2>2
  <1>5. CASE Merge(t)
    <2> DEFINE ind == order[Column(t)]
               s == [NextMerge(th[t]) EXCEPT !.pc = "tree", !.tree = Seedling(ind)]
    <2>1. th[t].pc = "reserve" /\ th' = [th EXCEPT ![t] = s]
      BY <1>5 DEF Merge, merge_do
    <2>2. s.seen = th[t].seen /\ s.pc = "tree"
      BY <1>1 DEF ThreadFields, NextMerge
    <2> QED BY <2>1, <2>2
  <1>6. CASE GrowTree(t)
    <2>1. th[t].pc = "tree" /\ \E tree : th' = [th EXCEPT ![t].tree = tree]
      BY <1>6 DEF GrowTree
    <2>2. PICK tree : th' = [th EXCEPT ![t].tree = tree]
      BY <2>1
    <2> DEFINE s == [th[t] EXCEPT !.tree = tree]
    <2>3. th' = [th EXCEPT ![t] = s] /\ s.seen = th[t].seen /\ s.pc = th[t].pc
      BY <1>1, <2>2 DEF ThreadFields
    <2> QED BY <2>1, <2>3
  <1>7. CASE MergeRows(t)
    <2>1. th[t].pc = "tree" /\ \E ops : th' = [th EXCEPT ![t].pc = "merge", ![t].tree = <<>>, ![t].ops = ops]
      BY <1>7 DEF MergeRows
    <2>2. PICK ops : th' = [th EXCEPT ![t].pc = "merge", ![t].tree = <<>>, ![t].ops = ops]
      BY <2>1
    <2> DEFINE s == [th[t] EXCEPT !.pc = "merge", !.tree = <<>>, !.ops = ops]
    <2>3. th' = [th EXCEPT ![t] = s] /\ s.seen = th[t].seen /\ s.pc = "merge"
      BY <1>1, <2>2 DEF ThreadFields
    <2> QED BY <2>1, <2>3
  <1> QED BY <1>2, <1>3, <1>4, <1>5, <1>6, <1>7

LEMMA CountsOnTheWay ==
  ASSUME Inv, Inv', Weights, NEW t \in Threads,
         TakeChunk(t) \/ LookAtRows(t) \/ Reserve(t) \/ Merge(t) \/ GrowTree(t) \/ MergeRows(t)
  PROVE  Weights'
  <1>1. DOMAIN th = Threads /\ Weighing(t)
    <2>1. phase = "apply"
      BY NonePending DEF Inv, TakeChunk, LookAtRows, Looping, Reserve, Merge, GrowTree, MergeRows
    <2> QED BY <2>1 DEF Inv, ThreadTypes, Weights
  <1>2. PICK s : /\ th' = [th EXCEPT ![t] = s] /\ s.seen = th[t].seen
                 /\ s.pc # "weights" /\ th[t].pc # "weights"
    BY OnTheWay
  <1>3. UNCHANGED <<pages, rows, purged, wt>> /\ phase # "read"
    <2>1. UNCHANGED <<pages, rows, purged, wt>>
      BY DEF TakeChunk, LookAtRows, Reserve, Merge, GrowTree, MergeRows, heapVars
    <2>2. phase # "read"
      BY NonePending DEF Inv, TakeChunk, LookAtRows, Looping, Reserve, Merge, GrowTree, MergeRows
    <2> QED BY <2>1, <2>2
  <1>4. th'[t] = s
    BY <1>1, <1>2
  <1>5. ~th[t].seen
    BY <1>1, <1>2 DEF Weighing
  <1>6. SameCount(t)
    BY <1>2, <1>4, <1>5, NotCounting
  <1>7. RowsStay
    BY <1>3, SameRows
  <1> QED BY <1>2, <1>3, <1>6, <1>7, ThreadCounts DEF Inv

LEMMA CountsAtApplyFirst ==
  ASSUME Inv, Inv', Weights, ApplyFirst
  PROVE  Weights'
  <1>1. /\ phase = "apply" /\ th[Main].pc = "loop" /\ Main \in Threads
        /\ UNCHANGED <<pages, rows, purged, wt>>
    BY HeapAssumption DEF ApplyFirst, ParallelSectionOver, heapVars
  <1>2. DOMAIN th = Threads /\ DOMAIN th[Main] = ThreadFields /\ Weighing(Main)
    BY <1>1 DEF Inv, ThreadTypes, ThreadType, Weights
  <1>3. PICK o : merge_do(Main, o, th[Main])
    BY DEF ApplyFirst
  <1> DEFINE s == [th[Main] EXCEPT !.pc = "tree", !.tree = Seedling(o)]
  <1>4. th' = [th EXCEPT ![Main] = s] /\ s.pc = "tree" /\ s.seen = th[Main].seen
    BY <1>2, <1>3 DEF merge_do, ThreadFields
  <1> HIDE DEF s
  <1>5. th'[Main] = s /\ ~th[Main].seen
    BY <1>1, <1>2, <1>4 DEF Weighing
  <1>6. SameCount(Main)
    BY <1>1, <1>4, <1>5, NotCounting
  <1>7. RowsStay
    BY <1>1, SameRows
  <1> QED BY <1>1, <1>4, <1>6, <1>7, ThreadCounts DEF Inv

(* A row that is changed holds columns of the matrix.                          *)
LEMMA SourceColumns ==
  ASSUME Inv, NEW t \in Threads, th[t].pc \in {"merge", "weights"}
  PROVE  Source(t) \in SUBSET Columns
  <1>1. HeapTypes /\ Pointers /\ ThreadTypes /\ Ownership /\ purged \in Matrices
    BY DEF Inv, MainTypes
  <1>2. \A x \in RowNumbers : rows[x] # NULL => Row(x) \in SUBSET Columns
    BY <1>1, RowSpace
  <1>3. /\ Op(t).to \in RowNumbers /\ rows[Op(t).to] # NULL
        /\ Op(t).from # None => Op(t).from \in RowNumbers /\ rows[Op(t).from] # NULL
    BY <1>1, OpRows
  <1> QED BY <1>2, <1>3 DEF Source

(* A thread begins to count the columns of a row.                              *)
LEMMA BeginsToCount ==
  ASSUME Inv, Weights, phase # "read", RowsStay, NEW t \in Threads, th[t].pc = "merge",
         th'[t].pc = "weights", th'[t].ops = th[t].ops, th'[t].seen = th[t].seen,
         NEW todo \in InSequence(Source(t)), th'[t].todo = todo,
         Op(t).from # None => th'[t].sum = SymmetricDifference(Row(Op(t).to), Row(Op(t).from))
  PROVE  SameCount(t)
  <1>1. HeapTypes /\ Pointers /\ ThreadTypes /\ Ownership /\ purged \in Matrices
    BY DEF Inv, MainTypes
  <1>2. Weighing(t)
    BY DEF Weights
  <1>3. \A x \in RowNumbers : Owns(t, x) => Row(x)' = Row(x)
    BY <1>1 DEF Ownership, RowsStay
  <1>4. /\ Op(t)' = Op(t) /\ Row(Op(t).to)' = Row(Op(t).to)
        /\ Op(t).from # None => Row(Op(t).from)' = Row(Op(t).from)
        /\ Source(t)' = Source(t)
    BY <1>1, <1>3, SourceStays
  <1>5. Source(t) \in SUBSET Columns
    BY SourceColumns
  <1>6. Columns \subseteq Nat
    <2>1. purged \in Seq(SUBSET (Nat \ {0}))
      BY <1>1, MergeAssumption
    <2> QED BY <2>1 DEF Columns, Range
  <1> DEFINE S == Source(t)
  <1>7. S \in SUBSET Nat /\ IsFiniteSet(S)
    <2>1. IsFiniteSet(S)
      BY <1>1, <1>5, MatrixRows
    <2> QED BY <1>5, <1>6, <2>1
  <1>8. /\ todo \in Seq(S)
        /\ \A a, b \in 1 .. Len(todo) : todo[a] = todo[b] => a = b
        /\ \A x \in S : \E m \in 1 .. Len(todo) : todo[m] = x
    <2>1. todo \in InSequence(S)
      OBVIOUS
    <2> HIDE DEF S
    <2> QED BY <1>7, <2>1, InOrder
  <1>9. ~th'[t].seen
    BY <1>2 DEF Weighing
  <1>10. Weighing(t)'
    <2>1. th'[t].todo \in Seq(Source(t)')
      BY <1>4, <1>8
    <2>2. \A a, b \in 1 .. Len(th'[t].todo) : th'[t].todo[a] = th'[t].todo[b] => a = b
      BY <1>8
    <2>3. Op(t)'.from # None => th'[t].sum = SymmetricDifference(Row(Op(t).to), Row(Op(t).from))'
      BY <1>4 DEF SymmetricDifference
    <2> QED BY <1>9, <2>1, <2>2, <2>3 DEF Weighing
  <1>11. \A j : ~Weighed(t, j)
    BY DEF Weighed
  <1>12. \A j : ~Weighed(t, j)'
    <2>1. ASSUME NEW j, j \in Source(t)' PROVE \E m \in 1 .. Len(th'[t].todo) : th'[t].todo[m] = j
      BY <1>4, <1>8, <2>1
    <2> QED BY <2>1 DEF Weighed
  <1> QED BY <1>10, <1>11, <1>12 DEF SameCount

LEMMA CountsAtRemoval ==
  ASSUME Inv, Inv', Weights, NEW t \in Threads, remove_row(t)
  PROVE  Weights'
  <1>1. PICK todo \in InSequence(Row(Op(t).to)) :
          th' = [th EXCEPT ![t].pc = "weights", ![t].todo = todo]
    BY DEF remove_row
  <1>2. /\ phase = "apply" /\ th[t].pc = "merge" /\ Op(t).from = None
        /\ UNCHANGED <<pages, rows, purged, wt>>
    BY DEF remove_row, heapVars
  <1>3. DOMAIN th = Threads /\ DOMAIN th[t] = ThreadFields
    BY DEF Inv, ThreadTypes, ThreadType
  <1> DEFINE s == [th[t] EXCEPT !.pc = "weights", !.todo = todo]
  <1>4. th' = [th EXCEPT ![t] = s]
    BY <1>1, <1>3
  <1>5. s.pc = "weights" /\ s.todo = todo /\ s.ops = th[t].ops /\ s.seen = th[t].seen
    BY <1>3 DEF ThreadFields
  <1> HIDE DEF s
  <1>6. th'[t] = s
    BY <1>3, <1>4
  <1>7. todo \in InSequence(Source(t))
    BY <1>1, <1>2 DEF Source
  <1>8. RowsStay
    BY <1>2, SameRows
  <1>9. phase # "read"
    BY <1>2
  <1>10. SameCount(t)
    BY <1>2, <1>5, <1>6, <1>7, <1>8, <1>9, BeginsToCount
  <1> QED BY <1>2, <1>4, <1>8, <1>9, <1>10, ThreadCounts DEF Inv

LEMMA CountsAtAddition ==
  ASSUME Inv, Inv', Weights, NEW t \in Threads, add_row(t)
  PROVE  Weights'
  <1>1. HeapTypes /\ PagesApart /\ Pointers /\ ThreadTypes /\ Ownership /\ purged \in Matrices
    BY DEF Inv, MainTypes
  <1> DEFINE i == Op(t).to  target == Row(Op(t).to)  source == Row(Op(t).from)
             size == Cardinality(target) + Cardinality(source)
             sum == SymmetricDifference(target, source)
  <1>2. /\ phase = "apply" /\ th[t].pc = "merge" /\ Op(t).from # None /\ UNCHANGED <<purged, wt>>
        /\ \/ (heap_release_page(t, size) \/ heap_get_free_page(t)) /\ UNCHANGED th
           \/ /\ CanAlloc(t, size)
              /\ pages' = WithRow(t, i, size, {})
              /\ \E todo \in InSequence(source) :
                   th' = [th EXCEPT ![t].pc = "weights", ![t].todo = todo, ![t].sum = sum]
              /\ UNCHANGED rows
    BY DEF add_row
  <1>3. phase # "read" /\ \A u \in Threads : Weighing(u)
    BY <1>2 DEF Weights
  <1>4. i \in RowNumbers /\ size \in Nat /\ {} \in SUBSET Columns
    <2> DEFINE k == Op(t).from
    <2>1. i \in RowNumbers /\ rows[i] # NULL
      BY <1>1, <1>2, OpRows
    <2>2. k \in RowNumbers /\ rows[k] # NULL
      BY <1>1, <1>2, OpRows
    <2>3. target = Row(i) /\ source = Row(k)
      OBVIOUS
    <2> HIDE DEF i, k, target, source
    <2>4. target \in SUBSET Columns /\ source \in SUBSET Columns
      BY <1>1, <2>1, <2>2, <2>3, RowSpace
    <2>5. Cardinality(target) \in Nat /\ Cardinality(source) \in Nat
      BY <1>1, <2>4, MatrixRows
    <2> QED BY <2>1, <2>5
  <1>5. CASE (heap_release_page(t, size) \/ heap_get_free_page(t)) /\ UNCHANGED th
    <2> HIDE DEF size
    <2>1. RowsStay
      BY <1>1, <1>2, <1>5, RoomStays
    <2>2. \A u \in Threads : th'[u] = th[u]
      BY <1>5
    <2>3. \A u \in Threads : SameCount(u)
      BY <1>3, <2>1, <2>2, OthersCount
    <2> QED BY <1>1, <1>2, <1>3, <2>1, <2>3, BalanceStays DEF Weights, Inv
  <1>6. CASE /\ CanAlloc(t, size)
             /\ pages' = WithRow(t, i, size, {})
             /\ \E todo \in InSequence(source) :
                  th' = [th EXCEPT ![t].pc = "weights", ![t].todo = todo, ![t].sum = sum]
             /\ UNCHANGED rows
    <2>1. PICK todo \in InSequence(source) :
            th' = [th EXCEPT ![t].pc = "weights", ![t].todo = todo, ![t].sum = sum]
      BY <1>6
    <2>2. DOMAIN th = Threads /\ DOMAIN th[t] = ThreadFields
      BY <1>1 DEF ThreadTypes, ThreadType
    <2> DEFINE s == [th[t] EXCEPT !.pc = "weights", !.todo = todo, !.sum = sum]
    <2>3. th' = [th EXCEPT ![t] = s]
      BY <2>1, <2>2
    <2>4. /\ s.pc = "weights" /\ s.todo = todo /\ s.ops = th[t].ops /\ s.seen = th[t].seen
          /\ s.sum = sum
      BY <2>2 DEF ThreadFields
    <2> HIDE DEF s
    <2>5. th'[t] = s
      BY <2>2, <2>3
    <2>6. todo \in InSequence(Source(t)) /\ sum = SymmetricDifference(Row(Op(t).to), Row(Op(t).from))
      BY <1>2, <2>1 DEF Source
    <2>7. RowsStay
      <3> DEFINE a == active_page[t]
      <3>1. active_page[t] # None /\ a = active_page[t]
        BY <1>6 DEF CanAlloc
      <3>2. pages' = WithRow(t, i, size, {}) /\ UNCHANGED rows
        BY <1>6
      <3> HIDE DEF i, size, a
      <3>3. \A p \in 1 .. Len(pages) : \A k \in 1 .. PageLen(p) : pages'[p].data[k] = pages[p].data[k]
        BY <1>1, <1>4, <3>1, <3>2, WrittenStays
      <3> QED BY <1>1, <3>2, <3>3, PlacesStay
    <2>8. SameCount(t)
      BY <1>2, <1>3, <2>4, <2>5, <2>6, <2>7, BeginsToCount
    <2> QED BY <1>2, <1>3, <2>3, <2>7, <2>8, ThreadCounts DEF Inv
  <1> QED BY <1>2, <1>5, <1>6

-------------------------------------------------------------------------------
(* The steps that count.                                                       *)

(* What is left of a list in which everything is once.                         *)
LEMMA RestOf ==
  ASSUME NEW S, NEW seq \in Seq(S), Len(seq) >= 1,
         \A a, b \in 1 .. Len(seq) : seq[a] = seq[b] => a = b
  PROVE  /\ Head(seq) \in S /\ Tail(seq) \in Seq(S)
         /\ \A a, b \in 1 .. Len(Tail(seq)) : Tail(seq)[a] = Tail(seq)[b] => a = b
         /\ \A x : (\A m \in 1 .. Len(Tail(seq)) : Tail(seq)[m] # x)
                     <=> x = Head(seq) \/ \A m \in 1 .. Len(seq) : seq[m] # x
  <1> DEFINE rest == Tail(seq)  n == Len(seq)
  <1>1. n \in Nat /\ n >= 1 /\ Head(seq) = seq[1] /\ seq[1] \in S
    OBVIOUS
  <1>2. rest \in Seq(S) /\ Len(rest) = n - 1 /\ \A m \in 1 .. n - 1 : rest[m] = seq[m + 1]
    BY TailOf
  <1>3. \A a, b \in 1 .. n : seq[a] = seq[b] => a = b
    OBVIOUS
  <1> HIDE DEF rest, n
  <1>4. ASSUME NEW a \in 1 .. n - 1, NEW b \in 1 .. n - 1, rest[a] = rest[b] PROVE a = b
    <2>1. a + 1 \in 1 .. n /\ b + 1 \in 1 .. n /\ seq[a + 1] = seq[b + 1]
      BY <1>1, <1>2, <1>4
    <2>2. a + 1 = b + 1
      BY <1>3, <2>1
    <2> QED BY <2>2, <1>1
  <1>5. ASSUME NEW x
        PROVE  (\A m \in 1 .. n - 1 : rest[m] # x) <=> x = seq[1] \/ \A m \in 1 .. n : seq[m] # x
    <2>1. ASSUME \A m \in 1 .. n - 1 : rest[m] # x, x # seq[1], NEW m \in 1 .. n PROVE seq[m] # x
      <3>1. CASE m = 1
        BY <2>1, <3>1
      <3>2. CASE m # 1
        <4>1. m - 1 \in 1 .. n - 1 /\ (m - 1) + 1 = m
          BY <1>1, <3>2
        <4>2. rest[m - 1] = seq[m]
          BY <1>2, <4>1
        <4> QED BY <2>1, <4>1, <4>2
      <3> QED BY <3>1, <3>2
    <2>2. ASSUME x = seq[1], NEW m \in 1 .. n - 1 PROVE rest[m] # x
      <3>1. m + 1 \in 1 .. n /\ 1 \in 1 .. n /\ m + 1 # 1 /\ rest[m] = seq[m + 1]
        BY <1>1, <1>2
      <3> QED BY <1>3, <2>2, <3>1
    <2>3. ASSUME \A m \in 1 .. n : seq[m] # x, NEW m \in 1 .. n - 1 PROVE rest[m] # x
      <3>1. m + 1 \in 1 .. n /\ rest[m] = seq[m + 1]
        BY <1>1, <1>2
      <3> QED BY <2>3, <3>1
    <2> QED BY <2>1, <2>2, <2>3
  <1>6. \A a, b \in 1 .. Len(rest) : rest[a] = rest[b] => a = b
    BY <1>2, <1>4
  <1>7. \A x : (\A m \in 1 .. Len(rest) : rest[m] # x)
                 <=> x = Head(seq) \/ \A m \in 1 .. Len(seq) : seq[m] # x
    BY <1>1, <1>2, <1>5 DEF n
  <1> QED BY <1>1, <1>2, <1>6, <1>7 DEF rest

(* Column j is done by thread t, and all else is as it was.                    *)
Counted(t, j) ==
  /\ \A u \in Threads : Weighing(u)'
  /\ \A u \in Threads : \A x : Increases(u, x)' <=> Increases(u, x)
  /\ \A u \in Threads : \A x : Weighed(u, x)' <=> Weighed(u, x) \/ (u = t /\ x = j)
  /\ j \in Columns /\ j \in Source(t) /\ ~Weighed(t, j)

LEMMA OneMoreCounted ==
  ASSUME Inv, Weights, phase # "read", UNCHANGED <<pages, rows, purged>>,
         NEW t \in Threads, th[t].pc = "weights", Len(th[t].todo) >= 1,
         NEW s, th' = [th EXCEPT ![t] = s], s.pc = "weights", s.ops = th[t].ops, s.sum = th[t].sum,
         ~s.seen, s.todo = Tail(th[t].todo)
  PROVE  Counted(t, Head(th[t].todo))
  <1>1. HeapTypes /\ Pointers /\ ThreadTypes /\ Ownership /\ purged \in Matrices /\ DOMAIN th = Threads
    BY DEF Inv, MainTypes, ThreadTypes
  <1>2. th'[t] = s /\ \A u \in Threads : u # t => th'[u] = th[u]
    BY <1>1
  <1>3. \A x : Row(x)' = Row(x)
    BY DEF Row, RowAt
  <1>4. \A u \in Threads : Weighing(u)
    BY DEF Weights
  <1>5. \A u \in Threads : Op(u)' = Op(u)
    BY <1>2 DEF Op
  <1>6. \A u \in Threads : Source(u)' = Source(u) /\ \A x : Increases(u, x)' <=> Increases(u, x)
    BY <1>5 DEF Source, Increases, Row, RowAt
  <1> DEFINE seq == th[t].todo  S == Source(t)
  <1>7. seq \in Seq(S) /\ Len(seq) >= 1 /\ \A a, b \in 1 .. Len(seq) : seq[a] = seq[b] => a = b
    BY <1>4 DEF Weighing
  <1>8. /\ Head(seq) \in S /\ Tail(seq) \in Seq(S)
        /\ \A a, b \in 1 .. Len(Tail(seq)) : Tail(seq)[a] = Tail(seq)[b] => a = b
        /\ \A x : (\A m \in 1 .. Len(Tail(seq)) : Tail(seq)[m] # x)
                    <=> x = Head(seq) \/ \A m \in 1 .. Len(seq) : seq[m] # x
    <2> HIDE DEF seq, S
    <2> QED BY <1>7, RestOf
  <1>9. ASSUME NEW u \in Threads PROVE Weighing(u)'
    <2>1. CASE u # t
      BY <1>1, <1>2, <1>4, <2>1, OtherThread, <1>3 DEF SameCount
    <2>2. CASE u = t
      <3>1. Op(t).from # None => th[t].sum = SymmetricDifference(Row(Op(t).to), Row(Op(t).from))
        BY <1>4 DEF Weighing
      <3>2. Op(t)'.from # None =>
              th'[t].sum = SymmetricDifference(Row(Op(t).to), Row(Op(t).from))'
        BY <1>2, <1>5, <3>1 DEF Row, RowAt, SymmetricDifference
      <3>3. th'[t].todo = Tail(seq) /\ Tail(seq) \in Seq(Source(t)')
        BY <1>2, <1>6, <1>8
      <3> QED BY <1>2, <1>8, <2>2, <3>2, <3>3 DEF Weighing
    <2> QED BY <2>1, <2>2
  <1>10. ASSUME NEW u \in Threads, NEW x
         PROVE  Weighed(u, x)' <=> Weighed(u, x) \/ (u = t /\ x = Head(seq))
    <2>1. CASE u # t
      BY <1>2, <1>6, <2>1 DEF Weighed
    <2>2. CASE u = t
      <3>1. Weighed(t, x)' <=> x \in S /\ \A m \in 1 .. Len(Tail(seq)) : Tail(seq)[m] # x
        BY <1>2, <1>6 DEF Weighed
      <3>2. Weighed(t, x) <=> x \in S /\ \A m \in 1 .. Len(seq) : seq[m] # x
        BY DEF Weighed
      <3> QED BY <1>8, <2>2, <3>1, <3>2
    <2> QED BY <2>1, <2>2
  <1>11. ~Weighed(t, Head(seq))
    <2>1. 1 \in 1 .. Len(seq) /\ Head(seq) = seq[1]
      BY <1>7
    <2> QED BY <2>1 DEF Weighed
  <1>12. S \subseteq Columns
    BY SourceColumns
  <1> QED BY <1>6, <1>8, <1>9, <1>10, <1>11, <1>12 DEF Counted

(* The numbers of threads that are ahead of the matrix and behind it.          *)
LEMMA ThreadsCountable ==
  ASSUME NEW j
  PROVE  /\ IsFiniteSet(Early(j)) /\ Cardinality(Early(j)) \in Nat
         /\ IsFiniteSet(Late(j)) /\ Cardinality(Late(j)) \in Nat
  <1>1. IsFiniteSet(Early(j)) /\ IsFiniteSet(Late(j))
    BY HeapAssumption, FS_Subset DEF Early, Late
  <1> QED BY <1>1, FS_CardinalityType

(* Columns that a step does not concern.                                       *)
LEMMA OtherColumn ==
  ASSUME HeapTypes, RowsStay, rows' \in [RowNumbers -> Nat \X Nat], NEW x, wt'[x] = wt[x],
         \A u \in Threads : (Weighed(u, x)' <=> Weighed(u, x)) /\ (Increases(u, x)' <=> Increases(u, x)),
         Balanced(x)
  PROVE  Balanced(x)'
  <1>1. TrueWeight(x)' = TrueWeight(x)
    BY SameWeights
  <1>2. Early(x)' = Early(x) /\ Late(x)' = Late(x)
    BY DEF Early, Late
  <1> QED BY <1>1, <1>2 DEF Balanced

(* A weight is looked at: the thread leaves it alone if it is too large.       *)
LEMMA CountsAtCheck ==
  ASSUME Inv, Inv', Weights, NEW t \in Threads, CheckWeight(t)
  PROVE  Weights'
  <1> DEFINE j == Head(th[t].todo)
  <1>1. /\ th[t].pc = "weights" /\ th[t].todo # <<>> /\ ~th[t].seen
        /\ th' = [th EXCEPT ![t].seen = wt[j] <= MERGE_LEVEL_MAX,
                            ![t].todo = IF wt[Head(@)] <= MERGE_LEVEL_MAX THEN @ ELSE Tail(@)]
        /\ UNCHANGED <<pages, rows, purged, wt>>
    BY DEF CheckWeight, heapVars
  <1>2. phase # "read" /\ \A u \in Threads : Weighing(u)
    <2>1. phase # "read"
      BY <1>1, NonePending DEF Inv
    <2> QED BY <2>1 DEF Weights
  <1>3. DOMAIN th = Threads /\ DOMAIN th[t] = ThreadFields /\ HeapTypes
    BY DEF Inv, ThreadTypes, ThreadType
  <1>4. Len(th[t].todo) >= 1
    <2>1. th[t].todo \in Seq(Source(t))
      BY <1>1, <1>2 DEF Weighing
    <2> DEFINE seq == th[t].todo  S == Source(t)
    <2>2. seq \in Seq(S) /\ seq # <<>>
      BY <1>1, <2>1
    <2> HIDE DEF seq, S
    <2>3. Len(seq) >= 1
      BY <2>2
    <2> QED BY <2>3 DEF seq
  <1>5. RowsStay
    BY <1>1, SameRows
  <1>6. CASE wt[j] <= MERGE_LEVEL_MAX
    <2> DEFINE s == [th[t] EXCEPT !.seen = TRUE]
    <2>1. th' = [th EXCEPT ![t] = s]
      BY <1>1, <1>3, <1>6 DEF ThreadFields
    <2>2. /\ s.pc = "weights" /\ s.ops = th[t].ops /\ s.sum = th[t].sum /\ s.todo = th[t].todo
      BY <1>1, <1>3 DEF ThreadFields
    <2> HIDE DEF s
    <2>3. th'[t] = s
      BY <1>3, <2>1
    <2>4. /\ Op(t)' = Op(t) /\ Row(Op(t).to)' = Row(Op(t).to)
          /\ Op(t).from # None => Row(Op(t).from)' = Row(Op(t).from)
          /\ Source(t)' = Source(t) /\ \A x : Increases(t, x)' <=> Increases(t, x)
      <3>1. ThreadTypes /\ Ownership /\ purged \in Matrices
        BY DEF Inv, MainTypes
      <3>2. \A x \in RowNumbers : Owns(t, x) => Row(x)' = Row(x)
        BY <1>5, <3>1 DEF RowsStay, Ownership
      <3> QED BY <1>1, <2>2, <2>3, <3>1, <3>2, SourceStays
    <2>5. Weighing(t)'
      <3>1. /\ th[t].todo \in Seq(Source(t))
            /\ \A a, b \in 1 .. Len(th[t].todo) : th[t].todo[a] = th[t].todo[b] => a = b
            /\ Op(t).from # None =>
                 th[t].sum = SymmetricDifference(Row(Op(t).to), Row(Op(t).from))
        BY <1>1, <1>2 DEF Weighing
      <3>2. th'[t].todo = th[t].todo /\ th'[t].sum = th[t].sum /\ th'[t].pc = "weights"
        BY <2>2, <2>3
      <3>3. Op(t)'.from # None =>
              th'[t].sum = SymmetricDifference(Row(Op(t).to), Row(Op(t).from))'
        BY <2>4, <3>1, <3>2 DEF SymmetricDifference
      <3>4. th'[t].todo \in Seq(Source(t)')
        BY <2>4, <3>1, <3>2
      <3> QED BY <1>4, <3>1, <3>2, <3>3, <3>4 DEF Weighing
    <2>6. \A x : Weighed(t, x)' <=> Weighed(t, x)
      BY <1>1, <2>2, <2>3, <2>4 DEF Weighed
    <2>7. SameCount(t)
      BY <2>4, <2>5, <2>6 DEF SameCount
    <2> QED BY <1>1, <1>2, <1>5, <2>1, <2>7, ThreadCounts DEF Inv
  <1>7. CASE ~(wt[j] <= MERGE_LEVEL_MAX)
    <2> DEFINE rest == Tail(th[t].todo)
               s == [th[t] EXCEPT !.seen = FALSE, !.todo = rest]
    <2>1. th' = [th EXCEPT ![t] = s]
      BY <1>1, <1>3, <1>7 DEF ThreadFields
    <2>2. /\ s.pc = "weights" /\ s.ops = th[t].ops /\ s.sum = th[t].sum /\ ~s.seen /\ s.todo = rest
      BY <1>1, <1>3 DEF ThreadFields
    <2> HIDE DEF s
    <2>3. Counted(t, j)
      BY <1>1, <1>2, <1>4, <2>1, <2>2, OneMoreCounted
    <2> HIDE DEF j, rest
    <2>4. Columns' = Columns /\ rows' \in [RowNumbers -> Nat \X Nat]
      BY <1>1, <1>3, SameMatrix DEF HeapTypes
    <2>5. wt[j] > MERGE_LEVEL_MAX
      <3>1. j \in Columns /\ wt \in [Columns -> Nat]
        BY <1>2, <2>3 DEF Counted, Inv, MainTypes
      <3>2. wt[j] \in Nat /\ MERGE_LEVEL_MAX \in Nat
        BY <3>1, MergeAssumption
      <3> QED BY <1>7, <3>2
    <2>6. ASSUME NEW x \in Columns PROVE Balanced(x)'
      <3>1. CASE x = j
        BY <1>1, <2>5, <3>1 DEF Balanced
      <3>2. CASE x # j
        <4>1. \A u \in Threads : /\ Weighed(u, x)' <=> Weighed(u, x)
                                 /\ Increases(u, x)' <=> Increases(u, x)
          BY <2>3, <3>2 DEF Counted
        <4>2. Balanced(x) /\ wt'[x] = wt[x]
          BY <1>1, <1>2 DEF Weights
        <4> QED BY <1>3, <1>5, <2>4, <4>1, <4>2, OtherColumn
      <3> QED BY <3>1, <3>2
    <2> QED BY <2>3, <2>4, <2>6 DEF Weights, Counted
  <1> QED BY <1>6, <1>7

(* Threads that no longer count a row are each about a row that has the column.*)
LEMMA LateHaveRows ==
  ASSUME Inv, NEW j, NEW S \in SUBSET Threads,
         \A u \in S : th[u].pc = "weights" /\ j \in Source(u) /\ ~Increases(u, j)
  PROVE  Cardinality(S) <= TrueWeight(j)
  <1>1. HeapTypes /\ ThreadTypes /\ Ownership /\ purged \in Matrices
    BY DEF Inv, MainTypes
  <1> DEFINE f == [u \in S |-> Op(u).to]  W == RowsWith(j)
  <1>2. ASSUME NEW u \in S
        PROVE  Op(u).to \in RowNumbers /\ Owns(u, Op(u).to) /\ rows[Op(u).to] # NULL
               /\ j \in Row(Op(u).to)
    <2>1. u \in Threads /\ th[u].pc \in {"merge", "weights"}
      OBVIOUS
    <2>2. Op(u).to \in RowNumbers /\ Owns(u, Op(u).to) /\ rows[Op(u).to] # NULL
      BY <1>1, <2>1, OpRows
    <2>3. j \in Row(Op(u).to)
      BY DEF Source, Increases
    <2> QED BY <2>2, <2>3
  <1>3. f \in [S -> W]
    <2>1. \A u \in S : Op(u).to \in W
      BY <1>1, <1>2 DEF RowsWith, Live, HeapTypes
    <2> QED BY <2>1
  <1>4. ASSUME NEW u \in S, NEW v \in S, f[u] = f[v] PROVE u = v
    <2>1. Op(u).to = Op(v).to
      BY <1>4
    <2> QED BY <1>1, <1>2, <2>1 DEF Ownership
  <1>5. IsFiniteSet(W)
    <2>1. W \subseteq RowNumbers /\ IsFiniteSet(RowNumbers)
      BY <1>1, RowsCountable, MatrixRows, FS_Interval
    <2> QED BY <2>1, FS_Subset
  <1> HIDE DEF f, W
  <1>6. f \in Injection(S, W)
    BY <1>3, <1>4 DEF Injection, IsInjective
  <1>7. Cardinality(S) <= Cardinality(W)
    BY <1>5, <1>6, FS_Injection
  <1> QED BY <1>7 DEF W, TrueWeight

(* A weight that is kept changes by one: nothing overflows.                    *)
LEMMA NoOverflow ==
  ASSUME NEW w \in Nat, w <= 254
  PROVE  (w + 1) % 256 = w + 1 /\ (w >= 1 => (w + (-1)) % 256 = w - 1)
  <1>1. \A n \in 0 .. 255 : n % 256 = n
    OBVIOUS
  <1>2. w + 1 \in 0 .. 255 /\ (w >= 1 => w + (-1) \in 0 .. 255 /\ w + (-1) = w - 1)
    OBVIOUS
  <1> QED BY <1>1, <1>2

(* A column that is light enough is in balance.                                *)
LEMMA LightBalance ==
  ASSUME Inv, Weights, phase # "read", NEW j \in Columns, wt[j] <= MERGE_LEVEL_MAX
  PROVE  /\ wt[j] \in Nat /\ wt[j] <= 254 /\ TrueWeight(j) \in Nat
         /\ wt[j] + Cardinality(Late(j)) = TrueWeight(j) + Cardinality(Early(j))
  <1>1. wt[j] \in Nat /\ MERGE_LEVEL_MAX \in 3 .. 254
    BY MergeAssumption DEF Inv, MainTypes
  <1>2. TrueWeight(j) \in Nat
    BY RowsCountable DEF Inv, MainTypes
  <1>3. Balanced(j) /\ ~(wt[j] > MERGE_LEVEL_MAX)
    BY <1>1 DEF Weights
  <1> QED BY <1>1, <1>2, <1>3 DEF Balanced

(* A weight is updated: it did not get too large since the thread looked.      *)
LEMMA UpdatedWeight ==
  ASSUME Inv, Weights, NoRace, NEW t \in Threads, UpdateWeight(t),
         NEW j, j = Head(th[t].todo)
  PROVE  /\ phase # "read" /\ UNCHANGED <<pages, rows, purged>> /\ Counted(t, j)
         /\ wt[j] <= MERGE_LEVEL_MAX /\ wt \in [Columns -> Nat]
         /\ wt'[j] = IF Increases(t, j) THEN wt[j] + 1 ELSE wt[j] - 1
         /\ \A x \in Columns : x # j => wt'[x] = wt[x]
  <1> SUFFICES ASSUME NEW d, d = IF Increases(t, j) THEN 1 ELSE -1
               PROVE  /\ phase # "read" /\ UNCHANGED <<pages, rows, purged>> /\ Counted(t, j)
                      /\ wt[j] <= MERGE_LEVEL_MAX /\ wt \in [Columns -> Nat]
                      /\ wt'[j] = IF Increases(t, j) THEN wt[j] + 1 ELSE wt[j] - 1
                      /\ \A x \in Columns : x # j => wt'[x] = wt[x]
    OBVIOUS
  <1> DEFINE rest == Tail(th[t].todo)
             s == [th[t] EXCEPT !.seen = FALSE, !.todo = rest]
  <1>1. /\ th[t].pc = "weights" /\ th[t].seen
        /\ wt' = [wt EXCEPT ![j] = (wt[j] + d) % 256]
        /\ th' = [th EXCEPT ![t].seen = FALSE, ![t].todo = Tail(@)]
        /\ UNCHANGED <<pages, rows, purged>>
    BY DEF UpdateWeight, heapVars
  <1>2. phase # "read" /\ \A u \in Threads : Weighing(u)
    <2>1. phase # "read"
      BY <1>1, NonePending DEF Inv
    <2> QED BY <2>1 DEF Weights
  <1>3. DOMAIN th = Threads /\ DOMAIN th[t] = ThreadFields
    BY DEF Inv, ThreadTypes, ThreadType
  <1>4. Len(th[t].todo) >= 1
    BY <1>1, <1>2 DEF Weighing
  <1>5. th' = [th EXCEPT ![t] = s]
    BY <1>1, <1>3 DEF ThreadFields
  <1>6. s.pc = "weights" /\ s.ops = th[t].ops /\ s.sum = th[t].sum /\ ~s.seen /\ s.todo = rest
    BY <1>1, <1>3 DEF ThreadFields
  <1> HIDE DEF s
  <1>7. Counted(t, j)
    BY <1>1, <1>2, <1>4, <1>5, <1>6, OneMoreCounted
  <1>8. wt[j] <= MERGE_LEVEL_MAX /\ j \in Columns /\ wt \in [Columns -> Nat]
    BY <1>1, <1>2, <1>7 DEF NoRace, Counted, Inv, MainTypes
  <1> HIDE DEF rest
  <1> DEFINE E == Cardinality(Early(j))  Z == Cardinality(Late(j))  T == TrueWeight(j)  w == wt[j]
  <1>9. w \in Nat /\ w <= 254 /\ T \in Nat /\ w + Z = T + E
    BY <1>2, <1>8, LightBalance
  <1>10. E \in Nat /\ Z \in Nat /\ IsFiniteSet(Late(j))
    BY ThreadsCountable
  <1>11. ~Increases(t, j) => Z + 1 <= T
    <2> SUFFICES ASSUME ~Increases(t, j) PROVE Z + 1 <= T
      OBVIOUS
    <2> DEFINE S == Late(j) \union {t}
    <2>1. S \in SUBSET Threads /\ t \notin Late(j)
      BY <1>7 DEF Late, Counted
    <2>2. \A u \in S : th[u].pc = "weights" /\ j \in Source(u) /\ ~Increases(u, j)
      BY <1>1, <1>7 DEF Late, Weighed, Counted
    <2>3. Cardinality(S) = Z + 1
      BY <1>10, <2>1, FS_AddElement
    <2> HIDE DEF S
    <2>4. Cardinality(S) <= TrueWeight(j)
      BY <2>1, <2>2, LateHaveRows
    <2> QED BY <2>3, <2>4
  <1>12. wt'[j] = (w + d) % 256 /\ \A x \in Columns : x # j => wt'[x] = wt[x]
    BY <1>1, <1>8
  <1> HIDE DEF E, Z, T, w
  <1>13. wt'[j] = IF Increases(t, j) THEN w + 1 ELSE w - 1
    <2>1. CASE Increases(t, j)
      BY <1>9, <1>12, <2>1, NoOverflow
    <2>2. CASE ~Increases(t, j)
      <3>1. w >= 1
        BY <1>9, <1>10, <1>11, <2>2
      <3> QED BY <1>9, <1>12, <2>2, <3>1, NoOverflow
    <2> QED BY <2>1, <2>2
  <1> QED BY <1>1, <1>2, <1>7, <1>8, <1>12, <1>13 DEF w

LEMMA CountsAtUpdate ==
  ASSUME Inv, Inv', Weights, NoRace, NEW t \in Threads, UpdateWeight(t)
  PROVE  Weights'
  <1> SUFFICES ASSUME NEW j, j = Head(th[t].todo) PROVE Weights'
    OBVIOUS
  <1>1. /\ phase # "read" /\ UNCHANGED <<pages, rows, purged>> /\ Counted(t, j)
        /\ wt[j] <= MERGE_LEVEL_MAX /\ wt \in [Columns -> Nat]
        /\ wt'[j] = IF Increases(t, j) THEN wt[j] + 1 ELSE wt[j] - 1
        /\ \A x \in Columns : x # j => wt'[x] = wt[x]
    BY UpdatedWeight
  <1>2. j \in Columns /\ ~Weighed(t, j)
    BY <1>1 DEF Counted
  <1>3. HeapTypes /\ RowsStay /\ Columns' = Columns /\ rows' \in [RowNumbers -> Nat \X Nat]
    BY <1>1, SameRows, SameMatrix DEF Inv, HeapTypes
  <1> DEFINE E == Cardinality(Early(j))  Z == Cardinality(Late(j))  T == TrueWeight(j)
  <1>4. /\ wt[j] \in Nat /\ wt[j] + Z = T + E
        /\ E \in Nat /\ Z \in Nat /\ T \in Nat /\ IsFiniteSet(Early(j)) /\ IsFiniteSet(Late(j))
    BY <1>1, <1>2, LightBalance, ThreadsCountable
  <1>5. TrueWeight(j)' = T
    BY <1>3, SameWeights
  <1>6. /\ t \notin Early(j) /\ t \notin Late(j)
        /\ Increases(t, j) => Early(j)' = Early(j) \union {t} /\ Late(j)' = Late(j)
        /\ ~Increases(t, j) => Early(j)' = Early(j) /\ Late(j)' = Late(j) \union {t}
    <2>1. /\ \A u \in Threads : Increases(u, j)' <=> Increases(u, j)
          /\ \A u \in Threads : Weighed(u, j)' <=> Weighed(u, j) \/ u = t
      BY <1>1 DEF Counted
    <2> QED BY <1>2, <2>1 DEF Early, Late
  <1>7. Balanced(j)'
    <2>1. CASE Increases(t, j)
      <3>1. Cardinality(Early(j)') = E + 1 /\ Cardinality(Late(j)') = Z
        BY <1>4, <1>6, <2>1, FS_AddElement
      <3>2. wt'[j] + Z = T + (E + 1)
        BY <1>1, <1>4, <2>1
      <3> QED BY <1>5, <3>1, <3>2 DEF Balanced
    <2>2. CASE ~Increases(t, j)
      <3>. DEFINE S == Late(j) \union {t}
      <3>a. Cardinality(S) = Z + 1
        BY <1>4, <1>6, FS_AddElement
      <3>b. Early(j)' = Early(j) /\ Late(j)' = S
        BY <1>6, <2>2
      <3>1. Cardinality(Early(j)') = E /\ Cardinality(Late(j)') = Z + 1
        BY <3>a, <3>b
      <3>2. wt'[j] + (Z + 1) = T + E
        <4>1. wt'[j] = wt[j] - 1
          BY <1>1, <2>2
        <4>2. wt[j] \in Nat /\ wt[j] + Z = T + E /\ E \in Nat /\ Z \in Nat /\ T \in Nat
          BY <1>4
        <4> HIDE DEF E, Z, T
        <4> QED BY <4>1, <4>2
      <3> QED BY <1>5, <3>1, <3>2 DEF Balanced
    <2> QED BY <2>1, <2>2
  <1>8. ASSUME NEW x \in Columns PROVE Balanced(x)'
    <2>1. CASE x = j
      BY <1>7, <2>1
    <2>2. CASE x # j
      <3>1. \A u \in Threads : (Weighed(u, x)' <=> Weighed(u, x)) /\ (Increases(u, x)' <=> Increases(u, x))
        BY <1>1, <2>2 DEF Counted
      <3>2. Balanced(x) /\ wt'[x] = wt[x]
        BY <1>1, <2>2 DEF Weights
      <3> QED BY <1>3, <3>1, <3>2, OtherColumn
    <2> QED BY <2>1, <2>2
  <1> QED BY <1>1, <1>3, <1>8 DEF Weights, Counted

(* A row is replaced or removed, and its columns have their weights already.   *)
LEMMA CountsAtFinish ==
  ASSUME Inv, Inv', Weights, NEW t \in Threads, FinishOp(t)
  PROVE  Weights'
  <1> SUFFICES ASSUME NEW i, i = Op(t).to, NEW source, source = Source(t),
                      NEW cells, cells = th[t].sum, NEW old, old = Row(i)
               PROVE  Weights'
    OBVIOUS
  <1>1. /\ HeapTypes /\ Pointers /\ ThreadTypes /\ Ownership /\ purged \in Matrices
        /\ DOMAIN th = Threads /\ DOMAIN th[t] = ThreadFields /\ th[t].sum \in SUBSET Columns
        /\ HeapTypes'
    BY DEF Inv, MainTypes, ThreadTypes, ThreadType
  <1>2. /\ th[t].pc = "weights" /\ th[t].todo = <<>>
        /\ IF Op(t).from # None THEN ReplaceRow(t, i, cells) ELSE DestroyRow(t, i)
        /\ UNCHANGED <<purged, wt>>
    BY DEF FinishOp
  <1>3. phase # "read" /\ \A u \in Threads : Weighing(u)
    <2>1. phase # "read"
      BY <1>2, NonePending DEF Inv
    <2> QED BY <2>1 DEF Weights
  <1>4. th'[t].pc # "weights" /\ ~th'[t].seen /\ \A u \in Threads : u # t => th'[u] = th[u]
    <2> DEFINE pc == IF Len(th[t].ops) > 1 THEN "merge" ELSE "loop"  ops == Tail(th[t].ops)
               s == [th[t] EXCEPT !.pc = pc, !.ops = ops, !.sum = {}]
    <2>1. th' = [th EXCEPT ![t] = s]
      BY <1>1 DEF FinishOp
    <2>2. s.pc = pc /\ s.seen = th[t].seen /\ pc # "weights"
      BY <1>1 DEF ThreadFields
    <2> HIDE DEF s
    <2>3. ~th[t].seen
      BY <1>2, <1>3 DEF Weighing
    <2> QED BY <1>1, <2>1, <2>2, <2>3
  <1>5. i \in RowNumbers /\ rows[i] # NULL /\ Owns(t, i)
    BY <1>1, <1>2, OpRows
  <1>6. source = IF Op(t).from = None THEN old ELSE Row(Op(t).from)
    BY DEF Source
  <1>7. /\ \A x \in RowNumbers : x # i => rows'[x] = rows[x] /\ (rows[x] # NULL => Row(x)' = Row(x))
        /\ Op(t).from # None => rows'[i] # NULL /\ Row(i)' = cells
        /\ Op(t).from = None => rows'[i] = NULL
    <2>1. CASE Op(t).from # None
      <3>1. ReplaceRow(t, i, cells) /\ Pending(t) = i
        BY <1>2, <2>1 DEF Pending
      <3> QED BY <1>1, <1>2, <1>5, <2>1, <3>1, ReplacedRow
    <2>2. CASE Op(t).from = None
      <3>1. DestroyRow(t, i)
        BY <1>2, <2>2
      <3> QED BY <1>1, <1>5, <2>2, <3>1, RemovedRow
    <2> QED BY <2>1, <2>2
  <1>8. ASSUME NEW u \in Threads, u # t PROVE SameCount(u)
    <2>1. \A x \in RowNumbers : Owns(u, x) => Row(x)' = Row(x)
      BY <1>1, <1>5, <1>7, <1>8 DEF Ownership
    <2> QED BY <1>1, <1>3, <1>4, <1>8, <2>1, OtherThread
  <1>9. \A u \in Threads : Weighing(u)'
    <2>1. Weighing(t)'
      BY <1>4 DEF Weighing
    <2> QED BY <1>8, <2>1 DEF SameCount
  <1>10. ASSUME NEW j
         PROVE  /\ Early(j)' = Early(j) \ {t} /\ Late(j)' = Late(j) \ {t}
                /\ t \in Early(j) <=> j \in source /\ Increases(t, j)
                /\ t \in Late(j) <=> j \in source /\ ~Increases(t, j)
    <2>1. ~Weighed(t, j)' /\ (Weighed(t, j) <=> j \in source)
      BY <1>2, <1>4 DEF Weighed
    <2>2. \A u \in Threads : u # t => (Weighed(u, j)' <=> Weighed(u, j))
                                      /\ (Weighed(u, j) => (Increases(u, j)' <=> Increases(u, j)))
      BY <1>8 DEF SameCount
    <2> QED BY <2>1, <2>2 DEF Early, Late
  <1>11. ASSUME NEW j
         PROVE  /\ i \in RowsWith(j) <=> j \in old
                /\ i \in RowsWith(j)' <=> Op(t).from # None /\ j \in cells
                /\ \A x : x # i => (x \in RowsWith(j)' <=> x \in RowsWith(j))
    <2>1. DOMAIN rows = RowNumbers /\ DOMAIN rows' = RowNumbers
      BY <1>1, <1>2, SameMatrix DEF HeapTypes
    <2>2. \A x : x \in RowsWith(j) <=> x \in RowNumbers /\ rows[x] # NULL /\ j \in Row(x)
      BY <2>1 DEF RowsWith, Live
    <2>3. \A x : x \in RowsWith(j)' <=> x \in RowNumbers /\ rows'[x] # NULL /\ j \in Row(x)'
      BY <2>1 DEF RowsWith, Live
    <2> QED BY <1>5, <1>7, <2>2, <2>3
  <1>12. /\ Op(t).from # None => cells = SymmetricDifference(old, source)
         /\ \A j : Increases(t, j) <=> Op(t).from # None /\ j \notin old
    <2>1. Op(t).from # None => cells = SymmetricDifference(Row(Op(t).to), Row(Op(t).from))
      BY <1>2, <1>3 DEF Weighing
    <2> QED BY <1>6, <2>1 DEF Increases
  <1>13. ASSUME NEW j \in Columns PROVE Balanced(j)'
    <2> SUFFICES ASSUME NEW B, B = RowsWith(j), NEW E, E = Early(j), NEW Z, Z = Late(j),
                        ~(wt[j] > MERGE_LEVEL_MAX)
                 PROVE  Balanced(j)'
      BY <1>2 DEF Balanced
    <2>1. wt'[j] = wt[j] /\ wt[j] + Cardinality(Z) = Cardinality(B) + Cardinality(E)
      BY <1>2, <1>3 DEF Weights, Balanced, TrueWeight
    <2>2. /\ IsFiniteSet(E) /\ Cardinality(E) \in Nat /\ IsFiniteSet(Z) /\ Cardinality(Z) \in Nat
      BY ThreadsCountable
    <2>3. IsFiniteSet(B) /\ Cardinality(B) \in Nat
      <3>1. B \subseteq RowNumbers /\ IsFiniteSet(RowNumbers)
        BY <1>1, RowsCountable, MatrixRows, FS_Interval
      <3> QED BY <3>1, FS_Subset, FS_CardinalityType
    <2>4. wt[j] \in Nat
      BY <1>3 DEF Inv, MainTypes
    <2>5. CASE j \notin source
      <3>1. Early(j)' = E /\ Late(j)' = Z
        BY <1>10, <2>5
      <3>2. i \in RowsWith(j)' <=> i \in B
        BY <1>6, <1>11, <1>12, <2>5 DEF SymmetricDifference
      <3>3. \A x : x \in RowsWith(j)' <=> x \in B
        BY <1>11, <3>2
      <3>4. RowsWith(j)' = B
        BY ONLY <3>3
      <3> QED BY <2>1, <3>1, <3>4 DEF Balanced, TrueWeight
    <2>6. CASE j \in source /\ Increases(t, j)
      <3>1. Early(j)' = E \ {t} /\ Late(j)' = Z /\ t \in E
        BY <1>10, <2>6
      <3>2. RowsWith(j)' = B \union {i} /\ i \notin B
        <4>1. i \in RowsWith(j)' /\ i \notin B
          BY <1>11, <1>12, <2>6 DEF SymmetricDifference
        <4> QED BY <1>11, <4>1
      <3>3. Cardinality(Early(j)') = Cardinality(E) - 1
        BY <2>2, <3>1, FS_RemoveElement
      <3>4. Cardinality(RowsWith(j)') = Cardinality(B) + 1
        BY <2>3, <3>2, FS_AddElement
      <3>5. wt'[j] + Cardinality(Late(j)') = Cardinality(RowsWith(j)') + Cardinality(Early(j)')
        BY <2>1, <2>2, <2>3, <2>4, <3>1, <3>3, <3>4
      <3> QED BY <3>5 DEF Balanced, TrueWeight
    <2>7. CASE j \in source /\ ~Increases(t, j)
      <3>1. Early(j)' = E /\ Late(j)' = Z \ {t} /\ t \in Z
        BY <1>10, <2>7
      <3>2. RowsWith(j)' = B \ {i} /\ i \in B
        <4>1. i \notin RowsWith(j)' /\ i \in B
          BY <1>6, <1>11, <1>12, <2>7 DEF SymmetricDifference
        <4> QED BY <1>11, <4>1
      <3>3. Cardinality(Late(j)') = Cardinality(Z) - 1
        BY <2>2, <3>1, FS_RemoveElement
      <3>4. Cardinality(RowsWith(j)') = Cardinality(B) - 1
        <4>1. Cardinality(B \ {i}) = Cardinality(B) - 1
          BY <2>3, <3>2, FS_RemoveElement
        <4> QED BY <3>2, <4>1
      <3>5. wt'[j] + Cardinality(Late(j)') = Cardinality(RowsWith(j)') + Cardinality(Early(j)')
        BY <2>1, <2>2, <2>3, <2>4, <3>1, <3>3, <3>4
      <3> QED BY <3>5 DEF Balanced, TrueWeight
    <2> QED BY <2>5, <2>6, <2>7
  <1>14. Columns' = Columns
    BY <1>2, SameMatrix
  <1> QED BY <1>9, <1>13, <1>14 DEF Weights

-------------------------------------------------------------------------------
(* The theorems.                                                               *)

LEMMA WeightsNext ==
  ASSUME Inv, Inv', Weights, NoRace, [Next]_vars
  PROVE  Weights'
  <1>1. ASSUME NEW t \in Threads, Step(t) PROVE Weights'
    <2>1. CASE CollectGarbage(t)
      BY <2>1, CountsAtCollection
    <2>2. CASE TakeChunk(t) \/ LookAtRows(t) \/ Reserve(t) \/ Merge(t) \/ GrowTree(t) \/ MergeRows(t)
      BY <2>2, CountsOnTheWay
    <2>3. CASE add_row(t)
      BY <2>3, CountsAtAddition
    <2>4. CASE remove_row(t)
      BY <2>4, CountsAtRemoval
    <2>5. CASE CheckWeight(t)
      BY <2>5, CountsAtCheck
    <2>6. CASE UpdateWeight(t)
      BY <2>6, CountsAtUpdate
    <2>7. CASE FinishOp(t)
      BY <2>7, CountsAtFinish
    <2>8. CASE insert_rel_into_table(t)
      BY <2>8 DEF insert_rel_into_table, mergeVars, Weights
    <2> QED BY <1>1, <2>1, <2>2, <2>3, <2>4, <2>5, <2>6, <2>7, <2>8 DEF Step
  <1>2. ASSUME Sequential PROVE Weights'
    <2>2. CASE compute_weights
      BY <2>2, CountsAtFirst
    <2>3. CASE \/ StartPass \/ GarbageCollected \/ Prepare
               \/ CostBelowZero \/ Recompress \/ TestEnd
      BY <2>3, CountsAtPass
    <2>4. CASE ApplyFirst
      BY <2>4, CountsAtApplyFirst
    <2>5. CASE EndPass
      BY <2>5, CountsAtEnd
    <2> QED BY <1>2, <2>2, <2>3, <2>4, <2>5 DEF Sequential
  <1>3. CASE UNCHANGED vars
    <2>1. UNCHANGED <<pages, rows, purged, wt, th, phase>>
      BY <1>3 DEF vars, heapVars, mergeVars
    <2>2. CASE phase = "read"
      BY <2>1, <2>2 DEF Weights
    <2>3. CASE phase # "read"
      <3>1. RowsStay
        BY <2>1, SameRows
      <3>2. \A u \in Threads : SameCount(u)
        BY <2>1, <2>3, <3>1, OthersCount DEF Weights
      <3> QED BY <2>1, <2>3, <3>1, <3>2, BalanceStays DEF Weights, Inv
    <2> QED BY <2>2, <2>3
  <1> QED BY <1>1, <1>2, <1>3 DEF Next, Done

(* Between passes there is nothing that is counted only in part.               *)
LEMMA WeightsAreExact ==
  ASSUME Inv, Weights
  PROVE  WeightsExact
  <1> SUFFICES ASSUME Quiet, NEW j \in Columns, wt[j] <= MERGE_LEVEL_MAX
               PROVE  wt[j] = TrueWeight(j)
    BY DEF WeightsExact
  <1>1. phase # "read" /\ \A t \in Threads : th[t].pc # "weights"
    BY NonePending DEF Inv, Quiet
  <1>2. Early(j) = {} /\ Late(j) = {}
    BY <1>1 DEF Early, Late, Weighed
  <1>3. Cardinality(Early(j)) = 0 /\ Cardinality(Late(j)) = 0
    BY <1>2, FS_EmptySet
  <1>4. wt[j] \in Nat /\ MERGE_LEVEL_MAX \in Nat /\ TrueWeight(j) \in Nat
    BY <1>1, MergeAssumption, RowsCountable DEF Inv, MainTypes
  <1>5. Balanced(j)
    BY <1>1 DEF Weights
  <1>6. wt[j] + 0 = TrueWeight(j) + 0
    BY <1>3, <1>4, <1>5 DEF Balanced
  <1> QED BY <1>4, <1>6

LEMMA StepCounts ==
  ASSUME Inv, Weights, NoRace, [Next]_vars
  PROVE  Inv' /\ Weights'
  <1>1. Inv'
    BY WeightsAreExact, NextSafe
  <1> QED BY <1>1, WeightsNext

LEMMA InitCounts ==
  ASSUME Init
  PROVE  Inv /\ Weights
  <1>1. Weights
    BY DEF Init, Weights
  <1> QED BY <1>1, InitSafe

(* For any matrices, threads and sizes of pages: at every moment the weight of *)
(* a column, unless it is too large to be of interest, is that of the matrix,  *)
(* plus one for each thread that has counted it in a row that does not have it *)
(* yet, minus one for each that counts it no more in a row that still has it.  *)
(* The hypothesis is that no weight gets past the largest that is kept between *)
(* the comparison and the update of decrease_weight() or increase_weight():    *)
(* the run merge_weights shows that the weights may get wrong otherwise        *)
(* (filter/merge.c:685, :701).                                                 *)
THEOREM WeightsInvariant == Spec /\ []NoRace => [](Inv /\ Weights)
  <1>1. Init => Inv /\ Weights
    BY InitCounts
  <1>2. (Inv /\ Weights) /\ NoRace /\ [Next]_vars => (Inv /\ Weights)'
    BY StepCounts
  <1> QED BY <1>1, <1>2, PTL DEF Spec

(* Then the weights are exact whenever compute_R() takes each column to have   *)
(* as many rows as its weight says (filter/merge.c:619, :650).                 *)
THEOREM WeightsKept == Spec /\ []NoRace => []WeightsExact
  <1>1. Inv /\ Weights => WeightsExact
    BY WeightsAreExact
  <1> QED BY <1>1, WeightsInvariant, PTL

(* And the pages and the rows are kept without any hypothesis on the weights   *)
(* but that one: see HeapKept (filter/merge_heap.c:73, :138, :280).            *)
THEOREM HeapKeptByThreads == Spec /\ []NoRace => []HeapSound
  BY WeightsKept, HeapKept, PTL

-------------------------------------------------------------------------------
(* A merge removes its column.                                                 *)

(* A tree on its way: its nodes are different rows; S and T have each node     *)
(* once, and an edge leads from a node found before to the next one found.     *)
Spanning(ind, S, T, edges) ==
  /\ \A a, b \in 1 .. Len(ind) : ind[a] = ind[b] => a = b
  /\ Len(S) >= 1 /\ S[1] = 1 /\ Len(S) + Len(T) = Len(ind) /\ Len(edges) = Len(S) - 1
  /\ \A a, b \in 1 .. Len(S) : S[a] = S[b] => a = b
  /\ \A a, b \in 1 .. Len(T) : T[a] = T[b] => a = b
  /\ \A a \in 1 .. Len(S), b \in 1 .. Len(T) : S[a] # T[b]
  /\ \A x \in 1 .. Len(ind) : (\E a \in 1 .. Len(S) : S[a] = x) \/ (\E b \in 1 .. Len(T) : T[b] = x)
  /\ \A m \in 1 .. Len(edges) : /\ edges[m][2] = S[m + 1]
                                /\ \E a \in 1 .. m : edges[m][1] = S[a]

Growing(tree) == Spanning(tree.ind, tree.S, tree.T, tree.edges)

(* The additions still to do: each is to another row, of one that is changed   *)
(* later or removed at the end.                                                *)
Ordered(ops) ==
  /\ \A a, b \in 1 .. Len(ops) : ops[a].to = ops[b].to => a = b
  /\ \A m \in 1 .. Len(ops) : m # Len(ops) => \E a \in 1 .. Len(ops) : a > m /\ ops[a].to = ops[m].from

Working(t) == th[t].pc \in {"tree", "merge", "weights"}

(* The rows a merge has still to change.                                       *)
Unfinished(t, i) ==
  IF th[t].pc = "tree" THEN \E a \in 1 .. Len(th[t].tree.ind) : th[t].tree.ind[a] = i
                       ELSE \E m \in 1 .. Len(th[t].ops) : th[t].ops[m].to = i

(* They are the rows that have its column, which is light enough to have its   *)
(* weight kept.                                                                *)
Eliminates(t) ==
  Working(t) => \E c \in Columns : /\ wt[c] <= MERGE_LEVEL_MAX
                                   /\ \A i \in RowNumbers : i \in RowsWith(c) <=> Unfinished(t, i)

Merges(t) ==
  /\ th[t].pc = "tree" => Growing(th[t].tree)
  /\ th[t].pc \in {"merge", "weights"} => Ordered(th[t].ops)
  /\ Eliminates(t)

(* No row of the column is reserved but by a thread that may still merge it.   *)
Free(c) ==
  \A i \in R[c] : i \in busy_rows => \E t \in Threads : th[t].pc = "reserve" /\ Owns(t, i)

(* The rows of a column are still those of compute_R().                        *)
Intact(c) == c \in Columns /\ RowsWith(c) = R[c] /\ wt[c] <= MERGE_LEVEL_MAX

AllPlaced == \A c \in DOMAIN order : \A i \in R[c] : \E m \in 1 .. Cardinality(R[c]) : order[c][m] = i

Merging ==
  /\ phase # "apply" => R = <<>>
  /\ phase # "read" =>
       /\ \A t \in Threads : Merges(t)
       /\ \A c \in DOMAIN R : (~Winding /\ Free(c)) \/ num.nmerges = 0 => Intact(c)
       /\ AllPlaced

(* The threads whose merge is counted, though the last row of it is not removed*)
(* yet, and the columns that are left.                                         *)
Removing == {t \in Threads : th[t].pc \in {"merge", "weights"}}
Remaining == {j \in Columns : wt[j] > MERGE_LEVEL_MAX \/ RowsWith(j) # {}}

Tally ==
  phase # "read" =>
    /\ num.rem_nrows \in Int /\ num.rem_ncols \in Int
    /\ Cardinality(Live) + num.nmerges = num.rem_nrows + Cardinality(Removing)
    /\ Cardinality(Remaining) + num.nmerges <= num.rem_ncols + Cardinality(Removing)

(* What stays as long as no row and no weight changes.                         *)
LEMMA NothingGone ==
  ASSUME Inv, Inv', RowsStay, UNCHANGED <<purged, wt>>
  PROVE  /\ Columns' = Columns /\ RowNumbers' = RowNumbers
         /\ \A c : RowsWith(c)' = RowsWith(c)
         /\ Live' = Live /\ Remaining' = Remaining
  <1>1. Columns' = Columns /\ RowNumbers' = RowNumbers
    BY SameMatrix
  <1>2. HeapTypes /\ rows \in [RowNumbers -> Nat \X Nat] /\ rows' \in [RowNumbers -> Nat \X Nat]
    BY <1>1 DEF Inv, HeapTypes
  <1>3. \A c : RowsWith(c)' = RowsWith(c)
    BY <1>2, SameWeights
  <1>4. Live' = Live
    BY <1>2 DEF Live, RowsStay
  <1>5. Remaining' = Remaining
    BY <1>1, <1>3 DEF Remaining
  <1> QED BY <1>1, <1>3, <1>4, <1>5

(* A thread that is about the same merge.                                      *)
LEMMA SameMerge ==
  ASSUME Inv, Inv', RowsStay, UNCHANGED <<purged, wt>>, NEW t \in Threads, Eliminates(t),
         Working(t)' => Working(t) /\ \A i \in RowNumbers : Unfinished(t, i)' <=> Unfinished(t, i)
  PROVE  Eliminates(t)'
  <1> SUFFICES ASSUME Working(t)' PROVE Eliminates(t)'
    BY DEF Eliminates
  <1>1. PICK c \in Columns : /\ wt[c] <= MERGE_LEVEL_MAX
                             /\ \A i \in RowNumbers : i \in RowsWith(c) <=> Unfinished(t, i)
    BY DEF Eliminates
  <1>2. Columns' = Columns /\ RowNumbers' = RowNumbers /\ RowsWith(c)' = RowsWith(c)
    BY NothingGone
  <1>3. \A i \in RowNumbers' : i \in RowsWith(c)' <=> Unfinished(t, i)'
    BY <1>1, <1>2
  <1> QED BY <1>1, <1>2, <1>3 DEF Eliminates

(* A thread that does nothing.                                                 *)
LEMMA MergesStill ==
  ASSUME Inv, Inv', RowsStay, UNCHANGED <<purged, wt>>, NEW t \in Threads, Merges(t), th'[t] = th[t]
  PROVE  Merges(t)'
  <1>1. Working(t)' => Working(t) /\ \A i \in RowNumbers : Unfinished(t, i)' <=> Unfinished(t, i)
    BY DEF Working, Unfinished
  <1>2. Eliminates(t)'
    BY <1>1, SameMerge DEF Merges
  <1> QED BY <1>2 DEF Merges

LEMMA IntactStays ==
  ASSUME Inv, Inv', RowsStay, UNCHANGED <<purged, wt, R>>, NEW c, Intact(c)
  PROVE  Intact(c)'
  BY NothingGone DEF Intact

(* A thread that merges nothing.                                               *)
LEMMA MergesNothing ==
  ASSUME NEW t, th[t].pc \in {"loop", "reserve"}
  PROVE  Merges(t)
  BY DEF Merges, Eliminates, Working

(* A step of a thread that leaves rows and weights.                            *)
LEMMA MergingStep ==
  ASSUME Inv, Inv', Merging, phase = "apply", RowsStay, UNCHANGED <<purged, wt, R, phase>>,
         NEW t \in Threads, NEW s, th' = [th EXCEPT ![t] = s], Merges(t)',
         Winding => Winding', \A c \in DOMAIN R : Free(c)' => Free(c),
         num'.nmerges = 0 => num.nmerges = 0, AllPlaced'
  PROVE  Merging'
  <1>1. \A u \in Threads : u # t => th'[u] = th[u]
    BY DEF Inv, ThreadTypes
  <1>2. \A u \in Threads : Merges(u)'
    BY <1>1, MergesStill DEF Merging
  <1>3. \A c \in DOMAIN R' : (~Winding' /\ Free(c)') \/ num'.nmerges = 0 => Intact(c)'
    BY IntactStays DEF Merging
  <1> QED BY <1>2, <1>3 DEF Merging

(* Rows are reserved one by one, and what was reserved before stays so.        *)
LEMMA FreeBefore ==
  ASSUME Inv, UNCHANGED <<R, L>>, busy_rows \subseteq busy_rows',
         \A j \in DOMAIN order : j \in DOMAIN order' /\ order'[j] = order[j],
         NEW t \in Threads, \A u \in Threads : u # t => th'[u] = th[u],
         \A i : th'[t].pc = "reserve" /\ Owns(t, i)' => i \notin busy_rows \/ (th[t].pc = "reserve" /\ Owns(t, i)),
         NEW c, Free(c)'
  PROVE  Free(c)
  <1> SUFFICES ASSUME NEW i \in R[c], i \in busy_rows
               PROVE  \E u \in Threads : th[u].pc = "reserve" /\ Owns(u, i)
    BY DEF Free
  <1>1. PICK u \in Threads : th'[u].pc = "reserve" /\ Owns(u, i)'
    BY DEF Free
  <1>2. CASE u = t
    BY <1>1, <1>2
  <1>3. CASE u # t
    <2>1. th'[u] = th[u] /\ th[u].pc = "reserve"
      BY <1>1, <1>3
    <2>2. Column(u) \in DOMAIN order
      BY <2>1 DEF Inv, ThreadTypes, ThreadType
    <2>3. Column(u)' = Column(u) /\ order'[Column(u)] = order[Column(u)]
      BY <2>1, <2>2 DEF Column
    <2>4. Owns(u, i)
      BY <1>1, <2>1, <2>3 DEF Owns
    <2> QED BY <2>1, <2>4
  <1> QED BY <1>2, <1>3

(* Merges are taken and their rows reserved.                                   *)
LEMMA TakesMerges ==
  ASSUME Inv, Inv', Merging, NEW t \in Threads, TakeChunk(t) \/ LookAtRows(t) \/ Reserve(t)
  PROVE  Merging'
  <1>1. /\ DOMAIN th = Threads /\ DOMAIN th[t] = ThreadFields /\ ThreadType(t) /\ MainTypes
        /\ th[t].pc \in {"loop", "reserve"}
    BY DEF Inv, ThreadTypes, ThreadType, TakeChunk, LookAtRows, Looping, Reserve
  <1>2. phase = "apply" /\ UNCHANGED <<pages, rows, purged, wt, R, L, phase, num>>
    <2>1. phase = "apply"
      BY <1>1, NonePending DEF TakeChunk, LookAtRows, Looping, Reserve
    <2> QED BY <2>1 DEF TakeChunk, LookAtRows, Reserve, heapVars
  <1>3. RowsStay
    BY <1>2, SameRows
  <1>4. AllPlaced
    BY <1>2 DEF Merging
  <1>5. CASE TakeChunk(t)
    <2>1. PICK n \in 1 .. Len(L) - next + 1 :
               th' = [th EXCEPT ![t].it = next, ![t].last = next + n - 1]
      BY <1>5 DEF TakeChunk
    <2> DEFINE s == [th[t] EXCEPT !.it = next, !.last = next + n - 1]
    <2>2. th' = [th EXCEPT ![t] = s] /\ s.pc = "loop"
      BY <1>1, <1>5, <2>1 DEF TakeChunk, Looping, ThreadFields
    <2>3. ~Winding
      <3>1. next \in Nat /\ Len(L) \in Nat /\ n \in 1 .. Len(L) - next + 1
        BY <1>1, <2>1 DEF MainTypes
      <3> QED BY <3>1 DEF Winding
    <2> HIDE DEF s
    <2>4. th'[t].pc = "loop" /\ \A u \in Threads : u # t => th'[u] = th[u]
      BY <1>1, <2>2
    <2>5. Merges(t)'
      BY <2>4 DEF Merges, Eliminates, Working
    <2>6. UNCHANGED <<order, busy_rows>>
      BY <1>5 DEF TakeChunk
    <2>7. \A c \in DOMAIN R : Free(c)' => Free(c)
      BY <1>2, <2>4, <2>6, FreeBefore
    <2>8. AllPlaced'
      BY <1>2, <1>4, <2>6 DEF AllPlaced
    <2> QED BY <1>2, <1>3, <2>2, <2>3, <2>5, <2>7, <2>8, MergingStep
  <1>6. CASE LookAtRows(t)
    <2> DEFINE s1 == NextMerge(th[t])  s2 == [th[t] EXCEPT !.pc = "reserve"]
    <2>1. /\ th[t].pc = "loop" /\ th[t].it <= th[t].last /\ UNCHANGED busy_rows
          /\ \/ th' = [th EXCEPT ![t] = s1] /\ UNCHANGED order
             \/ /\ th' = [th EXCEPT ![t] = s2]
                /\ \E o \in Orders(Column(t)) :
                     order' = [j \in DOMAIN order \union {Column(t)} |->
                                 IF j = Column(t) THEN o ELSE order[j]]
      BY <1>6 DEF LookAtRows, Looping
    <2>2. s1.pc = "loop" /\ s2.pc = "reserve" /\ s2.k = 1
      BY <1>1, <2>1 DEF ThreadFields, NextMerge, ThreadType
    <2> HIDE DEF s1, s2
    <2>3. ~Winding
      <3>1. th[t].it \in Nat /\ th[t].last \in Int
        BY <1>1 DEF ThreadType, MainTypes
      <3> QED BY <2>1, <3>1 DEF Winding
    <2>4. PICK s : th' = [th EXCEPT ![t] = s] /\ s.pc \in {"loop", "reserve"}
                   /\ (s.pc = "reserve" => s.k = 1)
      BY <2>1, <2>2
    <2>5. th'[t] = s /\ \A u \in Threads : u # t => th'[u] = th[u]
      BY <1>1, <2>4
    <2>6. Merges(t)'
      BY <2>4, <2>5 DEF Merges, Eliminates, Working
    <2>7. \A j \in DOMAIN order : j \in DOMAIN order' /\ order'[j] = order[j]
      <3>1. CASE UNCHANGED order
        BY <3>1
      <3>2. CASE ~UNCHANGED order
        <4>1. PICK o \in Orders(Column(t)) :
                     order' = [j \in DOMAIN order \union {Column(t)} |->
                                 IF j = Column(t) THEN o ELSE order[j]]
          BY <2>1, <3>2
        <4>2. Column(t) \in DOMAIN order => o = order[Column(t)]
          BY DEF Orders
        <4> QED BY <4>1, <4>2
      <3> QED BY <3>1, <3>2
    <2>8. AllPlaced'
      <3>1. CASE UNCHANGED order
        BY <1>2, <1>4, <3>1 DEF AllPlaced
      <3>2. CASE ~UNCHANGED order
        <4>1. PICK o \in Orders(Column(t)) :
                     order' = [j \in DOMAIN order \union {Column(t)} |->
                                 IF j = Column(t) THEN o ELSE order[j]]
          BY <2>1, <3>2
        <4>2. ASSUME NEW i \in R[Column(t)]
              PROVE  \E m \in 1 .. Cardinality(R[Column(t)]) : o[m] = i
          <5>1. CASE Column(t) \in DOMAIN order
            <6>1. o = order[Column(t)]
              BY <5>1 DEF Orders
            <6> QED BY <1>4, <5>1, <6>1 DEF AllPlaced
          <5>2. CASE Column(t) \notin DOMAIN order
            <6>1. o \in [1 .. Cardinality(R[Column(t)]) -> R[Column(t)]] /\ ToSet(o) = R[Column(t)]
              BY <5>2 DEF Orders
            <6> QED BY <6>1 DEF ToSet
          <5> QED BY <5>1, <5>2
        <4>3. ASSUME NEW c \in DOMAIN order', NEW i \in R[c]
              PROVE  \E m \in 1 .. Cardinality(R[c]) : order'[c][m] = i
          <5>1. CASE c = Column(t)
            BY <4>1, <4>2, <5>1
          <5>2. CASE c # Column(t)
            <6>1. c \in DOMAIN order /\ order'[c] = order[c]
              BY <4>1, <5>2
            <6> QED BY <1>4, <6>1 DEF AllPlaced
          <5> QED BY <5>1, <5>2
        <4> QED BY <1>2, <4>3 DEF AllPlaced
      <3> QED BY <3>1, <3>2
    <2>9. ASSUME NEW i, th'[t].pc = "reserve", Owns(t, i)' PROVE FALSE
      <3>1. PICK m \in 1 .. Cardinality(R'[Column(t)']) : m < th'[t].k
        BY <2>9 DEF Owns
      <3>2. th'[t].k = 1
        BY <2>4, <2>5, <2>9
      <3>3. ThreadType(t)' /\ MainTypes'
        BY DEF Inv, ThreadTypes
      <3>4. m >= 1
        <4>1. Column(t)' \in DOMAIN R'
          BY <2>9, <3>3 DEF ThreadType, MainTypes
        <4> QED OBVIOUS
      <3>5. m \in Int
        OBVIOUS
      <3> QED BY <3>1, <3>2, <3>4, <3>5
    <2>10. \A c \in DOMAIN R : Free(c)' => Free(c)
      BY <1>2, <2>1, <2>5, <2>7, <2>9, FreeBefore
    <2> QED BY <1>2, <1>3, <2>3, <2>4, <2>6, <2>8, <2>10, MergingStep
  <1>7. CASE Reserve(t)
    <2> DEFINE row == order[Column(t)][th[t].k]
               s1 == NextMerge(th[t])  s2 == [th[t] EXCEPT !.k = @ + 1]
    <2>1. /\ th[t].pc = "reserve" /\ busy_rows' = busy_rows \union {row} /\ UNCHANGED order
          /\ th' = [th EXCEPT ![t] = IF row \in busy_rows THEN s1 ELSE s2]
      BY <1>7 DEF Reserve
    <2>2. s1.pc = "loop" /\ s2.pc = "reserve" /\ s2.k = th[t].k + 1 /\ s2.it = th[t].it
      BY <1>1, <2>1 DEF ThreadFields, NextMerge
    <2>3. ~Winding
      BY <2>1 DEF Winding
    <2>4. PICK s : th' = [th EXCEPT ![t] = s]
                   /\ \/ s.pc = "loop"
                      \/ s.pc = "reserve" /\ s.k = th[t].k + 1 /\ s.it = th[t].it /\ row \notin busy_rows
      <3> HIDE DEF s1, s2, row
      <3> QED BY <2>1, <2>2
    <2>5. th'[t] = s /\ \A u \in Threads : u # t => th'[u] = th[u]
      BY <1>1, <2>4
    <2>6. Merges(t)'
      BY <2>4, <2>5 DEF Merges, Eliminates, Working
    <2>7. AllPlaced'
      BY <1>2, <1>4, <2>1 DEF AllPlaced
    <2>8. ASSUME NEW i, th'[t].pc = "reserve", Owns(t, i)'
          PROVE  i \notin busy_rows \/ (th[t].pc = "reserve" /\ Owns(t, i))
      <3>1. Column(t)' = Column(t)
        BY <1>2, <2>4, <2>5, <2>8 DEF Column
      <3>2. PICK m \in 1 .. Cardinality(R[Column(t)]) : m < th[t].k + 1 /\ order[Column(t)][m] = i
        BY <1>2, <2>1, <2>4, <2>5, <2>8, <3>1 DEF Owns
      <3>3. m < th[t].k \/ m = th[t].k
        <4>1. th[t].k \in Nat /\ m \in Int
          BY <1>1 DEF ThreadType
        <4> QED BY <3>2, <4>1
      <3>4. CASE m < th[t].k
        BY <2>1, <3>2, <3>4 DEF Owns
      <3>5. CASE m = th[t].k
        <4>1. row \notin busy_rows
          BY <2>4, <2>5, <2>8
        <4>2. i = row
          BY <3>2, <3>5
        <4> QED BY <4>1, <4>2
      <3> QED BY <3>3, <3>4, <3>5
    <2>9. \A c \in DOMAIN R : Free(c)' => Free(c)
      <3>1. busy_rows \subseteq busy_rows'
        BY <2>1
      <3> QED BY <1>2, <2>1, <2>5, <2>8, <3>1, FreeBefore
    <2> QED BY <1>2, <1>3, <2>3, <2>4, <2>6, <2>7, <2>9, MergingStep
  <1> QED BY <1>5, <1>6, <1>7

(* An order of the rows of a column has each of them once.                     *)
LEMMA EachRowOnce ==
  ASSUME MainTypes, NEW j \in DOMAIN R, NEW o \in [1 .. Cardinality(R[j]) -> R[j]],
         \A i \in R[j] : \E m \in 1 .. Cardinality(R[j]) : o[m] = i
  PROVE  \A a, b \in 1 .. Cardinality(R[j]) : o[a] = o[b] => a = b
  <1> DEFINE S == R[j]  n == Cardinality(R[j])
  <1>1. IsFiniteSet(S)
    <2>1. IsFiniteSet(RowNumbers) /\ R[j] \subseteq RowNumbers
      <3>1. RowNumbers = 1 .. Len(purged) /\ Len(purged) \in Nat
        BY MatrixRows DEF MainTypes
      <3>2. IsFiniteSet(RowNumbers)
        BY <3>1, FS_Interval
      <3> QED BY <3>2 DEF MainTypes
    <2> QED BY <2>1, FS_Subset
  <1>2. n \in Nat
    BY <1>1, FS_CardinalityType
  <1>3. o \in Surjection(1 .. n, S)
    <2> HIDE DEF S, n
    <2>1. o \in [1 .. n -> S] /\ \A i \in S : \E m \in 1 .. n : o[m] = i
      BY DEF S, n
    <2> QED BY <2>1 DEF Surjection
  <1> HIDE DEF S
  <1>4. n = Cardinality(S)
    BY DEF S
  <1> HIDE DEF n
  <1>5. IsFiniteSet(1 .. n) /\ Cardinality(1 .. n) = n
    <2>1. IsFiniteSet(1 .. n) /\ Cardinality(1 .. n) = IF 1 > n THEN 0 ELSE n - 1 + 1
      BY <1>2, FS_Interval
    <2> QED BY <1>2, <2>1
  <1>6. o \in Injection(1 .. n, S)
    BY <1>3, <1>4, <1>5, FS_SurjSameCardinalityImpliesInj
  <1> QED BY <1>6 DEF Injection, IsInjective, n, S

(* The tree has its root only.                                                 *)
LEMMA SeedlingGrows ==
  ASSUME NEW ind \in Seq(RowNumbers), Len(ind) >= 1,
         \A a, b \in 1 .. Len(ind) : ind[a] = ind[b] => a = b
  PROVE  Growing(Seedling(ind))
  <1> DEFINE tree == Seedling(ind)  n == Len(ind)  S == <<1>>  T == [i \in 1 .. n - 1 |-> i + 1]
             edges == <<>>
  <1>1. n \in Nat /\ n >= 1
    OBVIOUS
  <1>2. tree.ind = ind /\ tree.S = S /\ tree.T = T /\ tree.edges = edges
    BY DEF Seedling
  <1>3. Len(T) = n - 1 /\ \A b \in 1 .. n - 1 : T[b] = b + 1
    <2> HIDE DEF n
    <2> DEFINE m == n - 1
    <2>1. m \in Nat /\ T = [i \in 1 .. m |-> i + 1] /\ T \in [1 .. m -> Nat]
      BY <1>1
    <2>2. Len(T) = m
      <3> HIDE DEF m, T
      <3> QED BY <2>1, Listed
    <2> QED BY <2>1, <2>2
  <1>4. Len(S) = 1 /\ S[1] = 1 /\ Len(edges) = 0
    OBVIOUS
  <1>5. \A x \in 1 .. n : (\E a \in 1 .. Len(S) : S[a] = x) \/ (\E b \in 1 .. Len(T) : T[b] = x)
    <2> SUFFICES ASSUME NEW x \in 1 .. n PROVE (\E a \in 1 .. Len(S) : S[a] = x) \/ (\E b \in 1 .. Len(T) : T[b] = x)
      OBVIOUS
    <2> HIDE DEF n, S, T
    <2>1. CASE x = 1
      BY <1>1, <1>4, <2>1
    <2>2. CASE x # 1
      <3>1. x - 1 \in 1 .. n - 1 /\ (x - 1) + 1 = x
        BY <1>1, <2>2
      <3>2. T[x - 1] = x
        BY <1>3, <3>1
      <3> QED BY <1>3, <3>1, <3>2
    <2> QED BY <2>1, <2>2
  <1>6. /\ Len(S) + Len(T) = n /\ Len(edges) = Len(S) - 1
        /\ \A a, b \in 1 .. Len(S) : S[a] = S[b] => a = b
        /\ \A a, b \in 1 .. Len(T) : T[a] = T[b] => a = b
        /\ \A a \in 1 .. Len(S), b \in 1 .. Len(T) : S[a] # T[b]
    <2> HIDE DEF n, S, T, edges
    <2> QED BY <1>1, <1>3, <1>4
  <1>7. \A m \in 1 .. Len(edges) : edges[m][2] = S[m + 1] /\ \E a \in 1 .. m : edges[m][1] = S[a]
    <2> HIDE DEF edges, S
    <2> QED BY <1>4
  <1>8. \A a, b \in 1 .. n : ind[a] = ind[b] => a = b
    OBVIOUS
  <1> HIDE DEF tree, n, S, T, edges
  <1>9. n = Len(ind)
    BY DEF n
  <1>10. Spanning(ind, S, T, edges)
    BY <1>4, <1>5, <1>6, <1>7, <1>8, <1>9 DEF Spanning
  <1> QED BY <1>2, <1>10 DEF Growing, tree

(* A merge begins: its rows are those of its column.                           *)
LEMMA BeginsMerge ==
  ASSUME Inv, Inv', RowsStay, UNCHANGED <<purged, wt>>, NEW j \in DOMAIN R, Intact(j),
         NEW o \in [1 .. Cardinality(R[j]) -> R[j]],
         \A i \in R[j] : \E m \in 1 .. Cardinality(R[j]) : o[m] = i,
         NEW t \in Threads, th'[t].pc = "tree", th'[t].tree = Seedling(o)
  PROVE  Merges(t)'
  <1>1. MainTypes
    BY DEF Inv
  <1>2. o \in Seq(RowNumbers) /\ Len(o) = Cardinality(R[j]) /\ Len(o) >= 1
    BY <1>1, OrderedRows
  <1>3. \A a, b \in 1 .. Len(o) : o[a] = o[b] => a = b
    BY <1>1, <1>2, EachRowOnce
  <1>4. Growing(Seedling(o))
    BY <1>2, <1>3, SeedlingGrows
  <1>5. Growing(th'[t].tree)
    BY <1>4
  <1>6. th'[t].tree.ind = o
    BY DEF Seedling
  <1>7. j \in Columns' /\ wt'[j] <= MERGE_LEVEL_MAX /\ RowsWith(j)' = R[j]
    BY NothingGone DEF Intact
  <1>8. \A i \in RowNumbers' : i \in RowsWith(j)' <=> Unfinished(t, i)'
    <2>1. ASSUME NEW i PROVE i \in R[j] <=> \E a \in 1 .. Len(o) : o[a] = i
      BY <1>2
    <2> QED BY <1>6, <1>7, <2>1 DEF Unfinished
  <1>9. Eliminates(t)'
    BY <1>7, <1>8 DEF Eliminates
  <1> QED BY <1>5, <1>9 DEF Merges, Growing, Spanning

LEMMA MergingAtMerge ==
  ASSUME Inv, Inv', Merging, NEW t \in Threads, Merge(t)
  PROVE  Merging'
  <1> DEFINE j == Column(t)
  <1>1. /\ DOMAIN th = Threads /\ DOMAIN th[t] = ThreadFields /\ ThreadType(t) /\ MainTypes /\ Ownership
        /\ th[t].pc = "reserve" /\ th[t].k > Cardinality(R[j])
    BY DEF Inv, ThreadTypes, ThreadType, Merge
  <1>2. phase = "apply" /\ UNCHANGED <<pages, rows, purged, wt, R, L, phase, num, order, busy_rows>>
    <2>1. phase = "apply"
      BY <1>1, NonePending
    <2> QED BY <2>1 DEF Merge, heapVars
  <1>3. RowsStay
    BY <1>2, SameRows
  <1>4. j \in DOMAIN R /\ j \in DOMAIN order /\ order[j] \in [1 .. Cardinality(R[j]) -> R[j]]
    BY <1>1 DEF ThreadType, MainTypes
  <1>5. \A i \in R[j] : \E m \in 1 .. Cardinality(R[j]) : order[j][m] = i
    BY <1>2, <1>4 DEF Merging, AllPlaced
  <1> DEFINE s == [NextMerge(th[t]) EXCEPT !.pc = "tree", !.tree = Seedling(order[j])]
  <1>6. th' = [th EXCEPT ![t] = s]
    BY DEF Merge, merge_do
  <1>7. s.pc = "tree" /\ s.tree = Seedling(order[j])
    BY <1>1 DEF ThreadFields, NextMerge
  <1>8. ~Winding
    BY <1>1 DEF Winding
  <1>9. Free(j)
    <2> SUFFICES ASSUME NEW i \in R[j] PROVE Owns(t, i)
      BY <1>1 DEF Free
    <2>1. PICK m \in 1 .. Cardinality(R[j]) : order[j][m] = i
      BY <1>5
    <2>2. m < th[t].k
      <3>1. th[t].k \in Nat /\ Cardinality(R[j]) \in Nat
        <4>1. Len(order[j]) = Cardinality(R[j]) /\ order[j] \in Seq(RowNumbers)
          BY <1>1, <1>4, OrderedRows
        <4> QED BY <1>1, <4>1 DEF ThreadType
      <3> QED BY <1>1, <3>1
    <2> QED BY <1>1, <2>1, <2>2 DEF Owns
  <1>10. Intact(j)
    BY <1>2, <1>4, <1>8, <1>9 DEF Merging
  <1> HIDE DEF s, j
  <1>11. th'[t] = s /\ \A u \in Threads : u # t => th'[u] = th[u]
    BY <1>1, <1>6
  <1>12. Merges(t)'
    BY <1>2, <1>3, <1>4, <1>5, <1>7, <1>10, <1>11, BeginsMerge
  <1>13. \A c \in DOMAIN R : Free(c)' => Free(c)
    BY <1>2, <1>7, <1>11, FreeBefore
  <1>14. AllPlaced'
    BY <1>2 DEF Merging, AllPlaced
  <1> QED BY <1>2, <1>3, <1>6, <1>8, <1>12, <1>13, <1>14, MergingStep

LEMMA MergingAtApplyFirst ==
  ASSUME Inv, Inv', Merging, ApplyFirst
  PROVE  Merging'
  <1> DEFINE t == Main  j == L[1]
  <1>1. /\ t \in Threads /\ DOMAIN th = Threads /\ DOMAIN th[t] = ThreadFields /\ ThreadTypes
        /\ MainTypes /\ th[t].it > th[t].last
    BY HeapAssumption DEF Inv, ThreadTypes, ThreadType, ApplyFirst, ParallelSectionOver
  <1>2. /\ phase = "apply" /\ num.nmerges = 0 /\ L # <<>>
        /\ UNCHANGED <<pages, rows, purged, wt, R, L, phase, num, order, busy_rows, next>>
    BY DEF ApplyFirst, ParallelSectionOver, heapVars
  <1>3. RowsStay
    BY <1>2, SameRows
  <1>4. j \in DOMAIN R
    <2>1. L \in Seq(DOMAIN R) /\ L # <<>>
      BY <1>1, <1>2 DEF MainTypes
    <2> QED BY <2>1
  <1>5. PICK o \in Orders(j) : merge_do(t, o, th[t])
    BY DEF ApplyFirst
  <1>6. /\ o \in [1 .. Cardinality(R[j]) -> R[j]]
        /\ \A i \in R[j] : \E m \in 1 .. Cardinality(R[j]) : o[m] = i
    <2>1. CASE j \in DOMAIN order
      <3>1. o = order[j]
        BY <2>1 DEF Orders
      <3> QED BY <1>1, <1>2, <2>1, <3>1 DEF MainTypes, Merging, AllPlaced
    <2>2. CASE j \notin DOMAIN order
      <3>1. o \in [1 .. Cardinality(R[j]) -> R[j]] /\ ToSet(o) = R[j]
        BY <2>2 DEF Orders
      <3> QED BY <3>1 DEF ToSet
    <2> QED BY <2>1, <2>2
  <1> DEFINE s == [th[t] EXCEPT !.pc = "tree", !.tree = Seedling(o)]
  <1>7. th' = [th EXCEPT ![t] = s] /\ s.pc = "tree" /\ s.tree = Seedling(o)
        /\ s.it = th[t].it /\ s.last = th[t].last
    BY <1>1, <1>5 DEF merge_do, ThreadFields
  <1>8. Intact(j)
    BY <1>2, <1>4 DEF Merging
  <1> HIDE DEF s, j, t
  <1>9. th'[t] = s /\ \A u \in Threads : u # t => th'[u] = th[u]
    BY <1>1, <1>7
  <1>10. Merges(t)'
    BY <1>1, <1>2, <1>3, <1>4, <1>6, <1>7, <1>8, <1>9, BeginsMerge
  <1>11. \A c \in DOMAIN R : Free(c)' => Free(c)
    BY <1>1, <1>2, <1>7, <1>9, FreeBefore
  <1>12. Winding'
    <2>1. \A u \in Threads : th'[u].pc # "reserve" /\ th'[u].it > th'[u].last
      BY <1>7, <1>9 DEF ApplyFirst, ParallelSectionOver
    <2>2. next' > Len(L')
      BY <1>2 DEF ApplyFirst, ParallelSectionOver
    <2> QED BY <2>1, <2>2 DEF Winding
  <1>13. AllPlaced'
    BY <1>2 DEF Merging, AllPlaced
  <1> QED BY <1>1, <1>2, <1>3, <1>7, <1>10, <1>11, <1>12, <1>13, MergingStep

(* All but the last element of a list.                                         *)
LEMMA FrontOf ==
  ASSUME NEW N, NEW T \in Seq(N), Len(T) >= 1
  PROVE  Len(Front(T)) = Len(T) - 1 /\ \A b \in 1 .. Len(T) - 1 : Front(T)[b] = T[b]
  <1> DEFINE k == Len(T)  n == k - 1
  <1>1. k \in Nat /\ k >= 1 /\ k = Len(T) /\ \A b \in 1 .. k : T[b] \in N
    OBVIOUS
  <1>2. n \in Int /\ n = k - 1 /\ \A b \in 1 .. n : T[b] \in N
    BY <1>1
  <1>3. Front(T) = SubSeq(T, 1, n)
    BY DEF Front
  <1> HIDE DEF n, k
  <1>4. /\ Len(SubSeq(T, 1, n)) = IF 1 <= n THEN n - 1 + 1 ELSE 0
        /\ \A b \in 1 .. n - 1 + 1 : SubSeq(T, 1, n)[b] = T[1 + b - 1]
    BY <1>2, SubSeqProperties
  <1>5. Len(Front(T)) = n
    BY <1>1, <1>2, <1>3, <1>4
  <1>6. ASSUME NEW b \in 1 .. n PROVE Front(T)[b] = T[b]
    <2>1. b \in 1 .. n - 1 + 1 /\ 1 + b - 1 = b
      BY <1>2
    <2> QED BY <1>3, <1>4, <2>1
  <1> QED BY <1>1, <1>2, <1>5, <1>6

LEMMA GrownGrows ==
  ASSUME NEW tree, IsTree(tree), Growing(tree), NEW e \in (DOMAIN tree.S) \X (DOMAIN tree.T), NEW w,
         NEW grown, grown = Grown(tree, e, w)
  PROVE  Growing(grown) /\ grown.ind = tree.ind
  <1> DEFINE n == Len(tree.ind)  S == tree.S  T == tree.T  edges == tree.edges
             v == T[e[2]]  q == Len(S)  k == Len(T)  z == e[2]
             S1 == Append(S, v)
             T1 == Front([T EXCEPT ![e[2]] = Last(T)])
             edge == <<S[e[1]], v>>
             edges1 == Append(edges, edge)
  <1>1. /\ DOMAIN tree = {"ind", "S", "T", "edges", "w"} /\ tree.ind \in Seq(RowNumbers) /\ n >= 1
        /\ S \in Seq(1 .. n) /\ T \in Seq(1 .. n) /\ edges \in Seq((1 .. n) \X (1 .. n))
    BY DEF IsTree
  <1>2. /\ DOMAIN grown = {"ind", "S", "T", "edges", "w"} /\ grown.ind = tree.ind
        /\ grown.S = S1 /\ grown.T = T1 /\ grown.edges = edges1
    BY <1>1 DEF Grown
  <1>3. /\ \A a, b \in 1 .. n : tree.ind[a] = tree.ind[b] => a = b
        /\ q >= 1 /\ S[1] = 1 /\ q + k = n /\ Len(edges) = q - 1
    BY DEF Growing, Spanning
  <1>4. /\ \A a, b \in 1 .. q : S[a] = S[b] => a = b
        /\ \A a, b \in 1 .. k : T[a] = T[b] => a = b
        /\ \A a \in 1 .. q, b \in 1 .. k : S[a] # T[b]
    BY DEF Growing, Spanning
  <1>5. \A x \in 1 .. n : (\E a \in 1 .. q : S[a] = x) \/ (\E b \in 1 .. k : T[b] = x)
    BY DEF Growing, Spanning
  <1>6. \A m \in 1 .. Len(edges) : edges[m][2] = S[m + 1] /\ \E a \in 1 .. m : edges[m][1] = S[a]
    BY DEF Growing, Spanning
  <1>7. e[1] \in 1 .. q /\ z \in 1 .. k /\ q \in Nat /\ k \in Nat /\ n \in Nat
    BY <1>1
  <1>8. v \in 1 .. n /\ S[e[1]] \in 1 .. n
    BY <1>1, <1>7
  <1> DEFINE N == 1 .. n
  <1>9. /\ Len(S1) = q + 1 /\ S1[q + 1] = v /\ \A a \in 1 .. q : S1[a] = S[a]
    <2>1. S \in Seq(N) /\ v \in N
      BY <1>1, <1>8
    <2> HIDE DEF N, S, v
    <2> QED BY <2>1, Appended
  <1>10. Len(T1) = k - 1 /\ \A b \in 1 .. k - 1 : T1[b] = IF b = z THEN T[k] ELSE T[b]
    <2> DEFINE x == Last(T)  T0 == [T EXCEPT ![z] = x]
    <2>1. T \in Seq(N) /\ z \in 1 .. Len(T) /\ T1 = Front(T0) /\ T0 = [T EXCEPT ![z] = x]
          /\ k = Len(T) /\ k \in Nat
      BY <1>1, <1>7
    <2> HIDE DEF N, T, T1, z, k, T0
    <2>2. x = T[k] /\ x \in N
      BY <2>1 DEF Last
    <2> HIDE DEF x
    <2>3. T0 \in Seq(N) /\ Len(T0) = k /\ \A b \in 1 .. k : T0[b] = IF b = z THEN x ELSE T[b]
      BY <2>1, <2>2
    <2>6. k >= 1
      BY <2>1
    <2>7. Len(Front(T0)) = Len(T0) - 1 /\ \A b \in 1 .. Len(T0) - 1 : Front(T0)[b] = T0[b]
      BY <2>3, <2>6, FrontOf
    <2>4. Len(T1) = k - 1
      BY <2>1, <2>3, <2>7
    <2>5. ASSUME NEW b \in 1 .. k - 1 PROVE T1[b] = IF b = z THEN T[k] ELSE T[b]
      <3>1. b \in 1 .. k /\ b \in 1 .. Len(T0) - 1
        BY <2>1, <2>3
      <3> QED BY <2>1, <2>2, <2>3, <2>7, <3>1
    <2> QED BY <2>4, <2>5
  <1>11. /\ Len(edges1) = q /\ edges1[q][1] = S[e[1]] /\ edges1[q][2] = v
         /\ \A m \in 1 .. q - 1 : edges1[m] = edges[m]
    <2>1. edges \in Seq(N \X N) /\ edge \in N \X N /\ Len(edges) + 1 = q /\ Len(edges) = q - 1
      BY <1>1, <1>3, <1>7, <1>8
    <2>2. edge[1] = S[e[1]] /\ edge[2] = v
      OBVIOUS
    <2> HIDE DEF N, edges, edge, q
    <2>3. /\ Len(Append(edges, edge)) = Len(edges) + 1 /\ Append(edges, edge)[Len(edges) + 1] = edge
          /\ \A m \in 1 .. Len(edges) : Append(edges, edge)[m] = edges[m]
      BY <2>1, Appended
    <2> QED BY <2>1, <2>2, <2>3
  <1>12. v = T[z]
    OBVIOUS
  <1>13. Len(edges) = q - 1
    BY <1>3
  <1> HIDE DEF n, S, T, edges, v, q, k, z, S1, T1, edge, edges1
  <1>14. /\ Len(S1) >= 1 /\ S1[1] = 1 /\ Len(S1) + Len(T1) = n /\ Len(edges1) = Len(S1) - 1
    BY <1>3, <1>7, <1>9, <1>10, <1>11
  <1>15. \A a, b \in 1 .. q + 1 : S1[a] = S1[b] => a = b
    <2> SUFFICES ASSUME NEW a \in 1 .. q + 1, NEW b \in 1 .. q + 1, S1[a] = S1[b], a # b PROVE FALSE
      OBVIOUS
    <2>1. \A x \in 1 .. q : S1[x] # v
      BY <1>4, <1>7, <1>9, <1>12
    <2>2. a \in 1 .. q \/ a = q + 1
      BY <1>7
    <2>3. b \in 1 .. q \/ b = q + 1
      BY <1>7
    <2> QED BY <1>4, <1>9, <2>1, <2>2, <2>3
  <1>16. \A a, b \in 1 .. k - 1 : T1[a] = T1[b] => a = b
    <2> SUFFICES ASSUME NEW a \in 1 .. k - 1, NEW b \in 1 .. k - 1, T1[a] = T1[b] PROVE a = b
      OBVIOUS
    <2>1. a \in 1 .. k /\ b \in 1 .. k /\ a # k /\ b # k /\ k \in 1 .. k
      BY <1>7
    <2>2. /\ T1[a] = IF a = z THEN T[k] ELSE T[a]
          /\ T1[b] = IF b = z THEN T[k] ELSE T[b]
      BY <1>10
    <2> QED BY <1>4, <2>1, <2>2
  <1>17. \A a \in 1 .. q + 1, b \in 1 .. k - 1 : S1[a] # T1[b]
    <2> SUFFICES ASSUME NEW a \in 1 .. q + 1, NEW b \in 1 .. k - 1 PROVE S1[a] # T1[b]
      OBVIOUS
    <2>1. b \in 1 .. k /\ b # k /\ k \in 1 .. k
      BY <1>7
    <2>2. \E c \in 1 .. k : T1[b] = T[c] /\ c # z
      <3>1. CASE b = z
        BY <1>10, <2>1, <3>1
      <3>2. CASE b # z
        BY <1>10, <2>1, <3>2
      <3> QED BY <3>1, <3>2
    <2>3. a \in 1 .. q \/ a = q + 1
      BY <1>7
    <2> QED BY <1>4, <1>7, <1>9, <1>12, <2>2, <2>3
  <1>18. \A x \in 1 .. n : (\E a \in 1 .. q + 1 : S1[a] = x) \/ (\E b \in 1 .. k - 1 : T1[b] = x)
    <2> SUFFICES ASSUME NEW x \in 1 .. n
                 PROVE  (\E a \in 1 .. q + 1 : S1[a] = x) \/ (\E b \in 1 .. k - 1 : T1[b] = x)
      OBVIOUS
    <2>1. CASE \E a \in 1 .. q : S[a] = x
      <3>1. PICK a \in 1 .. q : S[a] = x
        BY <2>1
      <3>2. a \in 1 .. q + 1 /\ S1[a] = x
        BY <1>7, <1>9, <3>1
      <3> QED BY <3>2
    <2>2. CASE \E b \in 1 .. k : T[b] = x
      <3>1. PICK b \in 1 .. k : T[b] = x
        BY <2>2
      <3>2. CASE b = z
        <4>1. q + 1 \in 1 .. q + 1 /\ S1[q + 1] = x
          BY <1>7, <1>9, <1>12, <3>1, <3>2
        <4> QED BY <4>1
      <3>3. CASE b # z /\ b = k
        <4>1. z \in 1 .. k - 1 /\ T1[z] = x
          BY <1>7, <1>10, <3>1, <3>3
        <4> QED BY <4>1
      <3>4. CASE b # z /\ b # k
        <4>1. b \in 1 .. k - 1 /\ T1[b] = x
          BY <1>7, <1>10, <3>1, <3>4
        <4> QED BY <4>1
      <3> QED BY <3>2, <3>3, <3>4
    <2> QED BY <1>5, <2>1, <2>2
  <1>19. \A m \in 1 .. q : edges1[m][2] = S1[m + 1] /\ \E a \in 1 .. m : edges1[m][1] = S1[a]
    <2> SUFFICES ASSUME NEW m \in 1 .. q
                 PROVE  edges1[m][2] = S1[m + 1] /\ \E a \in 1 .. m : edges1[m][1] = S1[a]
      OBVIOUS
    <2>1. CASE m = q
      BY <1>7, <1>9, <1>11, <2>1
    <2>2. CASE m # q
      <3>1. m \in 1 .. q - 1 /\ m + 1 \in 1 .. q
        BY <1>7, <2>2
      <3>2. edges1[m] = edges[m] /\ edges[m][2] = S[m + 1]
        BY <1>6, <1>11, <1>13, <3>1
      <3>3. PICK a \in 1 .. m : edges[m][1] = S[a]
        BY <1>6, <1>13, <3>1
      <3>4. a \in 1 .. q
        BY <1>7
      <3> QED BY <1>9, <3>1, <3>2, <3>3, <3>4
    <2> QED BY <2>1, <2>2
  <1>20. n = Len(tree.ind) /\ \A a, b \in 1 .. n : tree.ind[a] = tree.ind[b] => a = b
    BY <1>3 DEF n
  <1>21. Len(S1) = q + 1 /\ Len(T1) = k - 1 /\ Len(edges1) = q
    BY <1>9, <1>10, <1>11
  <1>22. Spanning(tree.ind, S1, T1, edges1)
    BY <1>14, <1>15, <1>16, <1>17, <1>18, <1>19, <1>20, <1>21 DEF Spanning
  <1> QED BY <1>2, <1>22 DEF Growing

LEMMA MergingAtGrow ==
  ASSUME Inv, Inv', Merging, NEW t \in Threads, GrowTree(t)
  PROVE  Merging'
  <1> DEFINE tree == th[t].tree
  <1>1. /\ DOMAIN th = Threads /\ DOMAIN th[t] = ThreadFields /\ ThreadType(t) /\ MainTypes
        /\ th[t].pc = "tree"
    BY DEF Inv, ThreadTypes, ThreadType, GrowTree
  <1>2. phase = "apply" /\ UNCHANGED <<pages, rows, purged, wt, R, L, phase, num, order, busy_rows, next>>
    <2>1. phase = "apply"
      BY <1>1, NonePending
    <2> QED BY <2>1 DEF GrowTree, heapVars
  <1>3. RowsStay
    BY <1>2, SameRows
  <1>4. PICK e \in (DOMAIN tree.S) \X (DOMAIN tree.T) :
          \E w : th' = [th EXCEPT ![t].tree = Grown(tree, e, w)]
    BY ZenonT(40) DEF GrowTree, Grown
  <1>5. IsTree(tree) /\ Growing(tree) /\ Eliminates(t)
    BY <1>1, <1>2 DEF Merging, Merges, ThreadType
  <1>6. PICK grown : Growing(grown) /\ grown.ind = tree.ind /\ th' = [th EXCEPT ![t].tree = grown]
    <2> HIDE DEF tree
    <2>1. \A w : Growing(Grown(tree, e, w)) /\ Grown(tree, e, w).ind = tree.ind
      BY <1>5, GrownGrows
    <2> QED BY <1>4, <2>1
  <1> DEFINE s == [th[t] EXCEPT !.tree = grown]
  <1>7. th' = [th EXCEPT ![t] = s]
    BY <1>1, <1>6
  <1>8. s.pc = "tree" /\ s.tree = grown /\ s.it = th[t].it /\ s.last = th[t].last
    BY <1>1 DEF ThreadFields
  <1> HIDE DEF s
  <1>9. th'[t] = s /\ \A u \in Threads : u # t => th'[u] = th[u]
    BY <1>1, <1>7
  <1>10. Eliminates(t)'
    <2>1. Working(t) /\ \A i \in RowNumbers : Unfinished(t, i)' <=> Unfinished(t, i)
      BY <1>1, <1>6, <1>8, <1>9 DEF Working, Unfinished
    <2> QED BY <1>2, <1>3, <1>5, <2>1, SameMerge
  <1>11. Merges(t)'
    <2>1. Growing(th'[t].tree) /\ th'[t].pc = "tree"
      BY <1>6, <1>8, <1>9
    <2> QED BY <1>10, <2>1 DEF Merges, Growing, Spanning
  <1>12. \A c \in DOMAIN R : Free(c)' => Free(c)
    BY <1>2, <1>8, <1>9, FreeBefore
  <1>13. Winding => Winding'
    BY <1>2, <1>8, <1>9 DEF Winding
  <1>14. AllPlaced'
    BY <1>2 DEF Merging, AllPlaced
  <1> QED BY <1>2, <1>3, <1>7, <1>11, <1>12, <1>13, <1>14, MergingStep

(* The additions along a tree, those of the last edge first.                   *)
LEMMA AdditionsAlong ==
  ASSUME NEW tree, IsTree(tree), NEW z, z = Len(tree.edges)
  PROVE  /\ Len(Additions(tree)) = z
         /\ \A m \in 1 .. z : /\ Additions(tree)[m].from = tree.ind[tree.edges[(z - m) + 1][1]]
                              /\ Additions(tree)[m].to = tree.ind[tree.edges[(z - m) + 1][2]]
  <1> DEFINE n == Len(tree.ind)  edges == tree.edges
             f == [i \in DOMAIN edges |-> [from |-> tree.ind[edges[i][1]],
                                           to |-> tree.ind[edges[i][2]], destroy |-> i = 1]]
             r == [i \in 1 .. z |-> f[(z - i) + 1]]
  <1>1. edges \in Seq((1 .. n) \X (1 .. n)) /\ z \in Nat /\ DOMAIN edges = 1 .. z
    BY DEF IsTree
  <1>2. ASSUME NEW i \in 1 .. z
        PROVE  f[i].from = tree.ind[edges[i][1]] /\ f[i].to = tree.ind[edges[i][2]]
    <2>1. f[i] = [from |-> tree.ind[edges[i][1]], to |-> tree.ind[edges[i][2]], destroy |-> i = 1]
      BY <1>1
    <2> HIDE DEF f
    <2> QED BY <2>1
  <1>3. Additions(tree) = Reverse(f)
    BY DEF Additions
  <1>4. Len(Additions(tree)) = z
    BY AdditionsAdd, <1>1, <1>3 DEF Reverse
  <1>5. DOMAIN f = 1 .. z
    BY <1>1
  <1> HIDE DEF f
  <1>6. Len(f) = z
    <2>1. f \in [1 .. z -> Range(f)]
      <3>1. f = [i \in 1 .. z |-> f[i]]
        BY <1>1 DEF f
      <3> QED BY <1>5, <3>1 DEF Range
    <2> QED BY <1>1, <2>1, Listed
  <1>7. Additions(tree) = r
    BY <1>3, <1>6 DEF Reverse
  <1>8. ASSUME NEW m \in 1 .. z PROVE (z - m) + 1 \in 1 .. z /\ r[m] = f[(z - m) + 1]
    BY <1>1
  <1> HIDE DEF r
  <1> QED BY <1>2, <1>4, <1>7, <1>8

(* The rows that are changed or removed are those of the tree.                 *)
Covering(ops, ind) ==
  \A i : (\E m \in 1 .. Len(ops) : ops[m].to = i) <=> (\E a \in 1 .. Len(ind) : ind[a] = i)

(* The work of a merge is about each row of the tree once.                     *)
LEMMA WorkInOrder ==
  ASSUME NEW tree, IsTree(tree), Growing(tree), Len(tree.T) = 0,
         NEW removal, removal = [from |-> None, to |-> tree.ind[1]], NEW ops,
         ops = IF Len(tree.ind) = 1 THEN <<removal>> ELSE Append(Additions(tree), removal)
  PROVE  Ordered(ops) /\ Covering(ops, tree.ind)
  <1> DEFINE n == Len(tree.ind)  S == tree.S  edges == tree.edges  z == Len(edges)  ind == tree.ind
             adds == Additions(tree)
  <1>1. n \in Nat /\ S \in Seq(1 .. n) /\ Len(S) = n /\ z = n - 1 /\ n >= 1
    <2>1. /\ tree.ind \in Seq(RowNumbers) /\ S \in Seq(1 .. n) /\ n >= 1 /\ z \in Nat
      BY DEF IsTree
    <2>2. Len(S) + Len(tree.T) = n /\ z = Len(S) - 1
      BY DEF Growing, Spanning
    <2>3. Len(S) \in Nat /\ n \in Nat
      BY <2>1
    <2> HIDE DEF n, S, z
    <2> QED BY <2>1, <2>2, <2>3
  <1>2. /\ \A a, b \in 1 .. n : ind[a] = ind[b] => a = b
        /\ S[1] = 1 /\ \A a, b \in 1 .. n : S[a] = S[b] => a = b
    BY <1>1 DEF Growing, Spanning
  <1>3. \A x \in 1 .. n : \E a \in 1 .. n : S[a] = x
    <2>1. \A x \in 1 .. n : (\E a \in 1 .. Len(S) : S[a] = x) \/ (\E b \in 1 .. Len(tree.T) : tree.T[b] = x)
      BY DEF Growing, Spanning
    <2>2. \A b \in 1 .. Len(tree.T) : FALSE
      OBVIOUS
    <2> HIDE DEF n, S
    <2> QED BY <1>1, <2>1, <2>2
  <1>4. \A m \in 1 .. z : edges[m][2] = S[m + 1] /\ \E a \in 1 .. m : edges[m][1] = S[a]
    BY DEF Growing, Spanning
  <1>5. /\ Len(adds) = z
        /\ \A m \in 1 .. z : /\ adds[m].from = ind[edges[(z - m) + 1][1]]
                             /\ adds[m].to = ind[edges[(z - m) + 1][2]]
    <2>1. z = Len(tree.edges)
      OBVIOUS
    <2> HIDE DEF z
    <2> QED BY <2>1, AdditionsAlong
  <1>6. adds \in Seq(Addition)
    BY AdditionsAdd
  <1>7. ops = IF n = 1 THEN <<removal>> ELSE Append(adds, removal)
    OBVIOUS
  <1>8. removal.to = ind[1]
    OBVIOUS
  <1> HIDE DEF n, S, edges, z, ind, adds
  <1>9. /\ Len(ops) = n /\ ops[n] = removal
        /\ \A m \in 1 .. n - 1 : ops[m] = adds[m]
    <2>1. CASE n = 1
      <3>1. Len(<<removal>>) = 1 /\ <<removal>>[1] = removal
        OBVIOUS
      <3> QED BY <1>1, <1>7, <2>1, <3>1
    <2>2. CASE n # 1
      <3> DEFINE N == Addition \union {removal}
      <3>1. adds \in Seq(N) /\ removal \in N
        BY <1>6
      <3> HIDE DEF N
      <3>2. /\ Len(Append(adds, removal)) = Len(adds) + 1
            /\ Append(adds, removal)[Len(adds) + 1] = removal
            /\ \A m \in 1 .. Len(adds) : Append(adds, removal)[m] = adds[m]
        BY <3>1, Appended
      <3>3. Len(adds) = n - 1 /\ Len(adds) + 1 = n
        BY <1>1, <1>5
      <3> QED BY <1>7, <2>2, <3>2, <3>3
    <2> QED BY <2>1, <2>2
  <1>10. ASSUME NEW m \in 1 .. n PROVE ops[m].to = ind[S[(n - m) + 1]]
    <2>1. CASE m = n
      <3>1. (n - m) + 1 = 1
        BY <1>1, <2>1
      <3> QED BY <1>2, <1>8, <1>9, <2>1, <3>1
    <2>2. CASE m # n
      <3>1. m \in 1 .. z /\ m \in 1 .. n - 1 /\ (z - m) + 1 \in 1 .. z /\ ((z - m) + 1) + 1 = (n - m) + 1
        BY <1>1, <2>2
      <3>2. ops[m].to = ind[edges[(z - m) + 1][2]]
        <4>1. adds[m].to = ind[edges[(z - m) + 1][2]]
          BY <1>5, <3>1
        <4>2. ops[m] = adds[m]
          BY <1>9, <3>1
        <4> QED BY <4>1, <4>2
      <3>3. edges[(z - m) + 1][2] = S[((z - m) + 1) + 1]
        BY <1>4, <3>1
      <3> QED BY <3>1, <3>2, <3>3
    <2> QED BY <2>1, <2>2
  <1>11. \A a \in 1 .. n : S[a] \in 1 .. n
    BY <1>1
  <1>12. ASSUME NEW a \in 1 .. n, NEW b \in 1 .. n, ops[a].to = ops[b].to PROVE a = b
    <2>1. (n - a) + 1 \in 1 .. n /\ (n - b) + 1 \in 1 .. n
      BY <1>1
    <2>2. ind[S[(n - a) + 1]] = ind[S[(n - b) + 1]]
      BY <1>10, <1>12
    <2>3. S[(n - a) + 1] = S[(n - b) + 1]
      BY <1>2, <1>11, <2>1, <2>2
    <2>4. (n - a) + 1 = (n - b) + 1
      BY <1>2, <2>1, <2>3
    <2> QED BY <1>1, <2>4
  <1>13. ASSUME NEW m \in 1 .. n, m # n PROVE \E a \in 1 .. n : a > m /\ ops[a].to = ops[m].from
    <2>1. m \in 1 .. z /\ m \in 1 .. n - 1 /\ (z - m) + 1 \in 1 .. z /\ (z - m) + 1 = n - m
      BY <1>1, <1>13
    <2>2. ops[m].from = ind[edges[n - m][1]]
      <3>1. adds[m].from = ind[edges[(z - m) + 1][1]]
        BY <1>5, <2>1
      <3>2. ops[m] = adds[m]
        BY <1>9, <2>1
      <3> QED BY <2>1, <3>1, <3>2
    <2>3. PICK b \in 1 .. n - m : edges[n - m][1] = S[b]
      BY <1>4, <2>1
    <2> DEFINE a == (n - b) + 1
    <2>4. a \in 1 .. n /\ a > m /\ (n - a) + 1 = b
      BY <1>1
    <2>5. ops[a].to = ind[S[b]]
      BY <1>10, <2>4
    <2> QED BY <2>2, <2>3, <2>4, <2>5
  <1>14. ASSUME NEW i PROVE (\E m \in 1 .. n : ops[m].to = i) <=> (\E x \in 1 .. n : ind[x] = i)
    <2>1. ASSUME NEW m \in 1 .. n, ops[m].to = i PROVE \E x \in 1 .. n : ind[x] = i
      <3>1. (n - m) + 1 \in 1 .. n
        BY <1>1
      <3> QED BY <1>10, <1>11, <2>1, <3>1
    <2>2. ASSUME NEW x \in 1 .. n, ind[x] = i PROVE \E m \in 1 .. n : ops[m].to = i
      <3>1. PICK a \in 1 .. n : S[a] = x
        BY <1>3
      <3>2. (n - a) + 1 \in 1 .. n /\ (n - ((n - a) + 1)) + 1 = a
        BY <1>1
      <3>3. ops[(n - a) + 1].to = ind[S[(n - ((n - a) + 1)) + 1]]
        BY <1>10, <3>2
      <3> QED BY <2>2, <3>1, <3>2, <3>3
    <2> QED BY <2>1, <2>2
  <1>15. Ordered(ops)
    BY <1>9, <1>12, <1>13 DEF Ordered
  <1>16. Covering(ops, ind)
    <2>1. n = Len(ind) /\ Len(ops) = n
      BY <1>9 DEF n, ind
    <2> QED BY <1>14, <2>1 DEF Covering
  <1> QED BY <1>15, <1>16 DEF ind

LEMMA MergingAtRows ==
  ASSUME Inv, Inv', Merging, NEW t \in Threads, MergeRows(t)
  PROVE  Merging'
  <1> DEFINE tree == th[t].tree  removal == [from |-> None, to |-> tree.ind[1]]
             ops == IF Len(tree.ind) = 1 THEN <<removal>> ELSE Append(Additions(tree), removal)
             s == [th[t] EXCEPT !.pc = "merge", !.tree = <<>>, !.ops = ops]
  <1>1. /\ DOMAIN th = Threads /\ DOMAIN th[t] = ThreadFields /\ ThreadType(t) /\ MainTypes
        /\ th[t].pc = "tree" /\ tree.T = <<>>
    BY DEF Inv, ThreadTypes, ThreadType, MergeRows
  <1>2. phase = "apply" /\ UNCHANGED <<pages, rows, purged, wt, R, L, phase, order, busy_rows, next>>
    <2>1. phase = "apply"
      BY <1>1, NonePending
    <2> QED BY <2>1 DEF MergeRows, heapVars
  <1>3. RowsStay
    BY <1>2, SameRows
  <1>4. num'.nmerges # 0
    <2>1. num'.nmerges = num.nmerges + 1 /\ num.nmerges \in Nat
      BY <1>1 DEF MergeRows, MainTypes, NumFields
    <2> QED BY <2>1
  <1>5. IsTree(tree) /\ Growing(tree) /\ Eliminates(t)
    BY <1>1, <1>2 DEF Merging, Merges, ThreadType
  <1>6. th' = [th EXCEPT ![t].pc = "merge", ![t].tree = <<>>, ![t].ops = ops]
    BY DEF MergeRows
  <1>7. Ordered(ops) /\ Covering(ops, tree.ind)
    <2> DEFINE work == ops
    <2>1. Len(tree.T) = 0
      BY <1>1
    <2>2. /\ work = IF Len(tree.ind) = 1 THEN <<removal>> ELSE Append(Additions(tree), removal)
          /\ removal = [from |-> None, to |-> tree.ind[1]]
      OBVIOUS
    <2> HIDE DEF tree, removal, work
    <2>3. Ordered(work) /\ Covering(work, tree.ind)
      BY <1>5, <2>1, <2>2, WorkInOrder
    <2> QED BY <2>3 DEF work
  <1> HIDE DEF ops
  <1>8. th' = [th EXCEPT ![t] = s]
    BY <1>1, <1>6
  <1>9. s.pc = "merge" /\ s.ops = ops /\ s.it = th[t].it /\ s.last = th[t].last
    BY <1>1 DEF ThreadFields
  <1> HIDE DEF s
  <1>10. th'[t] = s /\ \A u \in Threads : u # t => th'[u] = th[u]
    BY <1>1, <1>8
  <1>11. Eliminates(t)'
    <2>1. Working(t) /\ \A i \in RowNumbers : Unfinished(t, i)' <=> Unfinished(t, i)
      BY <1>1, <1>7, <1>9, <1>10 DEF Working, Unfinished, Covering
    <2> QED BY <1>2, <1>3, <1>5, <2>1, SameMerge
  <1>12. Merges(t)'
    <2>1. Ordered(th'[t].ops) /\ th'[t].pc = "merge"
      BY <1>7, <1>9, <1>10
    <2> QED BY <1>11, <2>1 DEF Merges, Ordered
  <1>13. \A c \in DOMAIN R : Free(c)' => Free(c)
    BY <1>2, <1>9, <1>10, FreeBefore
  <1>14. Winding => Winding'
    BY <1>2, <1>9, <1>10 DEF Winding
  <1>15. AllPlaced'
    BY <1>2 DEF Merging, AllPlaced
  <1> QED BY <1>2, <1>3, <1>4, <1>8, <1>12, <1>13, <1>14, <1>15, MergingStep

(* A step that is not of the merges.                                           *)
LEMMA MergingStays ==
  ASSUME Inv, Inv', Merging, RowsStay, UNCHANGED <<purged, wt, R, L, order, busy_rows, next, th>>,
         num'.nmerges = num.nmerges, phase' # "apply" => phase # "apply", phase' # "read" => phase # "read"
  PROVE  Merging'
  <1>1. CASE phase' = "read"
    BY <1>1 DEF Merging
  <1>2. CASE phase' # "read"
    <2>1. \A u \in Threads : Merges(u)'
      BY <1>2, MergesStill DEF Merging
    <2>2. Winding' <=> Winding
      BY DEF Winding
    <2>3. \A c : Free(c)' <=> Free(c)
      <3>1. \A u, i : Owns(u, i)' <=> Owns(u, i)
        BY DEF Owns, Column
      <3> QED BY <3>1 DEF Free
    <2>4. \A c \in DOMAIN R' : (~Winding' /\ Free(c)') \/ num'.nmerges = 0 => Intact(c)'
      BY <1>2, <2>2, <2>3, IntactStays DEF Merging
    <2>5. AllPlaced'
      BY <1>2 DEF Merging, AllPlaced
    <2> QED BY <2>1, <2>4, <2>5 DEF Merging
  <1> QED BY <1>1, <1>2

(* A step of a thread that goes on with what it does.                          *)
LEMMA GoesOn ==
  ASSUME Inv, Inv', Merging, RowsStay,
         UNCHANGED <<purged, wt, R, L, phase, order, busy_rows, next, num>>,
         NEW t \in Threads, th[t].pc \in {"merge", "weights"},
         NEW s, th' = [th EXCEPT ![t] = s], s.pc = "weights", s.ops = th[t].ops,
         s.it = th[t].it, s.last = th[t].last
  PROVE  Merging'
  <1>1. DOMAIN th = Threads /\ phase = "apply"
    BY NonePending DEF Inv, ThreadTypes
  <1>2. th'[t] = s /\ \A u \in Threads : u # t => th'[u] = th[u]
    BY <1>1
  <1>3. Merges(t)
    BY <1>1 DEF Merging
  <1>4. Eliminates(t)'
    <2>1. Working(t) /\ \A i \in RowNumbers : Unfinished(t, i)' <=> Unfinished(t, i)
      BY <1>2 DEF Working, Unfinished
    <2> QED BY <1>3, <2>1, SameMerge DEF Merges
  <1>5. Merges(t)'
    <2>1. Ordered(th'[t].ops) /\ th'[t].pc = "weights"
      BY <1>2, <1>3 DEF Merges
    <2> QED BY <1>4, <2>1 DEF Merges, Ordered
  <1>6. \A c \in DOMAIN R : Free(c)' => Free(c)
    BY <1>2, FreeBefore
  <1>7. Winding => Winding'
    BY <1>2 DEF Winding
  <1>8. AllPlaced'
    BY <1>1 DEF Merging, AllPlaced
  <1> QED BY <1>1, <1>5, <1>6, <1>7, <1>8, MergingStep

(* How add_row(), remove_row() and the look at a weight leave rows and thread. *)
LEMMA AtWorkStays ==
  ASSUME Inv, NEW t \in Threads, add_row(t) \/ remove_row(t) \/ CheckWeight(t)
  PROVE  /\ RowsStay /\ UNCHANGED <<purged, phase, num, wt, R, order, L, next, busy_rows>>
         /\ th[t].pc \in {"merge", "weights"}
         /\ \/ UNCHANGED th
            \/ \E s : /\ th' = [th EXCEPT ![t] = s] /\ s.pc = "weights" /\ s.ops = th[t].ops
                      /\ s.it = th[t].it /\ s.last = th[t].last
  <1>1. /\ HeapTypes /\ PagesApart /\ Pointers /\ ThreadTypes /\ Ownership /\ purged \in Matrices
        /\ DOMAIN th = Threads /\ DOMAIN th[t] = ThreadFields
    BY DEF Inv, MainTypes, ThreadTypes, ThreadType
  <1>2. CASE add_row(t)
    <2> DEFINE i == Op(t).to  target == Row(Op(t).to)  source == Row(Op(t).from)
               size == Cardinality(target) + Cardinality(source)
    <2>1. /\ th[t].pc = "merge" /\ Op(t).from # None
          /\ UNCHANGED <<purged, phase, num, wt, R, order, L, next, busy_rows>>
          /\ \/ (heap_release_page(t, size) \/ heap_get_free_page(t)) /\ UNCHANGED th
             \/ /\ CanAlloc(t, size)
                /\ pages' = WithRow(t, i, size, {}) /\ UNCHANGED rows
                /\ \E todo, sum : th' = [th EXCEPT ![t].pc = "weights", ![t].todo = todo, ![t].sum = sum]
      BY <1>2 DEF add_row
    <2>2. CASE (heap_release_page(t, size) \/ heap_get_free_page(t)) /\ UNCHANGED th
      <3> HIDE DEF size
      <3>1. RowsStay
        BY <1>1, <2>1, <2>2, RoomStays
      <3> QED BY <2>1, <2>2, <3>1
    <2>3. CASE /\ CanAlloc(t, size)
               /\ pages' = WithRow(t, i, size, {}) /\ UNCHANGED rows
               /\ \E todo, sum : th' = [th EXCEPT ![t].pc = "weights", ![t].todo = todo, ![t].sum = sum]
      <3>1. PICK todo, sum : th' = [th EXCEPT ![t].pc = "weights", ![t].todo = todo, ![t].sum = sum]
        BY <2>3
      <3> DEFINE s == [th[t] EXCEPT !.pc = "weights", !.todo = todo, !.sum = sum]
      <3>2. th' = [th EXCEPT ![t] = s]
        BY <1>1, <3>1
      <3>3. s.pc = "weights" /\ s.ops = th[t].ops /\ s.it = th[t].it /\ s.last = th[t].last
        BY <1>1 DEF ThreadFields
      <3> HIDE DEF s
      <3>4. i \in RowNumbers /\ size \in Nat /\ {} \in SUBSET Columns
        <4> DEFINE k == Op(t).from
        <4>1. i \in RowNumbers /\ rows[i] # NULL
          BY <1>1, <2>1, OpRows
        <4>2. k \in RowNumbers /\ rows[k] # NULL
          BY <1>1, <2>1, OpRows
        <4>3. target = Row(i) /\ source = Row(k)
          OBVIOUS
        <4> HIDE DEF i, k, target, source
        <4>4. target \in SUBSET Columns /\ source \in SUBSET Columns
          BY <1>1, <4>1, <4>2, <4>3, RowSpace
        <4>5. Cardinality(target) \in Nat /\ Cardinality(source) \in Nat
          BY <1>1, <4>4, MatrixRows
        <4> QED BY <4>1, <4>5
      <3>5. RowsStay
        <4> DEFINE a == active_page[t]
        <4>1. active_page[t] # None /\ a = active_page[t]
          BY <2>3 DEF CanAlloc
        <4>2. pages' = WithRow(t, i, size, {}) /\ UNCHANGED rows /\ UNCHANGED purged
          BY <2>1, <2>3
        <4> HIDE DEF i, size, a
        <4>3. \A p \in 1 .. Len(pages) : \A k \in 1 .. PageLen(p) : pages'[p].data[k] = pages[p].data[k]
          BY <1>1, <3>4, <4>1, <4>2, WrittenStays
        <4> QED BY <1>1, <4>2, <4>3, PlacesStay
      <3> QED BY <2>1, <3>2, <3>3, <3>5
    <2> QED BY <2>1, <2>2, <2>3
  <1>3. CASE remove_row(t)
    <2>1. /\ th[t].pc = "merge" /\ UNCHANGED <<pages, rows>>
          /\ UNCHANGED <<purged, phase, num, wt, R, order, L, next, busy_rows>>
          /\ \E todo : th' = [th EXCEPT ![t].pc = "weights", ![t].todo = todo]
      BY <1>3 DEF remove_row, heapVars
    <2>2. PICK todo : th' = [th EXCEPT ![t].pc = "weights", ![t].todo = todo]
      BY <2>1
    <2> DEFINE s == [th[t] EXCEPT !.pc = "weights", !.todo = todo]
    <2>3. th' = [th EXCEPT ![t] = s]
      BY <1>1, <2>2
    <2>4. s.pc = "weights" /\ s.ops = th[t].ops /\ s.it = th[t].it /\ s.last = th[t].last
      BY <1>1 DEF ThreadFields
    <2> QED BY <2>1, <2>3, <2>4, SameRows
  <1>4. CASE CheckWeight(t)
    <2> DEFINE j == Head(th[t].todo)
    <2>1. /\ th[t].pc = "weights" /\ UNCHANGED <<pages, rows>>
          /\ UNCHANGED <<purged, phase, num, wt, R, order, L, next, busy_rows>>
          /\ th' = [th EXCEPT ![t].seen = wt[j] <= MERGE_LEVEL_MAX,
                              ![t].todo = IF wt[Head(@)] <= MERGE_LEVEL_MAX THEN @ ELSE Tail(@)]
      BY <1>4 DEF CheckWeight, heapVars
    <2> DEFINE s == [th[t] EXCEPT !.seen = wt[j] <= MERGE_LEVEL_MAX,
                                  !.todo = IF wt[Head(@)] <= MERGE_LEVEL_MAX THEN @ ELSE Tail(@)]
    <2>2. th' = [th EXCEPT ![t] = s]
      BY <1>1, <2>1 DEF ThreadFields
    <2>3. s.pc = "weights" /\ s.ops = th[t].ops /\ s.it = th[t].it /\ s.last = th[t].last
      BY <1>1, <2>1 DEF ThreadFields
    <2> HIDE DEF s
    <2> QED BY <2>1, <2>2, <2>3, SameRows
  <1> QED BY <1>2, <1>3, <1>4

LEMMA MergingAtWork ==
  ASSUME Inv, Inv', Merging, NEW t \in Threads, add_row(t) \/ remove_row(t) \/ CheckWeight(t)
  PROVE  Merging'
  <1>1. /\ RowsStay /\ UNCHANGED <<purged, phase, num, wt, R, order, L, next, busy_rows>>
        /\ th[t].pc \in {"merge", "weights"}
        /\ \/ UNCHANGED th
           \/ \E s : /\ th' = [th EXCEPT ![t] = s] /\ s.pc = "weights" /\ s.ops = th[t].ops
                     /\ s.it = th[t].it /\ s.last = th[t].last
    BY AtWorkStays
  <1>2. CASE UNCHANGED th
    BY <1>1, <1>2, MergingStays
  <1>3. CASE ~UNCHANGED th
    <2>1. PICK s : /\ th' = [th EXCEPT ![t] = s] /\ s.pc = "weights" /\ s.ops = th[t].ops
                   /\ s.it = th[t].it /\ s.last = th[t].last
      BY <1>1, <1>3
    <2> QED BY <1>1, <2>1, GoesOn
  <1> QED BY <1>2, <1>3


(* Nobody merges anything, and no rows of columns are listed.                  *)
LEMMA MergingAtRest ==
  ASSUME R' = <<>>, order' = <<>>, \A u \in Threads : th'[u] = Resting
  PROVE  Merging'
  <1>1. \A u \in Threads : th'[u].pc = "loop"
    BY DEF Resting
  <1>2. \A u \in Threads : Merges(u)'
    BY <1>1 DEF Merges, Eliminates, Working
  <1>3. DOMAIN R' = {} /\ DOMAIN order' = {}
    OBVIOUS
  <1> QED BY <1>2, <1>3 DEF Merging, AllPlaced

LEMMA MergingAtEnds ==
  ASSUME Inv, Merging, compute_weights \/ EndPass
  PROVE  Merging'
  <1>1. CASE compute_weights
    <2>1. phase # "apply" /\ UNCHANGED <<R, order, th>>
      BY <1>1 DEF compute_weights
    <2>2. R = <<>> /\ order = <<>> /\ \A u \in Threads : th[u] = Resting
      BY <2>1 DEF Inv, MainTypes, Merging
    <2> QED BY <2>1, <2>2, MergingAtRest
  <1>2. CASE EndPass
    <2>1. R' = <<>> /\ order' = <<>> /\ th' = [u \in Threads |-> Resting]
      BY <1>2 DEF EndPass
    <2> QED BY <2>1, MergingAtRest
  <1> QED BY <1>1, <1>2

LEMMA MergingOutside ==
  ASSUME Inv, Inv', Merging,
         \/ StartPass \/ GarbageCollected \/ UNCHANGED vars
         \/ CostBelowZero \/ Recompress \/ TestEnd
         \/ \E t \in Threads : CollectGarbage(t)
  PROVE  Merging'
  <1>1. CASE StartPass
    <2>1. /\ UNCHANGED <<pages, rows, purged, wt, R, L, order, busy_rows, next, th>>
          /\ phase = "pass"
      BY <1>1 DEF StartPass
    <2>2. num'.nmerges = num.nmerges
      BY <1>1 DEF StartPass, Inv, MainTypes, NumFields
    <2> QED BY <2>1, <2>2, SameRows, MergingStays
  <1>2. CASE GarbageCollected
    <2>1. /\ UNCHANGED <<pages, rows, purged, wt, R, L, order, busy_rows, next, th, num>>
          /\ phase = "gc"
      BY <1>2 DEF GarbageCollected
    <2> QED BY <2>1, SameRows, MergingStays
  <1>3. CASE UNCHANGED vars
    <2>1. UNCHANGED <<pages, rows, purged, wt, R, L, order, busy_rows, next, th, num, phase>>
      BY <1>3 DEF vars, heapVars, mergeVars
    <2> QED BY <2>1, SameRows, MergingStays
  <1>4. ASSUME NEW t \in Threads, CollectGarbage(t) PROVE Merging'
    <2>1. UNCHANGED <<purged, wt, R, L, order, busy_rows, next, th, num, phase>>
      BY <1>4 DEF CollectGarbage, mergeVars
    <2> QED BY <1>4, <2>1, CollectStays, MergingStays
  <1>5. CASE CostBelowZero \/ Recompress \/ TestEnd
    <2>1. /\ UNCHANGED <<pages, rows, purged, wt, R, L, order, busy_rows, next, th>>
          /\ phase \in {"prepare", "recompress", "test"} /\ phase' # "read"
      BY <1>5 DEF CostBelowZero, Recompress, TestEnd, heapVars
    <2>2. num'.nmerges = num.nmerges
      BY <1>5 DEF CostBelowZero, Recompress, TestEnd, Inv, MainTypes, NumFields
    <2> QED BY <2>1, <2>2, SameRows, MergingStays
  <1> QED BY <1>1, <1>2, <1>3, <1>4, <1>5

(* The rows of the columns that may be merged.                                 *)
LEMMA MergingAtPrepare ==
  ASSUME Inv, Inv', Prepare
  PROVE  Merging'
  <1>1. /\ phase = "prepare" /\ phase' = "apply" /\ UNCHANGED <<pages, rows, purged, wt, order, th>>
        /\ R' = [j \in Candidates |-> RowsWith(j)]
    BY DEF Prepare, heapVars
  <1>2. order = <<>> /\ \A u \in Threads : th[u] = Resting
    BY <1>1 DEF Inv, MainTypes
  <1>3. \A u \in Threads : th'[u].pc = "loop"
    BY <1>1, <1>2 DEF Resting
  <1>4. \A u \in Threads : Merges(u)'
    BY <1>3 DEF Merges, Eliminates, Working
  <1>5. RowsStay
    BY <1>1, SameRows
  <1>6. ASSUME NEW c \in DOMAIN R' PROVE Intact(c)'
    <2>1. c \in Columns /\ wt[c] <= num.cwmax /\ R'[c] = RowsWith(c)
      BY <1>1 DEF Candidates
    <2>2. wt[c] <= MERGE_LEVEL_MAX
      <3>1. wt[c] \in Nat /\ num.cwmax \in 2 .. MERGE_LEVEL_MAX /\ MERGE_LEVEL_MAX \in Nat
        BY <1>1, <2>1, MergeAssumption DEF Inv, MainTypes
      <3> QED BY <2>1, <3>1
    <2> QED BY <1>1, <1>5, <2>1, <2>2, NothingGone DEF Intact
  <1>7. DOMAIN order' = {}
    BY <1>1, <1>2
  <1> QED BY <1>1, <1>4, <1>6, <1>7 DEF Merging, AllPlaced

(* The rows a merge has still to change are its own.                           *)
LEMMA UnfinishedOwn ==
  ASSUME NEW t, NEW i, Working(t), Unfinished(t, i)
  PROVE  Owns(t, i)
  BY DEF Working, Unfinished, Owns

(* The row whose columns are counted is one of the matrix, and the thread's.   *)
LEMMA SourceRow ==
  ASSUME Inv, NEW t \in Threads, th[t].pc \in {"merge", "weights"}, NEW j \in Source(t)
  PROVE  \E r \in RowNumbers : Owns(t, r) /\ r \in RowsWith(j)
  <1> DEFINE r == IF Op(t).from = None THEN Op(t).to ELSE Op(t).from
  <1>1. r \in RowNumbers /\ Owns(t, r) /\ rows[r] # NULL
    <2>1. ThreadTypes /\ Ownership /\ purged \in Matrices
      BY DEF Inv, MainTypes
    <2>2. Op(t).to \in RowNumbers /\ Owns(t, Op(t).to) /\ rows[Op(t).to] # NULL
      BY <2>1, OpRows
    <2>3. Op(t).from # None => Op(t).from \in RowNumbers /\ Owns(t, Op(t).from) /\ rows[Op(t).from] # NULL
      BY <2>1, OpRows
    <2> QED BY <2>2, <2>3
  <1>2. j \in Row(r)
    BY DEF Source
  <1> HIDE DEF r
  <1>3. DOMAIN rows = RowNumbers
    BY DEF Inv, HeapTypes
  <1> QED BY <1>1, <1>2, <1>3 DEF RowsWith, Live

(* The first of the rows a thread has still to change.                         *)
LEMMA FirstUnfinished ==
  ASSUME Inv, NEW t \in Threads, th[t].pc \in {"merge", "weights"}
  PROVE  Unfinished(t, Op(t).to)
  <1> DEFINE ops == th[t].ops
  <1>1. IsWork(ops)
    BY DEF Inv, ThreadTypes, ThreadType
  <1>2. Len(ops) \in Nat /\ Len(ops) >= 1 /\ Op(t) = ops[1]
    <2> DEFINE S == Addition \union Removal
    <2>1. ops \in Seq(S) /\ Len(ops) >= 1 /\ Op(t) = Head(ops)
      BY <1>1 DEF IsWork, Op
    <2> HIDE DEF S, ops
    <2> QED BY <2>1
  <1>3. 1 \in 1 .. Len(ops)
    BY <1>2
  <1> QED BY <1>2, <1>3 DEF Unfinished

(* The rows of a column that may be merged are nobody's but those who reserve. *)
LEMMA NotOfIntact ==
  ASSUME Inv, ~Winding, NEW c \in DOMAIN R, Free(c), Intact(c),
         NEW t \in Threads, th[t].pc # "reserve", NEW i \in RowsWith(c)
  PROVE  ~Owns(t, i)
  <1> SUFFICES ASSUME Owns(t, i) PROVE FALSE
    OBVIOUS
  <1>1. Ownership /\ i \in RowNumbers
    BY RowsCountable DEF Inv, MainTypes
  <1>2. i \in busy_rows
    BY <1>1 DEF Ownership
  <1>3. PICK u \in Threads : th[u].pc = "reserve" /\ Owns(u, i)
    BY <1>2 DEF Free, Intact
  <1> QED BY <1>1, <1>3 DEF Ownership

LEMMA MergingAtUpdate ==
  ASSUME Inv, Inv', Weights, NoRace, Merging, NEW t \in Threads, UpdateWeight(t)
  PROVE  Merging'
  <1> SUFFICES ASSUME NEW j, j = Head(th[t].todo) PROVE Merging'
    OBVIOUS
  <1>1. /\ phase # "read" /\ UNCHANGED <<pages, rows, purged>> /\ Counted(t, j)
        /\ wt[j] <= MERGE_LEVEL_MAX /\ wt \in [Columns -> Nat]
        /\ wt'[j] = IF Increases(t, j) THEN wt[j] + 1 ELSE wt[j] - 1
        /\ \A x \in Columns : x # j => wt'[x] = wt[x]
    BY UpdatedWeight
  <1>2. /\ ThreadTypes /\ Ownership /\ MainTypes /\ DOMAIN th = Threads /\ DOMAIN th[t] = ThreadFields
        /\ th[t].pc = "weights" /\ purged \in Matrices
        /\ UNCHANGED <<R, order, L, next, busy_rows, num, phase>>
    BY DEF Inv, ThreadTypes, ThreadType, MainTypes, UpdateWeight
  <1>3. /\ th'[t].pc = "weights" /\ th'[t].ops = th[t].ops /\ th'[t].it = th[t].it /\ th'[t].last = th[t].last
        /\ \A u \in Threads : u # t => th'[u] = th[u]
    <2> DEFINE s == [th[t] EXCEPT !.seen = FALSE, !.todo = Tail(@)]
    <2>1. th' = [th EXCEPT ![t] = s]
      BY <1>2 DEF UpdateWeight, ThreadFields
    <2>2. s.pc = "weights" /\ s.ops = th[t].ops /\ s.it = th[t].it /\ s.last = th[t].last
      BY <1>2 DEF ThreadFields
    <2> HIDE DEF s
    <2> QED BY <1>2, <2>1, <2>2
  <1>4. RowsStay /\ Columns' = Columns /\ RowNumbers' = RowNumbers
    BY <1>1, SameRows, SameMatrix
  <1>5. \A c : RowsWith(c)' = RowsWith(c)
    <2>1. HeapTypes /\ rows' \in [RowNumbers -> Nat \X Nat]
      BY <1>1 DEF Inv, HeapTypes
    <2> QED BY <1>4, <2>1, SameWeights
  <1>6. j \in Columns /\ j \in Source(t)
    BY <1>1 DEF Counted
  <1>7. PICK r \in RowNumbers : Owns(t, r) /\ r \in RowsWith(j)
    BY <1>2, <1>6, SourceRow
  <1>8. \A u \in Threads : \A i : (Working(u)' <=> Working(u)) /\ (Unfinished(u, i)' <=> Unfinished(u, i))
    <2>1. \A u \in Threads : th'[u].pc = th[u].pc
      BY <1>2, <1>3
    <2>2. \A u \in Threads : u # t => th'[u] = th[u]
      BY <1>3
    <2>3. th[t].pc # "tree" /\ th'[t].ops = th[t].ops
      BY <1>2, <1>3
    <2>4. \A u \in Threads : (th[u].pc = "tree" => th'[u].tree = th[u].tree) /\ th'[u].ops = th[u].ops
      BY <2>2, <2>3
    <2> QED BY <2>1, <2>4 DEF Working, Unfinished
  <1>9. ASSUME NEW u \in Threads PROVE Eliminates(u)'
    <2> SUFFICES ASSUME Working(u) PROVE Eliminates(u)'
      BY <1>8 DEF Eliminates
    <2>1. PICK c \in Columns : /\ wt[c] <= MERGE_LEVEL_MAX
                               /\ \A i \in RowNumbers : i \in RowsWith(c) <=> Unfinished(u, i)
      BY <1>1 DEF Merging, Merges, Eliminates
    <2>2. wt'[c] <= MERGE_LEVEL_MAX
      <3>1. CASE c # j
        BY <1>1, <2>1, <3>1
      <3>2. CASE c = j
        <4>1. Unfinished(u, r)
          BY <1>7, <2>1, <3>2
        <4>2. u = t
          BY <1>2, <1>7, <4>1, UnfinishedOwn DEF Ownership
        <4>3. Op(t).to \in RowNumbers /\ Unfinished(t, Op(t).to)
          BY <1>2, OpRows, FirstUnfinished
        <4>4. j \in Row(Op(t).to)
          BY <2>1, <3>2, <4>2, <4>3 DEF RowsWith
        <4>5. wt'[j] = wt[j] - 1 /\ wt[j] \in Nat /\ MERGE_LEVEL_MAX \in Nat
          BY <1>1, <1>6, <4>4, MergeAssumption DEF Increases
        <4> QED BY <1>1, <3>2, <4>5
      <3> QED BY <3>1, <3>2
    <2>3. \A i \in RowNumbers' : i \in RowsWith(c)' <=> Unfinished(u, i)'
      BY <1>4, <1>5, <1>8, <2>1
    <2> QED BY <1>4, <2>1, <2>2, <2>3 DEF Eliminates
  <1>10. ASSUME NEW u \in Threads PROVE Merges(u)'
    <2>1. Merges(u)
      BY <1>1 DEF Merging
    <2>2. th'[u].pc = th[u].pc /\ th'[u].ops = th[u].ops /\ (th[u].pc = "tree" => th'[u].tree = th[u].tree)
      BY <1>2, <1>3
    <2>3. Ordered(th'[u].ops) <=> Ordered(th[u].ops)
      BY <2>2
    <2>4. th[u].pc = "tree" => Growing(th'[u].tree)
      BY <2>1, <2>2 DEF Merges
    <2> QED BY <1>9, <2>1, <2>2, <2>3, <2>4 DEF Merges, Ordered, Growing, Spanning
  <1>11. ASSUME NEW c \in DOMAIN R, (~Winding' /\ Free(c)') \/ num'.nmerges = 0 PROVE Intact(c)'
    <2>1. num.nmerges # 0
      BY <1>2, OpRows
    <2>2. ~Winding /\ Free(c)
      <3>1. Winding' <=> Winding
        <4>1. \A u \in Threads : th'[u].pc = th[u].pc /\ th'[u].it = th[u].it /\ th'[u].last = th[u].last
          BY <1>2, <1>3
        <4> QED BY <1>2, <4>1 DEF Winding
      <3>2. Free(c)' => Free(c)
        <4>1. UNCHANGED <<R, L>> /\ busy_rows \subseteq busy_rows' /\ order' = order
          BY <1>2
        <4> QED BY <1>2, <1>3, <4>1, FreeBefore
      <3> QED BY <1>2, <1>11, <2>1, <3>1, <3>2
    <2>3. Intact(c)
      BY <1>1, <2>2 DEF Merging
    <2>4. c # j
      BY <1>2, <1>7, <2>2, <2>3, NotOfIntact
    <2> QED BY <1>1, <1>2, <1>4, <1>5, <2>3, <2>4 DEF Intact
  <1>12. AllPlaced'
    BY <1>1, <1>2 DEF Merging, AllPlaced
  <1>13. phase' = "apply"
    <2>1. th[t].pc # "loop"
      BY <1>2
    <2> QED BY <1>2, <2>1, NonePending
  <1> QED BY <1>2, <1>10, <1>11, <1>12, <1>13 DEF Merging

(* The end of an addition or of a removal: what the thread has still to do.    *)
LEMMA FinishedThread ==
  ASSUME Inv, NEW t \in Threads, FinishOp(t)
  PROVE  /\ phase = "apply" /\ th[t].pc = "weights"
         /\ UNCHANGED <<purged, phase, num, wt, R, order, L, next, busy_rows>>
         /\ th'[t].pc = IF Op(t).from # None THEN "merge" ELSE "loop"
         /\ th'[t].ops = Tail(th[t].ops) /\ th'[t].it = th[t].it /\ th'[t].last = th[t].last
         /\ \A u \in Threads : u # t => th'[u] = th[u]
  <1> DEFINE pc == IF Len(th[t].ops) > 1 THEN "merge" ELSE "loop"  ops == Tail(th[t].ops)
             s == [th[t] EXCEPT !.pc = pc, !.ops = ops, !.sum = {}]
  <1>1. /\ DOMAIN th = Threads /\ DOMAIN th[t] = ThreadFields /\ th[t].pc = "weights"
        /\ UNCHANGED <<purged, phase, num, wt, R, order, L, next, busy_rows>>
    BY DEF Inv, ThreadTypes, ThreadType, FinishOp
  <1>2. th' = [th EXCEPT ![t] = s]
    BY <1>1 DEF FinishOp
  <1>3. s.pc = pc /\ s.ops = ops /\ s.it = th[t].it /\ s.last = th[t].last
    BY <1>1 DEF ThreadFields
  <1>4. phase = "apply"
    <2>1. th[t].pc # "loop"
      BY <1>1
    <2> QED BY <2>1, NonePending DEF Inv
  <1>5. pc = IF Op(t).from # None THEN "merge" ELSE "loop"
    <2>1. Op(t).from # None => Len(th[t].ops) > 1
      BY <1>1, OpRows DEF Inv, MainTypes
    <2>2. Op(t).from = None => ~(Len(th[t].ops) > 1)
      <3>1. Op(t).from = None => Len(th[t].ops) = 1
        BY <1>1, OpRows DEF Inv, MainTypes
      <3> DEFINE n == Len(th[t].ops)
      <3>2. n = 1 => ~(n > 1)
        OBVIOUS
      <3> HIDE DEF n
      <3> QED BY <3>1, <3>2 DEF n
    <2>3. CASE Op(t).from = None
      BY <2>2, <2>3
    <2>4. CASE Op(t).from # None
      BY <2>1, <2>4
    <2> QED BY <2>3, <2>4
  <1> HIDE DEF s, pc
  <1> QED BY <1>1, <1>2, <1>3, <1>4, <1>5

(* And the rows: one has got other columns, or is removed.                     *)
LEMMA FinishedRows ==
  ASSUME Inv, Inv', Weights, NEW t \in Threads, FinishOp(t), NEW i, i = Op(t).to
  PROVE  /\ i \in RowNumbers /\ i \in Live /\ Owns(t, i)
         /\ Live' = IF Op(t).from # None THEN Live ELSE Live \ {i}
         /\ \A j : \A x : x # i => (x \in RowsWith(j)' <=> x \in RowsWith(j))
         /\ \A j : i \in RowsWith(j)' <=>
                     Op(t).from # None /\ j \in SymmetricDifference(Row(i), Row(Op(t).from))
  <1> SUFFICES ASSUME NEW cells, cells = th[t].sum
               PROVE  /\ i \in RowNumbers /\ i \in Live /\ Owns(t, i)
                      /\ Live' = IF Op(t).from # None THEN Live ELSE Live \ {i}
                      /\ \A j : \A x : x # i => (x \in RowsWith(j)' <=> x \in RowsWith(j))
                      /\ \A j : i \in RowsWith(j)' <=>
                           Op(t).from # None /\ j \in SymmetricDifference(Row(i), Row(Op(t).from))
    OBVIOUS
  <1>1. /\ HeapTypes /\ Pointers /\ ThreadTypes /\ Ownership /\ purged \in Matrices
        /\ cells \in SUBSET Columns /\ HeapTypes'
    BY DEF Inv, MainTypes, ThreadTypes, ThreadType
  <1>2. /\ th[t].pc = "weights"
        /\ IF Op(t).from # None THEN ReplaceRow(t, i, cells) ELSE DestroyRow(t, i)
        /\ UNCHANGED purged
    BY DEF FinishOp
  <1>3. Weighing(t)
    <2>1. phase # "read"
      BY <1>2, NonePending DEF Inv
    <2> QED BY <2>1 DEF Weights
  <1>4. i \in RowNumbers /\ rows[i] # NULL /\ Owns(t, i)
    BY <1>1, <1>2, OpRows
  <1>5. /\ \A x \in RowNumbers : x # i => rows'[x] = rows[x] /\ (rows[x] # NULL => Row(x)' = Row(x))
        /\ Op(t).from # None => rows'[i] # NULL /\ Row(i)' = cells
        /\ Op(t).from = None => rows'[i] = NULL
    <2>1. CASE Op(t).from # None
      <3>1. ReplaceRow(t, i, cells) /\ Pending(t) = i
        BY <1>2, <2>1 DEF Pending
      <3> QED BY <1>1, <1>2, <1>4, <2>1, <3>1, ReplacedRow
    <2>2. CASE Op(t).from = None
      <3>1. DestroyRow(t, i)
        BY <1>2, <2>2
      <3> QED BY <1>1, <1>4, <2>2, <3>1, RemovedRow
    <2> QED BY <2>1, <2>2
  <1>6. Op(t).from # None => cells = SymmetricDifference(Row(i), Row(Op(t).from))
    BY <1>2, <1>3 DEF Weighing
  <1>7. DOMAIN rows = RowNumbers /\ DOMAIN rows' = RowNumbers
    BY <1>1, <1>2, SameMatrix DEF HeapTypes
  <1>8. i \in Live /\ Live' = IF Op(t).from # None THEN Live ELSE Live \ {i}
    <2>1. \A x : x \in Live <=> x \in RowNumbers /\ rows[x] # NULL
      BY <1>7 DEF Live
    <2>2. \A x : x \in Live' <=> x \in RowNumbers /\ rows'[x] # NULL
      BY <1>7 DEF Live
    <2> QED BY <1>4, <1>5, <2>1, <2>2
  <1>9. ASSUME NEW j
        PROVE  /\ \A x : x # i => (x \in RowsWith(j)' <=> x \in RowsWith(j))
               /\ i \in RowsWith(j)' <=>
                    Op(t).from # None /\ j \in SymmetricDifference(Row(i), Row(Op(t).from))
    <2>1. \A x : x \in RowsWith(j) <=> x \in RowNumbers /\ rows[x] # NULL /\ j \in Row(x)
      BY <1>7 DEF RowsWith, Live
    <2>2. \A x : x \in RowsWith(j)' <=> x \in RowNumbers /\ rows'[x] # NULL /\ j \in Row(x)'
      BY <1>7 DEF RowsWith, Live
    <2>3. \A x : x # i => (x \in RowsWith(j)' <=> x \in RowsWith(j))
      BY <1>5, <2>1, <2>2
    <2>4. i \in RowsWith(j)' <=>
            Op(t).from # None /\ j \in SymmetricDifference(Row(i), Row(Op(t).from))
      <3>1. CASE Op(t).from # None
        BY <1>4, <1>5, <1>6, <2>2, <3>1
      <3>2. CASE Op(t).from = None
        BY <1>5, <2>2, <3>2
      <3> QED BY <3>1, <3>2
    <2> QED BY <2>3, <2>4
  <1> QED BY <1>4, <1>8, <1>9

(* A column none of whose rows is the thread's keeps its rows.                 *)
LEMMA UntouchedColumn ==
  ASSUME Inv, Inv', Weights, NEW t \in Threads, FinishOp(t), NEW c,
         \A i \in RowsWith(c) : ~Owns(t, i)
  PROVE  RowsWith(c)' = RowsWith(c)
  <1> SUFFICES ASSUME NEW i, i = Op(t).to, NEW f, f = Op(t).from
               PROVE  RowsWith(c)' = RowsWith(c)
    OBVIOUS
  <1>1. /\ Owns(t, i) /\ i \in Live
        /\ \A x : x # i => (x \in RowsWith(c)' <=> x \in RowsWith(c))
        /\ i \in RowsWith(c)' <=> f # None /\ c \in SymmetricDifference(Row(i), Row(f))
    BY FinishedRows
  <1>2. i \notin RowsWith(c)
    BY <1>1
  <1>3. f # None => c \notin Row(f)
    <2>1. f # None => f \in RowNumbers /\ Owns(t, f) /\ rows[f] # NULL
      <3>1. th[t].pc = "weights"
        BY DEF FinishOp
      <3> QED BY <3>1, OpRows DEF Inv, MainTypes
    <2>2. DOMAIN rows = RowNumbers
      BY DEF Inv, HeapTypes
    <2> QED BY <2>1, <2>2 DEF RowsWith, Live
  <1>4. c \notin Row(i)
    BY <1>1, <1>2 DEF RowsWith
  <1>5. i \notin RowsWith(c)'
    BY <1>1, <1>3, <1>4 DEF SymmetricDifference
  <1> QED BY <1>1, <1>2, <1>5

(* `rest` changes the rows that `ops` changes but the first.                   *)
Fewer(rest, ops) ==
  \A x : (\E m \in 1 .. Len(rest) : rest[m].to = x)
            <=> x # ops[1].to /\ \E m \in 1 .. Len(ops) : ops[m].to = x

(* One of the things to do is done.                                            *)
LEMMA OneDone ==
  ASSUME NEW ops, IsWork(ops), Ordered(ops), Len(ops) > 1, NEW rest, rest = Tail(ops)
  PROVE  /\ Ordered(rest) /\ Fewer(rest, ops)
         /\ \E a \in 1 .. Len(ops) : ops[a].to = ops[1].from
         /\ ops[1].from # ops[1].to
  <1> DEFINE n == Len(ops)  z == Len(rest)
  <1>1. /\ n \in Nat /\ n > 1 /\ z = n - 1 /\ \A m \in 1 .. z : rest[m] = ops[m + 1]
    <2> DEFINE S == Addition \union Removal
    <2>1. ops \in Seq(S) /\ Len(ops) >= 1
      BY DEF IsWork
    <2> HIDE DEF S
    <2> QED BY <2>1, TailOf
  <1>2. /\ \A a, b \in 1 .. n : ops[a].to = ops[b].to => a = b
        /\ \A m \in 1 .. n : m # n => \E a \in 1 .. n : a > m /\ ops[a].to = ops[m].from
    BY DEF Ordered
  <1> HIDE DEF n, z
  <1>3. PICK a \in 1 .. n : a > 1 /\ ops[a].to = ops[1].from
    <2>1. 1 \in 1 .. n /\ 1 # n
      BY <1>1
    <2> QED BY <1>2, <2>1
  <1>4. ops[1].from # ops[1].to
    <2>1. 1 \in 1 .. n /\ a # 1
      BY <1>1, <1>3
    <2> QED BY <1>2, <1>3, <2>1
  <1>5. \A b, c \in 1 .. z : rest[b].to = rest[c].to => b = c
    <2> SUFFICES ASSUME NEW b \in 1 .. z, NEW c \in 1 .. z, rest[b].to = rest[c].to PROVE b = c
      OBVIOUS
    <2>1. b + 1 \in 1 .. n /\ c + 1 \in 1 .. n
      BY <1>1
    <2>2. ops[b + 1].to = ops[c + 1].to
      BY <1>1
    <2>3. b + 1 = c + 1
      BY <1>2, <2>1, <2>2
    <2> QED BY <2>3
  <1>6. ASSUME NEW m \in 1 .. z, m # z PROVE \E b \in 1 .. z : b > m /\ rest[b].to = rest[m].from
    <2>1. m + 1 \in 1 .. n /\ m + 1 # n
      BY <1>1, <1>6
    <2>2. PICK b \in 1 .. n : b > m + 1 /\ ops[b].to = ops[m + 1].from
      BY <1>2, <2>1
    <2>3. b - 1 \in 1 .. z /\ b - 1 > m /\ (b - 1) + 1 = b
      BY <1>1, <2>2
    <2>4. rest[b - 1] = ops[b] /\ rest[m] = ops[m + 1]
      BY <1>1, <2>3
    <2> QED BY <2>2, <2>3, <2>4
  <1>7. Ordered(rest)
    BY <1>5, <1>6 DEF Ordered, z
  <1>8. ASSUME NEW x
        PROVE  (\E m \in 1 .. z : rest[m].to = x) <=> x # ops[1].to /\ \E m \in 1 .. n : ops[m].to = x
    <2>1. ASSUME NEW m \in 1 .. z, rest[m].to = x
          PROVE  x # ops[1].to /\ \E b \in 1 .. n : ops[b].to = x
      <3>1. m + 1 \in 1 .. n /\ 1 \in 1 .. n /\ m + 1 # 1
        BY <1>1
      <3>2. ops[m + 1].to = x
        BY <1>1, <2>1
      <3> QED BY <1>2, <3>1, <3>2
    <2>2. ASSUME NEW m \in 1 .. n, ops[m].to = x, x # ops[1].to
          PROVE  \E b \in 1 .. z : rest[b].to = x
      <3>1. m # 1
        BY <2>2
      <3>2. m - 1 \in 1 .. z /\ (m - 1) + 1 = m
        BY <1>1, <3>1
      <3>3. rest[m - 1] = ops[m]
        BY <1>1, <3>2
      <3> QED BY <2>2, <3>2, <3>3
    <2> QED BY <2>1, <2>2
  <1>9. n = Len(ops) /\ z = Len(rest)
    BY DEF n, z
  <1>10. Fewer(rest, ops)
    BY <1>8, <1>9 DEF Fewer
  <1> QED BY <1>3, <1>4, <1>7, <1>9, <1>10

LEMMA MergingAtFinish ==
  ASSUME Inv, Inv', Weights, Merging, NEW t \in Threads, FinishOp(t)
  PROVE  Merging'
  <1> SUFFICES ASSUME NEW i, i = Op(t).to, NEW f, f = Op(t).from
               PROVE  Merging'
    OBVIOUS
  <1>1. /\ phase = "apply" /\ th[t].pc = "weights"
        /\ UNCHANGED <<purged, phase, num, wt, R, order, L, next, busy_rows>>
        /\ th'[t].pc = IF f # None THEN "merge" ELSE "loop"
        /\ th'[t].ops = Tail(th[t].ops) /\ th'[t].it = th[t].it /\ th'[t].last = th[t].last
        /\ \A u \in Threads : u # t => th'[u] = th[u]
    BY FinishedThread
  <1>2. /\ ThreadTypes /\ Ownership /\ MainTypes /\ purged \in Matrices /\ IsWork(th[t].ops)
        /\ Columns' = Columns /\ RowNumbers' = RowNumbers
    BY <1>1, SameMatrix DEF Inv, MainTypes, ThreadTypes, ThreadType
  <1>3. /\ i \in RowNumbers /\ i \in Live /\ Owns(t, i)
        /\ \A j : \A x : x # i => (x \in RowsWith(j)' <=> x \in RowsWith(j))
        /\ \A j : i \in RowsWith(j)' <=> f # None /\ j \in SymmetricDifference(Row(i), Row(f))
    BY FinishedRows
  <1>4. \A u \in Threads : Merges(u)
    BY <1>1 DEF Merging
  <1>5. ASSUME NEW u \in Threads, u # t PROVE Merges(u)'
    <2>1. Merges(u) /\ th'[u] = th[u]
      BY <1>1, <1>4, <1>5
    <2>2. Eliminates(u)'
      <3> SUFFICES ASSUME Working(u) PROVE Eliminates(u)'
        BY <2>1 DEF Eliminates, Working
      <3>1. PICK c \in Columns : /\ wt[c] <= MERGE_LEVEL_MAX
                                 /\ \A x \in RowNumbers : x \in RowsWith(c) <=> Unfinished(u, x)
        BY <2>1 DEF Merges, Eliminates
      <3>2. ASSUME NEW x \in RowsWith(c) PROVE ~Owns(t, x)
        <4>1. x \in RowNumbers
          BY <1>2, <3>2, RowsCountable DEF Inv
        <4>2. Owns(u, x)
          BY <3>1, <4>1, <3>2, UnfinishedOwn
        <4> QED BY <1>2, <1>5, <4>1, <4>2 DEF Ownership
      <3>3. RowsWith(c)' = RowsWith(c)
        BY <3>2, UntouchedColumn
      <3>4. \A x : Unfinished(u, x)' <=> Unfinished(u, x)
        BY <2>1 DEF Unfinished
      <3>5. \A x \in RowNumbers' : x \in RowsWith(c)' <=> Unfinished(u, x)'
        BY <1>2, <3>1, <3>3, <3>4
      <3> QED BY <1>1, <1>2, <3>1, <3>5 DEF Eliminates
    <2> QED BY <2>1, <2>2 DEF Merges
  <1>6. Merges(t)'
    <2>1. CASE f = None
      BY <1>1, <2>1 DEF Merges, Eliminates, Working
    <2>2. CASE f # None
      <3> DEFINE ops == th[t].ops  rest == Tail(ops)
      <3>1. Len(ops) > 1 /\ f \in RowNumbers /\ rows[f] # NULL
        BY <1>1, <1>2, <2>2, OpRows
      <3>2. i = ops[1].to /\ f = ops[1].from
        <4>1. Op(t) = ops[1]
          <5> DEFINE S == Addition \union Removal
          <5>1. ops \in Seq(S) /\ Len(ops) >= 1 /\ Op(t) = Head(ops)
            BY <1>2 DEF IsWork, Op
          <5> HIDE DEF S, ops
          <5> QED BY <5>1
        <4> QED BY <4>1
      <3>3. Ordered(ops) /\ Eliminates(t)
        BY <1>1, <1>4 DEF Merges
      <3>4. Ordered(rest) /\ Fewer(rest, ops)
        BY <1>2, <3>1, <3>3, OneDone
      <3>5. \A x : (\E m \in 1 .. Len(rest) : rest[m].to = x)
                     <=> x # i /\ \E m \in 1 .. Len(ops) : ops[m].to = x
        BY <3>2, <3>4 DEF Fewer
      <3>6. (\E a \in 1 .. Len(ops) : ops[a].to = f) /\ f # i
        BY <1>2, <3>1, <3>2, <3>3, OneDone
      <3>7. PICK c \in Columns : /\ wt[c] <= MERGE_LEVEL_MAX
                                 /\ \A x \in RowNumbers : x \in RowsWith(c) <=> Unfinished(t, x)
        BY <1>1, <3>3 DEF Eliminates, Working
      <3>8. \A x : Unfinished(t, x)' <=> x # i /\ Unfinished(t, x)
        <4> DEFINE A(x) == \E m \in 1 .. Len(rest) : rest[m].to = x
                   B(x) == \E m \in 1 .. Len(ops) : ops[m].to = x
        <4>1. \A x : Unfinished(t, x)' <=> A(x)
          <5>1. th'[t].pc # "tree" /\ th'[t].ops = rest
            BY <1>1, <2>2
          <5> QED BY <5>1 DEF Unfinished
        <4>2. \A x : Unfinished(t, x) <=> B(x)
          BY <1>1 DEF Unfinished
        <4>3. \A x : A(x) <=> x # i /\ B(x)
          BY <3>5
        <4> HIDE DEF A, B
        <4> QED BY <4>1, <4>2, <4>3
      <3>9. i \in RowsWith(c) /\ f \in RowsWith(c)
        <4>1. Unfinished(t, i) /\ Unfinished(t, f)
          BY <1>1, <3>6, FirstUnfinished DEF Unfinished
        <4> QED BY <1>3, <3>1, <3>7, <4>1
      <3>10. i \notin RowsWith(c)'
        BY <1>3, <3>9 DEF RowsWith, SymmetricDifference
      <3>11. \A x \in RowNumbers' : x \in RowsWith(c)' <=> Unfinished(t, x)'
        BY <1>2, <1>3, <3>7, <3>8, <3>10
      <3>12. Eliminates(t)'
        BY <1>1, <1>2, <3>7, <3>11 DEF Eliminates
      <3>13. Ordered(th'[t].ops) /\ th'[t].pc = "merge"
        BY <1>1, <2>2, <3>4
      <3> QED BY <3>12, <3>13 DEF Merges, Ordered
    <2> QED BY <2>1, <2>2
  <1>7. ASSUME NEW c \in DOMAIN R, (~Winding' /\ Free(c)') \/ num'.nmerges = 0 PROVE Intact(c)'
    <2>1. num.nmerges # 0
      BY <1>1, <1>2, OpRows
    <2>2. ~Winding /\ Free(c)
      <3>1. Winding' <=> Winding
        <4>1. \A u \in Threads : /\ th'[u].pc # "reserve" <=> th[u].pc # "reserve"
                                 /\ th'[u].it = th[u].it /\ th'[u].last = th[u].last
          BY <1>1
        <4> QED BY <1>1, <4>1 DEF Winding
      <3>2. Free(c)' => Free(c)
        <4>1. UNCHANGED <<R, L>> /\ busy_rows \subseteq busy_rows' /\ order' = order
          BY <1>1
        <4>2. th'[t].pc # "reserve"
          BY <1>1
        <4> QED BY <1>1, <4>1, <4>2, FreeBefore
      <3> QED BY <1>1, <1>7, <2>1, <3>1, <3>2
    <2>3. Intact(c)
      BY <1>1, <2>2 DEF Merging
    <2>4. \A x \in RowsWith(c) : ~Owns(t, x)
      BY <1>1, <2>2, <2>3, NotOfIntact
    <2>5. RowsWith(c)' = RowsWith(c)
      BY <2>4, UntouchedColumn
    <2> QED BY <1>1, <1>2, <2>3, <2>5 DEF Intact
  <1>8. AllPlaced'
    BY <1>1 DEF Merging, AllPlaced
  <1> QED BY <1>1, <1>5, <1>6, <1>7, <1>8 DEF Merging

LEMMA MergingNext ==
  ASSUME Inv, Inv', Weights, NoRace, Merging, [Next]_vars
  PROVE  Merging'
  <1>1. ASSUME NEW t \in Threads, Step(t) PROVE Merging'
    <2>1. CASE CollectGarbage(t)
      BY <2>1, MergingOutside
    <2>2. CASE TakeChunk(t) \/ LookAtRows(t) \/ Reserve(t)
      BY <2>2, TakesMerges
    <2>3. CASE Merge(t)
      BY <2>3, MergingAtMerge
    <2>4. CASE GrowTree(t)
      BY <2>4, MergingAtGrow
    <2>5. CASE MergeRows(t)
      BY <2>5, MergingAtRows
    <2>6. CASE add_row(t) \/ remove_row(t) \/ CheckWeight(t)
      BY <2>6, MergingAtWork
    <2>7. CASE UpdateWeight(t)
      BY <2>7, MergingAtUpdate
    <2>8. CASE FinishOp(t)
      BY <2>8, MergingAtFinish
    <2>9. CASE insert_rel_into_table(t)
      BY <2>9 DEF insert_rel_into_table, mergeVars, Merging
    <2> QED BY <1>1, <2>1, <2>2, <2>3, <2>4, <2>5, <2>6, <2>7, <2>8, <2>9 DEF Step
  <1>2. ASSUME Sequential PROVE Merging'
    <2>1. CASE CostBelowZero \/ Recompress \/ TestEnd
      BY <2>1, MergingOutside
    <2>2. CASE compute_weights \/ EndPass
      BY <2>2, MergingAtEnds
    <2>3. CASE StartPass \/ GarbageCollected
      BY <2>3, MergingOutside
    <2>4. CASE Prepare
      BY <2>4, MergingAtPrepare
    <2>5. CASE ApplyFirst
      BY <2>5, MergingAtApplyFirst
    <2> QED BY <1>2, <2>1, <2>2, <2>3, <2>4, <2>5 DEF Sequential
  <1>3. CASE UNCHANGED vars
    BY <1>3, MergingOutside
  <1> QED BY <1>1, <1>2, <1>3 DEF Next, Done

(* A row that is removed is the only one left of the column of its merge.      *)
LEMMA OnlyOneLeft ==
  ASSUME Inv, Merging, NEW t \in Threads, th[t].pc \in {"merge", "weights"}, Op(t).from = None
  PROVE  \E c \in Columns : wt[c] <= MERGE_LEVEL_MAX /\ RowsWith(c) = {Op(t).to}
  <1> DEFINE i == Op(t).to
  <1>1. ThreadTypes /\ Ownership /\ purged \in Matrices /\ HeapTypes /\ phase # "read"
    <2>1. phase # "read"
      <3>1. th[t].pc # "loop"
        OBVIOUS
      <3> QED BY <3>1, NonePending DEF Inv
    <2> QED BY <2>1 DEF Inv, MainTypes
  <1>2. i \in RowNumbers /\ Len(th[t].ops) = 1
    BY <1>1, OpRows
  <1>3. PICK c \in Columns : /\ wt[c] <= MERGE_LEVEL_MAX
                             /\ \A x \in RowNumbers : x \in RowsWith(c) <=> Unfinished(t, x)
    BY <1>1 DEF Merging, Merges, Eliminates, Working
  <1>4. \A x : Unfinished(t, x) <=> x = i
    <2>1. \A m : m \in 1 .. Len(th[t].ops) <=> m = 1
      BY <1>2
    <2>2. Unfinished(t, i)
      BY FirstUnfinished
    <2> QED BY <2>1, <2>2 DEF Unfinished
  <1>5. RowsWith(c) \subseteq RowNumbers
    BY <1>1, RowsCountable
  <1>6. RowsWith(c) = {i}
    BY <1>2, <1>3, <1>4, <1>5
  <1> QED BY <1>3, <1>6

-------------------------------------------------------------------------------
(* How many rows and columns are left.                                         *)

LEMMA Countable ==
  ASSUME Inv
  PROVE  /\ IsFiniteSet(Live) /\ Cardinality(Live) \in Nat
         /\ IsFiniteSet(Remaining) /\ Cardinality(Remaining) \in Nat
         /\ IsFiniteSet(Removing) /\ Cardinality(Removing) \in Nat
  <1>1. purged \in Matrices /\ DOMAIN rows = RowNumbers
    BY DEF Inv, MainTypes, HeapTypes
  <1>2. IsFiniteSet(RowNumbers) /\ IsFiniteSet(Columns)
    BY <1>1, MatrixRows, FS_Interval
  <1>3. IsFiniteSet(Threads)
    BY HeapAssumption
  <1>4. Live \subseteq RowNumbers /\ Remaining \subseteq Columns /\ Removing \subseteq Threads
    BY <1>1 DEF Live, Remaining, Removing
  <1>5. IsFiniteSet(Live) /\ IsFiniteSet(Remaining) /\ IsFiniteSet(Removing)
    BY <1>2, <1>3, <1>4, FS_Subset
  <1> QED BY <1>5, FS_CardinalityType

(* What is counted does not change.                                            *)
LEMMA TallyStays ==
  ASSUME Tally, phase # "read", Live' = Live, Remaining' = Remaining, Removing' = Removing,
         num'.rem_nrows = num.rem_nrows, num'.rem_ncols = num.rem_ncols, num'.nmerges = num.nmerges
  PROVE  Tally'
  <1>1. /\ num.rem_nrows \in Int /\ num.rem_ncols \in Int
        /\ Cardinality(Live) + num.nmerges = num.rem_nrows + Cardinality(Removing)
        /\ Cardinality(Remaining) + num.nmerges <= num.rem_ncols + Cardinality(Removing)
    BY DEF Tally
  <1> QED BY <1>1 DEF Tally

(* A thread that does not begin or end the additions of a merge.               *)
LEMMA RemovingStays ==
  ASSUME NEW t \in Threads, \A u \in Threads : u # t => th'[u] = th[u],
         th'[t].pc \in {"merge", "weights"} <=> th[t].pc \in {"merge", "weights"}
  PROVE  Removing' = Removing
  BY DEF Removing

LEMMA NobodyRemoves ==
  ASSUME \A u \in Threads : th[u].pc \notin {"merge", "weights"}
  PROVE  Removing = {} /\ Cardinality(Removing) = 0
  <1>1. Removing = {}
    BY DEF Removing
  <1> QED BY <1>1, FS_EmptySet

LEMMA TallyAtFirst ==
  ASSUME Inv, Inv', compute_weights
  PROVE  Tally'
  <1>1. /\ phase = "read" /\ Live = DOMAIN rows /\ UNCHANGED <<pages, rows, purged, th>>
        /\ num'.rem_nrows = Len(purged) /\ num'.rem_ncols = Cardinality(Columns) /\ num'.nmerges = num.nmerges
    BY DEF compute_weights, heapVars, Inv, MainTypes, NumFields
  <1>2. purged \in Matrices /\ num.nmerges = 0 /\ \A u \in Threads : th'[u].pc = "loop"
    BY <1>1 DEF Inv, MainTypes, Resting
  <1>3. Removing' = {} /\ Cardinality(Removing') = 0
    <2>1. Removing' = {}
      BY <1>2 DEF Removing
    <2> QED BY <2>1, FS_EmptySet
  <1>4. Cardinality(Live') = Len(purged)
    <2>1. Live' = RowNumbers /\ RowNumbers = 1 .. Len(purged) /\ Len(purged) \in Nat
      BY <1>1, <1>2, MatrixRows DEF Live, Inv, HeapTypes
    <2> DEFINE n == Len(purged)
    <2>2. n \in Nat /\ Live' = 1 .. n
      BY <2>1
    <2> HIDE DEF n
    <2>3. Cardinality(1 .. n) = n
      <3>1. Cardinality(1 .. n) = IF 1 > n THEN 0 ELSE n - 1 + 1
        BY <2>2, FS_Interval
      <3> QED BY <2>2, <3>1
    <2> QED BY <2>2, <2>3 DEF n
  <1>5. Cardinality(Remaining') <= Cardinality(Columns) /\ Cardinality(Columns) \in Nat
    <2>1. Remaining' \subseteq Columns
      BY <1>1, SameMatrix DEF Remaining
    <2>2. IsFiniteSet(Columns)
      BY <1>2, MatrixRows
    <2> QED BY <2>1, <2>2, FS_Subset, FS_CardinalityType
  <1>6. Cardinality(Remaining') \in Nat /\ Len(purged) \in Nat
    <2>1. IsFiniteSet(Remaining')
      <3>1. Remaining' \subseteq Columns /\ IsFiniteSet(Columns)
        BY <1>1, <1>2, SameMatrix, MatrixRows DEF Remaining
      <3> QED BY <3>1, FS_Subset
    <2> QED BY <1>2, <2>1, FS_CardinalityType, MatrixRows
  <1> QED BY <1>1, <1>2, <1>3, <1>4, <1>5, <1>6 DEF Tally

(* Nothing is counted between passes, nor when merges begin.                   *)
LEMMA TallyOutside ==
  ASSUME Inv, Inv', Tally, phase # "read",
         \/ StartPass \/ GarbageCollected \/ Prepare \/ ApplyFirst \/ UNCHANGED vars
         \/ CostBelowZero \/ TestEnd
         \/ \E t \in Threads : CollectGarbage(t)
  PROVE  Tally'
  <1>1. RowsStay /\ UNCHANGED <<purged, wt>>
    <2>1. CASE \E t \in Threads : CollectGarbage(t)
      BY <2>1, CollectStays DEF CollectGarbage, mergeVars
    <2>2. CASE \/ StartPass \/ GarbageCollected \/ Prepare \/ ApplyFirst \/ UNCHANGED vars
               \/ CostBelowZero \/ TestEnd
      <3>1. UNCHANGED <<pages, rows, purged, wt>>
        BY <2>2 DEF StartPass, GarbageCollected, Prepare, ApplyFirst, CostBelowZero, TestEnd, vars,
                    heapVars, mergeVars
      <3> QED BY <3>1, SameRows
    <2> QED BY <2>1, <2>2
  <1>2. /\ num'.rem_nrows = num.rem_nrows /\ num'.rem_ncols = num.rem_ncols
        /\ num'.nmerges = num.nmerges
    <2>1. DOMAIN num = NumFields
      BY DEF Inv, MainTypes
    <2>2. CASE StartPass
      BY <2>1, <2>2 DEF StartPass, NumFields
    <2>3. CASE ~StartPass
      BY <2>3 DEF GarbageCollected, Prepare, ApplyFirst, CostBelowZero, TestEnd, vars, mergeVars,
                  CollectGarbage
    <2> QED BY <2>2, <2>3
  <1>3. Removing' = Removing
    <2>1. CASE ApplyFirst
      <3>1. PICK o : merge_do(Main, o, th[Main])
        BY <2>1 DEF ApplyFirst
      <3>2. Main \in Threads /\ DOMAIN th = Threads /\ DOMAIN th[Main] = ThreadFields
        BY HeapAssumption DEF Inv, ThreadTypes, ThreadType
      <3> DEFINE s == [th[Main] EXCEPT !.pc = "tree", !.tree = Seedling(o)]
      <3>3. th' = [th EXCEPT ![Main] = s] /\ s.pc = "tree"
        BY <3>1, <3>2 DEF merge_do, ThreadFields
      <3>4. th[Main].pc = "loop"
        BY <2>1, <3>2 DEF ApplyFirst, ParallelSectionOver
      <3> HIDE DEF s
      <3>5. th'[Main].pc = "tree" /\ \A u \in Threads : u # Main => th'[u] = th[u]
        BY <3>2, <3>3
      <3> QED BY <3>2, <3>4, <3>5, RemovingStays
    <2>2. CASE ~ApplyFirst
      <3>1. UNCHANGED th
        BY <2>2 DEF StartPass, GarbageCollected, Prepare, CostBelowZero, TestEnd, vars, mergeVars,
                    CollectGarbage
      <3> QED BY <3>1 DEF Removing
    <2> QED BY <2>1, <2>2
  <1>4. Live' = Live /\ Remaining' = Remaining
    BY <1>1, NothingGone
  <1> QED BY <1>2, <1>3, <1>4, TallyStays

(* Nor when merges are taken, trees found, or additions begin.                 *)
LEMMA TallyOnTheWay ==
  ASSUME Inv, Inv', Tally, NEW t \in Threads,
         \/ TakeChunk(t) \/ LookAtRows(t) \/ Reserve(t) \/ Merge(t) \/ GrowTree(t)
         \/ add_row(t) \/ remove_row(t) \/ CheckWeight(t)
  PROVE  Tally'
  <1>1. CASE add_row(t) \/ remove_row(t) \/ CheckWeight(t)
    <2>1. /\ RowsStay /\ UNCHANGED <<purged, phase, num, wt, R, order, L, next, busy_rows>>
          /\ th[t].pc \in {"merge", "weights"}
          /\ \/ UNCHANGED th
             \/ \E s : /\ th' = [th EXCEPT ![t] = s] /\ s.pc = "weights" /\ s.ops = th[t].ops
                       /\ s.it = th[t].it /\ s.last = th[t].last
      BY <1>1, AtWorkStays
    <2>2. Removing' = Removing
      <3>1. CASE UNCHANGED th
        BY <3>1 DEF Removing
      <3>2. CASE ~UNCHANGED th
        <4>1. PICK s : th' = [th EXCEPT ![t] = s] /\ s.pc = "weights"
          BY <2>1, <3>2
        <4>2. th'[t].pc = "weights" /\ \A u \in Threads : u # t => th'[u] = th[u]
          BY <4>1 DEF Inv, ThreadTypes
        <4> QED BY <2>1, <4>2, RemovingStays
      <3> QED BY <3>1, <3>2
    <2>3. phase # "read"
      <3>1. th[t].pc # "loop"
        BY <2>1
      <3> QED BY <3>1, NonePending DEF Inv
    <2> QED BY <2>1, <2>2, <2>3, NothingGone, TallyStays
  <1>2. CASE TakeChunk(t) \/ LookAtRows(t) \/ Reserve(t) \/ Merge(t) \/ GrowTree(t)
    <2>1. DOMAIN th = Threads /\ DOMAIN th[t] = ThreadFields
      BY DEF Inv, ThreadTypes, ThreadType
    <2>2. /\ UNCHANGED <<pages, rows, purged, wt, num, phase>>
          /\ th[t].pc \in {"loop", "reserve", "tree"}
      BY <1>2 DEF TakeChunk, LookAtRows, Looping, Reserve, Merge, GrowTree, heapVars
    <2>3. PICK s : th' = [th EXCEPT ![t] = s] /\ s.pc \in {"loop", "reserve", "tree"}
      <3>1. CASE TakeChunk(t)
        <4>1. PICK n : th' = [th EXCEPT ![t].it = next, ![t].last = next + n - 1]
          BY <3>1 DEF TakeChunk
        <4> DEFINE s == [th[t] EXCEPT !.it = next, !.last = next + n - 1]
        <4>2. th' = [th EXCEPT ![t] = s] /\ s.pc = th[t].pc
          BY <2>1, <4>1 DEF ThreadFields
        <4> HIDE DEF s
        <4> QED BY <2>2, <4>2
      <3>2. CASE LookAtRows(t)
        <4> DEFINE s1 == NextMerge(th[t])  s2 == [th[t] EXCEPT !.pc = "reserve"]
        <4>1. th' = [th EXCEPT ![t] = s1] \/ th' = [th EXCEPT ![t] = s2]
          BY <3>2 DEF LookAtRows
        <4>2. s1.pc = "loop" /\ s2.pc = "reserve"
          BY <2>1 DEF NextMerge, ThreadFields
        <4> HIDE DEF s1, s2
        <4> QED BY <4>1, <4>2
      <3>3. CASE Reserve(t)
        <4> DEFINE s1 == NextMerge(th[t])  s2 == [th[t] EXCEPT !.k = @ + 1]
                   row == order[Column(t)][th[t].k]
        <4>1. th' = [th EXCEPT ![t] = IF row \in busy_rows THEN s1 ELSE s2]
          BY <3>3 DEF Reserve
        <4>2. s1.pc = "loop" /\ s2.pc = th[t].pc
          BY <2>1 DEF NextMerge, ThreadFields
        <4> HIDE DEF s1, s2, row
        <4> QED BY <2>2, <4>1, <4>2
      <3>4. CASE Merge(t)
        <4> DEFINE s == [NextMerge(th[t]) EXCEPT !.pc = "tree", !.tree = Seedling(order[Column(t)])]
        <4>1. th' = [th EXCEPT ![t] = s]
          BY <3>4 DEF Merge, merge_do
        <4>2. s.pc = "tree"
          BY <2>1 DEF NextMerge, ThreadFields
        <4> HIDE DEF s
        <4> QED BY <4>1, <4>2
      <3>5. CASE GrowTree(t)
        <4>1. PICK tree : th' = [th EXCEPT ![t].tree = tree]
          BY <3>5 DEF GrowTree
        <4> DEFINE s == [th[t] EXCEPT !.tree = tree]
        <4>2. th' = [th EXCEPT ![t] = s] /\ s.pc = th[t].pc
          BY <2>1, <4>1 DEF ThreadFields
        <4> HIDE DEF s
        <4> QED BY <2>2, <4>2
      <3> QED BY <1>2, <3>1, <3>2, <3>3, <3>4, <3>5
    <2>4. th'[t].pc \in {"loop", "reserve", "tree"} /\ \A u \in Threads : u # t => th'[u] = th[u]
      BY <2>1, <2>3
    <2>5. Removing' = Removing
      BY <2>2, <2>4, RemovingStays
    <2>6. phase # "read"
      BY <1>2, <2>2, NonePending DEF Inv, TakeChunk, LookAtRows, Looping, Reserve, Merge, GrowTree
    <2> QED BY <2>2, <2>5, <2>6, SameRows, NothingGone, TallyStays
  <1> QED BY <1>1, <1>2

(* A merge is counted before it is done.                                       *)
LEMMA TallyAtRows ==
  ASSUME Inv, Inv', Tally, NEW t \in Threads, MergeRows(t)
  PROVE  Tally'
  <1>1. /\ DOMAIN th = Threads /\ DOMAIN th[t] = ThreadFields /\ th[t].pc = "tree" /\ DOMAIN num = NumFields
        /\ num.nmerges \in Nat
        /\ UNCHANGED <<pages, rows, purged, wt, phase>>
    BY DEF Inv, MainTypes, ThreadTypes, ThreadType, MergeRows, heapVars
  <1>2. /\ num'.rem_nrows = num.rem_nrows /\ num'.rem_ncols = num.rem_ncols
        /\ num'.nmerges = num.nmerges + 1
    BY <1>1 DEF MergeRows, NumFields
  <1>3. PICK ops : th' = [th EXCEPT ![t].pc = "merge", ![t].tree = <<>>, ![t].ops = ops]
    BY DEF MergeRows
  <1> DEFINE s == [th[t] EXCEPT !.pc = "merge", !.tree = <<>>, !.ops = ops]
  <1>4. th' = [th EXCEPT ![t] = s] /\ s.pc = "merge"
    BY <1>1, <1>3 DEF ThreadFields
  <1> HIDE DEF s
  <1>5. th'[t].pc = "merge" /\ \A u \in Threads : u # t => th'[u] = th[u]
    BY <1>1, <1>4
  <1>6. Removing' = Removing \union {t} /\ t \notin Removing
    BY <1>1, <1>5 DEF Removing
  <1>7. Cardinality(Removing') = Cardinality(Removing) + 1 /\ Cardinality(Removing) \in Nat
    <2>1. IsFiniteSet(Removing) /\ Cardinality(Removing) \in Nat
      BY Countable
    <2>2. Cardinality(Removing \union {t}) = Cardinality(Removing) + 1
      BY <1>6, <2>1, FS_AddElement
    <2> QED BY <1>6, <2>1, <2>2
  <1>8. phase # "read"
    <2>1. th[t].pc # "loop"
      BY <1>1
    <2> QED BY <2>1, NonePending DEF Inv
  <1>9. Live' = Live /\ Remaining' = Remaining
    BY <1>1, SameRows, NothingGone
  <1>10. /\ num.rem_nrows \in Int /\ num.rem_ncols \in Int
         /\ Cardinality(Live) + num.nmerges = num.rem_nrows + Cardinality(Removing)
         /\ Cardinality(Remaining) + num.nmerges <= num.rem_ncols + Cardinality(Removing)
    BY <1>8 DEF Tally
  <1>11. Cardinality(Live) \in Nat /\ Cardinality(Remaining) \in Nat
    BY Countable
  <1>12. Cardinality(Live') + num'.nmerges = num'.rem_nrows + Cardinality(Removing')
    BY <1>1, <1>2, <1>7, <1>9, <1>10, <1>11
  <1>13. Cardinality(Remaining') + num'.nmerges <= num'.rem_ncols + Cardinality(Removing')
    BY <1>1, <1>2, <1>7, <1>9, <1>10, <1>11
  <1> QED BY <1>2, <1>10, <1>12, <1>13 DEF Tally

(* A weight changes of a column that has a row.                                *)
LEMMA TallyAtUpdate ==
  ASSUME Inv, Inv', Weights, NoRace, Tally, NEW t \in Threads, UpdateWeight(t)
  PROVE  Tally'
  <1> SUFFICES ASSUME NEW j, j = Head(th[t].todo) PROVE Tally'
    OBVIOUS
  <1>1. /\ phase # "read" /\ UNCHANGED <<pages, rows, purged>> /\ Counted(t, j)
        /\ \A x \in Columns : x # j => wt'[x] = wt[x]
    BY UpdatedWeight
  <1>2. /\ DOMAIN th = Threads /\ DOMAIN th[t] = ThreadFields /\ th[t].pc = "weights" /\ UNCHANGED num
    BY DEF Inv, ThreadTypes, ThreadType, UpdateWeight
  <1>3. th'[t].pc = "weights" /\ \A u \in Threads : u # t => th'[u] = th[u]
    <2> DEFINE s == [th[t] EXCEPT !.seen = FALSE, !.todo = Tail(@)]
    <2>1. th' = [th EXCEPT ![t] = s]
      BY <1>2 DEF UpdateWeight, ThreadFields
    <2>2. s.pc = "weights"
      BY <1>2 DEF ThreadFields
    <2> HIDE DEF s
    <2> QED BY <1>2, <2>1, <2>2
  <1>4. Removing' = Removing
    BY <1>2, <1>3, RemovingStays
  <1>5. RowsStay /\ Columns' = Columns /\ HeapTypes /\ rows' \in [RowNumbers -> Nat \X Nat]
    BY <1>1, SameRows, SameMatrix DEF Inv, HeapTypes
  <1>6. Live' = Live
    BY <1>1 DEF Live
  <1>7. \A c : RowsWith(c)' = RowsWith(c)
    BY <1>5, SameWeights
  <1>8. RowsWith(j) # {}
    BY <1>1, <1>2, SourceRow DEF Counted
  <1>9. Remaining' = Remaining
    BY <1>1, <1>5, <1>7, <1>8 DEF Remaining
  <1> QED BY <1>1, <1>2, <1>4, <1>6, <1>9, TallyStays

(* Additions leave no column more, and the removal one column less.            *)
LEMMA TallyAtFinish ==
  ASSUME Inv, Inv', Weights, Merging, Tally, NEW t \in Threads, FinishOp(t)
  PROVE  Tally'
  <1> SUFFICES ASSUME NEW i, i = Op(t).to, NEW f, f = Op(t).from
               PROVE  Tally'
    OBVIOUS
  <1>1. /\ phase = "apply" /\ th[t].pc = "weights"
        /\ UNCHANGED <<purged, phase, num, wt>>
        /\ th'[t].pc = IF f # None THEN "merge" ELSE "loop"
        /\ \A u \in Threads : u # t => th'[u] = th[u]
    BY FinishedThread
  <1>2. /\ i \in RowNumbers /\ i \in Live
        /\ Live' = IF f # None THEN Live ELSE Live \ {i}
        /\ \A j : \A x : x # i => (x \in RowsWith(j)' <=> x \in RowsWith(j))
        /\ \A j : i \in RowsWith(j)' <=> f # None /\ j \in SymmetricDifference(Row(i), Row(f))
    BY FinishedRows
  <1>3. Columns' = Columns /\ wt \in [Columns -> Nat] /\ MERGE_LEVEL_MAX \in Nat
    BY <1>1, SameMatrix, MergeAssumption DEF Inv, MainTypes
  <1>4. /\ num.rem_nrows \in Int /\ num.rem_ncols \in Int /\ num.nmerges \in Nat
        /\ Cardinality(Live) + num.nmerges = num.rem_nrows + Cardinality(Removing)
        /\ Cardinality(Remaining) + num.nmerges <= num.rem_ncols + Cardinality(Removing)
    BY <1>1 DEF Tally, Inv, MainTypes
  <1>5. /\ IsFiniteSet(Live) /\ Cardinality(Live) \in Nat
        /\ IsFiniteSet(Remaining) /\ Cardinality(Remaining) \in Nat
        /\ IsFiniteSet(Removing) /\ Cardinality(Removing) \in Nat
    BY Countable
  <1>6. Remaining' \subseteq Remaining
    <2> SUFFICES ASSUME NEW c \in Remaining' PROVE c \in Remaining
      OBVIOUS
    <2>1. c \in Columns /\ (wt[c] > MERGE_LEVEL_MAX \/ RowsWith(c)' # {})
      BY <1>1, <1>3 DEF Remaining
    <2>2. CASE wt[c] > MERGE_LEVEL_MAX
      BY <2>1, <2>2 DEF Remaining
    <2>3. CASE RowsWith(c)' # {}
      <3>1. PICK x : x \in RowsWith(c)'
        BY <2>3
      <3>2. CASE x # i
        <4>1. x \in RowsWith(c)
          BY <1>2, <3>1, <3>2
        <4> QED BY <2>1, <4>1 DEF Remaining
      <3>3. CASE x = i
        <4>1. f # None /\ (c \in Row(i) \/ c \in Row(f))
          BY <1>2, <3>1, <3>3 DEF SymmetricDifference
        <4>2. f \in Live
          <5>1. f \in RowNumbers /\ rows[f] # NULL
            BY <1>1, <4>1, OpRows DEF Inv, MainTypes
          <5> QED BY <5>1 DEF Live, Inv, HeapTypes
        <4>3. i \in RowsWith(c) \/ f \in RowsWith(c)
          BY <1>2, <4>1, <4>2 DEF RowsWith
        <4> QED BY <2>1, <4>3 DEF Remaining
      <3> QED BY <3>2, <3>3
    <2> QED BY <2>1, <2>2, <2>3
  <1>7. CASE f # None
    <2>1. Live' = Live
      BY <1>2, <1>7
    <2>2. Removing' = Removing
      BY <1>1, <1>7, RemovingStays
    <2>3. Cardinality(Remaining') <= Cardinality(Remaining) /\ Cardinality(Remaining') \in Nat
      BY <1>5, <1>6, FS_Subset, FS_CardinalityType
    <2> QED BY <1>1, <1>4, <1>5, <2>1, <2>2, <2>3 DEF Tally
  <1>8. CASE f = None
    <2>1. Live' = Live \ {i} /\ i \in Live
      BY <1>2, <1>8
    <2>2. Cardinality(Live') = Cardinality(Live) - 1
      <3>1. Cardinality(Live \ {i}) = Cardinality(Live) - 1
        BY <1>5, <2>1, FS_RemoveElement
      <3> QED BY <2>1, <3>1
    <2>3. Removing' = Removing \ {t} /\ t \in Removing
      <3>1. th'[t].pc = "loop"
        BY <1>1, <1>8
      <3> QED BY <1>1, <3>1 DEF Removing
    <2>4. Cardinality(Removing') = Cardinality(Removing) - 1
      <3>1. Cardinality(Removing \ {t}) = Cardinality(Removing) - 1
        BY <1>5, <2>3, FS_RemoveElement
      <3> QED BY <2>3, <3>1
    <2>5. PICK c \in Columns : wt[c] <= MERGE_LEVEL_MAX /\ RowsWith(c) = {i}
      BY <1>1, <1>8, OnlyOneLeft
    <2>6. c \in Remaining /\ c \notin Remaining'
      <3>1. RowsWith(c)' = {}
        BY <1>2, <1>8, <2>5
      <3>2. ~(wt[c] > MERGE_LEVEL_MAX)
        BY <1>3, <2>5
      <3> QED BY <1>1, <2>5, <3>1, <3>2 DEF Remaining
    <2>7. Cardinality(Remaining') <= Cardinality(Remaining) - 1 /\ Cardinality(Remaining') \in Nat
      <3>1. Cardinality(Remaining \ {c}) = Cardinality(Remaining) - 1 /\ IsFiniteSet(Remaining \ {c})
        BY <1>5, <2>6, FS_RemoveElement
      <3>2. Remaining' \subseteq Remaining \ {c}
        BY <1>6, <2>6
      <3>3. Cardinality(Remaining') <= Cardinality(Remaining \ {c}) /\ IsFiniteSet(Remaining')
        BY <3>1, <3>2, FS_Subset
      <3> QED BY <3>1, <3>3, FS_CardinalityType
    <2>8. Cardinality(Live') + num.nmerges = num.rem_nrows + Cardinality(Removing')
      <3> SUFFICES ASSUME NEW a, a = Cardinality(Live), NEW z, z = Cardinality(Removing),
                          NEW n, n = num.nmerges, NEW b, b = num.rem_nrows
                   PROVE  Cardinality(Live') + n = b + Cardinality(Removing')
        OBVIOUS
      <3>1. a \in Int /\ z \in Int /\ n \in Int /\ b \in Int /\ a + n = b + z
        BY <1>4, <1>5
      <3>2. Cardinality(Live') = a - 1 /\ Cardinality(Removing') = z - 1
        BY <2>2, <2>4
      <3>3. (a - 1) + n = b + (z - 1)
        BY <3>1
      <3> QED BY <3>2, <3>3
    <2>9. Cardinality(Remaining') + num.nmerges <= num.rem_ncols + Cardinality(Removing')
      BY <1>4, <1>5, <2>4, <2>7
    <2> QED BY <1>1, <1>4, <2>8, <2>9 DEF Tally
  <1> QED BY <1>7, <1>8

(* A column that has a weight is left, and the other way round.                *)
LEMMA LeftHaveWeight ==
  ASSUME Inv, Weights, phase # "read", \A u \in Threads : th[u].pc # "weights"
  PROVE  Remaining = {j \in Columns : wt[j] > 0}
  <1> SUFFICES ASSUME NEW j \in Columns PROVE wt[j] > 0 <=> wt[j] > MERGE_LEVEL_MAX \/ RowsWith(j) # {}
    BY DEF Remaining
  <1>1. /\ wt[j] \in Nat /\ MERGE_LEVEL_MAX \in Nat /\ TrueWeight(j) \in Nat /\ HeapTypes
        /\ purged \in Matrices
    <2>1. HeapTypes /\ MainTypes
      BY DEF Inv
    <2>2. purged \in Matrices /\ wt \in [Columns -> Nat]
      BY <2>1 DEF MainTypes
    <2>3. wt[j] \in Nat
      BY <2>2
    <2>4. MERGE_LEVEL_MAX \in Nat
      BY MergeAssumption
    <2>5. TrueWeight(j) \in Nat
      BY <2>1, <2>2, RowsCountable
    <2> QED BY <2>1, <2>2, <2>3, <2>4, <2>5
  <1>2. Early(j) = {} /\ Late(j) = {}
    BY DEF Early, Late, Weighed
  <1>3. Cardinality(Early(j)) = 0 /\ Cardinality(Late(j)) = 0
    BY <1>2, FS_EmptySet
  <1>4. wt[j] > MERGE_LEVEL_MAX \/ wt[j] = TrueWeight(j)
    <2>1. Balanced(j)
      BY DEF Weights
    <2> QED BY <1>1, <1>3, <2>1 DEF Balanced
  <1>5. TrueWeight(j) > 0 <=> RowsWith(j) # {}
    <2> SUFFICES ASSUME NEW B, B = RowsWith(j), NEW n, n = Cardinality(B), n \in Nat
                 PROVE  n > 0 <=> B # {}
      BY <1>1 DEF TrueWeight
    <2>1. IsFiniteSet(B)
      <3>1. B \subseteq RowNumbers /\ IsFiniteSet(RowNumbers)
        BY <1>1, RowsCountable, MatrixRows, FS_Interval
      <3> QED BY <3>1, FS_Subset
    <2>2. n = 0 <=> B = {}
      BY <2>1, FS_EmptySet
    <2> QED BY <2>2
  <1> QED BY <1>1, <1>4, <1>5

LEMMA TallyAtEnd ==
  ASSUME Inv, Inv', Tally, EndPass
  PROVE  Tally'
  <1>1. /\ phase = "apply" /\ UNCHANGED <<pages, rows, purged, wt>> /\ th' = [u \in Threads |-> Resting]
        /\ \A u \in Threads : th[u].pc = "loop"
    BY DEF EndPass, ParallelSectionOver, heapVars
  <1>2. /\ num'.rem_nrows = num.rem_nrows - num.nmerges /\ num'.nmerges = 0
        /\ num'.rem_ncols = num.rem_ncols - num.nmerges
    <2>1. DOMAIN num = NumFields
      BY DEF Inv, MainTypes
    <2>2. num'.rem_nrows = num.rem_nrows - num.nmerges
      BY <2>1 DEF EndPass, NumFields
    <2>3. num'.rem_ncols = num.rem_ncols - num.nmerges
      BY <2>1 DEF EndPass, NumFields
    <2>4. num'.nmerges = 0
      BY <2>1 DEF EndPass, NumFields
    <2> QED BY <2>2, <2>3, <2>4
  <1>3. Removing = {} /\ Cardinality(Removing) = 0
    BY <1>1, NobodyRemoves
  <1>4. Removing' = {} /\ Cardinality(Removing') = 0
    <2>1. Removing' = {}
      BY <1>1 DEF Removing, Resting
    <2> QED BY <2>1, FS_EmptySet
  <1>5. Live' = Live /\ Remaining' = Remaining
    BY <1>1, SameRows, NothingGone
  <1>6. /\ num.rem_nrows \in Int /\ num.rem_ncols \in Int /\ num.nmerges \in Nat
        /\ Cardinality(Live) + num.nmerges = num.rem_nrows + 0
        /\ Cardinality(Remaining) + num.nmerges <= num.rem_ncols + 0
    BY <1>1, <1>3 DEF Tally, Inv, MainTypes
  <1>7. Cardinality(Live) \in Nat /\ Cardinality(Remaining) \in Nat
    BY Countable
  <1> QED BY <1>2, <1>4, <1>5, <1>6, <1>7 DEF Tally

(* recompress() counts the columns that are left.                              *)
LEMMA TallyAtRecompress ==
  ASSUME Inv, Inv', Weights, Tally, Recompress
  PROVE  Tally'
  <1> DEFINE left == Cardinality({j \in Columns : wt[j] > 0})
             due == 100 * num.rem_ncols < 66 * num.ncols
  <1>1. phase = "recompress" /\ UNCHANGED <<pages, rows, purged, wt, th>>
    BY DEF Recompress, heapVars
  <1>2. /\ num'.rem_nrows = num.rem_nrows /\ num'.nmerges = num.nmerges
        /\ num'.rem_ncols = IF due THEN left ELSE num.rem_ncols
    BY DEF Recompress, Inv, MainTypes, NumFields
  <1>3. \A u \in Threads : th[u].pc = "loop"
    BY <1>1, NonePending DEF Inv
  <1>4. /\ Removing = {} /\ Cardinality(Removing) = 0 /\ Removing' = Removing
    <2>1. Removing' = Removing
      BY <1>1 DEF Removing
    <2> QED BY <1>3, <2>1, NobodyRemoves
  <1>5. Live' = Live /\ Remaining' = Remaining
    BY <1>1, SameRows, NothingGone
  <1>6. /\ num.rem_nrows \in Int /\ num.rem_ncols \in Int /\ num.nmerges = 0
        /\ Cardinality(Live) + 0 = num.rem_nrows + 0
        /\ Cardinality(Remaining) + 0 <= num.rem_ncols + 0
    BY <1>1, <1>4 DEF Tally, Inv, MainTypes
  <1>7. Cardinality(Live) \in Nat /\ Cardinality(Remaining) \in Nat
    BY Countable
  <1>8. left = Cardinality(Remaining)
    BY <1>1, <1>3, LeftHaveWeight
  <1> HIDE DEF left, due
  <1>9. num'.rem_ncols \in Int /\ Cardinality(Remaining) <= num'.rem_ncols
    <2>1. CASE due
      BY <1>2, <1>7, <1>8, <2>1
    <2>2. CASE ~due
      BY <1>2, <1>6, <1>7, <2>2
    <2> QED BY <2>1, <2>2
  <1> QED BY <1>2, <1>4, <1>5, <1>6, <1>7, <1>9 DEF Tally

LEMMA TallyNext ==
  ASSUME Inv, Inv', Weights, NoRace, Merging, Tally, [Next]_vars
  PROVE  Tally'
  <1>1. ASSUME NEW t \in Threads, Step(t) PROVE Tally'
    <2>1. CASE CollectGarbage(t)
      <3>1. phase # "read"
        BY <2>1 DEF CollectGarbage
      <3> QED BY <2>1, <3>1, TallyOutside
    <2>2. CASE \/ TakeChunk(t) \/ LookAtRows(t) \/ Reserve(t) \/ Merge(t) \/ GrowTree(t)
               \/ add_row(t) \/ remove_row(t) \/ CheckWeight(t)
      BY <2>2, TallyOnTheWay
    <2>3. CASE MergeRows(t)
      BY <2>3, TallyAtRows
    <2>4. CASE UpdateWeight(t)
      BY <2>4, TallyAtUpdate
    <2>5. CASE FinishOp(t)
      BY <2>5, TallyAtFinish
    <2>6. CASE insert_rel_into_table(t)
      BY <2>6 DEF insert_rel_into_table, mergeVars, Tally
    <2> QED BY <1>1, <2>1, <2>2, <2>3, <2>4, <2>5, <2>6 DEF Step
  <1>2. ASSUME Sequential PROVE Tally'
    <2>1. CASE Recompress
      BY <2>1, TallyAtRecompress
    <2>2. CASE compute_weights
      BY <2>2, TallyAtFirst
    <2>3. CASE \/ StartPass \/ GarbageCollected \/ Prepare \/ ApplyFirst
               \/ CostBelowZero \/ TestEnd
      <3>1. phase # "read"
        BY <2>3 DEF StartPass, GarbageCollected, Prepare, ApplyFirst, CostBelowZero, TestEnd,
                    ParallelSectionOver
      <3> QED BY <2>3, <3>1, TallyOutside
    <2>4. CASE EndPass
      BY <2>4, TallyAtEnd
    <2> QED BY <1>2, <2>1, <2>2, <2>3, <2>4 DEF Sequential
  <1>3. CASE UNCHANGED vars
    <2>1. CASE phase = "read"
      BY <1>3, <2>1 DEF Tally, vars, mergeVars
    <2>2. CASE phase # "read"
      BY <1>3, <2>2, TallyOutside
    <2> QED BY <2>1, <2>2
  <1> QED BY <1>1, <1>2, <1>3 DEF Next, Done

(* Between passes all that is counted is done.                                 *)
LEMMA TallyGivesRoom ==
  ASSUME Inv, Weights, Tally
  PROVE  RoomForWeights
  <1> SUFFICES ASSUME Quiet
               PROVE  /\ num.rem_nrows = Cardinality(Live)
                      /\ Cardinality({j \in Columns : wt[j] > 0}) <= num.rem_ncols
    BY DEF RoomForWeights
  <1>1. phase # "read" /\ num.nmerges = 0 /\ \A u \in Threads : th[u].pc = "loop"
    BY NonePending DEF Inv, MainTypes, Quiet
  <1>2. Cardinality(Removing) = 0
    BY <1>1, NobodyRemoves
  <1>3. Remaining = {j \in Columns : wt[j] > 0}
    BY <1>1, LeftHaveWeight
  <1>4. /\ num.rem_nrows \in Int /\ num.rem_ncols \in Int
        /\ Cardinality(Live) + 0 = num.rem_nrows + 0
        /\ Cardinality(Remaining) + 0 <= num.rem_ncols + 0
    BY <1>1, <1>2 DEF Tally
  <1>5. Cardinality(Live) \in Nat /\ Cardinality(Remaining) \in Nat
    BY Countable
  <1> QED BY <1>3, <1>4, <1>5

(* The whole of what is kept of weights, rows and columns.                     *)
Merged == Inv /\ Weights /\ Merging /\ Tally

LEMMA InitMerged ==
  ASSUME Init
  PROVE  Merged
  <1>1. Merging /\ Tally
    BY DEF Init, Merging, Tally
  <1> QED BY <1>1, InitCounts DEF Merged

LEMMA StepMerged ==
  ASSUME Merged, NoRace, [Next]_vars
  PROVE  Merged'
  <1>1. Inv' /\ Weights'
    BY StepCounts DEF Merged
  <1>2. Merging'
    BY <1>1, MergingNext DEF Merged
  <1>3. Tally'
    BY <1>1, TallyNext DEF Merged
  <1> QED BY <1>1, <1>2, <1>3 DEF Merged

(* The last thing a merge does is to remove the one row that is left of its    *)
(* column.                                                                     *)
RemovesLast ==
  \A t \in Threads :
    th[t].pc \in {"merge", "weights"} /\ Op(t).from = None =>
      \E c \in Columns : wt[c] <= MERGE_LEVEL_MAX /\ RowsWith(c) = {Op(t).to}

LEMMA MergedRemovesLast ==
  ASSUME Merged
  PROVE  RemovesLast
  BY OnlyOneLeft DEF Merged, RemovesLast

(* For any matrices, threads and sizes of pages: a merge eliminates its column,*)
(* whichever tree its additions follow and whatever other threads merge        *)
(* meanwhile.  When it removes a row no other row has that column any more     *)
(* (filter/merge.c:1014, :1053, :1067).                                        *)
THEOREM MergesEliminate == Spec /\ []NoRace => []RemovesLast
  <1>1. Merged => RemovesLast
    BY MergedRemovesLast
  <1>2. Init => Merged
    BY InitMerged
  <1>3. Merged /\ NoRace /\ [Next]_vars => Merged'
    BY StepMerged
  <1> QED BY <1>1, <1>2, <1>3, PTL DEF Spec

(* The number of rows is what the main loop takes it for, and it never takes   *)
(* fewer columns to be left than there are: what recompress() takes as memory  *)
(* for their weights is enough (filter/merge.c:325, :1254, :1648).             *)
THEOREM RoomKept == Spec /\ []NoRace => []RoomForWeights
  <1>1. Merged => RoomForWeights
    BY TallyGivesRoom DEF Merged
  <1>2. Init => Merged
    BY InitMerged
  <1>3. Merged /\ NoRace /\ [Next]_vars => Merged'
    BY StepMerged
  <1> QED BY <1>1, <1>2, <1>3, PTL DEF Spec

-------------------------------------------------------------------------------
(* One thread.                                                                 *)

(* A thread that updates weights is the only one there is: a weight is as it   *)
(* was when the thread looked at it.                                           *)
LEMMA AloneNoRace ==
  ASSUME Inv, Inv', Weights, Weights', NoRace, [Next]_vars, Threads = {Main}
  PROVE  NoRace'
  <1> DEFINE t == Main
  <1> SUFFICES ASSUME th'[t].seen PROVE wt'[Head(th'[t].todo)] <= MERGE_LEVEL_MAX
    BY DEF NoRace
  <1>1. t \in Threads
    BY HeapAssumption
  <1>2. phase' = "apply"
    <2>1. phase' # "apply" => th'[t] = Resting
      BY <1>1 DEF Inv, MainTypes
    <2> QED BY <2>1 DEF Resting
  <1>3. th'[t].pc = "weights"
    BY <1>1, <1>2 DEF Weights, Weighing
  <1>4. DOMAIN th = Threads /\ DOMAIN th[t] = ThreadFields
    BY <1>1 DEF Inv, ThreadTypes, ThreadType
  <1>5. ASSUME UNCHANGED <<th, wt>> PROVE wt'[Head(th'[t].todo)] <= MERGE_LEVEL_MAX
    BY <1>1, <1>5 DEF NoRace
  <1>6. phase # "apply" => th[t] = Resting
    BY <1>1 DEF Inv, MainTypes
  <1>7. th[t].pc # "weights" => ~th[t].seen
    <2>1. CASE phase = "read"
      BY <1>6, <2>1 DEF Resting
    <2>2. CASE phase # "read"
      BY <1>1, <2>2 DEF Weights, Weighing
    <2> QED BY <2>1, <2>2
  <1> HIDE DEF t
  <1>8. ASSUME Step(t) PROVE wt'[Head(th'[t].todo)] <= MERGE_LEVEL_MAX
    <2>1. CASE CollectGarbage(t)
      BY <1>5, <2>1 DEF CollectGarbage, mergeVars
    <2>2. CASE TakeChunk(t) \/ LookAtRows(t) \/ Reserve(t) \/ Merge(t) \/ GrowTree(t) \/ MergeRows(t)
      <3>1. PICK s : th' = [th EXCEPT ![t] = s] /\ s.pc # "weights"
        BY <1>1, <2>2, OnTheWay
      <3> QED BY <1>1, <1>3, <1>4, <3>1
    <2>3. CASE add_row(t)
      <3>1. th[t].pc = "merge" /\ (UNCHANGED th \/ \E todo, sum :
              th' = [th EXCEPT ![t].pc = "weights", ![t].todo = todo, ![t].sum = sum])
        BY <2>3 DEF add_row
      <3>2. ASSUME NEW todo, NEW sum,
                   th' = [th EXCEPT ![t].pc = "weights", ![t].todo = todo, ![t].sum = sum]
            PROVE  th'[t].seen = th[t].seen
        <4> DEFINE s == [th[t] EXCEPT !.pc = "weights", !.todo = todo, !.sum = sum]
        <4>1. th'[t] = s
          BY <1>1, <1>4, <3>2
        <4>2. s.seen = th[t].seen
          BY <1>4 DEF ThreadFields
        <4> QED BY <4>1, <4>2
      <3>3. th'[t].seen = th[t].seen
        BY <3>1, <3>2
      <3> QED BY <1>7, <3>1, <3>3
    <2>4. CASE remove_row(t)
      <3>1. th[t].pc = "merge" /\ \E todo : th' = [th EXCEPT ![t].pc = "weights", ![t].todo = todo]
        BY <2>4 DEF remove_row
      <3>2. PICK todo : th' = [th EXCEPT ![t].pc = "weights", ![t].todo = todo]
        BY <3>1
      <3> DEFINE s == [th[t] EXCEPT !.pc = "weights", !.todo = todo]
      <3>3. th'[t] = s
        BY <1>1, <1>4, <3>2
      <3>4. s.seen = th[t].seen
        BY <1>4 DEF ThreadFields
      <3> QED BY <1>7, <3>1, <3>3, <3>4
    <2>5. CASE CheckWeight(t)
      <3> DEFINE j == Head(th[t].todo)
      <3>1. /\ th' = [th EXCEPT ![t].seen = wt[j] <= MERGE_LEVEL_MAX,
                                ![t].todo = IF wt[Head(@)] <= MERGE_LEVEL_MAX THEN @ ELSE Tail(@)]
            /\ UNCHANGED wt
        BY <2>5 DEF CheckWeight
      <3>2. wt[j] <= MERGE_LEVEL_MAX
        BY <1>1, <1>4, <3>1 DEF ThreadFields
      <3>3. th'[t].todo = th[t].todo
        BY <1>1, <1>4, <3>1, <3>2 DEF ThreadFields
      <3> QED BY <3>1, <3>2, <3>3
    <2>6. CASE UpdateWeight(t)
      <3>1. \E todo : th' = [th EXCEPT ![t].seen = FALSE, ![t].todo = todo]
        BY <2>6 DEF UpdateWeight
      <3> QED BY <1>1, <1>4, <3>1 DEF ThreadFields
    <2>7. CASE FinishOp(t)
      <3> DEFINE pc == IF Len(th[t].ops) > 1 THEN "merge" ELSE "loop"
      <3>1. pc # "weights" /\ \E ops : th' = [th EXCEPT ![t].pc = pc, ![t].ops = ops, ![t].sum = {}]
        BY <2>7 DEF FinishOp
      <3> HIDE DEF pc
      <3>2. th'[t].pc = pc
        BY <1>1, <1>4, <3>1 DEF ThreadFields
      <3> QED BY <1>3, <3>1, <3>2
    <2>8. CASE insert_rel_into_table(t)
      BY <1>5, <2>8 DEF insert_rel_into_table, mergeVars
    <2> QED BY <1>8, <2>1, <2>2, <2>3, <2>4, <2>5, <2>6, <2>7, <2>8 DEF Step
  <1>9. ASSUME Sequential PROVE wt'[Head(th'[t].todo)] <= MERGE_LEVEL_MAX
    <2>2. CASE \/ compute_weights \/ StartPass \/ GarbageCollected \/ EndPass
               \/ CostBelowZero \/ Recompress \/ TestEnd
      <3>1. phase' # "apply"
        BY <2>2 DEF compute_weights, StartPass, GarbageCollected, EndPass, CostBelowZero,
                    Recompress, TestEnd
      <3> QED BY <1>2, <3>1
    <2>3. CASE Prepare
      BY <1>5, <2>3 DEF Prepare
    <2>4. CASE ApplyFirst
      <3>1. PICK o : th' = [th EXCEPT ![t] = [th[t] EXCEPT !.pc = "tree", !.tree = Seedling(o)]]
        BY <2>4 DEF ApplyFirst, merge_do, t
      <3>2. th'[t].pc = "tree"
        BY <1>1, <1>4, <3>1 DEF ThreadFields
      <3> QED BY <1>3, <3>2
    <2> QED BY <1>9, <2>2, <2>3, <2>4 DEF Sequential
  <1>10. CASE UNCHANGED vars
    BY <1>5, <1>10 DEF vars, mergeVars
  <1>11. \A u \in Threads : u = t
    BY DEF t
  <1> QED BY <1>8, <1>9, <1>10, <1>11 DEF Next, Done, t

(* For any matrix a program that runs with one thread keeps exact weights:     *)
(* what may make them wrong is only that threads interleave; and the pages and *)
(* the rows are kept, and there is room for the weights (filter/merge.c:325,   *)
(* :685, :701; filter/merge_heap.c:280).                                       *)
THEOREM WeightsOfOneThread ==
  Threads = {Main} => (Spec => []WeightsExact /\ []HeapSound /\ []RoomForWeights)
  <1> SUFFICES ASSUME Threads = {Main}
               PROVE  Spec => []WeightsExact /\ []HeapSound /\ []RoomForWeights
    OBVIOUS
  <1>1. Init => Merged /\ NoRace
    <2>1. Init => NoRace
      BY DEF Init, NoRace, Resting
    <2> QED BY <2>1, InitMerged
  <1>2. (Merged /\ NoRace) /\ [Next]_vars => (Merged /\ NoRace)'
    <2> SUFFICES ASSUME Merged, NoRace, [Next]_vars PROVE Merged' /\ NoRace'
      OBVIOUS
    <2>1. Merged'
      BY StepMerged
    <2>2. NoRace'
      BY <2>1, AloneNoRace DEF Merged
    <2> QED BY <2>1, <2>2
  <1>3. Merged => WeightsExact /\ RoomForWeights
    BY WeightsAreExact, TallyGivesRoom DEF Merged
  <1> QED BY <1>1, <1>2, <1>3, HeapKept, PTL DEF Spec

-------------------------------------------------------------------------------
(* Matrices of few rows.                                                       *)

(* Threads that count a row early are each about a row without the column.     *)
LEMMA EarlyLackRows ==
  ASSUME Inv, NEW j, NEW S \in SUBSET Threads,
         \A u \in S : th[u].pc = "weights" /\ Increases(u, j)
  PROVE  TrueWeight(j) + Cardinality(S) <= Len(purged)
  <1>1. HeapTypes /\ ThreadTypes /\ Ownership /\ purged \in Matrices
    BY DEF Inv, MainTypes
  <1> DEFINE f == [u \in S |-> Op(u).to]  W == RowsWith(j)  rest == RowNumbers \ W
  <1>2. ASSUME NEW u \in S
        PROVE  Op(u).to \in RowNumbers /\ Owns(u, Op(u).to) /\ j \notin Row(Op(u).to)
    <2>1. u \in Threads /\ th[u].pc \in {"merge", "weights"}
      OBVIOUS
    <2>2. Op(u).to \in RowNumbers /\ Owns(u, Op(u).to)
      BY <1>1, <2>1, OpRows
    <2>3. j \notin Row(Op(u).to)
      BY DEF Increases
    <2> QED BY <2>2, <2>3
  <1>3. f \in [S -> rest]
    <2>1. \A u \in S : Op(u).to \in rest
      BY <1>2 DEF RowsWith
    <2> QED BY <2>1
  <1>4. ASSUME NEW u \in S, NEW v \in S, f[u] = f[v] PROVE u = v
    <2>1. Op(u).to = Op(v).to
      BY <1>4
    <2> QED BY <1>1, <1>2, <2>1 DEF Ownership
  <1>5. IsFiniteSet(RowNumbers) /\ Cardinality(RowNumbers) = Len(purged) /\ Len(purged) \in Nat
    <2>1. RowNumbers = 1 .. Len(purged) /\ Len(purged) \in Nat
      BY <1>1, MatrixRows
    <2>2. ASSUME NEW n \in Nat PROVE IsFiniteSet(1 .. n) /\ Cardinality(1 .. n) = n
      <3>1. IsFiniteSet(1 .. n) /\ Cardinality(1 .. n) = IF 1 > n THEN 0 ELSE n - 1 + 1
        BY FS_Interval
      <3> QED BY <3>1
    <2> QED BY <2>1, <2>2
  <1>6. W \subseteq RowNumbers /\ Cardinality(W) \in Nat
    BY <1>1, RowsCountable DEF TrueWeight
  <1>7. IsFiniteSet(rest) /\ Cardinality(rest) = Len(purged) - Cardinality(W)
    <2> HIDE DEF W
    <2>1. RowNumbers \intersect W = W
      BY <1>6
    <2>2. IsFiniteSet(rest) /\ Cardinality(rest) = Cardinality(RowNumbers) - Cardinality(RowNumbers \intersect W)
      BY <1>5, FS_Difference
    <2> QED BY <1>5, <2>1, <2>2
  <1> HIDE DEF f, W, rest
  <1>8. f \in Injection(S, rest)
    BY <1>3, <1>4 DEF Injection, IsInjective
  <1>9. Cardinality(S) <= Cardinality(rest)
    BY <1>7, <1>8, FS_Injection
  <1>10. Cardinality(S) \in Nat
    BY HeapAssumption, FS_Subset, FS_CardinalityType
  <1>11. TrueWeight(j) = Cardinality(W)
    BY DEF W, TrueWeight
  <1> QED BY <1>5, <1>6, <1>7, <1>9, <1>10, <1>11

(* A weight goes up by one: no thread has counted more rows than there are.    *)
LEMMA LightAtUpdate ==
  ASSUME Inv, Weights, NEW t \in Threads, th[t].pc = "weights", phase # "read",
         NEW j \in Columns, wt[j] <= MERGE_LEVEL_MAX, Increases(t, j), ~Weighed(t, j)
  PROVE  wt[j] + 1 <= Len(purged)
  <1> DEFINE E == Cardinality(Early(j))  Z == Cardinality(Late(j))  T == TrueWeight(j)
             S == Early(j) \union {t}  n == Len(purged)  w == wt[j]
  <1>1. w \in Nat /\ T \in Nat /\ w + Z = T + E
    BY LightBalance
  <1>2. E \in Nat /\ Z \in Nat /\ IsFiniteSet(Early(j))
    BY ThreadsCountable
  <1>3. S \in SUBSET Threads /\ t \notin Early(j)
    BY DEF Early
  <1>4. \A u \in S : th[u].pc = "weights" /\ Increases(u, j)
    BY DEF Early, Weighed
  <1>5. Cardinality(S) = E + 1
    BY <1>2, <1>3, FS_AddElement
  <1>6. n \in Nat
    BY MatrixRows DEF Inv, MainTypes
  <1> HIDE DEF S
  <1>7. T + Cardinality(S) <= n
    BY <1>3, <1>4, EarlyLackRows
  <1> HIDE DEF E, Z, T, n, w
  <1>8. w + 1 <= n
    BY <1>1, <1>2, <1>5, <1>6, <1>7
  <1> QED BY <1>8 DEF w, n

(* No weight is too large to be kept.                                          *)
AllLight == \A j \in DOMAIN wt : wt[j] <= MERGE_LEVEL_MAX

LEMMA LightNoRace ==
  ASSUME Inv, Weights, AllLight
  PROVE  NoRace
  <1> SUFFICES ASSUME NEW t \in Threads, th[t].seen PROVE wt[Head(th[t].todo)] <= MERGE_LEVEL_MAX
    BY DEF NoRace
  <1>1. phase # "read"
    BY DEF Inv, MainTypes, Resting
  <1>2. th[t].pc = "weights" /\ Len(th[t].todo) >= 1 /\ th[t].todo \in Seq(Source(t))
    BY <1>1 DEF Weights, Weighing
  <1>3. Source(t) \subseteq Columns
    BY <1>2, SourceColumns
  <1>4. Head(th[t].todo) \in Columns
    BY <1>2, <1>3
  <1>5. DOMAIN wt = Columns
    BY <1>1 DEF Inv, MainTypes
  <1> QED BY <1>4, <1>5 DEF AllLight

LEMMA StaysLight ==
  ASSUME \A m \in Matrices : Len(m) <= MERGE_LEVEL_MAX,
         Inv, Weights, AllLight, [Next]_vars
  PROVE  AllLight'
  <1>1. NoRace /\ purged \in Matrices /\ Len(purged) \in Nat /\ MERGE_LEVEL_MAX \in Nat
    BY LightNoRace, MatrixRows, MergeAssumption DEF Inv, MainTypes
  <1>2. Len(purged) <= MERGE_LEVEL_MAX
    BY <1>1
  <1>3. ASSUME UNCHANGED wt PROVE AllLight'
    BY <1>3 DEF AllLight
  <1>4. CASE compute_weights
    <2>1. wt' = [j \in Columns |-> TrueWeight(j)]
      BY <1>4 DEF compute_weights
    <2>2. ASSUME NEW j \in Columns PROVE TrueWeight(j) <= Len(purged)
      <3>1. Cardinality({}) = 0 /\ {} \in SUBSET Threads
        BY FS_EmptySet
      <3>2. TrueWeight(j) + Cardinality({}) <= Len(purged)
        BY <3>1, EarlyLackRows
      <3>3. TrueWeight(j) \in Nat
        BY RowsCountable DEF Inv, MainTypes
      <3> QED BY <3>1, <3>2, <3>3
    <2>3. \A j \in Columns : TrueWeight(j) \in Nat
      BY RowsCountable DEF Inv, MainTypes
    <2>4. \A j \in Columns : TrueWeight(j) <= MERGE_LEVEL_MAX
      BY <1>1, <1>2, <2>2, <2>3
    <2> QED BY <2>1, <2>4 DEF AllLight
  <1>5. ASSUME NEW t \in Threads, UpdateWeight(t) PROVE AllLight'
    <2> SUFFICES ASSUME NEW j, j = Head(th[t].todo) PROVE AllLight'
      OBVIOUS
    <2>1. /\ phase # "read" /\ Counted(t, j) /\ wt[j] <= MERGE_LEVEL_MAX /\ wt \in [Columns -> Nat]
          /\ wt'[j] = IF Increases(t, j) THEN wt[j] + 1 ELSE wt[j] - 1
          /\ \A x \in Columns : x # j => wt'[x] = wt[x]
      BY <1>1, <1>5, UpdatedWeight
    <2>2. j \in Columns /\ ~Weighed(t, j) /\ wt[j] \in Nat
      BY <2>1 DEF Counted
    <2>3. DOMAIN wt' = Columns /\ th[t].pc = "weights"
      BY <1>5, <2>1 DEF UpdateWeight
    <2>4. wt'[j] <= MERGE_LEVEL_MAX
      <3>1. CASE Increases(t, j)
        <4>1. wt[j] + 1 <= Len(purged)
          BY <2>1, <2>2, <2>3, <3>1, LightAtUpdate
        <4> QED BY <1>1, <1>2, <2>1, <2>2, <3>1, <4>1
      <3>2. CASE ~Increases(t, j)
        BY <1>1, <2>1, <2>2, <3>2
      <3> QED BY <3>1, <3>2
    <2> QED BY <2>1, <2>3, <2>4 DEF AllLight
  <1>6. ASSUME NEW t \in Threads, Step(t) PROVE AllLight'
    BY <1>3, <1>5, <1>6
       DEF Step, insert_rel_into_table, CollectGarbage, TakeChunk, LookAtRows, Reserve, Merge,
           GrowTree, MergeRows, add_row, remove_row, CheckWeight, FinishOp, mergeVars
  <1>7. CASE Sequential
    BY <1>3, <1>4, <1>7
       DEF Sequential, StartPass, GarbageCollected, Prepare, CostBelowZero, ApplyFirst, EndPass,
           Recompress, TestEnd, mergeVars
  <1>8. CASE UNCHANGED vars
    BY <1>3, <1>8 DEF vars, mergeVars
  <1> QED BY <1>6, <1>7, <1>8 DEF Next, Done

(* For any threads and sizes of pages: the weights of a matrix that has no more*)
(* rows than the largest weight that is kept are exact, however the threads    *)
(* interleave, and so are the pages and the rows kept and the columns counted. *)
(* The hypothesis is as weak as it can be: with one row more the run           *)
(* merge_weights finds a wrong weight (filter/merge.c:325, :685, :701;         *)
(* filter/merge_heap.c:280).                                                   *)
THEOREM WeightsOfFewRows ==
  (\A m \in Matrices : Len(m) <= MERGE_LEVEL_MAX)
    => (Spec => []WeightsExact /\ []HeapSound /\ []RoomForWeights)
  <1> SUFFICES ASSUME \A m \in Matrices : Len(m) <= MERGE_LEVEL_MAX
               PROVE  Spec => []WeightsExact /\ []HeapSound /\ []RoomForWeights
    OBVIOUS
  <1>1. Init => Merged /\ AllLight
    <2>1. Init => AllLight
      BY DEF Init, AllLight
    <2> QED BY <2>1, InitMerged
  <1>2. (Merged /\ AllLight) /\ [Next]_vars => (Merged /\ AllLight)'
    <2> SUFFICES ASSUME Merged, AllLight, [Next]_vars PROVE Merged' /\ AllLight'
      OBVIOUS
    <2>1. NoRace
      BY LightNoRace DEF Merged
    <2>2. AllLight'
      BY StaysLight DEF Merged
    <2> QED BY <2>1, <2>2, StepMerged
  <1>3. Merged => WeightsExact /\ RoomForWeights
    BY WeightsAreExact, TallyGivesRoom DEF Merged
  <1> QED BY <1>1, <1>2, <1>3, HeapKept, PTL DEF Spec
================================================================================
