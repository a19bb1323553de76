------------------------------ MODULE MergeHeap ------------------------------
(***************************************************************************)
(* The memory of the rows of merge (filter/merge_heap.c): each thread      *)
(* writes rows into its active page, pages that are full wait in a list,   *)
(* and between two passes all threads copy what is still in use out of the *)
(* old ones, which are then empty and used again.                          *)
(*                                                                         *)
(* A page is a sequence of rows one after the other, each with the number  *)
(* of its row (or Destroyed) and its size in front; what it holds is the   *)
(* set of its columns.  A pointer to a row is its page and place there.    *)
(* The critical sections of the lists are one step each.                   *)
(***************************************************************************)
EXTENDS Integers, Sequences, SequencesExt, FiniteSetsExt

CONSTANTS
  Threads,
  Main,             \* the thread that runs the sequential parts
  PAGE_DATA_SIZE

ASSUME HeapAssumption ==
  IsFiniteSet(Threads) /\ Main \in Threads /\ PAGE_DATA_SIZE \in Nat \ {0}

VARIABLES
  pages,               \* all pages ever allocated: generation, ptr, data
  full_pages,          \* following next from the dummy node
  empty_pages,
  active_page,         \* for each thread; None while it gets a new one
  heap_waste,
  current_generation,
  rows,                \* mat->rows
  collecting           \* for each thread: the page, the place in it, garbage

heapVars == <<pages, full_pages, empty_pages, active_page, heap_waste,
              current_generation, rows, collecting>>

None == 0
NULL == <<0, 0>>
Destroyed == -1
Idle == [page |-> None, at |-> 1, garbage |-> 0]
Through == [Idle EXCEPT !.at = 0]

Space(chunk) == chunk.size + 2

\* heap_setup(): every thread has a page, taken from the system.  `nrows` rows
\* are still to be read.
heap_setup(nrows) ==
  /\ pages = [i \in 1 .. Cardinality(Threads) |-> [generation |-> 0, ptr |-> 0, data |-> <<>>]]
  /\ full_pages = <<>> /\ empty_pages = <<>>
  /\ LET order == SetToSeq(Threads)
     IN active_page = [t \in Threads |-> CHOOSE i \in DOMAIN order : order[i] = t]
  /\ heap_waste = [t \in Threads |-> 0]
  /\ current_generation = 0
  /\ rows = [i \in 1 .. nrows |-> NULL]
  /\ collecting = [t \in Threads |-> Idle]

-------------------------------------------------------------------------------
(* Allocation.                                                             *)

NoRoom(t, size) == pages[active_page[t]].ptr + size + 2 >= PAGE_DATA_SIZE

\* Where heap_release_page() puts page p: in front of the last page that is
\* not of a later generation, and at the end if there is none.
Released(p) ==
  LET notLater == {i \in DOMAIN full_pages :
                     pages[full_pages[i]].generation <= pages[p].generation}
  IN IF notLater = {} THEN Append(full_pages, p)
                      ELSE InsertAt(full_pages, Max(notLater), p)

\* heap_malloc() finds no room: the active page goes to the full ones.
heap_release_page(t, size) ==
  /\ active_page[t] # None /\ NoRoom(t, size)
  /\ full_pages' = Released(active_page[t])
  /\ active_page' = [active_page EXCEPT ![t] = None]
  /\ UNCHANGED <<pages, empty_pages, heap_waste, current_generation, rows, collecting>>

\* An empty page, or else a new one, becomes the active page.
heap_get_free_page(t) ==
  LET fresh == [generation |-> current_generation, ptr |-> 0, data |-> <<>>] IN
  /\ active_page[t] = None
  /\ \/ /\ empty_pages # <<>>
        /\ active_page' = [active_page EXCEPT ![t] = Head(empty_pages)]
        /\ pages' = [pages EXCEPT ![Head(empty_pages)] = fresh]
        /\ empty_pages' = Tail(empty_pages)
     \/ /\ empty_pages = <<>>
        /\ active_page' = [active_page EXCEPT ![t] = Len(pages) + 1]
        /\ pages' = Append(pages, fresh)
        /\ UNCHANGED empty_pages
  /\ UNCHANGED <<full_pages, heap_waste, current_generation, rows, collecting>>

CanAlloc(t, size) == active_page[t] # None /\ ~NoRoom(t, size)

\* The pages once row i was written behind what the active page holds, and
\* the pointer to the row.
WithRow(t, i, size, cells) ==
  [pages EXCEPT ![active_page[t]].ptr = @ + size + 2,
                ![active_page[t]].data =
                  Append(@, [row |-> i, size |-> size, cells |-> cells])]
Allocated(t) == <<active_page[t], Len(pages[active_page[t]].data) + 1>>

RowAt(ptr) == pages[ptr[1]].data[ptr[2]]
Row(i) == RowAt(rows[i]).cells

\* `held` with the row at ptr marked as garbage.
DestroyedIn(held, ptr) == [held EXCEPT ![ptr[1]].data[ptr[2]].row = Destroyed]

\* heap_resize_last_row(), heap_destroy_row() of the old row i, and the new
\* one takes its place (the end of add_row()).
ReplaceRow(t, i, cells) ==
  LET p     == active_page[t]
      last  == Len(pages[p].data)
      chunk == [pages[p].data[last] EXCEPT !.size = Cardinality(cells), !.cells = cells]
      delta == pages[p].data[last].size - Cardinality(cells)
  IN
  /\ pages' = DestroyedIn([pages EXCEPT ![p].ptr = @ - delta, ![p].data[last] = chunk], rows[i])
  /\ heap_waste' = [heap_waste EXCEPT ![t] = @ + Space(RowAt(rows[i]))]
  /\ rows' = [rows EXCEPT ![i] = <<p, last>>]
  /\ UNCHANGED <<full_pages, empty_pages, active_page, current_generation, collecting>>

DestroyRow_keeping_pointer(t, i) ==
  /\ pages' = DestroyedIn(pages, rows[i])
  /\ heap_waste' = [heap_waste EXCEPT ![t] = @ + Space(RowAt(rows[i]))]
  /\ UNCHANGED <<full_pages, empty_pages, active_page, current_generation, rows, collecting>>

\* heap_destroy_row() of a row that is removed (the end of remove_row()).
DestroyRow(t, i) ==
  /\ pages' = DestroyedIn(pages, rows[i])
  /\ heap_waste' = [heap_waste EXCEPT ![t] = @ + Space(RowAt(rows[i]))]
  /\ rows' = [rows EXCEPT ![i] = NULL]
  /\ UNCHANGED <<full_pages, empty_pages, active_page, current_generation, collecting>>

-------------------------------------------------------------------------------
(* heap_garbage_collection(), in parallel.                                 *)

OldPage == full_pages # <<>> /\ pages[Head(full_pages)].generation < current_generation

heap_get_full_page(t) ==
  /\ collecting[t] = Idle /\ OldPage
  /\ collecting' = [collecting EXCEPT ![t].page = Head(full_pages)]
  /\ full_pages' = Tail(full_pages)
  /\ UNCHANGED <<pages, empty_pages, active_page, heap_waste, current_generation, rows>>

\* The rows of the page t collects that it has not looked at.
Left(t) == SubSeq(pages[collecting[t].page].data, collecting[t].at,
                  Len(pages[collecting[t].page].data))

SkipGarbage_without_header(t) ==
  /\ collecting[t].page # None /\ Left(t) # <<>> /\ Head(Left(t)).row = Destroyed
  /\ collecting' = [collecting EXCEPT ![t].at = @ + 1, ![t].garbage = @ + Head(Left(t)).size]
  /\ UNCHANGED <<pages, full_pages, empty_pages, active_page, heap_waste,
                 current_generation, rows>>
SkipGarbage(t) ==
  /\ collecting[t].page # None /\ Left(t) # <<>> /\ Head(Left(t)).row = Destroyed
  /\ collecting' = [collecting EXCEPT ![t].at = @ + 1, ![t].garbage = @ + Space(Head(Left(t)))]
  /\ UNCHANGED <<pages, full_pages, empty_pages, active_page, heap_waste,
                 current_generation, rows>>

\* A row that is in use moves to the active page of the thread.
MoveRow(t) ==
  /\ collecting[t].page # None /\ Left(t) # <<>> /\ Head(Left(t)).row # Destroyed
  /\ LET chunk == Head(Left(t)) IN
       \/ heap_release_page(t, chunk.size) \/ heap_get_free_page(t)
       \/ /\ CanAlloc(t, chunk.size)
          /\ pages' = WithRow(t, chunk.row, chunk.size, chunk.cells)
          /\ rows' = [rows EXCEPT ![chunk.row] = Allocated(t)]
          /\ collecting' = [collecting EXCEPT ![t].at = @ + 1]
          /\ UNCHANGED <<full_pages, empty_pages, active_page, heap_waste,
                         current_generation>>

\* The page is through: its garbage is no waste any more, and it is empty.
heap_clear_page(t) ==
  /\ collecting[t].page # None /\ Left(t) = <<>>
  /\ heap_waste' = [heap_waste EXCEPT ![t] = @ - collecting[t].garbage]
  /\ empty_pages' = <<collecting[t].page>> \o empty_pages
  /\ collecting' = [collecting EXCEPT ![t] = Idle]
  /\ UNCHANGED <<pages, full_pages, active_page, current_generation, rows>>

\* A thread that finds no old page at the front leaves the loop.
LeaveCollection(t) ==
  /\ collecting[t] = Idle /\ ~OldPage
  /\ collecting' = [collecting EXCEPT ![t] = Through]
  /\ UNCHANGED <<pages, full_pages, empty_pages, active_page, heap_waste,
                 current_generation, rows>>

Collect(t) ==
  \/ heap_get_full_page(t) \/ SkipGarbage(t) \/ MoveRow(t) \/ heap_clear_page(t)
  \/ LeaveCollection(t)

Collected == \A t \in Threads : collecting[t] = Through

-------------------------------------------------------------------------------
(* What the heap promises.                                                 *)

PagesInUse ==
  (DOMAIN pages \ ToSet(empty_pages)) \ {collecting[t].page : t \in Threads}

\* Every page is in one place: active for one thread, full, empty, or being
\* collected by one thread.  The lists are changed in critical sections, the
\* rest by the threads on their own (filter/merge_heap.c:73, :104, :123, :138).
PagesInOnePlace ==
  LET Places(p) == Cardinality({i \in DOMAIN full_pages : full_pages[i] = p})
                 + Cardinality({i \in DOMAIN empty_pages : empty_pages[i] = p})
                 + Cardinality({t \in Threads : active_page[t] = p})
                 + Cardinality({t \in Threads : collecting[t].page = p})
  IN \A p \in DOMAIN pages : Places(p) = 1

\* The pointer of a row leads to a row of that number that is in use, in a page
\* that is not empty; and what is in use in a page is what a pointer leads to,
\* but for the row a thread is about to finish (filter/merge_heap.c:280).
PointersGood ==
  /\ \A i \in DOMAIN rows : rows[i] # NULL =>
       /\ rows[i][1] \in DOMAIN pages \ ToSet(empty_pages)
       /\ RowAt(rows[i]).row = i
  /\ \A p \in PagesInUse : \A k \in DOMAIN pages[p].data :
       pages[p].data[k].row = Destroyed \/ rows[pages[p].data[k].row] = <<p, k>>
         \/ \E t \in Threads : active_page[t] = p /\ k = Len(pages[p].data)

\* "space wasted, per-thread. Can be negative! The sum over all threads is
\* correct." (filter/merge_heap.c:64)
WasteExact ==
  LET Held == DOMAIN pages \ ToSet(empty_pages)
      Garbage == {ptr \in Held \X (1 .. PAGE_DATA_SIZE) :
                    ptr[2] \in DOMAIN pages[ptr[1]].data /\ RowAt(ptr).row = Destroyed}
  IN MapThenSumSet(LAMBDA t : heap_waste[t], Threads)
       = MapThenSumSet(LAMBDA ptr : Space(RowAt(ptr)), Garbage)

\* ptr is where the rows of a page end (filter/merge_heap.c:227, :247).
PtrExact ==
  \A p \in DOMAIN pages :
    pages[p].ptr = MapThenSumSet(LAMBDA k : Space(pages[p].data[k]), DOMAIN pages[p].data)

HeapSound == PagesInOnePlace /\ PointersGood
===============================================================================
