----------------------------- MODULE MergePasses -----------------------------
(***************************************************************************)
(* merge (filter/merge.c, for factorization): a sparse matrix over GF(2)   *)
(* whose rows are relations and whose columns are ideals.  In each pass    *)
(* the threads look at columns of small weight, add one of the rows that   *)
(* contain such a column to the others and remove it.  Merges of a pass    *)
(* run in parallel if they have no row in common; what was done goes to    *)
(* the history file, from which replay builds the final matrix.            *)
(*                                                                         *)
(* Rows are sets of columns.  recompress() renumbers columns and keeps     *)
(* their order: here they keep their numbers and only are counted anew.    *)
(* compute_weights(), compute_R() and compute_merges() run in parallel as  *)
(* well, but their outcome does not depend on it except for the order of   *)
(* the rows of a column in R: they are one step.                           *)
(***************************************************************************)
EXTENDS MergeHeap

CONSTANTS
  Matrices,          \* purged files: sequences of sets of columns
  Readers,           \* of each matrix, the thread that reads each row
  MERGE_LEVEL_MAX,
  cbound_incr,
  target_density,
  WeightMod          \* 2^64: tot_weight is unsigned

ASSUME MergeAssumption ==
  /\ \A m \in Matrices : m \in Seq(SUBSET (Nat \ {0})) /\ IsFiniteSet(UNION Range(m))
  /\ MERGE_LEVEL_MAX \in 3 .. 254     \* 255 is kept for saturated weights
  /\ cbound_incr \in Nat \ {0} /\ target_density \in Nat /\ WeightMod \in Nat
ASSUME ReadersAssumption == \A m \in Matrices : Readers[m] \in [DOMAIN m -> Threads]

BIAS == 3

VARIABLES
  purged,    \* the matrix that was read
  phase,     \* read, pass, gc, prepare, apply, recompress, test, done; undefined
  num,       \* the counters of the main loop and of mat
  wt,        \* mat->wt
  R,         \* mat->Ri: the rows of each column that may be merged
  order,     \* and the order of those rows, which depends on the threads of
             \* compute_R(): it is chosen when it is first of interest
  L,         \* the columns to merge, by increasing cost
  next,      \* the first merge of L no thread has taken
  busy_rows,
  th,        \* what each thread does
  Buf,       \* the lines a thread wrote in this pass
  history    \* the history file

mergeVars == <<purged, phase, num, wt, R, order, L, next, busy_rows, th, Buf, history>>
vars == <<heapVars, mergeVars>>

Columns == UNION Range(purged)
Resting == [pc |-> "loop", it |-> 1, last |-> 0, k |-> 1, tree |-> <<>>, ops |-> <<>>, todo |-> <<>>,
            seen |-> FALSE, sum |-> {}]

Init ==
  /\ purged \in Matrices
  /\ heap_setup(Len(purged))
  /\ phase = "read"
  /\ num = [rem_nrows |-> 0, rem_ncols |-> 0, ncols |-> 0, tot_weight |-> 0, cwmax |-> 2,
            cbound |-> BIAS, merge_pass |-> 0, nmerges |-> 0, fill_in |-> 0,
            last_nmerges |-> 0]
  /\ wt = <<>> /\ R = <<>> /\ order = <<>> /\ L = <<>> /\ next = 1 /\ busy_rows = {}
  /\ th = [t \in Threads |-> Resting]
  /\ Buf = [t \in Threads |-> <<>>] /\ history = <<>>

-------------------------------------------------------------------------------
(* Reading and preparing.                                                  *)

Live == {i \in DOMAIN rows : rows[i] # NULL}
RowsWith(j) == {i \in Live : j \in Row(i)}
TrueWeight(j) == Cardinality(RowsWith(j))

\* The rows a thread has still to read: all of them if filter_rels() reads the
\* file, which has no threads; a part of a file that can be read from anywhere,
\* as read_purgedfile_in_parallel() cuts it.  There a row gets its number when
\* all are read: nothing looks at it before.
Unread(t) == {i \in DOMAIN rows \ Live : Readers[purged][i] = t}

\* insert_rel_into_table() or one turn of read_local_rows().
insert_rel_into_table(t) ==
  /\ phase = "read" /\ Unread(t) # {}
  /\ LET i == Min(Unread(t))  size == Cardinality(purged[i]) IN
       \/ heap_release_page(t, size) \/ heap_get_free_page(t)
       \/ /\ CanAlloc(t, size)
          /\ pages' = WithRow(t, i, size, purged[i])
          /\ rows' = [rows EXCEPT ![i] = Allocated(t)]
          /\ UNCHANGED <<full_pages, empty_pages, active_page, heap_waste,
                         current_generation, collecting>>
  /\ UNCHANGED mergeVars

\* compute_weights() and the first recompress().
compute_weights ==
  /\ phase = "read" /\ Live = DOMAIN rows
  /\ wt' = [j \in Columns |-> TrueWeight(j)]
  /\ num' = [num EXCEPT !.rem_nrows = Len(purged), !.rem_ncols = Cardinality(Columns),
                        !.ncols = Cardinality(Columns),
                        !.tot_weight = MapThenSumSet(LAMBDA i : Cardinality(Row(i)), Live)]
  /\ phase' = "pass"
  /\ UNCHANGED <<heapVars, purged, R, order, L, next, busy_rows, th, Buf, history>>

Bound == IF num.cwmax > 2 THEN num.cbound + cbound_incr ELSE num.cbound

\* The head of the main loop.  Only passes 1 and 2 are told apart from others.
StartPass ==
  /\ phase = "pass"
  /\ LET pass == Min({num.merge_pass + 1, 3})
         gc   == pass = 2 \/ num.cwmax > 2
     IN /\ num' = [num EXCEPT !.merge_pass = pass, !.cbound = Bound]
        /\ phase' = IF gc THEN "gc" ELSE "prepare"
        /\ current_generation' = IF gc THEN current_generation + 1 ELSE current_generation
  /\ UNCHANGED <<pages, full_pages, empty_pages, active_page, heap_waste, rows, collecting,
                 purged, wt, R, order, L, next, busy_rows, th, Buf, history>>

CollectGarbage(t) == phase = "gc" /\ Collect(t) /\ UNCHANGED mergeVars

GarbageCollected ==
  /\ phase = "gc" /\ Collected
  /\ collecting' = [t \in Threads |-> Idle]
  /\ phase' = "prepare"
  /\ UNCHANGED <<pages, full_pages, empty_pages, active_page, heap_waste,
                 current_generation, rows, purged, num, wt, R, order, L, next, busy_rows, th,
                 Buf, history>>

\* The first column that had a weight <= w when weights were computed.
jmin(w) ==
  Min({j \in Columns : Cardinality({i \in DOMAIN purged : j \in purged[i]}) <= w}
        \union {Max(Columns) + 1})

Candidates == {j \in Columns : j >= jmin(num.cwmax) /\ 0 < wt[j] /\ wt[j] <= num.cwmax}

merge_cost(j) ==
  LET w    == TrueWeight(j)
      cmin == Min({Cardinality(Row(i)) : i \in RowsWith(j)})
  IN IF w = 1 THEN 0 ELSE (w - 1) * (cmin - 2) - cmin + BIAS

\* Columns in increasing order.
InSequence(columns) ==
  {s \in [1 .. Cardinality(columns) -> columns] : \A a, b \in DOMAIN s : a < b => s[a] < s[b]}

\* compute_R(); compute_merges() sorts by cost, and columns of equal cost in
\* increasing order.  It counts the columns of each cost in an array from 0 on.
Prepare ==
  LET cost  == [j \in Candidates |-> merge_cost(j)]
      Cheap == {j \in Candidates : cost[j] <= num.cbound}
      Before(i, j) == cost[i] < cost[j] \/ (cost[i] = cost[j] /\ i < j)
  IN
  /\ phase = "prepare" /\ \A j \in Candidates : cost[j] >= 0
  /\ R' = [j \in Candidates |-> RowsWith(j)]
  /\ \E l \in [1 .. Cardinality(Cheap) -> Cheap] :
       /\ \A a, b \in DOMAIN l : a < b => Before(l[a], l[b])
       /\ L' = l
  /\ phase' = "apply"
  /\ UNCHANGED <<heapVars, purged, num, wt, order, next, busy_rows, th, Buf, history>>

\* A cost below 0 is no place of that array: what compute_merges() overwrites,
\* and what the program does from then on, is not defined.
CostBelowZero ==
  /\ phase = "prepare" /\ \E j \in Candidates : merge_cost(j) < 0
  /\ phase' = "undefined"
  /\ UNCHANGED <<heapVars, purged, num, wt, R, order, L, next, busy_rows, th, Buf, history>>

-------------------------------------------------------------------------------
(* One merge.                                                              *)

SymmetricDifference(a, b) == (a \ b) \union (b \ a)

\* minimalSpanningTree() over the rows `ind` of a column: S and T are the code's,
\* with their order, edges and w what it has found.
Seedling(ind) == [ind |-> ind, S |-> <<1>>, T |-> [i \in 1 .. Len(ind) - 1 |-> i + 1],
                  edges |-> <<>>, w |-> 0]

\* merge_do() begins: it first looks for the tree, then goes on in the loop.
merge_do(t, ind, s) ==
  th' = [th EXCEPT ![t] = [s EXCEPT !.pc = "tree", !.tree = Seedling(ind)]]

\* One edge more: the lightest between S and T, the first of them if several.
GrowTree(t) ==
  LET tree == th[t].tree
      Edges == (DOMAIN tree.S) \X (DOMAIN tree.T)
      A(e) == Cardinality(SymmetricDifference(Row(tree.ind[tree.S[e[1]]]),
                                              Row(tree.ind[tree.T[e[2]]])))
      Before(e, f) == \/ A(e) < A(f)
                      \/ A(e) = A(f) /\ e[1] < f[1]
                      \/ A(e) = A(f) /\ e[1] = f[1] /\ e[2] <= f[2]
  IN
  /\ th[t].pc = "tree" /\ tree.T # <<>>
  /\ \E e \in Edges :
       /\ \A f \in Edges : Before(e, f)
       /\ th' = [th EXCEPT ![t].tree = [tree EXCEPT
            !.S = Append(tree.S, tree.T[e[2]]),
            !.T = Front([tree.T EXCEPT ![e[2]] = Last(tree.T)]),
            !.edges = Append(tree.edges, <<tree.S[e[1]], tree.T[e[2]]>>),
            !.w = tree.w + A(e)]]
  /\ UNCHANGED <<heapVars, purged, phase, num, wt, R, order, L, next, busy_rows, Buf, history>>

\* The additions: the last edge found is the first (addFatherToSons()).
Additions(tree) ==
  Reverse([i \in DOMAIN tree.edges |-> [from |-> tree.ind[tree.edges[i][1]],
                                        to |-> tree.ind[tree.edges[i][2]],
                                        destroy |-> i = 1]])

\* A line "i1 i2" of the history, or "i1" alone; "-i1-1 i2" keeps row i1.
Lines_by_edge(tree) ==
  IF Len(tree.ind) = 1 THEN <<[from |-> tree.ind[1], to |-> None, destroy |-> TRUE]>>
                       ELSE Reverse(Additions(tree))
Lines(tree) ==
  IF Len(tree.ind) = 1 THEN <<[from |-> tree.ind[1], to |-> None, destroy |-> TRUE]>>
                       ELSE Additions(tree)

\* The change of tot_weight; a row that is alone counts as 3.
FillIn(tree) ==
  IF Len(tree.ind) = 1 THEN -3
  ELSE tree.w - MapThenSumSet(LAMBDA i : Cardinality(Row(i)), ToSet(tree.ind))

MergeRows_removing_last(t) ==
  LET tree == th[t].tree  removal == [from |-> None, to |-> Last(tree.ind)] IN
  /\ th[t].pc = "tree" /\ tree.T = <<>>
  /\ th' = [th EXCEPT ![t].pc = "merge", ![t].tree = <<>>,
       ![t].ops = IF Len(tree.ind) = 1 THEN <<removal>>
                                       ELSE Append(Additions(tree), removal)]
  /\ Buf' = [Buf EXCEPT ![t] = @ \o Lines(tree)]
  /\ num' = [num EXCEPT !.nmerges = @ + 1, !.fill_in = @ + FillIn(tree)]
  /\ UNCHANGED <<heapVars, purged, phase, wt, R, order, L, next, busy_rows, history>>
\* The tree is complete: rows are added along it, and its root is removed.
MergeRows(t) ==
  LET tree == th[t].tree  removal == [from |-> None, to |-> tree.ind[1]] IN
  /\ th[t].pc = "tree" /\ tree.T = <<>>
  /\ th' = [th EXCEPT ![t].pc = "merge", ![t].tree = <<>>,
       ![t].ops = IF Len(tree.ind) = 1 THEN <<removal>>
                                       ELSE Append(Additions(tree), removal)]
  /\ Buf' = [Buf EXCEPT ![t] = @ \o Lines(tree)]
  /\ num' = [num EXCEPT !.nmerges = @ + 1, !.fill_in = @ + FillIn(tree)]
  /\ UNCHANGED <<heapVars, purged, phase, wt, R, order, L, next, busy_rows, history>>

Op(t) == Head(th[t].ops)

\* add_row(): room for both rows, and the weights to change, by column.
add_row(t) ==
  LET target == Row(Op(t).to)  source == Row(Op(t).from)
      size == Cardinality(target) + Cardinality(source) IN
  /\ phase = "apply" /\ th[t].pc = "merge" /\ Op(t).from # None
  /\ \/ /\ heap_release_page(t, size) \/ heap_get_free_page(t)
        /\ UNCHANGED th
     \/ /\ CanAlloc(t, size)
        /\ pages' = WithRow(t, Op(t).to, size, {})
        /\ \E todo \in InSequence(source) :
             th' = [th EXCEPT ![t].pc = "weights", ![t].todo = todo,
                              ![t].sum = SymmetricDifference(target, source)]
        /\ UNCHANGED <<full_pages, empty_pages, active_page, heap_waste,
                       current_generation, rows, collecting>>
  /\ UNCHANGED <<purged, phase, num, wt, R, order, L, next, busy_rows, Buf, history>>

\* remove_row(): the weights of its columns first.
remove_row(t) ==
  /\ phase = "apply" /\ th[t].pc = "merge" /\ Op(t).from = None
  /\ \E todo \in InSequence(Row(Op(t).to)) :
       th' = [th EXCEPT ![t].pc = "weights", ![t].todo = todo]
  /\ UNCHANGED <<heapVars, purged, phase, num, wt, R, order, L, next, busy_rows, Buf, history>>

\* Whether the weight of a column goes up: it is new in the row.
Increases_if_added(t, j) == Op(t).from # None
Increases(t, j) == Op(t).from # None /\ j \notin Row(Op(t).to)

\* decrease_weight(), increase_weight(): the weight is looked at ...
CheckWeight(t) ==
  /\ th[t].pc = "weights" /\ th[t].todo # <<>> /\ ~th[t].seen
  /\ th' = [th EXCEPT ![t].seen = wt[Head(th[t].todo)] <= MERGE_LEVEL_MAX,
                      ![t].todo = IF wt[Head(@)] <= MERGE_LEVEL_MAX THEN @ ELSE Tail(@)]
  /\ UNCHANGED <<heapVars, purged, phase, num, wt, R, order, L, next, busy_rows, Buf, history>>

\* ... and then updated, atomically: it may have changed in between.
UpdateWeight(t) ==
  /\ th[t].pc = "weights" /\ th[t].seen
  /\ LET j == Head(th[t].todo)
     IN wt' = [wt EXCEPT ![j] = (@ + (IF Increases(t, j) THEN 1 ELSE -1)) % 256]
  /\ th' = [th EXCEPT ![t].seen = FALSE, ![t].todo = Tail(@)]
  /\ UNCHANGED <<heapVars, purged, phase, num, R, order, L, next, busy_rows, Buf, history>>

\* The end of add_row() or of remove_row().
FinishOp(t) ==
  /\ th[t].pc = "weights" /\ th[t].todo = <<>>
  /\ IF Op(t).from # None THEN ReplaceRow(t, Op(t).to, th[t].sum) ELSE DestroyRow(t, Op(t).to)
  /\ th' = [th EXCEPT ![t].pc = IF Len(th[t].ops) > 1 THEN "merge" ELSE "loop",
                      ![t].ops = Tail(@), ![t].sum = {}]
  /\ UNCHANGED <<purged, phase, num, wt, R, order, L, next, busy_rows, Buf, history>>

-------------------------------------------------------------------------------
(* apply_merges().                                                         *)

Looping(t) == phase = "apply" /\ th[t].pc = "loop"

\* schedule(guided): a thread takes some of the next merges, in order.
TakeChunk(t) ==
  /\ Looping(t) /\ th[t].it > th[t].last
  /\ \E n \in 1 .. Len(L) - next + 1 :
       /\ th' = [th EXCEPT ![t].it = next, ![t].last = next + n - 1]
       /\ next' = next + n
  /\ UNCHANGED <<heapVars, purged, phase, num, wt, R, order, L, busy_rows, Buf, history>>

Column(t) == L[th[t].it]
Orders(j) == IF j \in DOMAIN order THEN {order[j]}
             ELSE {o \in [1 .. Cardinality(R[j]) -> R[j]] : ToSet(o) = R[j]}
NextMerge(s) == [s EXCEPT !.pc = "loop", !.it = @ + 1, !.k = 1]

\* The first look at busy_rows, which only ever grows: one step.
LookAtRows(t) ==
  /\ Looping(t) /\ th[t].it <= th[t].last
  /\ \/ /\ R[Column(t)] \intersect busy_rows # {}
        /\ th' = [th EXCEPT ![t] = NextMerge(@)] /\ UNCHANGED order
     \/ /\ R[Column(t)] \intersect busy_rows = {}
        /\ th' = [th EXCEPT ![t].pc = "reserve"]
        /\ \E o \in Orders(Column(t)) :
             order' = [j \in DOMAIN order \union {Column(t)} |->
                         IF j = Column(t) THEN o ELSE order[j]]
  /\ UNCHANGED <<heapVars, purged, phase, num, wt, R, L, next, busy_rows, Buf, history>>

\* Row k is reserved by an atomic exchange; those reserved before it stay so
\* when it was not free.
Reserve(t) ==
  LET row == order[Column(t)][th[t].k] IN
  /\ th[t].pc = "reserve" /\ th[t].k <= Cardinality(R[Column(t)])
  /\ busy_rows' = busy_rows \union {row}
  /\ th' = [th EXCEPT ![t] = IF row \in busy_rows THEN NextMerge(th[t])
                                                  ELSE [th[t] EXCEPT !.k = @ + 1]]
  /\ UNCHANGED <<heapVars, purged, phase, num, wt, R, order, L, next, Buf, history>>

\* All rows are reserved.
Merge(t) ==
  /\ th[t].pc = "reserve" /\ th[t].k > Cardinality(R[Column(t)])
  /\ merge_do(t, order[Column(t)], NextMerge(th[t]))
  /\ UNCHANGED <<heapVars, purged, phase, num, wt, R, order, L, next, busy_rows, Buf, history>>

ParallelSectionOver ==
  phase = "apply" /\ next > Len(L)
    /\ \A t \in Threads : th[t].pc = "loop" /\ th[t].it > th[t].last

\* The threads got in each other's way at every merge: the first is applied.
ApplyFirst ==
  /\ ParallelSectionOver /\ num.nmerges = 0 /\ L # <<>>
  /\ \E o \in Orders(L[1]) : merge_do(Main, o, th[Main])
  /\ UNCHANGED <<heapVars, purged, phase, num, wt, R, order, L, next, busy_rows, Buf, history>>

\* All 2-merges come first; from then on cwmax grows with every pass.
NextLevel_after_merges ==
  CASE num.cwmax = 2 -> IF num.nmerges = Len(L) /\ L # <<>> THEN 3 ELSE 2
    [] num.cwmax \in 3 .. MERGE_LEVEL_MAX - 1 -> num.cwmax + 1
    [] OTHER -> num.cwmax
NextLevel ==
  CASE num.cwmax = 2 -> IF num.nmerges = Len(L) THEN 3 ELSE 2
    [] num.cwmax \in 3 .. MERGE_LEVEL_MAX - 1 -> num.cwmax + 1
    [] OTHER -> num.cwmax

\* The rest of apply_merges(), the history file, and the next weight.
EndPass ==
  /\ ParallelSectionOver /\ (num.nmerges > 0 \/ L = <<>>)
  /\ num' = [num EXCEPT !.rem_nrows = @ - num.nmerges, !.rem_ncols = @ - num.nmerges,
                        !.tot_weight = (@ + num.fill_in) % WeightMod, !.cwmax = NextLevel,
                        !.last_nmerges = num.nmerges, !.nmerges = 0, !.fill_in = 0]
  /\ phase' = "recompress"
  /\ history' = history \o FoldLeft(LAMBDA all, t : all \o Buf[t], <<>>, SetToSeq(Threads))
  /\ Buf' = [t \in Threads |-> <<>>]
  /\ th' = [t \in Threads |-> Resting]
  /\ R' = <<>> /\ order' = <<>> /\ L' = <<>> /\ next' = 1 /\ busy_rows' = {}
  /\ UNCHANGED <<heapVars, purged, wt>>

\* recompress(), when a third of the columns is gone: it takes memory for
\* rem_ncols weights, and then counts the columns that have one.
Recompress ==
  LET left == Cardinality({j \in Columns : wt[j] > 0})
      due  == 100 * num.rem_ncols < 66 * num.ncols
  IN
  /\ phase = "recompress"
  /\ num' = IF due THEN [num EXCEPT !.rem_ncols = left, !.ncols = left] ELSE num
  /\ phase' = "test"
  /\ UNCHANGED <<heapVars, purged, wt, R, order, L, next, busy_rows, th, Buf, history>>

\* The tests at the end of the main loop: the density, and whether there was
\* nothing to merge though the bounds are as large as they get.
TestEnd ==
  LET dense == /\ num.rem_nrows > 0 \/ num.tot_weight > 0
               /\ num.tot_weight >= target_density * num.rem_nrows
      over  == /\ num.last_nmerges = 0 /\ num.cwmax = MERGE_LEVEL_MAX
               /\ num.cbound > num.cwmax * num.cwmax
  IN
  /\ phase = "test"
  /\ phase' = IF dense \/ over THEN "done" ELSE "pass"
  /\ UNCHANGED <<heapVars, purged, num, wt, R, order, L, next, busy_rows, th, Buf, history>>

Step(t) ==
  \/ insert_rel_into_table(t) \/ CollectGarbage(t) \/ TakeChunk(t) \/ LookAtRows(t) \/ Reserve(t) \/ Merge(t)
  \/ GrowTree(t) \/ MergeRows(t)
  \/ add_row(t) \/ remove_row(t) \/ CheckWeight(t) \/ UpdateWeight(t) \/ FinishOp(t)

Sequential ==
  \/ compute_weights \/ StartPass \/ GarbageCollected \/ Prepare \/ CostBelowZero
  \/ ApplyFirst \/ EndPass \/ Recompress \/ TestEnd

\* The program ends, or nothing can be said of it.
Done == phase \in {"done", "undefined"} /\ UNCHANGED vars

Next == Sequential \/ (\E t \in Threads : Step(t)) \/ Done

Spec == Init /\ [][Next]_vars

\* The program is not stopped for ever; nothing in it waits by polling, so that
\* it does not matter which of its threads run.
FairSpec == Spec /\ WF_vars(Next)

-------------------------------------------------------------------------------
\* Between two passes nobody works on the matrix.
Quiet == phase \in {"pass", "prepare", "recompress", "test", "done"}

\* doAllAdds() of replay (filter/replay.c:391): a line adds a row to another
\* and may remove the first.
Gone == {-1}
Replayed ==
  LET Added(matrix, line) ==
        IF line.to = None THEN matrix
        ELSE [matrix EXCEPT ![line.to] = SymmetricDifference(@, matrix[line.from])]
      Line(matrix, line) ==
        IF line.destroy THEN [Added(matrix, line) EXCEPT ![line.from] = Gone]
                        ELSE Added(matrix, line)
  IN FoldLeft(Line, purged, history)

\* The file has the lines of one thread after those of another, not in the order
\* of execution; carrying them out one after the other still gives the rows
\* that merge has in memory (filter/merge.c:118, :1207; filter/replay.c:391).
HistoryReplays ==
  Quiet => Replayed = [i \in DOMAIN rows |-> IF rows[i] = NULL THEN Gone ELSE Row(i)]

\* The weights the threads keep by atomic updates are those of the matrix, for
\* columns light enough to be of interest: compute_R() gives each column as
\* many places as its weight says (filter/merge.c:619, :650, :685).
WeightsExact ==
  Quiet => \A j \in Columns : wt[j] <= MERGE_LEVEL_MAX => wt[j] = TrueWeight(j)

\* rem_nrows is the number of rows, and no more columns are left than rem_ncols
\* says: each merge counted has removed a row and, for good, a column.  It holds
\* in particular when recompress() takes that much memory for the weights of the
\* columns, before it counts them (filter/merge.c:325, :1252).
RoomForWeights ==
  Quiet => /\ num.rem_nrows = Cardinality(Live)
           /\ Cardinality({j \in Columns : wt[j] > 0}) <= num.rem_ncols

\* The space that is wasted and the space that is used in each page are as the
\* program keeps count of them (filter/merge_heap.c:73, :138).
BooksKept == WasteExact /\ PtrExact

\* The main loop ends: in every pass with something to merge something is
\* merged, also if the threads block each other.  It leaves what is defined only
\* at a column of four rows or more one of which holds nothing else: no other has
\* a cost below 0 (filter/merge.c:947, :1119, :1240, :1707).
MergeEnds ==
  LET RowAlone(j) == TrueWeight(j) >= 4 /\ \E i \in RowsWith(j) : Row(i) = {j}
  IN <>(phase = "done" \/ (phase = "undefined" /\ \E j \in Candidates : RowAlone(j)))
===============================================================================
