---------------------------- MODULE ThreadPoolProofs ----------------------------
(* Proofs about ThreadPool, for every value of its constants.              *)
EXTENDS ThreadPool, FiniteSetTheorems, SequenceTheorems, TLAPS

Results == [id : 1 .. MaxTasks, null : BOOLEAN]
Ops     == {"drain", "get", "kill", "join"}
Wpcs    == {"get", "asleep", "woken", "run", "thrown", "ended"}
Busy    == {"run", "thrown"}

(* Queue 0 exists. *)
LEMMA Queue0 == PreferredQueue \in Queues /\ 0 \in Queues /\ Queues \subseteq Nat
  BY PoolAssumption DEF PoolAssumption, Queues, PreferredQueue

(* A sequence holds elements of its set. *)
LEMMA ToSetOfSeq == ASSUME NEW S, NEW s \in Seq(S) PROVE ToSet(s) \subseteq S
  BY DEF ToSet

(* What the pool stores; the tasks of a queue know their queue, and every  *)
(* task has an id that was given out.                                      *)
TypeInv ==
  /\ tasks \in [Queues -> SUBSET Tasks]
  /\ \A q \in Queues : /\ IsFiniteSet(tasks[q])
                       /\ \A t \in tasks[q] : t.queue = q /\ t.id <= added
  /\ results \in [Queues -> Seq(Results)]
  /\ exceptions \in [Queues -> Seq(1 .. MaxTasks)]
  /\ created \in [Queues -> Nat] /\ joined \in [Queues -> Nat]
  /\ added \in 0 .. MaxTasks
  /\ \A q \in Queues : created[q] <= added
  /\ kill_threads \in BOOLEAN
  /\ wpc \in [Workers -> Wpcs]
  /\ wtask \in [Workers -> Tasks \union {NoTask}]
  /\ \A w \in Workers : wpc[w] \in Busy => wtask[w] \in Tasks
  /\ todo \in Seq(Ops \X Queues)
  /\ owner \in {"awake", "asleep", "gone", "aborted"}
  /\ snapshot \in Int

(* drain_queue() waits only while its count cr is not reached. *)
DrainInv ==
  /\ owner = "asleep" => todo # <<>>
  /\ snapshot # -1 =>
       /\ todo # <<>> /\ Head(todo)[1] = "drain"
       /\ joined[Head(todo)[2]] <= snapshot
       /\ snapshot <= created[Head(todo)[2]]

(* A new pool is empty. *)
LEMMA TypeInit == Init => TypeInv /\ DrainInv /\ EveryTaskAccountedFor
  <1> SUFFICES ASSUME Init PROVE TypeInv /\ DrainInv /\ EveryTaskAccountedFor
    OBVIOUS
  <1>1. TypeInv
    <2>1. /\ tasks \in [Queues -> SUBSET Tasks]
          /\ \A q \in Queues : /\ IsFiniteSet(tasks[q])
                               /\ \A t \in tasks[q] : t.queue = q /\ t.id <= added
      BY FS_EmptySet DEF Init
    <2>2. /\ results \in [Queues -> Seq(Results)]
          /\ exceptions \in [Queues -> Seq(1 .. MaxTasks)]
          /\ todo \in Seq(Ops \X Queues)
      BY DEF Init
    <2>3. /\ created \in [Queues -> Nat] /\ joined \in [Queues -> Nat]
          /\ added \in 0 .. MaxTasks /\ \A q \in Queues : created[q] <= added
      BY PoolAssumption DEF Init, PoolAssumption
    <2>4. /\ wpc \in [Workers -> Wpcs]
          /\ wtask \in [Workers -> Tasks \union {NoTask}]
          /\ \A w \in Workers : wpc[w] \notin Busy
      BY DEF Init, Wpcs, Busy
    <2>5. /\ kill_threads \in BOOLEAN
          /\ owner \in {"awake", "asleep", "gone", "aborted"}
      BY DEF Init
    <2>6. snapshot \in Int
      BY DEF Init
    <2> QED BY <2>1, <2>2, <2>3, <2>4, <2>5, <2>6 DEF TypeInv
  <1>2. DrainInv
    BY DEF Init, DrainInv
  <1>3. ASSUME NEW q \in Queues
        PROVE  created[q] = Cardinality(tasks[q]) + Cardinality(Holding(q))
                              + Len(results[q]) + joined[q]
    <2>1. tasks[q] = {} /\ Holding(q) = {}
      BY DEF Init, Holding
    <2> QED BY <2>1, FS_EmptySet DEF Init
  <1> QED BY <1>1, <1>2, <1>3 DEF EveryTaskAccountedFor

(* The workers that hold a task of a queue are some of the workers. *)
LEMMA HoldingFinite ==
  ASSUME NEW q
  PROVE  IsFiniteSet(Holding(q)) /\ Cardinality(Holding(q)) \in Nat
  <1>1. Holding(q) \in SUBSET Workers /\ IsFiniteSet(Workers)
    BY PoolAssumption DEF Holding, PoolAssumption
  <1> QED BY <1>1, FS_Subset, FS_CardinalityType

(* No more results of a queue are joined than tasks were created in it. *)
LEMMA JoinedBound ==
  ASSUME TypeInv, EveryTaskAccountedFor, NEW q \in Queues
  PROVE  /\ joined[q] + Len(results[q]) <= created[q]
         /\ joined[q] \in Nat /\ Len(results[q]) \in Nat /\ created[q] \in Nat
         /\ joined[q] + Len(results[q]) = created[q] =>
              tasks[q] = {} /\ Holding(q) = {}
  <1>1. /\ Cardinality(tasks[q]) \in Nat /\ Cardinality(Holding(q)) \in Nat
        /\ Len(results[q]) \in Nat /\ joined[q] \in Nat /\ created[q] \in Nat
        /\ IsFiniteSet(tasks[q]) /\ IsFiniteSet(Holding(q))
    BY HoldingFinite, FS_CardinalityType DEF TypeInv
  <1>2. created[q] = Cardinality(tasks[q]) + Cardinality(Holding(q))
                       + Len(results[q]) + joined[q]
    BY DEF EveryTaskAccountedFor
  <1>3. ASSUME joined[q] + Len(results[q]) = created[q]
        PROVE  Cardinality(tasks[q]) = 0 /\ Cardinality(Holding(q)) = 0
    BY <1>1, <1>2, <1>3
  <1> QED BY <1>1, <1>2, <1>3, FS_EmptySet

(* The number of results drain_queue() joins without waiting. *)
LEMMA MinOfTwo ==
  ASSUME NEW a \in Int, NEW b \in Int
  PROVE  /\ Min({a, b}) \in {a, b} /\ Min({a, b}) <= a /\ Min({a, b}) <= b
  <1>1. \E x \in {a, b} : \A y \in {a, b} : x <= y
    OBVIOUS
  <1> QED BY <1>1 DEF Min

(* Joining k results leaves the others, and loses none. *)
LEMMA JoinEffect ==
  ASSUME TypeInv, NEW q \in Queues, NEW k \in 0 .. Len(results[q]), Join(q, k)
  PROVE  /\ results' \in [Queues -> Seq(Results)] /\ joined' \in [Queues -> Nat]
         /\ Len(results'[q]) = Len(results[q]) - k /\ joined'[q] = joined[q] + k
         /\ \A p \in Queues : p # q => results'[p] = results[p] /\ joined'[p] = joined[p]
         /\ ToSet(results'[q]) \subseteq ToSet(results[q])
         /\ taken' \subseteq taken \union ToSet(results[q])
         /\ fetched' = fetched
  <1>1. results[q] \in Seq(Results) /\ Len(results[q]) \in Nat /\ joined[q] \in Nat
    BY DEF TypeInv
  <1> DEFINE rest == SubSeq(results[q], k + 1, Len(results[q]))
             first == SubSeq(results[q], 1, k)
  <1>2. /\ rest \in Seq(Results) /\ Len(rest) = Len(results[q]) - k
        /\ \A i \in 1 .. Len(rest) : rest[i] = results[q][k + i]
    BY <1>1
  <1>3. ToSet(rest) \subseteq ToSet(results[q])
    BY <1>1, <1>2 DEF ToSet
  <1>4. ToSet(first) \subseteq ToSet(results[q])
    <2>1. Len(first) = k /\ \A i \in 1 .. k : first[i] = results[q][i]
      BY <1>1
    <2> QED BY <1>1, <2>1 DEF ToSet
  <1>5. results' = [results EXCEPT ![q] = rest] /\ joined' = [joined EXCEPT ![q] = @ + k]
        /\ taken' = taken \union ToSet(first) /\ fetched' = fetched
    BY DEF Join
  <1> HIDE DEF rest, first
  <1> QED BY <1>1, <1>2, <1>3, <1>4, <1>5 DEF TypeInv

-------------------------------------------------------------------------------
(* The types are kept.                                                     *)

(* The destructor's steps are calls the owner makes on queues. *)
LEMMA DestructorType == Destructor \in Seq(Ops \X Queues)
  <1>1. drain_all_queues \in Seq(Ops \X Queues)
    BY PoolAssumption DEF drain_all_queues, Ops, Queues, PoolAssumption
  <1>2. << <<"kill", 0>> >> \in Seq(Ops \X Queues) /\ << <<"join", 0>> >> \in Seq(Ops \X Queues)
    BY Queue0 DEF Ops
  <1> QED BY <1>1, <1>2 DEF Destructor

(* Head and Tail of the owner's steps. *)
LEMMA TodoType ==
  ASSUME TypeInv, todo # <<>>
  PROVE  /\ Head(todo) \in Ops \X Queues /\ Head(todo)[2] \in Queues
         /\ Tail(todo) \in Seq(Ops \X Queues)
  BY DEF TypeInv

(* A signal wakes a sleeper, or nobody. *)
LEMMA SignalType ==
  ASSUME TypeInv, NEW q, Signal(q, wpc) \/ Notify(q)
  PROVE  \/ wpc' = wpc
         \/ \E w \in Workers : /\ wpc[w] = "asleep"
                               /\ wpc' = [wpc EXCEPT ![w] = "woken"]
  BY DEF Signal, Notify

(* add_task(), from the owner or from a task. *)
LEMMA AddTaskType ==
  ASSUME TypeInv, NEW q \in Queues, NEW c \in Costs, add_task(q, c)
  PROVE  TypeInv'
  <1> DEFINE t == [id |-> added + 1, cost |-> c, queue |-> q]
  <1>1. t \in Tasks /\ added' = added + 1 /\ added' \in 0 .. MaxTasks
    BY PoolAssumption DEF add_task, TypeInv, Tasks, PoolAssumption
  <1>2. tasks' = [tasks EXCEPT ![q] = @ \union {t}]
    BY DEF add_task
  <1>3. \A p \in Queues : tasks'[p] = IF p = q THEN tasks[p] \union {t} ELSE tasks[p]
    BY <1>2 DEF TypeInv
  <1>4. t.queue = q /\ t.id = added'
    BY <1>1
  <1> HIDE DEF t
  <1>5. \A p \in Queues : /\ IsFiniteSet(tasks'[p])
                          /\ \A u \in tasks'[p] : u.queue = p /\ u.id <= added'
    <2> SUFFICES ASSUME NEW p \in Queues
                 PROVE  /\ IsFiniteSet(tasks'[p])
                        /\ \A u \in tasks'[p] : u.queue = p /\ u.id <= added'
      OBVIOUS
    <2>0. IsFiniteSet(tasks[p])
      BY DEF TypeInv
    <2>1. ASSUME NEW u \in tasks[p] PROVE u.queue = p /\ u.id <= added'
      <3>1. u.id \in Nat /\ u.id <= added /\ u.queue = p /\ added \in Nat
        BY <2>1 DEF TypeInv, Tasks
      <3> QED BY <1>1, <3>1
    <2>2. CASE p = q
      <3>1. tasks'[p] = tasks[p] \union {t}
        BY <1>3, <2>2
      <3>2. IsFiniteSet(tasks'[p])
        BY <2>0, <3>1, FS_AddElement
      <3>3. t.queue = p /\ t.id <= added'
        BY <1>1, <1>4, <2>2
      <3> QED BY <2>1, <3>1, <3>2, <3>3
    <2>3. CASE p # q
      <3>1. tasks'[p] = tasks[p]
        BY <1>3, <2>3
      <3> QED BY <2>0, <2>1, <3>1
    <2> QED BY <2>2, <2>3
  <1>6. tasks' \in [Queues -> SUBSET Tasks]
    BY <1>1, <1>2 DEF TypeInv
  <1>7. /\ created' \in [Queues -> Nat]
        /\ \A p \in Queues : created'[p] <= added'
    BY <1>1 DEF add_task, TypeInv
  <1>8. wpc' \in [Workers -> Wpcs] /\ \A w \in Workers : wpc'[w] \in Busy => wpc[w] \in Busy
    BY SignalType DEF add_task, TypeInv, Wpcs, Busy
  <1> QED
    BY <1>1, <1>5, <1>6, <1>7, <1>8 DEF add_task, TypeInv, ovars

(* add_result(): the task leaves its worker and its result stays. *)
LEMMA AddResultType ==
  ASSUME TypeInv, NEW w \in Workers, wpc[w] \in Busy, NEW null \in BOOLEAN,
         add_result(w, null)
  PROVE  /\ TypeInv'
         /\ wtask[w] \in Tasks /\ wtask[w].queue \in Queues
         /\ results'[wtask[w].queue]
              = Append(results[wtask[w].queue], [id |-> wtask[w].id, null |-> null])
         /\ \A q \in Queues : q # wtask[w].queue => results'[q] = results[q]
  <1>1. wtask[w] \in Tasks /\ wtask[w].queue \in Queues /\ wtask[w].id \in 1 .. MaxTasks
    BY DEF TypeInv, Tasks
  <1> DEFINE r == [id |-> wtask[w].id, null |-> null]
             q == wtask[w].queue
  <1>2. results' = [results EXCEPT ![q] = Append(@, r)] /\ r \in Results
    BY <1>1 DEF add_result, Results
  <1>3. owner' \in {"awake", "asleep", "gone", "aborted"}
    BY DEF add_result, WakeOwner, TypeInv
  <1>4. /\ wpc' = [wpc EXCEPT ![w] = "get"]
        /\ wtask' = [wtask EXCEPT ![w] = NoTask]
    BY DEF add_result
  <1> HIDE DEF r, q
  <1>5. /\ results' \in [Queues -> Seq(Results)]
        /\ results'[q] = Append(results[q], r)
        /\ \A p \in Queues : p # q => results'[p] = results[p]
    BY <1>1, <1>2 DEF TypeInv, q
  <1>6. /\ wpc' \in [Workers -> Wpcs] /\ wtask' \in [Workers -> Tasks \union {NoTask}]
        /\ \A v \in Workers : wpc'[v] \in Busy => wtask'[v] \in Tasks
    BY <1>4 DEF TypeInv, Wpcs, Busy
  <1>7. TypeInv'
    BY <1>3, <1>5, <1>6 DEF add_result, TypeInv
  <1> QED BY <1>1, <1>5, <1>7 DEF r, q

(* get_task() in all its outcomes. *)
LEMMA GetTaskType ==
  ASSUME TypeInv, NEW w \in Workers, get_task(w)
  PROVE  /\ TypeInv'
         /\ wpc[w] \in {"get", "woken"} /\ wpc' = [wpc EXCEPT ![w] = wpc'[w]]
         /\ \/ tasks' = tasks /\ wtask' = wtask /\ wpc'[w] \in {"ended", "asleep"}
            \/ \E i \in Queues : \E t \in tasks[i] :
                 /\ t \in Tasks /\ t.queue = i
                 /\ wtask' = [wtask EXCEPT ![w] = t]
                 /\ tasks' = [tasks EXCEPT ![i] = @ \ {t}]
                 /\ wpc'[w] = "run"
  <1>1. wpc[w] \in {"get", "woken"} /\ wpc' = [wpc EXCEPT ![w] = wpc'[w]]
    BY DEF get_task, TypeInv
  <1>2. CASE tasks' = tasks /\ wtask' = wtask /\ wpc'[w] \in {"ended", "asleep"}
    <2>1. wpc' \in [Workers -> Wpcs] /\ \A v \in Workers : wpc'[v] \in Busy => wpc[v] \in Busy
      BY <1>1, <1>2 DEF TypeInv, Wpcs, Busy
    <2>2. TypeInv'
      BY <1>2, <2>1 DEF get_task, TypeInv, ovars
    <2> QED BY <1>1, <1>2, <2>2
  <1>3. CASE \E i \in Queues : \E t \in tasks[i] :
               /\ wtask' = [wtask EXCEPT ![w] = t]
               /\ tasks' = [tasks EXCEPT ![i] = @ \ {t}]
               /\ wpc'[w] = "run"
    <2>0. PICK i \in Queues : \E t \in tasks[i] :
               /\ wtask' = [wtask EXCEPT ![w] = t]
               /\ tasks' = [tasks EXCEPT ![i] = @ \ {t}]
               /\ wpc'[w] = "run"
      BY <1>3
    <2>1. PICK t \in tasks[i] :
               /\ wtask' = [wtask EXCEPT ![w] = t]
               /\ tasks' = [tasks EXCEPT ![i] = @ \ {t}]
               /\ wpc'[w] = "run"
      BY <2>0
    <2>2. t \in Tasks /\ t.queue = i
      BY DEF TypeInv
    <2>3. /\ wpc' \in [Workers -> Wpcs] /\ wtask' \in [Workers -> Tasks \union {NoTask}]
          /\ \A v \in Workers : wpc'[v] \in Busy => wtask'[v] \in Tasks
      BY <1>1, <2>1, <2>2 DEF TypeInv, Wpcs, Busy
    <2>4. /\ tasks' \in [Queues -> SUBSET Tasks]
          /\ \A p \in Queues : tasks'[p] \subseteq tasks[p]
      BY <2>1 DEF TypeInv
    <2>5. \A p \in Queues : IsFiniteSet(tasks'[p])
      BY <2>4, FS_Subset DEF TypeInv
    <2>6. TypeInv'
      BY <2>3, <2>4, <2>5 DEF get_task, TypeInv, ovars
    <2> QED BY <1>1, <2>1, <2>2, <2>6
  <1>4. \/ tasks' = tasks /\ wtask' = wtask /\ wpc'[w] \in {"ended", "asleep"}
        \/ \E i \in Queues : \E t \in tasks[i] :
               /\ wtask' = [wtask EXCEPT ![w] = t]
               /\ tasks' = [tasks EXCEPT ![i] = @ \ {t}]
               /\ wpc'[w] = "run"
    BY DEF get_task, TypeInv
  <1> QED BY <1>2, <1>3, <1>4

(* What a step of the owner in drain_queue() does: it joins k results and  *)
(* either returns or waits for more. *)
LEMMA DrainEffect ==
  ASSUME TypeInv, DrainInv, EveryTaskAccountedFor, drain_queue
  PROVE  /\ todo # <<>> /\ Head(todo)[1] = "drain" /\ Head(todo)[2] \in Queues
         /\ \E k \in 0 .. Len(results[Head(todo)[2]]) :
              /\ Join(Head(todo)[2], k)
              /\ \/ /\ todo' = Tail(todo) /\ snapshot' = -1 /\ owner' = owner
                    /\ \/ snapshot = -1 /\ joined[Head(todo)[2]] + k = created[Head(todo)[2]]
                       \/ snapshot # -1 /\ joined[Head(todo)[2]] + k = snapshot
                 \/ /\ todo' = todo /\ owner' = "asleep"
                    /\ joined[Head(todo)[2]] + k < snapshot'
                    /\ snapshot' <= created[Head(todo)[2]]
                    /\ IF snapshot = -1 THEN snapshot' = created[Head(todo)[2]]
                                        ELSE snapshot' = snapshot
                    /\ k = Len(results[Head(todo)[2]])
         /\ tasks' = tasks /\ exceptions' = exceptions /\ created' = created
         /\ added' = added /\ kill_threads' = kill_threads /\ wvars' = wvars
  <1> DEFINE q == Head(todo)[2]
             cr == IF snapshot = -1 THEN created[q] ELSE snapshot
             k == Min({Len(results[q]), cr - joined[q]})
  <1>1. todo # <<>> /\ Head(todo)[1] = "drain" /\ q \in Queues
    BY TodoType DEF drain_queue, Step
  <1>2. /\ Len(results[q]) \in Nat /\ joined[q] \in Nat /\ created[q] \in Nat
        /\ joined[q] <= created[q]
    BY <1>1, JoinedBound
  <1>3. cr \in Nat /\ joined[q] <= cr /\ cr <= created[q]
    <2>1. CASE snapshot = -1
      BY <1>2, <2>1
    <2>2. CASE snapshot # -1
      BY <1>2, <2>2 DEF DrainInv, TypeInv
    <2> QED BY <2>1, <2>2
  <1>4. /\ Join(q, k)
        /\ \/ /\ joined[q] + k >= cr
              /\ todo' = Tail(todo) /\ snapshot' = -1 /\ UNCHANGED owner
           \/ /\ joined[q] + k < cr
              /\ owner' = "asleep" /\ snapshot' = cr /\ UNCHANGED todo
    BY DEF drain_queue
  <1>5. tasks' = tasks /\ exceptions' = exceptions /\ created' = created
        /\ added' = added /\ kill_threads' = kill_threads /\ wvars' = wvars
    BY DEF drain_queue
  <1>6. cr = IF snapshot = -1 THEN created[q] ELSE snapshot
    OBVIOUS
  <1> HIDE DEF cr
  <1>7. k \in {Len(results[q]), cr - joined[q]} /\ k <= Len(results[q]) /\ k <= cr - joined[q]
    <2> DEFINE a == Len(results[q])
               b == cr - joined[q]
    <2>1. a \in Int /\ b \in Int
      BY <1>2, <1>3
    <2>2. k = Min({a, b})
      OBVIOUS
    <2> HIDE DEF a, b, k
    <2>3. k \in {a, b} /\ k <= a /\ k <= b
      BY <2>1, <2>2, MinOfTwo
    <2> QED BY <2>3 DEF a, b
  <1> HIDE DEF k
  <1>8. k \in 0 .. Len(results[q]) /\ joined[q] + k <= cr
    BY <1>2, <1>3, <1>7
  <1>9. CASE joined[q] + k >= cr
    <2>1. joined[q] + k = cr
      BY <1>2, <1>3, <1>8, <1>9
    <2>2. todo' = Tail(todo) /\ snapshot' = -1 /\ owner' = owner
      BY <1>2, <1>3, <1>4, <1>8, <1>9
    <2> HIDE DEF q
    <2> QED BY <1>1, <1>4, <1>5, <1>6, <1>8, <2>1, <2>2 DEF q
  <1>10. CASE ~(joined[q] + k >= cr)
    <2>1. joined[q] + k < cr /\ k = Len(results[q])
      BY <1>2, <1>3, <1>7, <1>8, <1>10
    <2>2. todo' = todo /\ snapshot' = cr /\ owner' = "asleep"
      BY <1>4, <1>10
    <2> HIDE DEF q
    <2> QED BY <1>1, <1>3, <1>4, <1>5, <1>6, <1>8, <2>1, <2>2 DEF q
  <1> QED BY <1>9, <1>10

PoolInv == TypeInv /\ DrainInv /\ EveryTaskAccountedFor

(* Any step keeps the types and what drain_queue() waits for. *)
LEMMA TypeStep ==
  ASSUME PoolInv, [Next]_vars
  PROVE  TypeInv' /\ DrainInv'
  <1> USE DEF PoolInv
  <1>1. ASSUME NEW q \in Queues, NEW c \in Costs, add_task(q, c)
        PROVE  TypeInv' /\ DrainInv'
    <2>1. TypeInv'
      BY <1>1, AddTaskType
    <2>2. /\ todo' = todo /\ owner' = owner /\ snapshot' = snapshot
          /\ joined' = joined /\ created' = [created EXCEPT ![q] = @ + 1]
      BY <1>1 DEF add_task, ovars
    <2>3. \A p \in Queues : created[p] \in Nat /\ created'[p] \in Nat /\ created[p] <= created'[p]
      BY <2>2 DEF TypeInv
    <2>4. DrainInv'
      <3>1. CASE snapshot = -1
        BY <2>2, <3>1 DEF DrainInv
      <3>2. CASE snapshot # -1
        <4>1. /\ todo # <<>> /\ Head(todo)[1] = "drain"
              /\ joined[Head(todo)[2]] <= snapshot /\ snapshot <= created[Head(todo)[2]]
              /\ Head(todo)[2] \in Queues
          BY <3>2, TodoType DEF DrainInv
        <4>2. snapshot <= created'[Head(todo)[2]]
          BY <2>3, <4>1 DEF TypeInv
        <4> QED BY <2>2, <4>1, <4>2 DEF DrainInv
      <3> QED BY <3>1, <3>2
    <2> QED BY <2>1, <2>4
  <1>2. ASSUME NEW w \in Workers, wpc[w] \in Busy, NEW null \in BOOLEAN, add_result(w, null)
        PROVE  TypeInv' /\ DrainInv'
    <2>1. /\ todo' = todo /\ snapshot' = snapshot /\ owner' \in {owner, "awake"}
          /\ joined' = joined /\ created' = created
      BY <1>2 DEF add_result, WakeOwner
    <2> QED BY <1>2, <2>1, AddResultType DEF DrainInv
  <1>3. ASSUME NEW w \in Workers, get_task(w)
        PROVE  TypeInv' /\ DrainInv'
    <2>1. todo' = todo /\ snapshot' = snapshot /\ owner' = owner
          /\ joined' = joined /\ created' = created
      BY <1>3 DEF get_task, ovars
    <2> QED BY <1>3, <2>1, GetTaskType DEF DrainInv
  <1>4. ASSUME NEW w \in Workers, add_exception(w)
        PROVE  TypeInv' /\ DrainInv'
    <2>1. wtask[w] \in Tasks /\ wtask[w].queue \in Queues /\ wtask[w].id \in 1 .. MaxTasks
      BY <1>4 DEF add_exception, TypeInv, Busy, Tasks
    <2>2. /\ exceptions' = [exceptions EXCEPT ![wtask[w].queue] = Append(@, wtask[w].id)]
          /\ wpc' = [wpc EXCEPT ![w] = "thrown"]
          /\ todo' = todo /\ snapshot' = snapshot /\ owner' \in {owner, "awake"}
          /\ joined' = joined /\ created' = created
      BY <1>4 DEF add_exception, WakeOwner
    <2>3. exceptions' \in [Queues -> Seq(1 .. MaxTasks)]
      BY <2>1, <2>2 DEF TypeInv
    <2>4. wpc' \in [Workers -> Wpcs] /\ \A v \in Workers : wpc'[v] \in Busy => wtask[v] \in Tasks
      BY <2>1, <2>2 DEF TypeInv, Wpcs, Busy
    <2>5. TypeInv'
      BY <1>4, <2>2, <2>3, <2>4 DEF add_exception, TypeInv
    <2>6. DrainInv'
      BY <2>2 DEF DrainInv
    <2> QED BY <2>5, <2>6
  <1>5. CASE SpuriousWakeup
    <2>1. /\ wpc' \in [Workers -> Wpcs] /\ \A v \in Workers : wpc'[v] \in Busy => wpc[v] \in Busy
          /\ owner' \in {owner, "awake"} /\ todo' = todo /\ snapshot' = snapshot
          /\ joined' = joined /\ created' = created
      BY <1>5 DEF SpuriousWakeup, TypeInv, Wpcs, Busy
    <2>2. TypeInv'
      BY <1>5, <2>1 DEF SpuriousWakeup, TypeInv
    <2> QED BY <2>1, <2>2 DEF DrainInv
  <1>6. ASSUME NEW steps \in Seq(Ops \X Queues), Call(steps)
        PROVE  TypeInv' /\ DrainInv'
    BY <1>6 DEF Call, Idle, TypeInv, DrainInv, wvars
  <1>7. ASSUME NEW q \in Queues, NEW k \in 0 .. Len(results[q]), Join(q, k),
               snapshot' \in Int, todo' \in Seq(Ops \X Queues), 
               owner' \in {"awake", "asleep", "gone", "aborted"},
               tasks' = tasks, exceptions' = exceptions, created' = created,
               added' = added, kill_threads' = kill_threads, wvars' = wvars
        PROVE  TypeInv'
    BY <1>7, JoinEffect DEF TypeInv, wvars
  <1>8. CASE PollResult
    <2>1. PICK q \in Queues : results[q] # <<>> /\ Join(q, 1)
      BY <1>8 DEF PollResult
    <2>2. 1 \in 0 .. Len(results[q])
      BY <2>1 DEF TypeInv
    <2>3. TypeInv'
      BY <1>7, <1>8, <2>1, <2>2 DEF PollResult, ovars, TypeInv
    <2>4. DrainInv'
      BY <1>8 DEF PollResult, ovars, Idle, DrainInv
    <2> QED BY <2>3, <2>4
  <1>9. CASE get_exception
    <2>1. exceptions' \in [Queues -> Seq(1 .. MaxTasks)]
      BY <1>9 DEF get_exception, TypeInv
    <2> QED BY <1>9, <2>1 DEF get_exception, TypeInv, DrainInv, ovars, wvars
  <1>10. CASE get_result
    <2> DEFINE q == Head(todo)[2]
    <2>1. todo # <<>> /\ Head(todo)[1] = "get" /\ q \in Queues /\ snapshot = -1
          /\ Tail(todo) \in Seq(Ops \X Queues) /\ snapshot' = snapshot
      BY <1>10, TodoType DEF get_result, Step, DrainInv
    <2>2. CASE results[q] = <<>> /\ owner' = "asleep" /\ UNCHANGED <<todo, results, joined, history>>
      BY <1>10, <2>1, <2>2 DEF get_result, TypeInv, DrainInv, wvars
    <2>3. CASE results[q] # <<>> /\ Join(q, 1) /\ todo' = Tail(todo) /\ UNCHANGED owner
      <3>1. 1 \in 0 .. Len(results[q])
        BY <2>1, <2>3 DEF TypeInv
      <3>2. TypeInv'
        BY <1>7, <1>10, <2>1, <2>3, <3>1 DEF get_result, TypeInv
      <3> QED BY <1>10, <2>1, <2>3, <3>2 DEF get_result, Step, DrainInv
    <2> QED BY <1>10, <2>2, <2>3 DEF get_result
  <1>11. CASE drain_queue
    <2> DEFINE q == Head(todo)[2]
    <2>0. todo # <<>> /\ Head(todo)[1] = "drain" /\ q \in Queues /\ owner = "awake"
          /\ Tail(todo) \in Seq(Ops \X Queues)
      BY <1>11, TodoType DEF drain_queue, Step
    <2>1. PICK k \in 0 .. Len(results[q]) :
              /\ Join(q, k)
              /\ \/ /\ todo' = Tail(todo) /\ snapshot' = -1 /\ owner' = owner
                    /\ \/ snapshot = -1 /\ joined[q] + k = created[q]
                       \/ snapshot # -1 /\ joined[q] + k = snapshot
                 \/ /\ todo' = todo /\ owner' = "asleep"
                    /\ joined[q] + k < snapshot'
                    /\ snapshot' <= created[q]
                    /\ IF snapshot = -1 THEN snapshot' = created[q]
                                        ELSE snapshot' = snapshot
      BY <1>11, DrainEffect
    <2>2. tasks' = tasks /\ exceptions' = exceptions /\ created' = created
        /\ added' = added /\ kill_threads' = kill_threads /\ wvars' = wvars
      BY <1>11, DrainEffect
    <2>3. joined'[q] = joined[q] + k /\ joined'[q] \in Nat /\ created[q] \in Nat
      BY <2>0, <2>1, JoinEffect DEF TypeInv
    <2>4. snapshot' \in Int /\ todo' \in Seq(Ops \X Queues)
          /\ owner' \in {"awake", "asleep", "gone", "aborted"}
      <3>1. todo \in Seq(Ops \X Queues) /\ snapshot \in Int /\ created[q] \in Int
        BY <2>3 DEF TypeInv
      <3>2. snapshot' \in {-1, created[q], snapshot}
        BY <2>1
      <3>3. snapshot' \in Int
        BY <3>1, <3>2
      <3>4. todo' \in {todo, Tail(todo)} /\ owner' \in {owner, "asleep"}
        BY <2>1
      <3> QED BY <2>0, <3>1, <3>3, <3>4
    <2>5. TypeInv'
      BY <1>7, <2>0, <2>1, <2>2, <2>4
    <2>6. DrainInv'
      <3>1. CASE snapshot' = -1 /\ owner' = owner
        BY <2>0, <3>1 DEF DrainInv
      <3>2. CASE todo' = todo /\ joined[q] + k < snapshot' /\ snapshot' <= created[q]
        BY <2>0, <2>2, <2>3, <2>4, <3>2 DEF DrainInv
      <3> QED BY <2>1, <3>1, <3>2
    <2> QED BY <2>5, <2>6
  <1>12. CASE Kill
    <2>1. snapshot = -1 /\ snapshot' = -1 /\ owner' = "awake"
          /\ todo' \in Seq(Ops \X Queues)
      BY <1>12, TodoType DEF Kill, Step, DrainInv
    <2>2. /\ wpc' \in [Workers -> Wpcs] /\ \A v \in Workers : wpc'[v] \in Busy => wpc[v] \in Busy
      BY <1>12 DEF Kill, TypeInv, Wpcs, Busy
    <2> QED BY <1>12, <2>1, <2>2 DEF Kill, TypeInv, DrainInv
  <1>13. CASE JoinWorkers
    <2>1. snapshot = -1 /\ snapshot' = -1 /\ owner' \in {"gone", "aborted"}
          /\ todo' \in Seq(Ops \X Queues)
      BY <1>13 DEF JoinWorkers, Step, DrainInv
    <2> QED BY <1>13, <2>1 DEF JoinWorkers, TypeInv, DrainInv, wvars
  <1>14. CASE UNCHANGED vars
    BY <1>14 DEF vars, wvars, ovars, history, TypeInv, DrainInv
  <1>15. ASSUME NEW w \in Workers, WorkerStep(w) \/ Subtask(w)
         PROVE  TypeInv' /\ DrainInv'
    <2>1. CASE Subtask(w)
      BY <1>1, <2>1 DEF Subtask
    <2>2. CASE TaskReturns(w) \/ AddNullResult(w)
      <3>1. wpc[w] \in Busy /\ (add_result(w, TRUE) \/ add_result(w, FALSE))
        BY <2>2 DEF TaskReturns, AddNullResult, Busy
      <3> QED BY <1>2, <3>1
    <2> QED BY <1>3, <1>4, <1>15, <2>1, <2>2 DEF WorkerStep
  <1>16. CASE OwnerCalls
    <2>1. CASE OwnerAddsTask
      BY <1>1, <2>1 DEF OwnerAddsTask
    <2>2. CASE CallDrainQueue
      <3>1. PICK q \in Queues : Call(<< <<"drain", q>> >>)
        BY <2>2 DEF CallDrainQueue
      <3>2. << <<"drain", q>> >> \in Seq(Ops \X Queues)
        BY DEF Ops
      <3> QED BY <1>6, <3>1, <3>2
    <2>3. CASE CallGetResult
      <3>1. PICK q \in Queues : Call(<< <<"get", q>> >>)
        BY <2>3 DEF CallGetResult
      <3>2. << <<"get", q>> >> \in Seq(Ops \X Queues)
        BY DEF Ops
      <3> QED BY <1>6, <3>1, <3>2
    <2>4. CASE CallDestructor
      BY <1>6, <2>4, DestructorType DEF CallDestructor
    <2> QED BY <1>8, <1>9, <1>16, <2>1, <2>2, <2>3, <2>4 DEF OwnerCalls
  <1> QED
    BY <1>5, <1>10, <1>11, <1>12, <1>13, <1>14, <1>15, <1>16 DEF Next, OwnerStep, Over

(* No task changes hands. *)
LEMMA HoldingStays ==
  ASSUME TypeInv, wtask' = wtask, NEW q,
         \A w \in Workers : wpc'[w] \in Busy <=> wpc[w] \in Busy
  PROVE  Holding(q)' = Holding(q)
  BY DEF Holding, Busy

(* A worker takes a task, and it is counted with the worker's. *)
LEMMA HoldingGrows ==
  ASSUME TypeInv, NEW w \in Workers, wpc[w] \notin Busy, NEW t \in Tasks,
         wpc' = [wpc EXCEPT ![w] = "run"], wtask' = [wtask EXCEPT ![w] = t], NEW q
  PROVE  /\ q = t.queue => Cardinality(Holding(q)') = Cardinality(Holding(q)) + 1
         /\ q # t.queue => Holding(q)' = Holding(q)
  <1>1. w \notin Holding(q)
    BY DEF Holding, Busy
  <1>2. \A v \in Workers : /\ v # w => wpc'[v] = wpc[v] /\ wtask'[v] = wtask[v]
                           /\ v = w => wpc'[v] = "run" /\ wtask'[v] = t
    BY DEF TypeInv
  <1>3. CASE q = t.queue
    <2>1. Holding(q)' = Holding(q) \union {w}
      BY <1>2, <1>3, <1>1 DEF Holding
    <2> QED BY <1>1, <1>3, <2>1, HoldingFinite, FS_AddElement
  <1>4. CASE q # t.queue
    BY <1>1, <1>2, <1>4 DEF Holding
  <1> QED BY <1>3, <1>4

(* A worker answers its task, and the task is no longer counted. *)
LEMMA HoldingShrinks ==
  ASSUME TypeInv, NEW w \in Workers, wpc[w] \in Busy,
         wpc' = [wpc EXCEPT ![w] = "get"], wtask' = [wtask EXCEPT ![w] = NoTask], NEW q
  PROVE  /\ q = wtask[w].queue => Cardinality(Holding(q)') = Cardinality(Holding(q)) - 1
         /\ q # wtask[w].queue => Holding(q)' = Holding(q)
  <1>1. \A v \in Workers : /\ v # w => wpc'[v] = wpc[v] /\ wtask'[v] = wtask[v]
                           /\ v = w => wpc'[v] = "get"
    BY DEF TypeInv
  <1>2. Holding(q)' = Holding(q) \ {w}
    BY <1>1 DEF Holding
  <1>3. CASE q = wtask[w].queue
    <2>1. w \in Holding(q)
      BY <1>3 DEF Holding, Busy
    <2> QED BY <1>2, <1>3, <2>1, HoldingFinite, FS_RemoveElement
  <1>4. CASE q # wtask[w].queue
    BY <1>1, <1>4 DEF Holding
  <1> QED BY <1>3, <1>4

(* Each step moves a task between two of the places, or none. *)
LEMMA AccountedStep ==
  ASSUME PoolInv, TypeInv', [Next]_vars
  PROVE  EveryTaskAccountedFor'
  <1> USE DEF PoolInv
  <1> DEFINE Where(q) == Cardinality(tasks[q]) + Cardinality(Holding(q))
                           + Len(results[q]) + joined[q]
  <1>0. ASSUME NEW q \in Queues
        PROVE  /\ created[q] = Where(q) /\ IsFiniteSet(tasks[q])
               /\ Cardinality(tasks[q]) \in Nat /\ Cardinality(Holding(q)) \in Nat
               /\ Len(results[q]) \in Nat /\ joined[q] \in Nat /\ created[q] \in Nat
    BY HoldingFinite, FS_CardinalityType DEF TypeInv, EveryTaskAccountedFor
  <1> SUFFICES ASSUME NEW q \in Queues
               PROVE  created'[q] = Cardinality(tasks'[q]) + Cardinality(Holding(q)')
                                      + Len(results'[q]) + joined'[q]
    BY DEF EveryTaskAccountedFor
  <1> DEFINE Goal == created'[q] = Cardinality(tasks'[q]) + Cardinality(Holding(q)')
                                      + Len(results'[q]) + joined'[q]
  <1>1. ASSUME NEW p \in Queues, NEW c \in Costs, add_task(p, c)
        PROVE  Goal
    <2> DEFINE t == [id |-> added + 1, cost |-> c, queue |-> p]
    <2>1. /\ tasks' = [tasks EXCEPT ![p] = @ \union {t}]
          /\ created' = [created EXCEPT ![p] = @ + 1]
          /\ results' = results /\ joined' = joined /\ wtask' = wtask
      BY <1>1 DEF add_task
    <2>2. t \notin tasks[q]
      <3>1. \A u \in tasks[q] : u.id <= added
        BY DEF TypeInv
      <3>2. added \in Int
        BY DEF TypeInv
      <3>3. ~(added + 1 <= added) /\ t.id = added + 1
        BY <3>2
      <3> QED BY <3>1, <3>3
    <2> HIDE DEF t
    <2>3. \A w \in Workers : wpc'[w] \in Busy <=> wpc[w] \in Busy
      <3>1. Notify(p)
        BY <1>1 DEF add_task
      <3>2. CASE \E w \in Workers : /\ wpc[w] = "asleep"
                                   /\ wpc' = [wpc EXCEPT ![w] = "woken"]
        BY <3>2 DEF TypeInv, Busy
      <3> QED BY <3>1, <3>2, SignalType
    <2>4. Holding(q)' = Holding(q)
      BY <2>1, <2>3, HoldingStays
    <2>5. CASE q = p
      <3>1. tasks'[q] = tasks[q] \union {t} /\ created'[q] = created[q] + 1
        BY <2>1, <2>5 DEF TypeInv
      <3>2. Cardinality(tasks'[q]) = Cardinality(tasks[q]) + 1
        BY <1>0, <2>2, <3>1, FS_AddElement
      <3> QED BY <1>0, <2>1, <2>4, <3>1, <3>2
    <2>6. CASE q # p
      <3>1. tasks'[q] = tasks[q] /\ created'[q] = created[q]
        BY <2>1, <2>6 DEF TypeInv
      <3> QED BY <1>0, <2>1, <2>4, <3>1
    <2> QED BY <2>5, <2>6
  <1>2. ASSUME NEW w \in Workers, wpc[w] \in Busy, NEW null \in BOOLEAN, add_result(w, null)
        PROVE  Goal
    <2>1. /\ wpc' = [wpc EXCEPT ![w] = "get"] /\ wtask' = [wtask EXCEPT ![w] = NoTask]
          /\ tasks' = tasks /\ created' = created /\ joined' = joined
      BY <1>2 DEF add_result
    <2>2. CASE q = wtask[w].queue
      <3>1. Cardinality(Holding(q)') = Cardinality(Holding(q)) - 1
        BY <1>2, <2>1, <2>2, HoldingShrinks
      <3>2. results'[q] = Append(results[q], [id |-> wtask[w].id, null |-> null])
        BY <1>2, <2>2, AddResultType
      <3>3. Len(results'[q]) = Len(results[q]) + 1
        BY <3>2 DEF TypeInv
      <3> QED BY <1>0, <2>1, <3>1, <3>3
    <2>3. CASE q # wtask[w].queue
      <3>1. Holding(q)' = Holding(q)
        BY <1>2, <2>1, <2>3, HoldingShrinks
      <3>2. results'[q] = results[q]
        BY <1>2, <2>3, AddResultType
      <3> QED BY <1>0, <2>1, <3>1, <3>2
    <2> QED BY <2>2, <2>3
  <1>3. ASSUME NEW w \in Workers, get_task(w)
        PROVE  Goal
    <2>1. /\ results' = results /\ created' = created /\ joined' = joined
          /\ wpc[w] \in {"get", "woken"} /\ wpc' = [wpc EXCEPT ![w] = wpc'[w]]
      BY <1>3, GetTaskType DEF get_task
    <2>2. CASE tasks' = tasks /\ wtask' = wtask /\ wpc'[w] \in {"ended", "asleep"}
      <3>1. \A v \in Workers : wpc'[v] \in Busy <=> wpc[v] \in Busy
        BY <2>1, <2>2 DEF TypeInv, Busy
      <3>2. Holding(q)' = Holding(q)
        BY <2>2, <3>1, HoldingStays
      <3> QED BY <1>0, <2>1, <2>2, <3>2
    <2>3. CASE \E i \in Queues : \E t \in tasks[i] :
                 /\ t \in Tasks /\ t.queue = i
                 /\ wtask' = [wtask EXCEPT ![w] = t]
                 /\ tasks' = [tasks EXCEPT ![i] = @ \ {t}]
                 /\ wpc'[w] = "run"
      <3>1. PICK i \in Queues : \E t \in tasks[i] :
                 /\ t \in Tasks /\ t.queue = i
                 /\ wtask' = [wtask EXCEPT ![w] = t]
                 /\ tasks' = [tasks EXCEPT ![i] = @ \ {t}]
                 /\ wpc'[w] = "run"
        BY <2>3
      <3>2. PICK t \in tasks[i] :
                 /\ t \in Tasks /\ t.queue = i
                 /\ wtask' = [wtask EXCEPT ![w] = t]
                 /\ tasks' = [tasks EXCEPT ![i] = @ \ {t}]
                 /\ wpc'[w] = "run"
        BY <3>1
      <3>3. wpc[w] \notin Busy /\ wpc' = [wpc EXCEPT ![w] = "run"]
        BY <2>1, <3>2 DEF Busy
      <3>4. CASE q = i
        <4>1. Cardinality(Holding(q)') = Cardinality(Holding(q)) + 1
          BY <3>2, <3>3, <3>4, HoldingGrows
        <4>2. tasks'[q] = tasks[q] \ {t} /\ t \in tasks[q]
          BY <3>2, <3>4 DEF TypeInv
        <4>3. Cardinality(tasks'[q]) = Cardinality(tasks[q]) - 1
          BY <1>0, <4>2, FS_RemoveElement
        <4> QED BY <1>0, <2>1, <4>1, <4>3
      <3>5. CASE q # i
        <4>1. Holding(q)' = Holding(q)
          BY <3>2, <3>3, <3>5, HoldingGrows
        <4>2. tasks'[q] = tasks[q]
          BY <3>2, <3>5 DEF TypeInv
        <4> QED BY <1>0, <2>1, <4>1, <4>2
      <3> QED BY <3>4, <3>5
    <2> QED BY <1>3, <2>2, <2>3, GetTaskType
  <1>4. ASSUME tasks' = tasks, results' = results, created' = created, joined' = joined,
               wtask' = wtask, \A w \in Workers : wpc'[w] \in Busy <=> wpc[w] \in Busy
        PROVE  Goal
    BY <1>0, <1>4, HoldingStays
  <1>5. ASSUME NEW p \in Queues, NEW k \in 0 .. Len(results[p]), Join(p, k),
               tasks' = tasks, created' = created, wvars' = wvars
        PROVE  Goal
    <2>1. wtask' = wtask /\ wpc' = wpc
      BY <1>5 DEF wvars
    <2>2. Holding(q)' = Holding(q)
      BY <2>1, HoldingStays
    <2>3. k \in Nat /\ Len(results'[p]) = Len(results[p]) - k /\ joined'[p] = joined[p] + k
      BY <1>5, JoinEffect
    <2>4. q # p => results'[q] = results[q] /\ joined'[q] = joined[q]
      BY <1>5, JoinEffect
    <2>5. CASE q = p
      BY <1>0, <1>5, <2>2, <2>3, <2>5
    <2>6. CASE q # p
      BY <1>0, <1>5, <2>2, <2>4, <2>6
    <2> QED BY <2>5, <2>6
  <1>6. ASSUME NEW w \in Workers, WorkerStep(w) \/ Subtask(w)
        PROVE  Goal
    <2>1. CASE Subtask(w)
      BY <1>1, <2>1 DEF Subtask
    <2>2. CASE TaskReturns(w) \/ AddNullResult(w)
      <3>1. wpc[w] \in Busy /\ (add_result(w, TRUE) \/ add_result(w, FALSE))
        BY <2>2 DEF TaskReturns, AddNullResult, Busy
      <3> QED BY <1>2, <3>1
    <2>3. CASE add_exception(w)
      <3>1. \A v \in Workers : wpc'[v] \in Busy <=> wpc[v] \in Busy
        BY <2>3 DEF add_exception, TypeInv, Busy
      <3> QED BY <1>4, <2>3, <3>1 DEF add_exception
    <2> QED BY <1>3, <1>6, <2>1, <2>2, <2>3 DEF WorkerStep
  <1>7. CASE OwnerCalls
    <2>1. CASE OwnerAddsTask
      BY <1>1, <2>1 DEF OwnerAddsTask
    <2>2. CASE CallDrainQueue \/ CallGetResult \/ CallDestructor
      <3>1. \E steps : Call(steps)
        BY <2>2 DEF CallDrainQueue, CallGetResult, CallDestructor
      <3> QED BY <1>4, <3>1 DEF Call, wvars
    <2>3. CASE PollResult
      <3>1. PICK p \in Queues : results[p] # <<>> /\ Join(p, 1)
        BY <2>3 DEF PollResult
      <3>2. 1 \in 0 .. Len(results[p])
        BY <3>1 DEF TypeInv
      <3> QED BY <1>5, <2>3, <3>1, <3>2 DEF PollResult
    <2>4. CASE get_exception
      BY <1>4, <2>4 DEF get_exception, wvars
    <2> QED BY <1>7, <2>1, <2>2, <2>3, <2>4 DEF OwnerCalls
  <1>8. CASE get_result
    <2> DEFINE p == Head(todo)[2]
    <2>1. p \in Queues
      BY <1>8, TodoType DEF get_result, Step
    <2>2. CASE results[p] = <<>> /\ owner' = "asleep" /\ UNCHANGED <<todo, results, joined, history>>
      BY <1>4, <1>8, <2>2 DEF get_result, wvars
    <2>3. CASE results[p] # <<>> /\ Join(p, 1) /\ todo' = Tail(todo) /\ UNCHANGED owner
      <3>1. 1 \in 0 .. Len(results[p])
        <4> HIDE DEF p
        <4>1. results[p] \in Seq(Results)
          BY <2>1 DEF TypeInv
        <4> QED BY <2>3, <4>1
      <3> QED BY <1>5, <1>8, <2>1, <2>3, <3>1 DEF get_result
    <2> QED BY <1>8, <2>2, <2>3 DEF get_result
  <1>9. CASE drain_queue
    <2>1. Head(todo)[2] \in Queues
      BY <1>9, DrainEffect
    <2>2. PICK k \in 0 .. Len(results[Head(todo)[2]]) : Join(Head(todo)[2], k)
      BY <1>9, DrainEffect
    <2> QED BY <1>5, <1>9, <2>1, <2>2, DrainEffect
  <1>10. CASE Kill
    <2>1. \A v \in Workers : wpc'[v] \in Busy <=> wpc[v] \in Busy
      BY <1>10 DEF Kill, TypeInv, Busy
    <2> QED BY <1>4, <1>10, <2>1 DEF Kill
  <1>11. CASE JoinWorkers
    BY <1>4, <1>11 DEF JoinWorkers, wvars
  <1>12. CASE SpuriousWakeup
    <2>1. \A v \in Workers : wpc'[v] \in Busy <=> wpc[v] \in Busy
      BY <1>12 DEF SpuriousWakeup, TypeInv, Busy
    <2> QED BY <1>4, <1>12, <2>1 DEF SpuriousWakeup
  <1>13. CASE UNCHANGED vars
    BY <1>4, <1>13 DEF vars, wvars
  <1> QED
    BY <1>6, <1>7, <1>8, <1>9, <1>10, <1>11, <1>12, <1>13 DEF Next, OwnerStep, Over

(* Every task added is in its queue, with a worker, among the results, or  *)
(* joined: what drain_queue() counts on when it waits for `created' to be  *)
(* reached (threadpool.cpp:310). *)
THEOREM NoTaskLost == Spec => []PoolInv /\ []EveryTaskAccountedFor
  <1>1. Init => PoolInv
    BY TypeInit DEF PoolInv
  <1>2. PoolInv /\ [Next]_vars => PoolInv'
    BY TypeStep, AccountedStep DEF PoolInv
  <1>3. PoolInv => EveryTaskAccountedFor
    BY DEF PoolInv
  <1> QED BY <1>1, <1>2, <1>3, PTL DEF Spec

-------------------------------------------------------------------------------
(* Who waits: nr_threads_waiting is exact, so add_task() knows whether there *)
(* is somebody to notify. *)

Waiting == {w \in Workers : wpc[w] \in {"asleep", "woken"}}
Coming  == {w \in Workers : wpc[w] \in {"get", "woken"}}

WaitingInv ==
  nr_threads_waiting = [q \in Queues |-> IF q = PreferredQueue THEN Cardinality(Waiting) ELSE 0]

(* Sets of workers can be counted. *)
LEMMA WorkersFinite ==
  ASSUME NEW S \in SUBSET Workers
  PROVE  IsFiniteSet(S) /\ Cardinality(S) \in Nat
  BY PoolAssumption, FS_Subset, FS_CardinalityType DEF PoolAssumption

(* One worker that starts to wait is one more, one that stops is one less. *)
LEMMA WaitingMoves ==
  ASSUME TypeInv, NEW w \in Workers, wpc' = [wpc EXCEPT ![w] = wpc'[w]]
  PROVE  /\ Cardinality(Waiting) \in Nat
         /\ (wpc[w] \in {"asleep", "woken"} <=> wpc'[w] \in {"asleep", "woken"}) =>
              Waiting' = Waiting
         /\ wpc[w] \notin {"asleep", "woken"} /\ wpc'[w] \in {"asleep", "woken"} =>
              Cardinality(Waiting') = Cardinality(Waiting) + 1
         /\ wpc[w] \in {"asleep", "woken"} /\ wpc'[w] \notin {"asleep", "woken"} =>
              Cardinality(Waiting') = Cardinality(Waiting) - 1
  <1>1. \A v \in Workers : v # w => wpc'[v] = wpc[v]
    BY DEF TypeInv
  <1>2. IsFiniteSet(Waiting) /\ Cardinality(Waiting) \in Nat
    BY WorkersFinite DEF Waiting
  <1>3. CASE wpc[w] \in {"asleep", "woken"} <=> wpc'[w] \in {"asleep", "woken"}
    <2>1. Waiting' = Waiting
      BY <1>1, <1>3 DEF Waiting
    <2> QED BY <1>2, <1>3, <2>1
  <1>4. CASE wpc[w] \notin {"asleep", "woken"} /\ wpc'[w] \in {"asleep", "woken"}
    <2>1. Waiting' = Waiting \union {w} /\ w \notin Waiting
      BY <1>1, <1>4 DEF Waiting
    <2> QED BY <1>2, <1>4, <2>1, FS_AddElement
  <1>5. CASE wpc[w] \in {"asleep", "woken"} /\ wpc'[w] \notin {"asleep", "woken"}
    <2>1. Waiting' = Waiting \ {w} /\ w \in Waiting
      BY <1>1, <1>5 DEF Waiting
    <2> QED BY <1>2, <1>5, <2>1, FS_RemoveElement
  <1> QED BY <1>3, <1>4, <1>5

(* What a step does to the workers' places: only get_task() begins or ends *)
(* a wait. *)
LEMMA PlaceStep ==
  ASSUME TypeInv, [Next]_vars
  PROVE  \/ \E w \in Workers : get_task(w)
         \/ /\ nr_threads_waiting' = nr_threads_waiting
            /\ \/ wpc' = wpc
               \/ /\ kill_threads'
                  /\ wpc' = [w \in Workers |-> IF wpc[w] = "asleep" THEN "woken" ELSE wpc[w]]
               \/ \E w \in Workers :
                    /\ wpc' = [wpc EXCEPT ![w] = wpc'[w]]
                    /\ \/ wpc[w] = "asleep" /\ wpc'[w] = "woken"
                       \/ wpc[w] \in Busy /\ wpc'[w] \in {"get", "thrown"}
  <1> DEFINE Goal ==
         \/ \E w \in Workers : get_task(w)
         \/ /\ nr_threads_waiting' = nr_threads_waiting
            /\ \/ wpc' = wpc
               \/ /\ kill_threads'
                  /\ wpc' = [w \in Workers |-> IF wpc[w] = "asleep" THEN "woken" ELSE wpc[w]]
               \/ \E w \in Workers :
                    /\ wpc' = [wpc EXCEPT ![w] = wpc'[w]]
                    /\ \/ wpc[w] = "asleep" /\ wpc'[w] = "woken"
                       \/ wpc[w] \in Busy /\ wpc'[w] \in {"get", "thrown"}
  <1>1. ASSUME NEW w \in Workers, wpc[w] = "asleep", wpc' = [wpc EXCEPT ![w] = "woken"],
               nr_threads_waiting' = nr_threads_waiting
        PROVE  Goal
    <2>1. wpc'[w] = "woken"
      BY <1>1 DEF TypeInv
    <2> QED BY <1>1, <2>1
  <1>2. ASSUME NEW q \in Queues, NEW c \in Costs, add_task(q, c)
        PROVE  Goal
    <2>1. Notify(q) /\ nr_threads_waiting' = nr_threads_waiting
      BY <1>2 DEF add_task
    <2> QED BY <1>1, <2>1, SignalType
  <1>3. ASSUME NEW w \in Workers, TaskReturns(w) \/ AddNullResult(w) \/ add_exception(w)
        PROVE  Goal
    <2>1. wpc[w] \in Busy /\ nr_threads_waiting' = nr_threads_waiting
          /\ (wpc' = [wpc EXCEPT ![w] = "get"] \/ wpc' = [wpc EXCEPT ![w] = "thrown"])
      BY <1>3 DEF TaskReturns, AddNullResult, add_exception, add_result, Busy
    <2>2. wpc'[w] \in {"get", "thrown"} /\ wpc' = [wpc EXCEPT ![w] = wpc'[w]]
      BY <2>1 DEF TypeInv
    <2> QED BY <2>1, <2>2
  <1>4. CASE OwnerCalls
    <2>1. CASE OwnerAddsTask
      BY <1>2, <2>1 DEF OwnerAddsTask
    <2> QED
      BY <1>4, <2>1 DEF OwnerCalls, CallDrainQueue, CallGetResult, CallDestructor, Call,
                        PollResult, get_exception, wvars
  <1>5. CASE OwnerStep
    BY <1>5 DEF OwnerStep, get_result, drain_queue, Kill, JoinWorkers, wvars
  <1>6. CASE SpuriousWakeup
    BY <1>1, <1>6 DEF SpuriousWakeup
  <1>7. ASSUME NEW w \in Workers, WorkerStep(w) \/ Subtask(w)
        PROVE  Goal
    BY <1>2, <1>3, <1>7 DEF WorkerStep, Subtask
  <1> QED BY <1>4, <1>5, <1>6, <1>7 DEF Next, Over, vars, wvars

(* A worker is counted from the moment it waits until it is back. *)
LEMMA WaitingStep ==
  ASSUME TypeInv, WaitingInv, [Next]_vars
  PROVE  WaitingInv'
  <1>0. Cardinality(Waiting) \in Nat
    BY WorkersFinite DEF Waiting
  <1>1. ASSUME Waiting' = Waiting, nr_threads_waiting' = nr_threads_waiting
        PROVE  WaitingInv'
    BY <1>1 DEF WaitingInv
  <1>2. ASSUME NEW w \in Workers, get_task(w)
        PROVE  WaitingInv'
    <2>1. wpc[w] \in {"get", "woken"} /\ wpc' = [wpc EXCEPT ![w] = wpc'[w]]
      BY <1>2, GetTaskType
    <2>2. \/ wpc'[w] \in {"ended", "run"} /\ nr_threads_waiting' = Recounted(w)
          \/ /\ wpc'[w] = "asleep"
             /\ nr_threads_waiting' = [Recounted(w) EXCEPT ![PreferredQueue] = @ + 1]
      BY <1>2 DEF get_task, TypeInv
    <2> DEFINE n == Cardinality(Waiting)
               m == Cardinality(Waiting')
    <2>3. /\ wpc[w] = "get" /\ wpc'[w] # "asleep" => m = n
          /\ wpc[w] = "get" /\ wpc'[w] = "asleep" => m = n + 1
          /\ wpc[w] = "woken" /\ wpc'[w] # "asleep" => m = n - 1
          /\ wpc[w] = "woken" /\ wpc'[w] = "asleep" => m = n
      BY <2>1, <2>2, WaitingMoves
    <2>4. nr_threads_waiting = [q \in Queues |-> IF q = PreferredQueue THEN n ELSE 0] /\ n \in Nat
      BY <1>0 DEF WaitingInv
    <2> HIDE DEF n, m
    <2>5. nr_threads_waiting' = [q \in Queues |-> IF q = PreferredQueue THEN m ELSE 0]
      <3>1. CASE wpc[w] = "get"
        <4>1. Recounted(w) = nr_threads_waiting
          BY <2>4, <3>1 DEF Recounted
        <4>2. CASE wpc'[w] = "asleep"
          <5>1. /\ nr_threads_waiting' = [nr_threads_waiting EXCEPT ![PreferredQueue] = @ + 1]
                /\ m = n + 1
            BY <2>2, <2>3, <3>1, <4>1, <4>2
          <5> QED BY <2>4, <5>1, Queue0
        <4>3. CASE wpc'[w] # "asleep"
          BY <2>2, <2>3, <2>4, <3>1, <4>1, <4>3
        <4> QED BY <4>2, <4>3
      <3>2. CASE wpc[w] = "woken"
        <4>1. Recounted(w) = [q \in Queues |-> IF q = PreferredQueue THEN n - 1 ELSE 0]
          BY <2>4, <3>2, Queue0 DEF Recounted
        <4>2. CASE wpc'[w] = "asleep"
          <5>1. nr_threads_waiting' = [Recounted(w) EXCEPT ![PreferredQueue] = @ + 1] /\ m = n
            BY <2>2, <2>3, <3>2, <4>2
          <5>2. (n - 1) + 1 = n
            BY <2>4
          <5> DEFINE k == n - 1
          <5>3. nr_threads_waiting' = [[q \in Queues |-> IF q = PreferredQueue THEN k ELSE 0]
                                        EXCEPT ![PreferredQueue] = @ + 1]
            BY <4>1, <5>1
          <5>4. k + 1 = n
            BY <5>2
          <5> HIDE DEF k
          <5>5. nr_threads_waiting' = [q \in Queues |-> IF q = PreferredQueue THEN k + 1 ELSE 0]
            BY <5>3, Queue0
          <5> QED BY <5>1, <5>4, <5>5
        <4>3. CASE wpc'[w] # "asleep"
          BY <2>2, <2>3, <2>4, <3>2, <4>1, <4>3
        <4> QED BY <4>2, <4>3
      <3> QED BY <2>1, <3>1, <3>2
    <2> QED BY <2>5 DEF m, WaitingInv
  <1>3. ASSUME NEW w \in Workers, wpc' = [wpc EXCEPT ![w] = wpc'[w]],
               wpc[w] \in {"asleep", "woken"} <=> wpc'[w] \in {"asleep", "woken"}
        PROVE  Waiting' = Waiting
    BY <1>3, WaitingMoves
  <1>4. ASSUME NEW w \in Workers, wpc' = [wpc EXCEPT ![w] = wpc'[w]],
               \/ wpc[w] = "asleep" /\ wpc'[w] = "woken"
               \/ wpc[w] \in Busy /\ wpc'[w] \in {"get", "thrown"}
        PROVE  Waiting' = Waiting
    <2>1. wpc[w] \in {"asleep", "woken"} <=> wpc'[w] \in {"asleep", "woken"}
      BY <1>4 DEF Busy
    <2> QED BY <1>3, <1>4, <2>1
  <1>5. ASSUME wpc' = [w \in Workers |-> IF wpc[w] = "asleep" THEN "woken" ELSE wpc[w]]
        PROVE  Waiting' = Waiting
    BY <1>5 DEF Waiting, TypeInv
  <1>6. ASSUME wpc' = wpc PROVE Waiting' = Waiting
    BY <1>6 DEF Waiting
  <1> QED BY <1>1, <1>2, <1>4, <1>5, <1>6, PlaceStep

-------------------------------------------------------------------------------
(* No worker sleeps beside a task. *)

AllTasks == UNION {tasks[q] : q \in Queues}

(* The queues are finite, so all waiting tasks are. *)
LEMMA AllTasksFinite ==
  ASSUME TypeInv
  PROVE  IsFiniteSet(AllTasks) /\ Cardinality(AllTasks) \in Nat
  <1>1. IsFiniteSet(Queues)
    BY FS_Interval, PoolAssumption DEF Queues, PoolAssumption
  <1>2. IsFiniteSet({tasks[q] : q \in Queues})
    <2> DEFINE T == {tasks[q] : q \in Queues}
    <2>1. tasks \in [Queues -> T] /\ \A S \in T : \E q \in Queues : tasks[q] = S
      BY DEF TypeInv
    <2> HIDE DEF T
    <2>2. tasks \in Surjection(Queues, T)
      BY <2>1 DEF Surjection
    <2>3. IsFiniteSet(T)
      BY <1>1, <2>2, FS_Surjection
    <2> QED BY <2>3 DEF T
  <1>3. \A S \in {tasks[q] : q \in Queues} : IsFiniteSet(S)
    BY DEF TypeInv
  <1> QED BY <1>2, <1>3, FS_UNION, FS_CardinalityType DEF AllTasks

(* Tasks are added by add_task(), which the owner calls between two calls  *)
(* and a task for a later queue, and taken by get_task(). *)
LEMMA TasksStep ==
  ASSUME [Next]_vars
  PROVE  \/ \E w \in Workers : get_task(w)
         \/ \E q \in Queues : \E c \in Costs :
              /\ add_task(q, c)
              /\ Idle \/ \E w \in Workers : wpc[w] = "run" /\ q > wtask[w].queue
         \/ tasks' = tasks /\ created' = created
  <1> DEFINE Goal ==
         \/ \E w \in Workers : get_task(w)
         \/ \E q \in Queues : \E c \in Costs :
              /\ add_task(q, c)
              /\ Idle \/ \E w \in Workers : wpc[w] = "run" /\ q > wtask[w].queue
         \/ tasks' = tasks /\ created' = created
  <1>1. ASSUME NEW w \in Workers, WorkerStep(w) \/ Subtask(w)
        PROVE  Goal
    BY <1>1 DEF WorkerStep, Subtask, TaskReturns, AddNullResult, add_exception, add_result
  <1>2. CASE OwnerCalls
    <2>1. CASE OwnerAddsTask
      BY <2>1 DEF OwnerAddsTask
    <2> QED
      BY <1>2, <2>1 DEF OwnerCalls, CallDrainQueue, CallGetResult, CallDestructor, Call,
                        PollResult, get_exception
  <1>3. CASE OwnerStep
    BY <1>3 DEF OwnerStep, get_result, drain_queue, Kill, JoinWorkers
  <1> QED BY <1>1, <1>2, <1>3 DEF Next, Over, vars, SpuriousWakeup

(* Somebody sleeps on the condition variable of queue 0, is counted, and is *)
(* the one whom add_task() wakes, whatever queue the task goes to. *)
LEMMA NotifyWakes ==
  ASSUME TypeInv, WaitingInv, NEW q \in Queues, Notify(q),
         NEW v \in Workers, wpc[v] = "asleep"
  PROVE  \E w \in Workers : wpc[w] = "asleep" /\ wpc' = [wpc EXCEPT ![w] = "woken"]
  <1>1. Cardinality(Waiting) > 0
    <2>1. v \in Waiting /\ IsFiniteSet(Waiting) /\ Cardinality(Waiting) \in Nat
      BY WorkersFinite DEF Waiting
    <2> QED BY <2>1, FS_EmptySet
  <1> DEFINE counted == {i \in Queues : nr_threads_waiting[i] > 0}
  <1>2. counted = {PreferredQueue}
    BY <1>1, Queue0 DEF WaitingInv
  <1>3. \E i \in Queues : First(i, q, counted) /\ Signal(i, wpc)
    BY <1>2 DEF Notify
  <1>4. Signal(PreferredQueue, wpc)
    BY <1>2, <1>3 DEF First
  <1> QED BY <1>4 DEF Signal

(* Whoever is on its way to a task is not lost by a wakeup, and a worker   *)
(* goes to sleep only when no task is left. *)
LEMMA SleeperStep ==
  ASSUME TypeInv, WaitingInv, NoSleeperBesideATask, [Next]_vars
  PROVE  NoSleeperBesideATask'
  <1> SUFFICES ASSUME NEW v \in Workers, wpc'[v] = "asleep"
               PROVE  Cardinality(AllTasks') <= Cardinality(Coming')
    BY DEF NoSleeperBesideATask, AllTasks, Coming
  <1> DEFINE Goal == Cardinality(AllTasks') <= Cardinality(Coming')
  <1>1. /\ IsFiniteSet(AllTasks) /\ Cardinality(AllTasks) \in Nat
        /\ IsFiniteSet(Coming) /\ Cardinality(Coming) \in Nat
        /\ IsFiniteSet(Coming') /\ Cardinality(Coming') \in Nat
    BY AllTasksFinite, WorkersFinite DEF Coming
  <1>2. wpc[v] = "asleep" => Cardinality(AllTasks) <= Cardinality(Coming)
    BY DEF NoSleeperBesideATask, AllTasks, Coming
  <1>3. ASSUME NEW w \in Workers, get_task(w)
        PROVE  Goal
    <2>1. wpc[w] \in {"get", "woken"} /\ wpc' = [wpc EXCEPT ![w] = wpc'[w]]
      BY <1>3, GetTaskType
    <2>2. CASE all_task_queues_empty /\ tasks' = tasks
      <3>1. AllTasks' = {}
        BY <2>2 DEF AllTasks, all_task_queues_empty
      <3> QED BY <1>1, <3>1, FS_EmptySet
    <2>3. CASE ~all_task_queues_empty
      <3>1. wpc'[w] = "run"
        BY <1>3, <2>3 DEF get_task, TypeInv
      <3>2. PICK i \in Queues : \E t \in tasks[i] :
                 t \in Tasks /\ t.queue = i /\ tasks' = [tasks EXCEPT ![i] = @ \ {t}]
        BY <1>3, <3>1, GetTaskType
      <3>3. PICK t \in tasks[i] : t.queue = i /\ tasks' = [tasks EXCEPT ![i] = @ \ {t}]
        BY <3>2
      <3>4. \A p \in Queues : tasks'[p] = tasks[p] \ {t}
        <4>1. ASSUME NEW p \in Queues PROVE tasks'[p] = tasks[p] \ {t}
          <5>1. CASE p = i
            BY <3>3, <5>1 DEF TypeInv
          <5>2. CASE p # i
            BY <3>3, <5>2 DEF TypeInv
          <5> QED BY <5>1, <5>2
        <4> QED BY <4>1
      <3>5. AllTasks' = AllTasks \ {t} /\ t \in AllTasks
        BY <3>4 DEF AllTasks
      <3>6. Cardinality(AllTasks') = Cardinality(AllTasks) - 1
        BY <1>1, <3>5, FS_RemoveElement
      <3>7. wpc[v] = "asleep"
        BY <2>1, <3>1 DEF TypeInv
      <3>8. Coming' = Coming \ {w} /\ w \in Coming
        BY <2>1, <3>1 DEF Coming, TypeInv
      <3>9. Cardinality(Coming') = Cardinality(Coming) - 1
        BY <1>1, <3>8, FS_RemoveElement
      <3> QED BY <1>1, <1>2, <3>6, <3>7, <3>9
    <2> QED BY <1>3, <2>2, <2>3 DEF get_task
  <1>4. ASSUME NEW q \in Queues, NEW c \in Costs, add_task(q, c)
        PROVE  Goal
    <2> DEFINE t == [id |-> added + 1, cost |-> c, queue |-> q]
    <2>1. Notify(q) /\ tasks' = [tasks EXCEPT ![q] = @ \union {t}]
      BY <1>4 DEF add_task
    <2> HIDE DEF t
    <2>2. wpc[v] = "asleep"
      BY <2>1, SignalType DEF TypeInv
    <2>3. PICK w \in Workers : wpc[w] = "asleep" /\ wpc' = [wpc EXCEPT ![w] = "woken"]
      BY <2>1, <2>2, NotifyWakes
    <2>4. Coming' = Coming \union {w} /\ w \notin Coming
      BY <2>3 DEF Coming, TypeInv
    <2>5. Cardinality(Coming') = Cardinality(Coming) + 1
      BY <1>1, <2>4, FS_AddElement
    <2>6. AllTasks' = AllTasks \union {t}
      BY <2>1 DEF AllTasks, TypeInv
    <2>7. Cardinality(AllTasks') <= Cardinality(AllTasks) + 1
      <3>1. CASE t \in AllTasks
        <4>1. AllTasks' = AllTasks
          BY <2>6, <3>1
        <4> QED BY <1>1, <4>1
      <3>2. CASE t \notin AllTasks
        <4>1. Cardinality(AllTasks') = Cardinality(AllTasks) + 1
          BY <1>1, <2>6, <3>2, FS_AddElement
        <4> QED BY <1>1, <4>1
      <3> QED BY <3>1, <3>2
    <2>8. Cardinality(AllTasks') \in Nat
      <3>1. IsFiniteSet(AllTasks')
        BY <1>1, <2>6, FS_AddElement
      <3> QED BY <3>1, FS_CardinalityType
    <2> QED BY <1>1, <1>2, <2>2, <2>5, <2>7, <2>8
  <1>5. ASSUME tasks' = tasks, wpc[v] = "asleep", Coming \subseteq Coming'
        PROVE  Goal
    <2>1. AllTasks' = AllTasks
      BY <1>5 DEF AllTasks
    <2>2. Cardinality(Coming) <= Cardinality(Coming')
      BY <1>1, <1>5, FS_Subset
    <2> QED BY <1>1, <1>2, <1>5, <2>1, <2>2
  <1>6. ASSUME tasks' = tasks, wpc' = wpc
        PROVE  Goal
    BY <1>5, <1>6 DEF Coming
  <1>7. CASE wpc' = [w \in Workers |-> IF wpc[w] = "asleep" THEN "woken" ELSE wpc[w]]
    BY <1>7 DEF TypeInv
  <1>8. ASSUME NEW w \in Workers, tasks' = tasks, wpc' = [wpc EXCEPT ![w] = wpc'[w]],
               \/ wpc[w] = "asleep" /\ wpc'[w] = "woken"
               \/ wpc[w] \in Busy /\ wpc'[w] \in {"get", "thrown"}
        PROVE  Goal
    <2>1. wpc[v] = "asleep" /\ Coming \subseteq Coming'
      BY <1>8 DEF Coming, TypeInv, Busy
    <2> QED BY <1>5, <1>8, <2>1
  <1> QED BY <1>3, <1>4, <1>6, <1>7, <1>8, PlaceStep, TasksStep

-------------------------------------------------------------------------------
(* Exceptions and results. *)

Answers == taken \union UNION {ToSet(results[q]) : q \in Queues}

(* Between add_exception() and add_result() the worker's task has thrown.  *)
ThrownInv == \A w \in Workers : wpc[w] = "thrown" => wtask[w].id \in Thrown

(* An exception that was pushed stays until it is fetched. *)
LEMMA ThrownGrows ==
  ASSUME TypeInv, [Next]_vars
  PROVE  /\ Thrown \subseteq Thrown'
         /\ \A w \in Workers : add_exception(w) => wtask[w].id \in Thrown'
  <1>1. ASSUME exceptions' = exceptions, fetched' = fetched PROVE Thrown' = Thrown
    BY <1>1 DEF Thrown
  <1>2. ASSUME NEW w \in Workers, add_exception(w)
        PROVE  Thrown \subseteq Thrown' /\ wtask[w].id \in Thrown'
    <2>1. wtask[w].queue \in Queues
      BY <1>2 DEF add_exception, TypeInv, Busy, Tasks
    <2>2. /\ exceptions' = [exceptions EXCEPT ![wtask[w].queue] = Append(@, wtask[w].id)]
          /\ fetched' = fetched
      BY <1>2 DEF add_exception, history
    <2> DEFINE q == wtask[w].queue
               e == wtask[w].id
    <2> HIDE DEF q, e
    <2>3. \A p \in Queues : p # q => exceptions'[p] = exceptions[p]
      BY <2>2 DEF TypeInv, q
    <2>4. exceptions'[q] = Append(exceptions[q], e) /\ exceptions[q] \in Seq(1 .. MaxTasks)
      BY <2>1, <2>2 DEF TypeInv, q, e
    <2>5. ToSet(exceptions[q]) \subseteq ToSet(exceptions'[q]) /\ e \in ToSet(exceptions'[q])
      <3> DEFINE s == exceptions[q]
                 u == exceptions'[q]
      <3>1. /\ Len(s) \in Nat /\ Len(u) = Len(s) + 1 /\ u[Len(s) + 1] = e
            /\ \A i \in 1 .. Len(s) : u[i] = s[i]
        BY <2>4
      <3> HIDE DEF s, u
      <3>2. /\ \A i \in 1 .. Len(s) : i \in 1 .. Len(u)
            /\ Len(s) + 1 \in 1 .. Len(u)
        BY <3>1
      <3>3. ToSet(s) \subseteq ToSet(u) /\ e \in ToSet(u)
        BY <3>1, <3>2 DEF ToSet
      <3> QED BY <3>3 DEF s, u
    <2>6. \A p \in Queues : ToSet(exceptions[p]) \subseteq ToSet(exceptions'[p])
      BY <2>3, <2>5
    <2> QED BY <2>1, <2>2, <2>5, <2>6 DEF Thrown, q, e
  <1>3. CASE get_exception
    <2>1. PICK q \in Queues : /\ exceptions[q] # <<>>
                              /\ fetched' = fetched \union {Head(exceptions[q])}
                              /\ exceptions' = [exceptions EXCEPT ![q] = Tail(@)]
      BY <1>3 DEF get_exception
    <2>2. exceptions[q] \in Seq(1 .. MaxTasks) /\ exceptions'[q] = Tail(exceptions[q])
      BY <2>1 DEF TypeInv
    <2>3. ToSet(exceptions[q]) \subseteq {Head(exceptions[q])} \union ToSet(exceptions'[q])
      <3> DEFINE s == exceptions[q]
                 u == exceptions'[q]
      <3>1. /\ Len(s) \in Nat \ {0} /\ Len(u) = Len(s) - 1 /\ Head(s) = s[1]
            /\ \A i \in 1 .. Len(u) : u[i] = s[i + 1]
        <4>1. s \in Seq(1 .. MaxTasks) /\ s # <<>> /\ u = Tail(s)
          BY <2>1, <2>2
        <4> HIDE DEF s, u
        <4> QED BY <4>1
      <3> HIDE DEF s, u
      <3>2. ASSUME NEW i \in 1 .. Len(s), i # 1
            PROVE  i - 1 \in 1 .. Len(u) /\ u[i - 1] = s[i]
        <4>1. i - 1 \in 1 .. Len(u)
          BY <3>1, <3>2
        <4>2. u[i - 1] = s[(i - 1) + 1]
          BY <3>1, <4>1
        <4> QED BY <4>1, <4>2
      <3>3. ToSet(s) \subseteq {Head(s)} \union ToSet(u)
        BY <3>1, <3>2 DEF ToSet
      <3> QED BY <3>3 DEF s, u
    <2>4. \A p \in Queues : p # q => exceptions'[p] = exceptions[p]
      BY <2>1 DEF TypeInv
    <2>5. Thrown \subseteq Thrown'
      BY <2>1, <2>3, <2>4 DEF Thrown
    <2>6. \A w \in Workers : ~add_exception(w)
      <3>1. ASSUME NEW w \in Workers, add_exception(w) PROVE FALSE
        <4>1. wpc' = [wpc EXCEPT ![w] = "thrown"] /\ wpc[w] = "run" /\ wpc' = wpc
          BY <1>3, <3>1 DEF add_exception, get_exception, wvars
        <4> QED BY <4>1 DEF TypeInv
      <3> QED BY <3>1
    <2> QED BY <2>5, <2>6
  <1>4. CASE ~get_exception /\ ~\E w \in Workers : add_exception(w)
    <2>1. exceptions' = exceptions /\ fetched' = fetched
      <3>1. ASSUME NEW q, NEW c, add_task(q, c)
            PROVE  exceptions' = exceptions /\ fetched' = fetched
        BY <3>1 DEF add_task, history
      <3>2. ASSUME NEW w, NEW null, add_result(w, null)
            PROVE  exceptions' = exceptions /\ fetched' = fetched
        BY <3>2 DEF add_result, history
      <3>3. ASSUME NEW w \in Workers, WorkerStep(w) \/ Subtask(w)
            PROVE  exceptions' = exceptions /\ fetched' = fetched
        BY <1>4, <3>1, <3>2, <3>3 DEF WorkerStep, Subtask, TaskReturns, AddNullResult,
                                      get_task, history
      <3>4. CASE OwnerCalls
        BY <1>4, <3>1, <3>4 DEF OwnerCalls, OwnerAddsTask, CallDrainQueue, CallGetResult,
                                CallDestructor, Call, PollResult, Join, history
      <3>5. CASE OwnerStep
        BY <3>5 DEF OwnerStep, get_result, drain_queue, Kill, JoinWorkers, Join, history
      <3>6. CASE SpuriousWakeup \/ Over \/ UNCHANGED vars
        BY <3>6 DEF SpuriousWakeup, Over, vars, history
      <3> QED BY <3>3, <3>4, <3>5, <3>6 DEF Next
    <2> QED BY <1>1, <1>4, <2>1
  <1> QED BY <1>2, <1>3, <1>4

(* An answer is added by add_result(), and joining moves it. *)
LEMMA AnswersStep ==
  ASSUME PoolInv, [Next]_vars
  PROVE  \/ Answers' \subseteq Answers
         \/ \E w \in Workers : \E null \in BOOLEAN :
              /\ wpc[w] \in Busy /\ (null => wpc[w] = "thrown")
              /\ Answers' \subseteq Answers \union {[id |-> wtask[w].id, null |-> null]}
  <1> USE DEF PoolInv
  <1> DEFINE Goal ==
         \/ Answers' \subseteq Answers
         \/ \E w \in Workers : \E null \in BOOLEAN :
              /\ wpc[w] \in Busy /\ (null => wpc[w] = "thrown")
              /\ Answers' \subseteq Answers \union {[id |-> wtask[w].id, null |-> null]}
  <1>1. ASSUME results' = results, taken' = taken PROVE Goal
    BY <1>1 DEF Answers
  <1>2. ASSUME NEW q \in Queues, NEW k \in 0 .. Len(results[q]), Join(q, k) PROVE Goal
    <2>1. /\ \A p \in Queues : p # q => results'[p] = results[p]
          /\ ToSet(results'[q]) \subseteq ToSet(results[q])
          /\ taken' \subseteq taken \union ToSet(results[q])
      BY <1>2, JoinEffect
    <2>2. Answers' \subseteq Answers
      BY <2>1 DEF Answers
    <2> QED BY <2>2
  <1>3. ASSUME NEW w \in Workers, NEW null \in BOOLEAN, add_result(w, null), wpc[w] \in Busy,
               null => wpc[w] = "thrown"
        PROVE  Goal
    <2> DEFINE r == [id |-> wtask[w].id, null |-> null]
               q == wtask[w].queue
    <2>1. /\ results'[q] = Append(results[q], r) /\ q \in Queues
          /\ \A p \in Queues : p # q => results'[p] = results[p]
      BY <1>3, AddResultType
    <2>2. taken' = taken
      BY <1>3 DEF add_result, history
    <2>3. results[q] \in Seq(Results)
      BY <2>1 DEF TypeInv
    <2> HIDE DEF r, q
    <2>4. ToSet(results'[q]) \subseteq ToSet(results[q]) \union {r}
      <3> DEFINE s == results[q]
                 u == results'[q]
      <3>1. Len(s) \in Nat /\ Len(u) = Len(s) + 1 /\ u[Len(s) + 1] = r
            /\ \A i \in 1 .. Len(s) : u[i] = s[i]
        <4>1. u = Append(s, r) /\ s \in Seq(Results)
          BY <2>1, <2>3
        <4> HIDE DEF s, u
        <4> QED BY <4>1
      <3> HIDE DEF s, u
      <3>2. \A i \in 1 .. Len(u) : i \in 1 .. Len(s) \/ i = Len(s) + 1
        BY <3>1
      <3>3. ToSet(u) \subseteq ToSet(s) \union {r}
        BY <3>1, <3>2 DEF ToSet
      <3> QED BY <3>3 DEF s, u
    <2>5. Answers' \subseteq Answers \union {r}
      BY <2>1, <2>2, <2>4 DEF Answers
    <2> QED BY <1>3, <2>5 DEF r
  <1>4. ASSUME NEW q, NEW c, add_task(q, c) PROVE Goal
    BY <1>1, <1>4 DEF add_task, history
  <1>5. ASSUME NEW w \in Workers, WorkerStep(w) \/ Subtask(w) PROVE Goal
    <2>1. CASE TaskReturns(w)
      BY <1>3, <2>1 DEF TaskReturns, Busy
    <2>2. CASE AddNullResult(w)
      BY <1>3, <2>2 DEF AddNullResult, Busy
    <2>3. CASE get_task(w) \/ add_exception(w)
      BY <1>1, <2>3 DEF get_task, add_exception, history
    <2>4. CASE Subtask(w)
      BY <1>4, <2>4 DEF Subtask
    <2> QED BY <1>5, <2>1, <2>2, <2>3, <2>4 DEF WorkerStep
  <1>6. CASE OwnerCalls
    <2>1. CASE PollResult
      <3>1. PICK q \in Queues : results[q] # <<>> /\ Join(q, 1)
        BY <2>1 DEF PollResult
      <3>2. 1 \in 0 .. Len(results[q])
        BY <3>1 DEF TypeInv
      <3> QED BY <1>2, <3>1, <3>2
    <2> QED
      BY <1>1, <1>4, <1>6, <2>1 DEF OwnerCalls, OwnerAddsTask, CallDrainQueue, CallGetResult,
                              CallDestructor, Call, get_exception, history
  <1>7. CASE get_result
    <2> DEFINE q == Head(todo)[2]
    <2>1. q \in Queues
      BY <1>7, TodoType DEF get_result, Step
    <2>2. \/ results' = results /\ taken' = taken
          \/ results[q] # <<>> /\ Join(q, 1)
      BY <1>7 DEF get_result, history
    <2> HIDE DEF q
    <2>3. results[q] # <<>> => 1 \in 0 .. Len(results[q])
      BY <2>1 DEF TypeInv
    <2> QED BY <1>1, <1>2, <2>1, <2>2, <2>3
  <1>8. CASE drain_queue
    BY <1>2, <1>8, DrainEffect
  <1>9. CASE Kill \/ JoinWorkers \/ SpuriousWakeup \/ UNCHANGED vars
    BY <1>1, <1>9 DEF Kill, JoinWorkers, SpuriousWakeup, vars, history
  <1> QED BY <1>5, <1>6, <1>7, <1>8, <1>9 DEF Next, OwnerStep, Over

(* A worker holds the task it took until it has answered it. *)
LEMMA CarryStep ==
  ASSUME TypeInv, [Next]_vars, NEW w \in Workers, wpc'[w] \in Busy
  PROVE  \/ wpc'[w] = wpc[w] /\ wtask'[w] = wtask[w]
         \/ wpc[w] = "run" /\ wpc'[w] = "thrown" /\ add_exception(w) /\ wtask'[w] = wtask[w]
         \/ wpc'[w] = "run" /\ get_task(w)
  <1> DEFINE Goal ==
         \/ wpc'[w] = wpc[w] /\ wtask'[w] = wtask[w]
         \/ wpc[w] = "run" /\ wpc'[w] = "thrown" /\ add_exception(w) /\ wtask'[w] = wtask[w]
         \/ wpc'[w] = "run" /\ get_task(w)
  <1>0. wpc'[w] # "get" /\ wpc'[w] # "ended" /\ wpc'[w] # "asleep" /\ wpc'[w] # "woken"
    BY DEF Busy
  <1>1. ASSUME NEW v \in Workers, WorkerStep(v)
        PROVE  Goal
    <2>1. CASE get_task(v)
      <3>1. /\ wpc' = [wpc EXCEPT ![v] = wpc'[v]] /\ wpc'[v] \in {"ended", "asleep", "run"}
            /\ \/ wtask' = wtask
               \/ \E t : wtask' = [wtask EXCEPT ![v] = t]
        BY <2>1, GetTaskType
      <3>2. CASE v = w
        BY <1>0, <2>1, <3>1, <3>2
      <3>3. CASE v # w
        BY <3>1, <3>3 DEF TypeInv
      <3> QED BY <3>2, <3>3
    <2>2. CASE TaskReturns(v) \/ AddNullResult(v)
      <3>1. wpc' = [wpc EXCEPT ![v] = "get"] /\ wtask' = [wtask EXCEPT ![v] = NoTask]
        BY <2>2 DEF TaskReturns, AddNullResult, add_result
      <3> QED BY <1>0, <3>1 DEF TypeInv
    <2>3. CASE add_exception(v)
      <3>1. wpc' = [wpc EXCEPT ![v] = "thrown"] /\ wtask' = wtask /\ wpc[v] = "run"
        BY <2>3 DEF add_exception
      <3>2. wpc'[v] = "thrown"
        BY <3>1 DEF TypeInv
      <3>3. CASE v = w
        BY <2>3, <3>1, <3>2, <3>3
      <3>4. CASE v # w
        BY <3>1, <3>4 DEF TypeInv
      <3> QED BY <3>3, <3>4
    <2> QED BY <1>1, <2>1, <2>2, <2>3 DEF WorkerStep
  <1>2. ASSUME wtask' = wtask,
               \/ wpc' = wpc
               \/ wpc' = [u \in Workers |-> IF wpc[u] = "asleep" THEN "woken" ELSE wpc[u]]
               \/ \E v \in Workers : wpc' = [wpc EXCEPT ![v] = "woken"]
        PROVE  Goal
    <2>1. wpc'[w] = wpc[w]
      BY <1>0, <1>2 DEF TypeInv
    <2> QED BY <1>2, <2>1
  <1>3. ASSUME NEW q \in Queues, NEW c \in Costs, add_task(q, c)
        PROVE  Goal
    <2>1. Notify(q) /\ wtask' = wtask
      BY <1>3 DEF add_task
    <2> QED BY <1>2, <2>1, SignalType
  <1>4. ASSUME NEW v \in Workers, Subtask(v)
        PROVE  Goal
    BY <1>3, <1>4 DEF Subtask
  <1>5. CASE OwnerCalls
    BY <1>2, <1>3, <1>5 DEF OwnerCalls, OwnerAddsTask, CallDrainQueue, CallGetResult,
                            CallDestructor, Call, PollResult, get_exception, wvars
  <1>6. CASE OwnerStep
    BY <1>2, <1>6 DEF OwnerStep, get_result, drain_queue, Kill, JoinWorkers, wvars
  <1>7. CASE SpuriousWakeup
    BY <1>2, <1>7 DEF SpuriousWakeup
  <1>8. CASE UNCHANGED vars
    BY <1>2, <1>8 DEF vars, wvars
  <1> QED BY <1>1, <1>4, <1>5, <1>6, <1>7, <1>8 DEF Next, Over

(* The exception is pushed before the NULL result, and neither is lost. *)
LEMMA ThrownStep ==
  ASSUME PoolInv, ThrownInv, ExceptionBeforeItsResult, [Next]_vars
  PROVE  ThrownInv' /\ ExceptionBeforeItsResult'
  <1>1. Thrown \subseteq Thrown' /\ TypeInv
    BY ThrownGrows DEF PoolInv
  <1>2. ASSUME NEW w \in Workers, wpc'[w] = "thrown"
        PROVE  wtask'[w].id \in Thrown'
    <2>1. CASE wpc[w] = wpc'[w] /\ wtask'[w] = wtask[w]
      BY <1>1, <1>2, <2>1 DEF ThrownInv
    <2>2. CASE add_exception(w)
      BY <2>2, <1>1, ThrownGrows DEF add_exception
    <2> QED BY <1>1, <1>2, <2>1, <2>2, CarryStep DEF Busy
  <1>3. ASSUME NEW r \in Answers', r.null
        PROVE  r.id \in Thrown'
    <2>1. CASE r \in Answers
      BY <1>1, <1>3, <2>1 DEF Answers, ExceptionBeforeItsResult
    <2>2. CASE \E w \in Workers : \E null \in BOOLEAN :
              /\ (null => wpc[w] = "thrown")
              /\ r = [id |-> wtask[w].id, null |-> null]
      <3>1. PICK w \in Workers : \E null \in BOOLEAN :
              /\ (null => wpc[w] = "thrown")
              /\ r = [id |-> wtask[w].id, null |-> null]
        BY <2>2
      <3>2. wpc[w] = "thrown" /\ r.id = wtask[w].id
        BY <1>3, <3>1
      <3> QED BY <1>1, <3>2 DEF ThrownInv
    <2> QED BY <1>3, <2>1, <2>2, AnswersStep
  <1> QED BY <1>2, <1>3 DEF ThrownInv, Answers, ExceptionBeforeItsResult

-------------------------------------------------------------------------------
(* The destructor. *)

LastStep == 2 * NQueues + 2
Rest(k) == SubSeq(Destructor, k, LastStep)
Drained(q) == tasks[q] = {} /\ Holding(q) = {}
Finished == owner \in {"gone", "aborted"}

(* Before the owner sets kill_threads it has drained the queues one after  *)
(* the other; afterwards it only drains and joins.  A call of the owner is *)
(* one step, or what is left of the destructor. *)
DestroyInv ==
  /\ \/ todo = <<>>
     \/ \E q \in Queues : todo \in {<< <<"drain", q>> >>, << <<"get", q>> >>}
     \/ \E k \in 1 .. LastStep : todo = Rest(k)
  /\ \A k \in 1 .. NQueues + 1 : todo = Rest(k) =>
       \A q \in Queues : q < k - 1 => Drained(q)
  /\ \A k \in 1 .. NQueues : todo = Rest(k) => snapshot \in {-1, created[k - 1]}
  /\ kill_threads =>
       /\ \A q \in Queues : Drained(q)
       /\ Finished \/ \E k \in NQueues + 2 .. LastStep : todo = Rest(k)

(* The steps of the destructor, by number. *)
LEMMA DestructorSteps ==
  /\ Destructor \in Seq(Ops \X Queues) /\ Len(Destructor) = LastStep
  /\ NQueues \in Nat \ {0} /\ LastStep \in Nat \ {0}
  /\ \A i \in 1 .. NQueues : Destructor[i] = <<"drain", i - 1>> /\ i - 1 \in Queues
  /\ Destructor[NQueues + 1] = <<"kill", 0>>
  /\ \A i \in NQueues + 2 .. LastStep - 1 : Destructor[i][1] = "drain"
  /\ Destructor[LastStep] = <<"join", 0>>
  <1>1. NQueues \in Nat \ {0} /\ LastStep \in Nat \ {0}
    BY PoolAssumption DEF PoolAssumption, LastStep
  <1> DEFINE d == drain_all_queues
             kill == << <<"kill", 0>> >>
             join == << <<"join", 0>> >>
             S == Ops \X Queues
  <1>2. d \in Seq(S) /\ Len(d) = NQueues /\ \A i \in 1 .. NQueues : d[i] = <<"drain", i - 1>>
    BY <1>1 DEF drain_all_queues, Ops, Queues
  <1>3. /\ kill \in Seq(S) /\ Len(kill) = 1 /\ kill[1] = <<"kill", 0>>
        /\ join \in Seq(S) /\ Len(join) = 1 /\ join[1] = <<"join", 0>>
    BY Queue0 DEF Ops
  <1>4. Destructor = ((d \o kill) \o d) \o join
    BY DEF Destructor
  <1> HIDE DEF d, kill, join, S
  <1> DEFINE a == d \o kill
             b == a \o d
  <1>5. /\ a \in Seq(S) /\ Len(a) = NQueues + 1
        /\ \A i \in 1 .. NQueues : a[i] = d[i]
        /\ a[NQueues + 1] = <<"kill", 0>>
    <2>1. /\ a \in Seq(S) /\ Len(a) = Len(d) + Len(kill)
          /\ \A i \in 1 .. Len(d) + Len(kill) :
               a[i] = IF i <= Len(d) THEN d[i] ELSE kill[i - Len(d)]
      BY <1>2, <1>3, ConcatProperties
    <2> HIDE DEF a
    <2> QED BY <1>1, <1>2, <1>3, <2>1
  <1> HIDE DEF a
  <1>6. /\ b \in Seq(S) /\ Len(b) = 2 * NQueues + 1
        /\ \A i \in 1 .. NQueues + 1 : b[i] = a[i]
        /\ \A i \in NQueues + 2 .. 2 * NQueues + 1 :
             b[i] = d[i - (NQueues + 1)] /\ i - (NQueues + 1) \in 1 .. NQueues
    <2>1. /\ b \in Seq(S) /\ Len(b) = Len(a) + Len(d)
          /\ \A i \in 1 .. Len(a) + Len(d) :
               b[i] = IF i <= Len(a) THEN a[i] ELSE d[i - Len(a)]
      BY <1>2, <1>5, ConcatProperties
    <2> HIDE DEF b
    <2> QED BY <1>1, <1>2, <1>5, <2>1
  <1> HIDE DEF b
  <1>7. /\ Destructor \in Seq(S) /\ Len(Destructor) = LastStep
        /\ \A i \in 1 .. LastStep - 1 : Destructor[i] = b[i]
        /\ Destructor[LastStep] = <<"join", 0>>
    <2>1. Destructor = b \o join
      BY <1>4 DEF a, b
    <2>2. /\ Destructor \in Seq(S) /\ Len(Destructor) = Len(b) + Len(join)
          /\ \A i \in 1 .. Len(b) + Len(join) :
               Destructor[i] = IF i <= Len(b) THEN b[i] ELSE join[i - Len(b)]
      BY <1>3, <1>6, <2>1, ConcatProperties
    <2> QED BY <1>1, <1>3, <1>6, <2>2 DEF LastStep
  <1>8. \A i \in 1 .. NQueues : Destructor[i] = <<"drain", i - 1>> /\ i - 1 \in Queues
    BY <1>1, <1>2, <1>5, <1>6, <1>7 DEF LastStep, Queues
  <1>9. Destructor[NQueues + 1] = <<"kill", 0>>
    BY <1>1, <1>5, <1>6, <1>7 DEF LastStep
  <1>10. ASSUME NEW i \in NQueues + 2 .. LastStep - 1 PROVE Destructor[i][1] = "drain"
    <2>1. i \in 1 .. LastStep - 1 /\ i \in NQueues + 2 .. 2 * NQueues + 1
      BY <1>1 DEF LastStep
    <2>2. Destructor[i] = d[i - (NQueues + 1)] /\ i - (NQueues + 1) \in 1 .. NQueues
      BY <1>6, <1>7, <2>1
    <2>3. Destructor[i] = <<"drain", (i - (NQueues + 1)) - 1>>
      BY <1>2, <2>2
    <2> QED BY <2>3
  <1> QED BY <1>1, <1>7, <1>8, <1>9, <1>10 DEF S

(* What is left of the destructor identifies the step it is at. *)
LEMMA RestSteps ==
  ASSUME NEW k \in 1 .. LastStep
  PROVE  /\ Rest(k) # <<>> /\ Head(Rest(k)) = Destructor[k] /\ Tail(Rest(k)) = Rest(k + 1)
         /\ Len(Rest(k)) = LastStep - k + 1
         /\ k = LastStep => Tail(Rest(k)) = <<>>
         /\ \A j \in 1 .. LastStep : Rest(j) = Rest(k) => j = k
  <1>1. Destructor \in Seq(Ops \X Queues) /\ Len(Destructor) = LastStep /\ LastStep \in Nat
    BY DestructorSteps
  <1>2. Head(Rest(k)) = Destructor[k] /\ Tail(Rest(k)) = Rest(k + 1)
    <2>1. k \in 1 .. Len(Destructor) /\ LastStep \in k .. Len(Destructor)
      BY <1>1
    <2> QED BY <1>1, <2>1, HeadTailOfSubSeq DEF Rest
  <1>3. \A j \in 1 .. LastStep : Len(Rest(j)) = LastStep - j + 1
    BY <1>1 DEF Rest
  <1>4. Rest(k) # <<>>
    <2>1. Len(Rest(k)) # 0
      BY <1>1, <1>3
    <2> QED BY <2>1
  <1>5. ASSUME k = LastStep PROVE Tail(Rest(k)) = <<>>
    <2>1. Rest(k + 1) = <<>>
      BY <1>1, <1>5, SubSeqEmpty DEF Rest
    <2> QED BY <1>2, <2>1
  <1>6. ASSUME NEW j \in 1 .. LastStep, Rest(j) = Rest(k) PROVE j = k
    BY <1>1, <1>3, <1>6
  <1> QED BY <1>2, <1>3, <1>4, <1>5, <1>6

(* A call of one step is not what is left of the destructor. *)
LEMMA OneStepCall ==
  ASSUME NEW op \in {"drain", "get"}, NEW q \in Queues, NEW k \in 1 .. LastStep
  PROVE  /\ << <<op, q>> >> # Rest(k) /\ << <<op, q>> >> # <<>>
         /\ Head(<< <<op, q>> >>) = <<op, q>> /\ Tail(<< <<op, q>> >>) = <<>>
  <1>1. ASSUME << <<op, q>> >> = Rest(k) PROVE FALSE
    <2>1. Len(Rest(k)) = LastStep - k + 1 /\ Len(Rest(k)) = 1 /\ LastStep \in Nat
      <3>1. Len(<< <<op, q>> >>) = 1
        OBVIOUS
      <3>2. Len(Rest(k)) = LastStep - k + 1
        BY RestSteps
      <3>3. Len(Rest(k)) = 1
        BY <1>1, <3>1
      <3>4. LastStep \in Nat
        BY PoolAssumption DEF LastStep, PoolAssumption
      <3> QED BY <3>2, <3>3, <3>4
    <2>2. k = LastStep
      <3>1. LastStep \in Int /\ k \in Int
        BY <2>1
      <3>2. LastStep - k + 1 = 1
        BY <2>1, Zenon
      <3> QED BY <3>1, <3>2
    <2>3. Head(Rest(k)) = <<"join", 0>>
      BY <2>2, RestSteps, DestructorSteps
    <2>4. Head(Rest(k)) = <<op, q>>
      <3>1. Head(<< <<op, q>> >>) = <<op, q>>
        OBVIOUS
      <3> QED BY <1>1, <3>1
    <2>5. <<op, q>>[1] = <<"join", 0>>[1]
      BY <2>3, <2>4
    <2> QED BY <2>5
  <1> QED BY <1>1

(* While the owner is in a call, nothing comes back to a queue that has    *)
(* been drained, as long as the queues before it have been, too: tasks add *)
(* tasks to later queues only. *)
LEMMA DrainedStep ==
  ASSUME TypeInv, [Next]_vars, ~Idle,
         NEW q \in Queues, \A p \in Queues : p <= q => Drained(p)
  PROVE  Drained(q)'
  <1> USE DEF Drained
  <1>0. tasks[q] = {} /\ Holding(q) = {} /\ Queues \subseteq Nat
    BY Queue0
  <1>1. tasks'[q] = {}
    <2>1. ASSUME NEW w \in Workers, get_task(w) PROVE tasks'[q] = {}
      <3>1. CASE tasks' = tasks
        BY <1>0, <3>1
      <3>2. CASE \E i \in Queues : \E t \in tasks[i] : tasks' = [tasks EXCEPT ![i] = @ \ {t}]
        BY <1>0, <3>2 DEF TypeInv
      <3> QED BY <2>1, <3>1, <3>2, GetTaskType
    <2>2. ASSUME NEW p \in Queues, NEW c \in Costs, add_task(p, c),
                 NEW w \in Workers, wpc[w] = "run", p > wtask[w].queue
          PROVE  tasks'[q] = {}
      <3> DEFINE i == wtask[w].queue
      <3>1. i \in Queues /\ w \in Holding(i)
        BY <2>2 DEF TypeInv, Busy, Tasks, Holding
      <3>2. p # q
        <4>1. ~(i <= q) /\ p > i
          BY <2>2, <3>1
        <4> HIDE DEF i
        <4>2. i \in Nat /\ q \in Nat /\ p \in Nat
          BY <1>0, <3>1
        <4> QED BY <4>1, <4>2
      <3>3. tasks' = [tasks EXCEPT ![p] = @ \union {[id |-> added + 1, cost |-> c, queue |-> p]}]
        BY <2>2 DEF add_task
      <3> QED BY <1>0, <3>2, <3>3 DEF TypeInv
    <2> QED BY <1>0, <2>1, <2>2, TasksStep
  <1>2. ASSUME NEW w \in Workers, w \in Holding(q)'
        PROVE  FALSE
    <2>1. wpc'[w] \in Busy /\ wtask'[w].queue = q
      BY <1>2 DEF Holding, Busy
    <2>2. CASE wpc[w] \in Busy /\ wtask'[w] = wtask[w]
      BY <1>0, <2>1, <2>2 DEF Holding, Busy
    <2>3. CASE wpc'[w] = "run" /\ get_task(w)
      <3>1. PICK i \in Queues : \E t \in tasks[i] :
                 t.queue = i /\ wtask' = [wtask EXCEPT ![w] = t]
        BY <2>3, GetTaskType
      <3>2. wtask'[w].queue = i /\ tasks[i] # {}
        BY <3>1 DEF TypeInv
      <3> QED BY <1>0, <2>1, <3>2
    <2> QED BY <2>1, <2>2, <2>3, CarryStep DEF Busy
  <1> QED BY <1>1, <1>2 DEF Holding

(* What a step does to the owner's call. *)
LEMMA TodoStep ==
  ASSUME [Next]_vars
  PROVE  \/ /\ todo' = todo /\ snapshot' = snapshot /\ kill_threads' = kill_threads
            /\ Finished => Finished'
         \/ /\ Idle /\ snapshot' = snapshot /\ kill_threads' = kill_threads
            /\ \/ todo' = Destructor
               \/ \E q \in Queues : todo' \in {<< <<"drain", q>> >>, << <<"get", q>> >>}
         \/ /\ Step("get") /\ todo' = Tail(todo) /\ kill_threads' = kill_threads
            /\ snapshot' = snapshot
         \/ drain_queue \/ Kill \/ JoinWorkers
  <1> DEFINE Goal ==
         \/ /\ todo' = todo /\ snapshot' = snapshot /\ kill_threads' = kill_threads
            /\ Finished => Finished'
         \/ /\ Idle /\ snapshot' = snapshot /\ kill_threads' = kill_threads
            /\ \/ todo' = Destructor
               \/ \E q \in Queues : todo' \in {<< <<"drain", q>> >>, << <<"get", q>> >>}
         \/ /\ Step("get") /\ todo' = Tail(todo) /\ kill_threads' = kill_threads
            /\ snapshot' = snapshot
         \/ drain_queue \/ Kill \/ JoinWorkers
  <1>1. ASSUME NEW q \in Queues, NEW c \in Costs, add_task(q, c)
        PROVE  Goal
    BY <1>1 DEF add_task, ovars, Finished
  <1>2. ASSUME NEW w \in Workers, WorkerStep(w) \/ Subtask(w)
        PROVE  Goal
    BY <1>1, <1>2 DEF WorkerStep, Subtask, get_task, TaskReturns, AddNullResult, add_exception,
                      add_result, WakeOwner, ovars, Finished
  <1>3. CASE get_result
    BY <1>3 DEF get_result, Step, Finished
  <1>4. CASE CallDrainQueue \/ CallGetResult \/ CallDestructor
    BY <1>4 DEF CallDrainQueue, CallGetResult, CallDestructor, Call
  <1>5. CASE OwnerAddsTask \/ PollResult \/ get_exception
    BY <1>1, <1>5 DEF OwnerAddsTask, PollResult, get_exception, ovars, Finished
  <1>6. CASE SpuriousWakeup \/ UNCHANGED vars
    BY <1>6 DEF SpuriousWakeup, vars, ovars, Finished
  <1> QED BY <1>2, <1>3, <1>4, <1>5, <1>6 DEF Next, OwnerStep, OwnerCalls, Over

(* The order of the destructor is kept. *)
LEMMA DestroyStep ==
  ASSUME PoolInv, DestroyInv, [Next]_vars
  PROVE  DestroyInv'
  <1> USE DEF PoolInv
  <1>0. /\ NQueues \in Nat \ {0} /\ LastStep \in Nat \ {0} /\ LastStep = 2 * NQueues + 2
        /\ Queues \subseteq Nat
    BY DestructorSteps, Queue0 DEF LastStep
  <1>1. ASSUME NEW k \in 1 .. LastStep, todo = Rest(k)
        PROVE  ~Idle
    BY <1>1, RestSteps DEF Idle
  <1>2. ASSUME kill_threads PROVE ~Idle
    <2>1. CASE Finished
      BY <2>1 DEF Finished, Idle
    <2>2. CASE \E k \in NQueues + 2 .. LastStep : todo = Rest(k)
      <3>1. \A k \in NQueues + 2 .. LastStep : k \in 1 .. LastStep
        BY <1>0
      <3> QED BY <1>1, <2>2, <3>1
    <2> QED BY <1>2, <2>1, <2>2 DEF DestroyInv
  <1>3. ASSUME NEW k \in 1 .. NQueues + 1, todo = Rest(k), NEW q \in Queues, q < k - 1
        PROVE  Drained(q)' /\ Drained(q)
    <2>1. \A p \in Queues : p <= q => Drained(p)
      <3>1. \A p \in Queues : p <= q => p < k - 1
        BY <1>0, <1>3
      <3> QED BY <1>3, <3>1 DEF DestroyInv
    <2>2. k \in 1 .. LastStep
      BY <1>0
    <2> QED BY <1>0, <1>1, <1>3, <2>1, <2>2, DrainedStep
  <1>4. ASSUME kill_threads, NEW q \in Queues
        PROVE  Drained(q)'
    BY <1>2, <1>4, DrainedStep DEF DestroyInv
  <1>5. ASSUME NEW k \in 1 .. NQueues, todo = Rest(k)
        PROVE  created'[k - 1] = created[k - 1]
    <2>0. k - 1 \in Queues /\ k \in 1 .. NQueues + 1 /\ k \in 1 .. LastStep
      BY <1>0 DEF Queues
    <2>1. ASSUME NEW p \in Queues, NEW c \in Costs, add_task(p, c),
                 NEW w \in Workers, wpc[w] = "run", p > wtask[w].queue
          PROVE  p # k - 1
      <3> DEFINE i == wtask[w].queue
      <3>1. i \in Queues /\ w \in Holding(i)
        BY <2>1 DEF TypeInv, Busy, Tasks, Holding
      <3>2. ~Drained(i)
        BY <3>1 DEF Drained
      <3> HIDE DEF i
      <3>3. ~(i < k - 1)
        BY <1>5, <2>0, <3>1, <3>2 DEF DestroyInv
      <3>4. p > i
        BY <2>1 DEF i
      <3> QED BY <1>0, <3>1, <3>3, <3>4
    <2>2. ASSUME NEW p \in Queues, NEW c \in Costs, add_task(p, c), p # k - 1
          PROVE  created'[k - 1] = created[k - 1]
      <3>1. created' = [created EXCEPT ![p] = @ + 1]
        BY <2>2 DEF add_task
      <3> QED BY <2>0, <2>2, <3>1 DEF TypeInv
    <2>3. ASSUME NEW w \in Workers, get_task(w)
          PROVE  created' = created
      BY <2>3 DEF get_task
    <2> QED BY <1>1, <1>5, <2>0, <2>1, <2>2, <2>3, TasksStep
  <1>6. CASE /\ todo' = todo /\ snapshot' = snapshot /\ kill_threads' = kill_threads
             /\ Finished => Finished'
    <2>1. \/ todo' = <<>>
          \/ \E q \in Queues : todo' \in {<< <<"drain", q>> >>, << <<"get", q>> >>}
          \/ \E k \in 1 .. LastStep : todo' = Rest(k)
      BY <1>6 DEF DestroyInv
    <2>2. \A k \in 1 .. NQueues + 1 : todo' = Rest(k) =>
            \A q \in Queues : q < k - 1 => Drained(q)'
      BY <1>3, <1>6
    <2>3. \A k \in 1 .. NQueues : todo' = Rest(k) => snapshot' \in {-1, created'[k - 1]}
      BY <1>5, <1>6 DEF DestroyInv
    <2>4. kill_threads' => \A q \in Queues : Drained(q)'
      BY <1>4, <1>6
    <2>5. kill_threads' => Finished' \/ \E k \in NQueues + 2 .. LastStep : todo' = Rest(k)
      BY <1>6 DEF DestroyInv
    <2> QED BY <2>1, <2>2, <2>3, <2>4, <2>5 DEF DestroyInv, Rest
  <1>7. ASSUME ~kill_threads', \A k \in 1 .. LastStep : todo' # Rest(k),
               \/ todo' = <<>>
               \/ \E q \in Queues : todo' \in {<< <<"drain", q>> >>, << <<"get", q>> >>}
        PROVE  DestroyInv'
    <2>1. \A k \in 1 .. NQueues + 1 : k \in 1 .. LastStep
      BY <1>0
    <2>2. \A k \in 1 .. NQueues : k \in 1 .. LastStep
      BY <1>0
    <2> QED BY <1>7, <2>1, <2>2 DEF DestroyInv, Rest
  <1>8. CASE /\ Idle /\ snapshot' = snapshot /\ kill_threads' = kill_threads
             /\ \/ todo' = Destructor
                \/ \E q \in Queues : todo' \in {<< <<"drain", q>> >>, << <<"get", q>> >>}
    <2>1. ~kill_threads' /\ snapshot' = -1
      BY <1>2, <1>8 DEF Idle, DrainInv
    <2>2. CASE \E q \in Queues : todo' \in {<< <<"drain", q>> >>, << <<"get", q>> >>}
      <3>1. \A k \in 1 .. LastStep : todo' # Rest(k)
        BY <2>2, OneStepCall
      <3> QED BY <1>7, <2>1, <2>2, <3>1
    <2>3. CASE todo' = Destructor
      <3>1. todo' = Rest(1) /\ 1 \in 1 .. LastStep
        <4>1. SubSeq(Destructor, 1, Len(Destructor)) = Destructor
          BY DestructorSteps, SubSeqFull
        <4> QED BY <1>0, <2>3, <4>1, DestructorSteps DEF Rest
      <3>2. \A k \in 1 .. LastStep : todo' = Rest(k) => k = 1
        BY <3>1, RestSteps
      <3>3. \A k \in 1 .. NQueues + 1 : todo' = Rest(k) =>
              \A q \in Queues : ~(q < k - 1)
        <4>1. \A k \in 1 .. NQueues + 1 : k \in 1 .. LastStep
          BY <1>0
        <4> QED BY <1>0, <3>2, <4>1
      <3> QED BY <2>1, <3>1, <3>3 DEF DestroyInv, Rest
    <2> QED BY <1>8, <2>2, <2>3
  <1>9. ASSUME NEW k \in 1 .. LastStep, todo = Rest(k)
        PROVE  /\ todo # <<>> /\ Head(todo) = Destructor[k]
               /\ \/ k \in 1 .. NQueues /\ Head(todo) = <<"drain", k - 1>> /\ k - 1 \in Queues
                  \/ k = NQueues + 1 /\ Head(todo)[1] = "kill"
                  \/ k \in NQueues + 2 .. LastStep - 1 /\ Head(todo)[1] = "drain"
                  \/ k = LastStep /\ Head(todo)[1] = "join"
               /\ Tail(todo) = Rest(k + 1)
    <2>1. todo # <<>> /\ Head(todo) = Destructor[k] /\ Tail(todo) = Rest(k + 1)
      BY <1>9, RestSteps
    <2>2. \/ k \in 1 .. NQueues \/ k = NQueues + 1
          \/ k \in NQueues + 2 .. LastStep - 1 \/ k = LastStep
      BY <1>0
    <2> QED BY <2>1, <2>2, DestructorSteps
  <1>10. ASSUME NEW q \in Queues, NEW op \in {"drain", "get"}, todo = << <<op, q>> >>
         PROVE  /\ Head(todo)[1] = op /\ Tail(todo) = <<>>
                /\ \A k \in 1 .. LastStep : todo # Rest(k)
                /\ ~Finished => ~kill_threads
    <2>1. /\ Head(todo)[1] = op /\ Tail(todo) = <<>>
          /\ \A k \in 1 .. LastStep : todo # Rest(k)
      BY <1>10, OneStepCall
    <2>2. \A k \in NQueues + 2 .. LastStep : k \in 1 .. LastStep
      BY <1>0
    <2> QED BY <2>1, <2>2 DEF DestroyInv
  <1>11. ASSUME todo' = <<>> PROVE \A k \in 1 .. LastStep : todo' # Rest(k)
    BY <1>11, RestSteps
  <1>12. CASE /\ Step("get") /\ todo' = Tail(todo) /\ kill_threads' = kill_threads
              /\ snapshot' = snapshot
    <2>1. owner = "awake" /\ todo # <<>> /\ Head(todo)[1] = "get"
      BY <1>12 DEF Step
    <2>2. \A k \in 1 .. LastStep : todo # Rest(k)
      BY <1>9, <2>1
    <2>3. PICK q \in Queues, op \in {"drain", "get"} : todo = << <<op, q>> >>
      BY <2>1, <2>2 DEF DestroyInv
    <2>4. todo' = <<>> /\ ~kill_threads'
      BY <1>10, <1>12, <2>1, <2>3 DEF Finished
    <2> QED BY <1>7, <1>11, <2>4
  <1>13. CASE Kill
    <2>1. /\ owner = "awake" /\ todo # <<>> /\ Head(todo)[1] = "kill"
          /\ todo' = Tail(todo) /\ kill_threads' = TRUE
          /\ tasks' = tasks /\ wtask' = wtask
      BY <1>13 DEF Kill, Step
    <2>2. \E k \in 1 .. LastStep : todo = Rest(k)
      BY <1>10, <2>1 DEF DestroyInv
    <2>3. todo = Rest(NQueues + 1) /\ NQueues + 1 \in 1 .. LastStep
      BY <1>0, <1>9, <2>1, <2>2
    <2>4. todo' = Rest(NQueues + 2) /\ NQueues + 2 \in NQueues + 2 .. LastStep
      <3>1. todo' = Rest((NQueues + 1) + 1)
        BY <1>9, <2>1, <2>3
      <3>2. (NQueues + 1) + 1 = NQueues + 2 /\ NQueues + 2 \in NQueues + 2 .. LastStep
        BY <1>0
      <3> QED BY <3>1, <3>2
    <2>5. ASSUME NEW q \in Queues PROVE Drained(q)'
      <3>1. q < (NQueues + 1) - 1 /\ NQueues + 1 \in 1 .. NQueues + 1
        BY <1>0 DEF Queues
      <3> QED BY <1>3, <2>3, <3>1
    <2>6. \A k \in 1 .. LastStep : todo' = Rest(k) => k = NQueues + 2
      <3>1. NQueues + 2 \in 1 .. LastStep
        BY <1>0
      <3> QED BY <2>4, <3>1, RestSteps
    <2>7. \A k \in 1 .. NQueues + 1 : k \in 1 .. LastStep /\ k # NQueues + 2
      BY <1>0
    <2>8. \A k \in 1 .. NQueues : k \in 1 .. LastStep /\ k # NQueues + 2
      BY <1>0
    <2>9. NQueues + 2 \in 1 .. LastStep
      BY <1>0
    <2> QED BY <2>4, <2>5, <2>6, <2>7, <2>8, <2>9 DEF DestroyInv, Rest
  <1>14. CASE JoinWorkers
    <2>1. owner = "awake" /\ todo' = <<>> /\ Finished' /\ kill_threads' = kill_threads
      BY <1>14 DEF JoinWorkers, Step, Finished
    <2>2. \A k \in 1 .. LastStep : todo' # Rest(k)
      BY <1>11, <2>1
    <2>3. \A k \in 1 .. NQueues + 1 : k \in 1 .. LastStep
      BY <1>0
    <2>4. \A k \in 1 .. NQueues : k \in 1 .. LastStep
      BY <1>0
    <2> QED BY <1>4, <2>1, <2>2, <2>3, <2>4 DEF DestroyInv, Rest
  <1>15. CASE drain_queue
    <2> DEFINE q == Head(todo)[2]
    <2>1. /\ todo # <<>> /\ Head(todo)[1] = "drain" /\ q \in Queues
          /\ tasks' = tasks /\ created' = created /\ kill_threads' = kill_threads
          /\ wvars' = wvars /\ ~Finished
      BY <1>15, DrainEffect DEF drain_queue, Step, Finished
    <2>2. \A p : Drained(p)' <=> Drained(p)
      BY <2>1 DEF Drained, Holding, wvars
    <2>3. PICK n \in 0 .. Len(results[q]) :
              \/ /\ todo' = Tail(todo) /\ snapshot' = -1
                 /\ \/ snapshot = -1 /\ joined[q] + n = created[q]
                    \/ snapshot # -1 /\ joined[q] + n = snapshot
              \/ /\ todo' = todo
                 /\ IF snapshot = -1 THEN snapshot' = created[q] ELSE snapshot' = snapshot
      BY <1>15, DrainEffect
    <2>4. CASE \E p \in Queues, op \in {"drain", "get"} : todo = << <<op, p>> >>
      <3>1. /\ Tail(todo) = <<>> /\ ~kill_threads
            /\ \A k \in 1 .. LastStep : todo # Rest(k)
        BY <1>10, <2>1, <2>4
      <3>2. \A k \in 1 .. LastStep : todo' # Rest(k)
        BY <1>11, <2>3, <3>1
      <3>3. \/ todo' = <<>>
            \/ \E p \in Queues : todo' \in {<< <<"drain", p>> >>, << <<"get", p>> >>}
        BY <2>3, <2>4, <3>1
      <3> QED BY <1>7, <2>1, <3>1, <3>2, <3>3
    <2>5. ASSUME NEW k \in 1 .. LastStep, todo = Rest(k)
          PROVE  DestroyInv'
      <3>1. Tail(todo) = Rest(k + 1)
        BY <1>9, <2>5
      <3>2. \/ k \in 1 .. NQueues /\ q = k - 1 /\ k - 1 \in Queues
            \/ k \in NQueues + 2 .. LastStep - 1
        BY <1>9, <2>1, <2>5
      <3>3. k + 1 \in 1 .. LastStep /\ k \in 1 .. LastStep /\ k \in Nat
            /\ (k \in NQueues + 2 .. LastStep - 1 => k + 1 \in NQueues + 2 .. LastStep)
        BY <1>0, <3>2
      <3>4. kill_threads => k \in NQueues + 2 .. LastStep - 1
        <4>1. kill_threads => \E j \in NQueues + 2 .. LastStep : todo = Rest(j)
          BY <2>1 DEF DestroyInv
        <4>2. \A j \in NQueues + 2 .. LastStep : j \in 1 .. LastStep /\ j \notin 1 .. NQueues
          BY <1>0
        <4>3. kill_threads => k \notin 1 .. NQueues
          BY <2>5, <4>1, <4>2, RestSteps
        <4> QED BY <3>2, <4>3
      <3>5. \A p \in Queues : kill_threads' => Drained(p)'
        BY <1>4, <2>1
      <3>6. ASSUME k \in 1 .. NQueues
            PROVE  \A p \in Queues : p < k - 1 => Drained(p)'
        <4>1. k \in 1 .. NQueues + 1
          BY <1>0, <3>6
        <4> QED BY <1>3, <2>5, <4>1
      <3>7. ASSUME k \in 1 .. NQueues
            PROVE  snapshot \in {-1, created[k - 1]}
        BY <2>5, <3>7 DEF DestroyInv
      <3>8. CASE todo' = Tail(todo)
        <4>1. todo' = Rest(k + 1) /\ \A j \in 1 .. LastStep : todo' = Rest(j) => j = k + 1
          BY <3>1, <3>3, <3>8, RestSteps
        <4>2. ASSUME k \in 1 .. NQueues
              PROVE  \A p \in Queues : p < (k + 1) - 1 => Drained(p)'
          <5>1. todo # Tail(todo)
            <6>1. k + 1 # k
              BY <3>3
            <6> QED BY <2>5, <3>1, <3>3, <6>1, RestSteps
          <5>2. /\ snapshot' = -1
                /\ \/ snapshot = -1 /\ joined[q] + n = created[q]
                   \/ snapshot # -1 /\ joined[q] + n = snapshot
            BY <2>3, <3>8, <5>1
          <5>3. q = k - 1 /\ q \in Queues
            BY <1>0, <2>1, <3>2, <4>2
          <5>4. joined[q] + n = created[q]
            BY <3>7, <4>2, <5>2, <5>3
          <5> HIDE DEF q
          <5>5. n = Len(results[q]) /\ joined[q] + Len(results[q]) = created[q]
            BY <5>3, <5>4, JoinedBound
          <5>6. Drained(q)
            BY <5>3, <5>5, JoinedBound DEF Drained
          <5>7. \A p \in Queues : p < (k + 1) - 1 => p = q \/ p < k - 1
            BY <1>0, <3>3, <5>3
          <5> QED BY <2>2, <3>6, <4>2, <5>6, <5>7
        <4>3. ASSUME k \in 1 .. NQueues PROVE snapshot' = -1
          <5>1. todo # Tail(todo)
            <6>1. k + 1 # k
              BY <3>3
            <6> QED BY <2>5, <3>1, <3>3, <6>1, RestSteps
          <5> QED BY <2>3, <3>8, <5>1
        <4>4. \A j \in 1 .. NQueues + 1 : todo' = Rest(j) =>
                \A p \in Queues : p < j - 1 => Drained(p)'
          <5>1. ASSUME NEW j \in 1 .. NQueues + 1, todo' = Rest(j)
                PROVE  j = k + 1 /\ k \in 1 .. NQueues
            <6>1. j \in 1 .. LastStep
              BY <1>0
            <6>2. j = k + 1
              BY <4>1, <5>1, <6>1
            <6> QED BY <1>0, <3>2, <6>2
          <5> QED BY <4>2, <5>1
        <4>5. \A j \in 1 .. NQueues : todo' = Rest(j) => snapshot' \in {-1, created'[j - 1]}
          <5>1. ASSUME NEW j \in 1 .. NQueues, todo' = Rest(j)
                PROVE  k \in 1 .. NQueues
            <6>1. j \in 1 .. LastStep
              BY <1>0
            <6>2. j = k + 1
              BY <4>1, <5>1, <6>1
            <6> QED BY <1>0, <3>3, <6>2
          <5> QED BY <4>3, <5>1
        <4>6. kill_threads' => \E j \in NQueues + 2 .. LastStep : todo' = Rest(j)
          BY <2>1, <3>3, <3>4, <4>1
        <4> QED BY <3>3, <3>5, <4>1, <4>4, <4>5, <4>6 DEF DestroyInv, Rest
      <3>9. CASE todo' # Tail(todo)
        <4>1. /\ todo' = todo
              /\ IF snapshot = -1 THEN snapshot' = created[q] ELSE snapshot' = snapshot
          BY <2>3, <3>9
        <4>2. \A j \in 1 .. LastStep : todo' = Rest(j) => j = k
          BY <2>5, <4>1, RestSteps
        <4>3. \A j \in 1 .. NQueues + 1 : todo' = Rest(j) =>
                \A p \in Queues : p < j - 1 => Drained(p)'
          BY <1>3, <4>1
        <4>4. \A j \in 1 .. NQueues : todo' = Rest(j) => snapshot' \in {-1, created'[j - 1]}
          <5>1. ASSUME NEW j \in 1 .. NQueues, todo' = Rest(j)
                PROVE  j = k /\ q = k - 1
            <6>1. j \in 1 .. LastStep
              BY <1>0
            <6>2. j = k
              BY <4>2, <5>1, <6>1
            <6> QED BY <1>0, <3>2, <6>2
          <5> QED BY <2>1, <3>7, <4>1, <5>1
        <4>5. kill_threads' => \E j \in NQueues + 2 .. LastStep : todo' = Rest(j)
          <5>1. k \in NQueues + 2 .. LastStep - 1 => k \in NQueues + 2 .. LastStep
            BY <1>0
          <5> QED BY <2>1, <2>5, <3>4, <4>1, <5>1
        <4> QED BY <2>5, <3>5, <4>1, <4>3, <4>4, <4>5 DEF DestroyInv, Rest
      <3> QED BY <3>8, <3>9
    <2> QED BY <2>1, <2>4, <2>5 DEF DestroyInv
  <1> QED BY <1>6, <1>8, <1>12, <1>13, <1>14, <1>15, TodoStep

-------------------------------------------------------------------------------
(* What the invariants say of every reachable state. *)

PoolSafe ==
  /\ PoolInv /\ WaitingInv /\ NoSleeperBesideATask
  /\ ThrownInv /\ ExceptionBeforeItsResult /\ DestroyInv

(* The invariants hold from the constructor on. *)
LEMMA PoolSafeAlways == Spec => []PoolSafe
  <1>1. Init => PoolSafe
    <2> SUFFICES ASSUME Init PROVE PoolSafe
      OBVIOUS
    <2>1. PoolInv
      BY TypeInit DEF PoolInv
    <2>2. WaitingInv
      <3>1. Waiting = {}
        BY DEF Init, Waiting
      <3> QED BY <3>1, FS_EmptySet DEF Init, WaitingInv
    <2>3. NoSleeperBesideATask
      BY DEF Init, NoSleeperBesideATask
    <2>4. ThrownInv
      BY DEF Init, ThrownInv
    <2>5. ExceptionBeforeItsResult
      BY DEF Init, ExceptionBeforeItsResult, ToSet
    <2>6. DestroyInv
      <3>1. \A k \in 1 .. LastStep : todo # Rest(k)
        BY RestSteps DEF Init
      <3>2. \A k \in 1 .. NQueues + 1 : k \in 1 .. LastStep
        BY DestructorSteps DEF LastStep
      <3>3. \A k \in 1 .. NQueues : k \in 1 .. LastStep
        BY DestructorSteps DEF LastStep
      <3> QED BY <3>1, <3>2, <3>3 DEF Init, DestroyInv
    <2> QED BY <2>1, <2>2, <2>3, <2>4, <2>5, <2>6 DEF PoolSafe
  <1>2. PoolSafe /\ [Next]_vars => PoolSafe'
    <2> SUFFICES ASSUME PoolSafe, [Next]_vars PROVE PoolSafe'
      OBVIOUS
    <2>1. PoolInv'
      BY TypeStep, AccountedStep DEF PoolSafe, PoolInv
    <2>2. WaitingInv' /\ NoSleeperBesideATask'
      BY WaitingStep, SleeperStep DEF PoolSafe, PoolInv
    <2>3. ThrownInv' /\ ExceptionBeforeItsResult'
      BY ThrownStep DEF PoolSafe
    <2>4. DestroyInv'
      BY DestroyStep DEF PoolSafe
    <2> QED BY <2>1, <2>2, <2>3, <2>4 DEF PoolSafe
  <1> QED BY <1>1, <1>2, PTL DEF Spec

(* The pool's variables have their types in every run, and the number of   *)
(* waiting threads is the number of threads in cond.wait(). *)
THEOREM PoolTypes == Spec => []TypeOK
  <1>1. ASSUME PoolSafe PROVE TypeOK
    <2> USE <1>1 DEF PoolSafe, PoolInv
    <2>1. tasks \in [Queues -> SUBSET Tasks] /\ added \in 0 .. MaxTasks
          /\ kill_threads \in BOOLEAN /\ owner \in {"awake", "asleep", "gone", "aborted"}
          /\ wpc \in [Workers -> {"get", "asleep", "woken", "run", "thrown", "ended"}]
          /\ wtask \in [Workers -> Tasks \union {NoTask}]
      BY DEF TypeInv, Wpcs
    <2>2. ASSUME NEW q \in Queues
          PROVE  /\ ToSet(results[q]) \subseteq [id : 1 .. MaxTasks, null : BOOLEAN]
                 /\ ToSet(exceptions[q]) \subseteq 1 .. MaxTasks
      <3>1. /\ results[q] \in Seq(Results) /\ exceptions[q] \in Seq(1 .. MaxTasks)
        BY DEF TypeInv
      <3>2. ToSet(results[q]) \subseteq Results
        BY <3>1, ToSetOfSeq
      <3>3. ToSet(exceptions[q]) \subseteq 1 .. MaxTasks
        BY <3>1, ToSetOfSeq
      <3> QED BY <3>2, <3>3 DEF Results
    <2>3. MaxTasks \in Nat
      BY PoolAssumption DEF PoolAssumption
    <2>4. ASSUME NEW q \in Queues
          PROVE  created[q] \in 0 .. MaxTasks /\ joined[q] \in 0 .. MaxTasks
      <3>1. /\ joined[q] + Len(results[q]) <= created[q]
            /\ joined[q] \in Nat /\ Len(results[q]) \in Nat /\ created[q] \in Nat
        BY JoinedBound
      <3>2. created[q] <= added /\ added <= MaxTasks /\ added \in Nat
        BY <2>3 DEF TypeInv
      <3> QED BY <2>3, <3>1, <3>2
    <2>5. created \in [Queues -> 0 .. MaxTasks] /\ joined \in [Queues -> 0 .. MaxTasks]
      BY <2>4 DEF TypeInv
    <2>6. nr_threads_waiting = [q \in Queues |->
            IF q = PreferredQueue THEN Cardinality({w \in Workers : wpc[w] \in {"asleep", "woken"}})
            ELSE 0]
      BY DEF WaitingInv, Waiting
    <2>7. ToSet(todo) \subseteq {"drain", "get", "kill", "join"} \X Queues
      <3>1. todo \in Seq(Ops \X Queues)
        BY DEF TypeInv
      <3> QED BY <3>1, ToSetOfSeq DEF Ops
    <2>8. snapshot \in -1 .. MaxTasks
      <3>1. CASE snapshot = -1
        BY <2>3, <3>1
      <3>2. CASE snapshot # -1
        <4>1. Head(todo)[2] \in Queues /\ snapshot \in Int
          BY <3>2, TodoType DEF DrainInv, TypeInv
        <4>2. joined[Head(todo)[2]] <= snapshot /\ snapshot <= created[Head(todo)[2]]
          BY <3>2 DEF DrainInv
        <4> QED BY <2>3, <2>4, <4>1, <4>2
      <3> QED BY <3>1, <3>2
    <2> QED BY <2>1, <2>2, <2>5, <2>6, <2>7, <2>8 DEF TypeOK
  <1> QED BY <1>1, PoolSafeAlways, PTL

(* add_task() loses no wakeup: whoever sleeps does so beside no more tasks *)
(* than other workers are coming for, although all workers sleep on the    *)
(* condition variable of queue 0. *)
THEOREM NoWakeupLost == Spec => []NoSleeperBesideATask
  <1>1. PoolSafe => NoSleeperBesideATask
    BY DEF PoolSafe
  <1> QED BY <1>1, PoolSafeAlways, PTL

(* add_exception() comes before add_result() in thread_work_on_tasks(), so *)
(* who has joined a NULL result finds its exception. *)
THEOREM ExceptionsAreThere == Spec => []ExceptionBeforeItsResult
  <1>1. PoolSafe => ExceptionBeforeItsResult
    BY DEF PoolSafe
  <1> QED BY <1>1, PoolSafeAlways, PTL

(* The destructor sets kill_threads when every queue is drained: no task   *)
(* waits or runs then, and none can be added afterwards. *)
THEOREM KillLosesNoTask == Spec => []NothingLeftAtKill
  <1>1. PoolSafe => NothingLeftAtKill
    BY DEF PoolSafe, DestroyInv, Drained, NothingLeftAtKill, all_task_queues_empty
  <1> QED BY <1>1, PoolSafeAlways, PTL
================================================================================
