--------------------------- MODULE QueryPool_proof ---------------------------
(***************************************************************************)
(* Proofs about QueryPool, for every set of queries, tables, workers and   *)
(* requests, and every capacity.                                           *)
(*                                                                         *)
(* The pool calls the lock manager and is one of its users: each step of   *)
(* the pool is a call, or a step of somebody else, in TableLocks, whose    *)
(* proofs say that the books stay right (LocksKeep).  What is left is      *)
(* where a query is (Placed) and whom it has told (Told).                  *)
(***************************************************************************)
EXTENDS QueryPool, QueueLemmas, FiniteSetTheorems

\* The lock manager with its proofs, as QueryPool instantiates it.
L == INSTANCE TableLocks_proof WITH client <- LockClient, cleared <- shuttingDown

-----------------------------------------------------------------------------
(* The lock manager *)

LEMMA LockAssumptions == L!FiniteQueries /\ L!RequestAssumption
<1>1. L!FiniteQueries
  BY PoolAssumption DEF L!FiniteQueries, L!IsFiniteSet, IsFiniteSet
<1>2. L!RequestAssumption
  BY PoolAssumption DEF L!RequestAssumption, L!Read, L!Write
<1>3. QED  BY <1>1, <1>2

\* No call of the pool disturbs the books of the lock manager.
LEMMA LocksKeep ==
  L!IInv => /\ \A q \in Query :
                 /\ \A r \in Request : L!Acquire(q, r) => L!IInv'
                 /\ \A r \in Request : \A c : L!AsksForNothing(q, r, c) => L!IInv'
                 /\ L!Proceed(q) \/ L!GivesBack(q) => L!IInv'
            /\ L!ClearAll \/ UNCHANGED L!lockVars => L!IInv'
BY LockAssumptions, L!CallsKeep

\* Both instances of TableLocks mean the same.
LEMMA SameCardinality == \A S : Locks!Cardinality(S) = L!Cardinality(S)
BY DEF Locks!Cardinality, L!Cardinality

LEMMA SameTypes == L!TypeOK <=> Locks!TypeOK
BY DEF L!TypeOK, Locks!TypeOK, L!TableLock, Locks!TableLock, L!Nothing, Locks!Nothing,
       L!Read, Locks!Read

LEMMA SameTakeLocks == \A q, r : Locks!TakeLocks(q, r) <=> L!TakeLocks(q, r)
BY DEF Locks!TakeLocks, L!TakeLocks, Locks!CanTake, L!CanTake, Locks!Requested, L!Requested,
       Locks!Taken, L!Taken, Locks!Queued, L!Queued, Locks!Read, L!Read

LEMMA SameReleaseLocks == \A q : Locks!ReleaseLocks(q) <=> L!ReleaseLocks(q)
BY SameCardinality
   DEF Locks!ReleaseLocks, L!ReleaseLocks, Locks!Released, L!Released, Locks!Free, L!Free,
       Locks!Promoted, L!Promoted, Locks!PromotesReaders, L!PromotesReaders,
       Locks!PromotesWriter, L!PromotesWriter, Locks!Read, L!Read, Locks!Write, L!Write

LEMMA SameClearLocks == Locks!ClearLocks <=> L!ClearLocks
BY DEF Locks!ClearLocks, L!ClearLocks, Locks!Free, L!Free

LEMMA SameConsistent == L!Consistent <=> Locks!Consistent
<1>1. \A S : Locks!Range(S) = L!Range(S)
  BY DEF Locks!Range, L!Range
<1>2. \A t : L!BookOf(t) <=> Locks!BookOf(t)
  BY <1>1, SameCardinality
     DEF L!BookOf, Locks!BookOf, L!Book, Locks!Book, L!Holders, Locks!Holders,
         L!Waiters, Locks!Waiters, L!Read, Locks!Read, L!Write, Locks!Write
<1>3. QED
  BY <1>2 DEF L!Consistent, Locks!Consistent, L!Free, Locks!Free

-----------------------------------------------------------------------------
(* The inductive invariant *)

\* The types that do not depend on stages: TypeOK follows from them and Placed.
Types ==
  /\ pc \in [Query -> Stage]
  /\ active \subseteq Query /\ settled \subseteq Query /\ aborted \subseteq Query
  /\ viaOverflow \subseteq Query
  /\ overflow = {q \in Query : pc[q] = "overflow"}
  /\ drain \in BOOLEAN /\ shuttingDown \in BOOLEAN
  /\ assigned \in [Query -> Worker \cup {NoWorker}]
  /\ queue \in [Worker -> Seq(Query)]
  /\ current \in [Worker -> Query \cup {NoQuery}]

Callers == Told /\ ActiveAwaitsAnswer /\ CallersAreTold

IInv == L!IInv /\ Types /\ Placed /\ Callers

\* What IInv is for.
LEMMA TypesFollow == L!IInv /\ Types /\ Placed => TypeOK
<1> SUFFICES ASSUME L!IInv, Types, Placed PROVE TypeOK
  OBVIOUS
<1>1. Locks!TypeOK
  BY SameTypes DEF L!IInv
<1>2. queue \in [Worker -> Seq({q \in Query : pc[q] = "queued"})]
  <2> SUFFICES ASSUME NEW w \in Worker
               PROVE  queue[w] \in Seq({q \in Query : pc[q] = "queued"})
    BY DEF Types
  <2>1. queue[w] \in Seq(Query) /\ \A i \in DOMAIN queue[w] : queue[w][i] \in Range(queue[w])
    BY DEF Types, Range
  <2>2. \A i \in DOMAIN queue[w] : queue[w][i] \in {q \in Query : pc[q] = "queued"}
    BY <2>1 DEF Placed
  <2>3. QED  BY <2>1, <2>2, NarrowedQueue
<1>3. current \in [Worker -> {q \in Query : pc[q] = "running"} \cup {NoQuery}]
  BY DEF Types, Placed
<1>4. QED  BY <1>1, <1>2, <1>3 DEF Types, TypeOK

-----------------------------------------------------------------------------
(* Where a query is *)

\* The lock manager sees a query move as the stage of the query tells.
LEMMA ClientMoves ==
  ASSUME Types, NEW q \in Query, NEW s \in Stage, pc' = [pc EXCEPT ![q] = s]
  PROVE  LockClient' = [LockClient EXCEPT ![q] = ClientAt(s)]
BY DEF Types, LockClient

\* A query that neither comes from a worker nor goes to one.
LEMMA PassingKeepsPlaced ==
  ASSUME Types, Placed, NEW q \in Query, NEW s \in Stage \ {"queued", "running"},
         pc[q] \notin {"queued", "running"},
         pc' = [pc EXCEPT ![q] = s],
         assigned' \in [Query -> Worker \cup {NoWorker}],
         s \in {"locking", "returned"} => assigned'[q] \in Worker,
         \A p \in Query \ {q} : assigned'[p] = assigned[p],
         UNCHANGED workerVars
  PROVE  Placed'
<1>1. pc'[q] = s /\ \A p \in Query \ {q} : pc'[p] = pc[p]
  BY DEF Types
<1>2. \A w \in Worker :
        {p \in Query : pc'[p] = "queued" /\ assigned'[p] = w}
          = {p \in Query : pc[p] = "queued" /\ assigned[p] = w}
  BY <1>1
<1>3. QED  BY <1>1, <1>2 DEF Placed, workerVars

\* A worker that takes a query starts it or queues it behind the others.
LEMMA ExecuteKeepsPlaced ==
  ASSUME Types, Placed, NEW q \in Query, NEW w \in Worker,
         pc[q] \notin {"queued", "running"},
         assigned' = [assigned EXCEPT ![q] = w],
         Execute(w, q)
  PROVE  /\ Placed'
         /\ queue' \in [Worker -> Seq(Query)] /\ current' \in [Worker -> Query \cup {NoQuery}]
         /\ \E s \in {"returned", "running", "queued"} :
              pc' = [pc EXCEPT ![q] = s] /\ (s = "returned" <=> shuttingDown)
<1>1. /\ assigned'[q] = w /\ \A p \in Query \ {q} : assigned'[p] = assigned[p]
      /\ assigned' \in [Query -> Worker \cup {NoWorker}]
  BY DEF Types
<1>2. CASE shuttingDown /\ pc' = [pc EXCEPT ![q] = "returned"] /\ UNCHANGED workerVars
  BY <1>1, <1>2, PassingKeepsPlaced DEF workerVars, Stage, Types
<1>3. CASE /\ ~shuttingDown /\ current[w] = NoQuery
           /\ current' = [current EXCEPT ![w] = q]
           /\ pc' = [pc EXCEPT ![q] = "running"]
           /\ UNCHANGED queue
  <2>1. /\ pc'[q] = "running" /\ \A p \in Query \ {q} : pc'[p] = pc[p]
        /\ current'[w] = q /\ \A v \in Worker \ {w} : current'[v] = current[v]
    BY <1>3 DEF Types
  <2>2. \A v \in Worker :
          {p \in Query : pc'[p] = "queued" /\ assigned'[p] = v}
            = {p \in Query : pc[p] = "queued" /\ assigned[p] = v}
    BY <1>1, <2>1
  <2>3. \A v \in Worker, p \in Query : current'[v] = p <=> (pc'[p] = "running" /\ assigned'[p] = v)
    BY <1>1, <1>3, <2>1, PoolAssumption DEF Placed
  <2>4. Placed'
    BY <1>1, <1>3, <2>1, <2>2, <2>3 DEF Placed
  <2>5. QED  BY <1>3, <2>4 DEF Types
<1>4. CASE /\ ~shuttingDown /\ current[w] # NoQuery
           /\ queue' = [queue EXCEPT ![w] = Append(@, q)]
           /\ pc' = [pc EXCEPT ![q] = "queued"]
           /\ UNCHANGED current
  <2>1. /\ pc'[q] = "queued" /\ \A p \in Query \ {q} : pc'[p] = pc[p]
        /\ queue'[w] = Append(queue[w], q) /\ \A v \in Worker \ {w} : queue'[v] = queue[v]
    BY <1>4 DEF Types
  <2>2. queue[w] \in Seq(Query) /\ q \notin Range(queue[w]) /\ Apart(queue[w])
    <3>1. queue[w] \in Seq(Query)
      BY DEF Types
    <3>2. q \notin Range(queue[w])
      BY DEF Placed
    <3>3. Apart(queue[w])
      BY DEF Placed, Apart
    <3>4. QED  BY <3>1, <3>2, <3>3
  <2>3. /\ queue'[w] \in Seq(Query) /\ Apart(queue'[w])
        /\ Range(queue'[w]) = Range(queue[w]) \cup {q}
    BY <2>1, <2>2, AppendedQueue
  <2>4. \A v \in Worker : Range(queue'[v]) = {p \in Query : pc'[p] = "queued" /\ assigned'[p] = v}
    <3> TAKE v \in Worker
    <3>1. Range(queue[v]) = {p \in Query : pc[p] = "queued" /\ assigned[p] = v}
      BY DEF Placed
    <3>2. CASE v = w
      BY <1>1, <2>1, <2>3, <3>1, <3>2
    <3>3. CASE v # w
      BY <1>1, <2>1, <3>1, <3>3
    <3>4. QED  BY <3>2, <3>3
  <2>5. \A v \in Worker, p \in Query : current'[v] = p <=> (pc'[p] = "running" /\ assigned'[p] = v)
    BY <1>1, <1>4, <2>1 DEF Placed
  <2>6. \A v \in Worker : Apart(queue'[v]) /\ queue'[v] \in Seq(Query)
    <3> TAKE v \in Worker
    <3>1. queue[v] \in Seq(Query)
      BY DEF Types
    <3>2. Apart(queue[v])
      BY DEF Placed, Apart
    <3>3. QED  BY <2>1, <2>3, <3>1, <3>2
  <2>7. Placed'
    BY <1>1, <2>1, <2>4, <2>5, <2>6 DEF Placed, Apart
  <2>8. QED  BY <1>4, <2>6, <2>7 DEF Types
<1>5. QED  BY <1>2, <1>3, <1>4 DEF Execute

\* A cancelled query leaves the queue it is in.
LEMMA CancelKeepsPlaced ==
  ASSUME Types, Placed, NEW q \in Query, CancelOnWorker(q), UNCHANGED <<current, assigned>>
  PROVE  /\ Placed' /\ queue' \in [Worker -> Seq(Query)]
         /\ pc' = pc \/ (pc[q] = "queued" /\ pc' = [pc EXCEPT ![q] = "returned"])
<1>1. CASE pc[q] # "queued"
  BY <1>1 DEF CancelOnWorker, Placed, Types
<1>2. CASE pc[q] = "queued"
  <2> DEFINE w == assigned[q]
  <2>1. PICK i \in DOMAIN queue[w] :
          /\ queue[w][i] = q
          /\ queue' = [queue EXCEPT ![w] = RemoveAt(@, i)]
    BY <1>2 DEF CancelOnWorker
  <2>2. w \in Worker /\ pc' = [pc EXCEPT ![q] = "returned"]
    BY <1>2 DEF CancelOnWorker, Placed
  <2>3. queue[w] \in Seq(Query) /\ Apart(queue[w])
    <3>1. queue[w] \in Seq(Query)
      BY <2>2 DEF Types
    <3>2. Apart(queue[w])
      BY <2>2 DEF Placed, Apart
    <3>3. QED  BY <3>1, <3>2
  <2> HIDE DEF w
  <2>4. /\ pc'[q] = "returned" /\ \A p \in Query \ {q} : pc'[p] = pc[p]
        /\ queue'[w] = RemoveAt(queue[w], i) /\ \A v \in Worker \ {w} : queue'[v] = queue[v]
    BY <2>1, <2>2 DEF Types
  <2>5. /\ queue'[w] \in Seq(Query \ {q}) /\ Apart(queue'[w])
        /\ Range(queue'[w]) = Range(queue[w]) \ {q}
    <3> DEFINE s == queue[w]
    <3>1. s \in Seq(Query) /\ Apart(s) /\ i \in DOMAIN s /\ s[i] = q
      BY <2>1, <2>3
    <3> HIDE DEF s
    <3>2. /\ RemoveAt(s, i) \in Seq(Query \ {q}) /\ Apart(RemoveAt(s, i))
          /\ Range(RemoveAt(s, i)) = Range(s) \ {q}
      BY <3>1, RemovedQueue
    <3>3. QED  BY <2>4, <3>2 DEF s
  <2>6. queue'[w] \in Seq(Query)
    BY <2>5, NarrowedQueue
  <2>7. \A v \in Worker : Range(queue'[v]) = {p \in Query : pc'[p] = "queued" /\ assigned'[p] = v}
    <3> TAKE v \in Worker
    <3>1. Range(queue[v]) = {p \in Query : pc[p] = "queued" /\ assigned[p] = v}
      BY DEF Placed
    <3>2. CASE v = w
      BY <2>4, <2>5, <3>1, <3>2
    <3>3. CASE v # w
      BY <2>4, <3>1, <3>3 DEF w
    <3>4. QED  BY <3>2, <3>3
  <2>8. \A v \in Worker : Apart(queue'[v]) /\ queue'[v] \in Seq(Query)
    <3> TAKE v \in Worker
    <3>1. queue[v] \in Seq(Query)
      BY DEF Types
    <3>2. Apart(queue[v])
      BY DEF Placed, Apart
    <3>3. QED  BY <2>4, <2>5, <2>6, <3>1, <3>2
  <2>9. \A v \in Worker, p \in Query : current'[v] = p <=> (pc'[p] = "running" /\ assigned'[p] = v)
    BY <1>2, <2>4 DEF Placed
  <2>10. Placed'
    BY <1>2, <2>4, <2>7, <2>8, <2>9 DEF Placed, Apart
  <2>11. queue' \in [Worker -> Seq(Query)]
    BY <2>1, <2>8 DEF Types
  <2>12. QED  BY <1>2, <2>2, <2>10, <2>11
<1>3. QED  BY <1>1, <1>2

\* An answer frees the worker for the first query of its queue.
LEMMA AnswerKeepsPlaced ==
  ASSUME Types, Placed, NEW w \in Worker, Answer(w)
  PROVE  /\ Placed'
         /\ queue' \in [Worker -> Seq(Query)] /\ current' \in [Worker -> Query \cup {NoQuery}]
         /\ current[w] \in Query /\ pc[current[w]] = "running" /\ pc'[current[w]] = "returned"
         /\ \A p \in Query \ {current[w]} :
              pc'[p] = pc[p] \/ (pc[p] = "queued" /\ pc'[p] = "running")
<1> DEFINE q == current[w]
           s == queue[w]
           next == IF s = <<>> THEN NoQuery ELSE Head(s)
<1>1. /\ q # NoQuery
      /\ current' = [current EXCEPT ![w] = next]
      /\ queue' = [queue EXCEPT ![w] = IF s = <<>> THEN s ELSE Tail(s)]
      /\ pc' = [p \in Query |-> CASE p = q -> "returned" [] p = next -> "running" [] OTHER -> pc[p]]
      /\ UNCHANGED assigned
  BY DEF Answer
<1>2. q \in Query /\ pc[q] = "running" /\ assigned[q] = w
  BY <1>1 DEF Types, Placed
<1>3. s \in Seq(Query) /\ Apart(s)
  <2>1. s \in Seq(Query)
    BY DEF Types
  <2>2. Apart(s)
    BY DEF Placed, Apart
  <2>3. QED  BY <2>1, <2>2
<1>4. \A p \in Query : p \in Range(s) <=> (pc[p] = "queued" /\ assigned[p] = w)
  BY DEF Placed
<1> DEFINE z == IF s = <<>> THEN s ELSE Tail(s)
<1>5. /\ z \in Seq(Query) /\ Apart(z) /\ Range(z) = Range(s) \ {next}
      /\ next \in Query => next \in Range(s)
      /\ next \in Query \cup {NoQuery}
  <2>1. CASE s = <<>>
    <3>1. Range(s) = {}
      BY <2>1 DEF Range
    <3>2. QED  BY <1>3, <2>1, <3>1, PoolAssumption
  <2>2. CASE s # <<>>
    BY <1>3, <2>2, ServedQueue
  <2>3. QED  BY <2>1, <2>2
<1>6. /\ queue'[w] = z /\ \A v \in Worker \ {w} : queue'[v] = queue[v]
      /\ current'[w] = next /\ \A v \in Worker \ {w} : current'[v] = current[v]
  BY <1>1 DEF Types
<1> HIDE DEF q, s, next, z
<1>7. pc' = [p \in Query |-> CASE p = q -> "returned" [] p = next -> "running" [] OTHER -> pc[p]]
  BY <1>1
<1>8. /\ pc'[q] = "returned"
      /\ \A p \in Query : p # q /\ p = next => pc'[p] = "running" /\ pc[p] = "queued" /\ assigned[p] = w
      /\ \A p \in Query : p # q /\ p # next => pc'[p] = pc[p]
      /\ q # next
  BY <1>2, <1>4, <1>5, <1>7
<1>9. \A v \in Worker : Range(queue'[v]) = {p \in Query : pc'[p] = "queued" /\ assigned'[p] = v}
  <2> TAKE v \in Worker
  <2>1. Range(queue[v]) = {p \in Query : pc[p] = "queued" /\ assigned[p] = v}
    BY DEF Placed
  <2>2. CASE v = w
    <3>1. \A p \in Query :
            (pc'[p] = "queued" /\ assigned'[p] = w) <=> (p \in Range(s) /\ p # next)
      BY <1>1, <1>2, <1>4, <1>8
    <3>2. Range(s) \subseteq Query
      BY <2>1, <2>2 DEF s
    <3>3. QED  BY <1>5, <1>6, <2>2, <3>1, <3>2
  <2>3. CASE v # w
    BY <1>1, <1>2, <1>6, <1>8, <2>1, <2>3
  <2>4. QED  BY <2>2, <2>3
<1>10. \A v \in Worker, p \in Query : current'[v] = p <=> (pc'[p] = "running" /\ assigned'[p] = v)
  <2> TAKE v \in Worker, p \in Query
  <2>1. current[v] = p <=> (pc[p] = "running" /\ assigned[p] = v)
    BY DEF Placed
  <2>2. CASE v = w
    BY <1>1, <1>2, <1>5, <1>6, <1>8, <2>1, <2>2 DEF q
  <2>3. CASE v # w
    BY <1>1, <1>2, <1>6, <1>8, <2>1, <2>3
  <2>4. QED  BY <2>2, <2>3
<1>11. \A v \in Worker : Apart(queue'[v]) /\ queue'[v] \in Seq(Query)
  <2> TAKE v \in Worker
  <2>1. queue[v] \in Seq(Query)
    BY DEF Types
  <2>2. Apart(queue[v])
    BY DEF Placed, Apart
  <2>3. QED  BY <1>5, <1>6, <2>1, <2>2
<1>12. \A p \in Query :
         pc'[p] \in {"locking", "queued", "running", "returned"} => assigned'[p] \in Worker
  BY <1>1, <1>2, <1>8 DEF Placed
<1>13. Placed'
  BY <1>9, <1>10, <1>11, <1>12 DEF Placed, Apart
<1>14. queue' \in [Worker -> Seq(Query)] /\ current' \in [Worker -> Query \cup {NoQuery}]
  BY <1>1, <1>5, <1>11 DEF Types
<1>15. QED  BY <1>2, <1>8, <1>13, <1>14 DEF q

-----------------------------------------------------------------------------
(* The steps *)

\* A dispatched query asks for its locks, or for none and goes to the worker.
LEMMA DispatchKeeps ==
  ASSUME L!IInv, Types, Placed, NEW q \in Query, NEW r \in Request, NEW w \in Worker,
         pc[q] \in {"new", "overflow"}, ~shuttingDown, shuttingDown' = shuttingDown,
         Dispatch(q, r, w)
  PROVE  /\ L!IInv' /\ Placed'
         /\ queue' \in [Worker -> Seq(Query)] /\ current' \in [Worker -> Query \cup {NoQuery}]
         /\ assigned' \in [Query -> Worker \cup {NoWorker}]
         /\ want' = [want EXCEPT ![q] = r]
         /\ \E s \in {"locking", "running", "queued"} : pc' = [pc EXCEPT ![q] = s]
<1>1. /\ assigned' = [assigned EXCEPT ![q] = w]
      /\ assigned' \in [Query -> Worker \cup {NoWorker}] /\ assigned'[q] = w
      /\ \A p \in Query \ {q} : assigned'[p] = assigned[p]
  BY DEF Dispatch, Types
<1>2. LockClient[q] = "idle"
  BY DEF LockClient, ClientAt
<1>3. CASE /\ r.tables = {} /\ want' = [want EXCEPT ![q] = r] /\ Execute(w, q)
           /\ UNCHANGED <<lock, granted>>
  <2>1. /\ Placed'
        /\ queue' \in [Worker -> Seq(Query)] /\ current' \in [Worker -> Query \cup {NoQuery}]
    BY <1>1, <1>3, ExecuteKeepsPlaced
  <2>2. PICK s \in {"running", "queued"} : pc' = [pc EXCEPT ![q] = s]
    BY <1>1, <1>3, ExecuteKeepsPlaced
  <2>3. LockClient' = [LockClient EXCEPT ![q] = "holding"]
    BY <2>2, ClientMoves DEF ClientAt, Stage
  <2>4. L!AsksForNothing(q, r, "holding")
    BY <1>2, <1>3, <2>3 DEF L!AsksForNothing
  <2>5. L!IInv'
    BY <2>4, LocksKeep
  <2>6. QED  BY <1>1, <1>3, <2>1, <2>2, <2>5
<1>4. CASE /\ r.tables # {} /\ Locks!TakeLocks(q, r)
           /\ pc' = [pc EXCEPT ![q] = "locking"]
           /\ UNCHANGED workerVars
  <2>1. Placed'
    BY <1>1, <1>4, PassingKeepsPlaced DEF Stage
  <2>2. LockClient' = [LockClient EXCEPT ![q] = "acquiring"]
    BY <1>4, ClientMoves DEF ClientAt, Stage
  <2>3. L!Acquire(q, r)
    BY <1>2, <1>4, <2>2, SameTakeLocks DEF L!Acquire
  <2>4. L!IInv' /\ want' = [want EXCEPT ![q] = r]
    BY <1>4, <2>3, LocksKeep DEF Locks!TakeLocks
  <2>5. QED  BY <1>1, <1>4, <2>1, <2>4 DEF workerVars, Types
<1>5. QED  BY <1>3, <1>4 DEF Dispatch

\* query() and executeQuery: refused, routed, or put aside.
LEMMA SubmitKeeps ==
  ASSUME IInv, NEW q \in Query, NEW r \in Request, Submit(q, r)
  PROVE  IInv'
<1>1. /\ pc[q] = "new" /\ ~shuttingDown
      /\ UNCHANGED <<aborted, viaOverflow, shuttingDown>>
  BY DEF Submit
<1>2. q \notin active /\ q \notin settled /\ q \notin aborted
  BY <1>1 DEF IInv, Callers, Told, ActiveAwaitsAnswer
<1>3. L!IInv /\ Types /\ Placed
  BY DEF IInv
<1>4. LockClient[q] = "idle"
  BY <1>1 DEF LockClient, ClientAt
<1>5. CASE /\ pc' = [pc EXCEPT ![q] = "done"]
           /\ settled' = settled \cup {q}
           /\ UNCHANGED <<lockVars, workerVars, active, overflow, assigned>>
           /\ drain' \in BOOLEAN
  <2>1. pc'[q] = "done" /\ \A p \in Query \ {q} : pc'[p] = pc[p]
    BY <1>3, <1>5 DEF Types
  <2>2. Placed'
    BY <1>1, <1>3, <1>5, PassingKeepsPlaced DEF Stage, Types
  <2>3. LockClient' = LockClient
    BY <1>1, <2>1 DEF LockClient, ClientAt
  <2>4. L!IInv'
    BY <1>1, <1>3, <1>5, <2>3, LocksKeep DEF L!lockVars, lockVars
  <2>5. Types'
    BY <1>1, <1>3, <1>5, <2>1 DEF Types, Stage, workerVars
  <2>6. Callers'
    BY <1>1, <1>2, <1>5, <2>1 DEF IInv, Callers, Told, ActiveAwaitsAnswer, CallersAreTold, lockVars
  <2>7. QED  BY <2>2, <2>4, <2>5, <2>6 DEF IInv
<1>6. CASE Routed(q, r)
  <2>1. PICK w \in Worker : Dispatch(q, r, w)
    BY <1>6 DEF Routed, LeastBusyWorkers
  <2>2. /\ L!IInv' /\ Placed'
        /\ queue' \in [Worker -> Seq(Query)] /\ current' \in [Worker -> Query \cup {NoQuery}]
        /\ assigned' \in [Query -> Worker \cup {NoWorker}]
        /\ want' = [want EXCEPT ![q] = r]
        /\ \E s \in {"locking", "running", "queued"} : pc' = [pc EXCEPT ![q] = s]
    BY <1>1, <1>3, <2>1, DispatchKeeps
  <2>3. PICK s \in {"locking", "running", "queued"} : pc' = [pc EXCEPT ![q] = s]
    BY <2>2
  <2>4. pc'[q] = s /\ \A p \in Query \ {q} : pc'[p] = pc[p]
    BY <1>3, <2>3 DEF Types
  <2>5. active' = active \cup {q} /\ UNCHANGED <<settled, overflow, drain>>
    BY <1>6 DEF Routed
  <2>6. \A p \in Query \ {q} : want'[p] = want[p]
    BY <1>3, <2>2 DEF L!IInv, L!TypeOK
  <2>7. Types'
    BY <1>1, <1>3, <2>2, <2>3, <2>4, <2>5 DEF Types, Stage
  <2>8. Callers'
    BY <1>1, <1>2, <2>4, <2>5, <2>6 DEF IInv, Callers, Told, ActiveAwaitsAnswer, CallersAreTold
  <2>9. QED  BY <2>2, <2>7, <2>8 DEF IInv
<1>7. CASE Overflowed(q, r)
  <2>1. /\ active' = active \cup {q} /\ overflow' = overflow \cup {q}
        /\ pc' = [pc EXCEPT ![q] = "overflow"] /\ want' = [want EXCEPT ![q] = r]
        /\ drain' = TRUE
        /\ UNCHANGED <<lock, granted, workerVars, settled, assigned>>
    BY <1>7 DEF Overflowed
  <2>2. pc'[q] = "overflow" /\ \A p \in Query \ {q} : pc'[p] = pc[p]
    BY <1>3, <2>1 DEF Types
  <2>3. want'[q] = r /\ \A p \in Query \ {q} : want'[p] = want[p]
    BY <1>3, <2>1 DEF L!IInv, L!TypeOK
  <2>4. Placed'
    BY <1>1, <1>3, <2>1, PassingKeepsPlaced DEF Stage, Types
  <2>5. LockClient' = [LockClient EXCEPT ![q] = "idle"]
    BY <1>3, <2>1, ClientMoves DEF ClientAt, Stage
  <2>6. L!AsksForNothing(q, r, "idle")
    BY <1>1, <1>4, <2>1, <2>5 DEF L!AsksForNothing
  <2>7. L!IInv'
    BY <1>3, <2>6, LocksKeep
  <2>8. Types'
    BY <1>1, <1>3, <2>1, <2>2 DEF Types, Stage, workerVars
  <2>9. Callers'
    BY <1>1, <1>2, <2>1, <2>2, <2>3 DEF IInv, Callers, Told, ActiveAwaitsAnswer, CallersAreTold
  <2>10. QED  BY <2>4, <2>7, <2>8, <2>9 DEF IInv
<1>8. QED
  BY <1>3, <1>5, <1>6, <1>7 DEF Submit, Refused, OverflowFull, Types

\* A query with its locks goes to its worker; an aborted one gives them back.
LEMMA LocksAcquiredKeeps ==
  ASSUME IInv, NEW q \in Query, LocksAcquired(q)
  PROVE  IInv'
<1>1. /\ L!IInv /\ Types /\ Placed
      /\ pc[q] = "locking" /\ granted[q] = want[q].tables
      /\ UNCHANGED <<aborted, overflow, viaOverflow, assigned, shuttingDown>>
  BY DEF IInv, LocksAcquired, LocksResolved
<1>2. LockClient[q] = "acquiring"
  BY <1>1 DEF LockClient, ClientAt
<1>3. CASE /\ q \notin aborted /\ Execute(assigned[q], q)
           /\ UNCHANGED <<lockVars, active, settled, drain>>
  <2>1. assigned[q] \in Worker /\ assigned' = [assigned EXCEPT ![q] = assigned[q]]
    BY <1>1 DEF Placed, Types
  <2>2. /\ Placed'
        /\ queue' \in [Worker -> Seq(Query)] /\ current' \in [Worker -> Query \cup {NoQuery}]
    BY <1>1, <1>3, <2>1, ExecuteKeepsPlaced
  <2>3. PICK s \in {"returned", "running", "queued"} :
          pc' = [pc EXCEPT ![q] = s] /\ (s = "returned" <=> shuttingDown)
    BY <1>1, <1>3, <2>1, ExecuteKeepsPlaced
  <2>4. pc'[q] = s /\ \A p \in Query \ {q} : pc'[p] = pc[p]
    BY <1>1, <2>3 DEF Types
  <2>5. LockClient' = [LockClient EXCEPT ![q] = "holding"]
    BY <1>1, <2>3, ClientMoves DEF ClientAt, Stage
  <2>6. L!Proceed(q)
    BY <1>1, <1>2, <1>3, <2>5 DEF L!Proceed, lockVars
  <2>7. L!IInv'
    BY <1>1, <2>6, LocksKeep
  <2>8. Types'
    BY <1>1, <1>3, <2>2, <2>3, <2>4 DEF Types, Stage
  <2>9. shuttingDown => q \in settled
    BY <1>1, <1>3 DEF IInv, Callers, Told, ActiveAwaitsAnswer
  <2>10. Callers'
    BY <1>1, <1>3, <2>3, <2>4, <2>9
       DEF IInv, Callers, Told, ActiveAwaitsAnswer, CallersAreTold, lockVars
  <2>11. QED  BY <2>2, <2>7, <2>8, <2>10 DEF IInv
<1>4. CASE /\ q \in aborted /\ Locks!ReleaseLocks(q)
           /\ pc' = [pc EXCEPT ![q] = "done"]
           /\ settled' = (IF RejectsThrown(q) THEN settled \cup {q} ELSE settled)
           /\ active' = (IF RejectsThrown(q) THEN active \ {q} ELSE active)
           /\ drain' = TRUE
           /\ UNCHANGED workerVars
  <2>1. pc'[q] = "done" /\ \A p \in Query \ {q} : pc'[p] = pc[p]
    BY <1>1, <1>4 DEF Types
  <2>2. Placed'
    BY <1>1, <1>4, PassingKeepsPlaced DEF Stage, Types
  <2>3. LockClient' = [LockClient EXCEPT ![q] = "idle"]
    BY <1>1, <1>4, ClientMoves DEF ClientAt, Stage
  <2>4. L!GivesBack(q)
    BY <1>1, <1>2, <1>4, <2>3, SameReleaseLocks DEF L!GivesBack
  <2>5. L!IInv' /\ want' = want
    BY <1>1, <1>4, <2>4, LocksKeep DEF Locks!ReleaseLocks
  <2>6. Types'
    BY <1>1, <1>4, <2>1 DEF Types, Stage, workerVars
  <2>7. q \notin active
    BY <1>4 DEF IInv, Callers, ActiveAwaitsAnswer
  <2>8. Callers'
    BY <1>1, <1>4, <2>1, <2>5, <2>7
       DEF IInv, Callers, Told, ActiveAwaitsAnswer, CallersAreTold, RejectsThrown
  <2>9. QED  BY <2>2, <2>5, <2>6, <2>8 DEF IInv
<1>5. QED  BY <1>3, <1>4 DEF LocksAcquired

\* A query that has come back gives its locks back; its caller knows.
LEMMA FinishKeeps ==
  ASSUME IInv, NEW q \in Query, Finish(q)
  PROVE  IInv'
<1>1. /\ L!IInv /\ Types /\ Placed
      /\ pc[q] = "returned" /\ Locks!ReleaseLocks(q)
      /\ pc' = [pc EXCEPT ![q] = "done"] /\ drain' = TRUE
      /\ UNCHANGED <<active, settled, aborted, overflow, viaOverflow, assigned, workerVars,
                     shuttingDown>>
  BY DEF IInv, Finish
<1>2. pc'[q] = "done" /\ \A p \in Query \ {q} : pc'[p] = pc[p]
  BY <1>1 DEF Types
<1>3. LockClient[q] = "holding"
  BY <1>1 DEF LockClient, ClientAt
<1>4. granted[q] = want[q].tables
  BY <1>1, <1>3 DEF L!IInv, L!Consistent
<1>5. LockClient' = [LockClient EXCEPT ![q] = "idle"]
  BY <1>1, ClientMoves DEF ClientAt, Stage
<1>6. L!GivesBack(q)
  BY <1>1, <1>3, <1>4, <1>5, SameReleaseLocks DEF L!GivesBack
<1>7. L!IInv' /\ want' = want
  BY <1>1, <1>6, LocksKeep DEF Locks!ReleaseLocks
<1>8. Placed'
  BY <1>1, PassingKeepsPlaced DEF Stage, Types
<1>9. Types'
  BY <1>1, <1>2 DEF Types, Stage, workerVars
<1>10. Callers'
  BY <1>1, <1>2, <1>7 DEF IInv, Callers, Told, ActiveAwaitsAnswer, CallersAreTold
<1>11. QED  BY <1>7, <1>8, <1>9, <1>10 DEF IInv

\* The overflow queue: a query of it is dispatched, or nothing happens.
LEMMA DrainKeeps ==
  ASSUME IInv, Drain
  PROVE  IInv'
<1>1. L!IInv /\ Types /\ Placed /\ Callers
  BY DEF IInv
<1>2. UNCHANGED <<active, settled, aborted, shuttingDown>>
  BY DEF Drain
<1>3. CASE /\ drain' \in BOOLEAN
           /\ UNCHANGED <<lockVars, workerVars, pc, overflow, viaOverflow, assigned>>
  <2>1. LockClient' = LockClient
    BY <1>3 DEF LockClient
  <2>2. L!IInv'
    BY <1>1, <1>2, <1>3, <2>1, LocksKeep DEF L!lockVars, lockVars
  <2>3. Placed'
    BY <1>1, <1>3 DEF Placed, workerVars
  <2>4. Types'
    BY <1>1, <1>2, <1>3 DEF Types, workerVars
  <2>5. Callers'
    BY <1>1, <1>2, <1>3 DEF Callers, Told, ActiveAwaitsAnswer, CallersAreTold, lockVars
  <2>6. QED  BY <2>2, <2>3, <2>4, <2>5 DEF IInv
<1>4. ASSUME ~shuttingDown, NEW q \in overflow, NEW w \in LeastBusyWorkers,
             Dispatch(q, want[q], w), overflow' = overflow \ {q},
             viaOverflow' = viaOverflow \cup {q}, drain' = (overflow' # {})
      PROVE  IInv'
  <2>1. /\ q \in Query /\ w \in Worker /\ pc[q] = "overflow"
        /\ want[q] \in Request /\ q \in active
    BY <1>1, <1>4 DEF Types, LeastBusyWorkers, Callers, Told
  <2>2. /\ L!IInv' /\ Placed'
        /\ queue' \in [Worker -> Seq(Query)] /\ current' \in [Worker -> Query \cup {NoQuery}]
        /\ assigned' \in [Query -> Worker \cup {NoWorker}]
        /\ want' = [want EXCEPT ![q] = want[q]]
    BY <1>1, <1>2, <1>4, <2>1, DispatchKeeps
  <2>3. PICK s \in {"locking", "running", "queued"} : pc' = [pc EXCEPT ![q] = s]
    BY <1>1, <1>2, <1>4, <2>1, DispatchKeeps
  <2>4. pc'[q] = s /\ \A p \in Query \ {q} : pc'[p] = pc[p]
    BY <1>1, <2>1, <2>3 DEF Types
  <2>5. want' = want
    BY <1>1, <2>2 DEF L!IInv, L!TypeOK
  <2>6. Types'
    BY <1>1, <1>2, <1>4, <2>1, <2>2, <2>3, <2>4 DEF Types, Stage
  <2>7. Callers'
    BY <1>1, <1>2, <1>4, <2>1, <2>4, <2>5
       DEF Callers, Told, ActiveAwaitsAnswer, CallersAreTold
  <2>8. QED  BY <2>2, <2>6, <2>7 DEF IInv
<1>5. QED
  BY <1>1, <1>3, <1>4 DEF Drain, Types

\* A worker's answer settles the call.
LEMMA AnswerKeeps ==
  ASSUME IInv, NEW w \in Worker, Answer(w)
  PROVE  IInv'
<1> DEFINE q == current[w]
<1>1. L!IInv /\ Types /\ Placed /\ Callers
  BY DEF IInv
<1>2. /\ Placed'
      /\ queue' \in [Worker -> Seq(Query)] /\ current' \in [Worker -> Query \cup {NoQuery}]
      /\ q \in Query /\ pc[q] = "running" /\ pc'[q] = "returned"
      /\ \A p \in Query \ {q} : pc'[p] = pc[p] \/ (pc[p] = "queued" /\ pc'[p] = "running")
  BY <1>1, AnswerKeepsPlaced
<1>3. /\ settled' = settled \cup {q} /\ active' = active \ {q}
      /\ UNCHANGED <<lockVars, aborted, overflow, viaOverflow, drain, assigned, shuttingDown>>
      /\ pc' \in [Query -> Stage]
  BY <1>1 DEF Answer, Types, Stage
<1> HIDE DEF q
<1>4. LockClient' = LockClient
  BY <1>2 DEF LockClient, ClientAt
<1>5. L!IInv'
  BY <1>1, <1>3, <1>4, LocksKeep DEF L!lockVars, lockVars
<1>6. Types'
  BY <1>1, <1>2, <1>3 DEF Types
<1>7. Callers'
  BY <1>1, <1>2, <1>3 DEF Callers, Told, ActiveAwaitsAnswer, CallersAreTold, lockVars
<1>8. QED  BY <1>2, <1>5, <1>6, <1>7 DEF IInv

\* Cancelling takes a query out of the overflow queue or of its worker's queue,
\* which changes nothing for the locks.
LEMMA CancelQueryKeeps ==
  ASSUME Types, Placed, NEW q \in Query, CancelQuery(q), UNCHANGED <<current, assigned>>
  PROVE  /\ Placed' /\ queue' \in [Worker -> Seq(Query)]
         /\ LockClient' = LockClient
         /\ \/ pc' = pc /\ pc[q] # "overflow"
            \/ pc[q] = "queued" /\ pc' = [pc EXCEPT ![q] = "returned"]
            \/ pc[q] = "overflow" /\ pc' = [pc EXCEPT ![q] = "done"]
<1>1. CASE pc[q] = "overflow"
  <2>1. pc' = [pc EXCEPT ![q] = "done"] /\ UNCHANGED queue
    BY <1>1 DEF CancelQuery
  <2>2. Placed'
    BY <1>1, <2>1, PassingKeepsPlaced DEF Stage, Types, workerVars
  <2>3. LockClient' = LockClient
    BY <1>1, <2>1 DEF LockClient, ClientAt, Types
  <2>4. QED  BY <1>1, <2>1, <2>2, <2>3 DEF Types
<1>2. CASE pc[q] # "overflow"
  <2>1. CancelOnWorker(q)
    BY <1>2 DEF CancelQuery
  <2>2. /\ Placed' /\ queue' \in [Worker -> Seq(Query)]
        /\ pc' = pc \/ (pc[q] = "queued" /\ pc' = [pc EXCEPT ![q] = "returned"])
    BY <2>1, CancelKeepsPlaced
  <2>3. LockClient' = LockClient
    BY <2>2 DEF LockClient, ClientAt, Types
  <2>4. QED  BY <1>2, <2>2, <2>3
<1>3. QED  BY <1>1, <1>2

\* The timer cancels the query and tells the caller.
LEMMA TimeoutKeeps ==
  ASSUME IInv, NEW q \in Query, Timeout(q)
  PROVE  IInv'
<1>1. /\ L!IInv /\ Types /\ Placed /\ Callers
      /\ q \in active /\ CancelQuery(q) /\ settled' = settled \cup {q}
      /\ active' = active \ {q} /\ overflow' = overflow \ {q}
      /\ UNCHANGED <<lockVars, current, aborted, viaOverflow, drain, assigned, shuttingDown>>
  BY DEF IInv, Timeout, CancelQuery
<1>2. /\ Placed' /\ queue' \in [Worker -> Seq(Query)]
      /\ LockClient' = LockClient
      /\ \/ pc' = pc /\ pc[q] # "overflow"
         \/ pc[q] = "queued" /\ pc' = [pc EXCEPT ![q] = "returned"]
         \/ pc[q] = "overflow" /\ pc' = [pc EXCEPT ![q] = "done"]
  BY <1>1, CancelQueryKeeps
<1>3. L!IInv'
  BY <1>1, <1>2, LocksKeep DEF L!lockVars, lockVars
<1>4. Types'
  BY <1>1, <1>2 DEF Types, Stage
<1>5. pc[q] # "new"
  BY <1>1 DEF Callers, ActiveAwaitsAnswer
<1>6. Callers'
  BY <1>1, <1>2, <1>5 DEF Types, Callers, Told, ActiveAwaitsAnswer, CallersAreTold, lockVars
<1>7. QED  BY <1>2, <1>3, <1>4, <1>6 DEF IInv

\* The caller's abort reaches the coordinator or the worker.
LEMMA AbortKeeps ==
  ASSUME IInv, NEW q \in Query, Abort(q)
  PROVE  IInv'
<1>1. /\ L!IInv /\ Types /\ Placed /\ Callers
      /\ pc[q] \notin {"new", "done"} /\ q \notin aborted
      /\ aborted' = aborted \cup {q}
      /\ settled' = IF pc[q] \in {"overflow", "queued"} THEN settled \cup {q} ELSE settled
      /\ UNCHANGED <<lockVars, current, viaOverflow, drain, assigned, shuttingDown>>
  BY DEF IInv, Abort
<1>2. /\ Placed' /\ queue' \in [Worker -> Seq(Query)]
      /\ LockClient' = LockClient
      /\ active' = active \ {q} /\ overflow' = overflow \ {q}
      /\ \/ pc' = pc /\ pc[q] # "overflow"
         \/ pc[q] = "queued" /\ pc' = [pc EXCEPT ![q] = "returned"]
         \/ pc[q] = "overflow" /\ pc' = [pc EXCEPT ![q] = "done"]
  <2>1. CASE q \in active
    <3>1. CancelQuery(q) /\ active' = active \ {q} /\ overflow' = overflow \ {q}
      BY <2>1 DEF Abort, CancelQuery
    <3>2. QED  BY <1>1, <3>1, CancelQueryKeeps
  <2>2. CASE q \notin active
    <3>1. CancelOnWorker(q) /\ UNCHANGED <<active, overflow>>
      BY <2>2 DEF Abort
    <3>2. pc[q] # "overflow"
      BY <1>1, <2>2 DEF Callers, Told
    <3>3. /\ Placed' /\ queue' \in [Worker -> Seq(Query)]
          /\ pc' = pc \/ (pc[q] = "queued" /\ pc' = [pc EXCEPT ![q] = "returned"])
      BY <1>1, <3>1, CancelKeepsPlaced
    <3>4. LockClient' = LockClient
      BY <1>1, <3>3 DEF LockClient, ClientAt, Types
    <3>5. QED  BY <1>1, <2>2, <3>1, <3>2, <3>3, <3>4 DEF Types
  <2>3. QED  BY <2>1, <2>2
<1>3. L!IInv'
  BY <1>1, <1>2, LocksKeep DEF L!lockVars, lockVars
<1>4. Types'
  BY <1>1, <1>2 DEF Types, Stage
<1>5. Callers'
  BY <1>1, <1>2 DEF Types, Callers, Told, ActiveAwaitsAnswer, CallersAreTold, lockVars
<1>6. QED  BY <1>2, <1>3, <1>4, <1>5 DEF IInv

\* shutdown tells everybody, empties every queue and forgets the locks.
LEMMA ShutdownKeeps ==
  ASSUME IInv, Shutdown
  PROVE  IInv'
<1>1. /\ L!IInv /\ Types /\ Placed /\ Callers
      /\ ~shuttingDown /\ shuttingDown' = TRUE
      /\ settled' = settled \cup active \cup {q \in Query : pc[q] \in {"queued", "running"}}
      /\ active' = {} /\ overflow' = {}
      /\ Locks!ClearLocks
      /\ queue' = [w \in Worker |-> <<>>]
      /\ current' = [w \in Worker |-> NoQuery]
      /\ pc' = [q \in Query |-> CASE pc[q] \in {"queued", "running"} -> "returned"
                                  [] pc[q] = "overflow" -> "done"
                                  [] OTHER -> pc[q]]
      /\ UNCHANGED <<aborted, viaOverflow, drain, assigned>>
  BY DEF IInv, Shutdown
<1>2. \A q \in Query :
        /\ pc[q] \in {"queued", "running"} => pc'[q] = "returned"
        /\ pc[q] = "overflow" => pc'[q] = "done"
        /\ pc[q] \notin {"queued", "running", "overflow"} => pc'[q] = pc[q]
        /\ pc'[q] \in Stage \ {"queued", "running", "overflow"}
  BY <1>1 DEF Types, Stage
<1>3. LockClient' = LockClient
  BY <1>2 DEF LockClient, ClientAt
<1>4. L!ClearAll
  BY <1>1, <1>3, SameClearLocks DEF L!ClearAll
<1>5. L!IInv' /\ want' = want
  BY <1>1, <1>4, LocksKeep DEF Locks!ClearLocks
<1>6. Placed'
  <2>1. \A w \in Worker : queue'[w] = <<>> /\ current'[w] = NoQuery
    BY <1>1
  <2>2. Range(<<>>) = {}
    BY DEF Range
  <2>3. QED  BY <1>1, <1>2, <2>1, <2>2, PoolAssumption DEF Placed
<1>7. Types'
  BY <1>1, <1>2 DEF Types
<1>8. Callers'
  BY <1>1, <1>2, <1>5 DEF Callers, Told, ActiveAwaitsAnswer, CallersAreTold
<1>9. QED  BY <1>5, <1>6, <1>7, <1>8 DEF IInv

-----------------------------------------------------------------------------
(* Theorems *)

\* At first there is no query, no lock and no work.
LEMMA InitIInv == Init => IInv
<1> SUFFICES ASSUME Init PROVE IInv
  OBVIOUS
<1>1. LockClient = [q \in Query |-> "idle"]
  BY DEF Init, LockClient, ClientAt
<1>2. L!Init
  BY <1>1 DEF Init, Locks!Init, L!Init, Locks!Free, L!Free, Locks!Nothing, L!Nothing,
         Locks!Read, L!Read
<1>3. L!IInv
  BY <1>2, LockAssumptions, L!InitIInv
<1>4. Types
  <2>1. pc \in [Query -> Stage] /\ overflow = {q \in Query : pc[q] = "overflow"}
    BY DEF Init, Stage
  <2>2. queue \in [Worker -> Seq(Query)]
    <3>1. <<>> \in Seq(Query)
      OBVIOUS
    <3>2. QED  BY <3>1 DEF Init
  <2>3. current \in [Worker -> Query \cup {NoQuery}]
    BY DEF Init
  <2>4. assigned \in [Query -> Worker \cup {NoWorker}]
    BY DEF Init
  <2>5. QED  BY <2>1, <2>2, <2>3, <2>4 DEF Init, Types
<1>5. Placed
  <2>1. Range(<<>>) = {}
    BY DEF Range
  <2>2. QED  BY <2>1, PoolAssumption DEF Init, Placed
<1>6. Callers
  BY DEF Init, Callers, Told, ActiveAwaitsAnswer, CallersAreTold
<1>7. QED  BY <1>3, <1>4, <1>5, <1>6 DEF IInv

\* Every step of the pool keeps the types, the books of the lock manager, the
\* places of the queries and what their callers have been told.
LEMMA Invariance == Spec => []IInv
<1>1. ASSUME IInv, [Next]_vars PROVE IInv'
  <2>1. CASE \E q \in Query, r \in Request : Submit(q, r)
    BY <1>1, <2>1, SubmitKeeps
  <2>2. CASE \E q \in Query : LocksAcquired(q) \/ Finish(q)
    BY <1>1, <2>2, LocksAcquiredKeeps, FinishKeeps
  <2>3. CASE Drain
    BY <1>1, <2>3, DrainKeeps
  <2>4. CASE \E w \in Worker : Answer(w)
    BY <1>1, <2>4, AnswerKeeps
  <2>5. CASE \E q \in Query : Timeout(q) \/ Abort(q)
    BY <1>1, <2>5, TimeoutKeeps, AbortKeeps
  <2>6. CASE Shutdown
    BY <1>1, <2>6, ShutdownKeeps
  <2>7. CASE UNCHANGED vars
    <3>1. LockClient' = LockClient
      BY <2>7 DEF vars, LockClient
    <3>2. L!IInv'
      BY <1>1, <2>7, <3>1, LocksKeep DEF vars, L!lockVars, IInv
    <3>3. Types' /\ Placed' /\ Callers'
      BY <1>1, <2>7
         DEF vars, IInv, Types, Placed, Callers, Told, ActiveAwaitsAnswer, CallersAreTold
    <3>4. QED  BY <3>2, <3>3 DEF IInv
  <2>8. QED
    BY <1>1, <2>1, <2>2, <2>3, <2>4, <2>5, <2>6, <2>7 DEF Next, Microtask, Task, Application
<1>2. QED  BY <1>1, InitIInv, PTL DEF Spec

\* The inductive invariant of the pool.
THEOREM InductiveInvariant == Spec => [](TypeOK /\ Consistent)
<1>1. IInv => TypeOK /\ Consistent
  BY TypesFollow, SameConsistent DEF IInv, L!IInv, Callers, Consistent
<1>2. QED  BY <1>1, Invariance, PTL

\* Types: every query is where its stage says.
THEOREM TypeCorrect == Spec => []TypeOK
BY InductiveInvariant, PTL

\* Two statements that run at once never share a table that one of them writes,
\* whatever was aborted, timed out, rerouted or shut down.
THEOREM WritersRunAlone == Spec => []StatementsExclude
<1>1. IInv => StatementsExclude
  <2> SUFFICES ASSUME IInv, NEW p \in Query, NEW q \in Query, p # q,
                      pc[p] = "running", pc[q] = "running",
                      NEW t \in want[p].tables \cap want[q].tables,
                      want[p].mode # "read"
               PROVE  FALSE
    BY DEF StatementsExclude
  <2>1. ~shuttingDown
    BY DEF IInv, Callers, Told
  <2>2. LockClient[p] = "holding" /\ LockClient[q] = "holding"
    BY DEF LockClient, ClientAt
  <2>3. t \in granted[p] /\ t \in granted[q]
    BY <2>2 DEF IInv, L!IInv, L!Consistent
  <2>4. /\ t \in Table /\ want[p].mode = "write" /\ want[q].mode \in {"read", "write"}
    BY <2>3, PoolAssumption DEF IInv, L!IInv, L!TypeOK, L!Nothing, L!Read
  <2>5. /\ p \in L!Holders(t, L!Write)
        /\ q \in L!Holders(t, L!Read) \cup L!Holders(t, L!Write)
    BY <2>3, <2>4 DEF L!Holders, L!Read, L!Write
  <2>6. L!BookOf(t)
    BY <2>1, <2>4 DEF IInv, L!IInv, L!Consistent
  <2>7. QED  BY <2>5, <2>6 DEF L!BookOf, L!Book
<1>2. QED  BY <1>1, Invariance, PTL

\* Whatever the way out of it, a query that is done holds no lock, and the lock
\* manager's books agree with the queries.
THEOREM LocksAreGivenBack == Spec => []LocksGivenBack
<1>1. IInv => LocksGivenBack
  <2> SUFFICES ASSUME IInv PROVE LocksGivenBack
    OBVIOUS
  <2>1. Locks!Consistent
    BY SameConsistent DEF IInv, L!IInv
  <2>2. Locks!EntriesCountHolders
    BY <2>1 DEF Locks!Consistent, Locks!EntriesCountHolders, Locks!BookOf, Locks!Book
  <2>3. \A q \in Query : pc[q] \in {"new", "overflow", "done"} => granted[q] = {}
    BY DEF IInv, L!IInv, L!Consistent, LockClient, ClientAt
  <2>4. QED  BY <2>2, <2>3 DEF LocksGivenBack
<1>2. QED  BY <1>1, Invariance, PTL

\* activeQueries are the queries whose caller still waits.
THEOREM ActiveQueriesAwaitAnswers == Spec => []ActiveAwaitsAnswer
BY InductiveInvariant, PTL DEF Consistent

\* A call that has ended has told its caller, but for the one path of the code that
\* throws into a promise nobody handles.
THEOREM CallersHear == Spec => []CallersAreTold
BY InductiveInvariant, PTL DEF Consistent
=============================================================================
