-------------------------- MODULE TableLocks_proof --------------------------
(***************************************************************************)
(* Proofs about TableLocks, for every set of queries, tables and requests: *)
(* writers exclude, an entry agrees with the queries, and whoever waits    *)
(* for a table waits for somebody.                                         *)
(*                                                                         *)
(* Book says of one entry what it owes to the queries; the lemmas of the   *)
(* first part show that taking, queueing and releasing keep it, whatever   *)
(* the sets of holders and waiters are.                                    *)
(***************************************************************************)
EXTENDS TableLocks, QueueLemmas, FiniteSetTheorems, WellFoundedInduction

-----------------------------------------------------------------------------
(* One entry *)

\* Taking an entry that is free for the mode makes its caller a holder.
LEMMA TakingKeepsBook ==
  ASSUME NEW l \in TableLock, NEW q \in Query, NEW mode \in {Read, Write},
         NEW HR \in SUBSET Query, NEW HW \in SUBSET Query,
         NEW WR \in SUBSET Query, NEW WW \in SUBSET Query,
         Book(l, HR, HW, WR, WW), CanTake(l, mode), q \notin HR
  PROVE  /\ Taken(l, mode) \in TableLock
         /\ Book(Taken(l, mode), HR \cup (IF mode = Read THEN {q} ELSE {}),
                 HW \cup (IF mode = Write THEN {q} ELSE {}), WR, WW)
<1> DEFINE n == Taken(l, mode)
<1>1. IsFiniteSet(HR)
  BY FiniteQueries, FS_Subset
<1>2. /\ Cardinality(HR \cup {q}) = Cardinality(HR) + 1
      /\ Cardinality(HR) \in Nat
      /\ Cardinality(HR) = 0 => HR = {}
  BY <1>1, FS_AddElement, FS_CardinalityType, FS_EmptySet
<1>3. ~l.writer /\ HW = {} /\ l.readersCount = Cardinality(HR)
  BY DEF Book, CanTake
<1>4. CASE mode = Read
  <2>1. /\ n.readersCount = l.readersCount + 1 /\ n.writer = l.writer
        /\ n.readersQueue = l.readersQueue /\ n.writersQueue = l.writersQueue
        /\ n \in TableLock
    BY <1>4 DEF Taken, TableLock, Read
  <2>2. Book(n, HR \cup {q}, HW, WR, WW)
    BY <2>1, <1>2, <1>3 DEF Book
  <2>3. QED  BY <1>4, <2>1, <2>2 DEF Read, Write
<1>5. CASE mode = Write
  <2>1. /\ n.readersCount = l.readersCount /\ n.writer = TRUE
        /\ n.readersQueue = l.readersQueue /\ n.writersQueue = l.writersQueue
        /\ n \in TableLock
    BY <1>5 DEF Taken, TableLock, Read, Write
  <2>2. HR = {}
    BY <1>5, <1>2, <1>3 DEF CanTake, Read, Write
  <2>3. Book(n, HR, HW \cup {q}, WR, WW)
    BY <2>1, <2>2, <1>3 DEF Book
  <2>4. QED  BY <1>5, <2>1, <2>3 DEF Read, Write
<1>6. QED  BY <1>4, <1>5

\* Queueing for an entry that is not free makes its caller a waiter.
LEMMA QueueingKeepsBook ==
  ASSUME NEW l \in TableLock, NEW q \in Query, NEW mode \in {Read, Write},
         NEW HR \in SUBSET Query, NEW HW \in SUBSET Query,
         NEW WR \in SUBSET Query, NEW WW \in SUBSET Query,
         Book(l, HR, HW, WR, WW), ~CanTake(l, mode), q \notin WW
  PROVE  /\ Queued(l, q, mode) \in TableLock
         /\ Book(Queued(l, q, mode), HR, HW, WR \cup (IF mode = Read THEN {q} ELSE {}),
                 WW \cup (IF mode = Write THEN {q} ELSE {}))
<1> DEFINE n == Queued(l, q, mode)
<1>0. l.writersQueue \in Seq(Query)
  BY DEF TableLock
<1>1. CASE mode = Read
  <2>1. /\ n.readersCount = l.readersCount /\ n.writer = l.writer
        /\ n.readersQueue = l.readersQueue \cup {q} /\ n.writersQueue = l.writersQueue
        /\ n \in TableLock
    BY <1>1 DEF Queued, TableLock, Read
  <2>2. l.writer \/ l.writersQueue # <<>>
    BY <1>1 DEF CanTake
  <2>3. l.writersQueue # <<>> => Head(l.writersQueue) \in WW
    BY <1>0, ServedQueue DEF Apart, Book
  <2>4. HW # {} \/ WW # {}
    BY <2>2, <2>3 DEF Book
  <2>5. HR \cup HW # {}
    BY <2>4 DEF Book
  <2>6. Book(n, HR, HW, WR \cup {q}, WW)
    BY <2>1, <2>4, <2>5 DEF Book
  <2>7. QED  BY <1>1, <2>1, <2>6 DEF Read, Write
<1>2. CASE mode = Write
  <2>1. /\ n.readersCount = l.readersCount /\ n.writer = l.writer
        /\ n.readersQueue = l.readersQueue /\ n.writersQueue = Append(l.writersQueue, q)
    BY <1>2 DEF Queued, TableLock, Read, Write
  <2>2. /\ n.writersQueue \in Seq(Query)
        /\ Range(n.writersQueue) = WW \cup {q}
        /\ \A i, j \in DOMAIN n.writersQueue : n.writersQueue[i] = n.writersQueue[j] => i = j
    BY <1>0, <2>1, AppendedQueue DEF Apart, Book
  <2>3. n \in TableLock
    BY <1>2, <2>2 DEF Queued, TableLock, Read, Write
  <2>4. HR \cup HW # {}
    BY <1>2, FS_EmptySet DEF CanTake, Book, Read, Write
  <2>5. Book(n, HR, HW, WR, WW \cup {q})
    BY <2>1, <2>2, <2>4 DEF Book
  <2>6. QED  BY <1>2, <2>3, <2>5 DEF Read, Write
<1>3. QED  BY <1>1, <1>2

\* The queries a release lets in were waiting; the others go on waiting.
LEMMA PromotedWaited ==
  ASSUME NEW l \in TableLock, NEW mode \in {Read, Write},
         NEW HR \in SUBSET Query, NEW HW \in SUBSET Query,
         NEW WR \in SUBSET Query, NEW WW \in SUBSET Query,
         Book(l, HR, HW, WR, WW)
  PROVE  Promoted(l, mode) \subseteq WR \cup WW
BY ServedQueue DEF Apart, Promoted, PromotesWriter, Book, TableLock

\* A reader that leaves lets the first waiting writer in when it was the last.
LEMMA ReadReleaseKeepsBook ==
  ASSUME NEW l \in TableLock, NEW q \in Query,
         NEW HR \in SUBSET Query, NEW HW \in SUBSET Query,
         NEW WR \in SUBSET Query, NEW WW \in SUBSET Query,
         Book(l, HR, HW, WR, WW), WR \cap WW = {}, q \in HR
  PROVE  LET P == Promoted(l, Read)
         IN  /\ Released(l, Read) \in TableLock
             /\ Book(Released(l, Read), (HR \ {q}) \cup (WR \cap P), HW \cup (WW \cap P),
                     WR \ P, WW \ P)
<1> DEFINE n == Released(l, Read)
           P == Promoted(l, Read)
<1>0. l.writersQueue \in Seq(Query) /\ l.readersCount = Cardinality(HR) /\ HW = {} /\ ~l.writer
  BY DEF TableLock, Book
<1>1. /\ IsFiniteSet(HR \ {q}) /\ Cardinality(HR \ {q}) = Cardinality(HR) - 1
      /\ Cardinality(HR) \in Nat /\ Cardinality(HR \ {q}) \in Nat
      /\ Cardinality(HR) = 1 <=> HR \ {q} = {}
  <2>1. IsFiniteSet(HR)
    BY FiniteQueries, FS_Subset
  <2>2. IsFiniteSet(HR \ {q}) /\ Cardinality(HR \ {q}) = Cardinality(HR) - 1
    BY <2>1, FS_RemoveElement
  <2>3. Cardinality(HR) \in Nat /\ Cardinality(HR \ {q}) \in Nat
    BY <2>1, <2>2, FS_CardinalityType
  <2>4. Cardinality(HR \ {q}) = 0 <=> HR \ {q} = {}
    BY <2>2, FS_EmptySet
  <2>5. QED  BY <2>2, <2>3, <2>4
<1>2. /\ n.readersCount = Cardinality(HR \ {q})
      /\ n.writer \in BOOLEAN /\ (n.writer <=> PromotesWriter(l, Read))
      /\ n.readersQueue = l.readersQueue
  <2>1. n.readersCount = Cardinality(HR \ {q})
    BY <1>0, <1>1 DEF Released, PromotesReaders, Read, Write
  <2>2. n.writer = (PromotesWriter(l, Read) \/ (Read = Read /\ l.writer))
    BY DEF Released
  <2>3. n.writer \in BOOLEAN /\ (n.writer <=> PromotesWriter(l, Read))
    BY <1>0, <2>2 DEF PromotesWriter, Read, Write
  <2>4. n.readersQueue = l.readersQueue
    BY DEF Released, PromotesReaders, Read, Write
  <2>5. QED  BY <2>1, <2>3, <2>4
<1>3. CASE PromotesWriter(l, Read)
  <2>1. /\ l.writersQueue # <<>> /\ HR \ {q} = {}
    BY <1>3, <1>0, <1>1 DEF PromotesWriter, Read
  <2> DEFINE h == Head(l.writersQueue)
  <2>2. /\ h \in WW /\ n.writersQueue = Tail(l.writersQueue)
        /\ n.writersQueue \in Seq(Query)
        /\ Range(n.writersQueue) = WW \ {h}
        /\ \A i, j \in DOMAIN n.writersQueue : n.writersQueue[i] = n.writersQueue[j] => i = j
    BY <1>0, <1>3, <2>1, ServedQueue DEF Apart, Released, Book
  <2>3. P = {h}
    BY <1>3 DEF Promoted, PromotesReaders, Read, Write
  <2>4. n \in TableLock
    BY <1>0, <1>1, <1>2, <2>2 DEF Released, PromotesReaders, PromotesWriter, TableLock, Read, Write
  <2>5. WR \cap P = {} /\ WW \cap P = {h} /\ WR \ P = WR /\ WW \ P = WW \ {h}
    BY <2>2, <2>3
  <2> HIDE DEF n, P, h
  <2>6. Book(n, HR \ {q}, {h}, WR, WW \ {h})
    BY <1>2, <1>3, <2>1, <2>2 DEF Book
  <2>7. QED  BY <1>0, <2>4, <2>5, <2>6 DEF n, P
<1>4. CASE ~PromotesWriter(l, Read)
  <2>1. P = {} /\ n.writersQueue = l.writersQueue
    BY <1>4 DEF Promoted, PromotesReaders, Released, Read, Write
  <2>2. n \in TableLock
    BY <1>0, <1>1, <1>2, <2>1, <1>4 DEF Released, PromotesReaders, TableLock, Read, Write
  <2>3. WW # {} => HR \ {q} # {}
    BY <1>0, <1>1, <1>4 DEF PromotesWriter, Book, Range, Read
  <2> HIDE DEF n, P
  <2>4. Book(n, HR \ {q}, {}, WR, WW)
    BY <1>0, <1>2, <1>4, <2>1, <2>3 DEF Book
  <2>5. QED  BY <1>0, <2>1, <2>2, <2>4 DEF n, P
<1>5. QED  BY <1>3, <1>4

\* A writer that leaves lets every waiting reader in, or else the first writer.
LEMMA WriteReleaseKeepsBook ==
  ASSUME NEW l \in TableLock, NEW q \in Query,
         NEW HR \in SUBSET Query, NEW HW \in SUBSET Query,
         NEW WR \in SUBSET Query, NEW WW \in SUBSET Query,
         Book(l, HR, HW, WR, WW), WR \cap WW = {}, q \in HW
  PROVE  LET P == Promoted(l, Write)
         IN  /\ Released(l, Write) \in TableLock
             /\ Book(Released(l, Write), HR \cup (WR \cap P), (HW \ {q}) \cup (WW \cap P),
                     WR \ P, WW \ P)
<1> DEFINE n == Released(l, Write)
           P == Promoted(l, Write)
<1>0. /\ l.writersQueue \in Seq(Query) /\ l.readersQueue = WR
      /\ HR = {} /\ HW \ {q} = {} /\ l.readersCount = Cardinality(HR)
  BY DEF TableLock, Book
<1>1. l.readersCount = 0 /\ Cardinality(WR) \in Nat
  BY <1>0, FS_EmptySet, FiniteQueries, FS_Subset, FS_CardinalityType
<1>2. /\ n.readersCount = Cardinality(WR)
      /\ n.writer \in BOOLEAN /\ (n.writer <=> PromotesWriter(l, Write))
      /\ n.readersQueue = {}
  <2>1. n.readersCount = Cardinality(WR)
    BY <1>0, <1>1 DEF Released, PromotesReaders, Read, Write
  <2>2. n.writer = (PromotesWriter(l, Write) \/ (Write = Read /\ l.writer))
    BY DEF Released
  <2>3. n.writer \in BOOLEAN /\ (n.writer <=> PromotesWriter(l, Write))
    BY <1>0, <2>2 DEF PromotesWriter, Read, Write
  <2>4. n.readersQueue = {}
    BY DEF Released, PromotesReaders, Read, Write
  <2>5. QED  BY <2>1, <2>3, <2>4
<1>3. CASE PromotesWriter(l, Write)
  <2>1. l.writersQueue # <<>> /\ WR = {}
    BY <1>3, <1>0 DEF PromotesWriter, Read, Write
  <2> DEFINE h == Head(l.writersQueue)
  <2>2. /\ h \in WW /\ n.writersQueue = Tail(l.writersQueue)
        /\ n.writersQueue \in Seq(Query)
        /\ Range(n.writersQueue) = WW \ {h}
        /\ \A i, j \in DOMAIN n.writersQueue : n.writersQueue[i] = n.writersQueue[j] => i = j
    BY <1>0, <1>3, <2>1, ServedQueue DEF Apart, Released, Book
  <2>3. P = {h}
    BY <1>0, <1>3, <2>1 DEF Promoted, PromotesReaders, Read, Write
  <2>4. n \in TableLock
    BY <1>0, <1>1, <1>2, <2>2 DEF Released, PromotesReaders, PromotesWriter, TableLock, Read, Write
  <2>5. WW \cap P = {h} /\ WW \ P = WW \ {h}
    BY <2>2, <2>3
  <2> HIDE DEF n, P, h
  <2>6. Book(n, {}, {h}, {}, WW \ {h})
    BY <1>2, <1>3, <2>1, <2>2 DEF Book
  <2>7. QED  BY <1>0, <2>1, <2>4, <2>5, <2>6 DEF n, P
<1>4. CASE ~PromotesWriter(l, Write)
  <2>1. P = WR /\ n.writersQueue = l.writersQueue
    BY <1>0, <1>4 DEF Promoted, PromotesReaders, Released, Read, Write
  <2>2. n \in TableLock
    BY <1>0, <1>1, <1>2, <2>1, <1>4 DEF Released, PromotesReaders, TableLock, Read, Write
  <2>3. WW # {} => WR # {}
    BY <1>0, <1>4 DEF PromotesWriter, Book, Range, Read, Write
  <2> HIDE DEF n, P
  <2>4. Book(n, WR, {}, {}, WW)
    BY <1>2, <1>4, <2>1, <2>3 DEF Book
  <2>5. WR \cap P = WR /\ WW \cap P = {} /\ WR \ P = {} /\ WW \ P = WW
    BY <2>1
  <2>6. QED  BY <1>0, <2>2, <2>4, <2>5 DEF n, P
<1>5. QED  BY <1>3, <1>4

-----------------------------------------------------------------------------
(* Each action keeps types and books *)

IInv == TypeOK /\ Consistent

\* A query that asks for locks takes or queues for each of its tables.
LEMMA AcquireKeeps ==
  ASSUME IInv, NEW q \in Query, NEW r \in Request, Acquire(q, r)
  PROVE  IInv'
<1>0. /\ r.tables \subseteq Table /\ r.mode \in {Read, Write}
      /\ client[q] = "idle" /\ granted[q] = {} /\ ~cleared /\ ~cleared'
      /\ \A t \in Table : BookOf(t) /\ lock[t] \in TableLock
  BY RequestAssumption DEF Acquire, IInv, TypeOK, Consistent
<1>1. /\ want' = [want EXCEPT ![q] = r]
      /\ granted' = [granted EXCEPT ![q] = {t \in r.tables : CanTake(lock[t], r.mode)}]
      /\ lock' = [t \in Table |->
                    IF t \in r.tables THEN Requested(lock[t], q, r.mode) ELSE lock[t]]
      /\ client' = [client EXCEPT ![q] = "acquiring"]
      /\ cleared' = cleared
  BY DEF Acquire, TakeLocks
<1>2. /\ want' \in [Query -> Request \cup {Nothing}]
      /\ granted' \in [Query -> SUBSET Table]
      /\ client' \in [Query -> {"idle", "acquiring", "holding"}]
      /\ cleared' \in BOOLEAN
      /\ \A p \in Query : granted'[p] \subseteq want'[p].tables
  BY <1>0, <1>1 DEF IInv, TypeOK
<1>3. /\ want'[q] = r /\ client'[q] = "acquiring"
      /\ granted'[q] = {t \in r.tables : CanTake(lock[t], r.mode)}
      /\ \A p \in Query \ {q} : /\ want'[p] = want[p] /\ client'[p] = client[p]
                               /\ granted'[p] = granted[p]
  BY <1>1 DEF IInv, TypeOK
<1>4. \A t \in Table : lock'[t] \in TableLock /\ BookOf(t)'
  <2> TAKE t \in Table
  <2>1. /\ q \notin Holders(t, Read) /\ q \notin Holders(t, Write)
        /\ q \notin Waiters(t, Read) /\ q \notin Waiters(t, Write)
    BY <1>0 DEF Holders, Waiters
  <2>2. /\ Holders(t, Read) \in SUBSET Query /\ Holders(t, Write) \in SUBSET Query
        /\ Waiters(t, Read) \in SUBSET Query /\ Waiters(t, Write) \in SUBSET Query
    BY DEF Holders, Waiters
  <2>3. /\ lock[t] \in TableLock
        /\ Book(lock[t], Holders(t, Read), Holders(t, Write), Waiters(t, Read), Waiters(t, Write))
    BY <1>0 DEF BookOf
  <2>4. CASE t \notin r.tables
    <3>1. \A mode \in {Read, Write} :
            Holders(t, mode)' = Holders(t, mode) /\ Waiters(t, mode)' = Waiters(t, mode)
      BY <1>3, <2>1, <2>4 DEF Holders, Waiters
    <3>2. lock'[t] = lock[t]
      BY <1>1, <2>4
    <3>3. QED  BY <3>1, <3>2, <2>3 DEF BookOf
  <2>5. CASE t \in r.tables /\ CanTake(lock[t], r.mode)
    <3>1. \A mode \in {Read, Write} :
            /\ Holders(t, mode)' = Holders(t, mode) \cup (IF r.mode = mode THEN {q} ELSE {})
            /\ Waiters(t, mode)' = Waiters(t, mode)
      BY <1>3, <2>1, <2>5 DEF Holders, Waiters
    <3>2. lock'[t] = Taken(lock[t], r.mode)
      BY <1>1, <2>5 DEF Requested
    <3>3. /\ Taken(lock[t], r.mode) \in TableLock
          /\ Book(Taken(lock[t], r.mode),
                  Holders(t, Read) \cup (IF r.mode = Read THEN {q} ELSE {}),
                  Holders(t, Write) \cup (IF r.mode = Write THEN {q} ELSE {}),
                  Waiters(t, Read), Waiters(t, Write))
      BY <1>0, <2>1, <2>2, <2>3, <2>5, TakingKeepsBook
    <3>4. QED  BY <3>1, <3>2, <3>3 DEF BookOf
  <2>6. CASE t \in r.tables /\ ~CanTake(lock[t], r.mode)
    <3>1. \A mode \in {Read, Write} :
            /\ Holders(t, mode)' = Holders(t, mode)
            /\ Waiters(t, mode)' = Waiters(t, mode) \cup (IF r.mode = mode THEN {q} ELSE {})
      BY <1>3, <2>1, <2>6 DEF Holders, Waiters
    <3>2. lock'[t] = Queued(lock[t], q, r.mode)
      BY <1>1, <2>6 DEF Requested
    <3>3. /\ Queued(lock[t], q, r.mode) \in TableLock
          /\ Book(Queued(lock[t], q, r.mode), Holders(t, Read), Holders(t, Write),
                  Waiters(t, Read) \cup (IF r.mode = Read THEN {q} ELSE {}),
                  Waiters(t, Write) \cup (IF r.mode = Write THEN {q} ELSE {}))
      BY <1>0, <2>1, <2>2, <2>3, <2>6, QueueingKeepsBook
    <3>4. QED  BY <3>1, <3>2, <3>3 DEF BookOf
  <2>7. QED  BY <2>4, <2>5, <2>6
<1>5. lock' \in [Table -> TableLock]
  BY <1>1, <1>4
<1>6. Consistent'
  BY <1>0, <1>3, <1>4 DEF Consistent, IInv
<1>7. QED  BY <1>2, <1>5, <1>6 DEF IInv, TypeOK

\* A caller whose promises are all resolved goes on.
LEMMA ProceedKeeps ==
  ASSUME IInv, NEW q \in Query, Proceed(q)
  PROVE  IInv'
<1>1. /\ client[q] = "acquiring" /\ granted[q] = want[q].tables
      /\ client' = [client EXCEPT ![q] = "holding"]
      /\ UNCHANGED <<lock, granted, want, cleared>>
  BY DEF Proceed
<1>2. TypeOK'
  BY <1>1 DEF IInv, TypeOK
<1>3. /\ client'[q] = "holding"
      /\ \A p \in Query \ {q} : client'[p] = client[p]
  BY <1>1 DEF IInv, TypeOK
<1>4. \A t \in Table, mode \in {Read, Write} :
        Holders(t, mode)' = Holders(t, mode) /\ Waiters(t, mode)' = Waiters(t, mode)
  BY <1>1, <1>3 DEF Holders, Waiters
<1>5. \A t \in Table : BookOf(t) => BookOf(t)'
  BY <1>1, <1>4 DEF BookOf
<1>6. Consistent'
  BY <1>1, <1>3, <1>5 DEF Consistent, IInv
<1>7. QED  BY <1>2, <1>6 DEF IInv

\* A caller whose promises are all resolved gives its tables back, whether it went
\* on with them or not; each is handed over to the queries it promotes, which waited.
GivesBack(q) ==
  /\ client[q] # "idle" /\ granted[q] = want[q].tables
  /\ ReleaseLocks(q)
  /\ client' = [client EXCEPT ![q] = "idle"]
  /\ UNCHANGED cleared

\* Handing over, table by table: whoever a table promotes was waiting for it, and is now
\* one of its holders.
LEMMA HandedOver ==
  ASSUME IInv, NEW q \in Query, GivesBack(q), ~cleared
  PROVE  LET mode == want[q].mode
         IN  /\ \A t \in Table :
                  LET P == Promoted(lock[t], mode)
                  IN  /\ t \notin want[q].tables =>
                           /\ lock'[t] = lock[t]
                           /\ \A m \in {Read, Write} : /\ Holders(t, m)' = Holders(t, m)
                                                       /\ Waiters(t, m)' = Waiters(t, m)
                      /\ t \in want[q].tables =>
                           /\ lock'[t] = Released(lock[t], mode)
                           /\ q \in Holders(t, mode)
                           /\ \A m \in {Read, Write} :
                                /\ Holders(t, m)' = (Holders(t, m) \ {q}) \cup (Waiters(t, m) \cap P)
                                /\ Waiters(t, m)' = Waiters(t, m) \ P
             /\ \A p \in Query : granted'[p] \subseteq want[p].tables
             /\ \A p \in Query \ {q} : client[p] # "acquiring" => granted'[p] = granted[p]
<1> DEFINE mode == want[q].mode
           Mine == {t \in want[q].tables : lock[t] # Free}
           Told(p) == {t \in Mine : p \in Promoted(lock[t], mode)}
<1>0. /\ client[q] # "idle" /\ granted[q] = want[q].tables
      /\ mode \in {Read, Write} /\ granted[q] \subseteq Table
      /\ \A p \in Query : want[p].mode \in {Read, Write}
  BY RequestAssumption DEF GivesBack, IInv, TypeOK, Nothing
<1>1. /\ lock' = [t \in Table |-> IF t \in Mine THEN Released(lock[t], mode) ELSE lock[t]]
      /\ granted' = [p \in Query |-> IF p = q THEN {} ELSE granted[p] \cup Told(p)]
      /\ client' = [client EXCEPT ![q] = "idle"]
      /\ UNCHANGED <<want, cleared>>
  BY DEF GivesBack, ReleaseLocks
<1>2. /\ client'[q] = "idle" /\ granted'[q] = {}
      /\ \A p \in Query \ {q} : client'[p] = client[p] /\ granted'[p] = granted[p] \cup Told(p)
      /\ client' \in [Query -> {"idle", "acquiring", "holding"}]
      /\ granted' \in [Query -> SUBSET Table]
  BY <1>0, <1>1 DEF IInv, TypeOK
<1>3. \A t \in Table : BookOf(t) /\ lock[t] \in TableLock
  BY DEF IInv, TypeOK, Consistent
<1>4. \A t \in want[q].tables : q \in Holders(t, mode)
  BY <1>0 DEF Holders
<1>5. Mine = want[q].tables
  <2> SUFFICES ASSUME NEW t \in want[q].tables, lock[t] = Free PROVE FALSE
    OBVIOUS
  <2>1. t \in Table /\ q \in Holders(t, mode)
    BY <1>0, <1>4
  <2>2. IsFiniteSet(Holders(t, Read))
    BY FiniteQueries, FS_Subset DEF Holders
  <2>3. lock[t].readersCount = 0 /\ lock[t].writer = FALSE
    BY DEF Free
  <2>4. Cardinality(Holders(t, Read)) = 0 /\ Holders(t, Write) = {}
    BY <1>3, <2>1, <2>3 DEF BookOf, Book
  <2>5. Holders(t, Read) = {}
    BY <2>2, <2>4, FS_EmptySet
  <2>6. QED  BY <1>0, <2>1, <2>4, <2>5
<1>6. \A t \in Table : \A m \in {Read, Write} :
        Promoted(lock[t], m) \subseteq Waiters(t, Read) \cup Waiters(t, Write)
  <2> TAKE t \in Table
  <2>1. /\ Holders(t, Read) \in SUBSET Query /\ Holders(t, Write) \in SUBSET Query
        /\ Waiters(t, Read) \in SUBSET Query /\ Waiters(t, Write) \in SUBSET Query
    BY DEF Holders, Waiters
  <2>2. QED  BY <1>3, <2>1, PromotedWaited DEF BookOf
<1>7. \A p \in Query : p # q => Told(p) \subseteq want[p].tables
  BY <1>0, <1>5, <1>6 DEF Waiters
<1>8. \A p \in Query : granted'[p] \subseteq want'[p].tables
  BY <1>1, <1>2, <1>7 DEF IInv, TypeOK
<1>9. \A p \in Query : client[p] # "acquiring" => Told(p) = {}
  BY <1>0, <1>5, <1>6 DEF Waiters
<1>10. ASSUME NEW t \in Table, t \notin want[q].tables
       PROVE  /\ lock'[t] = lock[t]
              /\ \A m \in {Read, Write} : /\ Holders(t, m)' = Holders(t, m)
                                          /\ Waiters(t, m)' = Waiters(t, m)
  <2>1. \A p \in Query : t \in granted'[p] <=> t \in granted[p]
    BY <1>0, <1>2, <1>10
  <2>2. QED  BY <1>0, <1>1, <1>2, <1>10, <2>1 DEF Holders, Waiters
<1>11. ASSUME NEW t \in Table, t \in want[q].tables
       PROVE  LET P == Promoted(lock[t], mode)
              IN  /\ lock'[t] = Released(lock[t], mode)
                  /\ q \in Holders(t, mode)
                  /\ \A m \in {Read, Write} :
                       /\ Holders(t, m)' = (Holders(t, m) \ {q}) \cup (Waiters(t, m) \cap P)
                       /\ Waiters(t, m)' = Waiters(t, m) \ P
  <2> DEFINE P == Promoted(lock[t], mode)
  <2>1. \A p \in Query \ {q} : t \in granted'[p] <=> (t \in granted[p] \/ p \in P)
    BY <1>2, <1>5, <1>11
  <2>2. P \subseteq Waiters(t, Read) \cup Waiters(t, Write) /\ q \notin P
    BY <1>0, <1>6 DEF Waiters
  <2>3. q \in Holders(t, mode)
    BY <1>4, <1>11
  <2>4. lock'[t] = Released(lock[t], mode)
    BY <1>1, <1>5, <1>11
  <2> HIDE DEF P
  <2>5. \A m \in {Read, Write} :
          /\ Holders(t, m)' = (Holders(t, m) \ {q}) \cup (Waiters(t, m) \cap P)
          /\ Waiters(t, m)' = Waiters(t, m) \ P
    <3> TAKE m \in {Read, Write}
    <3>1. \A p \in Query : p \in P => /\ client[p] = "acquiring" /\ t \in want[p].tables
                                    /\ t \notin granted[p]
      BY <2>2 DEF Waiters
    <3>2. Holders(t, m)' = (Holders(t, m) \ {q}) \cup (Waiters(t, m) \cap P)
      BY <1>1, <1>2, <2>1, <2>2, <3>1 DEF Holders, Waiters
    <3>3. Waiters(t, m)' = Waiters(t, m) \ P
      BY <1>0, <1>1, <1>2, <2>1, <2>2, <3>1 DEF Holders, Waiters
    <3>4. QED  BY <3>2, <3>3
  <2>6. QED  BY <2>3, <2>4, <2>5 DEF P
<1>12. \A p \in Query \ {q} : client[p] # "acquiring" => granted'[p] = granted[p]
  BY <1>2, <1>9
<1>13. \A p \in Query : granted'[p] \subseteq want[p].tables
  BY <1>1, <1>8
<1> HIDE DEF Mine, Told
<1>14. QED  BY <1>10, <1>11, <1>12, <1>13

\* What a query gives back leaves types and books in order.
LEMMA GivingBackKeeps ==
  ASSUME IInv, NEW q \in Query, GivesBack(q)
  PROVE  IInv'
<1> DEFINE mode == want[q].mode
           Mine == {t \in want[q].tables : lock[t] # Free}
           Told(p) == {t \in Mine : p \in Promoted(lock[t], mode)}
<1>0. /\ client[q] # "idle" /\ granted[q] = want[q].tables
      /\ mode \in {Read, Write} /\ granted[q] \subseteq Table
      /\ \A p \in Query : want[p].mode \in {Read, Write}
  BY RequestAssumption DEF GivesBack, IInv, TypeOK, Nothing
<1>1. /\ lock' = [t \in Table |-> IF t \in Mine THEN Released(lock[t], mode) ELSE lock[t]]
      /\ granted' = [p \in Query |-> IF p = q THEN {} ELSE granted[p] \cup Told(p)]
      /\ client' = [client EXCEPT ![q] = "idle"]
      /\ UNCHANGED <<want, cleared>>
  BY DEF GivesBack, ReleaseLocks
<1>2. /\ client'[q] = "idle" /\ granted'[q] = {}
      /\ \A p \in Query \ {q} : client'[p] = client[p] /\ granted'[p] = granted[p] \cup Told(p)
      /\ client' \in [Query -> {"idle", "acquiring", "holding"}]
      /\ granted' \in [Query -> SUBSET Table]
  BY <1>0, <1>1 DEF IInv, TypeOK
<1>3. CASE cleared
  <2>1. Mine = {}
    BY <1>0, <1>3 DEF IInv, Consistent
  <2>2. lock' = lock
    BY <1>1, <2>1 DEF IInv, TypeOK
  <2>3. \A p \in Query \ {q} : granted'[p] = granted[p]
    BY <1>2, <2>1
  <2>4. \A p \in Query : granted'[p] \subseteq want'[p].tables
    BY <1>1, <1>2, <2>3 DEF IInv, TypeOK
  <2>5. TypeOK'
    BY <1>1, <1>2, <2>2, <2>4 DEF IInv, TypeOK
  <2>6. Consistent'
    <3>1. lock' = [t \in Table |-> Free] /\ cleared'
      BY <1>1, <1>3, <2>2 DEF IInv, Consistent
    <3>2. ASSUME NEW p \in Query
          PROVE  /\ client'[p] = "idle" => granted'[p] = {}
                 /\ client'[p] \in {"holding", "acquiring"} => granted'[p] = want'[p].tables
      <4>1. CASE p = q
        BY <1>2, <4>1
      <4>2. CASE p # q
        BY <1>1, <1>2, <1>3, <2>3, <4>2 DEF IInv, Consistent
      <4>3. QED  BY <4>1, <4>2
    <3>3. QED  BY <3>1, <3>2 DEF Consistent
  <2>7. QED  BY <2>5, <2>6 DEF IInv
<1>4. CASE ~cleared
  <2>1. \A t \in Table : lock'[t] \in TableLock /\ BookOf(t)'
    <3> TAKE t \in Table
    <3> DEFINE P == Promoted(lock[t], mode)
    <3>1. /\ Holders(t, Read) \in SUBSET Query /\ Holders(t, Write) \in SUBSET Query
          /\ Waiters(t, Read) \in SUBSET Query /\ Waiters(t, Write) \in SUBSET Query
          /\ Waiters(t, Read) \cap Waiters(t, Write) = {}
      BY DEF Holders, Waiters, Read, Write
    <3>2. /\ lock[t] \in TableLock
          /\ Book(lock[t], Holders(t, Read), Holders(t, Write), Waiters(t, Read), Waiters(t, Write))
      BY <1>4 DEF IInv, TypeOK, Consistent, BookOf
    <3>3. CASE t \notin want[q].tables
      <4>1. /\ lock'[t] = lock[t]
            /\ \A m \in {Read, Write} :
                 Holders(t, m)' = Holders(t, m) /\ Waiters(t, m)' = Waiters(t, m)
        BY <1>4, <3>3, HandedOver
      <4>2. QED  BY <3>2, <4>1 DEF BookOf
    <3>4. CASE t \in want[q].tables
      <4> HIDE DEF P
      <4>1. /\ lock'[t] = Released(lock[t], mode)
            /\ q \in Holders(t, mode)
            /\ \A m \in {Read, Write} :
                 /\ Holders(t, m)' = (Holders(t, m) \ {q}) \cup (Waiters(t, m) \cap P)
                 /\ Waiters(t, m)' = Waiters(t, m) \ P
        BY <1>4, <3>4, HandedOver DEF P
      <4>2. CASE mode = Read
        <5>1. /\ Released(lock[t], Read) \in TableLock
              /\ Book(Released(lock[t], Read),
                      (Holders(t, Read) \ {q}) \cup (Waiters(t, Read) \cap P),
                      Holders(t, Write) \cup (Waiters(t, Write) \cap P),
                      Waiters(t, Read) \ P, Waiters(t, Write) \ P)
          <6>1. P = Promoted(lock[t], Read) /\ q \in Holders(t, Read)
            BY <4>1, <4>2 DEF P
          <6>2. QED  BY <3>1, <3>2, <6>1, ReadReleaseKeepsBook
        <5>2. Holders(t, Write) \ {q} = Holders(t, Write)
          BY <4>2 DEF Holders, Read, Write
        <5>3. QED  BY <4>1, <4>2, <5>1, <5>2 DEF BookOf
      <4>3. CASE mode = Write
        <5>1. /\ Released(lock[t], Write) \in TableLock
              /\ Book(Released(lock[t], Write),
                      Holders(t, Read) \cup (Waiters(t, Read) \cap P),
                      (Holders(t, Write) \ {q}) \cup (Waiters(t, Write) \cap P),
                      Waiters(t, Read) \ P, Waiters(t, Write) \ P)
          <6>1. P = Promoted(lock[t], Write) /\ q \in Holders(t, Write)
            BY <4>1, <4>3 DEF P
          <6>2. QED  BY <3>1, <3>2, <6>1, WriteReleaseKeepsBook
        <5>2. Holders(t, Read) \ {q} = Holders(t, Read)
          BY <4>3 DEF Holders, Read, Write
        <5>3. QED  BY <4>1, <4>3, <5>1, <5>2 DEF BookOf
      <4>4. QED  BY <1>0, <4>2, <4>3
    <3>5. QED  BY <3>3, <3>4
  <2>2. lock' \in [Table -> TableLock]
    BY <1>1, <2>1
  <2>3. /\ \A p \in Query : granted'[p] \subseteq want[p].tables
        /\ \A p \in Query \ {q} : client[p] # "acquiring" => granted'[p] = granted[p]
    BY <1>4, HandedOver
  <2>4. TypeOK'
    BY <1>1, <1>2, <2>2, <2>3 DEF IInv, TypeOK
  <2>5. Consistent'
    BY <1>1, <1>2, <1>4, <2>1, <2>3 DEF IInv, Consistent
  <2>6. QED  BY <2>4, <2>5 DEF IInv
<1>5. QED  BY <1>3, <1>4

LEMMA ReleaseKeeps ==
  ASSUME IInv, NEW q \in Query, Release(q)
  PROVE  IInv'
<1>1. client[q] = "holding" /\ granted[q] = want[q].tables
  BY DEF Release, IInv, Consistent
<1>2. QED  BY <1>1, GivingBackKeeps DEF Release, GivesBack

\* A caller that asks for no table, or not yet, holds none and waits for none.
AsksForNothing(q, r, c) ==
  /\ client[q] = "idle" /\ (c = "idle" \/ (c = "holding" /\ r.tables = {}))
  /\ want' = [want EXCEPT ![q] = r]
  /\ client' = [client EXCEPT ![q] = c]
  /\ UNCHANGED <<lock, granted, cleared>>

LEMMA AskingForNothingKeeps ==
  ASSUME IInv, NEW q \in Query, NEW r \in Request, NEW c, AsksForNothing(q, r, c)
  PROVE  IInv'
<1>1. /\ client[q] = "idle" /\ granted[q] = {} /\ (c = "idle" \/ (c = "holding" /\ r.tables = {}))
      /\ want' = [want EXCEPT ![q] = r]
      /\ client' = [client EXCEPT ![q] = c]
      /\ UNCHANGED <<lock, granted, cleared>>
  BY DEF AsksForNothing, IInv, Consistent
<1>2. TypeOK'
  BY <1>1 DEF IInv, TypeOK
<1>3. /\ client'[q] = c /\ want'[q] = r
      /\ \A p \in Query \ {q} : client'[p] = client[p] /\ want'[p] = want[p]
  BY <1>1 DEF IInv, TypeOK
<1>4. \A t \in Table, mode \in {Read, Write} :
        Holders(t, mode)' = Holders(t, mode) /\ Waiters(t, mode)' = Waiters(t, mode)
  <2> TAKE t \in Table, mode \in {Read, Write}
  <2>1. \A p \in Query : p \in Holders(t, mode)' <=> p \in Holders(t, mode)
    BY <1>1, <1>3 DEF Holders
  <2>2. \A p \in Query : p \in Waiters(t, mode)' <=> p \in Waiters(t, mode)
    BY <1>1, <1>3 DEF Waiters
  <2>3. QED  BY <2>1, <2>2 DEF Holders, Waiters
<1>5. \A t \in Table : BookOf(t) => BookOf(t)'
  BY <1>1, <1>4 DEF BookOf
<1>6. Consistent'
  BY <1>1, <1>3, <1>5 DEF Consistent, IInv
<1>7. QED  BY <1>2, <1>6 DEF IInv

\* clearAll grants every waiter all it asked for and leaves no entry.
LEMMA ClearAllKeeps ==
  ASSUME IInv, ClearAll
  PROVE  IInv'
<1>1. /\ cleared' = TRUE /\ UNCHANGED <<client, want>>
      /\ lock' = [t \in Table |-> Free]
      /\ granted' = [q \in Query |->
                       IF client[q] = "acquiring" THEN want[q].tables ELSE granted[q]]
  BY DEF ClearAll, ClearLocks
<1>2. Free \in TableLock
  BY DEF Free, TableLock
<1>3. \A q \in Query : want[q].tables \subseteq Table
  BY RequestAssumption DEF IInv, TypeOK, Nothing
<1>4. granted' \in [Query -> SUBSET Table] /\ \A q \in Query : granted'[q] \subseteq want'[q].tables
  BY <1>1, <1>3 DEF IInv, TypeOK
<1>5. TypeOK'
  BY <1>1, <1>2, <1>4 DEF IInv, TypeOK
<1>6. Consistent'
  BY <1>1 DEF IInv, Consistent, TypeOK
<1>7. QED  BY <1>5, <1>6 DEF IInv

\* A step of somebody else.
LEMMA UnchangedKeeps ==
  ASSUME IInv, UNCHANGED lockVars
  PROVE  IInv'
<1>1. TypeOK'
  BY DEF lockVars, IInv, TypeOK
<1>2. \A t \in Table : BookOf(t) => BookOf(t)'
  BY DEF lockVars, BookOf, Holders, Waiters
<1>3. Consistent'
  BY <1>2 DEF lockVars, IInv, Consistent
<1>4. QED  BY <1>1, <1>3 DEF IInv

\* What a component that uses the locks can rely on: none of its calls disturbs the
\* books.
LEMMA CallsKeep ==
  IInv => /\ \A q \in Query :
               /\ \A r \in Request : Acquire(q, r) => IInv'
               /\ \A r \in Request : \A c : AsksForNothing(q, r, c) => IInv'
               /\ Proceed(q) \/ GivesBack(q) => IInv'
          /\ ClearAll \/ UNCHANGED lockVars => IInv'
<1>1. ASSUME IInv, UNCHANGED lockVars PROVE IInv'
  BY <1>1, UnchangedKeeps
<1>2. QED
  BY <1>1, AcquireKeeps, AskingForNothingKeeps, ProceedKeeps, GivingBackKeeps, ClearAllKeeps

-----------------------------------------------------------------------------
(* Theorems *)

\* Without queries every entry is free and its book is empty.
LEMMA InitIInv == Init => IInv
<1> SUFFICES ASSUME Init PROVE IInv
  OBVIOUS
<1>1. TypeOK
  <2>1. Free \in TableLock
    BY DEF Free, TableLock
  <2>2. lock \in [Table -> TableLock] /\ want \in [Query -> Request \cup {Nothing}]
    BY <2>1 DEF Init
  <2>3. QED  BY <2>2 DEF Init, TypeOK
<1>2. \A t \in Table : BookOf(t)
  <2> TAKE t \in Table
  <2>1. /\ Holders(t, Read) = {} /\ Holders(t, Write) = {}
        /\ Waiters(t, Read) = {} /\ Waiters(t, Write) = {}
    BY DEF Init, Holders, Waiters
  <2>2. Range(<<>>) = {}
    BY DEF Range
  <2>3. /\ lock[t].readersCount = 0 /\ lock[t].writer = FALSE
        /\ lock[t].readersQueue = {} /\ lock[t].writersQueue = <<>>
    BY DEF Init, Free
  <2>4. Cardinality({}) = 0
    BY FS_EmptySet
  <2>5. Book(lock[t], {}, {}, {}, {})
    <3>1. Range(lock[t].writersQueue) = {} /\ DOMAIN lock[t].writersQueue = {}
      BY <2>2, <2>3
    <3>2. QED  BY <2>3, <2>4, <3>1 DEF Book
  <2>6. QED  BY <2>1, <2>5 DEF BookOf
<1>3. Consistent
  BY <1>2 DEF Init, Consistent
<1>4. QED  BY <1>1, <1>3 DEF IInv

\* Every step keeps types and books: the inductive invariant of the lock manager.
THEOREM InductiveInvariant == Spec => [](TypeOK /\ Consistent)
<1>1. ASSUME IInv, [Next]_lockVars PROVE IInv'
  <2>1. CASE \E q \in Query, r \in Request : Acquire(q, r)
    BY <1>1, <2>1, AcquireKeeps
  <2>2. CASE \E q \in Query : Proceed(q)
    BY <1>1, <2>2, ProceedKeeps
  <2>3. CASE \E q \in Query : Release(q)
    BY <1>1, <2>3, ReleaseKeeps
  <2>4. CASE ClearAll
    BY <1>1, <2>4, ClearAllKeeps
  <2>5. CASE UNCHANGED lockVars
    BY <1>1, <2>5, UnchangedKeeps
  <2>6. QED  BY <1>1, <2>1, <2>2, <2>3, <2>4, <2>5 DEF Next
<1>2. QED  BY <1>1, InitIInv, PTL DEF Spec, IInv

\* Types: entries are TableLocks and a query holds only what it asked for.
THEOREM TypeCorrect == Spec => []TypeOK
BY InductiveInvariant, PTL

\* Writers have exclusive access: a table that is written has no other holder.
THEOREM WritersHaveExclusiveAccess == Spec => []WritersExclude
<1>1. TypeOK /\ Consistent => WritersExclude
  <2> SUFFICES ASSUME TypeOK, Consistent, ~cleared, NEW t \in Table,
                      NEW p \in Query, NEW q \in Query, p # q,
                      t \in granted[p], t \in granted[q], want[p].mode # Read
               PROVE  FALSE
    BY DEF WritersExclude
  <2>1. want[p].mode = Write /\ want[q].mode \in {Read, Write}
    BY RequestAssumption DEF TypeOK, Nothing
  <2>2. p \in Holders(t, Write) /\ q \in Holders(t, Read) \cup Holders(t, Write)
    BY <2>1 DEF Holders
  <2>3. BookOf(t)
    BY DEF Consistent
  <2>4. QED  BY <2>2, <2>3 DEF BookOf, Book
<1>2. QED  BY <1>1, InductiveInvariant, PTL

\* An entry counts its holders and queues exactly those that wait for it.
THEOREM EntriesAgreeWithQueries == Spec => []EntriesCountHolders
<1>1. Consistent => EntriesCountHolders
  BY DEF Consistent, EntriesCountHolders, BookOf, Book
<1>2. QED  BY <1>1, InductiveInvariant, PTL

\* Nobody waits for a table that nobody holds.
THEOREM NobodyWaitsForAFreeTable == Spec => []NoLostWakeup
<1>1. TypeOK /\ Consistent => NoLostWakeup
  <2> SUFFICES ASSUME TypeOK, Consistent, NEW t \in Table,
                      Waiters(t, Read) \cup Waiters(t, Write) # {}
               PROVE  Holders(t, Read) \cup Holders(t, Write) # {}
    BY DEF NoLostWakeup
  <2>1. ~cleared
    BY DEF Consistent, Waiters, TypeOK
  <2>2. BookOf(t)
    BY <2>1 DEF Consistent
  <2>3. QED  BY <2>2 DEF BookOf, Book
<1>2. QED  BY <1>1, InductiveInvariant, PTL

-----------------------------------------------------------------------------
(* Turns: with requests that read one table at most, nobody waits in a circle *)

\* Turns can be given to the queries.
WaitingOrder == \E n \in Nat : \E turn \in [Query -> 0 .. n] : InTurn(turn)

\* A query that asks for tables gets the last turn: whoever holds or awaits what it
\* asks for was there before it.
LEMMA AcquireGivesLastTurn ==
  ASSUME IInv, WaitingOrder, NEW q \in Query, NEW r \in Request, Acquire(q, r)
  PROVE  WaitingOrder'
<1>0. /\ r.tables \subseteq Table /\ r.mode \in {Read, Write}
      /\ client[q] = "idle" /\ granted[q] = {} /\ ~cleared
      /\ \A t \in Table : BookOf(t) /\ lock[t] \in TableLock
  BY RequestAssumption DEF Acquire, IInv, TypeOK, Consistent
<1>1. /\ want'[q] = r /\ client'[q] = "acquiring"
      /\ granted'[q] = {t \in r.tables : CanTake(lock[t], r.mode)}
      /\ \A p \in Query \ {q} : /\ want'[p] = want[p] /\ client'[p] = client[p]
                               /\ granted'[p] = granted[p]
      /\ \A t \in Table :
           lock'[t] = IF t \in r.tables THEN Requested(lock[t], q, r.mode) ELSE lock[t]
  BY DEF Acquire, TakeLocks, IInv, TypeOK
<1>2. PICK n \in Nat : \E turn \in [Query -> 0 .. n] : InTurn(turn)
  BY DEF WaitingOrder
<1>2a. PICK turn \in [Query -> 0 .. n] : InTurn(turn)
  BY <1>2
<1> DEFINE last == [turn EXCEPT ![q] = n + 1]
<1>3. /\ last \in [Query -> 0 .. n + 1] /\ n + 1 \in Nat /\ last[q] = n + 1
      /\ \A p \in Query \ {q} : last[p] = turn[p] /\ last[p] \in Nat /\ last[p] < n + 1
  BY <1>2a
<1> HIDE DEF last
<1>4. ASSUME NEW t \in Table
      PROVE  /\ \A p \in Waiters(t, Write)', h \in Holders(t, Write)' : last[h] < last[p]
             /\ \A i, j \in DOMAIN lock'[t].writersQueue :
                  i < j => last[lock'[t].writersQueue[i]] < last[lock'[t].writersQueue[j]]
  <2> DEFINE s == lock[t].writersQueue
             z == lock'[t].writersQueue
             HW == Holders(t, Write)
             WW == Waiters(t, Write)
  <2>1. /\ s \in Seq(Query) /\ Range(s) = WW /\ lock[t] \in TableLock
        /\ lock[t].readersCount = 0 /\ ~lock[t].writer => WW = {}
    <3>1. IsFiniteSet(Holders(t, Read))
      BY FiniteQueries, FS_Subset DEF Holders
    <3>2. QED  BY <1>0, <3>1, FS_EmptySet DEF BookOf, Book, TableLock
  <2>2. q \notin HW /\ q \notin WW
    BY <1>0 DEF Holders, Waiters
  <2>3. /\ HW' = HW \cup (IF t \in r.tables /\ CanTake(lock[t], r.mode) /\ r.mode = Write
                          THEN {q} ELSE {})
        /\ WW' = WW \cup (IF t \in r.tables /\ ~CanTake(lock[t], r.mode) /\ r.mode = Write
                          THEN {q} ELSE {})
    BY <1>1, <2>2 DEF Holders, Waiters
  <2>4. z = IF t \in r.tables /\ ~CanTake(lock[t], r.mode) /\ r.mode = Write
            THEN Append(s, q) ELSE s
    <3>1. t \notin r.tables => lock'[t] = lock[t]
      BY <1>1
    <3>2. t \in r.tables /\ CanTake(lock[t], r.mode) => z = s
      <4>1. Taken(lock[t], r.mode).writersQueue = s
        BY <2>1 DEF Taken, TableLock
      <4>2. QED  BY <1>1, <4>1 DEF Requested
    <3>3. t \in r.tables /\ ~CanTake(lock[t], r.mode)
            => z = IF r.mode = Write THEN Append(s, q) ELSE s
      <4>1. Queued(lock[t], q, r.mode).writersQueue = IF r.mode = Write THEN Append(s, q) ELSE s
        BY <1>0, <2>1 DEF Queued, TableLock, Read, Write
      <4>2. QED  BY <1>1, <4>1 DEF Requested
    <3>4. QED  BY <3>1, <3>2, <3>3
  <2>5. HW \subseteq Query /\ WW \subseteq Query
    BY DEF Holders, Waiters
  <2>6. /\ \A p \in WW, h \in HW : turn[h] < turn[p]
        /\ \A i, j \in DOMAIN s : i < j => turn[s[i]] < turn[s[j]]
    BY <1>2a DEF InTurn
  <2>7. DOMAIN s = 1 .. Len(s) /\ Len(s) \in Nat /\ \A i \in 1 .. Len(s) : s[i] \in Query \ {q}
    <3>1. DOMAIN s = 1 .. Len(s) /\ Len(s) \in Nat /\ \A i \in DOMAIN s : s[i] \in Range(s)
      BY <2>1 DEF Range
    <3>2. QED  BY <2>1, <2>2, <2>5, <3>1
  <2>8. q \in HW' => WW' = {}
    BY <2>1, <2>2, <2>3 DEF CanTake, Read, Write
  <2> HIDE DEF s, z, HW, WW
  <2>9. \A p \in WW', h \in HW' : last[h] < last[p]
    BY <1>3, <2>2, <2>3, <2>5, <2>6, <2>8
  <2>10. \A i, j \in DOMAIN z : i < j => last[z[i]] < last[z[j]]
    <3>1. CASE z = s
      BY <1>3, <2>6, <2>7, <3>1
    <3>2. CASE z = Append(s, q)
      <4>1. /\ DOMAIN z = 1 .. Len(s) + 1 /\ z[Len(s) + 1] = q
            /\ \A i \in 1 .. Len(s) : z[i] = s[i]
        BY <2>1, <3>2
      <4>2. QED  BY <1>3, <2>6, <2>7, <4>1
    <3>3. QED  BY <2>4, <3>1, <3>2
  <2>11. QED  BY <2>9, <2>10 DEF z, HW, WW
<1>5. InTurn(last)'
  BY <1>4 DEF InTurn
<1>6. QED  BY <1>3, <1>5 DEF WaitingOrder

\* Handing a table over keeps the turns: the writer let in is the first of the queue.
LEMMA GivingBackKeepsTurns ==
  ASSUME IInv, WaitingOrder, NEW q \in Query, GivesBack(q)
  PROVE  WaitingOrder'
<1>1. PICK n \in Nat : \E turn \in [Query -> 0 .. n] : InTurn(turn)
  BY DEF WaitingOrder
<1>1a. PICK turn \in [Query -> 0 .. n] : InTurn(turn)
  BY <1>1
<1>2. CASE cleared
  <2>1. /\ \A t \in Table : lock[t] = Free
        /\ \A p \in Query : client[p] = "acquiring" => granted[p] = want[p].tables
    BY <1>2 DEF IInv, Consistent
  <2>2. /\ lock' = [t \in Table |-> lock[t]]
        /\ \A p \in Query \ {q} : granted'[p] = granted[p] /\ client'[p] = client[p]
        /\ client'[q] = "idle" /\ want' = want
    BY <2>1 DEF GivesBack, ReleaseLocks, IInv, TypeOK
  <2>3. \A t \in Table : Waiters(t, Write)' = {}
    BY <2>1, <2>2 DEF Waiters
  <2>4. \A t \in Table : lock'[t].writersQueue = <<>>
    BY <2>1, <2>2 DEF Free
  <2>5. InTurn(turn)'
    BY <2>3, <2>4 DEF InTurn
  <2>6. QED  BY <2>5 DEF WaitingOrder
<1>3. CASE ~cleared
  <2>1. ASSUME NEW t \in Table
        PROVE  /\ \A p \in Waiters(t, Write)', h \in Holders(t, Write)' : turn[h] < turn[p]
               /\ \A i, j \in DOMAIN lock'[t].writersQueue :
                    i < j => turn[lock'[t].writersQueue[i]] < turn[lock'[t].writersQueue[j]]
    <3> DEFINE mode == want[q].mode
               P == Promoted(lock[t], mode)
               s == lock[t].writersQueue
               z == lock'[t].writersQueue
               HW == Holders(t, Write)
               WW == Waiters(t, Write)
    <3>1. /\ \A p \in WW, h \in HW : turn[h] < turn[p]
          /\ \A i, j \in DOMAIN s : i < j => turn[s[i]] < turn[s[j]]
      BY <1>1a DEF InTurn
    <3>2. CASE t \notin want[q].tables
      <4>1. lock'[t] = lock[t] /\ HW' = HW /\ WW' = WW
        BY <1>3, <3>2, HandedOver
      <4>2. QED  BY <3>1, <4>1
    <3>3. CASE t \in want[q].tables
      <4>1. /\ lock'[t] = Released(lock[t], mode)
            /\ HW' = (HW \ {q}) \cup (WW \cap P) /\ WW' = WW \ P
        BY <1>3, <3>3, HandedOver
      <4>2. /\ s \in Seq(Query) /\ Range(s) = WW
            /\ lock[t].readersQueue = Waiters(t, Read) /\ Waiters(t, Read) \cap WW = {}
        <5>1. BookOf(t) /\ lock[t] \in TableLock
          BY <1>3 DEF IInv, TypeOK, Consistent
        <5>2. Waiters(t, Read) \cap WW = {}
          BY DEF Waiters, Read, Write
        <5>3. QED  BY <5>1, <5>2 DEF BookOf, Book, TableLock
      <4>3. DOMAIN s = 1 .. Len(s) /\ Len(s) \in Nat /\ \A p \in WW : \E i \in 1 .. Len(s) : p = s[i]
        <5>1. DOMAIN s = 1 .. Len(s) /\ Len(s) \in Nat
          BY <4>2
        <5>2. \A p \in Range(s) : \E i \in DOMAIN s : p = s[i]
          BY DEF Range
        <5>3. QED  BY <4>2, <5>1, <5>2
      <4>4. CASE PromotesWriter(lock[t], mode)
        <5>1. s # <<>> /\ Head(s) = s[1] /\ 1 \in 1 .. Len(s)
          BY <4>2, <4>4 DEF PromotesWriter
        <5>2. s[1] \in P /\ WW \cap P \subseteq {s[1]}
          BY <4>2, <4>4, <5>1 DEF Promoted
        <5>3. z = Tail(s)
          BY <4>1, <4>4 DEF Released
        <5>4. Len(z) = Len(s) - 1 /\ DOMAIN z = 1 .. Len(s) - 1 /\ \A i \in 1 .. Len(s) - 1 : z[i] = s[i + 1]
          BY <4>2, <5>1, <5>3
        <5> HIDE DEF P, s, z, HW, WW
        <5>5. \A p \in WW \ P : turn[s[1]] < turn[p]
          BY <3>1, <4>3, <5>1, <5>2
        <5>6. \A p \in WW', h \in HW' : turn[h] < turn[p]
          BY <3>1, <4>1, <5>2, <5>5
        <5>7. \A i, j \in DOMAIN z : i < j => turn[z[i]] < turn[z[j]]
          <6> SUFFICES ASSUME NEW i \in 1 .. Len(s) - 1, NEW j \in 1 .. Len(s) - 1, i < j
                       PROVE  turn[z[i]] < turn[z[j]]
            BY <5>4
          <6>1. i + 1 \in DOMAIN s /\ j + 1 \in DOMAIN s /\ i + 1 < j + 1
            BY <4>3
          <6>2. QED  BY <3>1, <5>4, <6>1
        <5>8. QED  BY <5>6, <5>7 DEF z, HW, WW
      <4>5. CASE ~PromotesWriter(lock[t], mode)
        <5>1. WW \cap P = {}
          BY <4>2, <4>5 DEF Promoted
        <5>2. z = s
          BY <4>1, <4>5 DEF Released
        <5> HIDE DEF P, s, z, HW, WW
        <5>3. \A p \in WW', h \in HW' : turn[h] < turn[p]
          BY <3>1, <4>1, <5>1
        <5>4. \A i, j \in DOMAIN z : i < j => turn[z[i]] < turn[z[j]]
          BY <3>1, <5>2
        <5>5. QED  BY <5>3, <5>4 DEF z, HW, WW
      <4>6. QED  BY <4>4, <4>5
    <3>4. QED  BY <3>2, <3>3
  <2>2. InTurn(turn)'
    BY <2>1 DEF InTurn
  <2>3. QED  BY <2>2 DEF WaitingOrder
<1>4. QED  BY <1>2, <1>3

\* The other steps change no holder and no waiter, or leave no waiter at all.
LEMMA OthersKeepTurns ==
  ASSUME IInv, WaitingOrder,
         (\E q \in Query : Proceed(q)) \/ ClearAll \/ UNCHANGED lockVars
  PROVE  WaitingOrder'
<1>1. PICK n \in Nat : \E turn \in [Query -> 0 .. n] : InTurn(turn)
  BY DEF WaitingOrder
<1>1a. PICK turn \in [Query -> 0 .. n] : InTurn(turn)
  BY <1>1
<1>2. ASSUME NEW q \in Query, Proceed(q) PROVE InTurn(turn)'
  <2>1. /\ UNCHANGED <<lock, granted, want>>
        /\ client[q] = "acquiring" /\ granted[q] = want[q].tables /\ client'[q] = "holding"
        /\ \A p \in Query \ {q} : client'[p] = client[p]
    BY <1>2 DEF Proceed, IInv, TypeOK
  <2>2. \A t \in Table : /\ Holders(t, Write)' = Holders(t, Write)
                         /\ Waiters(t, Write)' = Waiters(t, Write)
    BY <2>1 DEF Holders, Waiters
  <2>3. QED  BY <1>1a, <2>1, <2>2 DEF InTurn
<1>3. ASSUME ClearAll PROVE InTurn(turn)'
  <2>1. /\ \A t \in Table : lock'[t].writersQueue = <<>>
        /\ \A q \in Query : client'[q] = "acquiring" => granted'[q] = want'[q].tables
    BY <1>3 DEF ClearAll, ClearLocks, Free
  <2>2. \A t \in Table : Waiters(t, Write)' = {}
    BY <2>1 DEF Waiters
  <2>3. QED  BY <2>1, <2>2 DEF InTurn
<1>4. ASSUME UNCHANGED lockVars PROVE InTurn(turn)'
  BY <1>1a, <1>4 DEF InTurn, lockVars, Holders, Waiters
<1>5. InTurn(turn)'
  BY <1>2, <1>3, <1>4
<1>6. QED  BY <1>5 DEF WaitingOrder

\* Among some queries one comes first.
LEMMA FirstTurn ==
  ASSUME NEW turn \in [Query -> Nat], NEW W \in SUBSET Query, W # {}
  PROVE  \E w \in W : \A v \in W : ~(turn[v] < turn[w])
<1> DEFINE R == OpToRel(<, Nat)
           T == {turn[w] : w \in W}
<1>1. T \subseteq Nat /\ T # {}
  OBVIOUS
<1>2. IsWellFoundedOn(R, Nat)
  BY NatLessThanWellFounded
<1> HIDE DEF R, T
<1>3. PICK x \in T : \A y \in T : ~(<<y, x>> \in R)
  BY <1>1, <1>2, WFMin
<1>4. PICK w \in W : x = turn[w]
  BY DEF T
<1>5. \A v \in W : ~(turn[v] < turn[w])
  <2> TAKE v \in W
  <2>1. turn[v] \in T /\ turn[v] \in Nat /\ turn[w] \in Nat
    BY DEF T
  <2>2. <<turn[v], turn[w]>> \notin R
    BY <1>3, <1>4, <2>1
  <2>3. QED  BY <2>1, <2>2 DEF R, OpToRel
<1>6. QED  BY <1>5

\* Without such a reader the circle would be one of writers, since a query that holds one
\* table and waits for another asked for two, and each would wait for one with an earlier
\* turn.
LEMMA TurnsRuleOutCircles ==
  ASSUME IInv, WaitingOrder
  PROVE  NoCircularWait
<1> SUFFICES ASSUME NEW S \in Circles,
                    \A q \in S : ~(ReadsSeveral(q) /\ granted[q] # {})
             PROVE  FALSE
  BY DEF NoCircularWait
<1>1. PICK n \in Nat : \E turn \in [Query -> 0 .. n] : InTurn(turn)
  BY DEF WaitingOrder
<1>1a. PICK turn \in [Query -> 0 .. n] : InTurn(turn)
  BY <1>1
<1> DEFINE W == {p \in S : want[p].mode = Write}
<1>2. ASSUME NEW p \in S
      PROVE  \E q \in W : p \in W => turn[q] < turn[p]
  <2>0. S \in SUBSET Query /\ \A x \in S : \E t \in want[x].tables \ granted[x], q \in S : t \in granted[q]
    BY DEF Circles
  <2>1. PICK t \in want[p].tables \ granted[p], q \in S : t \in granted[q]
    BY <2>0
  <2>2. PICK u \in want[q].tables \ granted[q] : TRUE
    BY <2>0
  <2>3. /\ t \in want[q].tables /\ t # u /\ t \in Table
        /\ want[q] \in Request /\ want[q].mode \in {Read, Write}
    <3>1. q \in Query
      BY <2>0
    <3>2. QED  BY <2>1, <2>2, <3>1, RequestAssumption DEF IInv, TypeOK, Nothing
  <2>4. want[q].mode = Write
    BY <2>1, <2>2, <2>3 DEF ReadsSeveral
  <2>5. q \in Holders(t, Write) /\ (p \in W => p \in Waiters(t, Write))
    BY <2>1, <2>4 DEF Holders, Waiters, Circles
  <2>6. QED  BY <1>1a, <2>3, <2>4, <2>5 DEF InTurn
<1>3. W # {} /\ W \in SUBSET Query /\ turn \in [Query -> Nat]
  BY <1>1a, <1>2 DEF Circles
<1>4. PICK w \in W : \A v \in W : ~(turn[v] < turn[w])
  <2> HIDE DEF W
  <2>1. QED  BY <1>3, FirstTurn
<1>5. QED  BY <1>2, <1>4

\* Whatever is requested, no queries wait in a circle for one another without one that
\* reads several tables: acquireLocks takes its place for all its tables in one step.
THEOREM NobodyWaitsInACircle == Spec => []NoCircularWait
<1>1. Init => WaitingOrder
  <2> SUFFICES ASSUME Init PROVE WaitingOrder
    OBVIOUS
  <2> DEFINE turn == [q \in Query |-> 0]
  <2>1. turn \in [Query -> 0 .. 0]
    OBVIOUS
  <2>2. \A t \in Table : lock[t].writersQueue = <<>> /\ Waiters(t, Write) = {}
    BY DEF Init, Free, Waiters
  <2> HIDE DEF turn
  <2>3. InTurn(turn)
    BY <2>2 DEF InTurn
  <2>4. QED  BY <2>1, <2>3 DEF WaitingOrder
<1>2. IInv /\ WaitingOrder /\ [Next]_lockVars => WaitingOrder'
  <2> SUFFICES ASSUME IInv, WaitingOrder, [Next]_lockVars PROVE WaitingOrder'
    OBVIOUS
  <2>1. ASSUME NEW q \in Query, Release(q) PROVE GivesBack(q)
    BY <2>1 DEF Release, GivesBack, IInv, Consistent
  <2>2. QED
    BY <2>1, AcquireGivesLastTurn, GivingBackKeepsTurns, OthersKeepTurns DEF Next
<1>3. IInv /\ WaitingOrder => NoCircularWait
  BY TurnsRuleOutCircles
<1>4. QED  BY <1>1, <1>2, <1>3, InductiveInvariant, PTL DEF Spec, IInv
=============================================================================
