----------------------------- MODULE TableLocks -----------------------------
(***************************************************************************)
(* The reader/writer locks that coordinate DuckDB workers sharing OPFS     *)
(* files (bridge, wasm/pool/table-lock-manager.ts).                        *)
(*                                                                         *)
(* One call of acquireLocks takes, table by table and without an await,    *)
(* what is free and queues for the rest; the caller goes on when every     *)
(* promise is resolved.  One call of releaseLocks hands each table over.   *)
(* Both are one synchronous piece of a single-threaded program, and one    *)
(* action here.                                                            *)
(***************************************************************************)
EXTENDS Naturals, Sequences, FiniteSets, Functions

CONSTANTS
  Query,    \* the callers, one acquisition at a time each
  Table,    \* the tables
  Request   \* the requests a caller may make: sets of tables and a mode

Read  == "read"
Write == "write"

ASSUME FiniteQueries == IsFiniteSet(Query)
ASSUME RequestAssumption ==
  Request \subseteq [tables : SUBSET Table, mode : {Read, Write}]

VARIABLES
  lock,     \* tableLockRegistry: one TableLock per table
  granted,  \* per query, the tables whose promise is resolved
  want,     \* per query, the request of its current or last call
  client,   \* per query: where it is in acquireLocks ... releaseLocks
  cleared   \* clearAll has run

lockVars == <<lock, granted, want, client, cleared>>

\* The readers queue is only ever promoted as a whole: its order is not kept.
TableLock ==
  [readersCount : Nat, writer : BOOLEAN, readersQueue : SUBSET Query, writersQueue : Seq(Query)]

\* An entry without activity is deleted; an absent entry is a fresh one.
Free == [readersCount |-> 0, writer |-> FALSE, readersQueue |-> {}, writersQueue |-> <<>>]

Nothing == [tables |-> {}, mode |-> Read]

-----------------------------------------------------------------------------
(* One entry *)

\* A reader is admitted next to a writer.
CanTake_ReaderIgnoresWriter(l, mode) ==
  IF mode = Read THEN l.writersQueue = <<>> ELSE ~l.writer /\ l.readersCount = 0

\* A reader passes the writers that wait for the table.
CanTake_ReaderOvertakes(l, mode) ==
  ~l.writer /\ (mode = Write => l.readersCount = 0)

\* A reader passes when no writer holds or awaits the table, a writer when
\* nobody holds it.
CanTake(l, mode) ==
  /\ ~l.writer
  /\ IF mode = Read THEN l.writersQueue = <<>> ELSE l.readersCount = 0

\* The entry once q has taken it.
Taken(l, mode) ==
  IF mode = Read THEN [l EXCEPT !.readersCount = @ + 1] ELSE [l EXCEPT !.writer = TRUE]

\* A writer queues in front of the writers that wait already.
Queued_AtFront(l, q, mode) ==
  IF mode = Read
  THEN [l EXCEPT !.readersQueue = @ \cup {q}]
  ELSE [l EXCEPT !.writersQueue = <<q>> \o @]

\* The entry once q has queued for it.
Queued(l, q, mode) ==
  IF mode = Read
  THEN [l EXCEPT !.readersQueue = @ \cup {q}]
  ELSE [l EXCEPT !.writersQueue = Append(@, q)]

Requested(l, q, mode) == IF CanTake(l, mode) THEN Taken(l, mode) ELSE Queued(l, q, mode)

\* A read release does not look at the writers' queue.
PromotesWriter_OnlyByWriter(l, mode) ==
  mode = Write /\ l.writersQueue # <<>> /\ l.readersQueue = {}

\* The last reader lets a writer in; a writer lets one in when no reader waits.
PromotesWriter(l, mode) ==
  /\ l.writersQueue # <<>>
  /\ IF mode = Read THEN l.readersCount = 1 ELSE l.readersQueue = {}

\* A writer lets every waiting reader in, those that came after a waiting
\* writer included.
PromotesReaders(l, mode) == mode = Write

\* The writer that is let in is not told.
Promoted_WriterNotTold(l, mode) == IF PromotesReaders(l, mode) THEN l.readersQueue ELSE {}

Promoted(l, mode) ==
  (IF PromotesReaders(l, mode) THEN l.readersQueue ELSE {})
    \cup (IF PromotesWriter(l, mode) THEN {Head(l.writersQueue)} ELSE {})

\* Every release counts a reader out.
Released_AlwaysDecrements(l, mode) ==
  [readersCount |-> l.readersCount - 1
                      + (IF PromotesReaders(l, mode) THEN Cardinality(l.readersQueue) ELSE 0),
   writer       |-> PromotesWriter(l, mode) \/ (mode = Read /\ l.writer),
   readersQueue |-> IF PromotesReaders(l, mode) THEN {} ELSE l.readersQueue,
   writersQueue |-> IF PromotesWriter(l, mode) THEN Tail(l.writersQueue) ELSE l.writersQueue]

\* The entry after a release in that mode.
Released(l, mode) ==
  [readersCount |-> (IF mode = Read THEN l.readersCount - 1 ELSE l.readersCount)
                      + (IF PromotesReaders(l, mode) THEN Cardinality(l.readersQueue) ELSE 0),
   writer       |-> PromotesWriter(l, mode) \/ (mode = Read /\ l.writer),
   readersQueue |-> IF PromotesReaders(l, mode) THEN {} ELSE l.readersQueue,
   writersQueue |-> IF PromotesWriter(l, mode) THEN Tail(l.writersQueue) ELSE l.writersQueue]

-----------------------------------------------------------------------------
(* The three operations, and the caller's side of the promise *)

Init ==
  /\ lock = [t \in Table |-> Free]
  /\ granted = [q \in Query |-> {}]
  /\ want = [q \in Query |-> Nothing]
  /\ client = [q \in Query |-> "idle"]
  /\ cleared = FALSE

\* acquireLocks up to its await.
TakeLocks(q, r) ==
  /\ want' = [want EXCEPT ![q] = r]
  /\ granted' = [granted EXCEPT ![q] = {t \in r.tables : CanTake(lock[t], r.mode)}]
  /\ lock' = [t \in Table |->
                IF t \in r.tables THEN Requested(lock[t], q, r.mode) ELSE lock[t]]

\* releaseLocks: a table without an entry is skipped.
ReleaseLocks(q) ==
  LET mode == want[q].mode
      Mine == {t \in want[q].tables : lock[t] # Free}
  IN /\ lock' = [t \in Table |-> IF t \in Mine THEN Released(lock[t], mode) ELSE lock[t]]
     /\ granted' = [p \in Query |->
                      IF p = q THEN {}
                      ELSE granted[p] \cup {t \in Mine : p \in Promoted(lock[t], mode)}]
     /\ UNCHANGED want

\* clearAll forgets the entries and their waiters with them.
ClearLocks_DropsWaiters ==
  /\ lock' = [t \in Table |-> Free]
  /\ UNCHANGED <<granted, want>>

\* clearAll resolves every waiter and forgets every entry.
ClearLocks ==
  /\ lock' = [t \in Table |-> Free]
  /\ granted' = [q \in Query |-> IF client[q] = "acquiring" THEN want[q].tables ELSE granted[q]]
  /\ UNCHANGED want

Acquire(q, r) ==
  /\ client[q] = "idle" /\ ~cleared
  /\ TakeLocks(q, r)
  /\ client' = [client EXCEPT ![q] = "acquiring"]
  /\ UNCHANGED cleared

\* Promise.all resolves and the caller goes on.
Proceed(q) ==
  /\ client[q] = "acquiring" /\ granted[q] = want[q].tables
  /\ client' = [client EXCEPT ![q] = "holding"]
  /\ UNCHANGED <<lock, granted, want, cleared>>

Release(q) ==
  /\ client[q] = "holding"
  /\ ReleaseLocks(q)
  /\ client' = [client EXCEPT ![q] = "idle"]
  /\ UNCHANGED cleared

\* The one caller of clearAll, QueryCoordinator.shutdown, admits no query
\* afterwards.
ClearAll ==
  /\ ~cleared
  /\ cleared' = TRUE
  /\ ClearLocks
  /\ UNCHANGED client

Next ==
  \/ \E q \in Query, r \in Request : Acquire(q, r)
  \/ \E q \in Query : Proceed(q) \/ Release(q)
  \/ ClearAll

Spec == Init /\ [][Next]_lockVars

\* A resolved promise runs its continuation, and a statement ends: a worker
\* answers or the caller is told of its failure, and the finally block releases.
FairSpec == Spec /\ \A q \in Query : WF_lockVars(Proceed(q)) /\ WF_lockVars(Release(q))

-----------------------------------------------------------------------------
(* What the locks promise *)

Holders(t, mode) == {q \in Query : t \in granted[q] /\ want[q].mode = mode}

Waiters(t, mode) ==
  {q \in Query : client[q] = "acquiring" /\ want[q].mode = mode
                   /\ t \in want[q].tables \ granted[q]}

\* Types: entries are TableLocks, and a query holds only what it asked for.
TypeOK ==
  /\ lock \in [Table -> TableLock]
  /\ want \in [Query -> Request \cup {Nothing}]
  /\ granted \in [Query -> SUBSET Table]
  /\ \A q \in Query : granted[q] \subseteq want[q].tables
  /\ client \in [Query -> {"idle", "acquiring", "holding"}]
  /\ cleared \in BOOLEAN

\* "Writers have exclusive access (no other readers or writers)": a table whose
\* write promise is resolved has no other holder, until the locks are cleared.
WritersExclude ==
  ~cleared =>
    \A t \in Table, p, q \in Query :
      p # q /\ t \in granted[p] \cap granted[q] => want[p].mode = Read /\ want[q].mode = Read

\* An entry counts the queries that hold the table and queues exactly those that
\* wait for it: no grant and no waiter is lost by a promotion, by a deletion of
\* an idle entry or by a release of many tables at once.
EntriesCountHolders ==
  ~cleared =>
    \A t \in Table :
      /\ lock[t].readersCount = Cardinality(Holders(t, Read))
      /\ lock[t].writer = (Holders(t, Write) # {})
      /\ lock[t].readersQueue = Waiters(t, Read)
      /\ Range(lock[t].writersQueue) = Waiters(t, Write)

\* Somebody who waits for a table waits for somebody who holds it.
NoLostWakeup ==
  \A t \in Table :
    Waiters(t, Read) \cup Waiters(t, Write) # {}
      => Holders(t, Read) \cup Holders(t, Write) # {}

\* Sets of callers that wait in a circle: each for a table that one of them holds.
Circles ==
  {S \in SUBSET {q \in Query : client[q] = "acquiring"} :
     S # {} /\ \A p \in S : \E t \in want[p].tables \ granted[p], q \in S : t \in granted[q]}

\* A caller that reads several tables and has not got all of them.
ReadsSeveral(q) == want[q].mode = Read /\ \E s, t \in want[q].tables : s # t

\* Every acquisition ends, unless some callers wait in a circle: no waiter is overtaken
\* for ever by newer ones.
EveryoneIsServed ==
  \A q \in Query :
    client[q] = "acquiring" ~> client[q] = "holding" \/ Circles # {}

\* "Sorted alphabetically before acquisition to establish a canonical lock ordering.
\* This prevents deadlocks": not quite.  Writers of any tables and readers of one table
\* never wait in a circle; in every circle somebody reads several tables and has got
\* one of them, be it past a writer that came before.
NoCircularWait ==
  \A S \in Circles : \E q \in S : ReadsSeveral(q) /\ granted[q] # {}

-----------------------------------------------------------------------------
(* What the promises rest on *)

\* An entry whose holders are HR (reading) and HW (writing), and whose waiters
\* are WR and WW.
Book(l, HR, HW, WR, WW) ==
  /\ l.readersCount = Cardinality(HR)
  /\ l.writer = (HW # {})
  /\ l.readersQueue = WR
  /\ Range(l.writersQueue) = WW
  /\ \A i, j \in DOMAIN l.writersQueue : l.writersQueue[i] = l.writersQueue[j] => i = j
  /\ HW # {} => HR = {}
  /\ \A p, q \in HW : p = q
  /\ WR \cup WW # {} => HR \cup HW # {}
  /\ WR # {} => HW # {} \/ WW # {}

BookOf(t) ==
  Book(lock[t], Holders(t, Read), Holders(t, Write), Waiters(t, Read), Waiters(t, Write))

\* The inductive invariant: a query holds locks only between its two calls, and
\* all it asked for once it goes on; clearAll leaves no entry and no waiter; before it
\* every entry keeps its book: besides what EntriesCountHolders says, a waiter
\* queues once, somebody holds what is waited for, and readers wait for writers
\* only.
Consistent ==
  /\ \A q \in Query : client[q] = "idle" => granted[q] = {}
  /\ \A q \in Query : client[q] = "holding" => granted[q] = want[q].tables
  /\ cleared => /\ lock = [t \in Table |-> Free]
                /\ \A q \in Query : client[q] = "acquiring" => granted[q] = want[q].tables
  /\ ~cleared => \A t \in Table : BookOf(t)

\* What NoCircularWait rests on: writers have turns, and whoever waits to write a table
\* waits for writers whose turn is earlier, be they its holder or before it in the
\* queue.  One acquireLocks is one step and takes its place in every queue at once.
InTurn(turn) ==
  \A t \in Table :
    /\ \A p \in Waiters(t, Write), q \in Holders(t, Write) : turn[q] < turn[p]
    /\ \A i, j \in DOMAIN lock[t].writersQueue :
         i < j => turn[lock[t].writersQueue[i]] < turn[lock[t].writersQueue[j]]
=============================================================================
