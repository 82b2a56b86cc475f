--------------------------- MODULE MutationQueue ---------------------------
(***************************************************************************)
(* The offline mutation queue of the browser: the rows in IndexedDB that   *)
(* all tabs share (sync-engine, queue/manager.ts), and in every tab the    *)
(* coordinator that asks for syncs and the processor that replays the      *)
(* queue against the server (coordinator/index.ts, queue/processor.ts).    *)
(*                                                                         *)
(* One action is what happens between two awaits: a write to IndexedDB, an *)
(* answer of the server, a timer, an event of the network or of the other  *)
(* tabs.  The numbers of the mutations are their timestamps.               *)
(*                                                                         *)
(* Abstracted: payloads and who wins a conflict, delays, the limits of the *)
(* table of id mappings (1000 entries, 24 hours), failures of IndexedDB    *)
(* itself.  HttpMutationAdapter.execute never throws, so that              *)
(* processMutationWithRetry makes one attempt.                             *)
(***************************************************************************)
EXTENDS Integers, FiniteSets

CONSTANTS
  Tab,
  Mutations,   \* how many mutations the users make
  Creates,     \* those that create an entity under a provisional id
  Refers,      \* the creates whose provisional ids a mutation mentions
  BatchSize,   \* batchSize
  MaxRetries,  \* maxRetries
  MaxFaults,   \* bound: closed tabs, cleared caches, losses of the network, refusals,
               \* conflicts, lost answers
  MaxCalls     \* bound: elections, stops, syncs asked for by hand or by other tabs

Mutation == 1..Mutations

ASSUME MutationAssumption ==
  /\ Mutations \in Nat /\ Creates \subseteq Mutation
  /\ Refers \in [Mutation -> SUBSET Creates]
  /\ \A m \in Mutation : \A k \in Refers[m] : k < m
ASSUME LimitAssumption == {BatchSize, MaxRetries} \subseteq Nat \ {0}
ASSUME BoundAssumption == {MaxFaults, MaxCalls} \subseteq Nat

NoMutation == 0
NoTab == "none"

VARIABLES
  status,     \* of each row; "absent" before enqueue, "gone" after its deletion
  retry,      \* retryCount of each row
  dependsOn,  \* of each row
  mapped,     \* the id mappings in IndexedDB
  phase,      \* of each tab: "closed" | "stopped" | "started"
  online,     \* networkMonitor.isOnline of each tab
  leader,     \* the tab that leads
  requested,  \* pendingSyncRequest
  debounced,  \* the timer of syncDebounce is armed
  timer,      \* pendingSyncTimer is armed
  stopping,   \* shouldStop of the processor
  loaded,     \* the queue manager has read the id mappings
  known,      \* the id mappings in memory
  proc,       \* the sync that runs; it holds syncMutex and processingMutex
  applied,    \* how often the server has carried out each mutation
  due,        \* history: what waited when the tab was asked to sync
  contested,  \* history: rows that two tabs had read as pending at once
  unanswered, \* history: mutations carried out whose answer was lost
  dropped,    \* history: rows that were cleared before they were completed
  stranded,   \* history: rows in progress in a tab that was closed
  split,      \* history: ids mapped while another tab had its own mappings, or cleared
  faults, calls

rows == <<status, retry, dependsOn>>
requests == <<requested, debounced, timer>>
ids == <<mapped, loaded, known, split>>
tabs == <<phase, online, leader>>
fates == <<applied, unanswered, dropped>>
bounds == <<faults, calls>>
vars == <<rows, requests, ids, tabs, fates, stopping, proc, due, contested,
          stranded, bounds>>

\* Mutant: the rows that a closed tab left in progress are tried again.
Waiting_Stranded == {"pending", "offline_queued", "in_progress"}

Waiting == {"pending", "offline_queued"}
Finished == {m \in Mutation : status[m] \in {"completed", "gone"}}
Pending  == {m \in Mutation : status[m] \in Waiting}
First(S)  == {m \in S : \A k \in S : m <= k}

Idle == [pc |-> "idle", todo |-> {}, seen |-> [m \in Mutation |-> 0],
         cur |-> NoMutation, done |-> {}, tried |-> FALSE, won |-> FALSE]

Location == {"idle", "marking", "listing", "taking", "sending", "served", "completing",
             "failing", "requeueing", "relisting", "giving_up", "ending"}

Processor == [pc : Location, todo : SUBSET Mutation, seen : [Mutation -> Nat],
              cur : Mutation \cup {NoMutation}, done : SUBSET Mutation,
              tried : BOOLEAN, won : BOOLEAN]

TypeOK ==
  /\ status \in [Mutation -> {"absent", "pending", "offline_queued", "in_progress",
                              "completed", "failed", "gone"}]
  /\ retry \in [Mutation -> 0..faults]
  /\ dependsOn \in [Mutation -> SUBSET Mutation]
  /\ mapped \subseteq Creates /\ known \in [Tab -> SUBSET Creates]
  /\ phase \in [Tab -> {"closed", "stopped", "started"}]
  /\ leader \in Tab \cup {NoTab} /\ online \in [Tab -> BOOLEAN]
  /\ requested \in [Tab -> BOOLEAN] /\ debounced \in [Tab -> BOOLEAN]
  /\ timer \in [Tab -> BOOLEAN] /\ stopping \in [Tab -> BOOLEAN]
  /\ loaded \in [Tab -> BOOLEAN] /\ proc \in [Tab -> Processor]
  /\ applied \in [Mutation -> Nat] /\ due \in [Tab -> SUBSET Mutation]
  /\ contested \subseteq Mutation /\ unanswered \subseteq Mutation /\ dropped \subseteq Mutation
  /\ stranded \subseteq Mutation /\ split \subseteq Mutation
  /\ faults \in 0..MaxFaults /\ calls \in 0..MaxCalls

Init ==
  /\ status = [m \in Mutation |-> "absent"] /\ retry = [m \in Mutation |-> 0]
  /\ dependsOn = [m \in Mutation |-> {}]
  /\ mapped = {} /\ loaded = [t \in Tab |-> FALSE] /\ known = [t \in Tab |-> {}]
  /\ phase = [t \in Tab |-> "closed"] /\ leader = NoTab
  /\ \E b \in BOOLEAN : online = [t \in Tab |-> b]
  /\ requested = [t \in Tab |-> FALSE] /\ debounced = [t \in Tab |-> FALSE]
  /\ timer = [t \in Tab |-> FALSE] /\ stopping = [t \in Tab |-> FALSE]
  /\ proc = [t \in Tab |-> Idle]
  /\ applied = [m \in Mutation |-> 0] /\ due = [t \in Tab |-> {}]
  /\ contested = {} /\ unanswered = {} /\ dropped = {} /\ stranded = {} /\ split = {}
  /\ faults = 0 /\ calls = 0

Fault == faults < MaxFaults /\ faults' = faults + 1 /\ UNCHANGED calls
Call  == calls < MaxCalls /\ calls' = calls + 1 /\ UNCHANGED faults

\* An update of a row that another tab has deleted changes nothing.
Write(m, s) == status' = [status EXCEPT ![m] = IF @ = "gone" THEN @ ELSE s]

(***************************************************************************)
(* Asking for a sync.                                                      *)
(***************************************************************************)

Ask(t) == due' = [due EXCEPT ![t] = @ \cup Pending]

\* Mutant: a sync that finds the mutex taken is dropped.
Sync_Drops(t, asked) ==
  IF proc[t].pc # "idle"
  THEN UNCHANGED <<requested, timer, proc>>
  ELSE IF online[t]
  THEN /\ proc' = [proc EXCEPT ![t].pc = "marking"]
       /\ requested' = [requested EXCEPT ![t] = asked]
       /\ UNCHANGED timer
  ELSE /\ requested' = [requested EXCEPT ![t] = FALSE]
       /\ timer' = [timer EXCEPT ![t] = @ \/ asked]
       /\ UNCHANGED proc

\* sync(), with the value that pendingSyncRequest has when it is called.  One
\* that finds the mutex taken leaves a request; one that is offline returns, and
\* its finally block looks at the request all the same.
Sync(t, asked) ==
  IF proc[t].pc # "idle"
  THEN /\ requested' = [requested EXCEPT ![t] = TRUE]
       /\ UNCHANGED <<timer, proc>>
  ELSE IF online[t]
  THEN /\ proc' = [proc EXCEPT ![t].pc = "marking"]
       /\ requested' = [requested EXCEPT ![t] = asked]
       /\ UNCHANGED timer
  ELSE /\ requested' = [requested EXCEPT ![t] = FALSE]
       /\ timer' = [timer EXCEPT ![t] = @ \/ asked]
       /\ UNCHANGED proc

\* scheduleSync()
ScheduleSync(t) ==
  /\ requested' = [requested EXCEPT ![t] = TRUE]
  /\ debounced' = [debounced EXCEPT ![t] = @ \/ ~requested[t]]
  /\ UNCHANGED timer

DebounceFires(t) ==
  /\ debounced[t]
  /\ debounced' = [debounced EXCEPT ![t] = FALSE]
  /\ Sync(t, FALSE)
  /\ UNCHANGED <<rows, ids, tabs, fates, stopping, due, contested, stranded, bounds>>

TimerFires(t) ==
  /\ timer[t]
  /\ IF online[t]
     THEN /\ IF proc[t].pc = "idle"
             THEN proc' = [proc EXCEPT ![t].pc = "marking"] /\ UNCHANGED requested
             ELSE requested' = [requested EXCEPT ![t] = TRUE] /\ UNCHANGED proc
     ELSE UNCHANGED <<requested, proc>>
  /\ timer' = [timer EXCEPT ![t] = FALSE]
  /\ UNCHANGED <<rows, debounced, ids, tabs, fates, stopping, due, contested, stranded, bounds>>

\* sync() by a hook or by the provider.
SyncByHand(t) ==
  /\ phase[t] = "started" /\ Call
  /\ Sync(t, requested[t])
  /\ IF online[t] THEN Ask(t) ELSE UNCHANGED due
  /\ UNCHANGED <<rows, debounced, ids, tabs, fates, stopping, contested, stranded>>

\* The cross-tab manager announces that this tab leads (LeaderElection).
Elected(t) ==
  /\ phase[t] = "started" /\ leader # t /\ Call
  /\ leader' = t
  /\ ScheduleSync(t)
  /\ IF online[t] THEN Ask(t) ELSE UNCHANGED due
  /\ UNCHANGED <<rows, ids, phase, online, fates, stopping, proc, contested, stranded>>

\* Another tab says that it is online, and this one leads and finds it is too.
OnlineHeard(t) ==
  /\ phase[t] = "started" /\ leader = t /\ online[t] /\ Call
  /\ ScheduleSync(t) /\ Ask(t)
  /\ UNCHANGED <<rows, ids, tabs, fates, stopping, proc, contested, stranded>>

GoOnline(t) ==
  /\ phase[t] = "started" /\ ~online[t]
  /\ online' = [online EXCEPT ![t] = TRUE]
  /\ IF leader = t THEN ScheduleSync(t) /\ Ask(t) ELSE UNCHANGED <<requests, due>>
  /\ UNCHANGED <<rows, ids, phase, leader, fates, stopping, proc, contested, stranded, bounds>>

\* The sync that runs is not stopped: it goes on with rows queued offline.
GoOffline(t) ==
  /\ phase[t] = "started" /\ online[t] /\ Fault
  /\ online' = [online EXCEPT ![t] = FALSE]
  /\ debounced' = [debounced EXCEPT ![t] = FALSE]
  /\ requested' = [requested EXCEPT ![t] = FALSE]
  /\ status' = [m \in Mutation |-> IF status[m] = "pending" THEN "offline_queued"
                                   ELSE status[m]]
  /\ due' = [due EXCEPT ![t] = {}]
  /\ UNCHANGED <<retry, dependsOn, timer, ids, phase, leader, fates, stopping, proc, contested, stranded>>

(***************************************************************************)
(* Tabs come and go.                                                       *)
(***************************************************************************)

\* start(); a coordinator that was only stopped keeps what it had in memory.
Start(t) ==
  /\ phase[t] # "started"
  /\ phase' = [phase EXCEPT ![t] = "started"]
  /\ IF online[t] THEN Sync(t, requested[t]) /\ Ask(t)
                  ELSE UNCHANGED <<requested, timer, proc, due>>
  /\ UNCHANGED <<rows, debounced, ids, online, leader, fates, stopping, contested, stranded, bounds>>

Stop(t) ==
  /\ phase[t] = "started" /\ Call
  /\ phase' = [phase EXCEPT ![t] = "stopped"]
  /\ leader' = IF leader = t THEN NoTab ELSE leader
  /\ stopping' = [stopping EXCEPT ![t] = TRUE]
  /\ requested' = [requested EXCEPT ![t] = FALSE]
  /\ debounced' = [debounced EXCEPT ![t] = FALSE]
  /\ timer' = [timer EXCEPT ![t] = FALSE]
  /\ due' = [due EXCEPT ![t] = {}]
  /\ UNCHANGED <<rows, ids, online, fates, proc, contested, stranded>>

\* The tab is closed, reloaded or killed, between any two awaits.
Close(t) ==
  /\ phase[t] # "closed" /\ Fault
  /\ phase' = [phase EXCEPT ![t] = "closed"]
  /\ leader' = IF leader = t THEN NoTab ELSE leader
  /\ stranded' = stranded \cup {m \in Mutation : m = proc[t].cur /\ status[m] = "in_progress"}
  /\ proc' = [proc EXCEPT ![t] = Idle]
  /\ requested' = [requested EXCEPT ![t] = FALSE]
  /\ debounced' = [debounced EXCEPT ![t] = FALSE]
  /\ timer' = [timer EXCEPT ![t] = FALSE]
  /\ stopping' = [stopping EXCEPT ![t] = FALSE]
  /\ loaded' = [loaded EXCEPT ![t] = FALSE]
  /\ known' = [known EXCEPT ![t] = {}]
  /\ due' = [due EXCEPT ![t] = {}]
  /\ UNCHANGED <<rows, mapped, split, online, fates, contested>>

\* clearAll() of the database, when the user clears the cache or another one logs
\* in: rows and mappings go, what the tabs have in memory stays.
ClearAll(t) ==
  /\ phase[t] # "closed" /\ Fault
  /\ dropped' = dropped \cup {m \in Mutation \ Finished : status[m] # "absent"}
  /\ status' = [m \in Mutation |-> IF status[m] = "absent" THEN "absent" ELSE "gone"]
  /\ mapped' = {} /\ split' = split \cup mapped
  /\ UNCHANGED <<retry, dependsOn, requests, loaded, known, tabs, applied, unanswered, stopping,
                 proc, due, contested, stranded>>

\* ensureInitialized() of the queue manager
Initialize(t) ==
  /\ loaded' = [loaded EXCEPT ![t] = TRUE]
  /\ known' = [known EXCEPT ![t] = IF loaded[t] THEN @ ELSE mapped]
  /\ UNCHANGED <<mapped, split>>

\* A mutation made offline, or whose request met a network error: it asks for
\* no sync.  It can depend on what was enqueued before, done or not.
Enqueue(t, m) ==
  /\ phase[t] # "closed"
  /\ status[m] = "absent" /\ \A k \in 1..(m - 1) : status[k] # "absent"
  /\ status' = [status EXCEPT ![m] = "pending"]
  /\ \E D \in SUBSET (1..(m - 1)) : dependsOn' = [dependsOn EXCEPT ![m] = D]
  /\ Initialize(t)
  /\ UNCHANGED <<retry, requests, tabs, fates, stopping, proc, due, contested, stranded, bounds>>

(***************************************************************************)
(* process(), inside sync().                                               *)
(***************************************************************************)

At(t, pc) == proc[t].pc = pc
Goto(t, pc) == proc' = [proc EXCEPT ![t].pc = pc]
inQueue == <<requests, tabs, due, stranded>>

\* markAllPending has been written; process() begins.
MarkAllPending(t) ==
  /\ At(t, "marking")
  /\ status' = [m \in Mutation |-> IF status[m] = "offline_queued" THEN "pending"
                                   ELSE status[m]]
  /\ stopping' = [stopping EXCEPT ![t] = FALSE]
  /\ Goto(t, "listing")
  /\ UNCHANGED <<retry, dependsOn, inQueue, ids, fates, contested, bounds>>

\* The first batchSize rows in the order of their timestamps, which puts no
\* mutation before one that it depends on.
Batch == {m \in Pending : Cardinality({k \in Pending : k < m}) < BatchSize}

Read(t, todo) ==
  /\ contested' = contested \cup {m \in Pending : \E u \in Tab \ {t} : m \in proc[u].todo}
  /\ proc' = [proc EXCEPT ![t] = [@ EXCEPT !.pc = "taking", !.todo = todo,
                                           !.seen = retry, !.tried = FALSE]]

ListPending(t) ==
  /\ At(t, "listing")
  /\ Initialize(t)
  /\ IF stopping[t] \/ Pending = {}
     THEN Goto(t, "ending") /\ UNCHANGED contested
     ELSE Read(t, Batch)
  /\ UNCHANGED <<rows, inQueue, fates, stopping, bounds>>

\* After a batch: when none of it could be processed, everything that is
\* pending now is given up.
ListAgain(t) ==
  /\ At(t, "relisting")
  /\ IF stopping[t] \/ Pending = {}
     THEN Goto(t, "ending") /\ UNCHANGED contested
     ELSE IF proc[t].tried
     THEN Read(t, Batch)
     ELSE /\ proc' = [proc EXCEPT ![t].pc = "giving_up", ![t].todo = Pending]
          /\ UNCHANGED contested
  /\ UNCHANGED <<rows, inQueue, ids, fates, stopping, bounds>>

\* Mutant: a mutation waits only for dependencies that are still in the queue.
canProcessMutation_NotPending(t, m) == dependsOn[m] \cap Pending = {}

\* canProcessMutation: completedIds knows only what this call of process() has
\* completed.
canProcessMutation(t, m) == dependsOn[m] \subseteq proc[t].done

Behind(t, m) == {k \in proc[t].todo : k > m}

\* The next mutation of the batch whose dependencies are met is marked in
\* progress; those before it are skipped.
Take(t) ==
  /\ At(t, "taking")
  /\ LET able == {m \in proc[t].todo : canProcessMutation(t, m)}
     IN IF stopping[t] \/ able = {}
        THEN /\ proc' = [proc EXCEPT ![t].pc = "relisting", ![t].todo = {}]
             /\ UNCHANGED status
        ELSE \E m \in First(able) :
               /\ Write(m, "in_progress")
               /\ proc' = [proc EXCEPT ![t] =
                    [@ EXCEPT !.pc = "sending", !.cur = m, !.tried = TRUE,
                              !.todo = Behind(t, m)]]
  /\ UNCHANGED <<retry, dependsOn, inQueue, ids, fates, stopping, contested, bounds>>

\* The request reaches the server, which carries it out.
Carry(t) ==
  /\ At(t, "sending")
  /\ applied' = [applied EXCEPT ![proc[t].cur] = @ + 1]
  /\ Goto(t, "served")
  /\ UNCHANGED <<rows, inQueue, ids, unanswered, dropped, stopping, contested, bounds>>

\* Mutant: the mappings are stored when the tab has time, not before the row is
\* completed.
Persist_Later(t) ==
  /\ At(t, "served") /\ proc[t].cur \in Creates
  /\ known' = [known EXCEPT ![t] = @ \cup {proc[t].cur}]
  /\ Goto(t, "completing")
  /\ UNCHANGED <<rows, inQueue, mapped, split, loaded, fates, stopping, contested, bounds>>

\* The answer to a create is a success: persistIdMappings writes the whole table
\* as this tab knows it.
Persist(t) ==
  /\ At(t, "served") /\ proc[t].cur \in Creates
  /\ known' = [known EXCEPT ![t] = @ \cup {proc[t].cur}]
  /\ mapped' = known'[t]
  /\ split' = split \cup (mapped \ mapped')
                    \cup {c \in mapped' \ mapped : \E u \in Tab \ {t} : loaded[u]}
  /\ Goto(t, "completing")
  /\ UNCHANGED <<rows, inQueue, loaded, fates, stopping, contested, bounds>>

\* The mutation is done with, and the next one of the batch is looked at.
NextOne(t) == [proc[t] EXCEPT !.pc = "taking", !.cur = NoMutation]

Complete(t) ==
  /\ At(t, "completing") \/ (At(t, "served") /\ proc[t].cur \notin Creates)
  /\ Write(proc[t].cur, "completed")
  /\ proc' = [proc EXCEPT ![t] = [NextOne(t) EXCEPT !.done = @ \cup {proc[t].cur},
                                                  !.won = TRUE]]
  /\ UNCHANGED <<retry, dependsOn, inQueue, ids, fates, stopping, contested, bounds>>

\* The answer is an error, or there is none: markFailed reads the row.
Fails(t) ==
  /\ proc[t].pc \in {"sending", "served"} /\ Fault
  /\ unanswered' = unanswered \cup {m \in Mutation : m = proc[t].cur /\ At(t, "served")}
  /\ proc' = [proc EXCEPT ![t].pc = "failing", ![t].seen = retry]
  /\ UNCHANGED <<rows, inQueue, ids, applied, dropped, stopping, contested>>

\* The answer is a conflict, which is resolved on the client.
Conflicts(t) ==
  /\ At(t, "sending") /\ proc[t].cur \notin Creates /\ Fault
  /\ Goto(t, "requeueing")
  /\ UNCHANGED <<rows, inQueue, ids, fates, stopping, contested>>

\* Mutants: a failure is counted twice; a row that failed keeps its status until
\* it fails for good.
Failures_Twice(t) == proc[t].seen[proc[t].cur] + 2
AfterFailure_Keeps(n) == IF n >= MaxRetries THEN "failed" ELSE "in_progress"

Failures(t) == proc[t].seen[proc[t].cur] + 1
AfterFailure(n) == IF n >= MaxRetries THEN "failed" ELSE "pending"

\* markFailed counts against maxRetries, a resolved conflict does not; both
\* write what they read before.
PutBack(t) ==
  /\ proc[t].pc \in {"failing", "requeueing"}
  /\ LET m == proc[t].cur
     IN /\ retry' = [retry EXCEPT ![m] = IF status[m] = "gone" THEN @ ELSE Failures(t)]
        /\ Write(m, IF At(t, "failing") THEN AfterFailure(Failures(t)) ELSE "pending")
  /\ proc' = [proc EXCEPT ![t] = NextOne(t)]
  /\ UNCHANGED <<dependsOn, inQueue, ids, fates, stopping, contested, bounds>>

\* failUnprocessableMutations, one row after the other
GiveUp(t) ==
  /\ At(t, "giving_up")
  /\ \E m \in First(proc[t].todo) :
        /\ Write(m, "failed")
        /\ proc' = [proc EXCEPT ![t].todo = @ \ {m},
                                ![t].pc = IF proc[t].todo = {m} THEN "ending" ELSE @]
  /\ UNCHANGED <<retry, dependsOn, inQueue, ids, fates, stopping, contested, bounds>>

\* cleanupCompleted, and the finally block of sync(): a request that was left
\* meanwhile gets a timer.
EndSync(t) ==
  /\ At(t, "ending")
  /\ status' = [m \in Mutation |-> IF proc[t].won /\ status[m] = "completed" THEN "gone"
                                   ELSE status[m]]
  /\ proc' = [proc EXCEPT ![t] = Idle]
  /\ timer' = [timer EXCEPT ![t] = @ \/ requested[t]]
  /\ requested' = [requested EXCEPT ![t] = FALSE]
  /\ UNCHANGED <<retry, dependsOn, debounced, tabs, ids, fates, stopping, due, contested, stranded, bounds>>

-----------------------------------------------------------------------------

Process(t) ==
  \/ MarkAllPending(t) \/ ListPending(t) \/ ListAgain(t) \/ Take(t) \/ Carry(t)
  \/ Persist(t) \/ Complete(t) \/ PutBack(t) \/ GiveUp(t) \/ EndSync(t)

Environment(t) ==
  \/ SyncByHand(t) \/ Elected(t) \/ OnlineHeard(t) \/ GoOnline(t) \/ GoOffline(t)
  \/ Start(t) \/ Stop(t) \/ Close(t) \/ ClearAll(t) \/ Fails(t) \/ Conflicts(t)
  \/ \E m \in Mutation : Enqueue(t, m)

Next ==
  \E t \in Tab : Process(t) \/ DebounceFires(t) \/ TimerFires(t) \/ Environment(t)

Spec == Init /\ [][Next]_vars

\* Timers fire, awaits end, and the server or the client's timeout answers.
Fairness ==
  \A t \in Tab : /\ WF_vars(DebounceFires(t)) /\ WF_vars(TimerFires(t))
                 /\ WF_vars(Process(t))

FairSpec == Spec /\ Fairness

-----------------------------------------------------------------------------

\* The server carries a mutation out at most once, unless an answer was lost or
\* two tabs had read the row as pending: the mark in_progress keeps a tab that
\* reads later away, whatever crashes, retries and requests come between.
AppliedOnce ==
  \A m \in Mutation \ (unanswered \cup contested) : applied[m] <= 1

\* A row that is completed or deleted was carried out, unless somebody cleared
\* the cache, and one that is in progress has a tab that works on it or had one
\* that was closed: no other path, also of two tabs that meet on one row, leaves
\* a mutation where no sync will ever look for it.
NothingForgotten ==
  \A m \in Mutation :
    /\ m \in Finished \ dropped => applied[m] > 0
    /\ status[m] = "in_progress" =>
         m \in stranded \/ \E t \in Tab : proc[t].cur = m

\* A mutation is sent only after everything it depends on was carried out, also
\* when that failed and was retried, or was given up.
DependenciesFirst ==
  \A t \in Tab : At(t, "sending") =>
    \A k \in dependsOn[proc[t].cur] : applied[k] > 0

\* No request mentions the provisional id of an entity whose create is done:
\* the mapping is stored before the row is completed, so also not after the tab
\* was closed in between.  Two tabs that map ids overwrite each other's tables, and
\* clearing the cache drops them.
SentResolved ==
  \A t \in Tab : At(t, "sending") =>
    Refers[proc[t].cur] \cap (Finished \ dropped) \subseteq known[t] \cup split

\* What waits when a tab is asked to sync while it is online is looked at, also
\* when the request comes while a sync runs, or is coalesced with another one;
\* unless the tab goes offline, stops or is closed first.
RequestsAreServed ==
  \A t \in Tab : \A m \in Mutation :
    m \in due[t] ~> (m \notin due[t] \/ m \notin Pending)

\* process() gives mutations up "when dependency graph cannot make progress"
\* (processor.ts:310): not one whose dependencies have all been carried out.
GivenUpOnlyBlocked ==
  [][\A t \in Tab : GiveUp(t) =>
       \A m \in proc[t].todo \ proc'[t].todo : \E k \in dependsOn[m] : k \notin Finished]_vars

=============================================================================
