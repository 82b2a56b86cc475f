------------------------ MODULE MutationQueue_proof ------------------------
(***************************************************************************)
(* Proofs about MutationQueue, for any set of tabs, any mutations with     *)
(* their dependencies, and all bounds.                                     *)
(*                                                                         *)
(* The inductive invariant says what a processor may rely on about the     *)
(* mutation it handles (TabOK), what the rows say of the server (RowOK),   *)
(* who may still send a mutation (OnceOK), and what every tab knows of the *)
(* id mappings (MapsOK).                                                   *)
(***************************************************************************)
EXTENDS MutationQueue, TLAPS

AtWork == {"sending", "served", "completing", "failing", "requeueing"}

\* A processor handles a mutation in the middle of its steps only, behind which
\* its list continues; what it counts as completed was carried out, and so was
\* everything the mutation that it sends depends on.
TabOK(t) ==
  LET p == proc[t]
  IN /\ p.pc \in AtWork <=> p.cur # NoMutation
     /\ p.pc \notin {"idle", "marking", "listing"} => loaded[t]
     /\ p.pc \in {"idle", "marking", "listing", "relisting", "ending"} => p.todo = {}
     /\ p.pc = "giving_up" => p.todo # {}
     /\ \A k \in p.todo : p.cur < k /\ status[k] # "absent"
     /\ p.cur # NoMutation => status[p.cur] # "absent"
     /\ \A k \in p.done : applied[k] > 0
     /\ p.pc = "sending" => dependsOn[p.cur] \subseteq p.done
     /\ p.pc \in {"served", "completing"} => applied[p.cur] > 0
     /\ p.pc = "completing" => p.cur \in mapped \cup split
     /\ \A m \in Mutation : p.seen[m] <= faults
     /\ p.pc \in {"failing", "requeueing"} => p.seen[p.cur] < faults

RowOK(m) ==
  /\ m \in Finished \ dropped => applied[m] > 0 /\ (m \in Creates => m \in mapped \cup split)
  /\ status[m] = "absent" => applied[m] = 0
  /\ status[m] = "in_progress" => m \in stranded \/ \E t \in Tab : proc[t].cur = m

\* The tab has mutation m on its list, or before it.
Engaged(t, m) ==
  proc[t].cur = m \/ (m \in proc[t].todo /\ proc[t].pc # "giving_up")

\* What makes a mutation be carried out once: nobody can find it, or still send
\* it, after it was, and two tabs never have it at once.
OnceOK(m) ==
  m \notin unanswered \cup contested =>
    /\ applied[m] <= 1
    /\ status[m] \in Waiting => applied[m] = 0
    /\ \A t \in Tab :
         /\ m \in proc[t].todo /\ proc[t].pc # "giving_up" => applied[m] = 0
         /\ proc[t].cur = m => status[m] \notin Waiting
         /\ proc[t].cur = m /\ proc[t].pc \in {"sending", "failing", "requeueing"} =>
              applied[m] = 0
    /\ \A t, u \in Tab : Engaged(t, m) /\ Engaged(u, m) => t = u

\* Every tab that has read the table of mappings knows all of it.
MapsOK == \A c \in mapped \ split : \A t \in Tab : loaded[t] => c \in known[t]

IInv ==
  /\ TypeOK
  /\ \A t \in Tab : TabOK(t)
  /\ \A m \in Mutation : RowOK(m) /\ OnceOK(m)
  /\ MapsOK

-----------------------------------------------------------------------------
(* Types *)

\* What steps write into the record of a processor.
LEMMA IdleTyped == Idle \in Processor
BY DEF Processor, Idle, Location

LEMMA Moves ==
  ASSUME NEW p \in Processor, NEW pc \in Location
  PROVE  /\ [p EXCEPT !.pc = pc] \in Processor
         /\ [p EXCEPT !.pc = pc, !.cur = NoMutation] \in Processor
<1> QED BY DEF Processor

LEMMA Lists ==
  ASSUME NEW p \in Processor, NEW pc \in Location, NEW S \in SUBSET Mutation
  PROVE  /\ [p EXCEPT !.pc = pc, !.todo = S] \in Processor
         /\ [p EXCEPT !.todo = S, !.pc = pc] \in Processor
         /\ \A m \in Mutation :
              [p EXCEPT !.pc = pc, !.cur = m, !.tried = TRUE, !.todo = S] \in Processor
         /\ [[p EXCEPT !.pc = pc, !.cur = NoMutation] EXCEPT !.done = S, !.won = TRUE]
              \in Processor
         /\ \A n \in [Mutation -> Nat] :
              [p EXCEPT !.pc = pc, !.todo = S, !.seen = n, !.tried = FALSE] \in Processor
BY DEF Processor

LEMMA Reads ==
  ASSUME NEW p \in Processor, NEW pc \in Location, NEW n \in [Mutation -> Nat]
  PROVE  [p EXCEPT !.pc = pc, !.seen = n] \in Processor
BY DEF Processor

\* A request to sync.
LEMMA SyncTyped ==
  ASSUME TypeOK, NEW t \in Tab, NEW asked \in BOOLEAN, Sync(t, asked)
  PROVE  /\ requested' \in [Tab -> BOOLEAN] /\ timer' \in [Tab -> BOOLEAN]
         /\ proc' \in [Tab -> Processor]
<1>1. [proc[t] EXCEPT !.pc = "marking"] \in Processor
  BY Moves DEF TypeOK, Location
<1>2. CASE proc[t].pc # "idle"
  BY <1>2 DEF Sync, TypeOK
<1>3. CASE proc[t].pc = "idle" /\ online[t]
  <2>1. proc' \in [Tab -> Processor]
    BY <1>1, <1>3 DEF Sync, TypeOK
  <2> QED BY <1>3, <2>1 DEF Sync, TypeOK
<1>4. CASE proc[t].pc = "idle" /\ ~online[t]
  BY <1>4 DEF Sync, TypeOK
<1> QED BY <1>2, <1>3, <1>4

LEMMA AskTyped ==
  ASSUME TypeOK, NEW t \in Tab, Ask(t) \/ UNCHANGED due
  PROVE  due' \in [Tab -> SUBSET Mutation]
<1>1. Pending \subseteq Mutation
  BY DEF Pending
<1> QED BY <1>1 DEF Ask, TypeOK

LEMMA BoundsTyped ==
  ASSUME TypeOK, Call \/ Fault \/ UNCHANGED bounds
  PROVE  faults' \in 0..MaxFaults /\ calls' \in 0..MaxCalls /\ retry \in [Mutation -> 0..faults']
<1>1. /\ faults' \in 0..MaxFaults /\ calls' \in 0..MaxCalls /\ faults <= faults'
      /\ faults \in Nat
  BY BoundAssumption DEF TypeOK, Call, Fault, bounds
<1>2. 0..faults \subseteq 0..faults'
  BY <1>1
<1> QED BY <1>1, <1>2 DEF TypeOK

\* The tab, its network and its timers.
LEMMA EnvironmentTyped ==
  ASSUME TypeOK, NEW t \in Tab,
         \/ DebounceFires(t) \/ TimerFires(t) \/ SyncByHand(t) \/ Elected(t)
         \/ OnlineHeard(t) \/ GoOnline(t) \/ Start(t)
  PROVE  TypeOK'
<1>1. [proc[t] EXCEPT !.pc = "marking"] \in Processor
  BY Moves DEF TypeOK, Location
<1>3. CASE DebounceFires(t)
  <2>1. Sync(t, FALSE)
    BY <1>3 DEF DebounceFires
  <2> QED BY <1>3, <2>1, SyncTyped DEF DebounceFires, rows, ids, tabs, fates, bounds, TypeOK
<1>4. CASE TimerFires(t)
  BY <1>1, <1>4 DEF TimerFires, rows, ids, tabs, fates, bounds, TypeOK
<1>5. CASE SyncByHand(t)
  <2>1. Sync(t, requested[t]) /\ (Ask(t) \/ UNCHANGED due) /\ Call /\ requested[t] \in BOOLEAN
    BY <1>5 DEF SyncByHand, TypeOK
  <2> QED BY <1>5, <2>1, SyncTyped, AskTyped, BoundsTyped
          DEF SyncByHand, rows, ids, tabs, fates, TypeOK
<1>6. CASE Elected(t)
  <2>1. (Ask(t) \/ UNCHANGED due) /\ Call
    BY <1>6 DEF Elected
  <2> QED BY <1>6, <2>1, AskTyped, BoundsTyped
          DEF Elected, ScheduleSync, rows, ids, fates, TypeOK
<1>7. CASE OnlineHeard(t)
  <2>1. Ask(t) /\ Call
    BY <1>7 DEF OnlineHeard
  <2> QED BY <1>7, <2>1, AskTyped, BoundsTyped
          DEF OnlineHeard, ScheduleSync, rows, ids, tabs, fates, TypeOK
<1>8. CASE GoOnline(t)
  <2>1. Ask(t) \/ UNCHANGED due
    BY <1>8 DEF GoOnline
  <2>2. requested' \in [Tab -> BOOLEAN] /\ debounced' \in [Tab -> BOOLEAN]
        /\ timer' \in [Tab -> BOOLEAN]
    BY <1>8 DEF GoOnline, ScheduleSync, requests, TypeOK
  <2> QED BY <1>8, <2>1, <2>2, AskTyped DEF GoOnline, rows, ids, fates, bounds, TypeOK
<1>9. CASE Start(t)
  <2>1. Ask(t) \/ UNCHANGED due
    BY <1>9 DEF Start
  <2>2. requested' \in [Tab -> BOOLEAN] /\ timer' \in [Tab -> BOOLEAN]
        /\ proc' \in [Tab -> Processor]
    <3>1. CASE online[t]
      BY <1>9, <3>1, SyncTyped DEF Start, TypeOK
    <3>2. CASE ~online[t]
      BY <1>9, <3>2 DEF Start, TypeOK
    <3> QED BY <3>1, <3>2
  <2> QED BY <1>9, <2>1, <2>2, AskTyped DEF Start, rows, ids, fates, bounds, TypeOK
<1> QED BY <1>3, <1>4, <1>5, <1>6, <1>7, <1>8, <1>9

LEMMA TabsTyped ==
  ASSUME TypeOK, NEW t \in Tab, GoOffline(t) \/ Stop(t) \/ Close(t) \/ ClearAll(t)
  PROVE  TypeOK'
<1>1. CASE GoOffline(t)
  BY <1>1, BoundsTyped DEF GoOffline, ids, fates, TypeOK
<1>2. CASE Stop(t)
  BY <1>2, BoundsTyped DEF Stop, rows, ids, fates, TypeOK
<1>3. CASE Close(t)
  <2>1. stranded' \subseteq Mutation
    BY <1>3 DEF Close, TypeOK
  <2> QED BY <1>3, <2>1, BoundsTyped, IdleTyped DEF Close, rows, fates, TypeOK
<1>4. CASE ClearAll(t)
  <2>1. dropped' \subseteq Mutation /\ split' \subseteq Mutation
    BY <1>4, MutationAssumption DEF ClearAll, TypeOK
  <2> QED BY <1>4, <2>1, BoundsTyped DEF ClearAll, requests, tabs, TypeOK
<1> QED BY <1>1, <1>2, <1>3, <1>4

LEMMA WriteTyped ==
  ASSUME TypeOK, NEW m,
         NEW s \in {"pending", "in_progress", "completed", "failed"}, Write(m, s)
  PROVE  status' \in [Mutation -> {"absent", "pending", "offline_queued", "in_progress",
                                   "completed", "failed", "gone"}]
BY DEF Write, TypeOK

LEMMA InitializeTyped ==
  ASSUME TypeOK, NEW t \in Tab, Initialize(t)
  PROVE  /\ mapped' \subseteq Creates /\ known' \in [Tab -> SUBSET Creates]
         /\ loaded' \in [Tab -> BOOLEAN] /\ split' \subseteq Mutation
BY DEF Initialize, TypeOK

\* A retry count is a natural number.
LEMMA RetryTyped == TypeOK => retry \in [Mutation -> Nat]
BY BoundAssumption DEF TypeOK

LEMMA ReadTyped ==
  ASSUME TypeOK, NEW t \in Tab, Read(t, Batch)
  PROVE  proc' \in [Tab -> Processor] /\ contested' \subseteq Mutation
<1>1. Pending \subseteq Mutation /\ Batch \subseteq Mutation /\ "taking" \in Location
  BY DEF Pending, Batch, Location
<1>2. [proc[t] EXCEPT !.pc = "taking", !.todo = Batch, !.seen = retry, !.tried = FALSE]
        \in Processor
  BY <1>1, Lists, RetryTyped DEF TypeOK
<1> QED BY <1>1, <1>2 DEF Read, TypeOK

\* What a processor does, when the mutation it handles is one.
LEMMA ProcessTyped ==
  ASSUME TypeOK, NEW t \in Tab, TabOK(t),
         \/ MarkAllPending(t) \/ ListPending(t) \/ ListAgain(t) \/ Take(t) \/ Carry(t)
         \/ Persist(t) \/ Complete(t) \/ PutBack(t) \/ GiveUp(t) \/ EndSync(t)
         \/ Fails(t) \/ Conflicts(t) \/ \E m \in Mutation : Enqueue(t, m)
  PROVE  TypeOK'
<1> USE DEF inQueue, requests, tabs
<1>0. /\ proc \in [Tab -> Processor] /\ proc[t] \in Processor
      /\ proc[t].todo \subseteq Mutation /\ proc[t].done \subseteq Mutation
      /\ \A m \in proc[t].todo : m \in Mutation
      /\ proc[t].pc \in AtWork => proc[t].cur \in Mutation
  BY DEF TypeOK, Processor, TabOK
<1>1. ASSUME NEW pc \in Location PROVE [proc[t] EXCEPT !.pc = pc] \in Processor
  BY <1>0, Moves
<1>2. CASE MarkAllPending(t)
  <2>1. proc' \in [Tab -> Processor]
    BY <1>0, <1>1, <1>2 DEF MarkAllPending, Goto, Location
  <2> QED BY <1>2, <2>1 DEF MarkAllPending, ids, fates, bounds, TypeOK
<1>3. CASE ListPending(t)
  <2>1. proc' \in [Tab -> Processor] /\ contested' \subseteq Mutation
    BY <1>0, <1>1, <1>3, ReadTyped DEF ListPending, Goto, Location, TypeOK
  <2> QED BY <1>3, <2>1, InitializeTyped DEF ListPending, rows, fates, bounds, TypeOK
<1>4. CASE ListAgain(t)
  <2>1. Pending \subseteq Mutation /\ "giving_up" \in Location
    BY DEF Pending, Location
  <2>2. [proc[t] EXCEPT !.pc = "giving_up", !.todo = Pending] \in Processor
    BY <1>0, <2>1, Lists
  <2>3. proc' \in [Tab -> Processor] /\ contested' \subseteq Mutation
    BY <1>0, <1>1, <1>4, <2>2, ReadTyped DEF ListAgain, Goto, Location, TypeOK
  <2> QED BY <1>4, <2>3 DEF ListAgain, rows, ids, fates, bounds, TypeOK
<1>5. CASE Take(t)
  <2> DEFINE able == {m \in proc[t].todo : canProcessMutation(t, m)}
  <2>1. {"relisting", "sending"} \subseteq Location
    BY DEF Location
  <2>2. CASE stopping[t] \/ able = {}
    <3>1. [proc[t] EXCEPT !.pc = "relisting", !.todo = {}] \in Processor
      BY <1>0, <2>1, Lists
    <3> QED BY <1>0, <1>5, <2>2, <3>1 DEF Take, ids, fates, bounds, TypeOK
  <2>3. ASSUME NEW m \in First(able), Write(m, "in_progress"),
               proc' = [proc EXCEPT ![t] =
                 [@ EXCEPT !.pc = "sending", !.cur = m, !.tried = TRUE,
                           !.todo = Behind(t, m)]]
        PROVE  TypeOK'
    <3>1. m \in Mutation /\ Behind(t, m) \subseteq Mutation
      BY <1>0, <2>3 DEF First, Behind
    <3>2. [proc[t] EXCEPT !.pc = "sending", !.cur = m, !.tried = TRUE,
                          !.todo = Behind(t, m)] \in Processor
      BY <1>0, <2>1, <3>1, Lists
    <3>3. proc' \in [Tab -> Processor]
      BY <1>0, <2>3, <3>2
    <3>4. status' \in [Mutation -> {"absent", "pending", "offline_queued", "in_progress",
                                    "completed", "failed", "gone"}]
      BY <2>3, WriteTyped
    <3> QED BY <1>5, <3>3, <3>4 DEF Take, ids, fates, bounds, TypeOK
  <2> QED BY <1>5, <2>2, <2>3 DEF Take
<1>6. CASE Carry(t)
  <2>1. proc' \in [Tab -> Processor]
    BY <1>0, <1>1, <1>6 DEF Carry, Goto, Location
  <2>2. applied' \in [Mutation -> Nat]
    BY <1>0, <1>6 DEF Carry, At, AtWork, TypeOK
  <2> QED BY <1>6, <2>1, <2>2 DEF Carry, rows, ids, bounds, TypeOK
<1>7. CASE Persist(t)
  <2>1. proc' \in [Tab -> Processor]
    BY <1>0, <1>1, <1>7 DEF Persist, Goto, Location
  <2>2. known' \in [Tab -> SUBSET Creates] /\ mapped' \subseteq Creates
    BY <1>7 DEF Persist, TypeOK
  <2>3. split' \subseteq Mutation
    BY <1>7, <2>2, MutationAssumption DEF Persist, TypeOK
  <2> QED BY <1>7, <2>1, <2>2, <2>3 DEF Persist, rows, fates, bounds, TypeOK
<1>8. CASE Complete(t)
  <2>1. proc[t].done \cup {proc[t].cur} \subseteq Mutation /\ "taking" \in Location
    BY <1>0, <1>8 DEF Complete, At, AtWork, Location
  <2>2. [NextOne(t) EXCEPT !.done = @ \cup {proc[t].cur}, !.won = TRUE]
          = [[proc[t] EXCEPT !.pc = "taking", !.cur = NoMutation]
               EXCEPT !.done = proc[t].done \cup {proc[t].cur}, !.won = TRUE]
    BY <1>0 DEF NextOne, Processor
  <2>3. [NextOne(t) EXCEPT !.done = @ \cup {proc[t].cur}, !.won = TRUE] \in Processor
    <3>1. [[proc[t] EXCEPT !.pc = "taking", !.cur = NoMutation]
             EXCEPT !.done = proc[t].done \cup {proc[t].cur}, !.won = TRUE] \in Processor
      BY <1>0, <2>1, Lists
    <3> QED BY <2>2, <3>1
  <2>4. proc' \in [Tab -> Processor]
    BY <1>0, <1>8, <2>3 DEF Complete
  <2> QED BY <1>8, <2>4, WriteTyped DEF Complete, ids, fates, bounds, TypeOK
<1>9. CASE PutBack(t)
  <2>1. NextOne(t) \in Processor
    BY <1>0, Moves DEF NextOne, Location
  <2>2. /\ proc[t].cur \in Mutation /\ Failures(t) \in 0..faults
        /\ AfterFailure(Failures(t)) \in {"pending", "failed"}
    <3>1. proc[t].cur \in Mutation /\ proc[t].seen[proc[t].cur] \in Nat
          /\ proc[t].seen[proc[t].cur] < faults /\ faults \in Nat
      BY <1>0, <1>9, BoundAssumption DEF PutBack, AtWork, TabOK, Processor, TypeOK
    <3> QED BY <3>1 DEF Failures, AfterFailure
  <2>3. retry' \in [Mutation -> 0..faults]
    BY <1>9, <2>2 DEF PutBack, TypeOK
  <2>4. status' \in [Mutation -> {"absent", "pending", "offline_queued", "in_progress",
                                  "completed", "failed", "gone"}]
    BY <1>9, <2>2, WriteTyped DEF PutBack
  <2> QED BY <1>0, <1>9, <2>1, <2>3, <2>4 DEF PutBack, ids, fates, bounds, TypeOK
<1>10. CASE GiveUp(t)
  <2>1. PICK m \in First(proc[t].todo) :
          /\ Write(m, "failed")
          /\ proc' = [proc EXCEPT ![t].todo = @ \ {m},
                                  ![t].pc = IF proc[t].todo = {m} THEN "ending" ELSE @]
    BY <1>10 DEF GiveUp
  <2>2. proc[t].todo \ {m} \subseteq Mutation
        /\ (IF proc[t].todo = {m} THEN "ending" ELSE proc[t].pc) \in Location
    BY <1>0 DEF Processor, Location
  <2>3. [proc[t] EXCEPT !.todo = proc[t].todo \ {m},
                        !.pc = IF proc[t].todo = {m} THEN "ending" ELSE proc[t].pc]
          \in Processor
    BY <1>0, <2>2, Lists
  <2>4. proc' \in [Tab -> Processor]
    BY <1>0, <2>1, <2>3 DEF Processor
  <2> QED BY <1>10, <2>1, <2>4, WriteTyped DEF GiveUp, ids, fates, bounds, TypeOK
<1>11. CASE EndSync(t)
  BY <1>11, IdleTyped DEF EndSync, ids, fates, bounds, TypeOK
<1>12. CASE Fails(t)
  <2>1. [proc[t] EXCEPT !.pc = "failing", !.seen = retry] \in Processor
    BY <1>0, Reads, RetryTyped DEF Location
  <2>2. proc' \in [Tab -> Processor]
    BY <1>0, <1>12, <2>1 DEF Fails
  <2> QED BY <1>12, <2>2, BoundsTyped DEF Fails, rows, ids, TypeOK
<1>13. CASE Conflicts(t)
  <2>1. proc' \in [Tab -> Processor]
    BY <1>0, <1>1, <1>13 DEF Conflicts, Goto, Location
  <2> QED BY <1>13, <2>1, BoundsTyped DEF Conflicts, rows, ids, fates, TypeOK
<1>14. ASSUME NEW m \in Mutation, Enqueue(t, m) PROVE TypeOK'
  <2>1. 1..(m - 1) \subseteq Mutation
    BY MutationAssumption DEF Mutation
  <2>2. /\ dependsOn' \in [Mutation -> SUBSET Mutation]
        /\ status' \in [Mutation -> {"absent", "pending", "offline_queued", "in_progress",
                                     "completed", "failed", "gone"}]
    BY <1>14, <2>1 DEF Enqueue, TypeOK
  <2>3. Initialize(t) /\ UNCHANGED <<retry, requests, tabs, fates, stopping, proc, due, contested,
                                     stranded, bounds>>
    BY <1>14 DEF Enqueue
  <2> QED BY <2>2, <2>3, InitializeTyped DEF fates, bounds, TypeOK
<1> QED BY <1>2, <1>3, <1>4, <1>5, <1>6, <1>7, <1>8, <1>9, <1>10, <1>11, <1>12, <1>13, <1>14

-----------------------------------------------------------------------------
(* What most steps leave alone *)

\* The step of tab t turns its processor into this.
Becomes(t, pc, cur, todo, done, seen) ==
  /\ proc'[t].pc = pc /\ proc'[t].cur = cur /\ proc'[t].todo = todo
  /\ proc'[t].done = done /\ proc'[t].seen = seen
  /\ \A u \in Tab \ {t} : proc'[u] = proc[u]

\* What no step takes back.
Grows ==
  /\ \A m \in Mutation :
       /\ status[m] # "absent" => status'[m] # "absent" /\ dependsOn'[m] = dependsOn[m]
       /\ applied[m] <= applied'[m]
  /\ mapped \cup split \subseteq mapped' \cup split' /\ dropped \subseteq dropped'
  /\ faults <= faults'

\* A tab whose processor does not move keeps what it relies on.
LEMMA OthersKeep ==
  ASSUME TypeOK, TypeOK', Grows, NEW u \in Tab, TabOK(u),
         proc'[u] = proc[u],
         proc[u].pc \notin {"idle", "marking", "listing"} => loaded'[u]
  PROVE  TabOK(u)'
<1>1. /\ proc[u].todo \subseteq Mutation /\ proc[u].done \subseteq Mutation
      /\ proc[u].cur # NoMutation => proc[u].cur \in Mutation
      /\ proc[u].seen \in [Mutation -> Nat]
  BY DEF TypeOK, Processor
<1>2. /\ applied \in [Mutation -> Nat] /\ applied' \in [Mutation -> Nat]
      /\ faults \in Nat /\ faults' \in Nat
  BY BoundAssumption DEF TypeOK
<1>3. \A m \in Mutation : applied[m] > 0 => applied'[m] > 0
  BY <1>2 DEF Grows
<1> QED BY <1>1, <1>2, <1>3 DEF Grows, TabOK, AtWork

\* A row that is written to no end, or stays in progress where it is handled.
LEMMA RowsKeep ==
  ASSUME TypeOK, TypeOK', Grows, NEW m \in Mutation, RowOK(m),
         m \in Finished' => m \in Finished,
         status'[m] = "absent" => applied'[m] = applied[m],
         status'[m] = "in_progress" =>
           \/ status[m] = "in_progress" /\ m \in stranded'
           \/ /\ status[m] = "in_progress" /\ stranded \subseteq stranded'
              /\ \A t \in Tab : proc[t].cur = m => proc'[t].cur = m
  PROVE  RowOK(m)'
<1>1. applied \in [Mutation -> Nat] /\ applied' \in [Mutation -> Nat]
  BY DEF TypeOK
<1>2. status'[m] = "absent" => status[m] = "absent"
  BY DEF Grows
<1> QED BY <1>1, <1>2 DEF Grows, RowOK

\* No tab gets to the mutation that did not have it, and it is not carried out.
LEMMA OnceKeeps ==
  ASSUME NEW m \in Mutation, RowOK(m), OnceOK(m), \A t \in Tab : TabOK(t),
         applied'[m] = applied[m],
         unanswered \subseteq unanswered', contested \subseteq contested',
         m \notin unanswered' \cup contested' /\ status'[m] \in Waiting =>
           status[m] \in Waiting \cup {"absent"},
         \A t \in Tab :
           /\ m \in proc'[t].todo /\ proc'[t].pc # "giving_up" =>
                m \in proc[t].todo /\ proc[t].pc # "giving_up"
           /\ proc'[t].cur = m => proc[t].cur = m
           /\ /\ m \notin unanswered'
              /\ proc'[t].cur = m /\ proc'[t].pc \in {"sending", "failing", "requeueing"}
              => proc[t].pc \in {"sending", "failing", "requeueing"}
  PROVE  OnceOK(m)'
<1>0. m # NoMutation
  BY MutationAssumption DEF Mutation, NoMutation
<1> SUFFICES ASSUME m \notin unanswered' \cup contested' PROVE OnceOK(m)'
  BY DEF OnceOK
<1>1. m \notin unanswered \cup contested
  OBVIOUS
<1>2. status'[m] \in Waiting => applied'[m] = 0
  BY <1>1 DEF OnceOK, RowOK
<1>3. \A t \in Tab : proc'[t].cur = m => status'[m] \notin Waiting
  BY <1>0, <1>1 DEF OnceOK, TabOK
<1>4. \A t \in Tab : Engaged(t, m)' => Engaged(t, m)
  BY DEF Engaged
<1> QED BY <1>1, <1>2, <1>3, <1>4 DEF OnceOK

\* The table of mappings stays, and who reads it knows it.
LEMMA MapsKeep ==
  ASSUME MapsOK, UNCHANGED <<mapped, split>>, mapped \subseteq Creates,
         \A t \in Tab : loaded'[t] =>
           \/ loaded[t] /\ known'[t] = known[t]
           \/ known'[t] = mapped
  PROVE  MapsOK'
BY DEF MapsOK

-----------------------------------------------------------------------------
(* Between syncs, and around them *)

\* The places of a processor that handles no mutation and has no list.
AtRest == {"idle", "marking", "listing", "relisting", "ending"}

\* Rows change groups, and one processor moves where it rests, or is thrown away
\* with what it had in progress.
Rests(t) ==
  /\ Grows
  /\ UNCHANGED <<mapped, split, applied, unanswered, contested>>
  /\ stranded \subseteq stranded'
  /\ \A m \in Mutation :
       \/ status'[m] = status[m] \/ {status[m], status'[m]} \subseteq Waiting
       \/ {status[m], status'[m]} \subseteq {"completed", "gone"}
       \/ status[m] = "absent" /\ status'[m] = "pending"
  /\ \/ proc' = proc
     \/ \E pc \in AtRest, done \in {{}, proc[t].done}, seen \in {proc[t].seen, Idle.seen} :
          Becomes(t, pc, NoMutation, {}, done, seen)
  /\ \A u \in Tab \ {t} : loaded'[u] = loaded[u] /\ known'[u] = known[u]
  /\ proc'[t].pc \notin {"idle", "marking", "listing"} => loaded'[t]
  /\ loaded'[t] => \/ loaded[t] /\ known'[t] = known[t]
                   \/ known'[t] = mapped
  /\ \A m \in Mutation : m = proc[t].cur /\ proc'[t].cur # m /\ status[m] = "in_progress"
                         => m \in stranded'

LEMMA RestKeeps ==
  ASSUME IInv, TypeOK', NEW t \in Tab, Rests(t)
  PROVE  IInv'
<1> USE DEF Rests
<1>0. /\ TypeOK /\ MapsOK /\ (\A u \in Tab : TabOK(u))
      /\ \A m \in Mutation : RowOK(m) /\ OnceOK(m)
  BY DEF IInv
<1>m. \A m \in Mutation : m # NoMutation
  BY MutationAssumption DEF Mutation, NoMutation
<1>1. ASSUME NEW u \in Tab PROVE TabOK(u)'
  <2>1. CASE proc'[u] = proc[u]
    BY <1>0, <2>1, OthersKeep DEF TabOK
  <2>2. CASE proc'[u] # proc[u]
    <3>1. PICK pc \in AtRest, done \in {{}, proc[t].done}, seen \in {proc[t].seen, Idle.seen} :
            Becomes(t, pc, NoMutation, {}, done, seen)
      BY <2>2
    <3>2. u = t
      BY <2>2, <3>1 DEF Becomes
    <3>3. /\ \A k \in done : applied'[k] > 0
          /\ \A m \in Mutation : seen[m] <= faults'
      <4>1. faults \in Nat /\ faults' \in Nat /\ proc[t].seen \in [Mutation -> Nat]
        BY <1>0, BoundAssumption DEF TypeOK, Processor
      <4> QED BY <1>0, <4>1 DEF TabOK, Grows, Idle
    <3> QED BY <3>1, <3>2, <3>3 DEF Becomes, TabOK, AtWork, AtRest
  <2> QED BY <2>1, <2>2
<1>2. ASSUME NEW m \in Mutation PROVE RowOK(m)'
  <2>1. status'[m] = "in_progress" =>
           \/ status[m] = "in_progress" /\ m \in stranded'
           \/ /\ status[m] = "in_progress" /\ stranded \subseteq stranded'
              /\ \A u \in Tab : proc[u].cur = m => proc'[u].cur = m
    BY DEF Becomes, Waiting
  <2> QED BY <1>0, <2>1, RowsKeep DEF Finished, Waiting, Grows
<1>3. ASSUME NEW m \in Mutation PROVE OnceOK(m)'
  <2>1. status'[m] \in Waiting => status[m] \in Waiting \cup {"absent"}
    BY DEF Waiting
  <2>2. ASSUME NEW u \in Tab
        PROVE  /\ m \in proc'[u].todo /\ proc'[u].pc # "giving_up" =>
                    m \in proc[u].todo /\ proc[u].pc # "giving_up"
               /\ proc'[u].cur = m => proc'[u].cur = proc[u].cur /\ proc'[u].pc = proc[u].pc
    BY <1>m DEF Becomes
  <2> QED BY <1>0, <2>1, <2>2, OnceKeeps
<1>4. MapsOK'
  <2>1. mapped \subseteq Creates
    BY <1>0 DEF TypeOK
  <2>2. \A u \in Tab : loaded'[u] => \/ loaded[u] /\ known'[u] = known[u]
                                     \/ known'[u] = mapped
    OBVIOUS
  <2> QED BY <1>0, <2>1, <2>2, MapsKeep
<1> QED BY <1>1, <1>2, <1>3, <1>4 DEF IInv

LEMMA MovesTo ==
  ASSUME TypeOK, NEW t \in Tab, NEW pc, proc' = [proc EXCEPT ![t].pc = pc]
  PROVE  Becomes(t, pc, proc[t].cur, proc[t].todo, proc[t].done, proc[t].seen)
BY DEF TypeOK, Processor, Becomes

\* A sync that is asked for begins in an idle processor, if at all.
LEMMA SyncRests ==
  ASSUME TypeOK, NEW t \in Tab, TabOK(t),
         \/ proc' = proc
         \/ proc[t].pc = "idle" /\ proc' = [proc EXCEPT ![t].pc = "marking"],
         UNCHANGED <<status, dependsOn, mapped, split, applied, unanswered, dropped,
                     contested, stranded, loaded, known>>,
         faults <= faults'
  PROVE  Rests(t)
<1>1. Grows
  BY DEF Grows, TypeOK
<1>2. \/ proc' = proc
      \/ Becomes(t, "marking", NoMutation, {}, proc[t].done, proc[t].seen)
  <2>1. CASE proc[t].pc = "idle" /\ proc' = [proc EXCEPT ![t].pc = "marking"]
    <3>1. proc[t].cur = NoMutation /\ proc[t].todo = {}
      BY <2>1 DEF TabOK, AtWork
    <3> QED BY <2>1, <3>1, MovesTo
  <2> QED BY <2>1
<1>3. proc'[t].cur = proc[t].cur /\ (proc'[t].pc = "marking" \/ proc'[t].pc = proc[t].pc)
  BY <1>2 DEF Becomes, TabOK, AtWork
<1> QED BY <1>1, <1>2, <1>3 DEF Rests, TabOK, AtRest

LEMMA AskingRests ==
  ASSUME TypeOK, NEW t \in Tab, TabOK(t),
         \/ DebounceFires(t) \/ TimerFires(t) \/ SyncByHand(t) \/ Elected(t)
         \/ OnlineHeard(t) \/ GoOnline(t) \/ Start(t) \/ Stop(t)
  PROVE  Rests(t)
<1>1. \/ proc' = proc
      \/ proc[t].pc = "idle" /\ proc' = [proc EXCEPT ![t].pc = "marking"]
  BY DEF DebounceFires, TimerFires, SyncByHand, Elected, OnlineHeard, GoOnline, Start,
         Stop, Sync
<1>2. UNCHANGED <<status, dependsOn, mapped, split, applied, unanswered, dropped,
                  contested, stranded, loaded, known>>
  BY DEF DebounceFires, TimerFires, SyncByHand, Elected, OnlineHeard, GoOnline, Start,
         Stop, rows, ids, fates
<1>3. faults <= faults'
  <2>1. faults' = faults
    BY DEF DebounceFires, TimerFires, SyncByHand, Elected, OnlineHeard, GoOnline, Start,
           Stop, bounds, Call
  <2>2. faults \in Nat
    BY BoundAssumption DEF TypeOK
  <2> QED BY <2>1, <2>2
<1> QED BY <1>1, <1>2, <1>3, SyncRests

\* The steps that write rows in groups, or none.
LEMMA GroupsRest ==
  ASSUME TypeOK, NEW t \in Tab, TabOK(t),
         \/ GoOffline(t) \/ Close(t) \/ MarkAllPending(t) \/ EndSync(t)
         \/ \E m \in Mutation : Enqueue(t, m)
  PROVE  Rests(t)
<1> USE DEF inQueue, ids, fates, bounds
<1>0. /\ faults \in Nat /\ applied \in [Mutation -> Nat]
      /\ status \in [Mutation -> {"absent", "pending", "offline_queued", "in_progress",
                                  "completed", "failed", "gone"}]
      /\ proc \in [Tab -> Processor] /\ dependsOn \in [Mutation -> SUBSET Mutation]
      /\ loaded \in [Tab -> BOOLEAN] /\ known \in [Tab -> SUBSET Creates]
  BY BoundAssumption DEF TypeOK
<1>1. CASE GoOffline(t)
  <2>1. Grows
    BY <1>0, <1>1 DEF GoOffline, Fault, Grows
  <2> QED BY <1>0, <1>1, <2>1 DEF GoOffline, Rests, Waiting, TabOK
<1>2. CASE Close(t)
  <2>1. Grows
    BY <1>0, <1>2 DEF Close, Fault, Grows, rows
  <2>2. Becomes(t, "idle", NoMutation, {}, {}, Idle.seen)
    BY <1>0, <1>2 DEF Close, Becomes, Idle
  <2> QED BY <1>0, <1>2, <2>1, <2>2 DEF Close, Rests, rows, AtRest, Becomes
<1>3. CASE MarkAllPending(t)
  <2>1. Grows
    BY <1>0, <1>3 DEF MarkAllPending, Grows
  <2>2. proc[t].cur = NoMutation /\ proc[t].todo = {}
    BY <1>3 DEF MarkAllPending, At, TabOK, AtWork
  <2>3. Becomes(t, "listing", NoMutation, {}, proc[t].done, proc[t].seen)
    BY <1>3, <2>2, MovesTo DEF MarkAllPending, Goto
  <2> QED BY <1>0, <1>3, <2>1, <2>2, <2>3 DEF MarkAllPending, Rests, Waiting, AtRest, Becomes
<1>4. CASE EndSync(t)
  <2>1. Grows
    BY <1>0, <1>4 DEF EndSync, Grows
  <2>2. proc[t].cur = NoMutation
    BY <1>4 DEF EndSync, At, TabOK, AtWork
  <2>3. Becomes(t, "idle", NoMutation, {}, {}, Idle.seen)
    BY <1>0, <1>4 DEF EndSync, Becomes, Idle
  <2> QED BY <1>0, <1>4, <2>1, <2>2, <2>3 DEF EndSync, Rests, AtRest, Becomes
<1>5. ASSUME NEW m \in Mutation, Enqueue(t, m) PROVE Rests(t)
  <2>1. Grows
    BY <1>0, <1>5 DEF Enqueue, Initialize, Grows
  <2> QED BY <1>0, <1>5, <2>1 DEF Enqueue, Initialize, Rests
<1> QED BY <1>1, <1>2, <1>3, <1>4, <1>5

LEMMA ListEnds ==
  ASSUME TypeOK, NEW t \in Tab, TabOK(t), ListPending(t) \/ ListAgain(t), Goto(t, "ending"),
         UNCHANGED contested
  PROVE  Rests(t)
<1> USE DEF inQueue, ids, fates, bounds, rows
<1>1. Grows
  BY BoundAssumption DEF ListPending, ListAgain, Initialize, Grows, TypeOK
<1>2. /\ proc[t].cur = NoMutation /\ proc[t].todo = {}
      /\ proc[t].pc = "relisting" => loaded[t]
  BY DEF ListPending, ListAgain, At, TabOK, AtWork
<1>3. Becomes(t, "ending", NoMutation, {}, proc[t].done, proc[t].seen)
  BY <1>2, MovesTo DEF Goto
<1>4. /\ loaded'[t] /\ ((loaded[t] /\ known'[t] = known[t]) \/ known'[t] = mapped)
      /\ \A u \in Tab \ {t} : loaded'[u] = loaded[u] /\ known'[u] = known[u]
  BY <1>2 DEF ListPending, ListAgain, At, Initialize, TypeOK
<1> QED BY <1>1, <1>2, <1>3, <1>4 DEF ListPending, ListAgain, Initialize, Rests, AtRest, Becomes

-----------------------------------------------------------------------------
(* The processor *)

LEMMA StepKeeps ==
  ASSUME IInv, TypeOK', Grows, NEW t \in Tab,
         \A u \in Tab \ {t} : proc'[u] = proc[u] /\ loaded'[u] = loaded[u],
         TabOK(t)', \A m \in Mutation : RowOK(m)' /\ OnceOK(m)', MapsOK'
  PROVE  IInv'
<1>1. ASSUME NEW u \in Tab PROVE TabOK(u)'
  <2>1. CASE u = t
    BY <2>1
  <2>2. CASE u # t
    BY <2>2, OthersKeep DEF IInv, TabOK
  <2> QED BY <2>1, <2>2
<1> QED BY <1>1 DEF IInv

\* A step that leaves the rows and the server alone.
LEMMA RowsStay ==
  ASSUME IInv, TypeOK',
         UNCHANGED <<status, dependsOn, mapped, split, applied, dropped, stranded>>, faults <= faults',
         \A m \in Mutation : \A t \in Tab : proc[t].cur = m => proc'[t].cur = m
  PROVE  Grows /\ \A m \in Mutation : RowOK(m)'
<1>0. TypeOK /\ \A m \in Mutation : RowOK(m)
  BY DEF IInv
<1>1. Grows
  BY <1>0 DEF Grows, TypeOK
<1> QED BY <1>0, <1>1, RowsKeep DEF Finished

\* A batch is read: who has a mutation of it too makes it contested.
LEMMA ReadKeeps ==
  ASSUME IInv, TypeOK', NEW t \in Tab, Read(t, Batch), loaded'[t], MapsOK',
         proc[t].cur = NoMutation,
         UNCHANGED <<status, dependsOn, mapped, split, applied, unanswered, dropped, stranded,
                     faults>>,
         \A u \in Tab \ {t} : loaded'[u] = loaded[u]
  PROVE  IInv'
<1>0. /\ TypeOK /\ (\A u \in Tab : TabOK(u))
      /\ \A m \in Mutation : m # NoMutation /\ m > NoMutation
      /\ \A m \in Mutation : RowOK(m) /\ OnceOK(m)
  BY MutationAssumption DEF IInv, Mutation, NoMutation
<1>1. Becomes(t, "taking", NoMutation, Batch, proc[t].done, retry)
  BY <1>0 DEF Read, Becomes, TypeOK, Processor
<1>2. Batch \subseteq Pending /\ Pending = {m \in Mutation : status[m] \in Waiting}
  BY DEF Batch, Pending
<1>3. Grows /\ \A m \in Mutation : RowOK(m)'
  <2>1. faults <= faults'
    BY <1>0, BoundAssumption DEF TypeOK
  <2> QED BY <1>0, <1>1, <2>1, RowsStay DEF Becomes
<1>4. TabOK(t)'
  <2>1. /\ \A k \in Batch : NoMutation < k /\ status'[k] # "absent"
        /\ \A m \in Mutation : retry[m] <= faults'
    <3>1. status' = status /\ faults' = faults
      OBVIOUS
    <3>2. \A k \in Batch : k \in Mutation /\ status[k] \in Waiting
      BY <1>2
    <3>3. \A k \in Batch : NoMutation < k /\ status[k] # "absent"
      BY <1>0, <3>2 DEF Waiting
    <3>4. \A m \in Mutation : retry[m] <= faults
      BY <1>0, BoundAssumption DEF TypeOK
    <3> QED BY <3>1, <3>3, <3>4
  <2> QED BY <1>0, <1>1, <2>1 DEF Becomes, TabOK, AtWork
<1>5. ASSUME NEW m \in Mutation PROVE OnceOK(m)'
  <2> SUFFICES ASSUME m \notin unanswered' \cup contested' PROVE OnceOK(m)'
    BY DEF OnceOK
  <2>1. m \notin unanswered \cup contested
        /\ (m \in Pending => \A u \in Tab \ {t} : m \notin proc[u].todo)
    BY DEF Read
  <2>2. m \in Batch => applied[m] = 0 /\ \A u \in Tab \ {t} : ~Engaged(u, m)
    BY <1>0, <1>2, <2>1 DEF OnceOK, Engaged
  <2>3. \A u \in Tab \ {t} : Engaged(u, m)' <=> Engaged(u, m)
    BY <1>1 DEF Becomes, Engaged
  <2>4. Engaged(t, m)' => m \in Batch
    BY <1>0, <1>1 DEF Becomes, Engaged
  <2>5. \A u, v \in Tab : Engaged(u, m)' /\ Engaged(v, m)' => u = v
    BY <1>0, <2>1, <2>2, <2>3, <2>4 DEF OnceOK
  <2>6. /\ applied'[m] <= 1 /\ (status'[m] \in Waiting => applied'[m] = 0)
        /\ \A u \in Tab \ {t} :
             /\ m \in proc'[u].todo /\ proc'[u].pc # "giving_up" => applied'[m] = 0
             /\ proc'[u].cur = m => status'[m] \notin Waiting
             /\ proc'[u].cur = m /\ proc'[u].pc \in {"sending", "failing", "requeueing"} =>
                  applied'[m] = 0
    BY <1>0, <1>1, <2>1 DEF OnceOK, Becomes
  <2> QED BY <1>0, <1>1, <2>2, <2>5, <2>6 DEF OnceOK, Becomes
<1> QED BY <1>1, <1>3, <1>4, <1>5, StepKeeps DEF Becomes

LEMMA ListsKeep ==
  ASSUME IInv, TypeOK', NEW t \in Tab, ListPending(t) \/ ListAgain(t)
  PROVE  IInv'
<1> USE DEF inQueue, ids, fates, bounds, rows
<1>0. /\ TypeOK /\ MapsOK /\ (\A u \in Tab : TabOK(u))
      /\ \A m \in Mutation : RowOK(m) /\ OnceOK(m)
  BY DEF IInv
<1>1. /\ proc[t].cur = NoMutation /\ proc[t].todo = {}
      /\ proc[t].pc = "relisting" => loaded[t]
  BY <1>0 DEF ListPending, ListAgain, At, TabOK, AtWork
<1>2. CASE Goto(t, "ending") /\ UNCHANGED contested
  BY <1>0, <1>2, ListEnds, RestKeeps
<1>3. MapsOK'
  BY <1>0, MapsKeep DEF ListPending, ListAgain, Initialize, TypeOK
<1>4. CASE Read(t, Batch)
  BY <1>0, <1>1, <1>3, <1>4, ReadKeeps DEF ListPending, ListAgain, At, Initialize, TypeOK
<1>5. CASE /\ ListAgain(t) /\ Pending # {} /\ UNCHANGED contested
           /\ proc' = [proc EXCEPT ![t].pc = "giving_up", ![t].todo = Pending]
  <2>1. Becomes(t, "giving_up", NoMutation, Pending, proc[t].done, proc[t].seen)
    BY <1>0, <1>1, <1>5 DEF TypeOK, Processor, Becomes
  <2>2. Grows /\ \A m \in Mutation : RowOK(m)'
    <3>1. faults <= faults'
      BY <1>0, <1>5, BoundAssumption DEF ListAgain, TypeOK
    <3> QED BY <1>1, <1>5, <2>1, <3>1, RowsStay DEF ListAgain, Becomes
  <2>3. TabOK(t)'
    <3>1. \A k \in Pending : NoMutation < k /\ status'[k] # "absent"
      BY <1>5, MutationAssumption DEF ListAgain, Pending, Waiting, Mutation, NoMutation
    <3>2. loaded'[t] /\ applied' = applied /\ faults' = faults
      BY <1>1, <1>5 DEF ListAgain, At
    <3>3. /\ proc'[t].pc = "giving_up" /\ proc'[t].cur = NoMutation
          /\ proc'[t].todo = Pending /\ proc'[t].done = proc[t].done
          /\ proc'[t].seen = proc[t].seen
      BY <2>1 DEF Becomes
    <3>4. /\ \A k \in proc'[t].done : applied'[k] > 0
          /\ \A m \in Mutation : proc'[t].seen[m] <= faults'
      BY <1>0, <3>2, <3>3 DEF TabOK
    <3> QED BY <1>5, <3>1, <3>2, <3>3, <3>4 DEF TabOK, AtWork
  <2>4. ASSUME NEW m \in Mutation PROVE OnceOK(m)'
    <3>1. \A u \in Tab :
            /\ m \in proc'[u].todo /\ proc'[u].pc # "giving_up" =>
                 m \in proc[u].todo /\ proc[u].pc # "giving_up"
            /\ proc'[u].cur = m => proc[u].cur = m
            /\ proc'[u].pc \in {"sending", "failing", "requeueing"} => proc'[u] = proc[u]
      BY <1>1, <2>1 DEF Becomes
    <3>2. UNCHANGED <<status, applied, unanswered, contested>>
      BY <1>5 DEF ListAgain
    <3> QED BY <1>0, <3>1, <3>2, OnceKeeps
  <2> QED BY <1>3, <1>5, <2>1, <2>2, <2>3, <2>4, StepKeeps DEF ListAgain, Becomes
<1> QED BY <1>2, <1>4, <1>5 DEF ListPending, ListAgain

\* What a row that is written stands at: it stays deleted.
LEMMA WriteSets ==
  ASSUME TypeOK, NEW m \in Mutation, NEW s, Write(m, s)
  PROVE  /\ status'[m] = IF status[m] = "gone" THEN "gone" ELSE s
         /\ \A k \in Mutation \ {m} : status'[k] = status[k]
BY DEF Write, TypeOK

LEMMA Facts ==
  ASSUME IInv, NEW t \in Tab
  PROVE  /\ TypeOK /\ MapsOK /\ (\A u \in Tab : TabOK(u))
         /\ \A m \in Mutation : m # NoMutation /\ RowOK(m) /\ OnceOK(m)
         /\ faults \in Nat /\ proc[t].todo \subseteq Mutation
         /\ proc[t].done \subseteq Mutation
<1>1. /\ TypeOK /\ MapsOK /\ (\A u \in Tab : TabOK(u))
      /\ \A m \in Mutation : RowOK(m) /\ OnceOK(m)
  BY DEF IInv
<1>2. \A m \in Mutation : m # NoMutation
  BY MutationAssumption DEF Mutation, NoMutation
<1>3. faults \in Nat /\ proc[t] \in Processor
  BY <1>1, BoundAssumption DEF TypeOK
<1> QED BY <1>1, <1>2, <1>3 DEF Processor

\* The mutation that a processor takes was pending when it read it, and no other
\* tab has it: it has not been carried out.
LEMMA TakeKeeps ==
  ASSUME IInv, TypeOK', NEW t \in Tab, Take(t)
  PROVE  IInv'
<1> USE DEF inQueue, ids, fates, bounds
<1>0. /\ TypeOK /\ MapsOK /\ (\A u \in Tab : TabOK(u))
      /\ \A m \in Mutation : m # NoMutation /\ RowOK(m) /\ OnceOK(m)
      /\ faults \in Nat /\ proc[t].todo \subseteq Mutation /\ proc[t].done \subseteq Mutation
  BY Facts
<1>1. /\ proc[t].pc = "taking" /\ proc[t].cur = NoMutation /\ loaded[t]
      /\ UNCHANGED <<dependsOn, mapped, split, loaded, known, applied, unanswered,
                     dropped, contested, stranded, faults>>
  BY <1>0 DEF Take, At, TabOK, AtWork
<1>2. CASE /\ proc' = [proc EXCEPT ![t].pc = "relisting", ![t].todo = {}]
           /\ UNCHANGED status
  <2>1. Becomes(t, "relisting", NoMutation, {}, proc[t].done, proc[t].seen)
    BY <1>0, <1>1, <1>2 DEF TypeOK, Processor, Becomes
  <2>2. Grows
    BY <1>0, <1>1, <1>2 DEF Grows, TypeOK
  <2> QED BY <1>0, <1>1, <1>2, <2>1, <2>2, RestKeeps DEF Rests, AtRest, Becomes
<1>3. ASSUME NEW m \in First({k \in proc[t].todo : canProcessMutation(t, k)}),
             Write(m, "in_progress"),
             proc' = [proc EXCEPT ![t] = [@ EXCEPT !.pc = "sending", !.cur = m,
                                                 !.tried = TRUE, !.todo = Behind(t, m)]]
      PROVE  IInv'
  <2>0. m \in proc[t].todo /\ m \in Mutation /\ dependsOn[m] \subseteq proc[t].done
    BY <1>0 DEF First, canProcessMutation
  <2>1. Becomes(t, "sending", m, Behind(t, m), proc[t].done, proc[t].seen)
    BY <1>0, <1>3 DEF TypeOK, Processor, Becomes
  <2>2. /\ status'[m] \in {"gone", "in_progress"}
        /\ status'[m] = "gone" => status[m] = "gone"
        /\ \A k \in Mutation \ {m} : status'[k] = status[k]
    BY <1>0, <1>3, <2>0, WriteSets
  <2>3. Grows
    BY <1>0, <1>1, <2>0, <2>2 DEF Grows, TypeOK
  <2>4. TabOK(t)'
    <3>1. \A k \in Behind(t, m) : m < k /\ status'[k] # "absent"
      BY <1>0, <2>0, <2>2 DEF Behind, TabOK, Mutation
    <3> QED BY <1>0, <1>1, <2>0, <2>1, <2>2, <3>1 DEF Becomes, TabOK, AtWork
  <2>5. ASSUME NEW k \in Mutation PROVE RowOK(k)'
    <3>1. CASE k = m
      <4>1. m \in Finished' => m \in Finished
        BY <2>2 DEF Finished
      <4> QED BY <1>0, <1>1, <2>1, <2>2, <3>1, <4>1 DEF RowOK, Becomes
    <3>2. CASE k # m
      BY <1>0, <1>1, <2>1, <2>2, <2>3, <3>2, RowsKeep DEF Finished, Becomes
    <3> QED BY <3>1, <3>2
  <2>6. ASSUME NEW k \in Mutation PROVE OnceOK(k)'
    <3>1. CASE k # m
      <4>1. \A u \in Tab :
              /\ k \in proc'[u].todo /\ proc'[u].pc # "giving_up" =>
                   k \in proc[u].todo /\ proc[u].pc # "giving_up"
              /\ proc'[u].cur = k => proc[u].cur = k /\ proc'[u].pc = proc[u].pc
        BY <1>1, <2>1, <3>1 DEF Becomes, Behind
      <4> QED BY <1>0, <1>1, <2>2, <3>1, <4>1, OnceKeeps
    <3>2. CASE k = m
      <4> SUFFICES ASSUME m \notin unanswered \cup contested PROVE OnceOK(m)'
        BY <1>1, <3>2 DEF OnceOK
      <4>1. applied'[m] = 0 /\ status'[m] \notin Waiting
        BY <1>0, <1>1, <2>0, <2>2 DEF OnceOK, Waiting
      <4>2. \A u \in Tab : Engaged(u, m)' => Engaged(u, m)
        BY <1>1, <2>0, <2>1 DEF Engaged, Becomes
      <4>3. \A u, v \in Tab : Engaged(u, m)' /\ Engaged(v, m)' => u = v
        BY <1>0, <2>0, <4>2 DEF OnceOK
      <4> QED BY <4>1, <4>3 DEF OnceOK
    <3> QED BY <3>1, <3>2
  <2>7. MapsOK'
    BY <1>0, <1>1 DEF MapsOK
  <2> QED BY <1>1, <2>1, <2>3, <2>4, <2>5, <2>6, <2>7, StepKeeps DEF Becomes
<1> QED BY <1>2, <1>3 DEF Take

\* The mutation is carried out by the one tab that has it.
LEMMA CarryKeeps ==
  ASSUME IInv, TypeOK', NEW t \in Tab, Carry(t)
  PROVE  IInv'
<1> USE DEF inQueue, ids, fates, bounds, rows
<1>0. /\ TypeOK /\ MapsOK /\ (\A u \in Tab : TabOK(u))
      /\ \A k \in Mutation : k # NoMutation /\ RowOK(k) /\ OnceOK(k)
      /\ faults \in Nat /\ proc[t].todo \subseteq Mutation /\ proc[t].done \subseteq Mutation
  BY Facts
<1>m. proc[t].cur \in Mutation
  BY <1>0 DEF Carry, At, TabOK, AtWork, TypeOK, Processor
<1> PICK m \in Mutation : m = proc[t].cur
  BY <1>m
<1>1. /\ proc[t].pc = "sending" /\ m = proc[t].cur /\ status[m] # "absent"
      /\ Becomes(t, "served", m, proc[t].todo, proc[t].done, proc[t].seen)
      /\ UNCHANGED <<status, dependsOn, mapped, split, loaded, known, unanswered,
                     dropped, contested, stranded, faults>>
  BY <1>0, MovesTo DEF Carry, Goto, At, TabOK, AtWork, TypeOK, Processor
<1>2. /\ applied[m] \in Nat /\ applied'[m] = applied[m] + 1
      /\ \A k \in Mutation \ {m} : applied'[k] = applied[k] /\ applied[k] \in Nat
  BY <1>0, <1>1 DEF Carry, TypeOK
<1>3. Grows
  BY <1>0, <1>1, <1>2 DEF Grows
<1>4. TabOK(t)'
  <2>1. \A k \in proc[t].done : applied'[k] > 0
    BY <1>0, <1>2 DEF TabOK
  <2> QED BY <1>0, <1>1, <1>2, <2>1 DEF Becomes, TabOK, AtWork
<1>5. ASSUME NEW k \in Mutation PROVE RowOK(k)'
  BY <1>0, <1>1, <1>2, <1>3, RowsKeep DEF Finished, Becomes
<1>6. ASSUME NEW k \in Mutation PROVE OnceOK(k)'
  <2>1. CASE k # m
    BY <1>0, <1>1, <1>2, <2>1, OnceKeeps DEF Becomes
  <2>2. CASE k = m
    <3> SUFFICES ASSUME m \notin unanswered \cup contested PROVE OnceOK(m)'
      BY <1>1, <2>2 DEF OnceOK
    <3>1. applied'[m] = 1 /\ status'[m] \notin Waiting
      BY <1>0, <1>1, <1>2 DEF OnceOK
    <3>2. \A u \in Tab : Engaged(u, m)' <=> Engaged(u, m)
      BY <1>1 DEF Engaged, Becomes
    <3>3. Engaged(t, m) /\ \A u \in Tab \ {t} : ~Engaged(u, m)
      BY <1>0, <1>1 DEF OnceOK, Engaged
    <3>4. m \notin proc[t].todo
      BY <1>0, <1>1 DEF TabOK, Mutation
    <3> QED BY <1>1, <3>1, <3>2, <3>3, <3>4 DEF OnceOK, Engaged, Becomes
  <2> QED BY <2>1, <2>2
<1>7. MapsOK'
  BY <1>0, <1>1 DEF MapsOK
<1> QED BY <1>1, <1>3, <1>4, <1>5, <1>6, <1>7, StepKeeps DEF Becomes

\* The table of mappings is written as this tab knows it: what another tab does
\* not know, or knew and is lost, counts as split.
LEMMA PersistKeeps ==
  ASSUME IInv, TypeOK', NEW t \in Tab, Persist(t)
  PROVE  IInv'
<1> USE DEF inQueue, fates, bounds, rows
<1>0. /\ TypeOK /\ MapsOK /\ (\A u \in Tab : TabOK(u))
      /\ \A k \in Mutation : k # NoMutation /\ RowOK(k) /\ OnceOK(k)
      /\ faults \in Nat /\ proc[t].todo \subseteq Mutation /\ proc[t].done \subseteq Mutation
  BY Facts
<1>m. proc[t].cur \in Mutation
  BY <1>0 DEF Persist, At, TabOK, AtWork, TypeOK, Processor
<1> PICK m \in Mutation : m = proc[t].cur
  BY <1>m
<1>1. /\ proc[t].pc = "served" /\ m \in Creates
      /\ Becomes(t, "completing", m, proc[t].todo, proc[t].done, proc[t].seen)
      /\ UNCHANGED <<status, dependsOn, loaded, applied, unanswered,
                     dropped, contested, stranded, faults>>
  BY <1>0, MovesTo DEF Persist, Goto, At
<1>2. /\ known'[t] = known[t] \cup {m} /\ mapped' = known'[t]
      /\ split' = split \cup (mapped \ mapped')
                        \cup {c \in mapped' \ mapped : \E u \in Tab \ {t} : loaded[u]}
      /\ \A u \in Tab \ {t} : known'[u] = known[u]
  BY <1>0 DEF Persist, TypeOK
<1>3. Grows
  BY <1>0, <1>1, <1>2 DEF Grows, TypeOK
<1>4. TabOK(t)'
  BY <1>0, <1>1, <1>2 DEF Becomes, TabOK, AtWork
<1>5. ASSUME NEW k \in Mutation PROVE RowOK(k)'
  BY <1>0, <1>1, <1>3, RowsKeep DEF Finished, Becomes
<1>6. ASSUME NEW k \in Mutation PROVE OnceOK(k)'
  BY <1>0, <1>1, OnceKeeps DEF Becomes
<1>7. MapsOK'
  <2> SUFFICES ASSUME NEW c \in mapped' \ split', NEW u \in Tab, loaded'[u]
               PROVE  c \in known'[u]
    BY DEF MapsOK
  <2>1. CASE u = t
    BY <1>2, <2>1
  <2>2. CASE u # t
    <3>1. c \in mapped /\ c \notin split
      BY <1>1, <1>2, <2>2
    <3> QED BY <1>0, <1>1, <1>2, <2>2, <3>1 DEF MapsOK
  <2> QED BY <2>1, <2>2
<1> QED BY <1>1, <1>3, <1>4, <1>5, <1>6, <1>7, StepKeeps DEF Becomes

\* Done with: the row is completed, and was carried out.
LEMMA CompleteKeeps ==
  ASSUME IInv, TypeOK', NEW t \in Tab, Complete(t)
  PROVE  IInv'
<1> USE DEF inQueue, ids, fates, bounds
<1>0. /\ TypeOK /\ MapsOK /\ (\A u \in Tab : TabOK(u))
      /\ \A k \in Mutation : k # NoMutation /\ RowOK(k) /\ OnceOK(k)
      /\ faults \in Nat /\ proc[t].todo \subseteq Mutation /\ proc[t].done \subseteq Mutation
  BY Facts
<1>m. proc[t].cur \in Mutation
  BY <1>0 DEF Complete, At, TabOK, AtWork, TypeOK, Processor
<1> PICK m \in Mutation : m = proc[t].cur
  BY <1>m
<1>1. /\ proc[t].pc \in {"served", "completing"} /\ applied[m] > 0 /\ loaded[t]
      /\ m \in Creates => m \in mapped \cup split
      /\ UNCHANGED <<dependsOn, mapped, split, loaded, known, applied, unanswered,
                     dropped, contested, stranded, faults>>
  BY <1>0 DEF Complete, At, TabOK
<1>2. Becomes(t, "taking", NoMutation, proc[t].todo, proc[t].done \cup {m}, proc[t].seen)
  BY <1>0 DEF Complete, NextOne, Becomes, TypeOK, Processor
<1>3. /\ status'[m] \in {"gone", "completed"}
      /\ \A k \in Mutation \ {m} : status'[k] = status[k]
  BY <1>0, WriteSets DEF Complete
<1>4. Grows
  BY <1>0, <1>1, <1>3 DEF Grows, TypeOK
<1>5. TabOK(t)'
  <2>1. \A k \in proc[t].todo : NoMutation < k /\ status'[k] # "absent"
    BY <1>0, <1>3, MutationAssumption DEF TabOK, Mutation, NoMutation
  <2> QED BY <1>0, <1>1, <1>2, <2>1 DEF Becomes, TabOK, AtWork
<1>6. ASSUME NEW k \in Mutation PROVE RowOK(k)'
  <2>1. CASE k = m
    BY <1>1, <1>3, <2>1 DEF RowOK
  <2>2. CASE k # m
    BY <1>0, <1>1, <1>2, <1>3, <1>4, <2>2, RowsKeep DEF Finished, Becomes
  <2> QED BY <2>1, <2>2
<1>7. ASSUME NEW k \in Mutation PROVE OnceOK(k)'
  <2>1. status'[k] \in Waiting => status[k] \in Waiting
    BY <1>3 DEF Waiting
  <2>2. \A u \in Tab :
          /\ proc'[u].todo = proc[u].todo
          /\ proc'[u].pc # "giving_up" => proc[u].pc # "giving_up"
          /\ proc'[u].cur = k => proc[u].cur = k /\ proc'[u].pc = proc[u].pc
    BY <1>0, <1>1, <1>2 DEF Becomes
  <2> QED BY <1>0, <1>1, <2>1, <2>2, OnceKeeps
<1>8. MapsOK'
  BY <1>0, <1>1 DEF MapsOK
<1> QED BY <1>1, <1>2, <1>4, <1>5, <1>6, <1>7, <1>8, StepKeeps DEF Becomes

\* The answer is not a success; one that is lost on the way is unanswered.
LEMMA AnswerKeeps ==
  ASSUME IInv, TypeOK', NEW t \in Tab, Fails(t) \/ Conflicts(t)
  PROVE  IInv'
<1> USE DEF inQueue, ids, fates, rows
<1>0. /\ TypeOK /\ MapsOK /\ (\A u \in Tab : TabOK(u))
      /\ \A k \in Mutation : k # NoMutation /\ RowOK(k) /\ OnceOK(k)
      /\ faults \in Nat /\ proc[t].todo \subseteq Mutation /\ proc[t].done \subseteq Mutation
  BY Facts
<1>m. proc[t].cur \in Mutation
  BY <1>0 DEF Fails, Conflicts, At, TabOK, AtWork, TypeOK, Processor
<1> PICK m \in Mutation : m = proc[t].cur
  BY <1>m
<1>1. /\ proc[t].pc \in {"sending", "served"} /\ loaded[t] /\ faults' = faults + 1
      /\ UNCHANGED <<status, dependsOn, mapped, split, loaded, known, applied,
                     dropped, contested, stranded>>
      /\ unanswered \subseteq unanswered'
  BY <1>0 DEF Fails, Conflicts, At, TabOK, Fault
<1>2. PICK pc \in {"failing", "requeueing"}, seen \in {retry, proc[t].seen} :
         /\ Becomes(t, pc, m, proc[t].todo, proc[t].done, seen)
         /\ proc[t].pc = "sending" \/ m \in unanswered'
  <2>1. CASE Fails(t)
    <3>1. Becomes(t, "failing", m, proc[t].todo, proc[t].done, retry)
      BY <1>0, <2>1 DEF Fails, Becomes, TypeOK, Processor
    <3>2. proc[t].pc = "sending" \/ m \in unanswered'
      BY <2>1 DEF Fails, At
    <3> QED BY <3>1, <3>2
  <2>2. CASE Conflicts(t)
    <3>1. Becomes(t, "requeueing", m, proc[t].todo, proc[t].done, proc[t].seen)
      BY <1>0, <2>2, MovesTo DEF Conflicts, Goto
    <3> QED BY <2>2, <3>1 DEF Conflicts, At
  <2> QED BY <2>1, <2>2
<1>3. Grows /\ \A k \in Mutation : RowOK(k)'
  <2>1. \A k \in Mutation : \A u \in Tab : proc[u].cur = k => proc'[u].cur = k
    BY <1>2 DEF Becomes
  <2> QED BY <1>0, <1>1, <2>1, RowsStay
<1>4. TabOK(t)'
  <2>1. \A k \in Mutation : seen[k] < faults' /\ seen[k] <= faults'
    BY <1>0, <1>1 DEF TabOK, TypeOK, Processor
  <2> QED BY <1>0, <1>1, <1>2, <2>1 DEF Becomes, TabOK, AtWork
<1>5. ASSUME NEW k \in Mutation PROVE OnceOK(k)'
  <2>1. \A u \in Tab :
          /\ proc'[u].todo = proc[u].todo /\ proc'[u].cur = proc[u].cur
          /\ proc'[u].pc # "giving_up" => proc[u].pc # "giving_up"
          /\ /\ k \notin unanswered'
             /\ proc'[u].cur = k /\ proc'[u].pc \in {"sending", "failing", "requeueing"}
             => proc[u].pc \in {"sending", "failing", "requeueing"}
    BY <1>1, <1>2 DEF Becomes
  <2> QED BY <1>0, <1>1, <2>1, OnceKeeps
<1>6. MapsOK'
  BY <1>0, <1>1 DEF MapsOK
<1> QED BY <1>1, <1>2, <1>3, <1>4, <1>5, <1>6, StepKeeps DEF Becomes

\* Put back: the mutation waits again, which was not carried out unless its
\* answer was lost.
LEMMA PutBackKeeps ==
  ASSUME IInv, TypeOK', NEW t \in Tab, PutBack(t)
  PROVE  IInv'
<1> USE DEF inQueue, ids, fates, bounds
<1>0. /\ TypeOK /\ MapsOK /\ (\A u \in Tab : TabOK(u))
      /\ \A k \in Mutation : k # NoMutation /\ RowOK(k) /\ OnceOK(k)
      /\ faults \in Nat /\ proc[t].todo \subseteq Mutation /\ proc[t].done \subseteq Mutation
  BY Facts
<1>m. proc[t].cur \in Mutation
  BY <1>0 DEF PutBack, TabOK, AtWork, TypeOK, Processor
<1> PICK m \in Mutation : m = proc[t].cur
  BY <1>m
<1>1. /\ proc[t].pc \in {"failing", "requeueing"} /\ loaded[t] /\ status[m] # "absent"
      /\ UNCHANGED <<dependsOn, mapped, split, loaded, known, applied, unanswered,
                     dropped, contested, stranded, faults>>
  BY <1>0 DEF PutBack, TabOK
<1>2. Becomes(t, "taking", NoMutation, proc[t].todo, proc[t].done, proc[t].seen)
  BY <1>0 DEF PutBack, NextOne, Becomes, TypeOK, Processor
<1>3. /\ status'[m] \in {"gone", "failed", "pending"}
      /\ status'[m] = "gone" => status[m] = "gone"
      /\ \A k \in Mutation \ {m} : status'[k] = status[k]
  <2>1. PICK s \in {"failed", "pending"} : Write(m, s)
    BY DEF PutBack, AfterFailure
  <2> QED BY <1>0, <2>1, WriteSets
<1>4. Grows
  BY <1>0, <1>1, <1>3 DEF Grows, TypeOK
<1>5. TabOK(t)'
  <2>1. \A k \in proc[t].todo : NoMutation < k /\ status'[k] # "absent"
    BY <1>0, <1>3, MutationAssumption DEF TabOK, Mutation, NoMutation
  <2> QED BY <1>0, <1>1, <1>2, <2>1 DEF Becomes, TabOK, AtWork
<1>6. ASSUME NEW k \in Mutation PROVE RowOK(k)'
  <2>1. k \in Finished' => k \in Finished
    BY <1>3 DEF Finished
  <2>2. status'[k] = "in_progress" => k # m
    BY <1>3
  <2> QED BY <1>0, <1>1, <1>2, <1>3, <1>4, <2>1, <2>2, RowsKeep DEF Becomes
<1>7. ASSUME NEW k \in Mutation PROVE OnceOK(k)'
  <2>1. \A u \in Tab :
          /\ proc'[u].todo = proc[u].todo
          /\ proc'[u].pc # "giving_up" => proc[u].pc # "giving_up"
          /\ proc'[u].cur = k => u # t /\ proc[u].cur = k /\ proc'[u].pc = proc[u].pc
    BY <1>0, <1>1, <1>2 DEF Becomes
  <2>2. CASE k # m
    BY <1>0, <1>1, <1>3, <2>1, <2>2, OnceKeeps
  <2>3. CASE k = m
    <3> SUFFICES ASSUME m \notin unanswered \cup contested PROVE OnceOK(m)'
      BY <1>1, <2>3 DEF OnceOK
    <3>1. applied'[m] = 0
      BY <1>0, <1>1 DEF OnceOK
    <3>2. \A u \in Tab : Engaged(u, m)' => Engaged(u, m)
      BY <2>1, <2>3 DEF Engaged
    <3>3. \A u \in Tab : proc'[u].cur # m
      BY <1>0, <2>1, <2>3 DEF OnceOK, Engaged
    <3> QED BY <1>0, <3>1, <3>2, <3>3 DEF OnceOK
  <2> QED BY <2>2, <2>3
<1>8. MapsOK'
  BY <1>0, <1>1 DEF MapsOK
<1> QED BY <1>1, <1>2, <1>4, <1>5, <1>6, <1>7, <1>8, StepKeeps DEF Becomes

LEMMA GiveUpKeeps ==
  ASSUME IInv, TypeOK', NEW t \in Tab, GiveUp(t)
  PROVE  IInv'
<1> USE DEF inQueue, ids, fates, bounds
<1>0. /\ TypeOK /\ MapsOK /\ (\A u \in Tab : TabOK(u))
      /\ \A k \in Mutation : k # NoMutation /\ RowOK(k) /\ OnceOK(k)
      /\ faults \in Nat /\ proc[t].todo \subseteq Mutation /\ proc[t].done \subseteq Mutation
  BY Facts
<1>1. /\ proc[t].pc = "giving_up" /\ proc[t].cur = NoMutation /\ loaded[t]
      /\ UNCHANGED <<dependsOn, mapped, split, loaded, known, applied, unanswered,
                     dropped, contested, stranded, faults>>
  BY <1>0 DEF GiveUp, At, TabOK, AtWork
<1> PICK m \in First(proc[t].todo) :
      /\ Write(m, "failed")
      /\ proc' = [proc EXCEPT ![t].todo = @ \ {m},
                              ![t].pc = IF proc[t].todo = {m} THEN "ending" ELSE @]
  BY DEF GiveUp
<1>m. m \in Mutation /\ m \in proc[t].todo
  BY <1>0 DEF First
<1>2. PICK pc \in {"ending", "giving_up"} :
         /\ pc = "ending" <=> proc[t].todo = {m}
         /\ Becomes(t, pc, NoMutation, proc[t].todo \ {m}, proc[t].done, proc[t].seen)
  <2>0. proc \in [Tab -> Processor]
    BY <1>0 DEF TypeOK
  <2>1. CASE proc[t].todo = {m}
    <3>1. proc' = [proc EXCEPT ![t].todo = @ \ {m}, ![t].pc = "ending"]
      BY <2>1
    <3>2. Becomes(t, "ending", NoMutation, proc[t].todo \ {m}, proc[t].done, proc[t].seen)
      BY <1>1, <2>0, <3>1 DEF Becomes, Processor
    <3> QED BY <2>1, <3>2
  <2>2. CASE proc[t].todo # {m}
    <3>1. proc' = [proc EXCEPT ![t].todo = @ \ {m}, ![t].pc = @]
      BY <2>2
    <3>2. Becomes(t, "giving_up", NoMutation, proc[t].todo \ {m}, proc[t].done, proc[t].seen)
      BY <1>1, <2>0, <3>1 DEF Becomes, Processor
    <3> QED BY <2>2, <3>2
  <2> QED BY <2>1, <2>2
<1>3. /\ status'[m] \in {"gone", "failed"}
      /\ status'[m] = "gone" => status[m] = "gone"
      /\ \A k \in Mutation \ {m} : status'[k] = status[k]
  BY <1>0, <1>m, WriteSets
<1>4. Grows
  BY <1>0, <1>1, <1>m, <1>3 DEF Grows, TypeOK
<1>5. TabOK(t)'
  <2>1. \A k \in proc[t].todo : NoMutation < k /\ status'[k] # "absent"
    BY <1>0, <1>1, <1>3 DEF TabOK
  <2>2. /\ pc = "ending" => proc[t].todo \ {m} = {}
        /\ pc = "giving_up" => proc[t].todo \ {m} # {}
    BY <1>m, <1>2
  <2>3. /\ proc'[t].pc = pc /\ proc'[t].cur = NoMutation /\ proc'[t].done = proc[t].done
        /\ proc'[t].todo = proc[t].todo \ {m} /\ proc'[t].seen = proc[t].seen
    BY <1>2 DEF Becomes
  <2>4. /\ \A k \in proc'[t].todo : NoMutation < k /\ status'[k] # "absent"
        /\ \A k \in proc'[t].done : applied'[k] > 0
        /\ \A k \in Mutation : proc'[t].seen[k] <= faults'
    <3>1. \A k \in proc'[t].todo : NoMutation < k /\ status'[k] # "absent"
      BY <2>1, <2>3
    <3>2. \A k \in proc[t].done : applied[k] > 0
      BY <1>0 DEF TabOK
    <3>3. \A k \in Mutation : proc[t].seen[k] <= faults
      BY <1>0 DEF TabOK
    <3> QED BY <1>1, <2>3, <3>1, <3>2, <3>3
  <2> QED BY <1>1, <2>2, <2>3, <2>4 DEF TabOK, AtWork
<1>6. ASSUME NEW k \in Mutation PROVE RowOK(k)'
  <2>1. k \in Finished' => k \in Finished
    BY <1>3 DEF Finished
  <2>2. status'[k] = "in_progress" => k # m
    BY <1>3
  <2>3. \A u \in Tab : proc[u].cur = k => proc'[u].cur = k
    BY <1>1, <1>2 DEF Becomes
  <2> QED BY <1>0, <1>1, <1>3, <1>4, <2>1, <2>2, <2>3, RowsKeep
<1>7. ASSUME NEW k \in Mutation PROVE OnceOK(k)'
  <2>1. \A u \in Tab :
          /\ k \in proc'[u].todo /\ proc'[u].pc # "giving_up" =>
               k \in proc[u].todo /\ proc[u].pc # "giving_up"
          /\ proc'[u].cur = k => proc[u].cur = k /\ proc'[u].pc = proc[u].pc
    <3> TAKE u \in Tab
    <3>1. CASE u = t
      BY <1>0, <1>1, <1>2, <3>1 DEF Becomes
    <3>2. CASE u # t
      <4>1. proc'[u] = proc[u]
        BY <1>2, <3>2 DEF Becomes
      <4> QED BY <4>1
    <3> QED BY <3>1, <3>2
  <2>2. status'[k] \in Waiting => status[k] \in Waiting
    BY <1>3 DEF Waiting
  <2> QED BY <1>0, <1>1, <2>1, <2>2, OnceKeeps
<1>8. MapsOK'
  BY <1>0, <1>1 DEF MapsOK
<1> QED BY <1>1, <1>2, <1>4, <1>5, <1>6, <1>7, <1>8, StepKeeps DEF Becomes

\* The rows are cleared, whatever the tabs do with them.
LEMMA ClearKeeps ==
  ASSUME IInv, TypeOK', NEW t \in Tab, ClearAll(t)
  PROVE  IInv'
<1>0. /\ TypeOK /\ (\A u \in Tab : TabOK(u))
      /\ \A m \in Mutation : RowOK(m) /\ OnceOK(m)
      /\ faults \in Nat
  BY Facts
<1>1. /\ UNCHANGED <<dependsOn, loaded, known, applied, unanswered, proc, contested, stranded>>
      /\ faults' = faults + 1 /\ mapped' = {} /\ split' = split \cup mapped
      /\ dropped' = dropped \cup {m \in Mutation \ Finished : status[m] # "absent"}
      /\ \A m \in Mutation : status'[m] = IF status[m] = "absent" THEN "absent" ELSE "gone"
  BY DEF ClearAll, Fault
<1>2. Grows
  BY <1>0, <1>1 DEF Grows, TypeOK
<1>3. TabOK(t)'
  BY <1>0, <1>1, <1>2, OthersKeep DEF TabOK
<1>4. ASSUME NEW m \in Mutation PROVE RowOK(m)'
  <2>1. m \in Finished' \ dropped' => m \in Finished \ dropped
    BY <1>1 DEF Finished
  <2> QED BY <1>0, <1>1, <2>1 DEF RowOK
<1>5. ASSUME NEW m \in Mutation PROVE OnceOK(m)'
  BY <1>0, <1>1, OnceKeeps DEF Waiting
<1>6. MapsOK'
  BY <1>1 DEF MapsOK
<1> QED BY <1>1, <1>2, <1>3, <1>4, <1>5, <1>6, StepKeeps

-----------------------------------------------------------------------------
(* The inductive invariant *)

LEMMA InitHolds == Init => IInv
<1> SUFFICES ASSUME Init PROVE IInv
  OBVIOUS
<1>1. /\ faults = 0 /\ calls = 0 /\ 0 \in 0..MaxFaults /\ 0 \in 0..MaxCalls
      /\ \A m \in Mutation : m # NoMutation
      /\ \A t \in Tab : proc[t] = Idle
  BY MutationAssumption, BoundAssumption DEF Init, Mutation, NoMutation
<1>2. TypeOK
  <2>1. /\ online \in [Tab -> BOOLEAN] /\ retry \in [Mutation -> 0..faults]
        /\ proc \in [Tab -> Processor]
    BY <1>1, IdleTyped DEF Init
  <2> QED BY <1>1, <2>1 DEF Init, TypeOK
<1>3. \A t \in Tab : TabOK(t)
  BY <1>1 DEF Init, TabOK, AtWork, Idle
<1>4. \A m \in Mutation : RowOK(m)
  BY DEF Init, RowOK, Finished
<1>5. \A m \in Mutation : OnceOK(m)
  BY <1>1 DEF Init, OnceOK, Engaged, Idle
<1>6. MapsOK
  BY DEF Init, MapsOK
<1> QED BY <1>2, <1>3, <1>4, <1>5, <1>6 DEF IInv

LEMMA NextTyped == IInv /\ [Next]_vars => TypeOK'
<1> SUFFICES ASSUME IInv, [Next]_vars PROVE TypeOK'
  OBVIOUS
<1>1. TypeOK /\ \A t \in Tab : TabOK(t)
  BY DEF IInv
<1>2. ASSUME NEW t \in Tab, Process(t) \/ Fails(t) \/ Conflicts(t)
                            \/ \E m \in Mutation : Enqueue(t, m)
      PROVE  TypeOK'
  BY <1>1, <1>2, ProcessTyped DEF Process
<1>3. ASSUME NEW t \in Tab,
             \/ DebounceFires(t) \/ TimerFires(t) \/ SyncByHand(t) \/ Elected(t)
             \/ OnlineHeard(t) \/ GoOnline(t) \/ Start(t)
      PROVE  TypeOK'
  BY <1>1, <1>3, EnvironmentTyped
<1>4. ASSUME NEW t \in Tab, GoOffline(t) \/ Stop(t) \/ Close(t) \/ ClearAll(t)
      PROVE  TypeOK'
  BY <1>1, <1>4, TabsTyped
<1>5. CASE UNCHANGED vars
  BY <1>1, <1>5 DEF vars, rows, requests, ids, tabs, fates, bounds, TypeOK
<1> QED BY <1>2, <1>3, <1>4, <1>5 DEF Next, Environment

LEMMA NextKeeps == IInv /\ [Next]_vars => IInv'
<1> SUFFICES ASSUME IInv, [Next]_vars PROVE IInv'
  OBVIOUS
<1>1. TypeOK /\ TypeOK' /\ \A t \in Tab : TabOK(t)
  BY NextTyped DEF IInv
<1>2. ASSUME NEW t \in Tab,
             \/ DebounceFires(t) \/ TimerFires(t) \/ SyncByHand(t) \/ Elected(t)
             \/ OnlineHeard(t) \/ GoOnline(t) \/ Start(t) \/ Stop(t)
      PROVE  IInv'
  BY <1>1, <1>2, AskingRests, RestKeeps
<1>3. ASSUME NEW t \in Tab,
             \/ GoOffline(t) \/ Close(t) \/ MarkAllPending(t) \/ EndSync(t)
             \/ \E m \in Mutation : Enqueue(t, m)
      PROVE  IInv'
  BY <1>1, <1>3, GroupsRest, RestKeeps
<1>4. ASSUME NEW t \in Tab, ListPending(t) \/ ListAgain(t) \/ ClearAll(t) PROVE IInv'
  BY <1>1, <1>4, ListsKeep, ClearKeeps
<1>5. ASSUME NEW t \in Tab, Take(t) \/ Carry(t) \/ Persist(t) \/ Complete(t) PROVE IInv'
  BY <1>1, <1>5, TakeKeeps, CarryKeeps, PersistKeeps, CompleteKeeps
<1>6. ASSUME NEW t \in Tab, Fails(t) \/ Conflicts(t) \/ PutBack(t) \/ GiveUp(t) PROVE IInv'
  BY <1>1, <1>6, AnswerKeeps, PutBackKeeps, GiveUpKeeps
<1>7. CASE UNCHANGED vars
  <2>1. /\ MapsOK' /\ \A t \in Tab : TabOK(t)'
        /\ \A m \in Mutation : RowOK(m)' /\ OnceOK(m)'
    BY <1>7 DEF vars, rows, requests, ids, tabs, fates, bounds, IInv, TabOK, RowOK,
       OnceOK, MapsOK, Engaged, Finished
  <2> QED BY <1>1, <2>1 DEF IInv
<1> QED BY <1>2, <1>3, <1>4, <1>5, <1>6, <1>7 DEF Next, Process, Environment

LEMMA Invariance == Spec => []IInv
<1> QED BY InitHolds, NextKeeps, PTL DEF Spec

-----------------------------------------------------------------------------
(* What follows *)

\* Every variable keeps its type; no row is counted to have failed more often
\* than something failed.
THEOREM TypesHold == Spec => []TypeOK
<1>1. IInv => TypeOK
  BY DEF IInv
<1> QED BY <1>1, Invariance, PTL

\* processor.ts marks a row in progress before it sends it, and only reads rows
\* that wait: the server carries a mutation out once, unless two tabs read the
\* row in time or an answer was lost.
THEOREM AppliedOnceHolds == Spec => []AppliedOnce
<1>1. IInv => AppliedOnce
  BY DEF IInv, OnceOK, AppliedOnce
<1> QED BY <1>1, Invariance, PTL

\* Whatever two tabs write to one row, none is completed or deleted that was not
\* carried out or cleared with the cache, and none stays in progress without a tab, unless one was closed.
THEOREM NothingForgottenHolds == Spec => []NothingForgotten
<1>1. IInv => NothingForgotten
  BY DEF IInv, RowOK, NothingForgotten
<1> QED BY <1>1, Invariance, PTL

\* canProcessMutation: what a mutation depends on was carried out when it is sent.
THEOREM DependenciesFirstHolds == Spec => []DependenciesFirst
<1>1. IInv => DependenciesFirst
  <2> SUFFICES ASSUME IInv, NEW t \in Tab, At(t, "sending"),
                      NEW k \in dependsOn[proc[t].cur]
               PROVE  applied[k] > 0
    BY DEF DependenciesFirst
  <2> QED BY DEF IInv, TabOK, At
<1> QED BY <1>1, Invariance, PTL

\* persistIdMappings comes before markCompleted, and ensureInitialized before
\* the first row is read: a request mentions no provisional id of a create that
\* is done, unless two tabs wrote the table.
THEOREM SentResolvedHolds == Spec => []SentResolved
<1>1. IInv => SentResolved
  <2> SUFFICES ASSUME IInv, NEW t \in Tab, At(t, "sending"),
                      NEW c \in Refers[proc[t].cur], c \in Finished \ dropped
               PROVE  c \in known[t] \cup split
    BY DEF SentResolved
  <2>1. loaded[t] /\ proc[t].cur \in Mutation
    BY DEF IInv, TabOK, At, AtWork, TypeOK, Processor
  <2>2. c \in Creates /\ c \in Mutation
    BY <2>1, MutationAssumption
  <2>3. c \in mapped \cup split
    BY <2>2 DEF IInv, RowOK
  <2> QED BY <2>1, <2>3 DEF IInv, MapsOK
<1> QED BY <1>1, Invariance, PTL

=============================================================================
