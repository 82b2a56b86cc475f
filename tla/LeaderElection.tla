--------------------------- MODULE LeaderElection ---------------------------
(***************************************************************************)
(* The election of the browser tab that synchronises (sync-engine,         *)
(* cross-tab/manager.ts): "Raft-inspired" terms over a BroadcastChannel.   *)
(*                                                                         *)
(* One action is one callback of one tab: a timer, a message, start or     *)
(* stop.  Messages of one tab to another arrive in order.  The timers are  *)
(* seconds long and a message takes milliseconds, so that a timer fires    *)
(* when messages have arrived; but a tab may be suspended, and up to       *)
(* MaxLate times a timer overtakes what is under way.  Nothing has to be   *)
(* late for a leader to be deposed: its heartbeats slow down until they    *)
(* come further apart than leaderTimeout.                                  *)
(***************************************************************************)
EXTENDS Integers, Sequences, FiniteSets

CONSTANTS
  Tab,       \* the tabs, by tabId: only the order of the ids matters
  NoTab,     \* null
  SlowAfter, \* heartbeats after which the next one takes longer than leaderTimeout
             \* (6 with the defaults: 2000 ms, times 1.5 from the fourth on, against 5000 ms)
  MaxTerm,   \* bound: the terms in which a tab stands against a leader that lives
  MaxLate,   \* bound: how often a timer may overtake a message or a heartbeat
  MaxStops,  \* bound: how often a tab stops
  MaxKills   \* bound: how often a tab is killed

ASSUME TabAssumption == Tab \subseteq Nat /\ NoTab \notin Tab /\ IsFiniteSet(Tab)
ASSUME BoundAssumption == {SlowAfter, MaxTerm, MaxLate, MaxStops, MaxKills} \subseteq Nat

VARIABLES
  page,         \* "new" | "open" | "stopped" | "killed"
  isLeader,     \* _isLeader; the heartbeat timer runs while it is TRUE
  leaderId,     \* currentLeaderId
  leaderTerm,   \* currentLeaderTerm
  electionTerm,
  electing,     \* isElectionInProgress
  timers,       \* the armed ones of initialElectionTimer, electionTimer, resignElectionTimer
  beats,        \* consecutiveQuietHeartbeats, up to SlowAfter
  channel,      \* channel[p][q]: what p has broadcast and q has not received
  late, stops, kills

tabVars == <<isLeader, leaderId, leaderTerm, electionTerm, electing, timers, beats>>
vars == <<page, tabVars, channel, late, stops, kills>>

Open == {t \in Tab : page[t] = "open"}

Init ==
  /\ page = [t \in Tab |-> "new"]
  /\ isLeader = [t \in Tab |-> FALSE]
  /\ leaderId = [t \in Tab |-> NoTab]
  /\ leaderTerm = [t \in Tab |-> 0]
  /\ electionTerm = [t \in Tab |-> 0]
  /\ electing = [t \in Tab |-> FALSE]
  /\ timers = [t \in Tab |-> {}]
  /\ beats = [t \in Tab |-> 0]
  /\ channel = [p \in Tab |-> [q \in Tab |-> <<>>]]
  /\ late = 0 /\ stops = 0 /\ kills = 0

-----------------------------------------------------------------------------
(* Sending *)

Message(type, term) == [type |-> type, term |-> term]

\* The channel c after t has posted m: every other open tab will receive it.
Posted(c, t, m) ==
  [c EXCEPT ![t] = [q \in Tab |-> IF q \in Open \ {t} THEN Append(@[q], m) ELSE @[q]]]

\* A tab without a channel receives nothing.
Detached(c, t) == [p \in Tab |-> [c[p] EXCEPT ![t] = <<>>]]

-----------------------------------------------------------------------------
(* Timers *)

Quiet == \A p, q \in Tab : channel[p][q] = <<>>

\* A timer fires in time, or late if something it should have waited for is missed.
InTime(ok) == IF ok THEN UNCHANGED late ELSE late < MaxLate /\ late' = late + 1

-----------------------------------------------------------------------------
(* Elections *)

\* initiateElection, in a tab whose currentLeaderId is null.
NextTerm(t) == (IF electionTerm[t] > leaderTerm[t] THEN electionTerm[t] ELSE leaderTerm[t]) + 1

InitiateElection(t, armed) ==
  IF isLeader[t] \/ electing[t]
  THEN /\ timers' = [timers EXCEPT ![t] = armed]
       /\ UNCHANGED <<electing, electionTerm, channel>>
  ELSE /\ timers' = [timers EXCEPT ![t] = armed \cup {"election"}]
       /\ electing' = [electing EXCEPT ![t] = TRUE]
       /\ electionTerm' = [electionTerm EXCEPT ![t] = NextTerm(t)]
       /\ channel' = Posted(channel, t, Message("candidate", NextTerm(t)))

\* start: the staggered initial election; a manager that was stopped keeps its
\* fields.
Start(t) ==
  /\ page[t] \in {"new", "stopped"}
  /\ page' = [page EXCEPT ![t] = "open"]
  /\ timers' = [timers EXCEPT ![t] = {"initial"}]
  /\ UNCHANGED <<isLeader, leaderId, leaderTerm, electionTerm, electing, beats, channel, late, stops, kills>>

\* The initial and the resign timer: both elect if no leader is known by then.
Stagger(t, timer) ==
  /\ timer \in timers[t]
  /\ IF leaderId[t] = NoTab
     THEN InitiateElection(t, timers[t] \ {timer})
     ELSE /\ timers' = [timers EXCEPT ![t] = @ \ {timer}]
          /\ UNCHANGED <<electing, electionTerm, channel>>
  /\ InTime(Quiet)
  /\ UNCHANGED <<page, isLeader, leaderId, leaderTerm, beats, stops, kills>>

\* The election timer: becomeLeader unless a leader was announced.
ElectionTimeout(t) ==
  /\ "election" \in timers[t]
  /\ timers' = [timers EXCEPT ![t] = @ \ {"election"}]
  /\ electing' = [electing EXCEPT ![t] = FALSE]
  /\ IF electing[t] /\ (leaderId[t] = NoTab \/ electionTerm[t] > leaderTerm[t])
     THEN /\ isLeader' = [isLeader EXCEPT ![t] = TRUE]
          /\ leaderId' = [leaderId EXCEPT ![t] = t]
          /\ leaderTerm' = [leaderTerm EXCEPT ![t] = electionTerm[t]]
          /\ channel' = Posted(channel, t, Message("elected", electionTerm[t]))
          /\ beats' = [beats EXCEPT ![t] = 0]
     ELSE UNCHANGED <<isLeader, leaderId, leaderTerm, beats, channel>>
  /\ InTime(Quiet)
  /\ UNCHANGED <<page, electionTerm, stops, kills>>

\* The heartbeat timer, whose interval grows.  Bound: everything has been delivered.
Heartbeat(t) ==
  /\ isLeader[t] /\ Quiet
  /\ channel' = Posted(channel, t, Message("heartbeat", leaderTerm[t]))
  /\ beats' = [beats EXCEPT ![t] = IF @ < SlowAfter THEN @ + 1 ELSE @]
  /\ UNCHANGED <<page, isLeader, leaderId, leaderTerm, electionTerm, electing, timers, late, stops, kills>>

LeaderAlive(t) == leaderId[t] \in Open /\ isLeader[leaderId[t]]

\* The next heartbeat of t's leader comes later than leaderTimeout.
LeaderSlow(t) == LeaderAlive(t) /\ beats[leaderId[t]] = SlowAfter

\* The leader check: no heartbeat for leaderTimeout.
LeaderCheck(t) ==
  /\ t \in Open /\ ~isLeader[t] /\ leaderId[t] # NoTab
  /\ LeaderSlow(t) => NextTerm(t) <= MaxTerm
  /\ InTime(Quiet /\ (~LeaderAlive(t) \/ LeaderSlow(t)))
  /\ leaderId' = [leaderId EXCEPT ![t] = NoTab]
  /\ InitiateElection(t, timers[t])
  /\ UNCHANGED <<page, isLeader, leaderTerm, beats, stops, kills>>

\* The pending elections of a tab that stops go on.
Stop_KeepsTimers(t) ==
  /\ t \in Open /\ stops < MaxStops
  /\ stops' = stops + 1
  /\ page' = [page EXCEPT ![t] = "stopped"]
  /\ isLeader' = [isLeader EXCEPT ![t] = FALSE]
  /\ beats' = [beats EXCEPT ![t] = 0]
  /\ channel' = Detached(IF isLeader[t] THEN Posted(channel, t, Message("resign", 0)) ELSE channel, t)
  /\ UNCHANGED <<leaderId, leaderTerm, electionTerm, electing, timers, late, kills>>

\* stop: a leader resigns; every timer and the channel go.
Stop(t) ==
  /\ t \in Open /\ stops < MaxStops
  /\ stops' = stops + 1
  /\ page' = [page EXCEPT ![t] = "stopped"]
  /\ isLeader' = [isLeader EXCEPT ![t] = FALSE]
  /\ beats' = [beats EXCEPT ![t] = 0]
  /\ timers' = [timers EXCEPT ![t] = {}]
  /\ channel' = Detached(IF isLeader[t] THEN Posted(channel, t, Message("resign", 0)) ELSE channel, t)
  /\ UNCHANGED <<leaderId, leaderTerm, electionTerm, electing, late, kills>>

\* The tab goes without a word.
Kill(t) ==
  /\ t \in Open /\ kills < MaxKills
  /\ kills' = kills + 1
  /\ page' = [page EXCEPT ![t] = "killed"]
  /\ isLeader' = [isLeader EXCEPT ![t] = FALSE]
  /\ beats' = [beats EXCEPT ![t] = 0]
  /\ timers' = [timers EXCEPT ![t] = {}]
  /\ channel' = Detached(channel, t)
  /\ UNCHANGED <<leaderId, leaderTerm, electionTerm, electing, late, stops>>

-----------------------------------------------------------------------------
(* handleMessage: the tab t receives m from p *)

\* A leader of an equal or higher term answers with a heartbeat; anyone else
\* learns the higher term, a leader by stepping down.
OnCandidate(p, t, m, c) ==
  /\ IF isLeader[t] /\ leaderTerm[t] >= m.term
     THEN /\ channel' = Posted(c, t, Message("heartbeat", leaderTerm[t]))
          /\ UNCHANGED <<isLeader, leaderTerm>>
     ELSE /\ channel' = c
          /\ leaderTerm' = [leaderTerm EXCEPT ![t] = IF m.term > @ THEN m.term ELSE @]
          /\ isLeader' = [isLeader EXCEPT ![t] = FALSE]
  /\ UNCHANGED <<leaderId, electionTerm, electing, timers>>

\* Terms decide alone.
Yields_ByTerm(t, p, term) == term > leaderTerm[t]

\* "the one with higher term wins; if terms are equal, lower tab ID wins"
Yields(t, p, term) == term > leaderTerm[t] \/ (term = leaderTerm[t] /\ p < t)

Follow(t, p, term) ==
  /\ leaderId' = [leaderId EXCEPT ![t] = p]
  /\ leaderTerm' = [leaderTerm EXCEPT ![t] = term]
  /\ electing' = [electing EXCEPT ![t] = FALSE]

OnElected(p, t, m, c) ==
  /\ \/ /\ m.term < leaderTerm[t]
        /\ channel' = c
        /\ UNCHANGED <<isLeader, leaderId, leaderTerm, electing>>
     \/ /\ m.term >= leaderTerm[t] /\ isLeader[t] /\ ~Yields(t, p, m.term)
        /\ channel' = Posted(c, t, Message("heartbeat", leaderTerm[t]))
        /\ UNCHANGED <<isLeader, leaderId, leaderTerm, electing>>
     \/ /\ m.term >= leaderTerm[t] /\ (isLeader[t] => Yields(t, p, m.term))
        /\ isLeader' = [isLeader EXCEPT ![t] = FALSE]
        /\ Follow(t, p, m.term)
        /\ channel' = c
  /\ UNCHANGED <<electionTerm, timers>>

\* Only an announcement ends the leadership of another tab.
OnHeartbeat_LeadsOn(p, t, m, c) ==
  /\ IF m.term >= leaderTerm[t] THEN Follow(t, p, m.term) ELSE UNCHANGED <<leaderId, leaderTerm, electing>>
  /\ channel' = c
  /\ UNCHANGED <<isLeader, electionTerm, timers>>

OnHeartbeat(p, t, m, c) ==
  /\ IF m.term >= leaderTerm[t]
     THEN /\ Follow(t, p, m.term)
          /\ isLeader' = [isLeader EXCEPT ![t] = @ /\ ~Yields(t, p, m.term)]
     ELSE UNCHANGED <<isLeader, leaderId, leaderTerm, electing>>
  /\ channel' = c
  /\ UNCHANGED <<electionTerm, timers>>

OnResign(p, t, c) ==
  /\ IF p = leaderId[t]
     THEN /\ leaderId' = [leaderId EXCEPT ![t] = NoTab]
          /\ electing' = [electing EXCEPT ![t] = FALSE]
          /\ timers' = [timers EXCEPT ![t] = @ \cup {"resign"}]
     ELSE UNCHANGED <<leaderId, electing, timers>>
  /\ channel' = c
  /\ UNCHANGED <<isLeader, leaderTerm, electionTerm>>

Receive(p, t) ==
  /\ channel[p][t] # <<>>
  /\ LET m == Head(channel[p][t])
         c == [channel EXCEPT ![p][t] = Tail(@)]
     IN \/ m.type = "candidate" /\ OnCandidate(p, t, m, c)
        \/ m.type = "elected"   /\ OnElected(p, t, m, c)
        \/ m.type = "heartbeat" /\ OnHeartbeat(p, t, m, c)
        \/ m.type = "resign"    /\ OnResign(p, t, c)
  /\ beats' = [beats EXCEPT ![t] = IF isLeader'[t] THEN @ ELSE 0]
  /\ UNCHANGED <<page, late, stops, kills>>

Next ==
  \/ \E t \in Tab : \/ Start(t) \/ Stop(t) \/ Kill(t)
                    \/ Stagger(t, "initial") \/ Stagger(t, "resign")
                    \/ ElectionTimeout(t) \/ Heartbeat(t) \/ LeaderCheck(t)
  \/ \E p, t \in Tab : Receive(p, t)

Spec == Init /\ [][Next]_vars

\* Timers fire, messages arrive, leaders send heartbeats.
FairSpec ==
  /\ Spec
  /\ \A t \in Tab : /\ SF_vars(Stagger(t, "initial")) /\ SF_vars(Stagger(t, "resign"))
                    /\ SF_vars(ElectionTimeout(t)) /\ SF_vars(LeaderCheck(t))
                    /\ SF_vars(Heartbeat(t))
  /\ \A p, t \in Tab : WF_vars(Receive(p, t))

-----------------------------------------------------------------------------
(* What the election promises *)

MessageTypes == {"candidate", "elected", "heartbeat", "resign"}

\* Types; a tab without a channel neither leads nor hears nor has a timer.
TypeOK ==
  /\ page \in [Tab -> {"new", "open", "stopped", "killed"}]
  /\ isLeader \in [Tab -> BOOLEAN] /\ electing \in [Tab -> BOOLEAN]
  /\ leaderId \in [Tab -> Tab \cup {NoTab}]
  /\ leaderTerm \in [Tab -> Nat] /\ electionTerm \in [Tab -> Nat]
  /\ timers \in [Tab -> SUBSET {"initial", "election", "resign"}]
  /\ beats \in [Tab -> 0..SlowAfter]
  /\ channel \in [Tab -> [Tab -> Seq([type : MessageTypes, term : Nat])]]
  /\ \A p, t \in Tab : t \notin Open => ~isLeader[t] /\ timers[t] = {} /\ channel[p][t] = <<>>

\* "Term numbers to prevent split-brain scenarios": of two tabs that both lead, one
\* has news of the other on the way, so that a split brain ends when the messages have
\* arrived.  It may take the next heartbeat when a third tab has stood for a term above
\* both: who has learnt that term is deaf to theirs, and leads without having heard.
SplitBrainHeals ==
  \A p, t \in Tab : p # t /\ isLeader[p] /\ isLeader[t] =>
    \/ channel[p][t] # <<>> \/ channel[t][p] # <<>>
    \/ \E r \in Tab \ {p, t} : electionTerm[r] > leaderTerm[p] /\ electionTerm[r] > leaderTerm[t]

\* No leader, no timer: the leader check asks for a leader, so nothing in this tab will
\* start an election.  stop() in an election leads there (isElectionInProgress stays
\* behind without the timer that resets it), and so does a leader that steps down for a
\* candidate after it forgot its own currentLeaderId.
Stranded(t) == ~isLeader[t] /\ leaderId[t] = NoTab /\ timers[t] = {}

Agreed ==
  \E p \in Open : \A q \in Open : (isLeader[q] <=> q = p) /\ (q # p => leaderId[q] = p)

\* However often a leader goes, is deposed because its heartbeats have slowed down or
\* meets another, one tab leads again and every other follows it, unless a tab is
\* stranded.  (Not for good: heartbeats slow down under every leader.)
OneLeadsAgain == []<>(Open = {} \/ Agreed \/ \E t \in Open : Stranded(t))

-----------------------------------------------------------------------------
(* What SplitBrainHeals rests on *)

\* A leader leads with the term of its own election, no tab knows a term that no
\* tab has stood for, and no message is ahead of its sender.
Terms ==
  /\ \A t \in Tab : isLeader[t] => leaderTerm[t] = electionTerm[t]
  /\ \A t \in Tab : \E q \in Tab : leaderTerm[t] <= electionTerm[q]
  /\ \A p, t \in Tab : \A i \in 1..Len(channel[p][t]) : channel[p][t][i].term <= electionTerm[p]

\* The last word of a leader is that it leads.
LastWord ==
  \A p, t \in Tab : p # t /\ isLeader[p] /\ channel[p][t] # <<>> =>
    \E type \in {"elected", "heartbeat"} :
      channel[p][t][Len(channel[p][t])] = Message(type, leaderTerm[p])

\* A tab that leads, or will once its election timer fires.
Claims(p) == isLeader[p] \/ (electing[p] /\ "election" \in timers[p])

Beats(t, p) ==
  electionTerm[t] > electionTerm[p] \/ (electionTerm[t] = electionTerm[p] /\ t < p)

\* A third tab has stood for a term above that of t.
Overtaken(p, t) == \E r \in Tab \ {p, t} : electionTerm[r] > electionTerm[t]

\* A claim that an existing leader beats is contested: a message of the leader is on its
\* way, or the candidacy that the leader will answer, unless a third tab's term has made
\* the claimant deaf to the leader.  With the types and the two above it is inductive.
Contested ==
  \A p, t \in Tab : isLeader[t] /\ Claims(p) /\ Beats(t, p) =>
    \/ channel[t][p] # <<>>
    \/ \E i \in 1..Len(channel[p][t]) : channel[p][t][i] = Message("candidate", electionTerm[p])
    \/ Overtaken(p, t)
=============================================================================
