------------------------ MODULE LeaderElection_proof ------------------------
(***************************************************************************)
(* Theorems about LeaderElection for every set of tabs and every bound on  *)
(* late timers, depositions, stops and kills: its types, and how a split   *)
(* brain heals.                                                            *)
(***************************************************************************)
EXTENDS LeaderElection, TLAPS, SequenceTheorems

-----------------------------------------------------------------------------
(* Channels *)

Messages == [type : MessageTypes, term : Nat]
Channels == [Tab -> [Tab -> Seq(Messages)]]

\* Posting appends to the channels to the other open tabs.
LEMMA PostedChannels ==
  ASSUME NEW c \in Channels, NEW t \in Tab, NEW m \in Messages
  PROVE  /\ Posted(c, t, m) \in Channels
         /\ \A p, q \in Tab : Posted(c, t, m)[p][q] =
              IF p = t /\ q \in Open \ {t} THEN Append(c[p][q], m) ELSE c[p][q]
<1>1. \A q \in Tab : Append(c[t][q], m) \in Seq(Messages)
  BY DEF Channels
<1>2. QED  BY <1>1 DEF Posted, Channels

\* A detached tab has empty channels.
LEMMA DetachedChannels ==
  ASSUME NEW c \in Channels, NEW t \in Tab
  PROVE  /\ Detached(c, t) \in Channels
         /\ \A p, q \in Tab : Detached(c, t)[p][q] = IF q = t THEN <<>> ELSE c[p][q]
<1>1. <<>> \in Seq(Messages)
  OBVIOUS
<1>2. QED  BY <1>1 DEF Detached, Channels

\* Receiving takes the first message of one channel.
LEMMA ReceivedChannels ==
  ASSUME NEW c \in Channels, NEW p \in Tab, NEW t \in Tab, c[p][t] # <<>>
  PROVE  /\ [c EXCEPT ![p][t] = Tail(@)] \in Channels
         /\ Head(c[p][t]) \in Messages
         /\ \A r, q \in Tab : [c EXCEPT ![p][t] = Tail(@)][r][q] =
              IF r = p /\ q = t THEN Tail(c[p][t]) ELSE c[r][q]
<1>1. c[p][t] \in Seq(Messages)
  BY DEF Channels
<1>2. Tail(c[p][t]) \in Seq(Messages) /\ Head(c[p][t]) \in Messages
  BY <1>1
<1>3. QED  BY <1>2 DEF Channels

-----------------------------------------------------------------------------
(* Types *)

TabsTyped ==
  /\ page \in [Tab -> {"new", "open", "stopped", "killed"}]
  /\ isLeader \in [Tab -> BOOLEAN] /\ electing \in [Tab -> BOOLEAN]
  /\ leaderId \in [Tab -> Tab \cup {NoTab}]
  /\ leaderTerm \in [Tab -> Nat] /\ electionTerm \in [Tab -> Nat]
  /\ timers \in [Tab -> SUBSET {"initial", "election", "resign"}]

ClosedTabs ==
  \A p, t \in Tab : t \notin Open => ~isLeader[t] /\ timers[t] = {} /\ channel[p][t] = <<>>

BeatsTyped == beats \in [Tab -> 0..SlowAfter]

LEMMA TypeParts ==
  TypeOK <=> TabsTyped /\ channel \in Channels /\ ClosedTabs /\ BeatsTyped
BY DEF TypeOK, TabsTyped, Channels, Messages, ClosedTabs, BeatsTyped

LEMMA BeatsKept ==
  ASSUME BeatsTyped, [Next]_vars
  PROVE  BeatsTyped'
<1>1. SlowAfter \in Nat
  BY BoundAssumption
<1>2. ASSUME NEW t \in Tab, beats' = beats \/ beats' = [beats EXCEPT ![t] = 0]
             \/ beats' = [beats EXCEPT ![t] = IF @ < SlowAfter THEN @ + 1 ELSE @]
             \/ beats' = [beats EXCEPT ![t] = IF isLeader'[t] THEN @ ELSE 0]
      PROVE  BeatsTyped'
  BY <1>1, <1>2 DEF BeatsTyped
<1>3. ASSUME NEW t \in Tab, ElectionTimeout(t) PROVE BeatsTyped'
  BY <1>2, <1>3 DEF ElectionTimeout
<1>4. ASSUME NEW t \in Tab, Start(t) \/ Stagger(t, "initial") \/ Stagger(t, "resign") \/ LeaderCheck(t)
      PROVE  BeatsTyped'
  BY <1>4 DEF Start, Stagger, LeaderCheck, BeatsTyped
<1>5. ASSUME NEW t \in Tab, Stop(t) \/ Kill(t) PROVE BeatsTyped'
  BY <1>2, <1>5 DEF Stop, Kill
<1>6. ASSUME NEW t \in Tab, Heartbeat(t) PROVE BeatsTyped'
  BY <1>2, <1>6 DEF Heartbeat
<1>7. ASSUME NEW p \in Tab, NEW t \in Tab, Receive(p, t) PROVE BeatsTyped'
  BY <1>2, <1>7 DEF Receive
<1>8. CASE UNCHANGED vars
  BY <1>8 DEF vars, tabVars, BeatsTyped
<1>9. QED  BY <1>3, <1>4, <1>5, <1>6, <1>7, <1>8 DEF Next

\* The messages a tab may post.
LEMMA MessageTyped ==
  ASSUME NEW type \in MessageTypes, NEW term \in Nat
  PROVE  Message(type, term) \in Messages
BY DEF Message, Messages

LEMMA NextTermTyped ==
  ASSUME TabsTyped, NEW t \in Tab
  PROVE  NextTerm(t) \in Nat /\ NextTerm(t) > electionTerm[t] /\ NextTerm(t) > leaderTerm[t]
BY DEF NextTerm, TabsTyped

\* Only tab t changes, and either it is open or it is left with nothing.
OnlyTab(t) ==
  /\ \A q \in Tab : q # t =>
       isLeader'[q] = isLeader[q] /\ timers'[q] = timers[q] /\ page'[q] = page[q]
  /\ page'[t] = "open" \/ (~isLeader'[t] /\ timers'[t] = {} /\ \A p \in Tab : channel'[p][t] = <<>>)
  /\ \A p, q \in Tab : q # t /\ page[q] # "open" /\ channel[p][q] = <<>> => channel'[p][q] = <<>>

LEMMA OnlyTabKeepsClosed ==
  ASSUME ClosedTabs, NEW t \in Tab, OnlyTab(t)
  PROVE  ClosedTabs'
BY DEF ClosedTabs, OnlyTab, Open

\* What starting an election leaves.
LEMMA InitiateTyped ==
  ASSUME TabsTyped, channel \in Channels, ClosedTabs, NEW t \in Tab, t \in Open,
         NEW armed \in SUBSET {"initial", "election", "resign"}, InitiateElection(t, armed)
  PROVE  /\ timers' \in [Tab -> SUBSET {"initial", "election", "resign"}]
         /\ electing' \in [Tab -> BOOLEAN] /\ electionTerm' \in [Tab -> Nat]
         /\ channel' \in Channels
         /\ \A q \in Tab : q # t => timers'[q] = timers[q]
         /\ \A p, q \in Tab : q \notin Open => channel'[p][q] = channel[p][q]
<1>1. CASE isLeader[t] \/ electing[t]
  BY <1>1 DEF InitiateElection, TabsTyped
<1>2. CASE ~(isLeader[t] \/ electing[t])
  <2>1. NextTerm(t) \in Nat /\ Message("candidate", NextTerm(t)) \in Messages
    BY NextTermTyped, MessageTyped DEF MessageTypes
  <2>2. /\ channel' = Posted(channel, t, Message("candidate", NextTerm(t)))
        /\ timers' = [timers EXCEPT ![t] = armed \cup {"election"}]
        /\ electing' = [electing EXCEPT ![t] = TRUE]
        /\ electionTerm' = [electionTerm EXCEPT ![t] = NextTerm(t)]
    BY <1>2 DEF InitiateElection
  <2>3. armed \cup {"election"} \in SUBSET {"initial", "election", "resign"}
    OBVIOUS
  <2>4. /\ timers' \in [Tab -> SUBSET {"initial", "election", "resign"}]
        /\ electing' \in [Tab -> BOOLEAN] /\ electionTerm' \in [Tab -> Nat]
        /\ \A q \in Tab : q # t => timers'[q] = timers[q]
    BY <2>1, <2>2, <2>3 DEF TabsTyped
  <2>5. QED  BY <2>1, <2>2, <2>4, PostedChannels
<1>3. QED  BY <1>1, <1>2

LEMMA TypesKept ==
  ASSUME TabsTyped, channel \in Channels, ClosedTabs, [Next]_vars
  PROVE  TabsTyped' /\ channel' \in Channels /\ ClosedTabs'
<1> DEFINE Kept(t) == TabsTyped' /\ channel' \in Channels /\ OnlyTab(t)
<1>0. \A term \in Nat : /\ Message("elected", term) \in Messages
                        /\ Message("heartbeat", term) \in Messages
                        /\ Message("resign", term) \in Messages
  BY MessageTyped DEF MessageTypes
<1>1. ASSUME NEW t \in Tab, timers[t] # {} \/ isLeader[t] PROVE t \in Open
  BY <1>1 DEF ClosedTabs
<1>2. ASSUME NEW t \in Tab, Start(t) PROVE Kept(t)
  BY <1>2 DEF Start, TabsTyped, OnlyTab
<1>3. ASSUME NEW t \in Tab, NEW timer \in {"initial", "resign"}, Stagger(t, timer) PROVE Kept(t)
  <2>1. t \in Open /\ timers[t] \ {timer} \in SUBSET {"initial", "election", "resign"}
    BY <1>1, <1>3 DEF Stagger, TabsTyped
  <2>2. UNCHANGED <<page, isLeader, leaderId, leaderTerm>>
    BY <1>3 DEF Stagger
  <2>3. CASE leaderId[t] = NoTab
    <3>1. InitiateElection(t, timers[t] \ {timer})
      BY <1>3, <2>3 DEF Stagger
    <3>2. QED  BY <2>1, <2>2, <3>1, InitiateTyped DEF TabsTyped, OnlyTab, Open
  <2>4. CASE leaderId[t] # NoTab
    BY <1>3, <2>1, <2>2, <2>4 DEF Stagger, TabsTyped, OnlyTab, Open
  <2>5. QED  BY <2>3, <2>4
<1>4. ASSUME NEW t \in Tab, ElectionTimeout(t) PROVE Kept(t)
  <2>1. t \in Open /\ Message("elected", electionTerm[t]) \in Messages
    BY <1>0, <1>1, <1>4 DEF ElectionTimeout, TabsTyped
  <2>2. timers[t] \ {"election"} \in SUBSET {"initial", "election", "resign"}
    BY DEF TabsTyped
  <2>3. /\ page' = page /\ electionTerm' = electionTerm
        /\ timers' = [timers EXCEPT ![t] = timers[t] \ {"election"}]
        /\ electing' = [electing EXCEPT ![t] = FALSE]
    BY <1>4 DEF ElectionTimeout
  <2>4. CASE UNCHANGED <<isLeader, leaderId, leaderTerm, channel>>
    BY <2>1, <2>2, <2>3, <2>4 DEF TabsTyped, OnlyTab, Open
  <2>5. CASE /\ isLeader' = [isLeader EXCEPT ![t] = TRUE]
             /\ leaderId' = [leaderId EXCEPT ![t] = t]
             /\ leaderTerm' = [leaderTerm EXCEPT ![t] = electionTerm[t]]
             /\ channel' = Posted(channel, t, Message("elected", electionTerm[t]))
    <3>1. channel' \in Channels /\ \A p, q \in Tab : q \notin Open => channel'[p][q] = channel[p][q]
      BY <2>1, <2>5, PostedChannels
    <3>2. TabsTyped'
      BY <2>2, <2>3, <2>5 DEF TabsTyped
    <3>3. OnlyTab(t)
      BY <2>1, <2>3, <2>5, <3>1 DEF TabsTyped, OnlyTab, Open
    <3>4. QED  BY <3>1, <3>2, <3>3
  <2>6. QED  BY <1>4, <2>4, <2>5 DEF ElectionTimeout
<1>5. ASSUME NEW t \in Tab, Heartbeat(t) PROVE Kept(t)
  <2>1. /\ channel' = Posted(channel, t, Message("heartbeat", leaderTerm[t]))
        /\ Message("heartbeat", leaderTerm[t]) \in Messages
        /\ t \in Open /\ UNCHANGED <<page, isLeader, leaderId, leaderTerm, electionTerm, electing, timers>>
    BY <1>0, <1>1, <1>5 DEF Heartbeat, TabsTyped
  <2>2. channel' \in Channels /\ \A p, q \in Tab : q \notin Open => channel'[p][q] = channel[p][q]
    BY <2>1, PostedChannels
  <2>3. QED  BY <2>1, <2>2 DEF TabsTyped, OnlyTab, Open
<1>6. ASSUME NEW t \in Tab, LeaderCheck(t) PROVE Kept(t)
  <2>1. /\ t \in Open /\ timers[t] \in SUBSET {"initial", "election", "resign"}
        /\ InitiateElection(t, timers[t]) /\ UNCHANGED <<page, isLeader, leaderTerm>>
        /\ leaderId' = [leaderId EXCEPT ![t] = NoTab]
    BY <1>6 DEF LeaderCheck, TabsTyped
  <2>2. QED  BY <2>1, InitiateTyped DEF TabsTyped, OnlyTab, Open
<1>7. ASSUME NEW t \in Tab, NEW c \in Channels, channel' = Detached(c, t),
             page' = [page EXCEPT ![t] = "stopped"] \/ page' = [page EXCEPT ![t] = "killed"],
             isLeader' = [isLeader EXCEPT ![t] = FALSE], timers' = [timers EXCEPT ![t] = {}],
             UNCHANGED <<leaderId, leaderTerm, electionTerm, electing>>,
             \A p, q \in Tab : q \notin Open => c[p][q] = channel[p][q]
      PROVE  Kept(t)
  <2>1. /\ channel' \in Channels
        /\ \A p, q \in Tab : channel'[p][q] = IF q = t THEN <<>> ELSE c[p][q]
    <3>1. /\ Detached(c, t) \in Channels
          /\ \A p, q \in Tab : Detached(c, t)[p][q] = IF q = t THEN <<>> ELSE c[p][q]
      BY DetachedChannels
    <3>2. channel' = Detached(c, t)
      BY <1>7
    <3>3. QED  BY <3>1, <3>2
  <2>2. TabsTyped'
    BY <1>7 DEF TabsTyped
  <2>3. OnlyTab(t)
    BY <1>7, <2>1 DEF TabsTyped, OnlyTab, Open
  <2>4. QED  BY <2>1, <2>2, <2>3
<1>8. ASSUME NEW t \in Tab, Stop(t) PROVE Kept(t)
  <2> DEFINE c == IF isLeader[t] THEN Posted(channel, t, Message("resign", 0)) ELSE channel
  <2>1. /\ c \in Channels
        /\ \A p, q \in Tab : q \notin Open => c[p][q] = channel[p][q]
    BY <1>0, PostedChannels
  <2>2. channel' = Detached(c, t)
    BY <1>8 DEF Stop
  <2> HIDE DEF c
  <2>3. QED  BY <1>7, <1>8, <2>1, <2>2 DEF Stop
<1>9. ASSUME NEW t \in Tab, Kill(t) PROVE Kept(t)
  BY <1>7, <1>9 DEF Kill
<1>10. ASSUME NEW p \in Tab, NEW t \in Tab, Receive(p, t) PROVE Kept(t)
  <2> DEFINE m == Head(channel[p][t])
             c == [channel EXCEPT ![p][t] = Tail(@)]
             beat == Message("heartbeat", leaderTerm[t])
  <2>1. /\ t \in Open /\ m \in Messages /\ c \in Channels
        /\ \A r, q \in Tab : q \notin Open => c[r][q] = channel[r][q]
    BY <1>10, ReceivedChannels DEF Receive, ClosedTabs
  <2>2. beat \in Messages /\ m.term \in Nat
    BY <1>0, <2>1 DEF TabsTyped, Messages
  <2>3. channel' = c \/ channel' = Posted(c, t, beat)
    BY <1>10 DEF Receive, OnCandidate, OnElected, OnHeartbeat, OnResign
  <2>4. page' = page /\ electionTerm' = electionTerm
    BY <1>10 DEF Receive, OnCandidate, OnElected, OnHeartbeat, OnResign
  <2>8. OnCandidate(p, t, m, c) \/ OnElected(p, t, m, c) \/ OnHeartbeat(p, t, m, c) \/ OnResign(p, t, c)
    BY <1>10 DEF Receive
  <2> HIDE DEF c, beat, m
  <2>5. channel' \in Channels /\ \A r, q \in Tab : q \notin Open => channel'[r][q] = channel[r][q]
    <3>1. /\ Posted(c, t, beat) \in Channels
          /\ \A r, q \in Tab : Posted(c, t, beat)[r][q] =
               IF r = t /\ q \in Open \ {t} THEN Append(c[r][q], beat) ELSE c[r][q]
      BY <2>1, <2>2, PostedChannels
    <3>2. CASE channel' = c
      BY <2>1, <3>2
    <3>3. CASE channel' = Posted(c, t, beat)
      BY <2>1, <3>1, <3>3
    <3>4. QED  BY <2>3, <3>2, <3>3
  <2>6. /\ TabsTyped'
        /\ \A q \in Tab : q # t => isLeader'[q] = isLeader[q] /\ timers'[q] = timers[q]
    <3>1. CASE OnCandidate(p, t, m, c)
      <4>1. isLeader' = isLeader \/ isLeader' = [isLeader EXCEPT ![t] = FALSE]
        BY <3>1 DEF OnCandidate
      <4>2. leaderTerm' \in [Tab -> Nat]
        BY <2>2, <3>1 DEF OnCandidate, TabsTyped
      <4>3. QED  BY <2>4, <3>1, <4>1, <4>2 DEF OnCandidate, TabsTyped
    <3>2. CASE OnElected(p, t, m, c)
      <4>1. \/ UNCHANGED <<isLeader, leaderId, leaderTerm, electing>>
            \/ isLeader' = [isLeader EXCEPT ![t] = FALSE] /\ Follow(t, p, m.term)
        BY <3>2 DEF OnElected
      <4>2. timers' = timers
        BY <3>2 DEF OnElected
      <4>3. CASE UNCHANGED <<isLeader, leaderId, leaderTerm, electing>>
        BY <2>4, <4>2, <4>3 DEF TabsTyped
      <4>4. CASE isLeader' = [isLeader EXCEPT ![t] = FALSE] /\ Follow(t, p, m.term)
        BY <2>2, <2>4, <4>2, <4>4 DEF Follow, TabsTyped
      <4>5. QED  BY <4>1, <4>3, <4>4
    <3>3. CASE OnHeartbeat(p, t, m, c)
      <4>1. isLeader' = isLeader \/ isLeader' = [isLeader EXCEPT ![t] = FALSE]
        <5>1. CASE m.term >= leaderTerm[t] /\ Yields(t, p, m.term)
          BY <3>3, <5>1 DEF OnHeartbeat, TabsTyped
        <5>2. CASE m.term >= leaderTerm[t] /\ ~Yields(t, p, m.term)
          BY <3>3, <5>2 DEF OnHeartbeat, TabsTyped
        <5>3. CASE ~(m.term >= leaderTerm[t])
          BY <3>3, <5>3 DEF OnHeartbeat
        <5>4. QED  BY <5>1, <5>2, <5>3
      <4>4. isLeader' \in [Tab -> BOOLEAN] /\ \A q \in Tab : q # t => isLeader'[q] = isLeader[q]
        BY <4>1 DEF TabsTyped
      <4>2. /\ leaderTerm' \in [Tab -> Nat] /\ leaderId' \in [Tab -> Tab \cup {NoTab}]
            /\ electing' \in [Tab -> BOOLEAN] /\ timers' = timers
        BY <2>2, <3>3 DEF OnHeartbeat, Follow, TabsTyped
      <4>3. QED  BY <2>4, <4>2, <4>4 DEF TabsTyped
    <3>4. CASE OnResign(p, t, c)
      <4>1. timers[t] \cup {"resign"} \in SUBSET {"initial", "election", "resign"}
        BY DEF TabsTyped
      <4>2. CASE p = leaderId[t]
        <5>1. /\ leaderId' = [leaderId EXCEPT ![t] = NoTab]
              /\ electing' = [electing EXCEPT ![t] = FALSE]
              /\ timers' = [timers EXCEPT ![t] = timers[t] \cup {"resign"}]
              /\ UNCHANGED <<isLeader, leaderTerm, electionTerm>>
          BY <3>4, <4>2 DEF OnResign
        <5>2. /\ leaderId' \in [Tab -> Tab \cup {NoTab}]
              /\ electing' \in [Tab -> BOOLEAN]
              /\ timers' \in [Tab -> SUBSET {"initial", "election", "resign"}]
          BY <4>1, <5>1 DEF TabsTyped
        <5>3. \A q \in Tab : q # t => timers'[q] = timers[q]
          BY <5>1 DEF TabsTyped
        <5>4. QED  BY <2>4, <5>1, <5>2, <5>3 DEF TabsTyped
      <4>3. CASE p # leaderId[t]
        BY <2>4, <3>4, <4>3 DEF OnResign, TabsTyped
      <4>4. QED  BY <4>2, <4>3
    <3>5. QED  BY <2>8, <3>1, <3>2, <3>3, <3>4
  <2>7. QED  BY <2>1, <2>4, <2>5, <2>6 DEF OnlyTab, Open
<1>11. CASE UNCHANGED vars
  BY <1>11 DEF vars, tabVars, TabsTyped, ClosedTabs, Open
<1>12. CASE Next
  BY <1>2, <1>3, <1>4, <1>5, <1>6, <1>8, <1>9, <1>10, <1>12, OnlyTabKeepsClosed DEF Next
<1>13. QED  BY <1>11, <1>12

LEMMA TypesInvariant == Spec => [](TabsTyped /\ channel \in Channels /\ ClosedTabs)
<1>1. Init => TabsTyped /\ channel \in Channels /\ ClosedTabs
  <2>1. <<>> \in Seq(Messages)
    OBVIOUS
  <2>2. QED  BY <2>1, TabAssumption DEF Init, TabsTyped, Channels, ClosedTabs
<1>2. TabsTyped /\ channel \in Channels /\ ClosedTabs /\ [Next]_vars
        => (TabsTyped /\ channel \in Channels /\ ClosedTabs)'
  BY TypesKept
<1>3. QED  BY <1>1, <1>2, PTL DEF Spec

\* A tab without a channel neither leads nor hears nor has a timer, whatever the tabs do.
THEOREM TypeCorrect == Spec => []TypeOK
<1>1. Init => BeatsTyped
  BY BoundAssumption DEF Init, BeatsTyped
<1>2. BeatsTyped /\ [Next]_vars => BeatsTyped'
  BY BeatsKept
<1>3. Spec => []BeatsTyped
  BY <1>1, <1>2, PTL DEF Spec
<1>4. QED  BY <1>3, TypesInvariant, TypeParts, PTL

-----------------------------------------------------------------------------
(* What a step does to the claims and the channels *)

\* t has said m to every other open tab, and nobody heard anything.
Says(t, m) ==
  \A p, q \in Tab : channel'[p][q] =
    IF p = t /\ q \in Open \ {t} THEN Append(channel[p][q], m) ELSE channel[p][q]

NoNewClaims(tabs) == \A q \in tabs : Claims(q)' => Claims(q)

Rests ==
  UNCHANGED <<isLeader, leaderTerm, electionTerm, channel>> /\ NoNewClaims(Tab)

Stands(t) ==
  /\ t \in Open /\ ~isLeader[t]
  /\ UNCHANGED <<isLeader, leaderTerm>>
  /\ electionTerm' = [electionTerm EXCEPT ![t] = NextTerm(t)]
  /\ Says(t, Message("candidate", NextTerm(t)))
  /\ NoNewClaims(Tab \ {t})

Leads(t) ==
  /\ t \in Open /\ Claims(t)
  /\ isLeader' = [isLeader EXCEPT ![t] = TRUE]
  /\ leaderTerm' = [leaderTerm EXCEPT ![t] = electionTerm[t]]
  /\ electionTerm' = electionTerm
  /\ Says(t, Message("elected", electionTerm[t]))
  /\ NoNewClaims(Tab)

Speaks(t) ==
  /\ t \in Open /\ isLeader[t]
  /\ UNCHANGED <<isLeader, leaderTerm, electionTerm>>
  /\ Says(t, Message("heartbeat", leaderTerm[t]))
  /\ NoNewClaims(Tab)

Leaves(t) ==
  /\ isLeader' = [isLeader EXCEPT ![t] = FALSE]
  /\ UNCHANGED <<leaderTerm, electionTerm>>
  /\ NoNewClaims(Tab) /\ ~Claims(t)'
  /\ \A p, q \in Tab :
       \/ channel'[p][q] = channel[p][q]
       \/ q = t /\ channel'[p][q] = <<>>
       \/ p = t /\ channel'[p][q] = Append(channel[p][q], Message("resign", 0))

\* What is left of the channels when t has heard p.
Heard(p, t, r, q) == IF r = p /\ q = t THEN Tail(channel[p][t]) ELSE channel[r][q]

Answers(p, t) ==
  /\ isLeader'[t]
  /\ \A r, q \in Tab : channel'[r][q] =
       IF r = t /\ q \in Open \ {t}
       THEN Append(Heard(p, t, r, q), Message("heartbeat", leaderTerm[t]))
       ELSE Heard(p, t, r, q)

Hears(p, t, m) ==
  /\ t \in Open /\ channel[p][t] # <<>> /\ m = Head(channel[p][t])
  /\ \A q \in Tab : q # t => isLeader'[q] = isLeader[q] /\ leaderTerm'[q] = leaderTerm[q]
  /\ isLeader'[t] => isLeader[t] /\ leaderTerm'[t] = leaderTerm[t]
  /\ leaderTerm'[t] \in {leaderTerm[t], m.term}
  /\ electionTerm' = electionTerm
  /\ NoNewClaims(Tab)
  /\ \/ \A r, q \in Tab : channel'[r][q] = Heard(p, t, r, q)
     \/ Answers(p, t)
  /\ m.type = "candidate" /\ leaderTerm[t] >= m.term /\ isLeader'[t] => Answers(p, t)
  /\ /\ m.type \in {"elected", "heartbeat"} /\ m.term >= leaderTerm[t]
     /\ isLeader[t] => Yields(t, p, m.term)
     => ~Claims(t)'

LEMMA InitiateStands ==
  ASSUME TabsTyped, channel \in Channels, NEW t \in Tab, t \in Open,
         NEW armed, armed \subseteq timers[t],
         InitiateElection(t, armed), UNCHANGED <<page, isLeader, leaderTerm>>
  PROVE  Rests \/ Stands(t)
<1>1. CASE isLeader[t] \/ electing[t]
  <2>1. timers' = [timers EXCEPT ![t] = armed] /\ UNCHANGED <<electing, electionTerm, channel>>
    BY <1>1 DEF InitiateElection
  <2>2. \A q \in Tab : timers'[q] \subseteq timers[q]
    BY <2>1 DEF TabsTyped
  <2>3. QED  BY <2>1, <2>2 DEF Rests, NoNewClaims, Claims
<1>2. CASE ~(isLeader[t] \/ electing[t])
  <2>1. /\ timers' = [timers EXCEPT ![t] = armed \cup {"election"}]
        /\ electing' = [electing EXCEPT ![t] = TRUE]
        /\ electionTerm' = [electionTerm EXCEPT ![t] = NextTerm(t)]
        /\ channel' = Posted(channel, t, Message("candidate", NextTerm(t)))
    BY <1>2 DEF InitiateElection
  <2>2. Message("candidate", NextTerm(t)) \in Messages
    BY NextTermTyped, MessageTyped DEF MessageTypes
  <2>3. Says(t, Message("candidate", NextTerm(t)))
    BY <2>1, <2>2, PostedChannels DEF Says
  <2>4. NoNewClaims(Tab \ {t})
    BY <2>1 DEF NoNewClaims, Claims, TabsTyped
  <2>5. QED  BY <1>2, <2>1, <2>3, <2>4 DEF Stands
<1>3. QED  BY <1>1, <1>2

LEMMA ReceiveHears ==
  ASSUME TabsTyped, channel \in Channels, ClosedTabs,
         NEW p \in Tab, NEW t \in Tab, Receive(p, t)
  PROVE  Head(channel[p][t]) \in Messages /\ Hears(p, t, Head(channel[p][t]))
<1> DEFINE m == Head(channel[p][t])
           c == [channel EXCEPT ![p][t] = Tail(@)]
           beat == Message("heartbeat", leaderTerm[t])
<1>1. /\ t \in Open /\ m \in Messages /\ c \in Channels /\ beat \in Messages
      /\ m.term \in Nat /\ channel[p][t] # <<>>
      /\ \A r, q \in Tab : c[r][q] = Heard(p, t, r, q)
  <2>1. channel[p][t] # <<>> /\ t \in Open
    BY DEF Receive, ClosedTabs
  <2>2. m \in Messages /\ c \in Channels /\ \A r, q \in Tab : c[r][q] = Heard(p, t, r, q)
    BY <2>1, ReceivedChannels DEF Heard
  <2>3. beat \in Messages
    BY MessageTyped DEF MessageTypes, TabsTyped
  <2>4. QED  BY <2>1, <2>2, <2>3 DEF Messages
<1>2. /\ \/ m.type = "candidate" /\ OnCandidate(p, t, m, c)
         \/ m.type = "elected"   /\ OnElected(p, t, m, c)
         \/ m.type = "heartbeat" /\ OnHeartbeat(p, t, m, c)
         \/ m.type = "resign"    /\ OnResign(p, t, c)
      /\ m = Head(channel[p][t])
  BY DEF Receive
<1>3. \A r, q \in Tab : Posted(c, t, beat)[r][q] =
        IF r = t /\ q \in Open \ {t} THEN Append(Heard(p, t, r, q), beat) ELSE Heard(p, t, r, q)
  <2>1. \A r, q \in Tab : Posted(c, t, beat)[r][q] =
          IF r = t /\ q \in Open \ {t} THEN Append(c[r][q], beat) ELSE c[r][q]
    <3> HIDE DEF c, beat
    <3>1. QED  BY <1>1, PostedChannels
  <2> HIDE DEF c, beat
  <2>2. QED  BY <1>1, <2>1
<1>4. channel' = Posted(c, t, beat) /\ isLeader'[t] => Answers(p, t)
  <2> HIDE DEF c
  <2>1. QED  BY <1>3 DEF Answers
<1>5. channel' = c => \A r, q \in Tab : channel'[r][q] = Heard(p, t, r, q)
  <2> HIDE DEF c
  <2>1. QED  BY <1>1
<1>6. electionTerm' = electionTerm
  BY <1>2 DEF OnCandidate, OnElected, OnHeartbeat, OnResign
<1> SUFFICES Hears(p, t, m)
  BY <1>1
<1> HIDE DEF m, c
<1>7. CASE m.type = "candidate" /\ OnCandidate(p, t, m, c)
  <2>1. NoNewClaims(Tab) /\ \A q \in Tab : q # t => isLeader'[q] = isLeader[q]
    <3>1. isLeader' = isLeader \/ isLeader' = [isLeader EXCEPT ![t] = FALSE]
      BY <1>7 DEF OnCandidate
    <3>2. electing' = electing /\ timers' = timers
      BY <1>7 DEF OnCandidate
    <3>3. \A q \in Tab : (isLeader'[q] => isLeader[q]) /\ (q # t => isLeader'[q] = isLeader[q])
      BY <3>1 DEF TabsTyped
    <3>4. QED  BY <3>2, <3>3 DEF NoNewClaims, Claims
  <2>2. CASE isLeader[t] /\ leaderTerm[t] >= m.term
    <3>1. channel' = Posted(c, t, beat) /\ UNCHANGED <<isLeader, leaderTerm>>
      BY <1>7, <2>2 DEF OnCandidate
    <3>2. Answers(p, t)
      BY <1>4, <2>2, <3>1
    <3>3. QED  BY <1>1, <1>2, <1>6, <1>7, <2>1, <2>2, <3>1, <3>2 DEF Hears
  <2>3. CASE ~(isLeader[t] /\ leaderTerm[t] >= m.term)
    <3>1. /\ channel' = c
          /\ leaderTerm' = [leaderTerm EXCEPT ![t] = IF m.term > @ THEN m.term ELSE @]
          /\ isLeader' = [isLeader EXCEPT ![t] = FALSE]
      BY <1>7, <2>3 DEF OnCandidate
    <3>2. /\ ~isLeader'[t] /\ leaderTerm'[t] \in {leaderTerm[t], m.term}
          /\ \A q \in Tab : q # t => leaderTerm'[q] = leaderTerm[q]
      BY <3>1 DEF TabsTyped
    <3>3. QED  BY <1>1, <1>2, <1>5, <1>6, <1>7, <2>1, <3>1, <3>2 DEF Hears
  <2>4. QED  BY <2>2, <2>3
<1>8. ASSUME m.type \in {"elected", "heartbeat"},
             isLeader' = [isLeader EXCEPT ![t] = FALSE], Follow(t, p, m.term),
             channel' = c, timers' = timers
      PROVE  Hears(p, t, m)
  <2>1. /\ ~isLeader'[t] /\ ~electing'[t] /\ leaderTerm'[t] = m.term
        /\ \A q \in Tab : q # t =>
             isLeader'[q] = isLeader[q] /\ leaderTerm'[q] = leaderTerm[q] /\ electing'[q] = electing[q]
    BY <1>8 DEF Follow, TabsTyped
  <2>2. NoNewClaims(Tab) /\ ~Claims(t)'
    BY <1>8, <2>1 DEF NoNewClaims, Claims
  <2>3. QED  BY <1>1, <1>2, <1>5, <1>6, <1>8, <2>1, <2>2 DEF Hears
<1>9. ASSUME m.type # "candidate",
             m.type \in {"elected", "heartbeat"} /\ m.term >= leaderTerm[t]
               => isLeader[t] /\ ~Yields(t, p, m.term),
             isLeader' = isLeader, leaderTerm' = leaderTerm, NoNewClaims(Tab),
             channel' = c \/ (isLeader[t] /\ channel' = Posted(c, t, beat))
      PROVE  Hears(p, t, m)
  <2>1. (\A r, q \in Tab : channel'[r][q] = Heard(p, t, r, q)) \/ Answers(p, t)
    BY <1>4, <1>5, <1>9
  <2>2. QED  BY <1>1, <1>2, <1>6, <1>9, <2>1 DEF Hears
<1>10. CASE m.type = "elected" /\ OnElected(p, t, m, c)
  <2>1. timers' = timers
    BY <1>10 DEF OnElected
  <2>2. CASE /\ m.term < leaderTerm[t] /\ channel' = c
             /\ UNCHANGED <<isLeader, leaderId, leaderTerm, electing>>
    BY <1>1, <1>9, <1>10, <2>1, <2>2 DEF NoNewClaims, Claims, TabsTyped
  <2>3. CASE /\ m.term >= leaderTerm[t] /\ isLeader[t] /\ ~Yields(t, p, m.term)
             /\ channel' = Posted(c, t, beat)
             /\ UNCHANGED <<isLeader, leaderId, leaderTerm, electing>>
    BY <1>9, <1>10, <2>1, <2>3 DEF NoNewClaims, Claims
  <2>4. CASE /\ m.term >= leaderTerm[t] /\ (isLeader[t] => Yields(t, p, m.term))
             /\ isLeader' = [isLeader EXCEPT ![t] = FALSE]
             /\ Follow(t, p, m.term) /\ channel' = c
    BY <1>8, <1>10, <2>1, <2>4
  <2>5. QED  BY <1>10, <2>2, <2>3, <2>4 DEF OnElected
<1>11. CASE m.type = "heartbeat" /\ OnHeartbeat(p, t, m, c)
  <2>1. timers' = timers /\ channel' = c
    BY <1>11 DEF OnHeartbeat
  <2>2. CASE ~(m.term >= leaderTerm[t])
    <3>1. UNCHANGED <<isLeader, leaderId, leaderTerm, electing>>
      BY <1>11, <2>2 DEF OnHeartbeat
    <3>2. QED  BY <1>9, <1>11, <2>1, <2>2, <3>1 DEF NoNewClaims, Claims
  <2>3. CASE m.term >= leaderTerm[t] /\ ~(isLeader[t] => Yields(t, p, m.term))
    <3>1. Follow(t, p, m.term) /\ isLeader' = [isLeader EXCEPT ![t] = isLeader[t] /\ ~Yields(t, p, m.term)]
      BY <1>11, <2>3 DEF OnHeartbeat
    <3>2. isLeader' = isLeader
      BY <2>3, <3>1 DEF TabsTyped
    <3>3. m.term = leaderTerm[t]
      BY <1>1, <2>3 DEF Yields, TabsTyped
    <3>4. leaderTerm' = leaderTerm
      BY <3>1, <3>3 DEF Follow, TabsTyped
    <3>5. \A q \in Tab : electing'[q] => electing[q]
      BY <3>1 DEF Follow, TabsTyped
    <3>6. QED  BY <1>9, <1>11, <2>1, <2>3, <3>2, <3>4, <3>5 DEF NoNewClaims, Claims
  <2>4. CASE m.term >= leaderTerm[t] /\ (isLeader[t] => Yields(t, p, m.term))
    <3>1. Follow(t, p, m.term) /\ isLeader' = [isLeader EXCEPT ![t] = isLeader[t] /\ ~Yields(t, p, m.term)]
      BY <1>11, <2>4 DEF OnHeartbeat
    <3>2. (isLeader[t] /\ ~Yields(t, p, m.term)) = FALSE
      BY <2>4
    <3>3. isLeader' = [isLeader EXCEPT ![t] = FALSE]
      BY <3>1, <3>2
    <3>4. QED  BY <1>8, <1>11, <2>1, <3>1, <3>3
  <2>5. QED  BY <2>2, <2>3, <2>4
<1>12. CASE m.type = "resign" /\ OnResign(p, t, c)
  <2>1. channel' = c /\ UNCHANGED <<isLeader, leaderTerm>>
    BY <1>12 DEF OnResign
  <2>2. \A q \in Tab : /\ electing'[q] => electing[q]
                       /\ "election" \in timers'[q] => "election" \in timers[q]
    BY <1>12 DEF OnResign, TabsTyped
  <2>3. NoNewClaims(Tab)
    BY <2>1, <2>2 DEF NoNewClaims, Claims
  <2>4. QED  BY <1>9, <1>12, <2>1, <2>3
<1>13. QED  BY <1>1, <1>2, <1>7, <1>10, <1>11, <1>12

\* Every step is one of these.
LEMMA StepKinds ==
  ASSUME TabsTyped, channel \in Channels, ClosedTabs, [Next]_vars
  PROVE  \/ Rests
         \/ \E t \in Tab : Stands(t) \/ Leads(t) \/ Speaks(t) \/ Leaves(t)
         \/ \E p, t \in Tab : \E m \in Messages : Hears(p, t, m)
<1>1. ASSUME NEW t \in Tab, timers[t] # {} \/ isLeader[t] PROVE t \in Open
  BY <1>1 DEF ClosedTabs
<1>2. ASSUME NEW t \in Tab, Start(t) PROVE Rests
  <2>1. UNCHANGED <<isLeader, leaderTerm, electionTerm, electing, channel>>
    BY <1>2 DEF Start
  <2>2. \A q \in Tab : "election" \in timers'[q] => "election" \in timers[q]
    BY <1>2 DEF Start, TabsTyped
  <2>3. QED  BY <2>1, <2>2 DEF Rests, NoNewClaims, Claims
<1>3. ASSUME NEW t \in Tab, NEW timer \in {"initial", "resign"}, Stagger(t, timer)
      PROVE  Rests \/ Stands(t)
  <2>1. /\ t \in Open /\ UNCHANGED <<page, isLeader, leaderTerm>>
        /\ timers[t] \ {timer} \subseteq timers[t]
    BY <1>1, <1>3 DEF Stagger
  <2>2. CASE leaderId[t] = NoTab
    BY <1>3, <2>1, <2>2, InitiateStands DEF Stagger
  <2>3. CASE leaderId[t] # NoTab
    <3>1. timers' = [timers EXCEPT ![t] = @ \ {timer}] /\ UNCHANGED <<electing, electionTerm, channel>>
      BY <1>3, <2>3 DEF Stagger
    <3>2. \A q \in Tab : timers'[q] \subseteq timers[q]
      BY <3>1 DEF TabsTyped
    <3>3. QED  BY <2>1, <3>1, <3>2 DEF Rests, NoNewClaims, Claims
  <2>4. QED  BY <2>2, <2>3
<1>4. ASSUME NEW t \in Tab, ElectionTimeout(t) PROVE Rests \/ Leads(t)
  <2>1. /\ t \in Open /\ electionTerm' = electionTerm
        /\ electing' = [electing EXCEPT ![t] = FALSE]
        /\ timers' = [timers EXCEPT ![t] = @ \ {"election"}]
    BY <1>1, <1>4 DEF ElectionTimeout
  <2>2. \A q \in Tab : (electing'[q] => electing[q]) /\ timers'[q] \subseteq timers[q]
    BY <2>1 DEF TabsTyped
  <2>3. CASE UNCHANGED <<isLeader, leaderId, leaderTerm, channel>>
    BY <2>1, <2>2, <2>3 DEF Rests, NoNewClaims, Claims
  <2>4. CASE /\ electing[t]
             /\ isLeader' = [isLeader EXCEPT ![t] = TRUE]
             /\ leaderTerm' = [leaderTerm EXCEPT ![t] = electionTerm[t]]
             /\ channel' = Posted(channel, t, Message("elected", electionTerm[t]))
    <3>1. Claims(t)
      BY <1>4, <2>4 DEF ElectionTimeout, Claims
    <3>2. \A q \in Tab : q # t => isLeader'[q] = isLeader[q]
      BY <2>4 DEF TabsTyped
    <3>3. NoNewClaims(Tab)
      BY <2>2, <3>1, <3>2 DEF NoNewClaims, Claims
    <3>4. Message("elected", electionTerm[t]) \in Messages
      BY MessageTyped DEF MessageTypes, TabsTyped
    <3>5. Says(t, Message("elected", electionTerm[t]))
      BY <2>4, <3>4, PostedChannels DEF Says
    <3>6. QED  BY <2>1, <2>4, <3>1, <3>3, <3>5 DEF Leads
  <2>5. QED  BY <1>4, <2>3, <2>4 DEF ElectionTimeout
<1>5. ASSUME NEW t \in Tab, Heartbeat(t) PROVE Speaks(t)
  <2>1. /\ channel' = Posted(channel, t, Message("heartbeat", leaderTerm[t]))
        /\ Message("heartbeat", leaderTerm[t]) \in Messages
        /\ t \in Open /\ isLeader[t] /\ UNCHANGED <<isLeader, leaderTerm, electionTerm, electing, timers>>
    BY <1>1, <1>5, MessageTyped DEF Heartbeat, MessageTypes, TabsTyped
  <2>2. Says(t, Message("heartbeat", leaderTerm[t]))
    BY <2>1, PostedChannels DEF Says
  <2>3. QED  BY <2>1, <2>2 DEF Speaks, NoNewClaims, Claims
<1>6. ASSUME NEW t \in Tab, LeaderCheck(t) PROVE Rests \/ Stands(t)
  BY <1>6, InitiateStands DEF LeaderCheck
<1>7. ASSUME NEW t \in Tab, NEW c \in Channels, channel' = Detached(c, t),
             isLeader' = [isLeader EXCEPT ![t] = FALSE], timers' = [timers EXCEPT ![t] = {}],
             UNCHANGED <<leaderTerm, electionTerm, electing>>,
             \A p, q \in Tab : \/ c[p][q] = channel[p][q]
                               \/ p = t /\ c[p][q] = Append(channel[p][q], Message("resign", 0))
      PROVE  Leaves(t)
  <2>1. \A p, q \in Tab : channel'[p][q] = IF q = t THEN <<>> ELSE c[p][q]
    <3>1. \A p, q \in Tab : Detached(c, t)[p][q] = IF q = t THEN <<>> ELSE c[p][q]
      BY DetachedChannels
    <3>2. channel' = Detached(c, t)
      BY <1>7
    <3>3. QED  BY <3>1, <3>2
  <2>2. /\ ~isLeader'[t] /\ timers'[t] = {}
        /\ \A q \in Tab : q # t => isLeader'[q] = isLeader[q] /\ timers'[q] = timers[q]
    BY <1>7 DEF TabsTyped
  <2>3. NoNewClaims(Tab) /\ ~Claims(t)'
    BY <1>7, <2>2 DEF NoNewClaims, Claims
  <2>4. \A p, q \in Tab :
          \/ channel'[p][q] = channel[p][q]
          \/ q = t /\ channel'[p][q] = <<>>
          \/ p = t /\ channel'[p][q] = Append(channel[p][q], Message("resign", 0))
    BY <1>7, <2>1
  <2>5. QED  BY <1>7, <2>3, <2>4 DEF Leaves
<1>8. ASSUME NEW t \in Tab, Stop(t) PROVE Leaves(t)
  <2> DEFINE c == IF isLeader[t] THEN Posted(channel, t, Message("resign", 0)) ELSE channel
  <2>1. Message("resign", 0) \in Messages
    BY MessageTyped DEF MessageTypes
  <2>2. c \in Channels
    BY <2>1, PostedChannels
  <2>3. \A p, q \in Tab : \/ c[p][q] = channel[p][q]
                          \/ p = t /\ c[p][q] = Append(channel[p][q], Message("resign", 0))
    <3>1. \A p, q \in Tab : Posted(channel, t, Message("resign", 0))[p][q] =
            IF p = t /\ q \in Open \ {t} THEN Append(channel[p][q], Message("resign", 0))
            ELSE channel[p][q]
      BY <2>1, PostedChannels
    <3>2. CASE isLeader[t]
      BY <3>1, <3>2
    <3>3. CASE ~isLeader[t]
      BY <3>3
    <3>4. QED  BY <3>2, <3>3
  <2>4. channel' = Detached(c, t)
    BY <1>8 DEF Stop
  <2> HIDE DEF c
  <2>5. QED  BY <1>7, <1>8, <2>2, <2>3, <2>4 DEF Stop
<1>9. ASSUME NEW t \in Tab, Kill(t) PROVE Leaves(t)
  BY <1>7, <1>9 DEF Kill
<1>10. ASSUME NEW p \in Tab, NEW t \in Tab, Receive(p, t)
       PROVE  \E m \in Messages : Hears(p, t, m)
  BY <1>10, ReceiveHears
<1>11. CASE UNCHANGED vars
  BY <1>11 DEF vars, tabVars, Rests, NoNewClaims, Claims
<1>12. CASE Next
  BY <1>2, <1>3, <1>4, <1>5, <1>6, <1>8, <1>9, <1>10, <1>12 DEF Next
<1>13. QED  BY <1>11, <1>12

-----------------------------------------------------------------------------
(* Terms *)

\* No message of s is ahead of the term n.
Upto(s, n) == \A i \in 1..Len(s) : s[i].term <= n

LEMMA UptoAppend ==
  ASSUME NEW s \in Seq(Messages), NEW m \in Messages, NEW n \in Nat, Upto(s, n), m.term <= n
  PROVE  Upto(Append(s, m), n)
<1>1. /\ Len(Append(s, m)) = Len(s) + 1 /\ Len(s) \in Nat
      /\ \A i \in 1..Len(s) : Append(s, m)[i] = s[i]
      /\ Append(s, m)[Len(s) + 1] = m
  BY AppendProperties
<1>2. QED  BY <1>1 DEF Upto

LEMMA UptoTail ==
  ASSUME NEW s \in Seq(Messages), NEW n \in Nat, s # <<>>, Upto(s, n)
  PROVE  Upto(Tail(s), n) /\ Head(s).term <= n
<1>1. /\ Len(Tail(s)) = Len(s) - 1
      /\ \A i \in 1..Len(Tail(s)) : Tail(s)[i] = s[i + 1]
  BY HeadTailProperties
<1>2. Len(s) \in Nat \ {0}
  BY EmptySeq
<1>3. Head(s) = s[1]
  OBVIOUS
<1>4. QED  BY <1>1, <1>2, <1>3 DEF Upto

LEMMA UptoHigher ==
  ASSUME NEW s \in Seq(Messages), NEW n \in Nat, NEW k \in Nat, n <= k, Upto(s, n)
  PROVE  Upto(s, k)
<1>1. \A i \in 1..Len(s) : s[i] \in Messages
  OBVIOUS
<1>2. \A m \in Messages : m.term \in Nat
  BY DEF Messages
<1>3. \A i \in 1..Len(s) : s[i].term \in Nat
  BY <1>1, <1>2
<1>4. QED  BY <1>3 DEF Upto

LEMMA TermsParts ==
  Terms <=> /\ \A t \in Tab : isLeader[t] => leaderTerm[t] = electionTerm[t]
            /\ \A t \in Tab : \E q \in Tab : leaderTerm[t] <= electionTerm[q]
            /\ \A p, t \in Tab : Upto(channel[p][t], electionTerm[p])
BY DEF Terms, Upto

\* The messages that the election posts carry a term their sender has stood for.
LEMMA SaidUpto ==
  ASSUME channel \in Channels, NEW t \in Tab, NEW m \in Messages, Says(t, m),
         electionTerm \in [Tab -> Nat], electionTerm' \in [Tab -> Nat],
         \A q \in Tab : electionTerm[q] <= electionTerm'[q],
         \A p, q \in Tab : Upto(channel[p][q], electionTerm[p]),
         m.term <= electionTerm'[t]
  PROVE  \A p, q \in Tab : Upto(channel'[p][q], electionTerm'[p])
<1> TAKE p, q \in Tab
<1>1. channel[p][q] \in Seq(Messages) /\ Upto(channel[p][q], electionTerm'[p])
  BY UptoHigher DEF Channels
<1>2. CASE channel'[p][q] = channel[p][q]
  BY <1>1, <1>2
<1>3. CASE p = t /\ channel'[p][q] = Append(channel[p][q], m)
  BY <1>1, <1>3, UptoAppend
<1>4. QED  BY <1>2, <1>3 DEF Says

LEMMA TermsKept ==
  ASSUME TabsTyped, channel \in Channels, ClosedTabs, [Next]_vars, Terms
  PROVE  Terms'
<1> DEFINE Led == \A t \in Tab : isLeader[t] => leaderTerm[t] = electionTerm[t]
           Stood == \A t \in Tab : \E q \in Tab : leaderTerm[t] <= electionTerm[q]
           Behind == \A p, t \in Tab : Upto(channel[p][t], electionTerm[p])
<1>0. TabsTyped' /\ channel' \in Channels
  BY TypesKept
<1>1. Led /\ Stood /\ Behind
  BY TermsParts
<1>2. SUFFICES Led' /\ Stood' /\ Behind'
  BY DEF Terms, Upto
<1>2a. ASSUME NEW t \in Tab, NEW m \in Messages, Says(t, m),
              \A q \in Tab : electionTerm[q] <= electionTerm'[q],
              m.term <= electionTerm'[t]
      PROVE  Behind'
  <2>1. electionTerm \in [Tab -> Nat] /\ electionTerm' \in [Tab -> Nat]
    BY <1>0 DEF TabsTyped
  <2>2. QED  BY <1>1, <1>2a, <2>1, SaidUpto
<1>3. CASE Rests
  BY <1>1, <1>3 DEF Rests
<1>4. ASSUME NEW t \in Tab, Stands(t) PROVE Led' /\ Stood' /\ Behind'
  <2>1. /\ NextTerm(t) \in Nat /\ NextTerm(t) > electionTerm[t]
        /\ Message("candidate", NextTerm(t)) \in Messages
        /\ Message("candidate", NextTerm(t)).term = NextTerm(t)
    BY NextTermTyped, MessageTyped DEF MessageTypes, Message
  <2>2. /\ electionTerm'[t] = NextTerm(t)
        /\ \A q \in Tab : q # t => electionTerm'[q] = electionTerm[q]
    BY <1>4 DEF Stands, TabsTyped
  <2>3. \A q \in Tab : electionTerm[q] \in Nat /\ electionTerm'[q] \in Nat /\ leaderTerm[q] \in Nat
    BY <1>0 DEF TabsTyped
  <2>4. \A q \in Tab : electionTerm[q] <= electionTerm'[q]
    BY <2>1, <2>2, <2>3
  <2>5. Led'
    BY <1>1, <1>4, <2>2 DEF Stands
  <2>6. Stood'
    BY <1>1, <1>4, <2>3, <2>4 DEF Stands
  <2>7. Behind'
    <3>1. Says(t, Message("candidate", NextTerm(t)))
      BY <1>4 DEF Stands
    <3>2. NextTerm(t) <= electionTerm'[t]
      BY <2>1, <2>2
    <3> HIDE DEF Behind
    <3>3. QED  BY <1>2a, <2>1, <2>4, <3>1, <3>2
  <2>8. QED  BY <2>5, <2>6, <2>7
<1>5. ASSUME NEW t \in Tab, Leads(t) PROVE Led' /\ Stood' /\ Behind'
  <2>1. /\ leaderTerm'[t] = electionTerm[t] /\ electionTerm' = electionTerm
        /\ \A q \in Tab : q # t => isLeader'[q] = isLeader[q] /\ leaderTerm'[q] = leaderTerm[q]
        /\ Says(t, Message("elected", electionTerm[t]))
    BY <1>5 DEF Leads, TabsTyped
  <2>2. /\ Message("elected", electionTerm[t]) \in Messages
        /\ Message("elected", electionTerm[t]).term = electionTerm[t]
        /\ \A q \in Tab : electionTerm[q] \in Nat
    BY MessageTyped DEF MessageTypes, Message, TabsTyped
  <2>3. Led'
    BY <1>1, <2>1
  <2>4. Stood'
    BY <1>1, <2>1, <2>2
  <2>5. Behind'
    <3>1. \A q \in Tab : electionTerm[q] <= electionTerm'[q]
      BY <2>1, <2>2
    <3>2. Message("elected", electionTerm[t]).term <= electionTerm'[t]
      BY <2>1, <2>2
    <3> HIDE DEF Behind
    <3>3. QED  BY <1>2a, <2>1, <2>2, <3>1, <3>2
  <2>6. QED  BY <2>3, <2>4, <2>5
<1>6. ASSUME NEW t \in Tab, Speaks(t) PROVE Led' /\ Stood' /\ Behind'
  <2>1. /\ UNCHANGED <<isLeader, leaderTerm, electionTerm>>
        /\ Says(t, Message("heartbeat", leaderTerm[t])) /\ leaderTerm[t] = electionTerm[t]
    BY <1>1, <1>6 DEF Speaks
  <2>2. /\ Message("heartbeat", leaderTerm[t]) \in Messages
        /\ Message("heartbeat", leaderTerm[t]).term = electionTerm[t]
        /\ \A q \in Tab : electionTerm[q] \in Nat
    BY <2>1, MessageTyped DEF MessageTypes, Message, TabsTyped
  <2>3. Behind'
    <3>1. \A q \in Tab : electionTerm[q] <= electionTerm'[q]
      BY <2>1, <2>2
    <3>2. Message("heartbeat", leaderTerm[t]).term <= electionTerm'[t]
      BY <2>1, <2>2
    <3> HIDE DEF Behind
    <3>3. QED  BY <1>2a, <2>1, <2>2, <3>1, <3>2
  <2>4. QED  BY <1>1, <2>1, <2>3
<1>7. ASSUME NEW t \in Tab, Leaves(t) PROVE Led' /\ Stood' /\ Behind'
  <2>1. /\ UNCHANGED <<leaderTerm, electionTerm>>
        /\ \A q \in Tab : isLeader'[q] => isLeader[q]
    BY <1>7 DEF Leaves, TabsTyped
  <2>2. /\ Message("resign", 0) \in Messages /\ Message("resign", 0).term = 0
    BY MessageTyped DEF MessageTypes, Message
  <2>3. Behind'
    <3>1. SUFFICES ASSUME NEW p \in Tab, NEW q \in Tab PROVE Upto(channel'[p][q], electionTerm[p])
      BY <2>1
    <3>2. channel[p][q] \in Seq(Messages) /\ electionTerm[p] \in Nat /\ Upto(channel[p][q], electionTerm[p])
      BY <1>1 DEF Channels, TabsTyped
    <3>3. Upto(<<>>, electionTerm[p])
      BY DEF Upto
    <3>4. Upto(Append(channel[p][q], Message("resign", 0)), electionTerm[p])
      BY <2>2, <3>2, UptoAppend
    <3>5. QED  BY <1>7, <3>2, <3>3, <3>4 DEF Leaves
  <2>4. QED  BY <1>1, <2>1, <2>3
<1>8. ASSUME NEW p \in Tab, NEW t \in Tab, NEW m \in Messages, Hears(p, t, m)
      PROVE  Led' /\ Stood' /\ Behind'
  <2>1. /\ t \in Open /\ channel[p][t] # <<>> /\ m = Head(channel[p][t])
        /\ \A q \in Tab : q # t => isLeader'[q] = isLeader[q] /\ leaderTerm'[q] = leaderTerm[q]
        /\ isLeader'[t] => isLeader[t] /\ leaderTerm'[t] = leaderTerm[t]
        /\ leaderTerm'[t] \in {leaderTerm[t], m.term}
        /\ electionTerm' = electionTerm
        /\ (\A r, q \in Tab : channel'[r][q] = Heard(p, t, r, q)) \/ Answers(p, t)
    BY <1>8 DEF Hears
  <2>2. \A r, q \in Tab : /\ channel[r][q] \in Seq(Messages) /\ electionTerm[r] \in Nat
                          /\ Upto(channel[r][q], electionTerm[r])
    BY <1>1 DEF Channels, TabsTyped
  <2>3. Tail(channel[p][t]) \in Seq(Messages) /\ Upto(Tail(channel[p][t]), electionTerm[p])
        /\ m.term <= electionTerm[p]
    BY <2>1, <2>2, UptoTail, HeadTailProperties
  <2>4. \A r, q \in Tab : Heard(p, t, r, q) \in Seq(Messages) /\ Upto(Heard(p, t, r, q), electionTerm[r])
    BY <2>2, <2>3 DEF Heard
  <2>5. Led'
    BY <1>1, <2>1
  <2>6. Stood'
    BY <1>1, <2>1, <2>3
  <2>7. Behind'
    <3>1. SUFFICES ASSUME NEW r \in Tab, NEW q \in Tab PROVE Upto(channel'[r][q], electionTerm[r])
      BY <2>1
    <3>2. CASE channel'[r][q] = Heard(p, t, r, q)
      BY <2>4, <3>2
    <3>3. CASE /\ isLeader'[t] /\ r = t
               /\ channel'[r][q] = Append(Heard(p, t, r, q), Message("heartbeat", leaderTerm[t]))
      <4>1. leaderTerm[t] = electionTerm[t] /\ electionTerm[t] \in Nat
        BY <1>1, <2>1, <2>2, <3>3
      <4>2. /\ Message("heartbeat", leaderTerm[t]) \in Messages
            /\ Message("heartbeat", leaderTerm[t]).term = electionTerm[t]
        BY <4>1, MessageTyped DEF MessageTypes, Message
      <4>3. QED  BY <2>4, <3>3, <4>1, <4>2, UptoAppend
    <3>4. QED  BY <2>1, <3>2, <3>3 DEF Answers
  <2>8. QED  BY <2>5, <2>6, <2>7
<1>9. QED  BY <1>3, <1>4, <1>5, <1>6, <1>7, <1>8, StepKinds

-----------------------------------------------------------------------------
(* The last word of a leader *)

\* A channel that ends with the word of a leader of term n.
LeaderSpoke(s, n) == \E type \in {"elected", "heartbeat"} : s[Len(s)] = Message(type, n)

LEMMA SpokeAppend ==
  ASSUME NEW s \in Seq(Messages), NEW n \in Nat, NEW type \in {"elected", "heartbeat"}
  PROVE  LeaderSpoke(Append(s, Message(type, n)), n)
<1>1. Message(type, n) \in Messages
  BY MessageTyped DEF MessageTypes
<1>2. Append(s, Message(type, n))[Len(Append(s, Message(type, n)))] = Message(type, n)
  BY <1>1, AppendProperties
<1>3. QED  BY <1>2 DEF LeaderSpoke

LEMMA SpokeTail ==
  ASSUME NEW s \in Seq(Messages), NEW n \in Nat, s # <<>>, LeaderSpoke(s, n)
  PROVE  /\ Tail(s) # <<>> => LeaderSpoke(Tail(s), n)
         /\ Tail(s) = <<>> => \E type \in {"elected", "heartbeat"} : Head(s) = Message(type, n)
<1>1. /\ Tail(s) \in Seq(Messages) /\ Len(Tail(s)) = Len(s) - 1
      /\ \A i \in 1..Len(Tail(s)) : Tail(s)[i] = s[i + 1]
  BY HeadTailProperties
<1>2. Len(s) \in Nat \ {0} /\ (Tail(s) # <<>> => Len(Tail(s)) \in Nat \ {0})
  BY <1>1, EmptySeq
<1>3. Head(s) = s[1]
  OBVIOUS
<1>4. Tail(s) # <<>> => Tail(s)[Len(Tail(s))] = s[Len(s)]
  BY <1>1, <1>2
<1>5. Tail(s) = <<>> => Head(s) = s[Len(s)]
  <2>1. Tail(s) = <<>> => Len(s) = 1
    BY <1>1, <1>2
  <2>2. QED  BY <1>3, <2>1
<1>6. QED  BY <1>4, <1>5 DEF LeaderSpoke

LEMMA LastWordParts ==
  LastWord <=> \A p, t \in Tab : p # t /\ isLeader[p] /\ channel[p][t] # <<>>
                                 => LeaderSpoke(channel[p][t], leaderTerm[p])
BY DEF LastWord, LeaderSpoke

LEMMA LastWordKept ==
  ASSUME TabsTyped, channel \in Channels, ClosedTabs, [Next]_vars, LastWord
  PROVE  LastWord'
<1>1. \A r, q \in Tab : /\ channel[r][q] \in Seq(Messages) /\ leaderTerm[r] \in Nat
                        /\ electionTerm[r] \in Nat
  BY DEF Channels, TabsTyped
<1>2. SUFFICES ASSUME NEW r \in Tab, NEW q \in Tab, r # q, isLeader'[r], channel'[r][q] # <<>>
               PROVE  LeaderSpoke(channel'[r][q], leaderTerm'[r])
  BY DEF LastWord, LeaderSpoke
<1>3. isLeader[r] /\ channel[r][q] # <<>> => LeaderSpoke(channel[r][q], leaderTerm[r])
  BY <1>2, LastWordParts
<1>4. CASE Rests
  BY <1>2, <1>3, <1>4 DEF Rests
<1>5. ASSUME NEW t \in Tab, Stands(t) PROVE LeaderSpoke(channel'[r][q], leaderTerm'[r])
  <2>1. r # t /\ UNCHANGED <<isLeader, leaderTerm>> /\ channel'[r][q] = channel[r][q]
    BY <1>2, <1>5 DEF Stands, Says
  <2>2. QED  BY <1>2, <1>3, <2>1
<1>6. ASSUME NEW t \in Tab, Leads(t) PROVE LeaderSpoke(channel'[r][q], leaderTerm'[r])
  <2>1. Says(t, Message("elected", electionTerm[t]))
    BY <1>6 DEF Leads
  <2>2. CASE r = t /\ q \in Open
    <3>1. leaderTerm'[r] = electionTerm[t] /\ channel'[r][q] = Append(channel[r][q], Message("elected", electionTerm[t]))
      BY <1>2, <1>6, <2>1, <2>2 DEF Leads, Says, TabsTyped
    <3>2. QED  BY <1>1, <3>1, SpokeAppend
  <2>3. CASE q \notin Open
    BY <1>2, <2>1, <2>3 DEF Says, ClosedTabs
  <2>4. CASE r # t
    <3>1. isLeader'[r] = isLeader[r] /\ leaderTerm'[r] = leaderTerm[r] /\ channel'[r][q] = channel[r][q]
      BY <1>2, <1>6, <2>1, <2>4 DEF Leads, Says, TabsTyped
    <3>2. QED  BY <1>2, <1>3, <3>1
  <2>5. QED  BY <2>2, <2>3, <2>4
<1>7. ASSUME NEW t \in Tab, Speaks(t) PROVE LeaderSpoke(channel'[r][q], leaderTerm'[r])
  <2>1. Says(t, Message("heartbeat", leaderTerm[t])) /\ UNCHANGED <<isLeader, leaderTerm>>
    BY <1>7 DEF Speaks
  <2>2. CASE r = t /\ q \in Open
    <3>1. channel'[r][q] = Append(channel[r][q], Message("heartbeat", leaderTerm[t]))
      BY <1>2, <2>1, <2>2 DEF Says
    <3>2. QED  BY <1>1, <2>1, <2>2, <3>1, SpokeAppend
  <2>3. CASE ~(r = t /\ q \in Open)
    BY <1>2, <1>3, <2>1, <2>3 DEF Says
  <2>4. QED  BY <2>2, <2>3
<1>8. ASSUME NEW t \in Tab, Leaves(t) PROVE LeaderSpoke(channel'[r][q], leaderTerm'[r])
  <2>1. r # t /\ isLeader'[r] = isLeader[r] /\ leaderTerm' = leaderTerm
    BY <1>2, <1>8 DEF Leaves, TabsTyped
  <2>2. channel'[r][q] = channel[r][q]
    BY <1>2, <1>8, <2>1 DEF Leaves
  <2>3. QED  BY <1>2, <1>3, <2>1, <2>2
<1>9. ASSUME NEW p \in Tab, NEW t \in Tab, NEW m \in Messages, Hears(p, t, m)
      PROVE  LeaderSpoke(channel'[r][q], leaderTerm'[r])
  <2>1. /\ channel[p][t] # <<>> /\ isLeader[r] /\ leaderTerm'[r] = leaderTerm[r]
        /\ (\A x, y \in Tab : channel'[x][y] = Heard(p, t, x, y)) \/ Answers(p, t)
    BY <1>2, <1>9 DEF Hears
  <2>2. Tail(channel[p][t]) \in Seq(Messages) /\ Heard(p, t, r, q) \in Seq(Messages)
    BY <1>1, <2>1, HeadTailProperties DEF Heard
  <2>3. CASE channel'[r][q] = Heard(p, t, r, q)
    <3>1. CASE r = p /\ q = t
      BY <1>1, <1>2, <1>3, <2>1, <2>3, <3>1, SpokeTail DEF Heard
    <3>2. CASE ~(r = p /\ q = t)
      BY <1>2, <1>3, <2>1, <2>3, <3>2 DEF Heard
    <3>3. QED  BY <3>1, <3>2
  <2>4. CASE r = t /\ channel'[r][q] = Append(Heard(p, t, r, q), Message("heartbeat", leaderTerm[t]))
    BY <1>1, <2>1, <2>2, <2>4, SpokeAppend
  <2>5. QED  BY <2>1, <2>3, <2>4 DEF Answers
<1>10. QED  BY <1>4, <1>5, <1>6, <1>7, <1>8, <1>9, StepKinds

\* Whatever the tabs do, a leader leads with the term of its own election, nobody knows a
\* term that no tab has stood for, and the last word of a leader is that it leads.
THEOREM InductiveInvariant == Spec => [](TypeOK /\ Terms /\ LastWord)
<1>1. Init => Terms /\ LastWord
  BY DEF Init, Terms, LastWord
<1>2. /\ TabsTyped /\ channel \in Channels /\ ClosedTabs /\ [Next]_vars
      /\ Terms /\ LastWord
      => (Terms /\ LastWord)'
  BY TermsKept, LastWordKept
<1>3. QED  BY <1>1, <1>2, TypesInvariant, TypeCorrect, PTL DEF Spec

-----------------------------------------------------------------------------
(* Claims that are contested *)

Has(s, m) == \E i \in 1..Len(s) : s[i] = m

LEMMA HasAppend ==
  ASSUME NEW s \in Seq(Messages), NEW m \in Messages
  PROVE  /\ Append(s, m) # <<>> /\ Has(Append(s, m), m)
         /\ \A x : Has(s, x) => Has(Append(s, m), x)
<1>1. /\ Append(s, m) # <<>>
      /\ Len(Append(s, m)) = Len(s) + 1 /\ Len(s) \in Nat
      /\ \A i \in 1..Len(s) : Append(s, m)[i] = s[i]
      /\ Append(s, m)[Len(s) + 1] = m
  BY AppendProperties
<1>2. Len(s) + 1 \in 1..Len(Append(s, m)) /\ \A i \in 1..Len(s) : i \in 1..Len(Append(s, m))
  BY <1>1
<1>3. QED  BY <1>1, <1>2 DEF Has

LEMMA HasTail ==
  ASSUME NEW s \in Seq(Messages), s # <<>>, NEW x, Has(s, x)
  PROVE  Head(s) = x \/ Has(Tail(s), x)
<1>1. /\ Len(Tail(s)) = Len(s) - 1
      /\ \A i \in 1..Len(Tail(s)) : Tail(s)[i] = s[i + 1]
  BY HeadTailProperties
<1>2. Len(s) \in Nat \ {0}
  BY EmptySeq
<1>3. Head(s) = s[1]
  OBVIOUS
<1>4. PICK i \in 1..Len(s) : s[i] = x
  BY DEF Has
<1>5. CASE i = 1
  BY <1>3, <1>4, <1>5
<1>6. CASE i # 1
  <2>1. i - 1 \in 1..Len(Tail(s)) /\ Tail(s)[i - 1] = s[(i - 1) + 1] /\ (i - 1) + 1 = i
    BY <1>1, <1>2, <1>6
  <2>2. QED  BY <1>4, <2>1 DEF Has
<1>7. QED  BY <1>5, <1>6

\* The claim of p is contested by what t has said, or p has asked t and t has not heard.
Contest(p, t) ==
  channel[t][p] # <<>> \/ Has(channel[p][t], Message("candidate", electionTerm[p]))

LEMMA ContestedParts ==
  Contested <=> \A p, t \in Tab : isLeader[t] /\ Claims(p) /\ Beats(t, p) =>
                  Contest(p, t) \/ Overtaken(p, t)
BY DEF Contested, Contest, Has

\* Saying something takes nothing back.
LEMMA SaidContest ==
  ASSUME channel \in Channels, NEW s \in Tab, NEW m \in Messages, Says(s, m),
         NEW p \in Tab, NEW t \in Tab, electionTerm'[p] = electionTerm[p], Contest(p, t)
  PROVE  Contest(p, t)'
<1>1. \A x, y \in Tab :
        /\ channel[x][y] # <<>> => channel'[x][y] # <<>>
        /\ \A c : Has(channel[x][y], c) => Has(channel'[x][y], c)
  <2> TAKE x, y \in Tab
  <2>1. channel[x][y] \in Seq(Messages)
    BY DEF Channels
  <2>2. channel'[x][y] = channel[x][y] \/ channel'[x][y] = Append(channel[x][y], m)
    BY DEF Says
  <2>3. QED  BY <2>1, <2>2, HasAppend
<1>2. QED  BY <1>1 DEF Contest

LEMMA ContestedKept ==
  ASSUME TabsTyped, channel \in Channels, ClosedTabs, [Next]_vars,
         Terms, LastWord, Contested
  PROVE  Contested'
<1>1. \A x, y \in Tab : /\ channel[x][y] \in Seq(Messages)
                        /\ leaderTerm[x] \in Nat /\ electionTerm[x] \in Nat /\ x \in Nat
  BY TabAssumption DEF Channels, TabsTyped
<1>2. \A x \in Tab : Claims(x) => x \in Open
  BY DEF Claims, ClosedTabs
<1>3. SUFFICES ASSUME NEW p \in Tab, NEW t \in Tab, isLeader'[t], Claims(p)', Beats(t, p)',
                      ~Overtaken(p, t)'
               PROVE  Contest(p, t)'
  BY DEF Contested, Contest, Has
<1>4a. /\ electionTerm'[t] = electionTerm[t]
       /\ \A q \in Tab : electionTerm[q] <= electionTerm'[q]
  <2>1. CASE electionTerm' = electionTerm
    BY <1>1, <2>1
  <2>2. ASSUME NEW s \in Tab, Stands(s)
        PROVE  /\ electionTerm'[t] = electionTerm[t]
               /\ \A q \in Tab : electionTerm[q] <= electionTerm'[q]
    <3>1. s # t /\ NextTerm(s) \in Nat /\ NextTerm(s) > electionTerm[s]
      BY <1>3, <2>2, NextTermTyped DEF Stands
    <3>2. electionTerm'[s] = NextTerm(s) /\ \A q \in Tab : q # s => electionTerm'[q] = electionTerm[q]
      BY <2>2 DEF Stands, TabsTyped
    <3>3. electionTerm[s] \in Nat /\ \A q \in Tab : electionTerm[q] <= electionTerm[q]
      BY <1>1
    <3>4. electionTerm[s] <= electionTerm'[s]
      BY <3>1, <3>2, <3>3
    <3>5. QED  BY <3>1, <3>2, <3>3, <3>4
  <2>3. QED  BY <2>1, <2>2, StepKinds DEF Rests, Leads, Speaks, Leaves, Hears
<1>4b. ~Overtaken(p, t)
  <2>1. electionTerm' \in [Tab -> Nat]
    BY TypesKept DEF TabsTyped
  <2>2. \A q \in Tab : electionTerm'[q] \in Nat
    BY <2>1
  <2>3. ASSUME NEW r \in Tab \ {p, t}, electionTerm[r] > electionTerm[t] PROVE FALSE
    <3>1. electionTerm'[r] > electionTerm'[t]
      BY <1>1, <1>4a, <2>2, <2>3
    <3>2. QED  BY <1>3, <3>1 DEF Overtaken
  <2>4. QED  BY <2>3 DEF Overtaken
<1>4. isLeader[t] /\ Claims(p) /\ Beats(t, p) => Contest(p, t)
  BY <1>4b, ContestedParts
<1>5. p # t
  <2>1. electionTerm' \in [Tab -> Nat]
    BY TypesKept DEF TabsTyped
  <2>2. QED  BY <1>1, <1>3, <2>1 DEF Beats
<1>6. CASE Rests
  BY <1>3, <1>4, <1>6 DEF Rests, NoNewClaims, Beats, Contest
<1>7. ASSUME NEW s \in Tab, Stands(s) PROVE Contest(p, t)'
  <2>1. /\ s # t /\ isLeader[t] /\ t \in Open
        /\ Says(s, Message("candidate", NextTerm(s)))
        /\ Message("candidate", NextTerm(s)) \in Messages
    BY <1>2, <1>3, <1>7, NextTermTyped, MessageTyped DEF Stands, MessageTypes, Claims
  <2>2. CASE p = s
    <3>1. electionTerm'[p] = NextTerm(s)
      BY <1>7, <2>2 DEF Stands, TabsTyped
    <3>2. channel'[p][t] = Append(channel[p][t], Message("candidate", NextTerm(s)))
      BY <1>5, <2>1, <2>2 DEF Says
    <3>3. QED  BY <1>1, <2>1, <3>1, <3>2, HasAppend DEF Contest
  <2>3. CASE p # s
    <3>1. electionTerm'[p] = electionTerm[p] /\ electionTerm'[t] = electionTerm[t] /\ Claims(p)
      BY <1>3, <1>7, <2>1, <2>3 DEF Stands, TabsTyped, NoNewClaims
    <3>2. Contest(p, t)
      BY <1>3, <1>4, <2>1, <3>1 DEF Beats
    <3>3. QED  BY <2>1, <3>1, <3>2, SaidContest
  <2>4. QED  BY <2>2, <2>3
<1>8. ASSUME NEW s \in Tab, Leads(s) PROVE Contest(p, t)'
  <2>1. /\ Says(s, Message("elected", electionTerm[s])) /\ Claims(p)
        /\ electionTerm' = electionTerm
        /\ Message("elected", electionTerm[s]) \in Messages
    BY <1>1, <1>3, <1>8, MessageTyped DEF Leads, NoNewClaims, MessageTypes
  <2>2. CASE t = s
    <3>1. channel'[t][p] = Append(channel[t][p], Message("elected", electionTerm[s]))
      BY <1>2, <1>5, <2>1, <2>2 DEF Says
    <3>2. QED  BY <1>1, <2>1, <3>1, HasAppend DEF Contest
  <2>3. CASE t # s
    <3>1. isLeader[t]
      BY <1>3, <1>8, <2>3 DEF Leads, TabsTyped
    <3>2. Contest(p, t)
      BY <1>3, <1>4, <2>1, <3>1 DEF Beats
    <3>3. QED  BY <2>1, <3>2, SaidContest
  <2>4. QED  BY <2>2, <2>3
<1>9. ASSUME NEW s \in Tab, Speaks(s) PROVE Contest(p, t)'
  <2>1. /\ Says(s, Message("heartbeat", leaderTerm[s])) /\ Claims(p) /\ isLeader[t]
        /\ electionTerm' = electionTerm
        /\ Message("heartbeat", leaderTerm[s]) \in Messages
    BY <1>1, <1>3, <1>9, MessageTyped DEF Speaks, NoNewClaims, MessageTypes
  <2>2. Contest(p, t)
    BY <1>3, <1>4, <2>1 DEF Beats
  <2>3. QED  BY <2>1, <2>2, SaidContest
<1>10. ASSUME NEW s \in Tab, Leaves(s) PROVE Contest(p, t)'
  <2>1. p # s /\ t # s /\ Claims(p) /\ isLeader[t] /\ electionTerm' = electionTerm
    BY <1>3, <1>10 DEF Leaves, NoNewClaims, TabsTyped
  <2>2. channel'[t][p] = channel[t][p] /\ channel'[p][t] = channel[p][t]
    BY <1>10, <2>1 DEF Leaves
  <2>3. QED  BY <1>3, <1>4, <2>1, <2>2 DEF Beats, Contest
<1>11. ASSUME NEW r \in Tab, NEW s \in Tab, NEW m \in Messages, Hears(r, s, m)
       PROVE  Contest(p, t)'
  <2>1. /\ channel[r][s] # <<>> /\ m = Head(channel[r][s]) /\ s \in Open
        /\ isLeader[t] /\ leaderTerm[t] = electionTerm[t]
        /\ Claims(p) /\ Beats(t, p) /\ electionTerm' = electionTerm
        /\ (\A x, y \in Tab : channel'[x][y] = Heard(r, s, x, y)) \/ Answers(r, s)
    <3>1. isLeader[t] /\ Claims(p) /\ electionTerm' = electionTerm
      BY <1>3, <1>11 DEF Hears, NoNewClaims
    <3>2. QED  BY <1>3, <1>11, <3>1 DEF Hears, Terms, Beats
  <2>2. \A x, y \in Tab : Heard(r, s, x, y) \in Seq(Messages)
    BY <1>1, <2>1, HeadTailProperties DEF Heard
  <2>3. \A x, y \in Tab :
          /\ Heard(r, s, x, y) # <<>> => channel'[x][y] # <<>>
          /\ \A c : Has(Heard(r, s, x, y), c) => Has(channel'[x][y], c)
    <3> TAKE x, y \in Tab
    <3>1. Message("heartbeat", leaderTerm[s]) \in Messages
      BY <1>1, MessageTyped DEF MessageTypes
    <3>2. \/ channel'[x][y] = Heard(r, s, x, y)
          \/ channel'[x][y] = Append(Heard(r, s, x, y), Message("heartbeat", leaderTerm[s]))
      BY <2>1 DEF Answers
    <3>3. CASE channel'[x][y] = Heard(r, s, x, y)
      BY <3>3
    <3>4. CASE channel'[x][y] = Append(Heard(r, s, x, y), Message("heartbeat", leaderTerm[s]))
      <4>1. \A q \in Seq(Messages), b \in Messages :
              Append(q, b) # <<>> /\ \A c : Has(q, c) => Has(Append(q, b), c)
        BY HasAppend
      <4>2. QED  BY <2>2, <3>1, <3>4, <4>1
    <3>5. QED  BY <3>2, <3>3, <3>4
  <2>4. CASE channel[t][p] # <<>>
    <3>1. CASE Heard(r, s, t, p) # <<>>
      BY <2>3, <3>1 DEF Contest
    <3>2. CASE Heard(r, s, t, p) = <<>>
      <4>1. r = t /\ s = p /\ Tail(channel[t][p]) = <<>>
        BY <2>4, <3>2 DEF Heard
      <4>2. \E type \in {"elected", "heartbeat"} : m = Message(type, electionTerm[t])
        BY <1>1, <1>5, <2>1, <2>4, <4>1, LastWordParts, SpokeTail
      <4>3. m.type \in {"elected", "heartbeat"} /\ m.term = electionTerm[t]
        BY <4>2 DEF Message
      <4>4. ~(/\ m.term >= leaderTerm[p]
              /\ isLeader[p] => Yields(p, t, m.term))
        BY <1>3, <1>11, <4>1, <4>3 DEF Hears
      <4>5. isLeader[p] => m.term >= leaderTerm[p] /\ Yields(p, t, m.term)
        <5>1. isLeader[p] => leaderTerm[p] = electionTerm[p]
          BY DEF Terms
        <5>2. QED  BY <1>1, <2>1, <4>3, <5>1 DEF Beats, Yields
      <4>6. PICK q \in Tab : leaderTerm[p] <= electionTerm[q]
        BY DEF Terms
      <4>7. leaderTerm[p] <= electionTerm[t]
        <5>1. CASE q \in {p, t}
          BY <1>1, <2>1, <4>6, <5>1 DEF Beats
        <5>2. CASE q \notin {p, t}
          <6>1. electionTerm[q] <= electionTerm[t]
            BY <1>1, <1>4b, <5>2 DEF Overtaken
          <6>2. QED  BY <1>1, <4>6, <6>1
        <5>3. QED  BY <5>1, <5>2
      <4>8. QED  BY <1>1, <4>3, <4>4, <4>5, <4>7
    <3>3. QED  BY <3>1, <3>2
  <2>5. CASE Has(channel[p][t], Message("candidate", electionTerm[p]))
    <3>1. CASE Has(Heard(r, s, p, t), Message("candidate", electionTerm[p]))
      BY <2>1, <2>3, <3>1 DEF Contest
    <3>2. CASE ~Has(Heard(r, s, p, t), Message("candidate", electionTerm[p]))
      <4>1. r = p /\ s = t /\ m = Message("candidate", electionTerm[p])
        BY <1>1, <2>1, <2>5, <3>2, HasTail DEF Heard
      <4>2. m.type = "candidate" /\ leaderTerm[t] >= m.term
        <5>1. m.type = "candidate" /\ m.term = electionTerm[p]
          BY <4>1 DEF Message
        <5>2. QED  BY <1>1, <2>1, <5>1 DEF Beats
      <4>3. Answers(p, t)
        BY <1>3, <1>11, <4>1, <4>2 DEF Hears
      <4>4. channel'[t][p] = Append(Heard(p, t, t, p), Message("heartbeat", leaderTerm[t]))
        BY <1>2, <1>5, <2>1, <4>3 DEF Answers
      <4>5. Message("heartbeat", leaderTerm[t]) \in Messages
        BY <1>1, MessageTyped DEF MessageTypes
      <4>6. QED  BY <2>2, <4>1, <4>4, <4>5, HasAppend DEF Contest
    <3>3. QED  BY <3>1, <3>2
  <2>6. QED  BY <1>4, <2>1, <2>4, <2>5 DEF Contest
<1>12. QED  BY <1>6, <1>7, <1>8, <1>9, <1>10, <1>11, StepKinds

\* Of two tabs that both lead, one has news of the other on the way, unless a third tab
\* has stood for a term above both: for any number of tabs, however late their timers
\* fire and however often they depose each other, stop, start and die.
THEOREM SplitBrainEnds == Spec => []SplitBrainHeals
<1>1. Init => Contested
  BY DEF Init, Contested
<1>2. /\ TabsTyped /\ channel \in Channels /\ ClosedTabs /\ [Next]_vars
      /\ Terms /\ LastWord /\ Contested
      => Contested'
  BY ContestedKept
<1>3. TypeOK /\ Terms /\ Contested => SplitBrainHeals
  <2> SUFFICES ASSUME TypeOK, Terms, Contested, NEW p \in Tab, NEW t \in Tab,
                      p # t, isLeader[p], isLeader[t]
               PROVE  \/ channel[p][t] # <<>> \/ channel[t][p] # <<>>
                      \/ \E r \in Tab \ {p, t} : /\ electionTerm[r] > leaderTerm[p]
                                                /\ electionTerm[r] > leaderTerm[t]
    BY DEF SplitBrainHeals
  <2>1. /\ \A q \in Tab : electionTerm[q] \in Nat /\ q \in Nat
        /\ leaderTerm[p] = electionTerm[p] /\ leaderTerm[t] = electionTerm[t]
    BY TabAssumption DEF TypeOK, Terms
  <2>2. \A x, y \in Tab : \A c : Has(channel[x][y], c) => channel[x][y] # <<>>
    BY EmptySeq DEF Has
  <2>3. CASE Beats(t, p)
    <3>1. CASE Contest(p, t)
      BY <2>2, <3>1 DEF Contest
    <3>2. CASE Overtaken(p, t)
      BY <2>1, <2>3, <3>2 DEF Beats, Overtaken
    <3>3. QED  BY <2>3, <3>1, <3>2, ContestedParts DEF Claims
  <2>4. CASE Beats(p, t)
    <3>1. CASE Contest(t, p)
      BY <2>2, <3>1 DEF Contest
    <3>2. CASE Overtaken(t, p)
      BY <2>1, <2>4, <3>2 DEF Beats, Overtaken
    <3>3. QED  BY <2>4, <3>1, <3>2, ContestedParts DEF Claims
  <2>5. Beats(p, t) \/ Beats(t, p)
    BY <2>1 DEF Beats
  <2>6. QED  BY <2>3, <2>4, <2>5
<1>4. QED  BY <1>1, <1>2, <1>3, TypesInvariant, InductiveInvariant, PTL DEF Spec
=============================================================================
