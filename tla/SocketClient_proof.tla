-------------------------- MODULE SocketClient_proof --------------------------
(***************************************************************************)
(* Theorems about SocketClient for every number of sockets, of events, of  *)
(* calls and of faults.  The invariants the run checks are not inductive;  *)
(* Consistent says what they rest on: which socket is listened to, and     *)
(* that no copy of the cursor passes an event the queries have not seen.   *)
(***************************************************************************)
EXTENDS SocketClient, TLAPS, FiniteSetTheorems

-----------------------------------------------------------------------------
(* The types, in three parts. *)

\* The bounds are numbers, and the first socket is not null.
LEMMA Numbers ==
  /\ MaxSockets \in Nat \ {0} /\ MaxSeq \in Nat /\ MaxCalls \in Nat /\ MaxFaults \in Nat
  /\ NoSocket \notin Socket
BY BoundAssumption DEF Socket, NoSocket

ReadyState == {"unborn", "connecting", "open", "closing", "closed"}
Ears == {"none", "handshake", "ready"}
AttemptState ==
  [pc : {"idle", "reading", "loaded", "ticket"}, sock : {NoSocket}]
    \cup [pc : {"opening", "hello", "subscribe"}, sock : Socket]

LinkTyped ==
  /\ current \in Socket \cup {NoSocket}
  /\ ready \in [Socket -> ReadyState]
  /\ ears \in [Socket -> Ears]
  /\ conn \in {"idle", "connecting", "handshaking", "ready", "reconnecting", "error",
              "closed", "told"}
  /\ attempt \in AttemptState

TimersTyped ==
  /\ manual \in BOOLEAN /\ held \in BOOLEAN /\ pinger \in BOOLEAN /\ ping \in BOOLEAN
  /\ own \in BOOLEAN /\ raced \in BOOLEAN /\ failed \in BOOLEAN /\ reconnects \in BOOLEAN
  /\ leaked \in Nat
  /\ beat \in {"off", "armed", "fired"}
  /\ clearing \in {"no", "database", "queries"}

CursorsTyped ==
  /\ cursor \in Position /\ stored \in Position /\ loaded \in Position
  /\ applied \subseteq 1..MaxSeq
  /\ calls \in 0..MaxCalls /\ faults \in 0..MaxFaults

\* The three parts are the type invariant.
LEMMA TypeParts ==
  TypeOK <=> LinkTyped /\ TimersTyped /\ CursorsTyped /\ leaked \in 0..MaxSockets - 1
BY Numbers DEF TypeOK, LinkTyped, TimersTyped, CursorsTyped, ReadyState, Ears,
   AttemptState

\* Sockets, their listeners and the attempt keep their types; an Open needs to know
\* that the attempt waits for the socket.
LEMMA LinkKept ==
  ASSUME LinkTyped, Attached, Next
  PROVE  LinkTyped'
<1> USE Numbers DEF NoSocket, LinkTyped, ReadyState, Ears, AttemptState
<1>1. CASE BecomeOwner
  BY <1>1 DEF BecomeOwner, Connect, Idle, link
<1>2. CASE LoseOwnership
  BY <1>2 DEF LoseOwnership, Disconnect, Rejected, Handshaking, Unheard, Closing, Idle
<1>3. CASE ClearCache
  BY <1>3 DEF ClearCache, Disconnect, Rejected, Handshaking, Unheard, Closing, Idle
<1>4. CASE DatabaseCleared \/ ClearFails \/ CacheCleared
  BY <1>4 DEF DatabaseCleared, ClearFails, CacheCleared, Connect, Idle, link
<1>5. CASE ReconnectTimer
  BY <1>5 DEF ReconnectTimer, Connect, Idle, link
<1>6. CASE ReadCursors \/ CursorsLoaded
  BY <1>6 DEF ReadCursors, CursorsLoaded, At, Goto, link
<1>7. CASE TicketRefused \/ HandshakeRefused
  BY <1>7 DEF TicketRefused, HandshakeRefused, HandshakeFails, Handshaking, Idle,
     At, link
<1>8. ASSUME NEW s \in Socket, TicketArrives(s) PROVE LinkTyped'
  BY <1>8 DEF TicketArrives, At
<1>9. ASSUME NEW s \in Socket, Open(s) PROVE LinkTyped'
  BY <1>9 DEF Attached, Open, HandshakeFails, Goto, Idle
<1>10. CASE HelloAck \/ Subscribed
  BY <1>10 DEF HelloAck, Subscribed, At, Goto, IsOpen, Idle, link
<1>11. ASSUME NEW s \in Socket, CloseUnheard(s) \/ CloseBeforeReady(s) PROVE LinkTyped'
  BY <1>11 DEF CloseUnheard, CloseBeforeReady, Ends, HandshakeFails, Idle
<1>12. ASSUME NEW s \in Socket, CloseReady(s) PROVE LinkTyped'
  BY <1>12 DEF CloseReady, Ends, Unheard, Rejected, Handshaking, Idle
<1>13. CASE SendPing \/ \E s \in Socket : Pong(s)
  BY <1>13 DEF SendPing, Pong, link
<1>14. CASE PingTimeout \/ BeatTimeout \/ \E s \in Socket : Malformed(s)
  BY <1>14 DEF PingTimeout, BeatTimeout, Malformed, ProtocolError, Closing,
     HandshakeFails, Idle
<1>15. ASSUME NEW s \in Socket, NEW n \in 1..MaxSeq, DataMessage(s, n) PROVE LinkTyped'
  BY <1>15 DEF DataMessage, link
<1>16. CASE IngestSnapshot \/ \E n \in 1..MaxSeq : Ingest(n)
  BY <1>16 DEF Ingest, IngestSnapshot, link
<1> QED
  BY <1>1, <1>2, <1>3, <1>4, <1>5, <1>6, <1>7, <1>8, <1>9, <1>10, <1>11, <1>12, <1>13,
     <1>14, <1>15, <1>16
  DEF Next, Provider, Attempt, SocketEnds

\* Timers and flags keep their types.
LEMMA TimersKept ==
  ASSUME TimersTyped, Next
  PROVE  TimersTyped'
<1>1. CASE BecomeOwner
  BY <1>1 DEF TimersTyped, clear, BecomeOwner, Connect, timerVars
<1>2. CASE LoseOwnership
  BY <1>2 DEF TimersTyped, clear, LoseOwnership, Disconnect, Rejected
<1>3. CASE ClearCache
  BY <1>3 DEF TimersTyped, clear, ClearCache, Disconnect, Rejected
<1>4. CASE DatabaseCleared \/ ClearFails \/ CacheCleared
  BY <1>4 DEF TimersTyped, clear, DatabaseCleared, ClearFails, CacheCleared, Connect, timerVars
<1>5. CASE ReconnectTimer
  <2>1. leaked' \in Nat
    BY <1>5 DEF TimersTyped, clear, ReconnectTimer
  <2>2. manual' \in BOOLEAN /\ failed' \in BOOLEAN
    BY <1>5 DEF TimersTyped, clear, ReconnectTimer, Connect
  <2> QED  BY <1>5, <2>1, <2>2 DEF TimersTyped, clear, ReconnectTimer
<1>6. CASE ReadCursors \/ CursorsLoaded
  BY <1>6 DEF TimersTyped, clear, ReadCursors, CursorsLoaded, timerVars
<1>7. CASE TicketRefused \/ HandshakeRefused
  BY <1>7 DEF TimersTyped, clear, TicketRefused, HandshakeRefused, HandshakeFails, timerVars
<1>8. ASSUME NEW s \in Socket, TicketArrives(s) PROVE TimersTyped'
  BY <1>8 DEF TimersTyped, clear, TicketArrives, timerVars
<1>9. ASSUME NEW s \in Socket, Open(s) PROVE TimersTyped'
  BY <1>9 DEF TimersTyped, clear, Open, HandshakeFails, timerVars
<1>10. CASE HelloAck \/ Subscribed
  <2>1. UNCHANGED <<manual, held, leaked, ping, own, raced, failed, clear>>
    BY <1>10 DEF HelloAck, Subscribed
  <2>2. (pinger' = pinger \/ pinger' = TRUE) /\ (beat' = beat \/ beat' = "armed")
    BY <1>10 DEF HelloAck, Subscribed
  <2>3. pinger' \in BOOLEAN /\ beat' \in {"off", "armed", "fired"}
    BY <2>2 DEF TimersTyped, clear
  <2> QED  BY <2>1, <2>3 DEF TimersTyped, clear
<1>11. ASSUME NEW s \in Socket, CloseUnheard(s) \/ CloseBeforeReady(s) PROVE TimersTyped'
  <2>1. UNCHANGED <<manual, held, leaked, pinger, ping, beat, own, raced, clear>>
    BY <1>11 DEF CloseUnheard, CloseBeforeReady, timerVars
  <2>2. failed' = failed \/ failed' = TRUE
    BY <1>11 DEF CloseUnheard, CloseBeforeReady, HandshakeFails
  <2>3. failed' \in BOOLEAN
    BY <2>2 DEF TimersTyped, clear
  <2> QED  BY <2>1, <2>3 DEF TimersTyped, clear
<1>12. ASSUME NEW s \in Socket, CloseReady(s) PROVE TimersTyped'
  <2>1. leaked' \in Nat /\ held' \in BOOLEAN
    <3>1. leaked' = leaked \/ leaked' = leaked + 1
      BY <1>12 DEF CloseReady, ScheduleReconnect
    <3>2. held' = held \/ held' = TRUE
      BY <1>12 DEF CloseReady, ScheduleReconnect
    <3>3. leaked' \in Nat
      BY <3>1 DEF TimersTyped, clear
    <3>4. held' \in BOOLEAN
      BY <3>2 DEF TimersTyped, clear
    <3> QED  BY <3>3, <3>4
  <2>2. raced' \in BOOLEAN /\ failed' \in BOOLEAN
    BY <1>12 DEF TimersTyped, clear, CloseReady, Rejected
  <2> QED  BY <1>12, <2>1, <2>2 DEF TimersTyped, clear, CloseReady
<1>13. CASE SendPing \/ \E s \in Socket : Pong(s)
  <2>1. UNCHANGED <<manual, held, leaked, own, raced, failed, clear>>
    BY <1>13 DEF SendPing, Pong
  <2>2. /\ pinger' = pinger \/ pinger' = FALSE
        /\ ping' = ping \/ ping' = TRUE \/ ping' = FALSE
        /\ beat' = beat \/ beat' = "armed"
    BY <1>13 DEF SendPing, Pong
  <2>3. pinger' \in BOOLEAN /\ ping' \in BOOLEAN /\ beat' \in {"off", "armed", "fired"}
    BY <2>2 DEF TimersTyped, clear
  <2> QED  BY <2>1, <2>3 DEF TimersTyped, clear
<1>14. CASE PingTimeout \/ BeatTimeout \/ \E s \in Socket : Malformed(s)
  <2>1. failed' \in BOOLEAN
    BY <1>14 DEF TimersTyped, clear, PingTimeout, BeatTimeout, Malformed, HandshakeFails
  <2>2. UNCHANGED <<manual, held, leaked, pinger, own, raced, clear>>
    BY <1>14 DEF PingTimeout, BeatTimeout, Malformed, ProtocolError
  <2>3. (ping' = ping \/ ping' = FALSE) /\ (beat' = beat \/ beat' = "fired")
    BY <1>14 DEF PingTimeout, BeatTimeout, Malformed
  <2>4. ping' \in BOOLEAN /\ beat' \in {"off", "armed", "fired"}
    BY <2>3 DEF TimersTyped, clear
  <2> QED  BY <2>1, <2>2, <2>4 DEF TimersTyped, clear
<1>15. ASSUME NEW s \in Socket, NEW n \in 1..MaxSeq, DataMessage(s, n) PROVE TimersTyped'
  BY <1>15 DEF TimersTyped, clear, DataMessage
<1>16. CASE IngestSnapshot \/ \E n \in 1..MaxSeq : Ingest(n)
  BY <1>16 DEF TimersTyped, clear, Ingest, IngestSnapshot, timerVars
<1> QED
  BY <1>1, <1>2, <1>3, <1>4, <1>5, <1>6, <1>7, <1>8, <1>9, <1>10, <1>11, <1>12, <1>13,
     <1>14, <1>15, <1>16
  DEF Next, Provider, Attempt, SocketEnds

\* A step uses up at most one call and one fault.
LEMMA BoundsKept ==
  ASSUME CursorsTyped, Next
  PROVE  calls' \in 0..MaxCalls /\ faults' \in 0..MaxFaults
<1>1. Call => calls' \in 0..MaxCalls
  BY Numbers DEF CursorsTyped, Call
<1>2. Fault => faults' \in 0..MaxFaults
  BY Numbers DEF CursorsTyped, Fault
<1>3. (calls' = calls \/ Call) /\ (faults' = faults \/ Fault)
  <2>1. CASE Provider \/ Attempt
    BY <2>1 DEF Provider, BecomeOwner, LoseOwnership, ClearCache, Attempt,
       DatabaseCleared, CacheCleared, ReconnectTimer, ReadCursors, CursorsLoaded,
       TicketArrives, Open, HelloAck, Subscribed, bounds
  <2>2. CASE SocketEnds \/ TicketRefused \/ HandshakeRefused
    BY <2>2 DEF SocketEnds, CloseUnheard, CloseBeforeReady, CloseReady, Ends,
       TicketRefused, HandshakeRefused
  <2>3. CASE ~(Provider \/ Attempt \/ SocketEnds \/ TicketRefused \/ HandshakeRefused)
    BY <2>3 DEF Next, SendPing, PingTimeout, BeatTimeout, ProtocolError, Pong,
       Malformed, DataMessage, Ingest, IngestSnapshot, ClearFails, bounds
  <2> QED  BY <2>1, <2>2, <2>3
<1> QED  BY <1>1, <1>2, <1>3 DEF CursorsTyped

\* The steps that touch a cursor.
LEMMA CursorFrame ==
  ASSUME Next
  PROVE  \/ UNCHANGED <<cursor, stored, applied, loaded>>
         \/ ClearCache \/ DatabaseCleared \/ CacheCleared
         \/ ReadCursors \/ CursorsLoaded
         \/ \E n \in 1..MaxSeq : Ingest(n) \/ \E s \in Socket : DataMessage(s, n)
<1>1. CASE Provider \/ Attempt
  BY <1>1 DEF Provider, BecomeOwner, LoseOwnership, Attempt, ReconnectTimer,
     TicketArrives, Open, HelloAck, Subscribed, cursorVars
<1>2. CASE SocketEnds \/ TicketRefused \/ HandshakeRefused
  BY <1>2 DEF SocketEnds, CloseUnheard, CloseBeforeReady, CloseReady, TicketRefused,
     HandshakeRefused, cursorVars
<1>3. CASE ~(Provider \/ Attempt \/ SocketEnds \/ TicketRefused \/ HandshakeRefused)
  BY <1>3 DEF Next, SendPing, PingTimeout, BeatTimeout, ProtocolError, Pong, Malformed,
     IngestSnapshot, ClearFails, cursorVars
<1> QED  BY <1>1, <1>2, <1>3

\* What a position is, and the two that the steps make of a number.
LEMMA Positions ==
  /\ \A n \in 0..MaxSeq : TakenOver(n) \in Position
  /\ Nowhere \in Position
  /\ \A p \in Position : p.seq \in 0..MaxSeq /\ p.from \in 0..MaxSeq
BY Numbers DEF Position, TakenOver, Nowhere

\* The cursors and the events they cover keep their types.
LEMMA CursorsKept ==
  ASSUME CursorsTyped, Next
  PROVE  CursorsTyped'
<1>1. /\ cursor' \in Position /\ stored' \in Position /\ loaded' \in Position
      /\ applied' \subseteq 1..MaxSeq
  <2>1. CASE UNCHANGED <<cursor, stored, applied, loaded>>
    BY <2>1 DEF CursorsTyped
  <2>2. CASE ClearCache \/ DatabaseCleared
    BY <2>2, Positions DEF CursorsTyped, ClearCache, DatabaseCleared
  <2>3. CASE CacheCleared
    BY <2>3, Positions DEF CursorsTyped, CacheCleared
  <2>4. CASE ReadCursors \/ CursorsLoaded
    BY <2>4, Positions DEF CursorsTyped, ReadCursors, CursorsLoaded, cursorVars
  <2>5. ASSUME NEW n \in 1..MaxSeq, Ingest(n) \/ \E s \in Socket : DataMessage(s, n)
        PROVE  /\ cursor' \in Position /\ stored' \in Position /\ loaded' \in Position
               /\ applied' \subseteq 1..MaxSeq
    <3>1. loaded' = loaded /\ (UNCHANGED cursorVars \/ \E r \in BOOLEAN : Record(n, r))
      <4>1. IsOpen(current) \in BOOLEAN
        BY DEF IsOpen
      <4>2. QED  BY <2>5, <4>1 DEF Ingest, DataMessage
    <3>2. ASSUME NEW r \in BOOLEAN, Record(n, r)
          PROVE  cursor' \in Position /\ stored' = cursor' /\ applied' \subseteq 1..MaxSeq
      <4>1. n \in 0..MaxSeq /\ n - 1 \in 0..MaxSeq /\ cursor.from \in 0..MaxSeq
        BY Positions, Numbers DEF CursorsTyped
      <4>2. QED  BY <3>2, <4>1 DEF Record, Position, CursorsTyped
    <3>3. QED  BY <3>1, <3>2 DEF CursorsTyped, cursorVars
  <2>6. QED  BY <2>1, <2>2, <2>3, <2>4, <2>5, CursorFrame
<1>2. QED  BY <1>1, BoundsKept DEF CursorsTyped

-----------------------------------------------------------------------------
(* Attached: the sockets and the attempt. *)

\* connect() begins an attempt where there is no live socket, or does nothing.
LEMMA ConnectAttached ==
  ASSUME LinkTyped, Attached, Connect, UNCHANGED link
  PROVE  Attached'
<1>1. CASE UNCHANGED <<attempt, failed>>
  BY <1>1 DEF Attached, link, At
<1>2. CASE /\ attempt.pc = "idle" /\ attempt' = [pc |-> "reading", sock |-> NoSocket]
           /\ ~(current # NoSocket /\ ready[current] \in {"connecting", "open"})
  <2>1. attempt.sock = NoSocket
    BY <1>2, Numbers DEF LinkTyped, AttemptState
  <2>2. QED  BY <1>2, <2>1, Numbers DEF Attached, link, At
<1>3. QED  BY <1>1, <1>2 DEF Connect, Idle

\* disconnect() closes the current socket and ends a handshake.
LEMMA DisconnectAttached ==
  ASSUME LinkTyped, Attached, Disconnect
  PROVE  Attached'
<1>1. current' = NoSocket
  BY DEF Disconnect
<1>2. CASE Handshaking
  <2>1. attempt' = Idle /\ ears' = [ears EXCEPT ![attempt.sock] = "none"]
    BY <1>2 DEF Disconnect, Rejected, Unheard
  <2>2. attempt.sock \in Socket
    BY <1>2 DEF Handshaking, LinkTyped, AttemptState
  <2>3. \A s \in Socket : ears'[s] # "handshake"
    BY <2>1, <2>2 DEF LinkTyped, Attached
  <2>4. \A s \in Socket : ready'[s] # "connecting"
    BY <1>2 DEF Disconnect, Closing, LinkTyped, Attached, Handshaking
  <2>5. QED  BY <1>1, <2>1, <2>3, <2>4, Numbers DEF Attached, Idle
<1>3. CASE ~Handshaking
  <2>1. attempt' = attempt /\ ears' = ears
    BY <1>3 DEF Disconnect, Rejected, Unheard
  <2>2. \A s \in Socket : ready'[s] = "connecting" => ready[s] = "connecting"
    BY DEF Disconnect, Closing, LinkTyped
  <2>3. QED  BY <1>1, <2>1, <2>2 DEF Attached
<1>4. QED  BY <1>2, <1>3

\* A handshake that fails leaves no attempt and no listener.
LEMMA HandshakeFailsAttached ==
  ASSUME LinkTyped, Attached, NEW s \in Socket,
         ears[s] = "handshake" \/ ready[s] = "connecting",
         HandshakeFails(s), current' = current, ready'[s] # "connecting",
         \A t \in Socket : ready'[t] = "connecting" => ready[t] = "connecting"
  PROVE  Attached'
<1>1. attempt.sock = s
  BY DEF Attached
<1>2. /\ attempt' = Idle /\ failed' = TRUE
      /\ \A t \in Socket : ears'[t] # "handshake"
  BY <1>1 DEF HandshakeFails, Attached, LinkTyped
<1>3. \A t \in Socket : ready'[t] # "connecting"
  BY <1>1 DEF Attached
<1>4. QED  BY <1>2, <1>3, Numbers DEF Attached, Idle, At

\* Every step keeps the sockets and the attempt attached.
LEMMA AttachedKept ==
  ASSUME LinkTyped, Attached, Next
  PROVE  Attached'
<1>1. CASE BecomeOwner \/ CacheCleared \/ ReconnectTimer
  <2>1. UNCHANGED link /\ (Connect \/ UNCHANGED <<attempt, failed>>)
    BY <1>1 DEF BecomeOwner, CacheCleared, ReconnectTimer
  <2>2. QED  BY <2>1, ConnectAttached DEF Attached, link, At
<1>2. CASE LoseOwnership \/ ClearCache
  BY <1>2, DisconnectAttached DEF LoseOwnership, ClearCache
<1>3. CASE ReadCursors \/ CursorsLoaded
  <2>1. attempt.sock = NoSocket /\ attempt'.sock = NoSocket /\ ~At("idle")
    BY <1>3 DEF ReadCursors, CursorsLoaded, At, Goto, LinkTyped, AttemptState
  <2>2. QED  BY <1>3, <2>1, Numbers DEF ReadCursors, CursorsLoaded, link, Attached
<1>4. CASE TicketRefused
  <2>1. attempt.sock = NoSocket /\ attempt' = Idle /\ failed' = TRUE
    BY <1>4 DEF TicketRefused, At, LinkTyped, AttemptState
  <2>2. QED  BY <1>4, <2>1, Numbers DEF TicketRefused, link, Attached, Idle, At
<1>5. ASSUME NEW s \in Socket, TicketArrives(s) PROVE Attached'
  <2>1. attempt.sock = NoSocket
    BY <1>5 DEF TicketArrives, At, LinkTyped, AttemptState
  <2>2. QED  BY <1>5, <2>1, Numbers DEF TicketArrives, LinkTyped, Attached
<1>6. ASSUME NEW s \in Socket, Open(s) PROVE Attached'
  <2>1. attempt = [pc |-> "opening", sock |-> s]
    BY <1>6 DEF Open, Attached
  <2>2. CASE current = s
    BY <1>6, <2>1, <2>2, Numbers DEF Open, Goto, LinkTyped, Attached
  <2>3. CASE current # s
    BY <1>6, <2>3, HandshakeFailsAttached DEF Open, LinkTyped, ReadyState
  <2>4. QED  BY <2>2, <2>3
<1>7. CASE HelloAck
  <2>1. attempt'.sock = attempt.sock /\ attempt.sock # NoSocket
    BY <1>7, Numbers DEF HelloAck, At, Goto, LinkTyped, AttemptState
  <2>2. \A s \in Socket : ready[s] # "connecting"
    BY <1>7 DEF HelloAck, At, Attached
  <2>3. QED  BY <1>7, <2>1, <2>2 DEF HelloAck, link, Attached
<1>8. CASE Subscribed
  <2>1. attempt.sock \in Socket
    BY <1>8 DEF Subscribed, At, LinkTyped, AttemptState
  <2>2. \A s \in Socket : ready[s] # "connecting"
    BY <1>8 DEF Subscribed, At, Attached
  <2>3. QED  BY <1>8, <2>1, <2>2, Numbers DEF Subscribed, LinkTyped, Attached, Idle, At
<1>9. CASE HandshakeRefused
  <2>1. attempt.sock \in Socket
    BY <1>9 DEF HandshakeRefused, Handshaking, LinkTyped, AttemptState
  <2>2. ready[attempt.sock] # "connecting" /\ ears[attempt.sock] = "handshake"
    BY <1>9, <2>1 DEF HandshakeRefused, Handshaking, Attached
  <2>3. QED  BY <1>9, <2>1, <2>2, HandshakeFailsAttached DEF HandshakeRefused, LinkTyped
<1>10. ASSUME NEW s \in Socket, CloseUnheard(s) PROVE Attached'
  BY <1>10 DEF CloseUnheard, Ends, LinkTyped, Attached, At
<1>11. ASSUME NEW s \in Socket, CloseBeforeReady(s) PROVE Attached'
  BY <1>11, HandshakeFailsAttached DEF CloseBeforeReady, Ends, LinkTyped, ReadyState
<1>12. ASSUME NEW s \in Socket, CloseReady(s) PROVE Attached'
  <2>1. /\ current' = NoSocket /\ ready' = [ready EXCEPT ![s] = "closed"]
        /\ ears[s] = "ready" /\ ears' = [Unheard EXCEPT ![s] = "none"] /\ Rejected
    BY <1>12 DEF CloseReady, Ends
  <2>2. attempt.sock # s
    BY <2>1 DEF Attached
  <2>3. CASE Handshaking
    <3>1. /\ attempt' = Idle
          /\ \A t \in Socket : ears'[t] # "handshake" /\ ready'[t] # "connecting"
      BY <2>1, <2>3 DEF Rejected, Unheard, Handshaking, LinkTyped, Attached
    <3>2. QED  BY <2>1, <3>1, Numbers DEF Attached, Idle
  <2>4. CASE ~Handshaking
    <3>1. attempt' = attempt /\ ears' = [ears EXCEPT ![s] = "none"]
      BY <2>1, <2>4 DEF Rejected, Unheard
    <3>2. QED  BY <2>1, <2>2, <3>1 DEF LinkTyped, Attached
  <2>5. QED  BY <2>3, <2>4
<1>13. ASSUME NEW s \in Socket, Malformed(s) PROVE Attached'
  <2>1. /\ ready[s] = "open" /\ ready' = Closing(current) /\ current' = current
        /\ IF ears[s] = "handshake" THEN HandshakeFails(s)
           ELSE UNCHANGED <<ears, attempt, failed>>
    BY <1>13 DEF Malformed, IsOpen, ProtocolError
  <2>2. /\ ready' \in [Socket -> ReadyState]
        /\ \A t \in Socket : ready'[t] = ready[t] \/ ready'[t] = "closing"
        /\ current # NoSocket => ready'[current] \notin {"connecting", "open"}
    BY <2>1 DEF Closing, LinkTyped, ReadyState
  <2>3. QED  BY <2>1, <2>2, HandshakeFailsAttached DEF Attached, At
<1>14. CASE PingTimeout \/ BeatTimeout
  <2>1. ready' = Closing(current) /\ UNCHANGED <<current, ears, attempt, failed>>
    BY <1>14 DEF PingTimeout, BeatTimeout, ProtocolError
  <2>2. \A t \in Socket : ready'[t] = ready[t] \/ ready'[t] = "closing"
    BY <2>1 DEF Closing, LinkTyped
  <2>3. current # NoSocket => ready'[current] \notin {"connecting", "open"}
    BY <2>1 DEF Closing, LinkTyped
  <2>4. QED  BY <2>1, <2>2, <2>3 DEF Attached, At
<1>15. CASE UNCHANGED <<link, attempt, failed>>
  BY <1>15 DEF Attached, link, At
<1>16. CASE \/ DatabaseCleared \/ ClearFails \/ SendPing \/ IngestSnapshot
            \/ \E s \in Socket : Pong(s)
  BY <1>15, <1>16 DEF DatabaseCleared, ClearFails, SendPing, IngestSnapshot, Pong
<1>17. ASSUME NEW n \in 1..MaxSeq, Ingest(n) \/ \E s \in Socket : DataMessage(s, n)
       PROVE  Attached'
  BY <1>15, <1>17 DEF Ingest, DataMessage
<1> QED
  BY <1>1, <1>2, <1>3, <1>4, <1>5, <1>6, <1>7, <1>8, <1>9, <1>10, <1>11, <1>12, <1>13,
     <1>14, <1>16, <1>17
  DEF Next, Provider, Attempt, SocketEnds

-----------------------------------------------------------------------------
(* Covered and NoSilentLoss: the cursors and the queries. *)

\* The race is history.
LEMMA RacedForever == Next /\ ~raced' => ~raced
<1>1. CASE Provider \/ Attempt
  BY <1>1 DEF Provider, BecomeOwner, LoseOwnership, ClearCache, Attempt,
     DatabaseCleared, CacheCleared, ReconnectTimer, ReadCursors, CursorsLoaded,
     TicketArrives, Open, HelloAck, Subscribed
<1>2. CASE SocketEnds \/ TicketRefused \/ HandshakeRefused
  BY <1>2 DEF SocketEnds, CloseUnheard, CloseBeforeReady, CloseReady, TicketRefused,
     HandshakeRefused
<1>3. CASE ~(Provider \/ Attempt \/ SocketEnds \/ TicketRefused \/ HandshakeRefused)
  BY <1>3 DEF Next, SendPing, PingTimeout, BeatTimeout, ProtocolError, Pong, Malformed,
     DataMessage, Ingest, IngestSnapshot, ClearFails
<1> QED  BY <1>1, <1>2, <1>3

\* Only the current socket is open and listened to.
OneEar == \A s \in Socket : ready[s] = "open" /\ ears[s] # "none" => current = s

\* Without a race it stays the only one.
LEMMA OneEarKept ==
  ASSUME LinkTyped, Attached, OneEar, Next, ~raced'
  PROVE  OneEar'
<1>1. ASSUME current' = current,
             \A t \in Socket : /\ ready'[t] = "open" => ready[t] = "open"
                               /\ ears'[t] # "none" => ears[t] # "none"
      PROVE  OneEar'
  BY <1>1 DEF OneEar
<1>2. CASE UNCHANGED link
  BY <1>1, <1>2 DEF link
<1>3. CASE \/ BecomeOwner \/ DatabaseCleared \/ ClearFails \/ CacheCleared
           \/ ReconnectTimer \/ ReadCursors \/ CursorsLoaded
           \/ TicketRefused \/ HelloAck \/ SendPing \/ IngestSnapshot
           \/ \E s \in Socket : Pong(s) \/ \E n \in 1..MaxSeq : DataMessage(s, n)
           \/ \E n \in 1..MaxSeq : Ingest(n)
  BY <1>2, <1>3 DEF BecomeOwner, DatabaseCleared, ClearFails, CacheCleared,
     ReconnectTimer, ReadCursors, CursorsLoaded, TicketRefused, HelloAck, SendPing, IngestSnapshot, Pong, DataMessage, Ingest
<1>4. CASE LoseOwnership \/ ClearCache
  <2>1. Disconnect
    BY <1>4 DEF LoseOwnership, ClearCache
  <2>2. \A t \in Socket : /\ ready'[t] = "open" => ready[t] = "open" /\ t # current
                          /\ ears'[t] # "none" => ears[t] # "none"
    BY <2>1, Numbers DEF Disconnect, Closing, Unheard, LinkTyped
  <2>3. QED  BY <2>2 DEF OneEar
<1>5. ASSUME NEW s \in Socket, TicketArrives(s) PROVE OneEar'
  <2>1. attempt.sock = NoSocket /\ ~At("idle")
    BY <1>5 DEF TicketArrives, At, LinkTyped, AttemptState
  <2>2. \A t \in Socket : ready[t] = "open" => ears[t] = "none"
    BY <2>1, Numbers DEF Attached, OneEar
  <2>3. QED  BY <1>5, <2>2 DEF TicketArrives, LinkTyped, OneEar
<1>6. ASSUME NEW s \in Socket, Open(s) PROVE OneEar'
  BY <1>6 DEF Open, HandshakeFails, LinkTyped, OneEar
<1>7. CASE Subscribed
  <2>1. attempt.sock \in Socket
    BY <1>7 DEF Subscribed, At, LinkTyped, AttemptState
  <2>2. ears[attempt.sock] = "handshake"
    BY <2>1 DEF Attached
  <2>3. QED  BY <1>1, <1>7, <2>1, <2>2 DEF Subscribed, LinkTyped
<1>8. CASE HandshakeRefused
  BY <1>1, <1>8 DEF HandshakeRefused, HandshakeFails, LinkTyped
<1>9. ASSUME NEW s \in Socket, CloseUnheard(s) \/ CloseBeforeReady(s) PROVE OneEar'
  BY <1>1, <1>9 DEF CloseUnheard, CloseBeforeReady, HandshakeFails, Ends, LinkTyped
<1>10. ASSUME NEW s \in Socket, CloseReady(s) PROVE OneEar'
  <2>1. current = s \/ current = NoSocket
    BY <1>10 DEF CloseReady
  <2>2. \A t \in Socket : /\ ready'[t] = "open" => ready[t] = "open" /\ t # s
                          /\ ears'[t] # "none" => ears[t] # "none"
    BY <1>10 DEF CloseReady, Ends, Unheard, LinkTyped
  <2>3. QED  BY <2>1, <2>2, Numbers DEF OneEar
<1>11. CASE PingTimeout \/ BeatTimeout \/ \E s \in Socket : Malformed(s)
  <2>1. ready' = Closing(current) /\ current' = current
    BY <1>11 DEF PingTimeout, BeatTimeout, Malformed, ProtocolError
  <2>2. \A t \in Socket : ready'[t] = "open" => ready[t] = "open"
    BY <2>1 DEF Closing, LinkTyped
  <2>3. \A t \in Socket : ears'[t] # "none" => ears[t] # "none"
    BY <1>11 DEF PingTimeout, BeatTimeout, Malformed, HandshakeFails, LinkTyped
  <2>4. QED  BY <1>1, <2>1, <2>2, <2>3
<1> QED
  BY <1>3, <1>4, <1>5, <1>6, <1>7, <1>8, <1>9, <1>10, <1>11
  DEF Next, Provider, Attempt, SocketEnds

\* No copy of the cursor passes an event the queries have not seen.
AllVouched == Vouched(cursor) /\ Vouched(stored) /\ Vouched(loaded)

\* A position that was taken over answers for nothing yet.
LEMMA TakenOverVouched ==
  ASSUME NEW n \in 0..MaxSeq
  PROVE  TakenOver(n).from + 1..TakenOver(n).seq = {}
BY Numbers DEF TakenOver

\* Nor does the place where there is no cursor.
LEMMA NowhereVouched == Nowhere.from + 1..Nowhere.seq = {}
BY DEF Nowhere, TakenOver

\* The next event, and the first of all, extend what the cursor answers for.
LEMMA NextEventVouched ==
  ASSUME CursorsTyped, AllVouched, NEW n \in 1..MaxSeq, InOrder(n), Record(n, TRUE),
         loaded' = loaded
  PROVE  AllVouched'
<1>1. /\ n \in Nat /\ n # 0 /\ applied' = applied \cup {n}
      /\ stored' = cursor' /\ cursor'.seq = n
  BY Numbers DEF Record
<1>2. cursor.seq \in Nat /\ cursor.from \in Nat
  BY Positions, Numbers DEF CursorsTyped
<1>3. cursor'.from + 1..n \subseteq applied'
  <2>1. CASE cursor = Nowhere
    <3>1. cursor'.from = n - 1
      BY <2>1 DEF Record
    <3>2. (n - 1) + 1..n = {n}
      BY <1>1
    <3>3. QED  BY <1>1, <3>1, <3>2
  <2>2. CASE cursor # Nowhere
    <3>1. cursor'.from = cursor.from /\ n = cursor.seq + 1
      BY <2>2 DEF Record, InOrder
    <3>2. cursor.from + 1..n \subseteq (cursor.from + 1..cursor.seq) \cup {n}
      BY <1>1, <1>2, <3>1
    <3>3. QED  BY <1>1, <3>1, <3>2 DEF AllVouched, Vouched
  <2>3. QED  BY <2>1, <2>2
<1>4. Vouched(cursor)' /\ Vouched(stored)'
  BY <1>1, <1>3 DEF Vouched
<1>5. Vouched(loaded)'
  BY <1>1 DEF AllVouched, Vouched
<1>6. QED  BY <1>4, <1>5 DEF AllVouched

\* Without the race the cursors go on to answer only for events that were given to
\* the queries.
LEMMA CoveredKept ==
  ASSUME LinkTyped, CursorsTyped, Attached, Covered, NoSilentLoss, Next
  PROVE  Covered' /\ NoSilentLoss'
<1> SUFFICES ASSUME ~raced' PROVE Covered' /\ NoSilentLoss'
  BY DEF Covered, NoSilentLoss
<1>1. OneEar /\ AllVouched
  BY RacedForever DEF Covered, OneEar, NoSilentLoss, AllVouched
<1>2. OneEar'
  BY <1>1, OneEarKept
<1>3. SUFFICES AllVouched'
  BY <1>2 DEF Covered, OneEar, NoSilentLoss, AllVouched
<1>4. CASE UNCHANGED <<cursor, stored, applied, loaded>>
  BY <1>1, <1>4 DEF AllVouched, Vouched
<1>5. CASE ClearCache \/ DatabaseCleared
  BY <1>1, <1>5, NowhereVouched DEF ClearCache, DatabaseCleared, AllVouched, Vouched
<1>6. CASE CacheCleared
  <2>1. cursor.seq \in 0..MaxSeq /\ stored.seq \in 0..MaxSeq /\ loaded.seq \in 0..MaxSeq
    BY Positions DEF CursorsTyped
  <2>2. /\ cursor' = TakenOver(cursor.seq) /\ stored' = TakenOver(stored.seq)
        /\ loaded' = TakenOver(loaded.seq)
    BY <1>6 DEF CacheCleared
  <2>3. QED  BY <2>1, <2>2, TakenOverVouched DEF AllVouched, Vouched
<1>7. CASE ReadCursors
  <2>1. UNCHANGED cursorVars
    BY <1>7 DEF ReadCursors
  <2>2. loaded' = stored \/ \E n \in 0..MaxSeq : loaded' = TakenOver(n)
    BY <1>7 DEF ReadCursors
  <2>3. QED  BY <1>1, <2>1, <2>2, TakenOverVouched DEF cursorVars, AllVouched, Vouched
<1>8. CASE CursorsLoaded
  BY <1>1, <1>8, NowhereVouched DEF CursorsLoaded, AllVouched, Vouched
<1>9. ASSUME NEW n \in 1..MaxSeq, Ingest(n) PROVE AllVouched'
  BY <1>1, <1>9, NextEventVouched DEF Ingest
<1>10. ASSUME NEW n \in 1..MaxSeq, NEW s \in Socket, DataMessage(s, n) PROVE AllVouched'
  <2>1. IsOpen(s) /\ ears[s] # "none" /\ loaded' = loaded
    BY <1>10 DEF DataMessage, Hears, Attached
  <2>2. current = s
    BY <1>1, <2>1 DEF OneEar, IsOpen
  <2>3. CASE InOrder(n)
    <3>1. Record(n, TRUE)
      BY <1>10, <2>1, <2>2, <2>3 DEF DataMessage, Record
    <3>2. QED  BY <1>1, <2>1, <2>3, <3>1, NextEventVouched
  <2>4. CASE ~InOrder(n)
    BY <1>1, <1>10, <2>1, <2>4 DEF DataMessage, cursorVars, AllVouched, Vouched
  <2>5. QED  BY <2>3, <2>4
<1>11. QED  BY <1>4, <1>5, <1>6, <1>7, <1>8, <1>9, <1>10, CursorFrame

-----------------------------------------------------------------------------
(* Reconnect timers that nothing refers to. *)

\* The sockets that have come to their end.
Ended == {s \in Socket : ready[s] = "closed"}

\* They can be counted.
LEMMA EndedCounted ==
  ASSUME NEW S \in SUBSET Socket
  PROVE  /\ IsFiniteSet(S) /\ Cardinality(S) \in 0..MaxSockets
         /\ \A s \in Socket \ S : Cardinality(S \cup {s}) = Cardinality(S) + 1
<1>1. IsFiniteSet(Socket) /\ Cardinality(Socket) = MaxSockets
  BY Numbers, FS_Interval DEF Socket
<1>2. IsFiniteSet(S) /\ Cardinality(S) <= Cardinality(Socket)
  BY <1>1, FS_Subset
<1>3. Cardinality(S) \in Nat
  BY <1>2, FS_CardinalityType
<1>4. \A s \in Socket \ S : Cardinality(S \cup {s}) = Cardinality(S) + 1
  BY <1>2, FS_AddElement
<1>5. QED  BY <1>1, <1>2, <1>3, <1>4, Numbers

\* A socket that has ended stays so, and only the end of one adds to them.
LEMMA EndedGrows ==
  ASSUME LinkTyped, Next
  PROVE  \/ Ended' = Ended
         \/ \E s \in Socket \ Ended : Ended' = Ended \cup {s}
<1>1. ASSUME ready' = ready PROVE Ended' = Ended
  BY <1>1 DEF Ended
<1>2. ASSUME NEW s, ready' = Closing(s) PROVE Ended' = Ended
  BY <1>2 DEF Closing, Ended, LinkTyped
<1>3. CASE \/ BecomeOwner \/ DatabaseCleared \/ ClearFails \/ CacheCleared
           \/ ReconnectTimer \/ ReadCursors \/ CursorsLoaded
           \/ TicketRefused \/ HandshakeRefused \/ HelloAck \/ Subscribed \/ SendPing
           \/ IngestSnapshot
           \/ \E s \in Socket : Pong(s) \/ \E n \in 1..MaxSeq : DataMessage(s, n)
           \/ \E n \in 1..MaxSeq : Ingest(n)
  BY <1>1, <1>3 DEF BecomeOwner, DatabaseCleared, ClearFails, CacheCleared,
     ReconnectTimer, ReadCursors, CursorsLoaded, TicketRefused, HandshakeRefused, HelloAck, Subscribed, SendPing, IngestSnapshot, Pong,
     DataMessage, Ingest, link
<1>4. CASE \/ LoseOwnership \/ ClearCache \/ PingTimeout \/ BeatTimeout
           \/ \E s \in Socket : Malformed(s)
  BY <1>2, <1>4 DEF LoseOwnership, ClearCache, Disconnect, PingTimeout, BeatTimeout,
     Malformed,
     ProtocolError
<1>5. CASE \E s \in Socket : TicketArrives(s) \/ Open(s)
  BY <1>5 DEF TicketArrives, Open, Ended, LinkTyped
<1>6. CASE SocketEnds
  <2>1. PICK s \in Socket : Ends(s)
    BY <1>6 DEF SocketEnds, CloseUnheard, CloseBeforeReady, CloseReady
  <2>2. s \notin Ended /\ Ended' = Ended \cup {s}
    BY <2>1 DEF Ends, Ended, LinkTyped
  <2>3. QED  BY <2>2
<1> QED
  BY <1>3, <1>4, <1>5, <1>6 DEF Next, Provider, Attempt

\* Every leaked timer is paid for by the end of a socket, and the first one by two.
LEMMA LeaksKept ==
  ASSUME LinkTyped, TimersTyped, LeaksCounted, Next
  PROVE  LeaksCounted' /\ leaked' \in 0..MaxSockets - 1
<1> DEFINE n == Cardinality(Ended)
           counted == (held => leaked + 1 <= n) /\ (leaked > 0 => leaked + 1 <= n)
<1>1. Ended \subseteq Socket /\ Ended' \subseteq Socket
  BY DEF Ended
<1>2. n \in 0..MaxSockets /\ n' \in 0..MaxSockets /\ n <= n'
  BY <1>1, EndedCounted, EndedGrows, Numbers
<1>3. counted /\ leaked \in Nat
  BY DEF LeaksCounted, Ended, TimersTyped
<1>4. counted' /\ leaked' \in Nat
  <2>1. CASE (held' => held) /\ leaked' = leaked
    BY <1>2, <1>3, <2>1
  <2>2. CASE ReconnectTimer
    <3>1. ~held' /\ (leaked' = leaked \/ (leaked > 0 /\ leaked' = leaked - 1))
      BY <2>2 DEF ReconnectTimer
    <3>2. QED  BY <1>2, <1>3, <3>1
  <2>3. ASSUME NEW s \in Socket, CloseReady(s) PROVE counted' /\ leaked' \in Nat
    <3>1. s \notin Ended /\ Ended' = Ended \cup {s}
      BY <2>3 DEF CloseReady, Ends, Ended, LinkTyped
    <3>2. n' = n + 1
      BY <1>1, <3>1, EndedCounted
    <3>3. CASE manual
      BY <1>2, <1>3, <2>3, <3>2, <3>3 DEF CloseReady
    <3>4. CASE ~manual
      <4>1. held' /\ leaked' = (IF held THEN leaked + 1 ELSE leaked)
        BY <2>3, <3>4 DEF CloseReady, ScheduleReconnect
      <4>2. QED  BY <1>2, <1>3, <3>2, <4>1
    <3>5. QED  BY <3>3, <3>4
  <2>4. CASE ~ReconnectTimer /\ ~(\E s \in Socket : CloseReady(s))
    <3>1. CASE Provider \/ Attempt
      <4>1. CASE LoseOwnership \/ ClearCache
        <5>1. ~held' /\ leaked' = leaked
          BY <4>1 DEF LoseOwnership, ClearCache, Disconnect
        <5>2. QED  BY <2>1, <5>1
      <4>2. CASE ~LoseOwnership /\ ~ClearCache
        <5>1. held' = held /\ leaked' = leaked
          BY <2>4, <3>1, <4>2 DEF Provider, BecomeOwner, Attempt, DatabaseCleared, CacheCleared,
             ReadCursors, CursorsLoaded, TicketArrives, Open, HelloAck, Subscribed, timerVars
        <5>2. QED  BY <2>1, <5>1
      <4>3. QED  BY <4>1, <4>2
    <3>2. CASE SocketEnds \/ TicketRefused \/ HandshakeRefused
      <4>1. held' = held /\ leaked' = leaked
        BY <2>4, <3>2 DEF SocketEnds, CloseUnheard, CloseBeforeReady, TicketRefused,
           HandshakeRefused, timerVars
      <4>2. QED  BY <2>1, <4>1
    <3>3. CASE ~(Provider \/ Attempt \/ SocketEnds \/ TicketRefused \/ HandshakeRefused)
      <4>1. held' = held /\ leaked' = leaked
        BY <2>4, <3>3 DEF Next, SendPing, PingTimeout, BeatTimeout, ProtocolError, Pong,
           Malformed, DataMessage, Ingest, IngestSnapshot, ClearFails, timerVars
      <4>2. QED  BY <2>1, <4>1
    <3>4. QED  BY <3>1, <3>2, <3>3
  <2>5. QED  BY <2>2, <2>3, <2>4
<1>5. leaked' \in 0..MaxSockets - 1
  BY <1>2, <1>4, Numbers
<1>6. QED  BY <1>4, <1>5 DEF LeaksCounted, Ended

-----------------------------------------------------------------------------
(* A tab that owns the socket is connected, or will try. *)

\* Where connect() does nothing there is an attempt or a live socket already.
LEMMA ConnectUnderWay ==
  ASSUME LinkTyped, Attached, Connect, UNCHANGED link
  PROVE  UnderWay' \/ failed'
<1>1. CASE /\ attempt.pc = "idle" /\ current # NoSocket
           /\ ready[current] \in {"connecting", "open"}
  <2>1. UNCHANGED <<attempt, failed>>
    BY <1>1 DEF Connect
  <2>2. attempt.sock = NoSocket /\ current \in Socket
    BY <1>1, Numbers DEF LinkTyped, AttemptState
  <2>3. ready[current] = "open" /\ (ears[current] = "ready" \/ failed)
    BY <1>1, <2>2, Numbers DEF Attached
  <2>4. QED  BY <2>1, <2>2, <2>3 DEF UnderWay, link
<1>2. CASE attempt.pc # "idle"
  BY <1>2 DEF Connect, UnderWay
<1>3. CASE attempt' = [Idle EXCEPT !.pc = "reading"]
  BY <1>3 DEF UnderWay, Idle
<1>4. QED  BY <1>1, <1>2, <1>3 DEF Connect

\* A listened socket that is open or closing is still so, and no timer is gone.
LEMMA StillUnderWay ==
  ASSUME LinkTyped, UnderWay, UNCHANGED <<attempt, held, leaked>>,
         \A s \in Socket : /\ ears[s] = "ready" => ears'[s] = "ready"
                           /\ ears[s] = "ready" /\ ready[s] \in {"open", "closing"} =>
                                ready'[s] \in {"open", "closing"}
  PROVE  UnderWay'
BY DEF UnderWay

\* An owner that has neither failed nor disconnected stays under way.
LEMMA NotStrandedKept ==
  ASSUME LinkTyped, TimersTyped, Attached, NotStranded, Next
  PROVE  NotStranded'
<1> SUFFICES ASSUME own', ~manual', ~failed' PROVE UnderWay'
  BY DEF NotStranded
<1>1. CASE BecomeOwner \/ ReconnectTimer \/ (CacheCleared /\ reconnects)
  <2>1. Connect /\ UNCHANGED link
    BY <1>1 DEF BecomeOwner, ReconnectTimer, CacheCleared
  <2>2. QED  BY <2>1, ConnectUnderWay
<1>2. ~LoseOwnership /\ ~ClearCache
  BY DEF LoseOwnership, ClearCache, Disconnect
<1>3. CASE \/ ReadCursors \/ CursorsLoaded \/ HelloAck
           \/ \E s \in Socket : TicketArrives(s) \/ Open(s)
  <2>1. attempt'.pc # "idle"
    <3>1. Goto("loaded") \/ Goto("ticket") \/ Goto("subscribe") => attempt'.pc # "idle"
      BY DEF Goto, LinkTyped, AttemptState
    <3>2. CASE \E s \in Socket : TicketArrives(s)
      BY <3>2 DEF TicketArrives
    <3>3. ASSUME NEW s \in Socket, Open(s) PROVE attempt'.pc # "idle"
      <4>1. Goto("hello")
        BY <3>3 DEF Open, HandshakeFails
      <4>2. QED  BY <4>1 DEF Goto, LinkTyped, AttemptState
    <3>4. CASE ReadCursors \/ CursorsLoaded \/ HelloAck
      BY <3>1, <3>4 DEF ReadCursors, CursorsLoaded, HelloAck
    <3>5. QED  BY <1>3, <3>2, <3>3, <3>4
  <2>2. QED  BY <2>1 DEF UnderWay
<1>4. CASE Subscribed
  <2>1. attempt.sock \in Socket /\ ready[attempt.sock] = "open"
    BY <1>4 DEF Subscribed, At, IsOpen, LinkTyped, AttemptState
  <2>2. QED  BY <1>4, <2>1 DEF Subscribed, UnderWay, LinkTyped
<1>5. ~TicketRefused /\ ~HandshakeRefused /\ ~\E s \in Socket : CloseBeforeReady(s)
  BY DEF TicketRefused, HandshakeRefused, CloseBeforeReady, HandshakeFails
<1>6. ASSUME NEW s \in Socket, CloseReady(s) PROVE UnderWay'
  BY <1>6 DEF CloseReady, ScheduleReconnect, UnderWay
<1>7. CASE DatabaseCleared \/ ClearFails \/ (CacheCleared /\ ~reconnects)
  <2>1. UNCHANGED <<own, manual, failed, link, attempt, held, leaked>>
    BY <1>7 DEF DatabaseCleared, ClearFails, CacheCleared, timerVars
  <2>2. QED  BY <2>1, StillUnderWay DEF NotStranded, link
<1>8. CASE \/ SendPing \/ IngestSnapshot
           \/ \E s \in Socket : Pong(s) \/ \E n \in 1..MaxSeq : DataMessage(s, n)
           \/ \E n \in 1..MaxSeq : Ingest(n)
  <2>1. UNCHANGED <<own, manual, failed, link, attempt, held, leaked>>
    BY <1>8 DEF SendPing, IngestSnapshot, Pong, DataMessage, Ingest, timerVars
  <2>2. QED  BY <2>1, StillUnderWay DEF NotStranded, link
<1>9. CASE PingTimeout \/ BeatTimeout \/ \E s \in Socket : Malformed(s)
  <2>1. /\ UNCHANGED <<own, manual, failed, attempt, ears, held, leaked>>
        /\ ready' = Closing(current)
    BY <1>9 DEF PingTimeout, BeatTimeout, Malformed, ProtocolError, HandshakeFails
  <2>2. \A s \in Socket : ready'[s] = ready[s] \/ ready'[s] = "closing"
    BY <2>1 DEF Closing, LinkTyped
  <2>3. QED  BY <2>1, <2>2, StillUnderWay DEF NotStranded
<1>10. ASSUME NEW s \in Socket, CloseUnheard(s) PROVE UnderWay'
  <2>1. /\ UNCHANGED <<own, manual, failed, attempt, ears, held, leaked>>
        /\ ears[s] = "none" /\ ready' = [ready EXCEPT ![s] = "closed"]
    BY <1>10 DEF CloseUnheard, Ends, timerVars
  <2>2. QED  BY <2>1, StillUnderWay DEF NotStranded, LinkTyped
<1> QED
  BY <1>1, <1>2, <1>3, <1>4, <1>5, <1>6, <1>7, <1>8, <1>9, <1>10
  DEF Next, Provider, Attempt, SocketEnds

-----------------------------------------------------------------------------
(* Theorems *)

\* At first there is no socket and no attempt.
LEMMA InitConsistent == Init => TypeOK /\ Consistent
<1> SUFFICES ASSUME Init PROVE TypeOK /\ Consistent
  OBVIOUS
<1>1. LinkTyped
  BY DEF Init, LinkTyped, AttemptState, ReadyState, Ears, Idle
<1>2. CursorsTyped /\ leaked \in 0..MaxSockets - 1
  <2>1. /\ 0 \in 0..MaxSockets - 1 /\ 0 \in 0..MaxSeq
        /\ 0 \in 0..MaxCalls /\ 0 \in 0..MaxFaults
    BY Numbers
  <2>2. QED  BY <2>1, Positions DEF Init, CursorsTyped
<1>3. TimersTyped
  BY DEF Init, TimersTyped
<1>4. Attached
  BY Numbers DEF Init, Attached, Idle, At
<1>5. Covered /\ NoSilentLoss /\ LeaksCounted /\ NotStranded
  BY NowhereVouched DEF Init, Covered, NoSilentLoss, Vouched, LeaksCounted, NotStranded
<1>6. QED  BY <1>1, <1>2, <1>3, <1>4, <1>5, TypeParts DEF Consistent

\* The inductive invariant of the client.
THEOREM InductiveInvariant == Spec => [](TypeOK /\ Consistent)
<1>1. TypeOK /\ Consistent /\ [Next]_vars => TypeOK' /\ Consistent'
  <2> SUFFICES ASSUME TypeOK, Consistent, [Next]_vars PROVE TypeOK' /\ Consistent'
    OBVIOUS
  <2>1. LinkTyped /\ TimersTyped /\ CursorsTyped
    BY TypeParts
  <2>2. CASE UNCHANGED vars
    BY <2>2 DEF vars, link, timerVars, cursorVars, clear, bounds, TypeOK, Consistent,
       Attached, Covered, Vouched, LeaksCounted, NoSilentLoss, NotStranded, UnderWay, At
  <2>3. CASE Next
    <3>1. LinkTyped' /\ TimersTyped' /\ CursorsTyped'
      BY <2>1, <2>3, LinkKept, TimersKept, CursorsKept DEF Consistent
    <3>2. Attached' /\ Covered' /\ NoSilentLoss' /\ NotStranded'
      BY <2>1, <2>3, AttachedKept, CoveredKept, NotStrandedKept DEF Consistent
    <3>3. LeaksCounted' /\ leaked' \in 0..MaxSockets - 1
      BY <2>1, <2>3, LeaksKept DEF Consistent
    <3>4. TypeOK'
      BY <3>1, <3>3, Numbers
         DEF TypeOK, LinkTyped, TimersTyped, CursorsTyped, ReadyState, Ears,
            AttemptState
    <3>5. QED  BY <3>2, <3>3, <3>4 DEF Consistent
  <2>4. QED  BY <2>2, <2>3
<1>2. QED  BY <1>1, InitConsistent, PTL DEF Spec

\* Types; in particular a tab leaks fewer reconnect timers than it has had sockets.
THEOREM TypeCorrect == Spec => []TypeOK
BY InductiveInvariant, PTL

\* Neither the cursor that decides what the server does not send again nor the one
\* the tab leaves in IndexedDB passes an event that has not reached the queries since
\* it was taken over, whatever other tabs write; but for one race of the code.
THEOREM CursorsCoverEvents == Spec => []NoSilentLoss
<1>1. Consistent => NoSilentLoss
  BY DEF Consistent
<1>2. QED  BY <1>1, InductiveInvariant, PTL

\* A tab that owns the socket is connected or will try, unless its last attempt was
\* rejected or was given up by a disconnect().
THEOREM OwnersAreUnderWay == Spec => []NotStranded
<1>1. Consistent => NotStranded
  BY DEF Consistent
<1>2. QED  BY <1>1, InductiveInvariant, PTL
===============================================================================
