---------------------------- MODULE SocketClient ----------------------------
(***************************************************************************)
(* The realtime WebSocket client of one browser tab (data-layer,           *)
(* realtime/socket-client.ts) with the provider that owns it, for one      *)
(* topic.                                                                  *)
(*                                                                         *)
(* One action is one turn of the event loop: an event of a socket, a       *)
(* timer, the answer to an await, a call of the provider.  The promises    *)
(* that a turn settles run before the next one and belong to its action.   *)
(* A tab that does not own the socket hears what the owner broadcasts.     *)
(* The cursors in IndexedDB are one key of all tabs and sessions: each     *)
(* writes it whole, and a read returns what any of them wrote last.        *)
(*                                                                         *)
(* A cursor carries a history: `from`, up to where it was taken over from  *)
(* another tab, an earlier session or a clear; the events after that, up   *)
(* to `seq`, are those this tab answers for.                               *)
(*                                                                         *)
(* Abstracted: delays and the number of reconnect attempts (unlimited by   *)
(* default), the listeners' wording, and which cursors the server resumes  *)
(* from: it may send any event, at any time, again or not at all.          *)
(***************************************************************************)
EXTENDS Integers, FiniteSets

CONSTANTS
  MaxSockets,  \* bound: WebSockets the tab creates
  MaxSeq,      \* bound: events of the topic; the server has produced them all
  MaxCalls,    \* bound: calls of the provider
  MaxFaults    \* bound: dropped connections, refused tickets and handshakes, failed clears

ASSUME BoundAssumption ==
  MaxSockets # 0 /\ {MaxSockets, MaxSeq, MaxCalls, MaxFaults} \subseteq Nat

Socket == 1..MaxSockets
NoSocket == 0

VARIABLES
  current,     \* this.socket
  ready,       \* readyState of each socket, "unborn" before it is created
  ears,        \* the listeners on each socket: "none" | "handshake" | "ready"
  conn,        \* connectionSnapshot.state, "told" if it is what the owner broadcast
  attempt,     \* activeConnectPromise: where doConnect is, and its socket
  loaded,      \* the cursor that doConnect has read and not yet assigned
  manual,      \* manuallyClosed
  held,        \* reconnectTimer is armed
  leaked,      \* armed reconnect timers that nothing refers to
  beat,        \* heartbeatTimeoutTimer: "off" | "armed" | "fired"
  pinger,      \* heartbeatIntervalTimer is armed
  ping,        \* a PING waits for its PONG
  cursor,      \* cursorStore: the entry of the topic, Nowhere without one
  stored,      \* the entry that this tab has last written to IndexedDB
  own,         \* shouldOwnSocket of the provider
  clearing,    \* clearCache: "no" | "database", to be cleared | "queries", to be dropped
  reconnects,  \* shouldOwnSocket when clearCache was called
  applied,     \* history: the events given to the queries since they were dropped
  raced,       \* history: see CloseReady
  failed,      \* history: the last attempt to connect was rejected
  calls, faults

link == <<current, ready, ears>>
timerVars == <<held, leaked, beat, pinger, ping>>
cursorVars == <<cursor, stored, applied>>
bounds == <<calls, faults>>
clear == <<clearing, reconnects>>
vars == <<link, conn, attempt, loaded, manual, timerVars, cursorVars, own,
          clear, raced, failed, bounds>>

Position == [seq : 0..MaxSeq, from : 0..MaxSeq]
TakenOver(n) == [seq |-> n, from |-> n]
Nowhere == TakenOver(0)

Idle == [pc |-> "idle", sock |-> NoSocket]

TypeOK ==
  /\ current \in Socket \cup {NoSocket}
  /\ ready \in [Socket -> {"unborn", "connecting", "open", "closing", "closed"}]
  /\ ears \in [Socket -> {"none", "handshake", "ready"}]
  /\ conn \in {"idle", "connecting", "handshaking", "ready", "reconnecting", "error", "closed", "told"}
  /\ attempt \in [pc : {"idle", "reading", "loaded", "ticket"}, sock : {NoSocket}]
               \cup [pc : {"opening", "hello", "subscribe"}, sock : Socket]
  /\ {manual, held, pinger, ping, own, reconnects, raced, failed} \subseteq BOOLEAN
  /\ leaked \in 0..MaxSockets - 1
  /\ beat \in {"off", "armed", "fired"}
  /\ {cursor, stored, loaded} \subseteq Position /\ applied \subseteq 1..MaxSeq
  /\ clearing \in {"no", "database", "queries"}
  /\ calls \in 0..MaxCalls /\ faults \in 0..MaxFaults

Init ==
  /\ current = NoSocket
  /\ ready = [s \in Socket |-> "unborn"]
  /\ ears = [s \in Socket |-> "none"]
  /\ conn = "idle"
  /\ attempt = Idle
  /\ loaded = Nowhere /\ cursor = Nowhere /\ stored = Nowhere /\ applied = {}
  /\ manual = FALSE /\ held = FALSE /\ pinger = FALSE /\ ping = FALSE
  /\ leaked = 0 /\ beat = "off"
  /\ own = FALSE /\ clearing = "no" /\ reconnects = FALSE
  /\ raced = FALSE /\ failed = FALSE
  /\ calls = 0 /\ faults = 0

IsOpen(s) == s # NoSocket /\ ready[s] = "open"
Fault == faults < MaxFaults /\ faults' = faults + 1
Call == calls < MaxCalls /\ calls' = calls + 1

\* socket.close(): the close event comes later.
Closing(s) ==
  IF s # NoSocket /\ ready[s] \in {"connecting", "open"} THEN [ready EXCEPT ![s] = "closing"] ELSE ready

\* sendHello awaits an answer, which rejectPendingRequests turns into a failure
\* of the handshake: its listeners go, the promise of connect() is rejected.
Handshaking == attempt.pc \in {"hello", "subscribe"}
Rejected ==
  /\ attempt' = IF Handshaking THEN Idle ELSE attempt
  /\ failed' = (failed \/ Handshaking)
Unheard == IF Handshaking THEN [ears EXCEPT ![attempt.sock] = "none"] ELSE ears

-----------------------------------------------------------------------------
(* connect, disconnect and the provider's calls *)

Connect ==
  IF attempt.pc # "idle" \/ (current # NoSocket /\ ready[current] \in {"connecting", "open"})
  THEN UNCHANGED <<manual, attempt, failed>>
  ELSE manual' = FALSE /\ attempt' = [Idle EXCEPT !.pc = "reading"] /\ failed' = FALSE

\* A PING that is rejected here reports a heartbeat timeout afterwards.
Disconnect ==
  /\ manual' = TRUE
  /\ held' = FALSE /\ beat' = "off" /\ pinger' = FALSE /\ ping' = FALSE
  /\ Rejected /\ ears' = Unheard
  /\ ready' = Closing(current) /\ current' = NoSocket
  /\ conn' = IF ping THEN "error" ELSE "closed"
  /\ UNCHANGED leaked

\* The tab becomes the leader, or runs standalone.
BecomeOwner ==
  /\ Call /\ ~own
  /\ own' = TRUE
  /\ Connect
  /\ UNCHANGED <<link, conn, loaded, timerVars, cursorVars, clear, raced, faults>>

LoseOwnership ==
  /\ Call /\ own
  /\ own' = FALSE
  /\ Disconnect
  /\ UNCHANGED <<loaded, cursorVars, clear, raced, faults>>

\* clearCache, and the change of the auth scope: disconnect and clearResumeState,
\* which ends it all if the write fails.  One at a time.
ClearCache ==
  /\ Call /\ clearing = "no"
  /\ Disconnect
  /\ cursor' = Nowhere
  /\ \/ stored' = Nowhere /\ clearing' = "database" /\ reconnects' = own /\ UNCHANGED faults
     \/ Fault /\ UNCHANGED <<stored, clear>>
  /\ UNCHANGED <<loaded, applied, own, raced>>

\* ... await database.clearAll(), the cursors included ...
DatabaseCleared ==
  /\ clearing = "database" /\ clearing' = "queries"
  /\ stored' = Nowhere
  /\ UNCHANGED <<link, conn, attempt, loaded, manual, timerVars, cursor, applied, own, reconnects,
                 raced, failed, bounds>>

\* ... whose failure leaves the client disconnected ...
ClearFails ==
  /\ clearing = "database" /\ Fault
  /\ clearing' = "no" /\ reconnects' = FALSE
  /\ UNCHANGED <<link, conn, attempt, loaded, manual, timerVars, cursorVars, own, raced, failed,
                 calls>>

\* ... queryClient.clear(), after which the queries are fetched anew, and connect
\* if the tab owned the socket.  What was heard, or read by an attempt, since
\* clearResumeState keeps its place in the cursors, ahead of the emptied queries.
CacheCleared ==
  /\ clearing = "queries" /\ clearing' = "no" /\ reconnects' = FALSE
  /\ applied' = {}
  /\ cursor' = TakenOver(cursor.seq) /\ stored' = TakenOver(stored.seq)
  /\ loaded' = TakenOver(loaded.seq)
  /\ IF reconnects THEN Connect ELSE UNCHANGED <<manual, attempt, failed>>
  /\ UNCHANGED <<link, conn, timerVars, own, raced, bounds>>

\* The callback of any reconnect timer forgets the one that is held.
ReconnectTimer ==
  /\ \/ held /\ UNCHANGED leaked
     \/ leaked > 0 /\ leaked' = IF held THEN leaked ELSE leaked - 1
  /\ held' = FALSE
  /\ Connect
  /\ UNCHANGED <<link, conn, loaded, beat, pinger, ping, cursorVars, own, clear, raced, bounds>>

-----------------------------------------------------------------------------
(* doConnect: the cursors, the ticket, the socket, the handshake *)

At(pc) == attempt.pc = pc
Goto(pc) == attempt' = [attempt EXCEPT !.pc = pc]

\* The entry may have been written since by another tab that records an event, drops
\* the topic with its own store or clears its cache; or by an earlier session.
ReadCursors ==
  /\ At("reading") /\ Goto("loaded")
  /\ loaded' \in {stored} \cup {TakenOver(n) : n \in 0..MaxSeq}
  /\ UNCHANGED <<link, conn, manual, timerVars, cursorVars, own, clear, raced, failed, bounds>>

CursorsLoaded ==
  /\ At("loaded") /\ Goto("ticket")
  /\ cursor' = loaded
  /\ loaded' = Nowhere
  /\ \/ conn \in {"ready", "reconnecting", "told"} /\ conn' = "reconnecting"
     \/ conn \notin {"ready", "reconnecting"} /\ conn' = "connecting"
  /\ UNCHANGED <<link, manual, timerVars, stored, applied, own, clear, raced, failed, bounds>>

TicketRefused ==
  /\ At("ticket") /\ Fault
  /\ attempt' = Idle /\ failed' = TRUE
  /\ UNCHANGED <<link, conn, loaded, manual, timerVars, cursorVars, own, clear, raced, calls>>

TicketArrives(s) ==
  /\ At("ticket") /\ ready[s] = "unborn" /\ \A r \in 1..s - 1 : ready[r] # "unborn"
  /\ attempt' = [pc |-> "opening", sock |-> s]
  /\ current' = s
  /\ ready' = [ready EXCEPT ![s] = "connecting"]
  /\ ears' = [ears EXCEPT ![s] = "handshake"]
  /\ UNCHANGED <<conn, loaded, manual, timerVars, cursorVars, own, clear, raced, failed, bounds>>

\* The listeners of the handshake are removed and nothing else is cleaned up.
HandshakeFails(s) ==
  /\ attempt' = Idle /\ failed' = TRUE
  /\ ears' = [ears EXCEPT ![s] = "none"]

\* handleOpen; sendHello fails unless the socket is still this.socket.
Open(s) ==
  /\ ready[s] = "connecting" /\ ready' = [ready EXCEPT ![s] = "open"]
  /\ conn' = "handshaking"
  /\ IF current = s THEN Goto("hello") /\ UNCHANGED <<ears, failed>> ELSE HandshakeFails(s)
  /\ UNCHANGED <<current, loaded, manual, timerVars, cursorVars, own, clear, raced, bounds>>

HelloAck_NoHeartbeat ==
  /\ At("hello") /\ IsOpen(attempt.sock)
  /\ Goto("subscribe")
  /\ conn' = "ready"
  /\ UNCHANGED <<link, loaded, manual, timerVars, cursorVars, own, clear, raced, failed, bounds>>

\* HELLO_ACK: ready, the heartbeat starts and the topics are subscribed to.
HelloAck ==
  /\ At("hello") /\ IsOpen(attempt.sock)
  /\ Goto("subscribe")
  /\ conn' = "ready"
  /\ beat' = "armed" /\ pinger' = TRUE
  /\ UNCHANGED <<link, loaded, manual, held, leaked, ping, cursorVars, own, clear, raced,
                 failed, bounds>>

\* The answer to SUBSCRIBE, an ERROR included: the handshake is over.
Subscribed ==
  /\ At("subscribe") /\ IsOpen(attempt.sock)
  /\ attempt' = Idle
  /\ ears' = [ears EXCEPT ![attempt.sock] = "ready"]
  /\ beat' = IF beat = "off" THEN beat ELSE "armed"
  /\ UNCHANGED <<current, ready, conn, loaded, manual, held, leaked, pinger, ping, cursorVars, 
                 own, clear, raced, failed, bounds>>

\* The HELLO is refused, or a request of the handshake times out: the socket
\* stays open, without a listener.
HandshakeRefused ==
  /\ Handshaking /\ Fault
  /\ HandshakeFails(attempt.sock)
  /\ UNCHANGED <<current, ready, conn, loaded, manual, timerVars, cursorVars, own, clear,
                 raced, calls>>

-----------------------------------------------------------------------------
(* The end of a socket: after close(), or because the connection dropped *)

Ends(s) ==
  /\ \/ ready[s] = "closing" /\ UNCHANGED faults
     \/ ready[s] \in {"connecting", "open"} /\ Fault
  /\ ready' = [ready EXCEPT ![s] = "closed"]

CloseUnheard(s) ==
  /\ ears[s] = "none" /\ Ends(s)
  /\ UNCHANGED <<current, ears, conn, attempt, loaded, manual, timerVars, cursorVars, own,
                 clear, raced, failed, calls>>

CloseBeforeReady(s) ==
  /\ ears[s] = "handshake" /\ Ends(s)
  /\ HandshakeFails(s)
  /\ UNCHANGED <<current, conn, loaded, manual, timerVars, cursorVars, own, clear, raced, calls>>

ScheduleReconnect_ForgetsTimer == leaked' = leaked + 1 /\ UNCHANGED held
ScheduleReconnect_OnlyIfArmed == UNCHANGED <<held, leaked>>

\* scheduleReconnect overwrites a timer that is armed.
ScheduleReconnect ==
  /\ held' = TRUE
  /\ leaked' = IF held THEN leaked + 1 ELSE leaked

\* The close listener of a ready socket, which looks at this.socket and not at
\* the socket it belongs to: if that is another one by now, the client loses
\* track of an open socket (raced).
CloseReady(s) ==
  /\ ears[s] = "ready" /\ Ends(s)
  /\ ears' = [Unheard EXCEPT ![s] = "none"]
  /\ current' = NoSocket
  /\ beat' = "off" /\ pinger' = FALSE /\ ping' = FALSE
  /\ Rejected
  /\ IF manual THEN UNCHANGED <<held, leaked>> ELSE ScheduleReconnect
  /\ conn' = IF ping THEN "error" ELSE IF manual THEN "closed" ELSE "reconnecting"
  /\ raced' = (raced \/ current \notin {s, NoSocket})
  /\ UNCHANGED <<loaded, manual, cursorVars, own, clear, calls>>

-----------------------------------------------------------------------------
(* The heartbeat *)

\* One request is outstanding at a time: it times out before the next is due.
SendPing ==
  /\ pinger /\ ~ping
  /\ IF IsOpen(current) THEN ping' = TRUE /\ UNCHANGED pinger ELSE pinger' = FALSE /\ UNCHANGED ping
  /\ UNCHANGED <<link, conn, attempt, loaded, manual, held, leaked, beat, cursorVars, own,
                 clear, raced, failed, bounds>>

Hears(s) == IsOpen(s) /\ (ears[s] = "ready" \/ attempt = [pc |-> "subscribe", sock |-> s])

Pong(s) ==
  /\ ping /\ s = current /\ Hears(s)
  /\ ping' = FALSE
  /\ beat' = IF beat = "off" THEN beat ELSE "armed"
  /\ UNCHANGED <<link, conn, attempt, loaded, manual, held, leaked, pinger, cursorVars, own,
                 clear, raced, failed, bounds>>

\* handleProtocolError closes whatever this.socket is by now.
ProtocolError ==
  /\ conn' = "error"
  /\ ready' = Closing(current)
  /\ UNCHANGED <<current, loaded, manual, held, leaked, pinger, cursorVars, own, clear, raced, calls>>

PingTimeout ==
  /\ ping /\ ping' = FALSE
  /\ ProtocolError
  /\ UNCHANGED <<ears, attempt, failed, beat, faults>>

BeatTimeout ==
  /\ beat = "armed" /\ beat' = "fired"
  /\ ProtocolError
  /\ UNCHANGED <<ears, attempt, failed, ping, faults>>

\* A message that does not parse.
Malformed(s) ==
  /\ IsOpen(s) /\ ears[s] # "none" /\ Fault
  /\ ProtocolError
  /\ IF ears[s] = "handshake" THEN HandshakeFails(s) ELSE UNCHANGED <<ears, attempt, failed>>
  /\ UNCHANGED <<beat, ping>>

-----------------------------------------------------------------------------
(* Events of the topic *)

InOrder_IgnoresGaps(n) == cursor = Nowhere \/ n > cursor.seq

\* handleDataMessageOrdering: a stale event and one after a gap go no further.
InOrder(n) == cursor = Nowhere \/ n = cursor.seq + 1

\* recordCursor, which writes the store of this tab over that of any other, and
\* the queries, if the listeners are reached.
Record(n, reached) ==
  /\ cursor' = [seq |-> n, from |-> IF cursor = Nowhere THEN n - 1 ELSE cursor.from]
  /\ stored' = cursor'
  /\ applied' = IF reached THEN applied \cup {n} ELSE applied

\* An EVENT or SNAPSHOT from a socket.  Its ACK goes to this.socket: it throws
\* unless that is open, after the cursor is recorded and before the listeners
\* are called.
DataMessage(s, n) ==
  /\ Hears(s)
  /\ beat' = IF beat = "off" THEN beat ELSE "armed"
  /\ IF InOrder(n) THEN Record(n, IsOpen(current)) ELSE UNCHANGED cursorVars
  /\ UNCHANGED <<link, conn, attempt, loaded, manual, held, leaked, pinger, ping, own, clear,
                 raced, failed, bounds>>

\* ingestServerMessage and ingestConnectionSnapshot: what the owner broadcasts.
\* An attempt that has read the cursors will put the old ones back.
Ingest(n) ==
  /\ ~own /\ InOrder(n)
  /\ Record(n, TRUE)
  /\ UNCHANGED <<link, conn, attempt, loaded, manual, timerVars, own, clear, raced, failed, bounds>>

IngestSnapshot ==
  /\ ~own /\ conn' = "told"
  /\ UNCHANGED <<link, attempt, loaded, manual, timerVars, cursorVars, own, clear, raced,
                 failed, bounds>>

-----------------------------------------------------------------------------
Provider == BecomeOwner \/ LoseOwnership \/ ClearCache

Attempt ==
  \/ DatabaseCleared \/ CacheCleared \/ ReconnectTimer \/ ReadCursors \/ CursorsLoaded
  \/ \E s \in Socket : TicketArrives(s) \/ Open(s)
  \/ HelloAck \/ Subscribed

SocketEnds == \E s \in Socket : CloseUnheard(s) \/ CloseBeforeReady(s) \/ CloseReady(s)

Next ==
  \/ Provider \/ Attempt \/ SocketEnds
  \/ TicketRefused \/ HandshakeRefused \/ ClearFails
  \/ SendPing \/ PingTimeout \/ BeatTimeout
  \/ \E s \in Socket : Pong(s) \/ Malformed(s) \/ \E n \in 1..MaxSeq : DataMessage(s, n)
  \/ \E n \in 1..MaxSeq : Ingest(n)
  \/ IngestSnapshot

Spec == Init /\ [][Next]_vars

\* Every step the client owes is taken; a timer that nothing restarts fires.
Fairness ==
  /\ WF_vars(Attempt) /\ WF_vars(\E s \in Socket : ready[s] = "closing" /\ SocketEnds)
  /\ WF_vars(BeatTimeout /\ ~IsOpen(current))
FairSpec == Spec /\ Fairness

-----------------------------------------------------------------------------
(* Properties *)

Vouched(p) == p.from + 1..p.seq \subseteq applied

\* A cursor decides what the server does not send again.  Neither the tab's own
\* nor the one it has left in IndexedDB for any tab to resume from passes an event
\* that has not reached the queries, whatever position it was taken over at;
\* except after the race of the code that CloseReady names.
NoSilentLoss == ~raced => Vouched(cursor) /\ Vouched(stored)

UnderWay ==
  \/ attempt.pc # "idle" \/ held \/ leaked > 0
  \/ \E s \in Socket : ears[s] = "ready" /\ ready[s] \in {"open", "closing"}

\* A tab that owns the socket is connected, or will try; except after a
\* rejected attempt, which nothing repeats, and where a disconnect() has had the
\* last word (manual): while the cache is cleared and after that has failed, and
\* when a connect() joined an attempt that the disconnect() had given up.
NotStranded == own => UnderWay \/ failed \/ manual

\* A connection reported as ready that has no open socket is not reported
\* forever: the heartbeat finds out, whatever else goes wrong.
StaleReadyEnds == (own /\ conn = "ready" /\ ~IsOpen(current)) ~> (~own \/ conn # "ready" \/ IsOpen(current))

-----------------------------------------------------------------------------
(* What the invariants rest on *)

\* A socket has the listeners of the handshake while the attempt waits for it, and
\* an attempt begins only when there is no live socket.  A socket that is current
\* and live without listeners belongs to an attempt that was rejected.
Attached ==
  /\ \A s \in Socket :
       /\ ears[s] = "handshake" <=> attempt.sock = s
       /\ ready[s] = "connecting" => attempt = [pc |-> "opening", sock |-> s]
  /\ attempt.sock # NoSocket => current \in {attempt.sock, NoSocket}
  /\ attempt.sock = NoSocket /\ current # NoSocket /\ ready[current] \in {"connecting", "open"} =>
       At("idle") /\ (ears[current] = "ready" \/ failed)

\* The one live socket that is listened to is the current one, and an attempt has
\* not read more than the queries have seen either.
Covered ==
  ~raced =>
    /\ \A s \in Socket : ready[s] = "open" /\ ears[s] # "none" => current = s
    /\ Vouched(loaded)

\* A timer is forgotten only by the end of a second socket.
LeaksCounted ==
  LET ended == Cardinality({s \in Socket : ready[s] = "closed"})
  IN /\ held => leaked + 1 <= ended
     /\ leaked > 0 => leaked + 1 <= ended

\* The inductive invariant, with the types.
Consistent == Attached /\ Covered /\ LeaksCounted /\ NoSilentLoss /\ NotStranded
=============================================================================
