----------------------------- MODULE SessionLink -----------------------------
(***************************************************************************)
(* The life of the live session: sessionLoop and runSessionOnce of         *)
(* src/src/client/client.mjs over the socket of ws-client.mjs. What        *)
(* matters here is which listener is attached while runSessionOnce is      *)
(* suspended at each await, because a socket event that nobody listens to  *)
(* is lost ('close') or fatal ('error', and a rejection nobody awaits).    *)
(*                                                                         *)
(* connectWebSocket's promise, refreshBrowserHealth (synchronous inside)   *)
(* and the hello run in one turn of the event loop: no socket event falls  *)
(* between them. Time: one tick is the unit in which the heartbeat and the *)
(* pong window are given; the welcome timeout only needs to be possible.   *)
(***************************************************************************)
EXTENDS Naturals

CONSTANTS
    Heartbeat,   \* ticks between two pings (heartbeat_interval_seconds)
    PongWindow,  \* ticks without a frame after a ping (PONG_TIMEOUT_MS)
    BadFrames,   \* whether the hub may send a frame #parse refuses
    MaxBackoff,  \* last index of SESSION_BACKOFF
    MaxOrphans   \* bound: counted sockets left over by earlier attempts

ASSUME SessionAssumption ==
    /\ Heartbeat \in Nat \ {0}
    /\ PongWindow \in Nat \ {0}
    /\ BadFrames \in BOOLEAN
    /\ MaxBackoff \in Nat \ {0}
    /\ MaxOrphans \in Nat \ {0}

VARIABLES
    up,       \* the process runs
    pc,       \* where sessionLoop is suspended
    attempt,  \* index into SESSION_BACKOFF
    sock,     \* the socket of the current attempt
    silent,   \* the peer is gone and the socket does not know (half-open)
    live,     \* liveSession is this socket
    pingIn,   \* ticks to the next heartbeat ping
    pongIn,   \* ticks to the pong watchdog; 0 = disarmed
    leaked,   \* sockets of earlier attempts that nobody closed
    closing   \* those that were closed and whose connection still drains

vars == <<up, pc, attempt, sock, silent, live, pingIn, pongIn, leaked, closing>>

\* "welcome" awaits the hub's welcome, "settle" the calls between
\* liveSession = ws and ws.once('close').
Pc == {"sleep", "connect", "welcome", "settle", "established"}

\* "closing": close() was called, or a close frame answered, and the
\* connection underneath still exists: it may yet report an error.
Sock == {"none", "open", "closing", "closed"}

Init ==
    /\ up = TRUE
    /\ pc = "sleep" /\ attempt = 0
    /\ sock = "none" /\ silent = FALSE /\ live = FALSE
    /\ pingIn = 0 /\ pongIn = 0
    /\ leaked = 0 /\ closing = 0

timers == <<pingIn, pongIn>>

\* An exception nobody catches ends the process and closes every socket.
ProcessDies ==
    /\ up' = FALSE
    /\ pc' = "sleep" /\ attempt' = 0
    /\ sock' = "none" /\ silent' = FALSE /\ live' = FALSE
    /\ pingIn' = 0 /\ pongIn' = 0
    /\ leaked' = 0 /\ closing' = 0

\* The service manager starts it again.
Restart ==
    /\ ~up
    /\ up' = TRUE
    /\ UNCHANGED <<pc, attempt, sock, silent, live, timers, leaked, closing>>

nextSessionAttempt(established) ==
    LET base == IF established THEN 0 ELSE attempt
    IN  IF base + 1 < MaxBackoff THEN base + 1 ELSE MaxBackoff

More(n) == IF n < MaxOrphans THEN n + 1 ELSE n

\* runSessionOnce rejects and sessionLoop's catch takes over. A socket that
\* is still open or draining then belongs to nobody.
Fails(established, socketNow) ==
    /\ pc' = "sleep"
    /\ attempt' = nextSessionAttempt(established)
    /\ sock' = "none" /\ silent' = FALSE /\ live' = FALSE
    /\ pingIn' = 0 /\ pongIn' = 0
    /\ leaked' = IF socketNow = "open" THEN More(leaked) ELSE leaked
    /\ closing' = IF socketNow = "closing" THEN More(closing) ELSE closing
    /\ UNCHANGED up

-----------------------------------------------------------------------------
(* runSessionOnce, await by await.                                         *)

\* The backoff is over.
Wake ==
    /\ up /\ pc = "sleep"
    /\ pc' = "connect"
    /\ UNCHANGED <<up, attempt, sock, silent, live, timers, leaked, closing>>

ConnectFails ==
    /\ up /\ pc = "connect"
    /\ Fails(FALSE, "none")
   

\* The handlers for json, protocolError and (before the welcome) error are
\* attached and the hello is sent.
Connected ==
    /\ up /\ pc = "connect"
    /\ pc' = "welcome"
    /\ sock' = "open" /\ silent' = FALSE
    /\ UNCHANGED <<up, attempt, live, timers, leaked, closing>>

\* Faulty variant of WelcomeRejected: the socket is not closed.
WelcomeRejectedUnclosed ==
    /\ up /\ pc = "welcome"
    /\ Fails(FALSE, sock)

\* Timeout, fatal error message or protocol error: ws.close(4000), throw.
WelcomeRejected ==
    /\ up /\ pc = "welcome"
    /\ Fails(FALSE, IF sock = "open" THEN "closing" ELSE sock)
   

\* The welcome arrives with a policy that verifies (or with none).
Welcome ==
    /\ up /\ pc = "welcome"
    /\ sock = "open" /\ ~silent
    /\ pc' = "settle"
    /\ live' = TRUE
    /\ UNCHANGED <<up, attempt, sock, silent, timers, leaked, closing>>

\* applyCurrentPolicy throws after the welcome: nobody closes the socket.
WelcomePolicyRefused ==
    /\ up /\ pc = "welcome"
    /\ sock = "open" /\ ~silent
    /\ Fails(FALSE, "open")
   

\* resetRetirementEvidence cannot write the state file.
SettleFails ==
    /\ up /\ pc = "settle"
    /\ Fails(FALSE, sock)
   

\* The once('close') and once('error') listeners and the heartbeat exist.
Settled ==
    /\ up /\ pc = "settle"
    /\ pc' = "established"
    /\ pingIn' = Heartbeat
    /\ UNCHANGED <<up, attempt, sock, silent, live, pongIn, leaked, closing>>

-----------------------------------------------------------------------------
(* Events of the current socket.                                           *)

\* 'close' is emitted: only the established session listens, and its 'error'
\* listener stays.
CloseEmitted ==
    IF pc = "established"
    THEN Fails(TRUE, "closed")
    ELSE /\ sock' \in {"closing", "closed"}
         /\ silent' = FALSE
         /\ UNCHANGED <<up, pc, attempt, live, timers, leaked, closing>>

\* A close frame, or the end of the connection.
PeerCloses ==
    /\ up
    /\ sock = "open" /\ ~silent
    /\ CloseEmitted

\* #parse refuses a frame and calls close(): no event is emitted.
BadFrame ==
    /\ up
    /\ BadFrames
    /\ sock = "open" /\ ~silent
    /\ sock' = "closing"
    /\ UNCHANGED <<up, pc, attempt, silent, live, timers, leaked, closing>>

\* The rest of the connection ends: `closed` is set, no event is emitted.
Drained ==
    /\ up
    /\ sock = "closing"
    /\ sock' = "closed"
    /\ UNCHANGED <<up, pc, attempt, silent, live, timers, leaked, closing>>

\* Faulty variant of SocketError: nobody listens while the welcome is awaited.
SocketErrorUnheard ==
    /\ up
    /\ sock \in {"open", "closing"}
    /\ IF pc = "established" THEN Fails(TRUE, "closed") ELSE ProcessDies

\* 'error' is emitted. In "settle" it has no listener.
SocketError ==
    /\ up
    /\ sock \in {"open", "closing"}
    /\ CASE pc = "established" -> Fails(TRUE, "closed")
         [] pc = "welcome"     -> Fails(FALSE, "closed")
         [] OTHER              -> ProcessDies

PeerVanishes ==
    /\ up
    /\ sock = "open" /\ ~silent
    /\ silent' = TRUE
    /\ UNCHANGED <<up, pc, attempt, sock, live, timers, leaked, closing>>

\* A frame arrives: the watchdog is disarmed.
Frame ==
    /\ up /\ pc = "established"
    /\ sock = "open" /\ ~silent
    /\ pongIn > 0
    /\ pongIn' = 0
    /\ UNCHANGED <<up, pc, attempt, sock, silent, live, pingIn, leaked, closing>>

\* A socket of an earlier attempt ends: nobody listens, nothing happens.
OrphanEnds ==
    /\ up
    /\ \/ leaked > 0 /\ leaked' = leaked - 1 /\ UNCHANGED closing
       \/ closing > 0 /\ closing' = closing - 1 /\ UNCHANGED leaked
    /\ UNCHANGED <<up, pc, attempt, sock, silent, live, timers>>

\* It emits 'error': nobody listens, so the event is thrown.
OrphanErrors ==
    /\ up /\ leaked + closing > 0
    /\ ProcessDies

-----------------------------------------------------------------------------
(* Heartbeat and pong watchdog of an established session.                  *)

\* Time passes unless a timer is due.
Tick ==
    /\ up /\ pc = "established"
    /\ pingIn > 0
    /\ pongIn # 1
    /\ pingIn' = pingIn - 1
    /\ pongIn' = IF pongIn > 0 THEN pongIn - 1 ELSE 0
    /\ UNCHANGED <<up, pc, attempt, sock, silent, live, leaked, closing>>

\* Faulty variant of Ping: the ping does not arm the watchdog.
PingUnwatched ==
    /\ up /\ pc = "established"
    /\ pingIn = 0
    /\ pingIn' = Heartbeat
    /\ UNCHANGED <<up, pc, attempt, sock, silent, live, pongIn, leaked, closing>>

\* On a closed socket sendJson throws and sentPing is not reached. On an
\* open one every ping arms the window anew.
Ping ==
    /\ up /\ pc = "established"
    /\ pingIn = 0
    /\ pingIn' = Heartbeat
    /\ pongIn' = IF sock = "open" THEN PongWindow ELSE pongIn
    /\ UNCHANGED <<up, pc, attempt, sock, silent, live, leaked, closing>>

\* The window passes without a frame: destroy(), which emits 'close'.
\* destroy() on a socket that is already closed does nothing.
PongTimeout ==
    /\ up /\ pc = "established"
    /\ pongIn = 1
    /\ IF sock = "open"
       THEN CloseEmitted
       ELSE /\ pongIn' = 0
            /\ UNCHANGED <<up, pc, attempt, sock, silent, live, pingIn, leaked,
                           closing>>

-----------------------------------------------------------------------------
Loop   == \/ Wake \/ ConnectFails \/ Connected \/ WelcomeRejected \/ Welcome
          \/ WelcomePolicyRefused \/ SettleFails \/ Settled
Socket == \/ PeerCloses \/ BadFrame \/ Drained \/ SocketError \/ PeerVanishes
          \/ Frame \/ OrphanEnds \/ OrphanErrors
Clock  == Tick \/ Ping \/ PongTimeout

Next == Restart \/ Loop \/ Socket \/ Clock

Spec == Init /\ [][Next]_vars

\* The event loop runs what is due, timers fire, the service manager restarts
\* the process; nothing is assumed of the hub or of the network.
Fairness ==
    /\ WF_vars(Restart) /\ WF_vars(Wake)
    /\ WF_vars(ConnectFails \/ Connected)
    /\ WF_vars(WelcomeRejected) /\ WF_vars(Settled)
    /\ WF_vars(Tick) /\ WF_vars(Ping) /\ WF_vars(PongTimeout)

FairSpec == Spec /\ Fairness

-----------------------------------------------------------------------------
(* Properties.                                                             *)

\* Every variable has its type.
TypeOK ==
    /\ up \in BOOLEAN
    /\ pc \in Pc
    /\ attempt \in 0..MaxBackoff
    /\ sock \in Sock
    /\ silent \in BOOLEAN
    /\ live \in BOOLEAN
    /\ pingIn \in 0..Heartbeat
    /\ pongIn \in 0..PongWindow
    /\ leaked \in 0..MaxOrphans
    /\ closing \in 0..MaxOrphans

\* An attempt that ends leaves its socket open only when the hub's policy was
\* refused after the welcome, or the state file could not be written: every
\* other failure closes it (client.mjs:1613 "never leave a dead-but-open
\* socket behind on welcome failure").
LeavesNoSocket ==
    [][leaked' > leaked => WelcomePolicyRefused \/ SettleFails]_vars

\* While the welcome is awaited and once the session is established, no event
\* of the current socket ends the process; only one of an earlier attempt can
\* (client.mjs:1597-1602).
SurvivesSocketEvents ==
    [][up /\ ~up' /\ pc \in {"welcome", "established"}
          => leaked + closing > 0]_vars

\* A session whose peer has vanished does not stay: the pings go unanswered,
\* the watchdog destroys the socket, the loop reconnects (client.mjs:1551-1554).
\* It needs a heartbeat longer than the pong window: a shorter one arms the
\* window again before it ends.
HalfOpenIsLeft == (silent /\ pc = "established") ~> ~silent

\* client.mjs:1551-1554: a dead peer is detected and goes down the "existing
\* close/error path -> backoff reconnect", so liveSession does not stay set to
\* a closed socket. The code does not keep it when 'close' is emitted before
\* its listener is attached, or not at all: see the
\* deviations in README.
ClosedSocketIsLeft == (live /\ sock \in {"closing", "closed"}) ~> ~live
=============================================================================
