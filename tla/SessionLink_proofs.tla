------------------------- MODULE SessionLink_proofs -------------------------
(***************************************************************************)
(* Proofs about SessionLink, for every heartbeat, pong window, backoff     *)
(* table and number of sockets left over, whether or not the hub may send  *)
(* bad frames: every variable keeps its type, the position of the loop     *)
(* says what the socket, liveSession and the timers can be, an attempt     *)
(* leaves its socket open in two ways only, and no event of the current    *)
(* socket ends the process while somebody listens.                         *)
(***************************************************************************)
EXTENDS SessionLink, TLAPS

\* Between attempts there is no socket; during one there is.
SocketShape == sock = "none" <=> pc \in {"sleep", "connect"}

\* liveSession is set from the welcome until the attempt ends.
LiveShape == live <=> pc \in {"settle", "established"}

\* Only an open socket can be half-open.
SilentShape == silent => sock = "open"

\* Heartbeat and watchdog exist in an established session only.
TimerShape == pc # "established" => pingIn = 0 /\ pongIn = 0

\* A process that is down has nothing.
DownShape == ~up => pc = "sleep" /\ leaked = 0 /\ closing = 0

\* What the position of the loop says of the rest of the state.
Shape == SocketShape /\ LiveShape /\ SilentShape /\ TimerShape /\ DownShape

Inv == TypeOK /\ Shape

(***************************************************************************)
(* The helpers.                                                            *)
(***************************************************************************)
LEMMA AttemptBound ==
    ASSUME TypeOK, NEW e \in BOOLEAN
    PROVE  nextSessionAttempt(e) \in 0..MaxBackoff
BY SessionAssumption DEF TypeOK, nextSessionAttempt

LEMMA MoreBound ==
    ASSUME NEW n \in 0..MaxOrphans
    PROVE  More(n) \in 0..MaxOrphans /\ More(n) >= n
BY SessionAssumption DEF More

\* The values of a process that does nothing.
LEMMA Resting ==
    /\ 0 \in 0..MaxBackoff /\ 0 \in 0..Heartbeat
    /\ 0 \in 0..PongWindow /\ 0 \in 0..MaxOrphans
    /\ "sleep" \in Pc /\ "none" \in Sock
<1>1. \A n \in Nat : 0 \in 0..n
  OBVIOUS
<1> QED
  BY <1>1, SessionAssumption DEF Pc, Sock

\* However an attempt ends, the loop is back at the backoff with nothing.
LEMMA FailsKeeps ==
    ASSUME Inv, up, NEW e \in BOOLEAN, NEW s \in Sock, Fails(e, s)
    PROVE  Inv'
<1>1. TypeOK
  BY DEF Inv
<1>2. nextSessionAttempt(e) \in 0..MaxBackoff
  BY <1>1, AttemptBound
<1>3. More(leaked) \in 0..MaxOrphans /\ More(closing) \in 0..MaxOrphans
  BY <1>1, MoreBound DEF TypeOK
<1>4. TypeOK'
  <2>1. /\ up' = up /\ pc' = "sleep" /\ attempt' = nextSessionAttempt(e)
        /\ sock' = "none" /\ silent' = FALSE /\ live' = FALSE
        /\ pingIn' = 0 /\ pongIn' = 0
        /\ leaked' \in {leaked, More(leaked)}
        /\ closing' \in {closing, More(closing)}
    BY DEF Fails
  <2>2. up \in BOOLEAN /\ leaked \in 0..MaxOrphans /\ closing \in 0..MaxOrphans
    BY <1>1 DEF TypeOK
  <2>3. up' \in BOOLEAN /\ silent' \in BOOLEAN /\ live' \in BOOLEAN
    BY <2>1, <2>2
  <2>4. /\ pc' \in Pc /\ sock' \in Sock /\ attempt' \in 0..MaxBackoff
        /\ pingIn' \in 0..Heartbeat /\ pongIn' \in 0..PongWindow
    BY <1>2, <2>1, Resting
  <2>5. leaked' \in 0..MaxOrphans /\ closing' \in 0..MaxOrphans
    BY <1>3, <2>1, <2>2
  <2> QED
    BY <2>3, <2>4, <2>5 DEF TypeOK
<1>5. Shape'
  BY DEF Fails, Shape, SocketShape, LiveShape, SilentShape, TimerShape,
         DownShape
<1> QED
  BY <1>4, <1>5 DEF Inv

\* An attempt that ends without an open socket adds none to those left over.
LEMMA FailsLeavesNone ==
    ASSUME TypeOK, NEW e, NEW s, s # "open", Fails(e, s)
    PROVE  ~(leaked' > leaked)
BY DEF Fails, TypeOK

LEMMA DiesKeeps ==
    ASSUME ProcessDies
    PROVE  Inv'
<1>1. TypeOK'
  <2>1. up' \in BOOLEAN /\ silent' \in BOOLEAN /\ live' \in BOOLEAN
    BY DEF ProcessDies
  <2>2. /\ pc' \in Pc /\ sock' \in Sock /\ attempt' \in 0..MaxBackoff
        /\ pingIn' \in 0..Heartbeat /\ pongIn' \in 0..PongWindow
        /\ leaked' \in 0..MaxOrphans /\ closing' \in 0..MaxOrphans
    BY Resting DEF ProcessDies
  <2> QED
    BY <2>1, <2>2 DEF TypeOK
<1>2. Shape'
  BY DEF ProcessDies, Shape, SocketShape, LiveShape, SilentShape, TimerShape,
         DownShape
<1> QED
  BY <1>1, <1>2 DEF Inv

\* 'close' of a socket that was open, heard or not.
LEMMA CloseKeeps ==
    ASSUME Inv, up, sock = "open", CloseEmitted
    PROVE  Inv' /\ ~(leaked' > leaked)
<1>1. CASE pc = "established"
  <2>1. Fails(TRUE, "closed")
    BY <1>1 DEF CloseEmitted
  <2>2. "closed" \in Sock /\ TypeOK
    BY DEF Sock, Inv
  <2> QED
    BY <2>1, <2>2, FailsKeeps, FailsLeavesNone
<1>2. CASE pc # "established"
  <2>1. /\ sock' \in {"closing", "closed"} /\ silent' = FALSE
        /\ UNCHANGED <<up, pc, attempt, live, timers, leaked, closing>>
    BY <1>2 DEF CloseEmitted
  <2>2. TypeOK'
    BY <2>1 DEF Inv, TypeOK, Sock, timers
  <2>3. Shape'
    BY <2>1 DEF Inv, Shape, SocketShape, LiveShape, SilentShape, TimerShape,
                DownShape, timers
  <2>4. ~(leaked' > leaked)
    BY <2>1 DEF Inv, TypeOK
  <2> QED
    BY <2>2, <2>3, <2>4 DEF Inv
<1> QED
  BY <1>1, <1>2

(***************************************************************************)
(* The invariant.                                                          *)
(***************************************************************************)
LEMMA InitInv == Init => Inv
<1> SUFFICES ASSUME Init PROVE Inv
  OBVIOUS
<1>1. TypeOK
  <2>1. up \in BOOLEAN /\ silent \in BOOLEAN /\ live \in BOOLEAN
    BY DEF Init
  <2>2. /\ pc \in Pc /\ sock \in Sock /\ attempt \in 0..MaxBackoff
        /\ pingIn \in 0..Heartbeat /\ pongIn \in 0..PongWindow
        /\ leaked \in 0..MaxOrphans /\ closing \in 0..MaxOrphans
    BY Resting DEF Init
  <2> QED
    BY <2>1, <2>2 DEF TypeOK
<1>2. Shape
  BY DEF Init, Shape, SocketShape, LiveShape, SilentShape, TimerShape, DownShape
<1> QED
  BY <1>1, <1>2 DEF Inv

LEMMA LoopKeeps ==
    ASSUME Inv, Loop
    PROVE  Inv'
<1>0. /\ "none" \in Sock /\ "open" \in Sock
      /\ sock \in Sock /\ (IF sock = "open" THEN "closing" ELSE sock) \in Sock
  BY DEF Inv, TypeOK, Sock
<1> USE DEF Inv, Shape, SocketShape, LiveShape, SilentShape, TimerShape,
            DownShape, TypeOK, Pc, Sock, timers
<1>1. CASE Wake
  BY <1>1, SessionAssumption DEF Wake
<1>2. CASE ConnectFails
  BY <1>0, <1>2, FailsKeeps DEF ConnectFails
<1>3. CASE Connected
  BY <1>3, SessionAssumption DEF Connected
<1>4. CASE WelcomeRejected
  BY <1>0, <1>4, FailsKeeps DEF WelcomeRejected
<1>5. CASE Welcome
  BY <1>5, SessionAssumption DEF Welcome
<1>6. CASE WelcomePolicyRefused
  BY <1>0, <1>6, FailsKeeps DEF WelcomePolicyRefused
<1>7. CASE SettleFails
  BY <1>0, <1>7, FailsKeeps DEF SettleFails
<1>8. CASE Settled
  BY <1>8, SessionAssumption DEF Settled
<1> QED
  BY <1>1, <1>2, <1>3, <1>4, <1>5, <1>6, <1>7, <1>8 DEF Loop

LEMMA SocketKeeps ==
    ASSUME Inv, Socket
    PROVE  Inv'
<1>0. "closed" \in Sock
  BY DEF Sock
<1>1. CASE PeerCloses
  BY <1>1, CloseKeeps DEF PeerCloses
<1>4. CASE SocketError
  <2>1. CASE pc \in {"established", "welcome"}
    BY <1>0, <1>4, <2>1, FailsKeeps DEF SocketError
  <2>2. CASE pc \notin {"established", "welcome"}
    BY <1>4, <2>2, DiesKeeps DEF SocketError
  <2> QED
    BY <2>1, <2>2
<1>8. CASE OrphanErrors
  BY <1>8, DiesKeeps DEF OrphanErrors
<1> USE DEF Inv, Shape, SocketShape, LiveShape, SilentShape, TimerShape,
            DownShape, TypeOK, Pc, Sock, timers
<1>2. CASE BadFrame
  <2>1. sock = "open" /\ ~silent /\ up
    BY <1>2 DEF BadFrame
  <2> QED
    BY <1>2, <2>1, SessionAssumption DEF BadFrame
<1>3. CASE Drained
  BY <1>3, SessionAssumption DEF Drained
<1>5. CASE PeerVanishes
  BY <1>5, SessionAssumption DEF PeerVanishes
<1>6. CASE Frame
  BY <1>6, SessionAssumption DEF Frame
<1>7. CASE OrphanEnds
  BY <1>7, SessionAssumption DEF OrphanEnds
<1> QED
  BY <1>1, <1>2, <1>3, <1>4, <1>5, <1>6, <1>7, <1>8 DEF Socket

LEMMA ClockKeeps ==
    ASSUME Inv, Clock
    PROVE  Inv'
<1>3. CASE PongTimeout /\ sock = "open"
  BY <1>3, CloseKeeps DEF PongTimeout
<1> USE DEF Inv, Shape, SocketShape, LiveShape, SilentShape, TimerShape,
            DownShape, TypeOK, Pc, Sock, timers
<1>1. CASE Tick
  BY <1>1, SessionAssumption DEF Tick
<1>2. CASE Ping
  BY <1>2, SessionAssumption DEF Ping
<1>4. CASE PongTimeout /\ sock # "open"
  BY <1>4, SessionAssumption DEF PongTimeout
<1> QED
  BY <1>1, <1>2, <1>3, <1>4 DEF Clock

LEMMA NextKeeps == Inv /\ [Next]_vars => Inv'
<1> SUFFICES ASSUME Inv, [Next]_vars
             PROVE  Inv'
  OBVIOUS
<1>1. CASE Restart
  BY <1>1 DEF Restart, Inv, TypeOK, Shape, SocketShape, LiveShape, SilentShape,
              TimerShape, DownShape, timers
<1>2. CASE Loop
  BY <1>2, LoopKeeps
<1>3. CASE Socket
  BY <1>3, SocketKeeps
<1>4. CASE Clock
  BY <1>4, ClockKeeps
<1>5. CASE UNCHANGED vars
  BY <1>5 DEF vars, Inv, TypeOK, Shape, SocketShape, LiveShape, SilentShape,
              TimerShape, DownShape
<1> QED
  BY <1>1, <1>2, <1>3, <1>4, <1>5 DEF Next

\* The invariant holds of every reachable state: whatever the hub, the
\* network, the disk and the timers do to runSessionOnce, liveSession, the
\* socket and the two timers stay as the position of the loop says.
THEOREM LinkInvariant == Spec => []Inv
<1> QED
  BY InitInv, NextKeeps, PTL DEF Spec

\* Every variable of the session has its type in every reachable state.
THEOREM LinkTypeCorrect == Spec => []TypeOK
<1>1. Inv => TypeOK
  BY DEF Inv
<1> QED
  BY <1>1, LinkInvariant, PTL

(***************************************************************************)
(* The two action properties.                                              *)
(***************************************************************************)
LEMMA StepLeavesNoSocket ==
    ASSUME Inv, [Next]_vars, leaked' > leaked
    PROVE  WelcomePolicyRefused \/ SettleFails
<1>0. TypeOK /\ leaked \in Nat
  BY SessionAssumption DEF Inv, TypeOK
<1>1. ~ProcessDies
  BY <1>0 DEF ProcessDies
<1>2. \A e \in BOOLEAN, s \in Sock : s # "open" => ~Fails(e, s)
  BY <1>0, FailsLeavesNone
<1>3. ~UNCHANGED leaked
  BY <1>0
<1>4. "none" # "open" /\ "closed" # "open" /\ "none" \in Sock /\ "closed" \in Sock
  BY DEF Sock
<1>5. ~ConnectFails
  BY <1>2, <1>4 DEF ConnectFails
<1>6. ~WelcomeRejected
  <2>1. (IF sock = "open" THEN "closing" ELSE sock) \in Sock \ {"open"}
    BY <1>0 DEF TypeOK, Sock
  <2> QED
    BY <1>2, <2>1 DEF WelcomeRejected
<1>7. ~SocketError
  BY <1>1, <1>2, <1>4 DEF SocketError
<1>8. ~PeerCloses /\ ~(PongTimeout /\ sock = "open")
  BY CloseKeeps DEF PeerCloses, PongTimeout
<1>9. ~OrphanErrors
  BY <1>1 DEF OrphanErrors
<1>10. ~OrphanEnds
  BY <1>0 DEF OrphanEnds
<1>11. ~Restart /\ ~Wake /\ ~Connected /\ ~Welcome /\ ~Settled
  BY <1>3 DEF Restart, Wake, Connected, Welcome, Settled
<1>12. ~BadFrame /\ ~Drained /\ ~PeerVanishes /\ ~Frame
  BY <1>3 DEF BadFrame, Drained, PeerVanishes, Frame
<1>13. ~Tick /\ ~Ping /\ ~(PongTimeout /\ sock # "open") /\ ~UNCHANGED vars
  BY <1>3 DEF Tick, Ping, PongTimeout, vars
<1> QED
  BY <1>5, <1>6, <1>7, <1>8, <1>9, <1>10, <1>11, <1>12, <1>13
     DEF Next, Loop, Socket, Clock

\* An attempt leaves its socket open only when the policy of the welcome is
\* refused or the state file cannot be written (client.mjs:1613).
THEOREM LeavesNoSocketHolds == Spec => LeavesNoSocket
<1>1. Inv /\ [Next]_vars
        => [leaked' > leaked => WelcomePolicyRefused \/ SettleFails]_vars
  BY StepLeavesNoSocket
<1> QED
  BY <1>1, LinkInvariant, PTL DEF Spec, LeavesNoSocket

LEMMA StepSurvives ==
    ASSUME Inv, [Next]_vars, up, ~up', pc \in {"welcome", "established"}
    PROVE  leaked + closing > 0
<1>1. \A e, s : ~Fails(e, s)
  BY DEF Fails
<1>2. ~Restart /\ ~Wake /\ ~Connected /\ ~Welcome /\ ~Settled
  BY DEF Restart, Wake, Connected, Welcome, Settled
<1>3. ~ConnectFails /\ ~WelcomeRejected /\ ~WelcomePolicyRefused /\ ~SettleFails
  BY <1>1 DEF ConnectFails, WelcomeRejected, WelcomePolicyRefused, SettleFails
<1>4. ~CloseEmitted
  BY <1>1 DEF CloseEmitted
<1>5. ~PeerCloses /\ ~BadFrame /\ ~Drained /\ ~PeerVanishes /\ ~Frame /\ ~OrphanEnds
  BY <1>4 DEF PeerCloses, BadFrame, Drained, PeerVanishes, Frame, OrphanEnds
<1>6. ~SocketError
  BY <1>1 DEF SocketError
<1>7. ~Tick /\ ~Ping /\ ~PongTimeout /\ ~UNCHANGED vars
  BY <1>4 DEF Tick, Ping, PongTimeout, vars
<1>8. OrphanErrors
  BY <1>2, <1>3, <1>5, <1>6, <1>7 DEF Next, Loop, Socket, Clock
<1> QED
  BY <1>8 DEF OrphanErrors

\* While the welcome is awaited and once the session is established, only a
\* socket of an earlier attempt can end the process (client.mjs:1597-1602).
THEOREM SurvivesSocketEventsHolds == Spec => SurvivesSocketEvents
<1>1. Inv /\ [Next]_vars
        => [up /\ ~up' /\ pc \in {"welcome", "established"}
              => leaked + closing > 0]_vars
  BY StepSurvives
<1> QED
  BY <1>1, LinkInvariant, PTL DEF Spec, SurvivesSocketEvents
=============================================================================
