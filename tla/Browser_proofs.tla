---------------------------- MODULE Browser_proofs ----------------------------
(***************************************************************************)
(* The safety of the browser tools, for any number of jobs, ids, profiles, *)
(* browsers, sessions and pages: first the table of sessions, whose        *)
(* definitions are those of BrowserSessions, then one session from the     *)
(* inside, whose definitions are those of BrowserPages (and bear Pages in  *)
(* their names where both models have the same).                           *)
(***************************************************************************)
EXTENDS BrowserSessions, BrowserPages, TLAPS

(***************************************************************************)
(* The three invariants, for any number of ids, profiles, sessions,        *)
(* browsers and jobs.  A session claims its profile from the launch of its *)
(* browser until the step that frees the lock, also when the browser has   *)
(* gone and only a close can free it.  Unless two steps have crossed on a  *)
(* session of the profile, or the close of one that only names it has      *)
(* taken the lock away, a claim means that the lock is taken, and there is *)
(* one (ClaimsInv: ProfileExclusive).  Conversely a lock has a session     *)
(* that claims it or is excused (Locked), and what is not excused stays in *)
(* the table until its close has begun (Kept: NothingStrays).              *)
(***************************************************************************)

\* Two closes, or a creation and a close, have met on a session of it, or one of
\* mode "existing" has taken its lock away.
Spoiled(p) == p \in freed \/ \E x \in crossed : object[x].place = p

\* A thread that creates or closes a session.
Handles(t, o) == session[t] = o /\ pc[t] \in CreatePc \cup ClosePc

InTable(o) == \E i \in Ids : sessions[i] = o

Claims(o) ==
    \/ object[o].context \in {"launching", "open", "closing"}
    \/ /\ object[o].context = "gone" /\ InTable(o)
       /\ ~\E t \in Threads : session[t] = o /\ pc[t] = "quit"
    \/ \E t \in Threads : session[t] = o /\ pc[t] \in {"closing", "closing again"}

\* The context of a session at each place of the thread that handles it.
ContextAt(t, o) ==
    /\ pc[t] \notin {"chromium", "got"}
    /\ pc[t] = "core" => object[o].context = "none"
    /\ pc[t] = "context" => object[o].context = "launching"
    /\ pc[t] = "page" => object[o].context \in {"open", "gone"}
    /\ pc[t] = "closing" => object[o].context \in {"closing", "gone"}
    /\ pc[t] = "closing again" => object[o].context = "gone"
    /\ pc[t] = "quit" => object[o].context \in {"closed", "gone"}

\* A session with a profile on which no two steps have crossed.
Alone(o) ==
    /\ object[o].browser = None
    /\ \A t \in Threads : Handles(t, o) => ContextAt(t, o)
    /\ \A t, u \in Threads : Handles(t, o) /\ Handles(u, o) => t = u
    /\ InTable(o) /\ object[o].context \notin {"open", "gone"} =>
          \E t \in Threads : Handles(t, o)

\* What is not in use is known to nobody.
Fresh(o) ==
    object[o].state = "new" =>
        /\ object[o].context = "none" /\ o \notin crossed /\ ~InTable(o)
        /\ \A t \in Threads : session[t] # o

TableInv == \A i \in Ids : sessions[i] # None => object[sessions[i]].id = i

SessionsInv ==
    /\ \A o \in Sessions : Fresh(o)
    /\ TableInv
    /\ \A t \in Threads : pc[t] # "idle" => session[t] \in Sessions
    /\ \A o \in Sessions \ crossed : object[o].place \in Profiles => Alone(o)

ClaimsInv ==
    \A p \in Profiles : ~Spoiled(p) =>
        /\ \A o \in Sessions : object[o].place = p /\ Claims(o) => p \in profileLocks
        /\ \A o, q \in Sessions :
              object[o].place = p /\ object[q].place = p /\ Claims(o) /\ Claims(q) => o = q

\* Only a session of mode "existing" names a profile that is not where it runs,
\* so closing any other frees its own lock.
Placed ==
    \A o \in Sessions :
        /\ object[o].place \in Profiles => object[o].profile = object[o].place
        /\ object[o].place = "shared" => object[o].profile = None

Inv == TypeOK /\ Placed /\ SessionsInv /\ ClaimsInv

(***************************************************************************)
(* Types.                                                                  *)
(***************************************************************************)
LEMMA UnusedType == Unused \in Session
BY DEF Unused, Session, State, Context, Place

LEMMA SessionFields ==
    ASSUME NEW s \in Session
    PROVE  /\ s.state \in State /\ s.id \in Ids \cup {None} /\ s.place \in Place
           /\ s.browser \in Browsers \cup {None} /\ s.context \in Context
           /\ s.profile \in Profiles \cup {None}
BY DEF Session

LEMMA SetState ==
    ASSUME TypeOK, NEW o \in Sessions, NEW x \in State
    PROVE  [object EXCEPT ![o].state = x] \in [Sessions -> Session]
BY DEF TypeOK, Session

LEMMA SetContext ==
    ASSUME TypeOK, NEW o \in Sessions, NEW x \in Context
    PROVE  [object EXCEPT ![o].context = x] \in [Sessions -> Session]
BY DEF TypeOK, Session

LEMMA SetBoth ==
    ASSUME TypeOK, NEW o \in Sessions, NEW x \in State, NEW y \in Context
    PROVE  [object EXCEPT ![o].state = x, ![o].context = y] \in [Sessions -> Session]
<1>1. [object[o] EXCEPT !.state = x, !.context = y] \in Session
  BY DEF TypeOK, Session
<1>2. \A q \in Sessions : [object EXCEPT ![o].state = x, ![o].context = y][q] =
          IF q = o THEN [object[o] EXCEPT !.state = x, !.context = y] ELSE object[q]
  BY DEF TypeOK
<1> QED
  BY <1>1, <1>2 DEF TypeOK

LEMMA CreatedType ==
    ASSUME NEW i \in Ids, NEW mode \in Mode, NEW profile \in Profiles \cup {None}
    PROVE  [Unused EXCEPT !.state = "creating", !.id = i,
               !.place = PlaceOf(mode, profile), !.profile = profile] \in Session
<1>1. PlaceOf(mode, profile) \in Place
  BY DEF PlaceOf, Place
<1> QED
  BY <1>1 DEF Unused, Session, State, Context

LEMMA ReturnType ==
    ASSUME TypeOK, NEW t \in Threads, Return(t)
    PROVE  /\ pc' \in [Threads -> Pc] /\ session' \in [Threads -> Sessions \cup {None}]
           /\ browser' \in [Threads -> Browsers \cup {None}]
           /\ pc'[t] = "idle" /\ session'[t] = None
           /\ \A u \in Threads : u # t => pc'[u] = pc[u] /\ session'[u] = session[u]
BY DEF TypeOK, Return, Goto, Pc

LEMMA GotoType ==
    ASSUME TypeOK, NEW t \in Threads, NEW where \in Pc, Goto(t, where)
    PROVE  /\ pc' \in [Threads -> Pc] /\ pc'[t] = where
           /\ \A u \in Threads : u # t => pc'[u] = pc[u]
BY DEF TypeOK, Goto

LEMMA FailType ==
    ASSUME TypeOK, NEW t \in Threads, session[t] \in Sessions, NEW context \in Context,
           Fail(t, context)
    PROVE  /\ object' \in [Sessions -> Session] /\ sessions' \in [Ids -> Sessions \cup {None}]
           /\ pc' \in [Threads -> Pc] /\ session' \in [Threads -> Sessions \cup {None}]
           /\ browser' \in [Threads -> Browsers \cup {None}]
<1>1. object' = [object EXCEPT ![session[t]].state = "error", ![session[t]].context = context]
  BY DEF Fail
<1>2. object' \in [Sessions -> Session]
  BY <1>1, SetBoth DEF State
<1>3. sessions' \in [Ids -> Sessions \cup {None}]
  BY DEF Fail, TypeOK
<1> QED
  BY <1>2, <1>3, ReturnType DEF Fail

\* What closeSession does to the object, in its first part.
LEMMA CloseType ==
    ASSUME TypeOK, NEW t \in Threads, NEW i \in Ids, sessions[i] # None, Close(t, i)
    PROVE  TypeOK'
<1> DEFINE o == sessions[i]
           nothing == object[o].context \in {"none", "launching"}
<1>1. o \in Sessions
  BY DEF TypeOK
<1>2. object' = [object EXCEPT
        ![o].state = IF nothing THEN "closed" ELSE "closing",
        ![o].context = IF object[o].context = "open" THEN "closing" ELSE object[o].context]
  BY <1>1 DEF Close, TypeOK, Session
<1>3. object[o].context \in Context
  BY <1>1, SessionFields DEF TypeOK
<1>4. object' \in [Sessions -> Session]
  <2>1. (IF nothing THEN "closed" ELSE "closing") \in State
    BY DEF State
  <2>2. (IF object[o].context = "open" THEN "closing" ELSE object[o].context) \in Context
    BY <1>3 DEF Context
  <2> QED
    BY <1>1, <1>2, <2>1, <2>2, SetBoth
<1>5. pc' \in [Threads -> Pc] /\ session' \in [Threads -> Sessions \cup {None}]
  BY <1>1 DEF Close, Goto, TypeOK, Pc, ClosePc
<1>6. crossed' \subseteq Sessions /\ profileLocks' \subseteq Profiles
      /\ sessions' \in [Ids -> Sessions \cup {None}] /\ freed' \subseteq Profiles
  BY <1>1 DEF Close, Unlock, TypeOK
<1> QED
  BY <1>4, <1>5, <1>6 DEF Close, TypeOK

LEMMA TypeStep ==
    ASSUME TypeOK, SessionsInv, [Next]_vars
    PROVE  TypeOK'
<1> USE DEF tables, pastVars
<1>h. \A t \in Threads : pc[t] # "idle" => session[t] \in Sessions
  BY DEF SessionsInv
<1>j. Jobs \subseteq Threads /\ Sweeper \in Threads
  BY DEF Threads
<1>k. CreatePc \cup ClosePc \cup {"idle", "queued", "operating"} = Pc
  BY DEF Pc
<1>o. ASSUME NEW t \in Threads, pc[t] # "idle"
      PROVE  /\ session[t] \in Sessions /\ Of(t) = object[session[t]]
             /\ object[session[t]] \in Session /\ Of(t).context \in Context /\ Of(t).id \in Ids \cup {None}
  BY <1>o, <1>h, SessionFields DEF Of, TypeOK
<1>1. ASSUME NEW t \in Jobs, NEW i \in Ids, NEW mode \in Mode, NEW profile \in Profiles \cup {None},
             Create(t, i, mode, profile)
      PROVE  TypeOK'
  <2>1. PICK o \in Sessions :
          /\ object' = [object EXCEPT ![o] = [Unused EXCEPT
                           !.state = "creating", !.id = i,
                           !.place = PlaceOf(mode, profile), !.profile = profile]]
          /\ sessions' = [sessions EXCEPT ![i] = o] /\ session' = [session EXCEPT ![t] = o]
    BY <1>1 DEF Create
  <2>2. object' \in [Sessions -> Session]
    BY <2>1, CreatedType DEF TypeOK
  <2>3. sessions' \in [Ids -> Sessions \cup {None}] /\ session' \in [Threads -> Sessions \cup {None}]
    BY <2>1, <1>j DEF TypeOK
  <2>4. pc' \in [Threads -> Pc]
    BY <1>1, <1>j DEF Create, Goto, TypeOK, Pc, CreatePc
  <2> QED
    BY <1>1, <2>2, <2>3, <2>4 DEF Create, TypeOK
<1>2. ASSUME NEW t \in Jobs, LaunchProfile(t) PROVE TypeOK'
  <2>1. t \in Threads /\ pc[t] = "core"
    BY <1>2, <1>j DEF LaunchProfile
  <2>2. CASE Fail(t, "none") /\ UNCHANGED profileLocks
    BY <1>2, <2>1, <2>2, <1>o, FailType DEF LaunchProfile, TypeOK, Context
  <2>3. CASE ~(Fail(t, "none") /\ UNCHANGED profileLocks)
    <3>1. /\ object' = [object EXCEPT ![session[t]].context = "launching"]
          /\ profileLocks' = profileLocks \cup {Of(t).place} /\ Of(t).place \in Profiles
          /\ Goto(t, "context") /\ UNCHANGED <<sessions, session, browser, managedBrowser, process, pastVars>>
      BY <1>2, <2>3 DEF LaunchProfile
    <3>2. object' \in [Sessions -> Session]
      BY <3>1, <2>1, <1>o, SetContext DEF Context
    <3>3. pc' \in [Threads -> Pc]
      BY <3>1, <2>1, GotoType DEF Pc, CreatePc
    <3> QED
      BY <3>1, <3>2, <3>3 DEF TypeOK
  <2> QED
    BY <2>2, <2>3
<1>3. ASSUME NEW t \in Jobs, Attach(t) \/ UseManaged(t) \/ ChromiumUp(t) PROVE TypeOK'
  BY <1>3, <1>j DEF Attach, UseManaged, ChromiumUp, Goto, TypeOK, Pc, CreatePc
<1>4. ASSUME NEW t \in Jobs, Got(t) PROVE TypeOK'
  <2>1. pc[t] = "got" /\ object' = [object EXCEPT ![session[t]].browser = browser[t]]
    BY <1>4 DEF Got
  <2>2. object' \in [Sessions -> Session]
    BY <2>1, <1>o, <1>j DEF TypeOK, Session
  <2>3. pc' \in [Threads -> Pc]
    BY <1>4, <1>j, GotoType DEF Got, Pc, CreatePc
  <2> QED
    BY <1>4, <2>2, <2>3 DEF Got, TypeOK
<1>5. ASSUME NEW t \in Jobs, ContextOpens(t) PROVE TypeOK'
  <2>1. pc[t] = "context" /\ object' = [object EXCEPT ![session[t]].context = "open"]
    BY <1>5 DEF ContextOpens
  <2>2. object' \in [Sessions -> Session]
    BY <2>1, <1>o, <1>j, SetContext DEF Context
  <2>3. pc' \in [Threads -> Pc]
    BY <1>5, <1>j, GotoType DEF ContextOpens, Pc, CreatePc
  <2> QED
    BY <1>5, <2>2, <2>3 DEF ContextOpens, TypeOK
<1>6. ASSUME NEW t \in Jobs, LaunchFails(t) PROVE TypeOK'
  <2>1. pc[t] # "idle" /\ Fail(t, "none") /\ profileLocks' \subseteq profileLocks
    BY <1>6 DEF LaunchFails
  <2> QED
    BY <1>6, <2>1, <1>o, <1>j, FailType DEF LaunchFails, TypeOK, Context
<1>7. ASSUME NEW t \in Jobs, FirstPage(t) PROVE TypeOK'
  <2>1. object' = [object EXCEPT ![session[t]].state = "ready"] /\ pc[t] = "page" /\ t \in Threads
    BY <1>7, <1>j DEF FirstPage
  <2>2. object' \in [Sessions -> Session]
    BY <2>1, <1>o, SetState DEF State
  <2>3. CASE Return(t)
    BY <1>7, <2>1, <2>2, <2>3, ReturnType DEF FirstPage, TypeOK
  <2>4. CASE Goto(t, "queued") /\ UNCHANGED <<session, browser>>
    <3>1. pc' \in [Threads -> Pc]
      BY <2>1, <2>4, GotoType DEF Pc
    <3> QED
      BY <1>7, <2>2, <2>4, <3>1 DEF FirstPage, TypeOK
  <2> QED
    BY <1>7, <2>3, <2>4 DEF FirstPage
<1>8. ASSUME NEW t \in Jobs, FirstPageFails(t) PROVE TypeOK'
  <2>1. pc[t] = "page" /\ Fail(t, Of(t).context) /\ stranded' = stranded \cup {session[t]}
    BY <1>8 DEF FirstPageFails
  <2>2. session[t] \in Sessions /\ Of(t).context \in Context /\ t \in Threads
    BY <2>1, <1>o, <1>j
  <2>3. /\ object' \in [Sessions -> Session] /\ sessions' \in [Ids -> Sessions \cup {None}]
        /\ pc' \in [Threads -> Pc] /\ session' \in [Threads -> Sessions \cup {None}]
        /\ browser' \in [Threads -> Browsers \cup {None}]
    BY <2>1, <2>2, FailType
  <2> QED
    BY <1>8, <2>1, <2>2, <2>3 DEF FirstPageFails, TypeOK
<1>9. ASSUME NEW t \in Jobs, NEW i \in Ids, CloseJob(t, i) PROVE TypeOK'
  BY <1>9, <1>j, CloseType DEF CloseJob
<1>10. ASSUME NEW i \in Ids, SweepCloses(i) PROVE TypeOK'
  BY <1>10, <1>j, CloseType DEF SweepCloses
<1>11. ASSUME NEW t \in Threads, ContextClosed(t) PROVE TypeOK'
  <2>1. pc[t] \in {"closing", "closing again"} /\ session[t] \in Sessions
        /\ object[session[t]].context \in Context
    BY <1>11, <1>o DEF ContextClosed, Of
  <2>2. object' = [object EXCEPT ![session[t]].context =
                     IF pc[t] = "closing" /\ object[session[t]].context = "closing" THEN "closed"
                     ELSE object[session[t]].context]
    BY <1>11, <2>1 DEF ContextClosed, TypeOK, Session
  <2>3. object' \in [Sessions -> Session]
    BY <2>1, <2>2, SetContext DEF Context
  <2>4. pc' \in [Threads -> Pc]
    BY <1>11, GotoType DEF ContextClosed, Pc, ClosePc
  <2>5. profileLocks' \subseteq Profiles /\ freed' \subseteq Profiles
    BY <1>11 DEF ContextClosed, Unlock, TypeOK
  <2> QED
    BY <1>11, <2>3, <2>4, <2>5 DEF ContextClosed, TypeOK
<1>12. ASSUME NEW t \in Threads, Closed(t) PROVE TypeOK'
  <2>1. pc[t] = "quit" /\ session[t] \in Sessions /\ Return(t)
        /\ object' = [object EXCEPT ![session[t]].state = "closed"]
    BY <1>12, <1>o DEF Closed
  <2>2. object' \in [Sessions -> Session]
    BY <2>1, SetState DEF State
  <2> QED
    BY <1>12, <2>1, <2>2, ReturnType DEF Closed, TypeOK
<1>13. ASSUME NEW t \in Jobs, NEW i \in Ids, Ask(t, i) PROVE TypeOK'
  BY <1>13, <1>j DEF Ask, Goto, TypeOK, Pc
<1>14. ASSUME NEW t \in Jobs, Operate(t) PROVE TypeOK'
  <2>1. pc[t] = "queued" /\ object' = [object EXCEPT ![session[t]].state = "busy"]
    BY <1>14 DEF Operate
  <2>2. object' \in [Sessions -> Session]
    BY <2>1, <1>o, <1>j, SetState DEF State
  <2>3. pc' \in [Threads -> Pc]
    BY <1>14, <1>j, GotoType DEF Operate, Pc
  <2> QED
    BY <1>14, <2>2, <2>3 DEF Operate, TypeOK
<1>15. ASSUME NEW t \in Jobs, OperationEnds(t) PROVE TypeOK'
  <2>1. pc[t] = "operating" /\ object' = [object EXCEPT ![session[t]].state = "ready"] /\ Return(t)
    BY <1>15 DEF OperationEnds
  <2>2. object' \in [Sessions -> Session]
    BY <2>1, <1>o, <1>j, SetState DEF State
  <2> QED
    BY <1>15, <2>1, <2>2, <1>j, ReturnType DEF OperationEnds, TypeOK
<1>16. CASE SweepEnds
  BY <1>16 DEF SweepEnds, TypeOK
<1>17. ASSUME NEW b \in Browsers, Disconnected(b) PROVE TypeOK'
  <2>1. ASSUME NEW o \in Sessions PROVE object'[o] \in Session
    <3>1. object[o] \in Session
      BY DEF TypeOK
    <3>2. \E x \in {"lost", object[o].state}, y \in {"gone", object[o].context} :
             object'[o] = [object[o] EXCEPT !.state = x, !.context = y]
      BY <1>17 DEF Disconnected
    <3> QED
      BY <3>1, <3>2 DEF Session, State, Context
  <2>2. losses' \in 0..MaxLosses
    <3>1. losses' = losses \/ (losses < MaxLosses /\ losses' = losses + 1)
      BY <1>17 DEF Disconnected
    <3> QED
      BY <3>1, BrowserAssumption DEF TypeOK
  <2>3. object' \in [Sessions -> Session]
    BY <1>17, <2>1 DEF Disconnected
  <2> QED
    BY <1>17, <2>2, <2>3 DEF Disconnected, TypeOK
<1>18. ASSUME NEW o \in Sessions, OwnDisconnected(o) PROVE TypeOK'
  <2>1. object' = [object EXCEPT ![o].context = "gone",
                                 ![o].state = IF Lost(o) THEN "lost" ELSE object[o].state]
    BY <1>18 DEF OwnDisconnected, TypeOK, Session
  <2>2. object' \in [Sessions -> Session]
    <3>1. object[o].state \in State /\ "lost" \in State /\ "gone" \in Context
      BY SessionFields DEF TypeOK, State, Context
    <3>2. (IF Lost(o) THEN "lost" ELSE object[o].state) \in State
      BY <3>1
    <3>3. object' = [object EXCEPT ![o].state = IF Lost(o) THEN "lost" ELSE object[o].state,
                                   ![o].context = "gone"]
      BY <2>1 DEF TypeOK, Session
    <3> QED
      BY <3>1, <3>2, <3>3, SetBoth
  <2>3. losses' \in 0..MaxLosses
    BY <1>18, BrowserAssumption DEF OwnDisconnected, TypeOK
  <2> QED
    BY <1>18, <2>2, <2>3 DEF OwnDisconnected, TypeOK
<1>19. CASE UNCHANGED vars
  BY <1>19 DEF vars, TypeOK
<1>20. ASSUME NEW t \in Jobs, NEW i \in Ids, CreateRefused(t, i) PROVE TypeOK'
  BY <1>20 DEF CreateRefused, TypeOK
<1> QED
  BY <1>1, <1>2, <1>3, <1>4, <1>5, <1>6, <1>7, <1>8, <1>9, <1>10, <1>11, <1>12, <1>13, <1>14,
     <1>15, <1>16, <1>17, <1>18, <1>19, <1>20 DEF Next, Job

(***************************************************************************)
(* Place and profile.                                                      *)
(***************************************************************************)
LEMMA PlaceStays ==
    ASSUME TypeOK, SessionsInv, [Next]_vars,
           NEW q \in Sessions
    PROVE  \/ object'[q].place = object[q].place /\ object'[q].profile = object[q].profile
           \/ \E mode \in Mode, profile \in Profiles \cup {None} :
                 object'[q].place = PlaceOf(mode, profile) /\ object'[q].profile = profile
<1> USE DEF tables, pastVars
<1>0. \A o \in Sessions : object[o] \in Session
  BY DEF TypeOK
<1>1. ASSUME NEW t \in Jobs, NEW i \in Ids, NEW mode \in Mode, NEW profile \in Profiles \cup {None},
             Create(t, i, mode, profile)
      PROVE  \/ object'[q].place = object[q].place /\ object'[q].profile = object[q].profile
             \/ object'[q].place = PlaceOf(mode, profile) /\ object'[q].profile = profile
  <2>1. PICK o \in Sessions :
          object' = [object EXCEPT ![o] = [Unused EXCEPT
                           !.state = "creating", !.id = i,
                           !.place = PlaceOf(mode, profile), !.profile = profile]]
    BY <1>1 DEF Create
  <2> QED
    BY <2>1 DEF TypeOK, Unused
<1>2. ASSUME NEW t \in Jobs,
             LaunchProfile(t) \/ Got(t) \/ ContextOpens(t) \/ LaunchFails(t) \/ FirstPage(t)
                \/ FirstPageFails(t) \/ Operate(t) \/ OperationEnds(t)
      PROVE  object'[q].place = object[q].place /\ object'[q].profile = object[q].profile
  <2>1. pc[t] # "idle" /\ t \in Threads
    BY <1>2 DEF LaunchProfile, Got, ContextOpens, LaunchFails, FirstPage, FirstPageFails, Operate,
                OperationEnds, Threads
  <2>2. PICK o \in Sessions : session[t] = o
    BY <2>1 DEF SessionsInv
  <2>3. \E x, y, z : object' \in {[object EXCEPT ![o].state = x, ![o].context = y],
                                  [object EXCEPT ![o].state = x], [object EXCEPT ![o].context = y],
                                  [object EXCEPT ![o].browser = z]}
    BY <1>2, <2>2 DEF LaunchProfile, Got, ContextOpens, LaunchFails, FirstPage, FirstPageFails,
                      Operate, OperationEnds, Fail
  <2> QED
    BY <2>3, <1>0 DEF TypeOK, Session
<1>3. ASSUME NEW t \in Threads, ContextClosed(t) \/ Closed(t)
      PROVE  object'[q].place = object[q].place /\ object'[q].profile = object[q].profile
  <2>1. PICK o \in Sessions : session[t] = o
    BY <1>3 DEF ContextClosed, Closed, SessionsInv
  <2>2. \E x : object' = [object EXCEPT ![o].context = x] \/ object' = [object EXCEPT ![o].state = x]
    BY <1>3, <2>1, <1>0 DEF ContextClosed, Closed, TypeOK, Session
  <2> QED
    BY <2>2, <1>0 DEF TypeOK, Session
<1>4. ASSUME NEW t \in Threads, NEW i \in Ids, Close(t, i)
      PROVE  object'[q].place = object[q].place /\ object'[q].profile = object[q].profile
  BY <1>4, <1>0 DEF Close, TypeOK, Session
<1>5. ASSUME NEW b \in Browsers, Disconnected(b)
      PROVE  object'[q].place = object[q].place /\ object'[q].profile = object[q].profile
  <2>1. \E x, y : object'[q] = [object[q] EXCEPT !.state = x, !.context = y]
    BY <1>5 DEF Disconnected
  <2> QED
    BY <2>1, <1>0 DEF Session
<1>6. ASSUME NEW o \in Sessions, OwnDisconnected(o)
      PROVE  object'[q].place = object[q].place /\ object'[q].profile = object[q].profile
  BY <1>6, <1>0 DEF OwnDisconnected, TypeOK, Session
<1>7. ASSUME UNCHANGED object
      PROVE  object'[q].place = object[q].place /\ object'[q].profile = object[q].profile
  BY <1>7
<1>8. ASSUME NEW t \in Jobs, NEW i \in Ids,
             Attach(t) \/ UseManaged(t) \/ ChromiumUp(t) \/ Ask(t, i) \/ CreateRefused(t, i)
      PROVE  UNCHANGED object
  BY <1>8 DEF Attach, UseManaged, ChromiumUp, Ask, CreateRefused
<1>9. SweepEnds \/ UNCHANGED vars => UNCHANGED object
  BY DEF SweepEnds, vars
<1>10. CASE \E t \in Jobs : Job(t)
  <2>1. PICK t \in Jobs : Job(t)
    BY <1>10
  <2>2. CASE \E i \in Ids, mode \in Mode, profile \in Profiles \cup {None} :
                Create(t, i, mode, profile)
    BY <2>2, <1>1
  <2>3. CASE \E i \in Ids : CreateRefused(t, i) \/ CloseJob(t, i) \/ Ask(t, i)
    BY <2>3, <1>4, <1>7, <1>8 DEF CloseJob, Threads
  <2>4. CASE Attach(t) \/ UseManaged(t) \/ ChromiumUp(t)
    BY <2>4, <1>7 DEF Attach, UseManaged, ChromiumUp
  <2> QED
    BY <2>1, <2>2, <2>3, <2>4, <1>2 DEF Job
<1>11. CASE \E i \in Ids : SweepCloses(i)
  BY <1>11, <1>4 DEF SweepCloses, Threads
<1> QED
  BY <1>3, <1>5, <1>6, <1>7, <1>9, <1>10, <1>11 DEF Next

LEMMA PlacedStep ==
    ASSUME TypeOK, SessionsInv, Placed, [Next]_vars
    PROVE  Placed'
<1> SUFFICES ASSUME NEW q \in Sessions
             PROVE  /\ object'[q].place \in Profiles => object'[q].profile = object'[q].place
                    /\ object'[q].place = "shared" => object'[q].profile = None
  BY DEF Placed
<1>1. CASE object'[q].place = object[q].place /\ object'[q].profile = object[q].profile
  BY <1>1 DEF Placed
<1>2. ASSUME NEW mode \in Mode, NEW profile \in Profiles \cup {None},
             object'[q].place = PlaceOf(mode, profile), object'[q].profile = profile
      PROVE  /\ object'[q].place \in Profiles => object'[q].profile = object'[q].place
             /\ object'[q].place = "shared" => object'[q].profile = None
  BY <1>2, BrowserAssumption DEF PlaceOf
<1> QED
  BY <1>1, <1>2, PlaceStays

\* What freeing a lock does to the others: nothing, or they are freed too soon.
Unlocks(o) ==
    /\ profileLocks' \subseteq profileLocks \ {object[o].place}
    /\ \A p \in profileLocks : p = object[o].place \/ p \in profileLocks' \/ p \in freed'

LEMMA UnlockFacts ==
    ASSUME TypeOK, Placed, NEW o \in Sessions, Unlock(o)
    PROVE  Unlocks(o)
<1>1. object[o].place \in Place /\ profileLocks \subseteq Profiles /\ object[o].profile \in Profiles \cup {None}
  BY SessionFields DEF TypeOK
<1>2. "shared" \notin Profiles /\ "attached" \notin Profiles /\ None \notin Profiles
  BY BrowserAssumption
<1> QED
  BY <1>1, <1>2 DEF Unlock, Unlocks, Placed, Place

LEMMA FreedGrows ==
    ASSUME [Next]_vars
    PROVE  freed \subseteq freed'
<1> USE DEF tables, pastVars
<1>1. ASSUME NEW t \in Threads, NEW i \in Ids, Close(t, i) PROVE freed \subseteq freed'
  BY <1>1 DEF Close, Unlock
<1>2. ASSUME NEW t \in Threads, ContextClosed(t) \/ Closed(t) PROVE freed \subseteq freed'
  BY <1>2 DEF ContextClosed, Unlock, Closed
<1>3. ASSUME NEW t \in Jobs, Job(t) PROVE freed \subseteq freed'
  BY <1>1, <1>3 DEF Job, Create, CreateRefused, CloseJob, Ask, LaunchProfile, Attach, UseManaged,
     ChromiumUp, Got, ContextOpens, LaunchFails, FirstPage, FirstPageFails, Operate, OperationEnds, Threads
<1>4. SweepEnds \/ (\E b \in Browsers : Disconnected(b)) \/ (\E o \in Sessions : OwnDisconnected(o))
      \/ UNCHANGED vars => freed \subseteq freed'
  BY DEF SweepEnds, Disconnected, OwnDisconnected, vars
<1>5. ASSUME NEW i \in Ids, SweepCloses(i) PROVE freed \subseteq freed'
  BY <1>1, <1>5 DEF SweepCloses, Threads
<1> QED
  BY <1>2, <1>3, <1>4, <1>5 DEF Next

(***************************************************************************)
(* Threads and the table.                                                  *)
(***************************************************************************)

\* What every step of a thread on its session leaves alone.
Own(t, o) ==
    /\ session[t] = o
    /\ \A q \in Sessions : q # o => object'[q] = object[q]
    /\ object'[o].id = object[o].id /\ object'[o].place = object[o].place
    /\ object'[o].browser = object[o].browser \/ object[o].place \notin Profiles \/ o \in crossed
    /\ object'[o].state # "new"
    /\ \A u \in Threads : u # t => pc'[u] = pc[u] /\ session'[u] = session[u]
    /\ session'[t] \in {o, None} /\ (pc'[t] # "idle" => session'[t] = o)
    /\ \A i \in Ids : sessions'[i] \in {sessions[i], None}
    /\ crossed' = crossed

LEMMA OwnStep ==
    ASSUME TypeOK, SessionsInv, NEW t \in Threads, NEW o \in Sessions, Own(t, o),
           o \notin crossed /\ object[o].place \in Profiles /\ Alone(o) => Alone(o)'
    PROVE  SessionsInv'
<1>1. None \notin Sessions
  BY BrowserAssumption
<1>2. \A q \in Sessions : InTable(q)' => InTable(q)
  BY <1>1 DEF InTable, Own
<1>3. ASSUME NEW q \in Sessions PROVE Fresh(q)'
  <2>1. CASE q = o
    BY <2>1 DEF Fresh, Own
  <2>2. CASE q # o
    BY <2>2, <1>1, <1>2 DEF Fresh, Own, SessionsInv
  <2> QED
    BY <2>1, <2>2
<1>4. TableInv'
  BY <1>1 DEF TableInv, Own, SessionsInv, TypeOK
<1>5. \A u \in Threads : pc'[u] # "idle" => session'[u] \in Sessions
  BY DEF Own, SessionsInv
<1>6. ASSUME NEW q \in Sessions \ crossed, object'[q].place \in Profiles PROVE Alone(q)'
  <2>1. CASE q = o
    BY <1>6, <2>1 DEF Own, SessionsInv
  <2>2. CASE q # o
    <3>1. object'[q] = object[q] /\ Alone(q)
      BY <1>6, <2>2 DEF Own, SessionsInv
    <3>2. \A u \in Threads : Handles(u, q)' <=> Handles(u, q)
      BY <2>2, <1>1 DEF Handles, Own
    <3>3. \A u \in Threads : Handles(u, q) => pc'[u] = pc[u]
      BY <2>2 DEF Handles, Own
    <3> QED
      BY <3>1, <3>2, <3>3, <1>2 DEF Alone, ContextAt
  <2> QED
    BY <2>1, <2>2
<1>7. crossed' = crossed
  BY DEF Own
<1> QED
  BY <1>3, <1>4, <1>5, <1>6, <1>7 DEF SessionsInv

\* The step of the thread that handles the session.
LEMMA HandlerStep ==
    ASSUME NEW t \in Threads, NEW o \in Sessions, Own(t, o), Handles(t, o), None \notin Sessions,
           Handles(t, o)' => ContextAt(t, o)',
           InTable(o)' => Handles(t, o)' \/ object'[o].context \in {"open", "gone"},
           o \notin crossed /\ object[o].place \in Profiles /\ Alone(o)
    PROVE  Alone(o)'
<1>1. \A u \in Threads : Handles(u, o)' => u = t
  BY DEF Alone, Handles, Own
<1>2. object'[o].browser = None
  BY DEF Alone, Own
<1> QED
  BY <1>1, <1>2 DEF Alone

\* The step of one that does not.
LEMMA UserStep ==
    ASSUME NEW t \in Threads, NEW o \in Sessions, Own(t, o), ~Handles(t, o), ~Handles(t, o)',
           object'[o].context = object[o].context, sessions' = sessions,
           o \notin crossed /\ object[o].place \in Profiles /\ Alone(o)
    PROVE  Alone(o)'
<1>1. \A u \in Threads : Handles(u, o)' <=> Handles(u, o)
  BY DEF Handles, Own
<1>2. \A u \in Threads : Handles(u, o) => pc'[u] = pc[u]
  BY DEF Own
<1>3. InTable(o)' = InTable(o) /\ object'[o].browser = object[o].browser
  BY DEF InTable, Own
<1> QED
  BY <1>1, <1>2, <1>3 DEF Alone, ContextAt

LEMMA CloseStep ==
    ASSUME TypeOK, SessionsInv, NEW t \in Threads, NEW i \in Ids,
           pc[t] = "idle", sessions[i] # None, Close(t, i)
    PROVE  SessionsInv'
<1>n. None \notin Sessions
  BY BrowserAssumption
<1>s. PICK o \in Sessions : o = sessions[i]
  BY DEF TypeOK
<1> DEFINE nothing == object[o].context \in {"none", "launching"}
<1>0. object[o] \in Session /\ None \notin Sessions
  BY <1>n DEF TypeOK
<1>1. /\ object'[o].id = object[o].id /\ object'[o].place = object[o].place
      /\ object'[o].browser = object[o].browser
      /\ object'[o].state \in {"closed", "closing"}
      /\ object'[o].context = IF object[o].context = "open" THEN "closing" ELSE object[o].context
      /\ \A q \in Sessions : q # o => object'[q] = object[q]
  BY <1>s, <1>0 DEF Close, TypeOK, Session
<1>2. crossed' = crossed \cup (IF Creating(o) \/ Closing(o) THEN {o} ELSE {})
  BY <1>s DEF Close
<1>3. nothing => session' = session /\ pc'[t] = "idle" /\ sessions' = [sessions EXCEPT ![i] = None]
  BY <1>s DEF Close, Goto, TypeOK
<1>4. ~nothing => /\ session'[t] = o /\ sessions' = sessions
                  /\ pc'[t] = IF object[o].context = "open" THEN "closing" ELSE "closing again"
  BY <1>s DEF Close, Goto, TypeOK
<1>5. \A u \in Threads : u # t => pc'[u] = pc[u] /\ session'[u] = session[u]
  BY DEF Close, Goto, TypeOK
<1>6. \A j \in Ids : sessions'[j] \in {sessions[j], None}
  BY <1>3, <1>4 DEF TypeOK
<1>7. InTable(o) /\ \A q \in Sessions : InTable(q)' => InTable(q)
  BY <1>s, <1>0, <1>6 DEF InTable
<1>8. object[o].state # "new"
  BY <1>0, <1>7 DEF SessionsInv, Fresh
<1>9. \A u \in Threads : session'[u] = session[u] \/ session'[u] = o
  BY <1>3, <1>4, <1>5
<1> HIDE DEF nothing
<1>10. ASSUME NEW q \in Sessions PROVE Fresh(q)'
  <2>1. CASE q = o
    BY <2>1, <1>1 DEF Fresh
  <2>2. CASE q # o
    BY <2>2, <1>1, <1>2, <1>7, <1>9 DEF Fresh, SessionsInv
  <2> QED
    BY <2>1, <2>2
<1>11. TableInv'
  <2> SUFFICES ASSUME NEW j \in Ids, sessions'[j] # None PROVE object'[sessions'[j]].id = j
    BY DEF TableInv
  <2>1. sessions'[j] = sessions[j] /\ sessions[j] \in Sessions
    BY <1>6 DEF TypeOK
  <2>2. object[sessions[j]].id = j
    BY <2>1 DEF SessionsInv, TableInv
  <2> QED
    BY <2>1, <2>2, <1>1
<1>12. \A u \in Threads : pc'[u] # "idle" => session'[u] \in Sessions
  BY <1>0, <1>3, <1>4, <1>5 DEF SessionsInv
<1>13. ASSUME NEW q \in Sessions \ crossed', object'[q].place \in Profiles PROVE Alone(q)'
  <2>0. q \notin crossed /\ object[q].place \in Profiles /\ Alone(q)
    BY <1>13, <1>0, <1>1, <1>2 DEF SessionsInv
  <2>1. CASE q = o
    <3>1. ~Creating(o) /\ ~Closing(o)
      BY <1>13, <2>1, <1>2
    <3>2. \A u \in Threads : ~Handles(u, o)
      BY <3>1 DEF Handles, Creating, Closing
    <3>3. object[o].context \in {"open", "gone"}
      BY <2>0, <2>1, <3>2, <1>7 DEF Alone
    <3>4. /\ ~nothing /\ session'[t] = o
          /\ object[o].context = "open" => pc'[t] = "closing" /\ object'[o].context = "closing"
          /\ object[o].context = "gone" => pc'[t] = "closing again" /\ object'[o].context = "gone"
      BY <3>3, <1>1, <1>4 DEF nothing
    <3>5. Handles(t, o)' /\ ContextAt(t, o)'
      BY <3>3, <3>4, <1>0 DEF Handles, ContextAt, ClosePc
    <3>6. \A u \in Threads : Handles(u, o)' => u = t
      BY <3>2, <1>5 DEF Handles
    <3>7. object'[o].browser = None
      BY <2>0, <2>1, <1>1 DEF Alone
    <3> QED
      BY <3>5, <3>6, <3>7, <2>1 DEF Alone
  <2>2. CASE q # o
    <3>1. object'[q] = object[q]
      BY <2>2, <1>1
    <3>2. \A u \in Threads : (Handles(u, q)' <=> Handles(u, q)) /\ (Handles(u, q) => u # t)
      BY <2>2, <1>3, <1>4, <1>5 DEF Handles, CreatePc, ClosePc
    <3> QED
      BY <3>1, <3>2, <2>0, <1>5, <1>7 DEF Alone, ContextAt
  <2> QED
    BY <2>1, <2>2
<1> QED
  BY <1>10, <1>11, <1>12, <1>13 DEF SessionsInv

LEMMA OwnFacts ==
    ASSUME TypeOK, SessionsInv, NEW t \in Threads, pc[t] # "idle"
    PROVE  \E o \in Sessions :
              /\ session[t] = o /\ Of(t) = object[o] /\ object[o] \in Session
              /\ object[o].state # "new" /\ None \notin Sessions
<1>1. session[t] \in Sessions /\ object[session[t]] \in Session /\ None \notin Sessions
  BY BrowserAssumption DEF SessionsInv, TypeOK
<1>2. object[session[t]].state # "new"
  BY <1>1 DEF SessionsInv, Fresh
<1> QED
  BY <1>1, <1>2 DEF Of

\* createSession has failed, or closeSession is at its end.
LEMMA LeavesTable ==
    ASSUME TypeOK, SessionsInv, NEW t \in Threads, NEW o \in Sessions,
           sessions' = [sessions EXCEPT ![object[o].id] = None]
    PROVE  ~InTable(o)' /\ \A i \in Ids : sessions'[i] \in {sessions[i], None}
<1>1. \A i \in Ids : sessions[i] = o => i = object[o].id
  BY BrowserAssumption DEF SessionsInv, TableInv
<1> QED
  BY <1>1, BrowserAssumption DEF InTable, TypeOK

LEMMA FailOwn ==
    ASSUME TypeOK, SessionsInv, NEW t \in Threads, NEW o \in Sessions, session[t] = o,
           NEW context \in Context, Fail(t, context), crossed' = crossed
    PROVE  Own(t, o) /\ ~InTable(o)' /\ pc'[t] = "idle" /\ session'[t] = None /\ object'[o].context = context
<1>1. /\ \A q \in Sessions : q # o => object'[q] = object[q]
      /\ object'[o].id = object[o].id /\ object'[o].place = object[o].place
      /\ object'[o].browser = object[o].browser /\ object'[o].state = "error"
      /\ object'[o].context = context
  BY DEF Fail, TypeOK, Session
<1>2. sessions' = [sessions EXCEPT ![object[o].id] = None] /\ Return(t)
  BY DEF Fail, Of
<1> QED
  BY <1>1, <1>2, LeavesTable, ReturnType DEF Own

LEMMA SessionsStep ==
    ASSUME TypeOK, SessionsInv, [Next]_vars
    PROVE  SessionsInv'
<1> USE DEF tables, pastVars
<1>j. Jobs \subseteq Threads /\ Sweeper \in Threads
  BY DEF Threads
<1>n. None \notin Sessions
  BY BrowserAssumption
<1>0. ASSUME NEW t \in Threads, NEW o \in Sessions, session[t] = o, pc[t] \in CreatePc,
             NEW context \in Context, Fail(t, context), crossed' = crossed
      PROVE  SessionsInv'
  <2>1. Own(t, o) /\ ~InTable(o)' /\ pc'[t] = "idle"
    BY <1>0, FailOwn
  <2>2. Handles(t, o) /\ ~Handles(t, o)'
    BY <1>0, <2>1 DEF Handles, CreatePc, ClosePc
  <2> QED
    BY <2>1, <2>2, <1>n, OwnStep, HandlerStep
<1>1. ASSUME NEW t \in Jobs, NEW i \in Ids, NEW mode \in Mode, NEW profile \in Profiles \cup {None},
             Create(t, i, mode, profile)
      PROVE  SessionsInv'
  <2>1. PICK o \in Sessions :
          /\ object[o] = Unused
          /\ object' = [object EXCEPT ![o] = [Unused EXCEPT
                           !.state = "creating", !.id = i,
                           !.place = PlaceOf(mode, profile), !.profile = profile]]
          /\ sessions' = [sessions EXCEPT ![i] = o] /\ session' = [session EXCEPT ![t] = o]
    BY <1>1 DEF Create
  <2>2. /\ pc[t] = "idle" /\ pc'[t] = "core" /\ session'[t] = o /\ sessions'[i] = o
        /\ \A u \in Threads : u # t => pc'[u] = pc[u] /\ session'[u] = session[u]
        /\ \A j \in Ids : j # i => sessions'[j] = sessions[j]
        /\ crossed' = crossed
    BY <1>1, <1>j, <2>1 DEF Create, Goto, TypeOK
  <2>3. /\ object'[o].state = "creating" /\ object'[o].id = i /\ object'[o].context = "none"
        /\ object'[o].browser = None
        /\ \A q \in Sessions : q # o => object'[q] = object[q]
    BY <2>1 DEF TypeOK, Unused
  <2>4. ~InTable(o) /\ o \notin crossed /\ \A u \in Threads : session[u] # o
    BY <2>1 DEF SessionsInv, Fresh, Unused
  <2>5. \A q \in Sessions : q # o /\ InTable(q)' => InTable(q)
    BY <2>2 DEF InTable
  <2>6. ASSUME NEW q \in Sessions PROVE Fresh(q)'
    <3>1. CASE q = o
      BY <3>1, <2>3 DEF Fresh
    <3>2. CASE q # o
      BY <3>2, <2>2, <2>3, <2>5 DEF Fresh, SessionsInv
    <3> QED
      BY <3>1, <3>2
  <2>7. TableInv'
    <3>1. ASSUME NEW j \in Ids, sessions'[j] # None PROVE object'[sessions'[j]].id = j
      <4>1. CASE j = i
        BY <4>1, <2>2, <2>3
      <4>2. CASE j # i
        <5>1. sessions'[j] = sessions[j] /\ sessions[j] \in Sessions /\ object[sessions[j]].id = j
          BY <4>2, <3>1, <2>2 DEF SessionsInv, TableInv, TypeOK
        <5>2. sessions[j] # o
          BY <2>4 DEF InTable
        <5> QED
          BY <5>1, <5>2, <2>3
      <4> QED
        BY <4>1, <4>2
    <3> QED
      BY <3>1 DEF TableInv
  <2>8. \A u \in Threads : pc'[u] # "idle" => session'[u] \in Sessions
    BY <2>2 DEF SessionsInv
  <2>9. ASSUME NEW q \in Sessions \ crossed', object'[q].place \in Profiles PROVE Alone(q)'
    <3>1. CASE q = o
      <4>1. Handles(t, o)' /\ ContextAt(t, o)'
        BY <2>2, <2>3, <1>j DEF Handles, ContextAt, CreatePc
      <4>2. \A u \in Threads : Handles(u, o)' => u = t
        BY <2>2, <2>4 DEF Handles
      <4> QED
        BY <3>1, <4>1, <4>2, <2>3, <1>j DEF Alone
    <3>2. CASE q # o
      <4>1. object'[q] = object[q] /\ Alone(q)
        BY <3>2, <2>2, <2>3, <2>9 DEF SessionsInv
      <4>2. \A u \in Threads : (Handles(u, q)' <=> Handles(u, q)) /\ (Handles(u, q) => u # t)
        BY <3>2, <2>2 DEF Handles, CreatePc, ClosePc
      <4>3. \A u \in Threads : Handles(u, q)' => ContextAt(u, q)'
        <5> SUFFICES ASSUME NEW u \in Threads, Handles(u, q)' PROVE ContextAt(u, q)'
          OBVIOUS
        <5>1. u # t /\ Handles(u, q)
          BY <4>2
        <5>2. pc'[u] = pc[u] /\ ContextAt(u, q)
          BY <4>1, <5>1, <2>2 DEF Alone
        <5> QED
          BY <4>1, <5>2 DEF ContextAt
      <4>4. InTable(q)' => InTable(q)
        BY <3>2, <2>5
      <4> QED
        BY <4>1, <4>2, <4>3, <4>4 DEF Alone
    <3> QED
      BY <3>1, <3>2
  <2> QED
    BY <2>6, <2>7, <2>8, <2>9 DEF SessionsInv
<1>2. ASSUME NEW t \in Jobs, LaunchProfile(t) PROVE SessionsInv'
  <2>1. t \in Threads /\ pc[t] = "core" /\ crossed' = crossed
    BY <1>2, <1>j DEF LaunchProfile
  <2>2. PICK o \in Sessions :
          session[t] = o /\ Of(t) = object[o] /\ object[o] \in Session /\ object[o].state # "new"
    BY <2>1, OwnFacts
  <2>3. CASE Fail(t, "none")
    BY <2>1, <2>2, <2>3, <1>0 DEF CreatePc, Context
  <2>4. CASE ~Fail(t, "none")
    <3>1. /\ object' = [object EXCEPT ![o].context = "launching"] /\ Goto(t, "context")
          /\ sessions' = sessions /\ session' = session
      BY <1>2, <2>2, <2>4 DEF LaunchProfile
    <3>2. /\ \A q \in Sessions : q # o => object'[q] = object[q]
          /\ object'[o].id = object[o].id /\ object'[o].place = object[o].place
          /\ object'[o].browser = object[o].browser /\ object'[o].state = object[o].state
          /\ object'[o].context = "launching"
      BY <3>1, <2>2 DEF TypeOK, Session
    <3>3. pc'[t] = "context" /\ \A u \in Threads : u # t => pc'[u] = pc[u]
      BY <3>1, <2>1 DEF Goto, TypeOK
    <3>4. Own(t, o)
      BY <3>1, <3>2, <3>3, <2>1, <2>2 DEF Own
    <3>5. Handles(t, o) /\ Handles(t, o)' /\ ContextAt(t, o)'
      BY <3>1, <3>2, <3>3, <2>1, <2>2 DEF Handles, ContextAt, CreatePc
    <3> QED
      BY <3>4, <3>5, <2>1, <1>n, OwnStep, HandlerStep
  <2> QED
    BY <2>3, <2>4
<1>3. ASSUME NEW t \in Jobs, Attach(t) \/ UseManaged(t) \/ ChromiumUp(t) PROVE SessionsInv'
  <2>1. t \in Threads /\ pc[t] \in {"core", "chromium"} /\ crossed' = crossed
        /\ object' = object /\ session' = session /\ sessions' = sessions
    BY <1>3, <1>j DEF Attach, UseManaged, ChromiumUp
  <2>2. PICK o \in Sessions :
          session[t] = o /\ Of(t) = object[o] /\ object[o] \in Session /\ object[o].state # "new"
    BY <2>1, OwnFacts
  <2>3. \A u \in Threads : u # t => pc'[u] = pc[u]
    BY <1>3, <1>j DEF Attach, UseManaged, ChromiumUp, Goto, TypeOK
  <2>4. Own(t, o)
    BY <2>1, <2>2, <2>3 DEF Own
  <2>5. ~(o \notin crossed /\ object[o].place \in Profiles /\ Alone(o))
    <3>1. pc[t] = "core" => object[o].place \notin Profiles
      BY <1>3, <2>2, BrowserAssumption DEF Attach, UseManaged, ChromiumUp
    <3>2. Alone(o) => pc[t] # "chromium"
      BY <2>1, <2>2 DEF Alone, Handles, ContextAt, CreatePc
    <3> QED
      BY <3>1, <3>2, <2>1
  <2> QED
    BY <2>1, <2>4, <2>5, OwnStep
<1>4. ASSUME NEW t \in Jobs, Got(t) PROVE SessionsInv'
  <2>1. t \in Threads /\ pc[t] = "got" /\ crossed' = crossed
        /\ session' = session /\ sessions' = sessions
    BY <1>4, <1>j DEF Got
  <2>2. PICK o \in Sessions :
          session[t] = o /\ Of(t) = object[o] /\ object[o] \in Session /\ object[o].state # "new"
    BY <2>1, OwnFacts
  <2>3. \A u \in Threads : u # t => pc'[u] = pc[u]
    BY <1>4, <1>j DEF Got, Goto, TypeOK
  <2>4. ~(o \notin crossed /\ object[o].place \in Profiles)
    <3>1. ~Alone(o)
      BY <2>1, <2>2 DEF Alone, Handles, ContextAt, CreatePc
    <3> QED
      BY <3>1 DEF SessionsInv
  <2>5. /\ \A q \in Sessions : q # o => object'[q] = object[q]
        /\ object'[o].id = object[o].id /\ object'[o].place = object[o].place
        /\ object'[o].state = object[o].state
    BY <1>4, <2>2 DEF Got, TypeOK, Session
  <2>6. Own(t, o)
    BY <2>1, <2>2, <2>3, <2>4, <2>5 DEF Own
  <2> QED
    BY <2>1, <2>4, <2>6, OwnStep
<1>5. ASSUME NEW t \in Jobs, ContextOpens(t) PROVE SessionsInv'
  <2>1. t \in Threads /\ pc[t] = "context" /\ crossed' = crossed
        /\ session' = session /\ sessions' = sessions
    BY <1>5, <1>j DEF ContextOpens
  <2>2. PICK o \in Sessions :
          session[t] = o /\ Of(t) = object[o] /\ object[o] \in Session /\ object[o].state # "new"
    BY <2>1, OwnFacts
  <2>3. pc'[t] = "page" /\ \A u \in Threads : u # t => pc'[u] = pc[u]
    BY <1>5, <1>j DEF ContextOpens, Goto, TypeOK
  <2>4. /\ \A q \in Sessions : q # o => object'[q] = object[q]
        /\ object'[o].id = object[o].id /\ object'[o].place = object[o].place
        /\ object'[o].browser = object[o].browser /\ object'[o].state = object[o].state
        /\ object'[o].context = "open"
    BY <1>5, <2>2 DEF ContextOpens, TypeOK, Session
  <2>5. Own(t, o)
    BY <2>1, <2>2, <2>3, <2>4 DEF Own
  <2>6. Handles(t, o) /\ Handles(t, o)' /\ ContextAt(t, o)'
    BY <2>1, <2>2, <2>3, <2>4 DEF Handles, ContextAt, CreatePc
  <2> QED
    BY <2>1, <2>5, <2>6, <1>n, OwnStep, HandlerStep
<1>6. ASSUME NEW t \in Jobs, LaunchFails(t) \/ FirstPageFails(t) PROVE SessionsInv'
  <2>1. t \in Threads /\ pc[t] \in CreatePc /\ crossed' = crossed /\ pc[t] # "idle"
    BY <1>6, <1>j DEF LaunchFails, FirstPageFails, CreatePc
  <2>2. PICK o \in Sessions :
          session[t] = o /\ Of(t) = object[o] /\ object[o] \in Session /\ object[o].state # "new"
    BY <2>1, OwnFacts
  <2>3. Of(t).context \in Context /\ "none" \in Context
    BY <2>2, SessionFields DEF Context
  <2> QED
    BY <1>6, <2>1, <2>2, <2>3, <1>0 DEF LaunchFails, FirstPageFails
<1>7. ASSUME NEW t \in Jobs, FirstPage(t) PROVE SessionsInv'
  <2>1. t \in Threads /\ pc[t] = "page" /\ crossed' = crossed /\ sessions' = sessions
        /\ (Return(t) \/ (Goto(t, "queued") /\ session' = session))
    BY <1>7, <1>j DEF FirstPage
  <2>2. PICK o \in Sessions :
          session[t] = o /\ Of(t) = object[o] /\ object[o] \in Session /\ object[o].state # "new"
    BY <2>1, OwnFacts
  <2>3. /\ \A q \in Sessions : q # o => object'[q] = object[q]
        /\ object'[o].id = object[o].id /\ object'[o].place = object[o].place
        /\ object'[o].browser = object[o].browser /\ object'[o].state = "ready"
        /\ object'[o].context = "open"
    BY <1>7, <2>2 DEF FirstPage, TypeOK, Session
  <2>4. /\ (pc'[t] = "idle" /\ session'[t] = None) \/ (pc'[t] = "queued" /\ session'[t] = o)
        /\ \A u \in Threads : u # t => pc'[u] = pc[u] /\ session'[u] = session[u]
    BY <2>1, <2>2, ReturnType, GotoType DEF Pc
  <2>5. Own(t, o) /\ ~Handles(t, o)' /\ Handles(t, o)
    BY <2>1, <2>2, <2>3, <2>4, <1>n DEF Own, Handles, CreatePc, ClosePc
  <2> QED
    BY <2>1, <2>3, <2>5, <1>n, OwnStep, HandlerStep
<1>8. ASSUME NEW t \in Threads, ContextClosed(t) PROVE SessionsInv'
  <2>1. pc[t] \in {"closing", "closing again"} /\ crossed' = crossed
        /\ session' = session /\ sessions' = sessions
    BY <1>8 DEF ContextClosed
  <2>2. PICK o \in Sessions :
          session[t] = o /\ Of(t) = object[o] /\ object[o] \in Session /\ object[o].state # "new"
    BY <2>1, OwnFacts
  <2>3. pc'[t] = "quit" /\ \A u \in Threads : u # t => pc'[u] = pc[u]
    BY <1>8 DEF ContextClosed, Goto, TypeOK
  <2>4. /\ \A q \in Sessions : q # o => object'[q] = object[q]
        /\ object'[o].id = object[o].id /\ object'[o].place = object[o].place
        /\ object'[o].browser = object[o].browser /\ object'[o].state = object[o].state
        /\ object'[o].context = IF pc[t] = "closing" /\ object[o].context = "closing" THEN "closed"
                                ELSE object[o].context
    BY <1>8, <2>2 DEF ContextClosed, TypeOK, Session
  <2>5. Own(t, o)
    BY <2>1, <2>2, <2>3, <2>4 DEF Own
  <2>6. Handles(t, o) /\ Handles(t, o)'
    BY <2>1, <2>2, <2>3 DEF Handles, ClosePc
  <2>7. Alone(o) => ContextAt(t, o)'
    BY <2>1, <2>3, <2>4, <2>6 DEF Alone, ContextAt
  <2> QED
    BY <2>5, <2>6, <2>7, <1>n, OwnStep, HandlerStep
<1>9. ASSUME NEW t \in Threads, Closed(t) PROVE SessionsInv'
  <2>1. pc[t] = "quit" /\ crossed' = crossed /\ Return(t)
    BY <1>9 DEF Closed
  <2>2. PICK o \in Sessions :
          session[t] = o /\ Of(t) = object[o] /\ object[o] \in Session /\ object[o].state # "new"
    BY <2>1, OwnFacts
  <2>3. sessions' = [sessions EXCEPT ![object[o].id] = None]
    BY <1>9, <2>2 DEF Closed
  <2>4. /\ \A q \in Sessions : q # o => object'[q] = object[q]
        /\ object'[o].id = object[o].id /\ object'[o].place = object[o].place
        /\ object'[o].browser = object[o].browser /\ object'[o].state = "closed"
    BY <1>9, <2>2 DEF Closed, TypeOK, Session
  <2>5. Own(t, o) /\ ~InTable(o)'
    BY <2>1, <2>2, <2>3, <2>4, LeavesTable, ReturnType DEF Own
  <2>6. Handles(t, o) /\ ~Handles(t, o)'
    BY <2>1, <2>2, <1>n, ReturnType DEF Handles, ClosePc
  <2> QED
    BY <2>5, <2>6, <1>n, OwnStep, HandlerStep
<1>10. ASSUME NEW t \in Jobs, NEW i \in Ids, CloseJob(t, i) PROVE SessionsInv'
  BY <1>10, <1>j, CloseStep DEF CloseJob
<1>11. ASSUME NEW i \in Ids, SweepCloses(i) PROVE SessionsInv'
  BY <1>11, <1>j, CloseStep DEF SweepCloses
<1>12. ASSUME NEW t \in Jobs, NEW i \in Ids, Ask(t, i) PROVE SessionsInv'
  <2>1. PICK o \in Sessions : sessions[i] = o
    BY <1>12 DEF Ask, TypeOK
  <2>2. /\ pc[t] = "idle" /\ pc'[t] = "queued" /\ session'[t] = o
        /\ \A u \in Threads : u # t => pc'[u] = pc[u] /\ session'[u] = session[u]
        /\ sessions' = sessions /\ object' = object /\ crossed' = crossed
        /\ object[o].state # "new"
    BY <1>12, <1>j, <2>1 DEF Ask, Goto, TypeOK
  <2>3. \A q \in Sessions : Fresh(q)'
    BY <2>2 DEF SessionsInv, Fresh, InTable
  <2>4. \A u \in Threads, q \in Sessions :
           (Handles(u, q)' <=> Handles(u, q)) /\ (Handles(u, q) => u # t)
    BY <2>2 DEF Handles, CreatePc, ClosePc
  <2>5. ASSUME NEW q \in Sessions \ crossed', object'[q].place \in Profiles PROVE Alone(q)'
    <3>1. Alone(q)
      BY <2>2, <2>5 DEF SessionsInv
    <3> QED
      BY ZenonT(30), <3>1, <2>2, <2>4 DEF Alone, ContextAt, InTable
  <2> QED
    BY <2>2, <2>3, <2>5 DEF SessionsInv, TableInv
<1>13. ASSUME NEW t \in Jobs, Operate(t) PROVE SessionsInv'
  <2>1. t \in Threads /\ pc[t] = "queued" /\ crossed' = crossed
        /\ session' = session /\ sessions' = sessions
    BY <1>13, <1>j DEF Operate
  <2>2. PICK o \in Sessions :
          session[t] = o /\ Of(t) = object[o] /\ object[o] \in Session /\ object[o].state # "new"
    BY <2>1, OwnFacts
  <2>3. pc'[t] = "operating" /\ \A u \in Threads : u # t => pc'[u] = pc[u]
    BY <1>13, <1>j DEF Operate, Goto, TypeOK
  <2>4. /\ \A q \in Sessions : q # o => object'[q] = object[q]
        /\ object'[o].id = object[o].id /\ object'[o].place = object[o].place
        /\ object'[o].browser = object[o].browser /\ object'[o].state = "busy"
        /\ object'[o].context = object[o].context
    BY <1>13, <2>2 DEF Operate, TypeOK, Session
  <2>5. Own(t, o) /\ ~Handles(t, o) /\ ~Handles(t, o)'
    BY <2>1, <2>2, <2>3, <2>4 DEF Own, Handles, CreatePc, ClosePc
  <2> QED
    BY <2>1, <2>4, <2>5, OwnStep, UserStep
<1>14. ASSUME NEW t \in Jobs, OperationEnds(t) PROVE SessionsInv'
  <2>1. t \in Threads /\ pc[t] = "operating" /\ crossed' = crossed
        /\ sessions' = sessions /\ Return(t)
    BY <1>14, <1>j DEF OperationEnds
  <2>2. PICK o \in Sessions :
          session[t] = o /\ Of(t) = object[o] /\ object[o] \in Session /\ object[o].state # "new"
    BY <2>1, OwnFacts
  <2>3. /\ \A q \in Sessions : q # o => object'[q] = object[q]
        /\ object'[o].id = object[o].id /\ object'[o].place = object[o].place
        /\ object'[o].browser = object[o].browser /\ object'[o].state = "ready"
        /\ object'[o].context = object[o].context
    BY <1>14, <2>2 DEF OperationEnds, TypeOK, Session
  <2>4. pc'[t] = "idle" /\ session'[t] = None
        /\ \A u \in Threads : u # t => pc'[u] = pc[u] /\ session'[u] = session[u]
    BY <2>1, ReturnType
  <2>5. Own(t, o) /\ ~Handles(t, o) /\ ~Handles(t, o)'
    BY <2>1, <2>2, <2>3, <2>4 DEF Own, Handles, CreatePc, ClosePc
  <2> QED
    BY <2>1, <2>3, <2>5, OwnStep, UserStep
<1>15. ASSUME UNCHANGED <<sessions, object, pc, session, crossed>> PROVE SessionsInv'
  <2>1. \A o \in Sessions : Fresh(o)'
    BY <1>15 DEF SessionsInv, Fresh, InTable
  <2>2. TableInv' /\ \A t \in Threads : pc'[t] # "idle" => session'[t] \in Sessions
    BY <1>15 DEF SessionsInv, TableInv
  <2>3. ASSUME NEW o \in Sessions \ crossed', object'[o].place \in Profiles PROVE Alone(o)'
    <3>1. Alone(o)
      BY <1>15, <2>3 DEF SessionsInv
    <3> QED
      BY <3>1, <1>15 DEF Alone, InTable, Handles, ContextAt
  <2> QED
    BY <2>1, <2>2, <2>3 DEF SessionsInv
<1>16. ASSUME NEW b \in Browsers, Disconnected(b) PROVE SessionsInv'
  <2>1. UNCHANGED <<sessions, pc, session, crossed>>
    BY <1>16 DEF Disconnected
  <2>2. \A o \in Sessions :
          /\ object'[o].id = object[o].id /\ object'[o].place = object[o].place
          /\ object'[o].browser = object[o].browser
          /\ object'[o].state = "new" => object[o].state = "new"
          /\ object[o].browser # b \/ object[o].context = "none" => object'[o].context = object[o].context
    <3> SUFFICES ASSUME NEW o \in Sessions
                 PROVE  /\ object'[o].id = object[o].id /\ object'[o].place = object[o].place
                        /\ object'[o].browser = object[o].browser
                        /\ object'[o].state = "new" => object[o].state = "new"
                        /\ object[o].browser # b \/ object[o].context = "none" =>
                              object'[o].context = object[o].context
      OBVIOUS
    <3>1. PICK x \in {"lost", object[o].state}, y \in {"gone", object[o].context} :
             /\ object'[o] = [object[o] EXCEPT !.state = x, !.context = y]
             /\ object[o].browser # b \/ object[o].context = "none" => y = object[o].context
      BY <1>16 DEF Disconnected
    <3>2. object[o] \in Session
      BY DEF TypeOK
    <3> QED
      BY <3>1, <3>2 DEF Session
  <2>3. \A o \in Sessions : Fresh(o)'
    BY <2>1, <2>2 DEF SessionsInv, Fresh, InTable
  <2>4. TableInv'
    BY <2>1, <2>2 DEF SessionsInv, TableInv, TypeOK
  <2>5. \A t \in Threads : pc'[t] # "idle" => session'[t] \in Sessions
    BY <2>1 DEF SessionsInv
  <2>6. ASSUME NEW o \in Sessions \ crossed', object'[o].place \in Profiles PROVE Alone(o)'
    <3>1. Alone(o)
      BY <2>1, <2>2, <2>6 DEF SessionsInv
    <3>2. object[o].browser # b
      BY <3>1, BrowserAssumption DEF Alone
    <3>3. object'[o].context = object[o].context /\ object'[o].browser = object[o].browser
      BY <2>2, <3>2
    <3> QED
      BY <3>1, <3>3, <2>1 DEF Alone, ContextAt, Handles, InTable
  <2> QED
    BY <2>3, <2>4, <2>5, <2>6 DEF SessionsInv
<1>17. ASSUME NEW x \in Sessions, OwnDisconnected(x) PROVE SessionsInv'
  <2>1. UNCHANGED <<sessions, pc, session, crossed>>
    BY <1>17 DEF OwnDisconnected
  <2>2. \A o \in Sessions :
          /\ object'[o].id = object[o].id /\ object'[o].place = object[o].place
          /\ object'[o].browser = object[o].browser
          /\ object'[o].state = "new" => object[o].state = "new"
          /\ o # x => object'[o].context = object[o].context
    BY <1>17 DEF OwnDisconnected, TypeOK, Session
  <2>3. object'[x].context = "gone" /\ object[x].context \in {"open", "closing", "closed"}
    BY <1>17 DEF OwnDisconnected, TypeOK, Session
  <2>4. \A o \in Sessions : Fresh(o)'
    <3>1. object[x].state # "new"
      BY <2>3 DEF SessionsInv, Fresh
    <3> QED
      BY <3>1, <2>1, <2>2 DEF SessionsInv, Fresh, InTable
  <2>5. TableInv'
    BY <2>1, <2>2 DEF SessionsInv, TableInv, TypeOK
  <2>6. \A t \in Threads : pc'[t] # "idle" => session'[t] \in Sessions
    BY <2>1 DEF SessionsInv
  <2>7. ASSUME NEW o \in Sessions \ crossed', object'[o].place \in Profiles PROVE Alone(o)'
    <3>1. Alone(o)
      BY <2>1, <2>2, <2>7 DEF SessionsInv
    <3>2. object'[o].browser = object[o].browser
      BY <2>2
    <3>3. CASE o # x
      BY <3>1, <3>2, <3>3, <2>1, <2>2 DEF Alone, ContextAt, Handles, InTable
    <3>4. CASE o = x
      <4>1. \A t \in Threads : Handles(t, o)' => ContextAt(t, o)'
        BY <3>1, <3>4, <2>1, <2>3 DEF Alone, ContextAt, Handles
      <4> QED
        BY <3>1, <3>2, <3>4, <4>1, <2>1, <2>3 DEF Alone, Handles
    <3> QED
      BY <3>3, <3>4
  <2> QED
    BY <2>4, <2>5, <2>6, <2>7 DEF SessionsInv
<1>18. CASE SweepEnds
  BY <1>18, <1>15 DEF SweepEnds
<1>19. CASE UNCHANGED vars
  BY <1>19, <1>15 DEF vars
<1>20. ASSUME NEW t \in Jobs, NEW i \in Ids, CreateRefused(t, i) PROVE SessionsInv'
  <2>1. UNCHANGED <<object, pc, session, crossed>> /\ \A j \in Ids : sessions'[j] \in {sessions[j], None}
    BY <1>20 DEF CreateRefused, TypeOK
  <2>2. \A q \in Sessions : InTable(q)' => InTable(q)
    BY <2>1, <1>n DEF InTable
  <2>3. \A q \in Sessions : Fresh(q)'
    BY <2>1, <2>2 DEF SessionsInv, Fresh
  <2>4. TableInv' /\ \A u \in Threads : pc'[u] # "idle" => session'[u] \in Sessions
    BY <2>1 DEF SessionsInv, TableInv
  <2>5. ASSUME NEW q \in Sessions \ crossed', object'[q].place \in Profiles PROVE Alone(q)'
    <3>1. Alone(q)
      BY <2>1, <2>5 DEF SessionsInv
    <3> QED
      BY <3>1, <2>1, <2>2 DEF Alone, Handles, ContextAt
  <2> QED
    BY <2>3, <2>4, <2>5 DEF SessionsInv
<1> QED
  BY <1>1, <1>2, <1>3, <1>4, <1>5, <1>6, <1>7, <1>8, <1>9, <1>10, <1>11, <1>12, <1>13, <1>14,
     <1>16, <1>17, <1>18, <1>19, <1>20 DEF Next, Job

(***************************************************************************)
(* Claims and locks.                                                       *)
(***************************************************************************)
LEMMA ClaimsKept ==
    ASSUME ClaimsInv, freed \subseteq freed',
           \A x \in crossed : x \in crossed' /\ object'[x].place = object[x].place,
           \A p \in Profiles, o \in Sessions :
              object'[o].place = p /\ ~Spoiled(p)' /\ Claims(o)' =>
                 /\ Claims(o) /\ object[o].place = p
                 /\ p \in profileLocks => p \in profileLocks'
    PROVE  ClaimsInv'
<1>1. \A p \in Profiles : Spoiled(p) => Spoiled(p)'
  BY DEF Spoiled
<1> SUFFICES ASSUME NEW p \in Profiles, ~Spoiled(p)'
             PROVE  /\ \A o \in Sessions : object'[o].place = p /\ Claims(o)' => p \in profileLocks'
                    /\ \A o, q \in Sessions : object'[o].place = p /\ object'[q].place = p
                                               /\ Claims(o)' /\ Claims(q)' => o = q
  BY DEF ClaimsInv
<1>2. ~Spoiled(p)
  BY <1>1
<1> QED
  BY <1>2 DEF ClaimsInv

LEMMA OthersClaim ==
    ASSUME NEW t \in Threads, NEW o \in Sessions, Own(t, o), None \notin Sessions,
           NEW q \in Sessions, q # o, Claims(q)'
    PROVE  Claims(q)
<1>1. object'[q] = object[q] /\ session[t] # q /\ session'[t] # q
  BY DEF Own
<1>2. InTable(q)' => InTable(q)
  BY DEF InTable, Own
<1>3. \A u \in Threads, where \in {"quit", "closing", "closing again"} :
         (session'[u] = q /\ pc'[u] = where) <=> (session[u] = q /\ pc[u] = where)
  BY <1>1 DEF Own
<1> QED
  BY <1>1, <1>2, <1>3 DEF Claims

\* A step that takes or keeps the locks, of a thread on its session.
LEMMA OwnClaims ==
    ASSUME TypeOK, ClaimsInv, freed \subseteq freed',
           NEW t \in Threads, NEW o \in Sessions, Own(t, o), None \notin Sessions,
           profileLocks' = profileLocks,
           object[o].place \in Profiles /\ o \notin crossed /\ Claims(o)' => Claims(o)
    PROVE  ClaimsInv'
<1>1. \A q \in Sessions : object'[q].place = object[q].place
  BY DEF Own
<1>2. \A x \in crossed : x \in crossed' /\ object'[x].place = object[x].place
  BY <1>1 DEF Own, TypeOK
<1>3. ASSUME NEW p \in Profiles, NEW q \in Sessions, object'[q].place = p, ~Spoiled(p)', Claims(q)'
      PROVE  Claims(q)
  <2>1. CASE q = o
    <3>1. object[o].place = p /\ o \notin crossed
      BY <1>1, <1>2, <1>3, <2>1 DEF Spoiled
    <3> QED
      BY <3>1, <2>1, <1>3
  <2>2. CASE q # o
    BY <2>2, <1>3, OthersClaim
  <2> QED
    BY <2>1, <2>2
<1> QED
  BY <1>1, <1>2, <1>3, ClaimsKept

\* One that frees the lock of its profile.
LEMMA OwnFrees ==
    ASSUME TypeOK, ClaimsInv, freed \subseteq freed',
           NEW t \in Threads, NEW o \in Sessions, Own(t, o), None \notin Sessions,
           Unlocks(o),
           object[o].place \in Profiles /\ o \notin crossed => Claims(o) /\ ~Claims(o)'
    PROVE  ClaimsInv'
<1>1. \A q \in Sessions : object'[q].place = object[q].place
  BY DEF Own
<1>2. \A x \in crossed : x \in crossed' /\ object'[x].place = object[x].place
  BY <1>1 DEF Own, TypeOK
<1>3. ASSUME NEW p \in Profiles, NEW q \in Sessions, object'[q].place = p, ~Spoiled(p)', Claims(q)'
      PROVE  Claims(q) /\ p # object[o].place
  <2>1. ~Spoiled(p)
    BY <1>2, <1>3 DEF Spoiled
  <2>2. object[o].place = p => Claims(o) /\ ~Claims(o)'
    BY <2>1 DEF Spoiled
  <2>3. q # o
    BY <2>2, <1>1, <1>3
  <2>4. Claims(q)
    BY <2>3, <1>3, OthersClaim
  <2> QED
    BY <2>1, <2>2, <2>3, <2>4, <1>1, <1>3 DEF ClaimsInv
<1>4. ASSUME NEW p \in Profiles, ~Spoiled(p)', p # object[o].place, p \in profileLocks
      PROVE  p \in profileLocks'
  BY <1>4 DEF Unlocks, Spoiled
<1> QED
  BY <1>1, <1>2, <1>3, <1>4, ClaimsKept

\* A handler that leaves no browser in the profile.
LEMMA ClaimsNoMore ==
    ASSUME NEW t \in Threads, NEW o \in Sessions, Own(t, o), Handles(t, o), Alone(o),
           pc'[t] \notin {"closing", "closing again"},
           object'[o].context \in {"none", "closed", "gone"},
           ~InTable(o)' \/ (session'[t] = o /\ pc'[t] = "quit")
    PROVE  ~Claims(o)'
<1>1. \A u \in Threads : session'[u] = o /\ pc'[u] \in {"closing", "closing again"} => u = t
  BY ZenonT(30) DEF Own, Alone, Handles, ClosePc
<1> QED
  BY <1>1 DEF Claims

LEMMA CloseClaims ==
    ASSUME TypeOK, Placed, SessionsInv, ClaimsInv, NEW t \in Threads, NEW i \in Ids,
           pc[t] = "idle", sessions[i] # None, Close(t, i)
    PROVE  ClaimsInv'
<1>n. None \notin Sessions
  BY BrowserAssumption
<1>s. PICK o \in Sessions : o = sessions[i]
  BY DEF TypeOK
<1> DEFINE nothing == object[o].context \in {"none", "launching"}
<1>0. object[o] \in Session
  BY DEF TypeOK
<1>1. /\ object'[o].place = object[o].place
      /\ \A q \in Sessions : q # o => object'[q] = object[q]
  BY <1>s, <1>0 DEF Close, TypeOK, Session
<1>2. crossed' = crossed \cup (IF Creating(o) \/ Closing(o) THEN {o} ELSE {})
  BY <1>s DEF Close
<1>3. nothing => session' = session /\ pc'[t] = "idle" /\ sessions' = [sessions EXCEPT ![i] = None]
                 /\ Unlocks(o)
  BY <1>s, UnlockFacts DEF Close, Goto, TypeOK
<1>4. ~nothing => session'[t] = o /\ sessions' = sessions /\ profileLocks' = profileLocks
  BY <1>s DEF Close, Goto, TypeOK
<1>5. \A u \in Threads : u # t => pc'[u] = pc[u] /\ session'[u] = session[u]
  BY DEF Close, Goto, TypeOK
<1>6. \A j \in Ids : sessions'[j] \in {sessions[j], None}
  BY <1>3, <1>4 DEF TypeOK
<1>7. InTable(o) /\ \A q \in Sessions : InTable(q)' => InTable(q)
  BY <1>s, <1>n, <1>6 DEF InTable
<1>8. pc'[t] # "quit"
  BY DEF Close, Goto, TypeOK
<1> HIDE DEF nothing
\* A close that finds nothing to close, or somebody at it, spoils the profile.
<1>9. object[o].place \in Profiles /\ o \notin crossed' => ~nothing /\ Claims(o)
  <2> SUFFICES ASSUME object[o].place \in Profiles, o \notin crossed'
               PROVE  ~nothing /\ Claims(o)
    OBVIOUS
  <2>1. Alone(o) /\ ~Creating(o) /\ ~Closing(o)
    BY <1>2 DEF SessionsInv
  <2>2. \A u \in Threads : ~Handles(u, o)
    BY <2>1 DEF Handles, Creating, Closing
  <2>3. object[o].context \in {"open", "gone"}
    BY <2>1, <2>2, <1>7 DEF Alone
  <2>4. ~\E u \in Threads : session[u] = o /\ pc[u] = "quit"
    BY <2>2 DEF Handles, ClosePc
  <2> QED
    BY <2>3, <2>4, <1>7 DEF Claims, nothing
<1>10. ASSUME NEW q \in Sessions, q # o, Claims(q)' PROVE Claims(q)
  <2>1. \A u \in Threads, where \in {"quit", "closing", "closing again"} :
           u # t => ((session'[u] = q /\ pc'[u] = where) <=> (session[u] = q /\ pc[u] = where))
    BY <1>5
  <2>2. ~(session'[t] = q /\ pc'[t] \in {"closing", "closing again"})
    BY <1>3, <1>4, <1>10
  <2>3. \A u \in Threads : session[u] = q /\ pc[u] = "quit" => session'[u] = q /\ pc'[u] = "quit"
    BY <2>1
  <2>4. \A u \in Threads : session'[u] = q /\ pc'[u] \in {"closing", "closing again"}
                            => session[u] = q /\ pc[u] \in {"closing", "closing again"}
    BY <2>1, <2>2
  <2> QED
    BY <2>3, <2>4, <1>1, <1>7, <1>10 DEF Claims
<1>11. \A x \in crossed : x \in crossed' /\ object'[x].place = object[x].place
  BY <1>1, <1>2 DEF TypeOK
<1>12. ASSUME NEW p \in Profiles, NEW q \in Sessions, object'[q].place = p, ~Spoiled(p)', Claims(q)'
       PROVE  /\ Claims(q) /\ object[q].place = p
              /\ p \in profileLocks => p \in profileLocks'
  <2>1. object[q].place = p
    BY <1>1, <1>12
  <2>2. object[o].place = p => o \notin crossed'
    BY <1>1, <1>12 DEF Spoiled
  <2>3. Claims(q)
    BY <2>1, <2>2, <1>9, <1>10, <1>12
  <2>4. p \in profileLocks => p \in profileLocks'
    BY <2>2, <1>3, <1>4, <1>9, <1>12 DEF Unlocks, Spoiled
  <2> QED
    BY <2>1, <2>3, <2>4
<1>13. freed \subseteq freed'
  BY DEF Close, Unlock
<1> QED
  BY <1>11, <1>12, <1>13, ClaimsKept

LEMMA ClaimsStep ==
    ASSUME TypeOK, Placed, SessionsInv, ClaimsInv, [Next]_vars
    PROVE  ClaimsInv'
<1> USE DEF tables, pastVars
<1>j. Jobs \subseteq Threads /\ Sweeper \in Threads
  BY DEF Threads
<1>n. None \notin Sessions
  BY BrowserAssumption
<1>d. freed \subseteq freed'
  BY FreedGrows
<1>a. \A o \in Sessions : object[o].place \in Profiles /\ o \notin crossed => Alone(o)
  BY DEF SessionsInv
\* createSession failed before its browser was launched, or with its page open.
<1>0. ASSUME NEW t \in Threads, NEW o \in Sessions, session[t] = o, pc[t] \in CreatePc,
             NEW context \in Context, Fail(t, context), crossed' = crossed, profileLocks' = profileLocks,
             context \in {"none", object[o].context}
      PROVE  ClaimsInv'
  <2>1. Own(t, o) /\ ~InTable(o)' /\ session'[t] = None /\ object'[o].context = context
    BY <1>0, FailOwn
  <2>2. Claims(o)' => Claims(o)
    <3>1. \A u \in Threads : session'[u] = o => session[u] = o /\ pc'[u] = pc[u]
      BY <2>1, <1>n DEF Own
    <3> QED
      BY <1>0, <2>1, <3>1 DEF Claims
  <2> QED
    BY <1>0, <2>1, <2>2, <1>n, <1>d, OwnClaims
<1>1. ASSUME NEW t \in Jobs, NEW i \in Ids, NEW mode \in Mode, NEW profile \in Profiles \cup {None},
             Create(t, i, mode, profile)
      PROVE  ClaimsInv'
  <2>1. PICK o \in Sessions :
          /\ object[o] = Unused
          /\ object' = [object EXCEPT ![o] = [Unused EXCEPT
                           !.state = "creating", !.id = i,
                           !.place = PlaceOf(mode, profile), !.profile = profile]]
          /\ sessions' = [sessions EXCEPT ![i] = o] /\ session' = [session EXCEPT ![t] = o]
    BY <1>1 DEF Create
  <2>2. /\ pc[t] = "idle" /\ pc'[t] = "core" /\ session'[t] = o
        /\ \A u \in Threads : u # t => pc'[u] = pc[u] /\ session'[u] = session[u]
        /\ \A j \in Ids : j # i => sessions'[j] = sessions[j]
        /\ sessions'[i] = o /\ crossed' = crossed /\ profileLocks' = profileLocks
    BY <1>1, <1>j, <2>1 DEF Create, Goto, TypeOK
  <2>3. object'[o].context = "none" /\ \A q \in Sessions : q # o => object'[q] = object[q]
    BY <2>1 DEF TypeOK, Unused
  <2>4. o \notin crossed /\ \A u \in Threads : session[u] # o
    BY <2>1 DEF SessionsInv, Fresh, Unused
  <2>5. ~Claims(o)'
    BY <2>2, <2>3, <2>4 DEF Claims
  <2>6. ASSUME NEW q \in Sessions, q # o, Claims(q)' PROVE Claims(q)
    <3>1. InTable(q)' => InTable(q)
      BY <2>2, <2>6 DEF InTable
    <3>2. \A u \in Threads, where2 \in {"quit", "closing", "closing again"} :
             session[u] = q /\ pc[u] = where2 => u # t
      BY <2>2
    <3>3. \A u \in Threads : session'[u] = q => u # t
      BY <2>2, <2>6
    <3> QED
      BY <2>2, <2>3, <2>6, <3>1, <3>2, <3>3 DEF Claims
  <2>7. \A x \in crossed : x \in crossed' /\ object'[x].place = object[x].place
    BY <2>2, <2>3, <2>4 DEF TypeOK
  <2>8. \A q \in Sessions : Claims(q)' => Claims(q) /\ object'[q].place = object[q].place
    BY <2>3, <2>5, <2>6
  <2> QED
    BY <2>2, <2>7, <2>8, <1>d, ClaimsKept
<1>2. ASSUME NEW t \in Jobs, LaunchProfile(t) PROVE ClaimsInv'
  <2>1. t \in Threads /\ pc[t] = "core" /\ crossed' = crossed
    BY <1>2, <1>j DEF LaunchProfile
  <2>2. PICK o \in Sessions :
          session[t] = o /\ Of(t) = object[o] /\ object[o] \in Session /\ object[o].state # "new"
    BY <2>1, OwnFacts
  <2>3. CASE Fail(t, "none") /\ UNCHANGED profileLocks
    BY <2>1, <2>2, <2>3, <1>0 DEF CreatePc, Context
  <2>4. CASE ~(Fail(t, "none") /\ UNCHANGED profileLocks)
    <3>1. /\ object' = [object EXCEPT ![o].context = "launching"] /\ Goto(t, "context")
          /\ sessions' = sessions /\ session' = session
          /\ object[o].place \notin profileLocks
          /\ profileLocks' = profileLocks \cup {object[o].place}
      BY <1>2, <2>2, <2>4 DEF LaunchProfile
    <3>2. /\ \A q \in Sessions : q # o => object'[q] = object[q]
          /\ object'[o].id = object[o].id /\ object'[o].place = object[o].place
          /\ object'[o].browser = object[o].browser /\ object'[o].state = object[o].state
      BY <3>1, <2>2 DEF TypeOK, Session
    <3>3. pc'[t] = "context" /\ \A u \in Threads : u # t => pc'[u] = pc[u]
      BY <3>1, <2>1 DEF Goto, TypeOK
    <3>4. Own(t, o)
      BY <3>1, <3>2, <3>3, <2>1, <2>2 DEF Own
    <3>5. \A q \in Sessions : object'[q].place = object[q].place
      BY <3>2
    <3> SUFFICES ASSUME NEW p \in Profiles, ~Spoiled(p)'
                 PROVE  /\ \A q \in Sessions : object'[q].place = p /\ Claims(q)' => p \in profileLocks'
                        /\ \A q, r \in Sessions : object'[q].place = p /\ object'[r].place = p
                                                   /\ Claims(q)' /\ Claims(r)' => q = r
      BY DEF ClaimsInv
    <3>6. ~Spoiled(p)
      BY <2>1, <3>5, <1>d DEF Spoiled, TypeOK
    <3>7. \A q \in Sessions : q # o /\ Claims(q)' => Claims(q)
      BY <3>4, <1>n, <2>1, OthersClaim
    <3>8. ASSUME NEW q \in Sessions, q # o, object'[q].place = p, Claims(q)'
          PROVE  p \in profileLocks /\ p # object[o].place
      BY <3>1, <3>5, <3>6, <3>7, <3>8 DEF ClaimsInv
    <3>9. \A q \in Sessions : object'[q].place = p /\ Claims(q)' => p \in profileLocks'
      BY <3>1, <3>5, <3>8
    <3>10. ASSUME NEW q \in Sessions, NEW r \in Sessions, object'[q].place = p, object'[r].place = p,
                  Claims(q)', Claims(r)'
           PROVE  q = r
      <4>1. q = o <=> r = o
        BY <3>5, <3>8, <3>10
      <4>2. q # o /\ r # o => q = r
        BY <3>5, <3>6, <3>7, <3>10 DEF ClaimsInv
      <4> QED
        BY <4>1, <4>2
    <3> QED
      BY <3>9, <3>10
  <2> QED
    BY <2>3, <2>4
<1>3. ASSUME NEW t \in Jobs, Attach(t) \/ UseManaged(t) \/ ChromiumUp(t) PROVE ClaimsInv'
  <2>1. t \in Threads /\ pc[t] \in {"core", "chromium"} /\ crossed' = crossed
        /\ object' = object /\ session' = session /\ sessions' = sessions
        /\ profileLocks' = profileLocks
    BY <1>3, <1>j DEF Attach, UseManaged, ChromiumUp
  <2>2. PICK o \in Sessions :
          session[t] = o /\ Of(t) = object[o] /\ object[o] \in Session /\ object[o].state # "new"
    BY <2>1, OwnFacts
  <2>3. pc'[t] \in CreatePc /\ \A u \in Threads : u # t => pc'[u] = pc[u]
    BY <1>3, <1>j DEF Attach, UseManaged, ChromiumUp, Goto, TypeOK, CreatePc
  <2>4. Own(t, o)
    BY <2>1, <2>2, <2>3 DEF Own
  <2>5. ~(object[o].place \in Profiles /\ o \notin crossed)
    <3>1. pc[t] = "core" => object[o].place \notin Profiles
      BY <1>3, <2>2, BrowserAssumption DEF Attach, UseManaged, ChromiumUp
    <3>2. Alone(o) => pc[t] # "chromium"
      BY <2>1, <2>2 DEF Alone, Handles, ContextAt, CreatePc
    <3> QED
      BY <3>1, <3>2, <2>1, <1>a
  <2> QED
    BY <2>1, <2>4, <2>5, <1>n, <1>d, OwnClaims
<1>4. ASSUME NEW t \in Jobs, Got(t) PROVE ClaimsInv'
  <2>1. t \in Threads /\ pc[t] = "got" /\ crossed' = crossed
        /\ session' = session /\ sessions' = sessions /\ profileLocks' = profileLocks
    BY <1>4, <1>j DEF Got
  <2>2. PICK o \in Sessions :
          session[t] = o /\ Of(t) = object[o] /\ object[o] \in Session /\ object[o].state # "new"
    BY <2>1, OwnFacts
  <2>3. \A u \in Threads : u # t => pc'[u] = pc[u]
    BY <1>4, <1>j DEF Got, Goto, TypeOK
  <2>4. ~(object[o].place \in Profiles /\ o \notin crossed)
    <3>1. ~Alone(o)
      BY <2>1, <2>2 DEF Alone, Handles, ContextAt, CreatePc
    <3> QED
      BY <3>1, <1>a
  <2>5. /\ \A q \in Sessions : q # o => object'[q] = object[q]
        /\ object'[o].id = object[o].id /\ object'[o].place = object[o].place
        /\ object'[o].state = object[o].state
    BY <1>4, <2>2 DEF Got, TypeOK, Session
  <2>6. Own(t, o)
    BY <2>1, <2>2, <2>3, <2>4, <2>5 DEF Own
  <2> QED
    BY <2>1, <2>4, <2>6, <1>n, <1>d, OwnClaims
<1>5. ASSUME NEW t \in Jobs, ContextOpens(t) PROVE ClaimsInv'
  <2>1. t \in Threads /\ pc[t] = "context" /\ crossed' = crossed
        /\ session' = session /\ sessions' = sessions /\ profileLocks' = profileLocks
    BY <1>5, <1>j DEF ContextOpens
  <2>2. PICK o \in Sessions :
          session[t] = o /\ Of(t) = object[o] /\ object[o] \in Session /\ object[o].state # "new"
    BY <2>1, OwnFacts
  <2>3. pc'[t] = "page" /\ \A u \in Threads : u # t => pc'[u] = pc[u]
    BY <1>5, <1>j DEF ContextOpens, Goto, TypeOK
  <2>4. /\ \A q \in Sessions : q # o => object'[q] = object[q]
        /\ object'[o].id = object[o].id /\ object'[o].place = object[o].place
        /\ object'[o].browser = object[o].browser /\ object'[o].state = object[o].state
    BY <1>5, <2>2 DEF ContextOpens, TypeOK, Session
  <2>5. Own(t, o)
    BY <2>1, <2>2, <2>3, <2>4 DEF Own
  <2>6. Alone(o) => Claims(o)
    BY <2>1, <2>2 DEF Alone, Handles, ContextAt, CreatePc, Claims
  <2> QED
    BY <2>1, <2>5, <2>6, <1>n, <1>a, <1>d, OwnClaims
<1>6. ASSUME NEW t \in Jobs, LaunchFails(t) PROVE ClaimsInv'
  <2>1. t \in Threads /\ pc[t] \in CreatePc /\ crossed' = crossed /\ Fail(t, "none")
        /\ profileLocks' = (IF pc[t] = "context" THEN profileLocks \ {Of(t).place} ELSE profileLocks)
    BY <1>6, <1>j DEF LaunchFails, CreatePc
  <2>2. PICK o \in Sessions :
          session[t] = o /\ Of(t) = object[o] /\ object[o] \in Session /\ object[o].state # "new"
    BY <2>1, OwnFacts DEF CreatePc
  <2>3. "none" \in Context
    BY DEF Context
  <2>4. CASE pc[t] # "context"
    BY <2>1, <2>2, <2>3, <2>4, <1>0
  <2>5. CASE pc[t] = "context"
    <3>1. Own(t, o) /\ ~InTable(o)' /\ pc'[t] = "idle" /\ object'[o].context = "none"
      BY <2>1, <2>2, <2>3, FailOwn
    <3>2. Handles(t, o)
      BY <2>1, <2>2 DEF Handles
    <3>3. Alone(o) => Claims(o) /\ ~Claims(o)'
      <4>1. Alone(o) => Claims(o)
        BY <2>1, <2>5, <3>2 DEF Alone, ContextAt, Claims
      <4>2. Alone(o) => ~Claims(o)'
        BY <2>1, <3>1, <3>2, ClaimsNoMore
      <4> QED
        BY <4>1, <4>2
    <3>4. Unlocks(o)
      BY <2>1, <2>2, <2>5 DEF Unlocks
    <3> QED
      BY <2>1, <2>2, <3>1, <3>3, <3>4, <1>n, <1>a, <1>d, OwnFrees
  <2> QED
    BY <2>4, <2>5
<1>7. ASSUME NEW t \in Jobs, FirstPageFails(t) PROVE ClaimsInv'
  <2>1. t \in Threads /\ pc[t] = "page" /\ crossed' = crossed /\ Fail(t, Of(t).context)
        /\ profileLocks' = profileLocks
    BY <1>7, <1>j DEF FirstPageFails
  <2>2. PICK o \in Sessions :
          session[t] = o /\ Of(t) = object[o] /\ object[o] \in Session /\ object[o].state # "new"
    BY <2>1, OwnFacts
  <2>3. Of(t).context \in Context
    BY <2>2, SessionFields
  <2> QED
    BY <2>1, <2>2, <2>3, <1>0 DEF CreatePc
<1>8. ASSUME NEW t \in Jobs, FirstPage(t) PROVE ClaimsInv'
  <2>1. t \in Threads /\ pc[t] = "page" /\ crossed' = crossed
        /\ sessions' = sessions /\ profileLocks' = profileLocks
        /\ (Return(t) \/ (Goto(t, "queued") /\ session' = session))
    BY <1>8, <1>j DEF FirstPage
  <2>2. PICK o \in Sessions :
          session[t] = o /\ Of(t) = object[o] /\ object[o] \in Session /\ object[o].state # "new"
    BY <2>1, OwnFacts
  <2>3. /\ \A q \in Sessions : q # o => object'[q] = object[q]
        /\ object'[o].id = object[o].id /\ object'[o].place = object[o].place
        /\ object'[o].browser = object[o].browser /\ object'[o].state = "ready"
    BY <1>8, <2>2 DEF FirstPage, TypeOK, Session
  <2>4. Own(t, o)
    BY <2>1, <2>2, <2>3, ReturnType, GotoType DEF Own, Pc
  <2>5. Claims(o)
    BY <1>8, <2>2 DEF FirstPage, Claims
  <2> QED
    BY <2>1, <2>4, <2>5, <1>n, <1>d, OwnClaims
<1>9. ASSUME NEW t \in Threads, ContextClosed(t) PROVE ClaimsInv'
  <2>1. pc[t] \in {"closing", "closing again"} /\ crossed' = crossed
        /\ session' = session /\ sessions' = sessions
    BY <1>9 DEF ContextClosed
  <2>2. PICK o \in Sessions :
          session[t] = o /\ Of(t) = object[o] /\ object[o] \in Session /\ object[o].state # "new"
    BY <2>1, OwnFacts
  <2>3. pc'[t] = "quit" /\ \A u \in Threads : u # t => pc'[u] = pc[u]
    BY <1>9 DEF ContextClosed, Goto, TypeOK
  <2>4. /\ \A q \in Sessions : q # o => object'[q] = object[q]
        /\ object'[o].id = object[o].id /\ object'[o].place = object[o].place
        /\ object'[o].browser = object[o].browser /\ object'[o].state = object[o].state
        /\ object'[o].context = IF pc[t] = "closing" /\ object[o].context = "closing" THEN "closed"
                                ELSE object[o].context
    BY <1>9, <2>2 DEF ContextClosed, TypeOK, Session
  <2>u. Unlocks(o)
    BY <1>9, <2>2, UnlockFacts DEF ContextClosed
  <2>5. Own(t, o)
    BY <2>1, <2>2, <2>3, <2>4 DEF Own
  <2>6. Handles(t, o)
    BY <2>1, <2>2 DEF Handles, ClosePc
  <2>7. Alone(o) => object'[o].context \in {"closed", "gone"}
    BY <2>1, <2>4, <2>6 DEF Alone, ContextAt
  <2>8. Alone(o) => Claims(o) /\ ~Claims(o)'
    <3>1. Claims(o)
      BY <2>1, <2>2 DEF Claims
    <3>2. Alone(o) => ~Claims(o)'
      BY <2>1, <2>2, <2>3, <2>5, <2>6, <2>7, ClaimsNoMore
    <3> QED
      BY <3>1, <3>2
  <2> QED
    BY <2>u, <2>5, <2>8, <1>n, <1>a, <1>d, OwnFrees
<1>10. ASSUME NEW t \in Threads, Closed(t) PROVE ClaimsInv'
  <2>1. pc[t] = "quit" /\ crossed' = crossed /\ Return(t) /\ profileLocks' = profileLocks
    BY <1>10 DEF Closed
  <2>2. PICK o \in Sessions :
          session[t] = o /\ Of(t) = object[o] /\ object[o] \in Session /\ object[o].state # "new"
    BY <2>1, OwnFacts
  <2>3. sessions' = [sessions EXCEPT ![object[o].id] = None]
    BY <1>10, <2>2 DEF Closed
  <2>4. /\ \A q \in Sessions : q # o => object'[q] = object[q]
        /\ object'[o].id = object[o].id /\ object'[o].place = object[o].place
        /\ object'[o].browser = object[o].browser /\ object'[o].state = "closed"
        /\ object'[o].context = object[o].context
    BY <1>10, <2>2 DEF Closed, TypeOK, Session
  <2>5. Own(t, o) /\ ~InTable(o)' /\ pc'[t] = "idle"
    BY <2>1, <2>2, <2>3, <2>4, LeavesTable, ReturnType DEF Own
  <2>6. Handles(t, o)
    BY <2>1, <2>2 DEF Handles, ClosePc
  <2>7. Alone(o) => object'[o].context \in {"closed", "gone"}
    BY <2>1, <2>4, <2>6 DEF Alone, ContextAt
  <2>8. Alone(o) => ~Claims(o)'
    BY <2>5, <2>6, <2>7, ClaimsNoMore
  <2> QED
    BY <2>1, <2>5, <2>8, <1>n, <1>a, <1>d, OwnClaims
<1>11. ASSUME NEW t \in Jobs, NEW i \in Ids, CloseJob(t, i) PROVE ClaimsInv'
  BY <1>11, <1>j, CloseClaims DEF CloseJob
<1>12. ASSUME NEW i \in Ids, SweepCloses(i) PROVE ClaimsInv'
  BY <1>12, <1>j, CloseClaims DEF SweepCloses
<1>13. ASSUME NEW t \in Jobs, NEW i \in Ids, Ask(t, i) PROVE ClaimsInv'
  <2>1. /\ pc[t] = "idle" /\ pc'[t] = "queued"
        /\ \A u \in Threads : u # t => pc'[u] = pc[u] /\ session'[u] = session[u]
        /\ sessions' = sessions /\ object' = object /\ crossed' = crossed
        /\ profileLocks' = profileLocks
    BY <1>13, <1>j DEF Ask, Goto, TypeOK
  <2>2. \A q \in Sessions : Claims(q)' => Claims(q)
    BY <2>1 DEF Claims, InTable
  <2> QED
    BY <2>1, <2>2, <1>d, ClaimsKept
<1>14. ASSUME NEW t \in Jobs, Operate(t) \/ OperationEnds(t) PROVE ClaimsInv'
  <2>1. t \in Threads /\ pc[t] \in {"queued", "operating"} /\ crossed' = crossed
        /\ sessions' = sessions /\ profileLocks' = profileLocks
    BY <1>14, <1>j DEF Operate, OperationEnds
  <2>2. PICK o \in Sessions :
          session[t] = o /\ Of(t) = object[o] /\ object[o] \in Session /\ object[o].state # "new"
    BY <2>1, OwnFacts
  <2>3. /\ \A q \in Sessions : q # o => object'[q] = object[q]
        /\ object'[o].id = object[o].id /\ object'[o].place = object[o].place
        /\ object'[o].browser = object[o].browser /\ object'[o].state \in {"busy", "ready"}
        /\ object'[o].context = object[o].context
    BY <1>14, <2>2 DEF Operate, OperationEnds, TypeOK, Session
  <2>4. /\ pc'[t] \in {"idle", "operating"} /\ session'[t] \in {o, None}
        /\ pc'[t] # "idle" => session'[t] = o
        /\ \A u \in Threads : u # t => pc'[u] = pc[u] /\ session'[u] = session[u]
    BY <1>14, <1>j, <2>2, ReturnType DEF Operate, OperationEnds, Goto, TypeOK
  <2>5. Own(t, o)
    BY <2>1, <2>2, <2>3, <2>4 DEF Own
  <2>6. Claims(o)' => Claims(o)
    BY <2>1, <2>3, <2>4 DEF Claims, InTable
  <2> QED
    BY <2>1, <2>5, <2>6, <1>n, <1>d, OwnClaims
<1>15. ASSUME UNCHANGED <<sessions, object, pc, session, crossed, profileLocks>> PROVE ClaimsInv'
  <2>1. \A q \in Sessions : Claims(q)' => Claims(q)
    BY <1>15 DEF Claims, InTable
  <2> QED
    BY <1>15, <2>1, <1>d, ClaimsKept
<1>16. ASSUME NEW b \in Browsers, Disconnected(b) PROVE ClaimsInv'
  <2>1. UNCHANGED <<sessions, pc, session, crossed, profileLocks>>
    BY <1>16 DEF Disconnected
  <2>2. ASSUME NEW o \in Sessions
        PROVE  /\ object'[o].place = object[o].place
               /\ object[o].browser # b => object'[o].context = object[o].context
    <3>1. PICK x \in {"lost", object[o].state}, y \in {"gone", object[o].context} :
             /\ object'[o] = [object[o] EXCEPT !.state = x, !.context = y]
             /\ object[o].browser # b => y = object[o].context
      BY <1>16 DEF Disconnected
    <3>2. object[o] \in Session
      BY DEF TypeOK
    <3> QED
      BY <3>1, <3>2 DEF Session
  <2>3. ASSUME NEW p \in Profiles, NEW o \in Sessions, object'[o].place = p, ~Spoiled(p)', Claims(o)'
        PROVE  Claims(o)
    <3>1. object[o].place = p /\ o \notin crossed
      BY <2>1, <2>2, <2>3 DEF Spoiled
    <3>2. object[o].browser # b
      BY <3>1, <1>a, BrowserAssumption DEF Alone
    <3> QED
      BY <3>2, <2>1, <2>2, <2>3 DEF Claims, InTable
  <2> QED
    BY <2>1, <2>2, <2>3, <1>d, ClaimsKept DEF TypeOK
<1>17. ASSUME NEW x \in Sessions, OwnDisconnected(x) PROVE ClaimsInv'
  <2>1. UNCHANGED <<sessions, pc, session, crossed, profileLocks>>
    BY <1>17 DEF OwnDisconnected
  <2>2. \A o \in Sessions : /\ object'[o].place = object[o].place
                            /\ o # x => object'[o].context = object[o].context
    BY <1>17 DEF OwnDisconnected, TypeOK, Session
  <2>3. object'[x].context = "gone" /\ object[x].context \in {"open", "closing", "closed"}
    BY <1>17 DEF OwnDisconnected, TypeOK, Session
  <2>4. Alone(x) /\ Claims(x)' => Claims(x)
    <3> SUFFICES ASSUME Alone(x), Claims(x)', object[x].context = "closed"
                 PROVE  Claims(x)
      BY <2>3 DEF Claims
    \* Between the close of its context and the end of closeSession.
    <3>1. InTable(x) => \E t \in Threads : session[t] = x /\ pc[t] = "quit"
      BY DEF Alone, Handles, ContextAt, CreatePc, ClosePc
    <3> QED
      BY <3>1, <2>1, <2>3 DEF Claims, InTable
  <2>5. ASSUME NEW p \in Profiles, NEW o \in Sessions, object'[o].place = p, ~Spoiled(p)', Claims(o)'
        PROVE  Claims(o)
    <3>1. Alone(o)
      BY <2>1, <2>2, <2>5, <1>a DEF Spoiled
    <3>2. o # x => Claims(o)
      BY <2>1, <2>2, <2>5 DEF Claims, InTable
    <3> QED
      BY <3>1, <3>2, <2>4, <2>5
  <2> QED
    BY <2>1, <2>2, <2>5, <1>d, ClaimsKept DEF TypeOK
<1>18. CASE SweepEnds
  BY <1>18, <1>15 DEF SweepEnds
<1>19. CASE UNCHANGED vars
  BY <1>19, <1>15 DEF vars
<1>20. ASSUME NEW t \in Jobs, NEW i \in Ids, CreateRefused(t, i) PROVE ClaimsInv'
  <2>1. UNCHANGED <<object, pc, session, crossed, profileLocks>>
        /\ \A j \in Ids : sessions'[j] \in {sessions[j], None}
    BY <1>20 DEF CreateRefused, TypeOK
  <2>2. \A q \in Sessions : InTable(q)' => InTable(q)
    BY <2>1, <1>n DEF InTable
  <2>3. \A q \in Sessions : Claims(q)' => Claims(q)
    BY <2>1, <2>2 DEF Claims
  <2> QED
    BY <2>1, <2>3, <1>d, ClaimsKept
<1> QED
  BY <1>1, <1>2, <1>3, <1>4, <1>5, <1>6, <1>7, <1>8, <1>9, <1>10, <1>11, <1>12, <1>13, <1>14,
     <1>16, <1>17, <1>18, <1>19, <1>20 DEF Next, Job

(***************************************************************************)
(* What each step does, in terms of the session it works on.               *)
(***************************************************************************)

\* Other sessions and threads, and what a session is created with.
Elsewhere(t, o) ==
    /\ \A q \in Sessions : q # o => object'[q] = object[q]
    /\ \A u \in Threads : u # t => pc'[u] = pc[u] /\ session'[u] = session[u]

Stays(o) == object'[o].id = object[o].id /\ object'[o].place = object[o].place

TakenOut(o) == sessions' = [sessions EXCEPT ![object[o].id] = None]

Begins(t, i, o) ==
    /\ Elsewhere(t, o) /\ pc[t] = "idle" /\ pc'[t] = "core" /\ session'[t] = o
    /\ object[o].state = "new" /\ object[o].place = "shared"
    /\ object'[o].state = "creating" /\ object'[o].id = i
    /\ object'[o].browser = None /\ object'[o].context = "none"
    /\ sessions' = [sessions EXCEPT ![i] = o]
    /\ displaced' = displaced \cup (IF sessions[i] # None THEN {i} ELSE {})
    /\ UNCHANGED <<profileLocks, process, crossed, stranded>>

CreationFails(t, o) ==
    /\ Elsewhere(t, o) /\ session[t] = o /\ pc[t] \in CreatePc \ {"got"} /\ pc'[t] = "idle"
    /\ Stays(o) /\ object'[o].browser = object[o].browser /\ object'[o].state # "closed"
    /\ TakenOut(o)
    /\ IF pc[t] = "page"
       THEN stranded' = stranded \cup {o} /\ object'[o].context = object[o].context
       ELSE stranded' = stranded /\ object'[o].context = "none"
    /\ profileLocks' = IF pc[t] = "context" THEN profileLocks \ {object[o].place} ELSE profileLocks
    /\ UNCHANGED <<process, crossed, displaced>>

\* From one await of createSession to the next.
Proceeds(t, o) ==
    \/ /\ pc[t] = "core" /\ pc'[t] = "context" /\ object[o].place \in Profiles
       /\ object'[o].context = "launching"
       /\ profileLocks' = profileLocks \cup {object[o].place}
    \/ /\ pc[t] = "core" /\ pc'[t] = "context" /\ object[o].place = "attached"
       /\ object'[o].context = object[o].context /\ profileLocks' = profileLocks
    \/ /\ pc[t] = "core" /\ pc'[t] \in {"chromium", "got"} /\ object[o].place = "shared"
       /\ object'[o].context = object[o].context /\ profileLocks' = profileLocks
    \/ /\ pc[t] = "chromium" /\ pc'[t] = "got"
       /\ object'[o].context = object[o].context /\ profileLocks' = profileLocks
    \/ /\ pc[t] = "got" /\ pc'[t] = "context"
       /\ object'[o].context = object[o].context /\ profileLocks' = profileLocks
    \/ /\ pc[t] = "context" /\ pc'[t] = "page" /\ profileLocks' = profileLocks
       /\ object[o].place = "shared" => process[object[o].browser] = "up"
       /\ object'[o].context = "open"
    \/ /\ pc[t] = "page" /\ pc'[t] \in {"idle", "queued"} /\ profileLocks' = profileLocks
       /\ object[o].context = "open" /\ object'[o].context = "open"

GoesOn(t, o) ==
    /\ Elsewhere(t, o) /\ session[t] = o /\ Proceeds(t, o) /\ Stays(o)
    /\ pc'[t] # "idle" => session'[t] = o
    /\ object'[o].browser = object[o].browser \/ pc[t] = "got"
    /\ object'[o].state \in {object[o].state, "ready"}
    /\ \A b \in Browsers : process'[b] = process[b] \/ process'[b] = "up"
    /\ UNCHANGED <<sessions, crossed, stranded, displaced>>

\* An operation: nothing but the state of the session.
Uses(t, o) ==
    /\ Elsewhere(t, o) /\ pc[t] \notin CreatePc \cup ClosePc /\ pc'[t] \notin CreatePc \cup ClosePc
    /\ Stays(o) /\ object'[o].browser = object[o].browser
    /\ object'[o].context = object[o].context
    /\ object'[o].state \in {object[o].state, "ready", "busy"}
    /\ UNCHANGED <<tables, pastVars>>

Closes(t, i, o) ==
    /\ Elsewhere(t, o) /\ pc[t] = "idle" /\ sessions[i] = o
    /\ Stays(o) /\ object'[o].browser = object[o].browser
    /\ crossed' = crossed \cup (IF Creating(o) \/ Closing(o) THEN {o} ELSE {})
    /\ IF object[o].context \in {"none", "launching"}
       THEN /\ object'[o].context = object[o].context
            /\ pc'[t] = "idle" /\ session'[t] = session[t]
            /\ Unlocks(o)
            /\ sessions' = [sessions EXCEPT ![i] = None]
       ELSE /\ object'[o].context =
                  IF object[o].context = "open" THEN "closing" ELSE object[o].context
            /\ object'[o].state = "closing"
            /\ pc'[t] = IF object[o].context = "open" THEN "closing" ELSE "closing again"
            /\ session'[t] = o
            /\ UNCHANGED <<profileLocks, sessions>>
    /\ UNCHANGED <<process, stranded, displaced>>

HasClosed(t, o) ==
    /\ Elsewhere(t, o) /\ session[t] = o /\ pc[t] \in {"closing", "closing again"}
    /\ pc'[t] = "quit" /\ session'[t] = o
    /\ Stays(o) /\ object'[o].browser = object[o].browser /\ object'[o].state = object[o].state
    /\ object'[o].context = IF pc[t] = "closing" /\ object[o].context = "closing"
                            THEN "closed" ELSE object[o].context
    /\ Unlocks(o)
    /\ UNCHANGED <<sessions, process, crossed, stranded, displaced>>

Quits(t, o) ==
    /\ Elsewhere(t, o) /\ session[t] = o /\ pc[t] = "quit" /\ pc'[t] = "idle"
    /\ Stays(o) /\ object'[o].browser = object[o].browser
    /\ object'[o].context = object[o].context
    /\ TakenOut(o)
    /\ UNCHANGED <<profileLocks, process, crossed, stranded, displaced>>

\* A create that found a lost session and was refused after it.
Refused(i) ==
    /\ sessions[i] # None /\ sessions' = [sessions EXCEPT ![i] = None]
    /\ displaced' = displaced \cup {i}
    /\ UNCHANGED <<profileLocks, process, object, pc, session, crossed, stranded>>

Crashes ==
    /\ \A o \in Sessions :
          /\ Stays(o) /\ object'[o].browser = object[o].browser
          /\ object'[o].state \in {object[o].state, "lost"}
          /\ \/ object'[o].context = object[o].context
             \/ /\ object'[o].context = "gone" /\ object[o].context # "none"
                /\ \/ object[o].browser # None
                   \/ object[o].context \in {"open", "closing", "closed"}
    /\ \A b \in Browsers : process'[b] \in {process[b], "gone"}
    /\ UNCHANGED <<sessions, profileLocks, pc, session, crossed, stranded, displaced>>

Swept ==
    /\ \A b \in Browsers : process'[b] = process[b] \/ (b = managedBrowser /\ ~InUse(b))
    /\ UNCHANGED <<sessions, profileLocks, object, pc, session, crossed, stranded, displaced>>

Effect ==
    \/ \E t \in Threads, o \in Sessions :
          \/ CreationFails(t, o) \/ GoesOn(t, o) \/ Uses(t, o) \/ HasClosed(t, o) \/ Quits(t, o)
          \/ \E i \in Ids : Begins(t, i, o) \/ Closes(t, i, o)
    \/ Crashes \/ Swept
    \/ \E i \in Ids : Refused(i)

LEMMA FailEffect ==
    ASSUME TypeOK, NEW t \in Threads, NEW o \in Sessions, session[t] = o,
           pc[t] \in CreatePc \ {"got"},
           Fail(t, IF pc[t] = "page" THEN object[o].context ELSE "none"),
           stranded' = IF pc[t] = "page" THEN stranded \cup {o} ELSE stranded,
           profileLocks' = IF pc[t] = "context" THEN profileLocks \ {object[o].place}
                                                ELSE profileLocks,
           UNCHANGED <<process, crossed, displaced>>
    PROVE  CreationFails(t, o)
<1> DEFINE context == IF pc[t] = "page" THEN object[o].context ELSE "none"
<1>1. object' = [object EXCEPT ![o].state = "error", ![o].context = context]
  BY DEF Fail
<1> HIDE DEF context
<1>2. /\ object'[o].id = object[o].id /\ object'[o].place = object[o].place
      /\ object'[o].browser = object[o].browser /\ object'[o].state = "error"
      /\ object'[o].context = context
      /\ \A q \in Sessions : q # o => object'[q] = object[q]
  BY <1>1 DEF TypeOK, Session
<1>3. TakenOut(o) /\ Return(t)
  BY DEF Fail, Of, TakenOut
<1>4. pc'[t] = "idle" /\ \A u \in Threads : u # t => pc'[u] = pc[u] /\ session'[u] = session[u]
  BY <1>3, ReturnType
<1> QED
  BY <1>2, <1>3, <1>4 DEF CreationFails, Elsewhere, Stays, context

LEMMA CloseEffect ==
    ASSUME TypeOK, Placed, NEW t \in Threads, NEW i \in Ids, pc[t] = "idle", sessions[i] # None,
           Close(t, i)
    PROVE  Closes(t, i, sessions[i]) /\ sessions[i] \in Sessions
<1>1. PICK o \in Sessions : o = sessions[i]
  BY DEF TypeOK
<1>2. object[o] \in Session
  BY DEF TypeOK
<1>3. /\ object'[o].id = object[o].id /\ object'[o].place = object[o].place
      /\ object'[o].browser = object[o].browser
      /\ object[o].context \notin {"none", "launching"} => object'[o].state = "closing"
      /\ object'[o].context = IF object[o].context = "open" THEN "closing" ELSE object[o].context
      /\ \A q \in Sessions : q # o => object'[q] = object[q]
  BY <1>1, <1>2 DEF Close, TypeOK, Session
<1>4. /\ crossed' = crossed \cup (IF Creating(o) \/ Closing(o) THEN {o} ELSE {})
      /\ IF object[o].context \in {"none", "launching"}
         THEN /\ Unlocks(o)
              /\ sessions' = [sessions EXCEPT ![i] = None] /\ session' = session
              /\ pc' = [pc EXCEPT ![t] = "idle"]
         ELSE /\ session' = [session EXCEPT ![t] = o]
              /\ UNCHANGED <<profileLocks, sessions>>
              /\ pc' = [pc EXCEPT ![t] = IF object[o].context = "open" THEN "closing" ELSE "closing again"]
      /\ UNCHANGED <<process, stranded, displaced>>
  BY <1>1, UnlockFacts DEF Close, Goto
<1>5. /\ \A u \in Threads : u # t => pc'[u] = pc[u] /\ session'[u] = session[u]
      /\ IF object[o].context \in {"none", "launching"}
         THEN pc'[t] = "idle" /\ session'[t] = session[t]
         ELSE /\ pc'[t] = IF object[o].context = "open" THEN "closing" ELSE "closing again"
              /\ session'[t] = o
  BY <1>4 DEF TypeOK
<1> QED
  BY <1>1, <1>3, <1>4, <1>5 DEF Closes, Elsewhere, Stays

LEMMA StepEffect ==
    ASSUME TypeOK, Placed, SessionsInv, [Next]_vars
    PROVE  Effect
<1> USE DEF tables, pastVars
<1>j. Jobs \subseteq Threads /\ Sweeper \in Threads
  BY DEF Threads
<1>o. ASSUME NEW t \in Threads, pc[t] # "idle"
      PROVE  \E o \in Sessions : session[t] = o /\ Of(t) = object[o] /\ object[o] \in Session
  BY <1>o, OwnFacts
<1>1. ASSUME NEW t \in Jobs, NEW i \in Ids, NEW mode \in Mode, NEW profile \in Profiles \cup {None},
             Create(t, i, mode, profile)
      PROVE  Effect
  <2>1. PICK o \in Sessions :
          /\ object[o] = Unused
          /\ object' = [object EXCEPT ![o] = [Unused EXCEPT
                           !.state = "creating", !.id = i,
                           !.place = PlaceOf(mode, profile), !.profile = profile]]
          /\ sessions' = [sessions EXCEPT ![i] = o] /\ session' = [session EXCEPT ![t] = o]
    BY <1>1 DEF Create
  <2>2. /\ object[o].state = "new" /\ object[o].place = "shared"
        /\ object'[o].state = "creating" /\ object'[o].id = i
        /\ object'[o].browser = None /\ object'[o].context = "none"
        /\ \A q \in Sessions : q # o => object'[q] = object[q]
    BY <2>1 DEF TypeOK, Unused
  <2>3. /\ pc[t] = "idle" /\ pc'[t] = "core" /\ session'[t] = o
        /\ \A u \in Threads : u # t => pc'[u] = pc[u] /\ session'[u] = session[u]
    BY <1>1, <1>j, <2>1 DEF Create, Goto, TypeOK
  <2>4. /\ displaced' = displaced \cup (IF sessions[i] # None THEN {i} ELSE {})
        /\ UNCHANGED <<profileLocks, process, crossed, stranded>>
    BY <1>1 DEF Create
  <2>5. Begins(t, i, o)
    BY <2>1, <2>2, <2>3, <2>4 DEF Begins, Elsewhere
  <2> QED
    BY <2>5, <1>j DEF Effect
<1>f. ASSUME NEW t \in Threads, NEW o \in Sessions, CreationFails(t, o) PROVE Effect
  BY <1>f DEF Effect
<1>g. ASSUME NEW t \in Threads, NEW o \in Sessions, GoesOn(t, o) PROVE Effect
  BY <1>g DEF Effect
<1>2. ASSUME NEW t \in Jobs, LaunchProfile(t) PROVE Effect
  <2>1. t \in Threads /\ pc[t] = "core" /\ UNCHANGED <<managedBrowser, process, pastVars>>
    BY <1>2, <1>j DEF LaunchProfile
  <2>2. PICK o \in Sessions : session[t] = o /\ Of(t) = object[o] /\ object[o] \in Session
    BY <2>1, <1>o
  <2>3. CASE Fail(t, "none") /\ UNCHANGED profileLocks
    <3>1. CreationFails(t, o)
      BY <2>1, <2>2, <2>3, FailEffect DEF CreatePc
    <3> QED
      BY <3>1, <2>1, <1>f
  <2>4. CASE ~(Fail(t, "none") /\ UNCHANGED profileLocks)
    <3>1. /\ object' = [object EXCEPT ![o].context = "launching"] /\ Goto(t, "context")
          /\ sessions' = sessions /\ session' = session
          /\ object[o].place \in Profiles /\ profileLocks' = profileLocks \cup {object[o].place}
      BY <1>2, <2>2, <2>4 DEF LaunchProfile
    <3>2. /\ \A q \in Sessions : q # o => object'[q] = object[q]
          /\ object'[o].id = object[o].id /\ object'[o].place = object[o].place
          /\ object'[o].browser = object[o].browser /\ object'[o].state = object[o].state
          /\ object'[o].context = "launching"
      BY <3>1, <2>2 DEF TypeOK, Session
    <3>3. pc'[t] = "context" /\ \A u \in Threads : u # t => pc'[u] = pc[u]
      BY <3>1, <2>1 DEF Goto, TypeOK
    <3>4. GoesOn(t, o)
      BY <3>1, <3>2, <3>3, <2>1, <2>2 DEF GoesOn, Proceeds, Elsewhere, Stays
    <3> QED
      BY <3>4, <2>1, <1>g
  <2> QED
    BY <2>3, <2>4
<1>3. ASSUME NEW t \in Jobs, Attach(t) \/ UseManaged(t) \/ ChromiumUp(t) PROVE Effect
  <2>1. /\ t \in Threads /\ pc[t] # "idle" /\ UNCHANGED <<object, session, sessions, profileLocks, pastVars>>
        /\ \A b \in Browsers : process'[b] = process[b] \/ process'[b] = "up"
    BY <1>3, <1>j DEF Attach, UseManaged, ChromiumUp, TypeOK
  <2>2. PICK o \in Sessions : session[t] = o /\ Of(t) = object[o] /\ object[o] \in Session
    BY <2>1, <1>o
  <2>3. /\ \A u \in Threads : u # t => pc'[u] = pc[u]
        /\ \/ pc[t] = "core" /\ pc'[t] = "context" /\ object[o].place = "attached"
           \/ pc[t] = "core" /\ pc'[t] \in {"chromium", "got"} /\ object[o].place = "shared"
           \/ pc[t] = "chromium" /\ pc'[t] = "got"
    BY <1>3, <1>j, <2>2 DEF Attach, UseManaged, ChromiumUp, Goto, TypeOK
  <2>4. GoesOn(t, o)
    BY <2>1, <2>2, <2>3 DEF GoesOn, Proceeds, Elsewhere, Stays
  <2> QED
    BY <2>1, <2>4, <1>g
<1>4. ASSUME NEW t \in Jobs, Got(t) PROVE Effect
  <2>1. t \in Threads /\ pc[t] = "got" /\ UNCHANGED <<session, tables, pastVars>>
    BY <1>4, <1>j DEF Got
  <2>2. PICK o \in Sessions : session[t] = o /\ Of(t) = object[o] /\ object[o] \in Session
    BY <2>1, <1>o
  <2>3. pc'[t] = "context" /\ \A u \in Threads : u # t => pc'[u] = pc[u]
    BY <1>4, <1>j DEF Got, Goto, TypeOK
  <2>4. /\ \A q \in Sessions : q # o => object'[q] = object[q]
        /\ object'[o].id = object[o].id /\ object'[o].place = object[o].place
        /\ object'[o].state = object[o].state /\ object'[o].context = object[o].context
    BY <1>4, <2>2 DEF Got, TypeOK, Session
  <2>5. GoesOn(t, o)
    BY <2>1, <2>2, <2>3, <2>4 DEF GoesOn, Proceeds, Elsewhere, Stays
  <2> QED
    BY <2>1, <2>5, <1>g
<1>5. ASSUME NEW t \in Jobs, ContextOpens(t) PROVE Effect
  <2>1. t \in Threads /\ pc[t] = "context" /\ UNCHANGED <<session, tables, pastVars>>
    BY <1>5, <1>j DEF ContextOpens
  <2>2. PICK o \in Sessions : session[t] = o /\ Of(t) = object[o] /\ object[o] \in Session
    BY <2>1, <1>o
  <2>3. pc'[t] = "page" /\ \A u \in Threads : u # t => pc'[u] = pc[u]
    BY <1>5, <1>j DEF ContextOpens, Goto, TypeOK
  <2>4. /\ \A q \in Sessions : q # o => object'[q] = object[q]
        /\ object'[o].id = object[o].id /\ object'[o].place = object[o].place
        /\ object'[o].browser = object[o].browser /\ object'[o].state = object[o].state
        /\ object'[o].context = "open"
    BY <1>5, <2>2 DEF ContextOpens, TypeOK, Session
  <2>5. object[o].place = "shared" => process[object[o].browser] = "up"
    BY <1>5, <2>2 DEF ContextOpens
  <2>6. GoesOn(t, o)
    BY <2>1, <2>2, <2>3, <2>4, <2>5 DEF GoesOn, Proceeds, Elsewhere, Stays
  <2> QED
    BY <2>1, <2>6, <1>g
<1>6. ASSUME NEW t \in Jobs, LaunchFails(t) PROVE Effect
  <2>1. /\ t \in Threads /\ pc[t] \in {"core", "chromium", "context"} /\ Fail(t, "none")
        /\ UNCHANGED <<managedBrowser, process, pastVars>>
    BY <1>6, <1>j DEF LaunchFails
  <2>2. PICK o \in Sessions : session[t] = o /\ Of(t) = object[o] /\ object[o] \in Session
    BY <2>1, <1>o
  <2>3. profileLocks' = IF pc[t] = "context" THEN profileLocks \ {object[o].place} ELSE profileLocks
    BY <1>6, <2>2 DEF LaunchFails
  <2>4. CreationFails(t, o)
    BY <2>1, <2>2, <2>3, FailEffect DEF CreatePc
  <2> QED
    BY <2>1, <2>4, <1>f
<1>7. ASSUME NEW t \in Jobs, FirstPageFails(t) PROVE Effect
  <2>1. /\ t \in Threads /\ pc[t] = "page"
        /\ UNCHANGED <<profileLocks, managedBrowser, process, crossed, displaced, losses>>
    BY <1>7, <1>j DEF FirstPageFails
  <2>2. PICK o \in Sessions : session[t] = o /\ Of(t) = object[o] /\ object[o] \in Session
    BY <2>1, <1>o
  <2>3. Fail(t, object[o].context) /\ stranded' = stranded \cup {o}
    BY <1>7, <2>2 DEF FirstPageFails
  <2>4. CreationFails(t, o)
    BY <2>1, <2>2, <2>3, FailEffect DEF CreatePc
  <2> QED
    BY <2>1, <2>4, <1>f
<1>8. ASSUME NEW t \in Jobs, FirstPage(t) PROVE Effect
  <2>1. t \in Threads /\ pc[t] = "page" /\ UNCHANGED <<tables, pastVars>>
        /\ (Return(t) \/ (Goto(t, "queued") /\ session' = session))
    BY <1>8, <1>j DEF FirstPage
  <2>2. PICK o \in Sessions : session[t] = o /\ Of(t) = object[o] /\ object[o] \in Session
    BY <2>1, <1>o
  <2>3. /\ \A q \in Sessions : q # o => object'[q] = object[q]
        /\ object'[o].id = object[o].id /\ object'[o].place = object[o].place
        /\ object'[o].browser = object[o].browser /\ object'[o].state = "ready"
        /\ object[o].context = "open" /\ object'[o].context = "open"
    BY <1>8, <2>2 DEF FirstPage, TypeOK, Session
  <2>4. /\ pc'[t] = "idle" \/ (pc'[t] = "queued" /\ session'[t] = o)
        /\ \A u \in Threads : u # t => pc'[u] = pc[u] /\ session'[u] = session[u]
    BY <2>1, <2>2, ReturnType, GotoType DEF Pc
  <2>5. GoesOn(t, o)
    BY <2>1, <2>2, <2>3, <2>4 DEF GoesOn, Proceeds, Elsewhere, Stays
  <2> QED
    BY <2>1, <2>5, <1>g
<1>9. ASSUME NEW t \in Jobs, NEW i \in Ids, CloseJob(t, i) PROVE Effect
  BY <1>9, <1>j, CloseEffect DEF CloseJob, Effect
<1>10. ASSUME NEW i \in Ids, SweepCloses(i) PROVE Effect
  BY <1>10, <1>j, CloseEffect DEF SweepCloses, Effect
<1>11. ASSUME NEW t \in Threads, ContextClosed(t) PROVE Effect
  <2>1. /\ pc[t] \in {"closing", "closing again"}
        /\ UNCHANGED <<sessions, process, session, crossed, stranded, displaced>>
    BY <1>11 DEF ContextClosed
  <2>2. PICK o \in Sessions : session[t] = o /\ Of(t) = object[o] /\ object[o] \in Session
    BY <2>1, <1>o
  <2>3. pc'[t] = "quit" /\ \A u \in Threads : u # t => pc'[u] = pc[u]
    BY <1>11 DEF ContextClosed, Goto, TypeOK
  <2>4. /\ \A q \in Sessions : q # o => object'[q] = object[q]
        /\ object'[o].id = object[o].id /\ object'[o].place = object[o].place
        /\ object'[o].browser = object[o].browser /\ object'[o].state = object[o].state
        /\ object'[o].context = IF pc[t] = "closing" /\ object[o].context = "closing" THEN "closed"
                                ELSE object[o].context
    BY <1>11, <2>2 DEF ContextClosed, TypeOK, Session
  <2>5. Unlocks(o)
    BY <1>11, <2>2, UnlockFacts DEF ContextClosed
  <2>6. HasClosed(t, o)
    BY <2>1, <2>2, <2>3, <2>4, <2>5 DEF HasClosed, Elsewhere, Stays
  <2> QED
    BY <2>6 DEF Effect
<1>12. ASSUME NEW t \in Threads, Closed(t) PROVE Effect
  <2>1. pc[t] = "quit" /\ Return(t) /\ UNCHANGED <<profileLocks, managedBrowser, process, pastVars>>
    BY <1>12 DEF Closed
  <2>2. PICK o \in Sessions : session[t] = o /\ Of(t) = object[o] /\ object[o] \in Session
    BY <2>1, <1>o
  <2>3. /\ \A q \in Sessions : q # o => object'[q] = object[q]
        /\ object'[o].id = object[o].id /\ object'[o].place = object[o].place
        /\ object'[o].browser = object[o].browser /\ object'[o].context = object[o].context
    BY <1>12, <2>2 DEF Closed, TypeOK, Session
  <2>4. TakenOut(o)
    BY <1>12, <2>2 DEF Closed, TakenOut
  <2>5. pc'[t] = "idle" /\ \A u \in Threads : u # t => pc'[u] = pc[u] /\ session'[u] = session[u]
    BY <2>1, ReturnType
  <2>6. Quits(t, o)
    BY <2>1, <2>2, <2>3, <2>4, <2>5 DEF Quits, Elsewhere, Stays
  <2> QED
    BY <2>6 DEF Effect
<1>13. ASSUME NEW t \in Jobs, NEW i \in Ids, Ask(t, i) PROVE Effect
  <2>1. PICK o \in Sessions : o = sessions[i]
    BY <1>13 DEF Ask, TypeOK
  <2>2. /\ pc[t] = "idle" /\ pc'[t] = "queued" /\ UNCHANGED <<tables, object, browser, pastVars>>
        /\ \A u \in Threads : u # t => pc'[u] = pc[u] /\ session'[u] = session[u]
    BY <1>13, <1>j DEF Ask, Goto, TypeOK
  <2>3. Uses(t, o)
    BY <2>2 DEF Uses, Elsewhere, Stays, CreatePc, ClosePc
  <2> QED
    BY <2>3, <1>j DEF Effect
<1>14. ASSUME NEW t \in Jobs, Operate(t) \/ OperationEnds(t) PROVE Effect
  <2>1. t \in Threads /\ pc[t] \in {"queued", "operating"} /\ UNCHANGED <<tables, pastVars>>
    BY <1>14, <1>j DEF Operate, OperationEnds
  <2>2. PICK o \in Sessions : session[t] = o /\ Of(t) = object[o] /\ object[o] \in Session
    BY <2>1, <1>o
  <2>3. \E x \in {"busy", "ready"} : object' = [object EXCEPT ![o].state = x]
    BY <1>14, <2>2 DEF Operate, OperationEnds
  <2>4. /\ \A q \in Sessions : q # o => object'[q] = object[q]
        /\ object'[o].id = object[o].id /\ object'[o].place = object[o].place
        /\ object'[o].browser = object[o].browser /\ object'[o].context = object[o].context
        /\ object'[o].state \in {"busy", "ready"}
    BY <2>2, <2>3 DEF TypeOK, Session
  <2>5. /\ pc'[t] \in {"operating", "idle"}
        /\ \A u \in Threads : u # t => pc'[u] = pc[u] /\ session'[u] = session[u]
    BY <1>14, <2>1 DEF Operate, OperationEnds, Return, Goto, TypeOK
  <2>6. Uses(t, o)
    BY <2>1, <2>4, <2>5 DEF Uses, Elsewhere, Stays, CreatePc, ClosePc
  <2> QED
    BY <2>1, <2>6 DEF Effect
<1>15. ASSUME NEW b \in Browsers, Disconnected(b) PROVE Effect
  <2>1. ASSUME NEW o \in Sessions
        PROVE  /\ Stays(o) /\ object'[o].browser = object[o].browser
               /\ object'[o].state \in {object[o].state, "lost"}
               /\ \/ object'[o].context = object[o].context
                  \/ /\ object'[o].context = "gone" /\ object[o].context # "none"
                     /\ object[o].browser = b
    <3>1. \E x \in {"lost", object[o].state}, y \in {"gone", object[o].context} :
             /\ object'[o] = [object[o] EXCEPT !.state = x, !.context = y]
             /\ y # object[o].context => object[o].browser = b /\ object[o].context # "none"
      BY <1>15 DEF Disconnected
    <3>2. object[o] \in Session
      BY DEF TypeOK
    <3> QED
      BY <3>1, <3>2 DEF Session, Stays
  <2>2. \A c \in Browsers : process'[c] \in {process[c], "gone"}
    BY <1>15 DEF Disconnected, TypeOK
  <2>3. b # None
    BY BrowserAssumption
  <2>4. UNCHANGED <<sessions, profileLocks, pc, session, crossed, stranded, displaced>>
    BY <1>15 DEF Disconnected
  <2>5. Crashes
    BY <2>1, <2>2, <2>3, <2>4 DEF Crashes
  <2> QED
    BY <2>5 DEF Effect
<1>16. ASSUME NEW x \in Sessions, OwnDisconnected(x) PROVE Effect
  <2>1. ASSUME NEW o \in Sessions
        PROVE  /\ Stays(o) /\ object'[o].browser = object[o].browser
               /\ object'[o].state \in {object[o].state, "lost"}
               /\ \/ object'[o].context = object[o].context
                  \/ object'[o].context = "gone" /\ object[o].context \in {"open", "closing", "closed"}
    BY <1>16 DEF OwnDisconnected, TypeOK, Session, Stays
  <2>2. Crashes
    BY <1>16, <2>1 DEF OwnDisconnected, Crashes
  <2> QED
    BY <2>2 DEF Effect
<1>17. CASE SweepEnds
  <2>1. Swept
    BY <1>17 DEF SweepEnds, Swept, TypeOK
  <2> QED
    BY <2>1 DEF Effect
<1>18. CASE UNCHANGED vars
  <2>1. Swept
    BY <1>18 DEF vars, Swept
  <2> QED
    BY <2>1 DEF Effect
<1>19. ASSUME NEW t \in Jobs, NEW i \in Ids, CreateRefused(t, i) PROVE Effect
  <2>1. Refused(i)
    BY <1>19 DEF CreateRefused, Refused
  <2> QED
    BY <2>1 DEF Effect
<1> QED
  BY <1>1, <1>2, <1>3, <1>4, <1>5, <1>6, <1>7, <1>8, <1>9, <1>10, <1>11, <1>12, <1>13, <1>14,
     <1>15, <1>16, <1>17, <1>18, <1>19 DEF Next, Job

(***************************************************************************)
(* Every session, not only those with a profile: where its context and its *)
(* threads are.                                                            *)
(***************************************************************************)
HandledAt(t, o) ==
    /\ pc[t] \in {"core", "chromium", "got"} => object[o].context = "none"
    /\ pc[t] = "context" =>
          object[o].context = IF object[o].place \in Profiles THEN "launching" ELSE "none"
    /\ pc[t] \in {"chromium", "got"} => object[o].place = "shared"
    /\ pc[t] \in ClosePc => object[o].context \in {"closing", "closed", "gone"}

Steady(o) ==
    /\ \A t \in Threads : Handles(t, o) => HandledAt(t, o)
    /\ \A t, u \in Threads :
          Handles(t, o) /\ Handles(u, o) =>
             t = u \/ (o \in crossed /\ ~(pc[t] \in CreatePc /\ pc[u] \in CreatePc))
    /\ InTable(o) => object[o].state # "closed"
    /\ object[o].place # "shared" => object[o].browser = None
    /\ object[o].context = "launching" =>
          o \in crossed \/ \E t \in Threads : session[t] = o /\ pc[t] = "context"

AllSteady == \A o \in Sessions : Steady(o)

Busy(t) == pc[t] \in CreatePc \cup ClosePc

LEMMA OthersSteady ==
    ASSUME NEW t \in Threads, NEW o \in Sessions, Elsewhere(t, o),
           Busy(t) => session[t] = o, Busy(t)' => session'[t] = o,
           NEW q \in Sessions, q # o, InTable(q)' => InTable(q), q \in crossed => q \in crossed',
           Steady(q)
    PROVE  Steady(q)'
<1>1. object'[q] = object[q]
  BY DEF Elsewhere
<1>2. \A u \in Threads : /\ Handles(u, q)' <=> Handles(u, q)
                         /\ Handles(u, q) => pc'[u] = pc[u] /\ session'[u] = session[u]
  BY DEF Handles, Elsewhere, Busy
<1>3. \A u \in Threads : Handles(u, q)' => HandledAt(u, q)'
  BY <1>1, <1>2 DEF Steady, HandledAt
<1>4. \A u, v \in Threads : Handles(u, q)' /\ Handles(v, q)' =>
             u = v \/ (q \in crossed' /\ ~(pc'[u] \in CreatePc /\ pc'[v] \in CreatePc))
  BY <1>2 DEF Steady
<1>5. object'[q].context = "launching" =>
          q \in crossed' \/ \E u \in Threads : session'[u] = q /\ pc'[u] = "context"
  <2> SUFFICES ASSUME object'[q].context = "launching", q \notin crossed'
               PROVE  \E u \in Threads : session'[u] = q /\ pc'[u] = "context"
    OBVIOUS
  <2>1. PICK u \in Threads : session[u] = q /\ pc[u] = "context"
    BY <1>1 DEF Steady
  <2>2. Handles(u, q)
    BY <2>1 DEF Handles, CreatePc
  <2> QED
    BY <2>1, <2>2, <1>2
<1> QED
  BY <1>1, <1>3, <1>4, <1>5 DEF Steady

\* A step of the thread that handles the session, which leaves it or goes on.
LEMMA OwnSteady ==
    ASSUME NEW t \in Threads, NEW o \in Sessions, Elsewhere(t, o), Handles(t, o), Steady(o),
           crossed' = crossed, Stays(o), InTable(o)' => InTable(o) /\ object'[o].state # "closed",
           object[o].place # "shared" => object'[o].browser = None,
           pc[t] \in ClosePc /\ Busy(t)' => pc'[t] \in ClosePc,
           Handles(t, o)' => HandledAt(t, o)',
           object'[o].context = "launching" => (pc'[t] = "context" /\ session'[t] = o) \/ o \in crossed,
           \A u \in Threads : u # t /\ Handles(u, o) => HandledAt(u, o)'
    PROVE  Steady(o)'
<1>1. \A u \in Threads : u # t => (Handles(u, o)' <=> Handles(u, o)) /\ pc'[u] = pc[u]
  BY DEF Elsewhere, Handles
<1>2. \A u \in Threads : Handles(u, o)' => HandledAt(u, o)'
  BY <1>1
<1>3. \A u, v \in Threads : Handles(u, o)' /\ Handles(v, o)' =>
             u = v \/ (o \in crossed' /\ ~(pc'[u] \in CreatePc /\ pc'[v] \in CreatePc))
  BY ZenonT(30), <1>1 DEF Steady, Handles, Busy, CreatePc, ClosePc
<1>4. object'[o].context = "launching" =>
          o \in crossed' \/ \E u \in Threads : session'[u] = o /\ pc'[u] = "context"
  OBVIOUS
<1> QED
  BY <1>2, <1>3, <1>4 DEF Steady, Stays

LEMMA TakenOutOfTable ==
    ASSUME TypeOK, SessionsInv, NEW o \in Sessions, TakenOut(o)
    PROVE  /\ ~InTable(o)'
           /\ \A q \in Sessions : InTable(q)' => InTable(q)
           /\ \A q \in Sessions : InTable(q) => InTable(q)' \/ object[q].id = object[o].id
<1>1. \A i \in Ids, q \in Sessions : sessions[i] = q => i = object[q].id
  BY BrowserAssumption DEF SessionsInv, TableInv
<1>2. None \notin Sessions
  BY BrowserAssumption
<1>3. \A i \in Ids : sessions'[i] = IF i = object[o].id THEN None ELSE sessions[i]
  BY DEF TakenOut, TypeOK
<1> QED
  BY <1>1, <1>2, <1>3 DEF InTable

LEMMA SteadyStep ==
    ASSUME TypeOK, SessionsInv, AllSteady, Effect
    PROVE  AllSteady'
<1>p. "shared" \notin Profiles /\ "attached" \notin Profiles
  BY BrowserAssumption
<1>c. "idle" \notin CreatePc \cup ClosePc
  BY DEF CreatePc, ClosePc
<1>1. ASSUME NEW t \in Threads, NEW o \in Sessions, CreationFails(t, o) PROVE AllSteady'
  <2>0. Handles(t, o) /\ Elsewhere(t, o) /\ Steady(o) /\ ~Busy(t)'
    BY <1>1, <1>c DEF CreationFails, Handles, AllSteady, Busy
  <2>1. /\ ~InTable(o)' /\ \A q \in Sessions : InTable(q)' => InTable(q)
    BY <1>1, TakenOutOfTable DEF CreationFails
  <2>2. pc[t] \in CreatePc /\ crossed' = crossed /\ Stays(o) /\ object'[o].browser = object[o].browser
        /\ IF pc[t] = "page" THEN object'[o].context = object[o].context
                             ELSE object'[o].context = "none"
    BY <1>1 DEF CreationFails
  <2>3. HandledAt(t, o)
    BY <2>0 DEF Steady
  <2>4. \A u \in Threads : u # t /\ Handles(u, o) => HandledAt(u, o)'
    <3> SUFFICES ASSUME NEW u \in Threads, u # t, Handles(u, o) PROVE HandledAt(u, o)'
      OBVIOUS
    <3>1. pc[u] \in ClosePc /\ HandledAt(u, o) /\ pc'[u] = pc[u]
      BY <2>0, <2>2 DEF Steady, Handles, Elsewhere
    <3>2. object[o].context \in {"closing", "closed", "gone"}
      BY <3>1 DEF HandledAt
    <3>3. pc[t] = "page"
      BY <2>2, <2>3, <3>2 DEF HandledAt, CreatePc
    <3> QED
      BY <3>1, <3>2, <3>3, <2>2 DEF HandledAt, ClosePc
  <2>5. object'[o].context = "launching" => o \in crossed
    <3> SUFFICES ASSUME object'[o].context = "launching", o \notin crossed PROVE FALSE
      OBVIOUS
    <3>1. pc[t] = "page" /\ object[o].context = "launching"
      BY <2>2
    <3>2. PICK u \in Threads : session[u] = o /\ pc[u] = "context"
      BY <3>1, <2>0 DEF Steady
    <3> QED
      BY <3>1, <3>2, <2>0 DEF Steady, Handles, CreatePc
  <2>6. Steady(o)'
    <3>1. object[o].place # "shared" => object'[o].browser = None
      BY <2>0, <2>2 DEF Steady
    <3>2. ~Handles(t, o)'
      BY <2>0 DEF Handles, Busy
    <3> QED
      BY <2>0, <2>1, <2>2, <2>4, <2>5, <3>1, <3>2, OwnSteady
  <2>7. \A q \in Sessions : q # o => Steady(q)'
    BY <2>0, <2>1, <2>2, OthersSteady DEF AllSteady, Handles, Busy
  <2> QED
    BY <2>6, <2>7 DEF AllSteady
<1>2. ASSUME NEW t \in Threads, NEW o \in Sessions, GoesOn(t, o) PROVE AllSteady'
  <2>0. /\ Handles(t, o) /\ Elsewhere(t, o) /\ Steady(o) /\ pc[t] \in CreatePc
        /\ Busy(t)' => session'[t] = o
    BY <1>2, <1>c DEF GoesOn, Proceeds, Handles, AllSteady, CreatePc, ClosePc, Busy
  <2>1. \A q \in Sessions : InTable(q)' = InTable(q)
    BY <1>2 DEF GoesOn, InTable
  <2>2. /\ crossed' = crossed /\ Stays(o) /\ Proceeds(t, o)
        /\ object'[o].browser = object[o].browser \/ pc[t] = "got"
        /\ object'[o].state \in {object[o].state, "ready"}
    BY <1>2 DEF GoesOn
  <2>3. HandledAt(t, o)
    BY <2>0 DEF Steady
  <2>4. \A u \in Threads : u # t /\ Handles(u, o) => HandledAt(u, o)'
    <3> SUFFICES ASSUME NEW u \in Threads, u # t, Handles(u, o) PROVE HandledAt(u, o)'
      OBVIOUS
    <3>1. pc[u] \in ClosePc /\ HandledAt(u, o) /\ pc'[u] = pc[u]
      BY <2>0 DEF Steady, Handles, Elsewhere
    <3>2. object[o].context \in {"closing", "closed", "gone"}
      BY <3>1 DEF HandledAt
    <3>3. FALSE
      BY <2>2, <2>3, <3>2 DEF HandledAt, Proceeds
    <3> QED
      BY <3>3
  <2>5. Handles(t, o)' => HandledAt(t, o)'
    BY <2>2, <2>3, <1>p DEF Proceeds, HandledAt, Stays, ClosePc
  <2>6. object'[o].context = "launching" => pc'[t] = "context" /\ session'[t] = o
    BY <1>2, <2>2, <2>3, <1>p DEF Proceeds, HandledAt, GoesOn
  <2>7. object[o].place # "shared" => object'[o].browser = None
    BY <2>0, <2>2, <2>3 DEF Steady, HandledAt
  <2>8. pc[t] \notin ClosePc
    BY <2>2 DEF Proceeds, ClosePc
  <2>9. InTable(o)' => InTable(o) /\ object'[o].state # "closed"
    BY <2>0, <2>1, <2>2 DEF Steady
  <2>10. Steady(o)'
    BY <2>0, <2>2, <2>4, <2>5, <2>6, <2>7, <2>8, <2>9, OwnSteady
  <2>11. \A q \in Sessions : q # o => Steady(q)'
    BY <2>0, <2>1, <2>2, OthersSteady DEF AllSteady, Handles
  <2> QED
    BY <2>10, <2>11 DEF AllSteady
<1>3. ASSUME NEW t \in Threads, NEW o \in Sessions, Uses(t, o) PROVE AllSteady'
  <2>0. ~Busy(t) /\ ~Busy(t)' /\ Elsewhere(t, o) /\ Steady(o)
    BY <1>3 DEF Uses, Busy, AllSteady
  <2>1. \A q \in Sessions : InTable(q)' = InTable(q)
    BY <1>3 DEF Uses, InTable, tables
  <2>2. /\ crossed' = crossed /\ Stays(o) /\ object'[o].browser = object[o].browser
        /\ object'[o].context = object[o].context
        /\ object'[o].state \in {object[o].state, "ready", "busy"}
    BY <1>3 DEF Uses, pastVars
  <2>3. \A u \in Threads : (Handles(u, o)' <=> Handles(u, o)) /\ (Handles(u, o) => pc'[u] = pc[u])
    BY <2>0 DEF Handles, Busy, Elsewhere
  <2>4. \A u \in Threads : pc[u] = "context" /\ session[u] = o => pc'[u] = "context" /\ session'[u] = o
    BY <2>0 DEF Busy, Elsewhere, CreatePc
  <2>5. Steady(o)'
    BY <2>0, <2>1, <2>2, <2>3, <2>4 DEF Steady, HandledAt, Stays
  <2>6. \A q \in Sessions : q # o => Steady(q)'
    BY <2>0, <2>1, <2>2, OthersSteady DEF AllSteady
  <2> QED
    BY <2>5, <2>6 DEF AllSteady
<1>4. ASSUME NEW t \in Threads, NEW o \in Sessions, HasClosed(t, o) PROVE AllSteady'
  <2>0. /\ Handles(t, o) /\ Elsewhere(t, o) /\ Steady(o) /\ session'[t] = o
        /\ pc[t] \in ClosePc /\ pc'[t] \in ClosePc
    BY <1>4 DEF HasClosed, Handles, AllSteady, ClosePc
  <2>1. \A q \in Sessions : InTable(q)' = InTable(q)
    BY <1>4 DEF HasClosed, InTable
  <2>2. /\ crossed' = crossed /\ Stays(o) /\ object'[o].browser = object[o].browser
        /\ object'[o].state = object[o].state
        /\ object'[o].context \in {object[o].context, "closed"}
    BY <1>4 DEF HasClosed
  <2>3. object[o].context \in {"closing", "closed", "gone"}
    BY <2>0 DEF Steady, HandledAt
  <2>4. ASSUME NEW u \in Threads, Handles(u, o) PROVE HandledAt(u, o)'
    <3>1. HandledAt(u, o)
      BY <2>4, <2>0 DEF Steady
    <3>2. pc[u] \in ClosePc \cup {"page"}
      BY <2>3, <2>4, <3>1 DEF HandledAt, Handles, CreatePc
    <3>3. pc'[u] \in ClosePc \cup {"page"}
      BY <2>0, <3>2 DEF Elsewhere
    <3> QED
      BY <2>2, <2>3, <3>3 DEF HandledAt, ClosePc
  <2>5. Steady(o)'
    <3>1. object[o].place # "shared" => object'[o].browser = None
      BY <2>0, <2>2 DEF Steady
    <3>2. InTable(o)' => InTable(o) /\ object'[o].state # "closed"
      BY <2>0, <2>1, <2>2 DEF Steady
    <3> QED
      BY <2>0, <2>2, <2>3, <2>4, <3>1, <3>2, OwnSteady
  <2>6. \A q \in Sessions : q # o => Steady(q)'
    BY <2>0, <2>1, <2>2, OthersSteady DEF AllSteady, Handles
  <2> QED
    BY <2>5, <2>6 DEF AllSteady
<1>5. ASSUME NEW t \in Threads, NEW o \in Sessions, Quits(t, o) PROVE AllSteady'
  <2>0. Handles(t, o) /\ Elsewhere(t, o) /\ Steady(o) /\ ~Busy(t)' /\ pc[t] \in ClosePc
    BY <1>5, <1>c DEF Quits, Handles, AllSteady, ClosePc, Busy
  <2>1. ~InTable(o)' /\ \A q \in Sessions : InTable(q)' => InTable(q)
    BY <1>5, TakenOutOfTable DEF Quits
  <2>2. /\ crossed' = crossed /\ Stays(o) /\ object'[o].browser = object[o].browser
        /\ object'[o].context = object[o].context
    BY <1>5 DEF Quits
  <2>3. object[o].context \in {"closing", "closed", "gone"}
    BY <2>0 DEF Steady, HandledAt
  <2>4. \A u \in Threads : u # t /\ Handles(u, o) => HandledAt(u, o)'
    BY <2>0, <2>2 DEF Steady, HandledAt, Elsewhere, Stays
  <2>5. Steady(o)'
    <3>1. object[o].place # "shared" => object'[o].browser = None
      BY <2>0, <2>2 DEF Steady
    <3>2. ~Handles(t, o)'
      BY <2>0 DEF Handles, Busy
    <3> QED
      BY <2>0, <2>1, <2>2, <2>3, <2>4, <3>1, <3>2, OwnSteady
  <2>6. \A q \in Sessions : q # o => Steady(q)'
    BY <2>0, <2>1, <2>2, OthersSteady DEF AllSteady, Handles
  <2> QED
    BY <2>5, <2>6 DEF AllSteady
<1>6. ASSUME NEW t \in Threads, NEW o \in Sessions, NEW i \in Ids, Begins(t, i, o) PROVE AllSteady'
  <2>0. /\ Elsewhere(t, o) /\ ~Busy(t) /\ session'[t] = o /\ pc'[t] = "core"
        /\ object'[o].context = "none" /\ object'[o].browser = None /\ object'[o].state = "creating"
        /\ crossed' = crossed
    BY <1>6, <1>c DEF Begins, Busy
  <2>1. \A u \in Threads : session[u] # o
    BY <1>6 DEF Begins, SessionsInv, Fresh
  <2>2. \A u \in Threads : Handles(u, o)' => u = t
    BY <2>0, <2>1 DEF Handles, Elsewhere
  <2>3. HandledAt(t, o)'
    BY <2>0 DEF HandledAt, ClosePc
  <2>4. Steady(o)'
    <3>1. \A u \in Threads : Handles(u, o)' => HandledAt(u, o)'
      BY <2>2, <2>3
    <3>2. /\ object'[o].state # "closed" /\ object'[o].browser = None
          /\ object'[o].context # "launching"
      BY <2>0
    <3> QED
      BY <3>1, <3>2, <2>2 DEF Steady
  <2>5. \A q \in Sessions : q # o /\ InTable(q)' => InTable(q)
    BY <1>6 DEF Begins, InTable, TypeOK
  <2>6. \A q \in Sessions : q # o => Steady(q)'
    BY <2>0, <2>5, OthersSteady DEF AllSteady
  <2> QED
    BY <2>4, <2>6 DEF AllSteady
<1>7. ASSUME NEW t \in Threads, NEW o \in Sessions, NEW i \in Ids, Closes(t, i, o) PROVE AllSteady'
  <2>0. /\ Elsewhere(t, o) /\ ~Busy(t) /\ Steady(o) /\ Stays(o) /\ (Busy(t)' => session'[t] = o)
        /\ object'[o].browser = object[o].browser /\ pc'[t] \in ClosePc \cup {"idle"}
        /\ crossed' = crossed \cup (IF Creating(o) \/ Closing(o) THEN {o} ELSE {})
    BY <1>7, <1>c DEF Closes, Busy, AllSteady, ClosePc
  <2>1. \A q \in Sessions : InTable(q)' => InTable(q)
    BY <1>7, BrowserAssumption DEF Closes, InTable, TypeOK
  <2>2. \A u \in Threads : u # t => (Handles(u, o)' <=> Handles(u, o)) /\ pc'[u] = pc[u]
    BY <2>0 DEF Handles, Elsewhere
  <2>3. \A u \in Threads : Handles(u, o) => o \in crossed'
    BY <2>0 DEF Handles, Creating, Closing
  <2>4. InTable(o)' => object'[o].state # "closed"
    <3>1. CASE object[o].context \in {"none", "launching"}
      <4>1. sessions[i] = o /\ sessions' = [sessions EXCEPT ![i] = None]
        BY <1>7, <3>1 DEF Closes
      <4>2. ~InTable(o)'
        BY <4>1, BrowserAssumption DEF InTable, SessionsInv, TableInv, TypeOK
      <4> QED
        BY <4>2
    <3>2. CASE object[o].context \notin {"none", "launching"}
      BY <1>7, <3>2 DEF Closes
    <3> QED
      BY <3>1, <3>2
  <2>5. ASSUME NEW u \in Threads, Handles(u, o)' PROVE HandledAt(u, o)'
    <3>1. CASE object[o].context \in {"none", "launching"}
      <4>1. object'[o].context = object[o].context /\ u # t
        BY <1>7, <3>1, <2>5, <1>c DEF Closes, Handles
      <4> QED
        BY <4>1, <2>0, <2>2, <2>5 DEF Steady, HandledAt, Stays
    <3>2. CASE object[o].context \notin {"none", "launching"}
      <4>1. /\ object'[o].context = IF object[o].context = "open" THEN "closing" ELSE object[o].context
            /\ pc'[t] \in ClosePc
        BY <1>7, <3>2 DEF Closes, ClosePc
      <4>2. object[o].context \in Context
        BY SessionFields DEF TypeOK
      <4>3. object'[o].context \in {"closing", "closed", "gone"}
        BY <4>1, <4>2, <3>2 DEF Context
      <4>4. pc'[u] \in ClosePc \cup {"page"}
        <5>1. CASE u = t
          BY <5>1, <4>1
        <5>2. CASE u # t
          <6>1. HandledAt(u, o) /\ Handles(u, o) /\ pc'[u] = pc[u]
            BY <5>2, <2>0, <2>2, <2>5 DEF Steady
          <6> QED
            BY <6>1, <3>2 DEF HandledAt, Handles, CreatePc
        <5> QED
          BY <5>1, <5>2
      <4> QED
        BY <4>3, <4>4 DEF HandledAt, ClosePc
    <3> QED
      BY <3>1, <3>2
  <2>6. \A u, v \in Threads : Handles(u, o)' /\ Handles(v, o)' =>
             u = v \/ (o \in crossed' /\ ~(pc'[u] \in CreatePc /\ pc'[v] \in CreatePc))
    BY <2>0, <2>2, <2>3 DEF Steady, Handles, CreatePc, ClosePc
  <2>7. object'[o].context = "launching" => o \in crossed'
    <3> SUFFICES ASSUME object'[o].context = "launching" PROVE o \in crossed'
      OBVIOUS
    <3>1. object[o].context = "launching"
      BY <1>7 DEF Closes
    <3>2. o \in crossed \/ \E u \in Threads : session[u] = o /\ pc[u] = "context"
      BY <3>1, <2>0 DEF Steady
    <3> QED
      BY <3>2, <2>0, <2>3 DEF Handles, CreatePc
  <2>8. Steady(o)'
    BY <2>0, <2>4, <2>5, <2>6, <2>7 DEF Steady, Stays
  <2>9. \A q \in Sessions : q # o => Steady(q)'
    BY <2>0, <2>1, OthersSteady DEF AllSteady
  <2> QED
    BY <2>8, <2>9 DEF AllSteady
<1>8. CASE Crashes
  <2> SUFFICES ASSUME NEW o \in Sessions PROVE Steady(o)'
    BY DEF AllSteady
  <2>1. /\ Stays(o) /\ object'[o].browser = object[o].browser
        /\ object'[o].state \in {object[o].state, "lost"}
        /\ \/ object'[o].context = object[o].context
           \/ /\ object'[o].context = "gone" /\ object[o].context # "none"
              /\ object[o].browser # None \/ object[o].context \in {"open", "closing", "closed"}
        /\ UNCHANGED <<sessions, pc, session, crossed>>
    BY <1>8 DEF Crashes
  <2>2. Steady(o)
    BY DEF AllSteady
  <2>3. \A u \in Threads : Handles(u, o)' <=> Handles(u, o)
    BY <2>1 DEF Handles
  <2>4. ASSUME NEW u \in Threads, Handles(u, o) PROVE HandledAt(u, o)'
    <3>1. HandledAt(u, o)
      BY <2>2, <2>4 DEF Steady
    <3>2. CASE object'[o].context = object[o].context
      BY <3>1, <3>2, <2>1 DEF HandledAt, Stays
    <3>3. CASE object'[o].context # object[o].context
      <4>1. object[o].browser # None => object[o].place = "shared"
        BY <2>2 DEF Steady
      <4>2. pc[u] \notin {"core", "chromium", "got", "context"}
        BY <3>1, <3>3, <2>1, <4>1, <1>p DEF HandledAt
      <4> QED
        BY <4>2, <3>3, <2>1 DEF HandledAt
    <3> QED
      BY <3>2, <3>3
  <2>5. InTable(o)' = InTable(o)
    BY <2>1 DEF InTable
  <2> QED
    BY <2>1, <2>2, <2>3, <2>4, <2>5 DEF Steady, Stays
<1>9. CASE Swept
  BY <1>9 DEF Swept, AllSteady, Steady, Handles, HandledAt, InTable
<1>10. ASSUME NEW i \in Ids, Refused(i) PROVE AllSteady'
  <2> SUFFICES ASSUME NEW o \in Sessions PROVE Steady(o)'
    BY DEF AllSteady
  <2>1. UNCHANGED <<object, pc, session, crossed>> /\ Steady(o)
    BY <1>10 DEF Refused, AllSteady
  <2>2. InTable(o)' => InTable(o)
    BY <1>10, BrowserAssumption DEF Refused, InTable, TypeOK
  <2> QED
    BY <2>1, <2>2 DEF Steady, Handles, HandledAt
<1> QED
  BY <1>1, <1>2, <1>3, <1>4, <1>5, <1>6, <1>7, <1>8, <1>9, <1>10 DEF Effect

(***************************************************************************)
(* The table finds what runs: Kept for sessions, Locked for profiles.      *)
(***************************************************************************)

\* Ids whose table entry may have been another session's.
Spent == displaced \cup {object[x].id : x \in crossed}

Kept(o) ==
    /\ object[o].id \notin Spent /\ (\E t \in Threads : Handles(t, o)) => InTable(o)
    /\ ~Excused(o) /\ object[o].context \in {"launching", "open"} => InTable(o)
    /\ ~Excused(o) /\ object[o].context = "closing" =>
          \E t \in Threads : session[t] = o /\ pc[t] = "closing"

AllKept == \A o \in Sessions : Kept(o)

Locked ==
    \A p \in profileLocks : \E o \in Sessions : object[o].place = p /\ (Claims(o) \/ Excused(o))

OpenSpared(o) ==
    InTable(o) /\ object[o].context = "open" /\ object[o].browser # None
    => process[object[o].browser] # "closing"

AllSpared == \A o \in Sessions : OpenSpared(o)

LEMMA SpentGrows ==
    ASSUME TypeOK, SessionsInv, Effect
    PROVE  Spent \subseteq Spent' /\ stranded \subseteq stranded'
<1>1. \A x \in crossed : x \in Sessions /\ object[x].state # "new"
  BY DEF TypeOK, SessionsInv, Fresh
<1>2. ASSUME crossed \subseteq crossed', displaced \subseteq displaced', stranded \subseteq stranded',
             \A x \in crossed : object'[x].id = object[x].id
      PROVE  Spent \subseteq Spent' /\ stranded \subseteq stranded'
  BY <1>2 DEF Spent
<1>3. ASSUME NEW t \in Threads, NEW o \in Sessions, Elsewhere(t, o), Stays(o),
             crossed \subseteq crossed', displaced' = displaced, stranded \subseteq stranded'
      PROVE  Spent \subseteq Spent' /\ stranded \subseteq stranded'
  BY <1>1, <1>2, <1>3 DEF Elsewhere, Stays
<1>4. ASSUME NEW t \in Threads, NEW o \in Sessions, NEW i \in Ids, Begins(t, i, o)
      PROVE  Spent \subseteq Spent' /\ stranded \subseteq stranded'
  BY <1>1, <1>2, <1>4 DEF Begins, Elsewhere
<1>5. ASSUME Crashes \/ Swept PROVE Spent \subseteq Spent' /\ stranded \subseteq stranded'
  BY <1>1, <1>2, <1>5 DEF Crashes, Swept, Stays
<1>6. ASSUME NEW t \in Threads, NEW o \in Sessions,
             CreationFails(t, o) \/ GoesOn(t, o) \/ Uses(t, o) \/ HasClosed(t, o) \/ Quits(t, o)
      PROVE  Spent \subseteq Spent' /\ stranded \subseteq stranded'
  <2>1. Elsewhere(t, o) /\ Stays(o) /\ crossed' = crossed /\ displaced' = displaced
    BY <1>6 DEF CreationFails, GoesOn, Uses, HasClosed, Quits, pastVars
  <2>2. stranded \subseteq stranded'
    BY <1>6 DEF CreationFails, GoesOn, Uses, HasClosed, Quits, pastVars
  <2> QED
    BY <2>1, <2>2, <1>3
<1>7. ASSUME NEW t \in Threads, NEW o \in Sessions, NEW i \in Ids, Closes(t, i, o)
      PROVE  Spent \subseteq Spent' /\ stranded \subseteq stranded'
  <2>1. /\ Elsewhere(t, o) /\ Stays(o) /\ displaced' = displaced /\ stranded' = stranded
        /\ crossed \subseteq crossed'
    BY <1>7 DEF Closes
  <2> QED
    BY <2>1, <1>3
<1>8. ASSUME NEW i \in Ids, Refused(i) PROVE Spent \subseteq Spent' /\ stranded \subseteq stranded'
  BY <1>2, <1>8 DEF Refused
<1> QED
  BY <1>4, <1>5, <1>6, <1>7, <1>8 DEF Effect

\* A session that a refused create took out of the table is excused.
LEMMA RefusedFacts ==
    ASSUME TypeOK, SessionsInv, NEW i \in Ids, Refused(i), NEW q \in Sessions
    PROVE  /\ InTable(q)' => InTable(q)
           /\ InTable(q) => InTable(q)' \/ object'[q].id \in Spent'
<1>1. None \notin Sessions
  BY BrowserAssumption
<1>2. \A j \in Ids : sessions'[j] = IF j = i THEN None ELSE sessions[j]
  BY DEF Refused, TypeOK
<1>3. sessions[i] = q => object'[q].id = i
  BY <1>1 DEF Refused, SessionsInv, TableInv
<1>4. i \in Spent'
  BY DEF Refused, Spent
<1> QED
  BY <1>1, <1>2, <1>3, <1>4 DEF InTable

LEMMA CrossedIsSpent ==
    ASSUME NEW o \in Sessions, o \in crossed PROVE object[o].id \in Spent /\ Excused(o)
BY DEF Spent, Excused

LEMMA OneInOneId ==
    ASSUME SessionsInv, NEW o \in Sessions, NEW q \in Sessions, InTable(o), InTable(q),
           object[o].id = object[q].id
    PROVE  o = q
BY BrowserAssumption DEF SessionsInv, TableInv, InTable

\* A session leaves the table: another one of its id does not, or is excused.
LEMMA OthersStay ==
    ASSUME TypeOK, SessionsInv, AllKept, NEW t \in Threads, NEW o \in Sessions, Handles(t, o),
           TakenOut(o), Spent \subseteq Spent', NEW q \in Sessions, q # o, InTable(q)
    PROVE  InTable(q)' \/ object[q].id \in Spent'
<1>1. InTable(q)' \/ object[q].id = object[o].id
  BY TakenOutOfTable
<1>2. object[o].id \notin Spent => InTable(o)
  BY DEF AllKept, Kept
<1> QED
  BY <1>1, <1>2, OneInOneId

LEMMA OthersKept ==
    ASSUME NEW t \in Threads, NEW o \in Sessions, Elsewhere(t, o),
           Busy(t) => session[t] = o, Busy(t)' => session'[t] = o,
           Spent \subseteq Spent', stranded \subseteq stranded',
           NEW q \in Sessions, q # o, InTable(q) => InTable(q)' \/ object[q].id \in Spent'
    PROVE  /\ Kept(q) => Kept(q)'
           /\ Claims(q) => Claims(q)' \/ Excused(q)'
           /\ Excused(q) => Excused(q)'
<1>1. object'[q] = object[q]
  BY DEF Elsewhere
<1>2. \A u \in Threads : /\ Handles(u, q)' <=> Handles(u, q)
                         /\ Handles(u, q) => pc'[u] = pc[u] /\ session'[u] = session[u]
  BY DEF Handles, Elsewhere, Busy
<1>3. \A u \in Threads, x \in ClosePc :
          (session'[u] = q /\ pc'[u] = x) <=> (session[u] = q /\ pc[u] = x)
  BY <1>2 DEF Handles
<1>4. Excused(q) => Excused(q)'
  BY <1>1 DEF Excused, Spent
<1>5. object[q].id \in Spent' => Excused(q)'
  BY <1>1 DEF Excused, Spent
<1>6. Kept(q) => Kept(q)'
  <2> SUFFICES ASSUME Kept(q) PROVE Kept(q)'
    OBVIOUS
  <2>1. object'[q].id \notin Spent' /\ (\E u \in Threads : Handles(u, q)') => InTable(q)'
    BY <1>1, <1>2 DEF Kept
  <2>2. ~Excused(q)' /\ object'[q].context \in {"launching", "open"} => InTable(q)'
    BY <1>1, <1>4, <1>5 DEF Kept
  <2>3. ~Excused(q)' /\ object'[q].context = "closing" =>
           \E u \in Threads : session'[u] = q /\ pc'[u] = "closing"
    BY <1>1, <1>3, <1>4 DEF Kept, ClosePc
  <2> QED
    BY <2>1, <2>2, <2>3 DEF Kept
<1>7. Claims(q) => Claims(q)' \/ Excused(q)'
  <2> SUFFICES ASSUME Claims(q), ~Excused(q)' PROVE Claims(q)'
    OBVIOUS
  <2>1. InTable(q) => InTable(q)'
    BY <1>5
  <2>2. \A u \in Threads : /\ session'[u] = q /\ pc'[u] = "quit" => session[u] = q /\ pc[u] = "quit"
                           /\ session[u] = q /\ pc[u] \in {"closing", "closing again"} =>
                                 session'[u] = q /\ pc'[u] \in {"closing", "closing again"}
    BY <1>3 DEF ClosePc
  <2> QED
    BY <1>1, <2>1, <2>2 DEF Claims
<1> QED
  BY <1>4, <1>6, <1>7

\* While it is created and before its context opens, nobody closes it.
LEMMA NobodyCloses ==
    ASSUME NEW t \in Threads, NEW o \in Sessions, Steady(o), Handles(t, o),
           pc[t] \in {"core", "chromium", "got", "context"}
    PROVE  \A u \in Threads : ~(session[u] = o /\ pc[u] \in ClosePc)
<1>1. object[o].context \in {"none", "launching"}
  BY DEF Steady, HandledAt
<1> QED
  BY <1>1 DEF Steady, HandledAt, Handles

\* One handler, or the session is excused.
LEMMA OneHandler ==
    ASSUME NEW o \in Sessions, Steady(o), ~Excused(o) \/ object[o].id \notin Spent,
           NEW t \in Threads, NEW u \in Threads, Handles(t, o), Handles(u, o)
    PROVE  t = u
BY CrossedIsSpent DEF Steady, Excused, Spent

LEMMA KeptStep ==
    ASSUME TypeOK, SessionsInv, AllSteady, AllKept, Effect
    PROVE  AllKept'
<1>g. Spent \subseteq Spent' /\ stranded \subseteq stranded'
  BY SpentGrows
<1>c. "idle" \notin CreatePc \cup ClosePc
  BY DEF CreatePc, ClosePc
<1>e. ASSUME NEW o \in Sessions, Stays(o) PROVE Excused(o) => Excused(o)'
  BY <1>e, <1>g DEF Excused, Spent, Stays
<1>s. ASSUME NEW o \in Sessions PROVE Steady(o) /\ Kept(o)
  BY DEF AllSteady, AllKept
<1>1. ASSUME NEW t \in Threads, NEW o \in Sessions, CreationFails(t, o) PROVE AllKept'
  <2>0. Handles(t, o) /\ Elsewhere(t, o) /\ ~Busy(t)' /\ Stays(o) /\ TakenOut(o) /\ pc[t] \in CreatePc
    BY <1>1, <1>c DEF CreationFails, Handles, Busy
  <2>1. \A q \in Sessions : q # o => Kept(q)'
    BY <2>0, <1>g, <1>s, OthersStay, OthersKept DEF Handles
  <2>2. \A u \in Threads : Handles(u, o)' => u # t /\ Handles(u, o)
    BY <2>0 DEF Handles, Busy, Elsewhere
  <2>3. object'[o].id \notin Spent' => ~\E u \in Threads : Handles(u, o)'
    BY <2>0, <2>2, <1>g, <1>s, OneHandler DEF Stays
  <2>4. object'[o].context = "none" \/ Excused(o)'
    BY <1>1 DEF CreationFails, Excused
  <2> QED
    BY <2>1, <2>3, <2>4 DEF Kept, AllKept
<1>2. ASSUME NEW t \in Threads, NEW o \in Sessions, GoesOn(t, o) PROVE AllKept'
  <2>0. /\ Handles(t, o) /\ Elsewhere(t, o) /\ Stays(o) /\ pc[t] \in CreatePc
        /\ Busy(t)' => session'[t] = o
    BY <1>2, <1>c DEF GoesOn, Proceeds, Handles, CreatePc, ClosePc, Busy
  <2>1. \A q \in Sessions : InTable(q)' = InTable(q)
    BY <1>2 DEF GoesOn, InTable
  <2>2. \A q \in Sessions : q # o => Kept(q)'
    BY <2>0, <2>1, <1>g, <1>s, OthersKept DEF Handles
  <2>3. object'[o].id \notin Spent' => InTable(o)'
    BY <2>0, <2>1, <1>g, <1>s DEF Kept, Stays
  <2>4. ~Excused(o)' => InTable(o)'
    BY <2>3 DEF Excused, Spent
  <2>5. ~Excused(o)' /\ object'[o].context = "closing" =>
           \E u \in Threads : session'[u] = o /\ pc'[u] = "closing"
    <3> SUFFICES ASSUME ~Excused(o)', object'[o].context = "closing"
                 PROVE  \E u \in Threads : session'[u] = o /\ pc'[u] = "closing"
      OBVIOUS
    <3>1. object[o].context = "closing"
      BY <1>2 DEF GoesOn, Proceeds
    <3>2. PICK u \in Threads : session[u] = o /\ pc[u] = "closing"
      BY <3>1, <2>0, <1>e, <1>s DEF Kept
    <3>3. u # t
      BY <3>2, <2>0 DEF CreatePc
    <3> QED
      BY <3>2, <3>3, <2>0 DEF Elsewhere
  <2> QED
    BY <2>2, <2>3, <2>4, <2>5 DEF Kept, AllKept
<1>3. ASSUME NEW t \in Threads, NEW o \in Sessions, Uses(t, o) PROVE AllKept'
  <2>0. ~Busy(t) /\ ~Busy(t)' /\ Elsewhere(t, o) /\ Stays(o) /\ object'[o].context = object[o].context
    BY <1>3 DEF Uses, Busy
  <2>1. \A q \in Sessions : InTable(q)' = InTable(q)
    BY <1>3 DEF Uses, InTable, tables
  <2>2. \A q \in Sessions : q # o => Kept(q)'
    BY <2>0, <2>1, <1>g, <1>s, OthersKept
  <2>3. \A u \in Threads : Handles(u, o)' => Handles(u, o)
    BY <2>0 DEF Handles, Busy, Elsewhere
  <2>4. \A u \in Threads : session[u] = o /\ pc[u] = "closing" => session'[u] = o /\ pc'[u] = "closing"
    BY <2>0 DEF Busy, Elsewhere, ClosePc
  <2>5. Kept(o)'
    BY <2>0, <2>1, <2>3, <2>4, <1>e, <1>g, <1>s DEF Kept, Stays
  <2> QED
    BY <2>2, <2>5 DEF AllKept
<1>4. ASSUME NEW t \in Threads, NEW o \in Sessions, HasClosed(t, o) PROVE AllKept'
  <2>0. /\ Handles(t, o) /\ Elsewhere(t, o) /\ Stays(o) /\ session'[t] = o
        /\ pc[t] \in ClosePc
    BY <1>4 DEF HasClosed, Handles, ClosePc
  <2>1. \A q \in Sessions : InTable(q)' = InTable(q)
    BY <1>4 DEF HasClosed, InTable
  <2>2. \A q \in Sessions : q # o => Kept(q)'
    BY <2>0, <2>1, <1>g, <1>s, OthersKept DEF Handles
  <2>3. object'[o].id \notin Spent' => InTable(o)'
    BY <2>0, <2>1, <1>g, <1>s DEF Kept, Stays
  <2>4. ~Excused(o)' => InTable(o)'
    BY <2>3 DEF Excused, Spent
  <2>5. ~Excused(o)' /\ object'[o].context = "closing" =>
           \E u \in Threads : session'[u] = o /\ pc'[u] = "closing"
    <3> SUFFICES ASSUME ~Excused(o)', object'[o].context = "closing"
                 PROVE  \E u \in Threads : session'[u] = o /\ pc'[u] = "closing"
      OBVIOUS
    <3>1. object[o].context = "closing" /\ pc[t] # "closing"
      BY <1>4 DEF HasClosed
    <3>2. PICK u \in Threads : session[u] = o /\ pc[u] = "closing"
      BY <3>1, <2>0, <1>e, <1>s DEF Kept
    <3> QED
      BY <3>1, <3>2, <2>0 DEF Elsewhere
  <2> QED
    BY <2>2, <2>3, <2>4, <2>5 DEF Kept, AllKept
<1>5. ASSUME NEW t \in Threads, NEW o \in Sessions, Quits(t, o) PROVE AllKept'
  <2>0. /\ Handles(t, o) /\ Elsewhere(t, o) /\ ~Busy(t)' /\ Stays(o) /\ TakenOut(o)
        /\ pc[t] = "quit" /\ object'[o].context = object[o].context
    BY <1>5, <1>c DEF Quits, Handles, Busy, ClosePc
  <2>1. \A q \in Sessions : q # o => Kept(q)'
    BY <2>0, <1>g, <1>s, OthersStay, OthersKept DEF Handles
  <2>2. \A u \in Threads : Handles(u, o)' => u # t /\ Handles(u, o)
    BY <2>0 DEF Handles, Busy, Elsewhere
  <2>3. object'[o].id \notin Spent' => ~\E u \in Threads : Handles(u, o)'
    BY <2>0, <2>2, <1>g, <1>s, OneHandler DEF Stays
  <2>4. object'[o].context \in {"closing", "closed", "gone"}
    BY <2>0, <1>s DEF Steady, HandledAt, ClosePc
  <2>5. ~Excused(o)' /\ object'[o].context = "closing" =>
           \E u \in Threads : session'[u] = o /\ pc'[u] = "closing"
    <3> SUFFICES ASSUME ~Excused(o)', object'[o].context = "closing"
                 PROVE  \E u \in Threads : session'[u] = o /\ pc'[u] = "closing"
      OBVIOUS
    <3>1. PICK u \in Threads : session[u] = o /\ pc[u] = "closing"
      BY <2>0, <1>e, <1>s DEF Kept
    <3> QED
      BY <3>1, <2>0 DEF Elsewhere
  <2> QED
    BY <2>1, <2>3, <2>4, <2>5 DEF Kept, AllKept
<1>6. ASSUME NEW t \in Threads, NEW o \in Sessions, NEW i \in Ids, Begins(t, i, o) PROVE AllKept'
  <2>0. /\ Elsewhere(t, o) /\ ~Busy(t) /\ session'[t] = o /\ object'[o].context = "none"
        /\ sessions' = [sessions EXCEPT ![i] = o]
        /\ sessions[i] # None => i \in Spent'
    BY <1>6, <1>c DEF Begins, Busy, Spent
  <2>1. InTable(o)'
    BY <2>0 DEF InTable, TypeOK
  <2>2. ASSUME NEW q \in Sessions, q # o, InTable(q) PROVE InTable(q)' \/ object[q].id \in Spent'
    <3>1. PICK j \in Ids : sessions[j] = q
      BY <2>2 DEF InTable
    <3>2. q # None /\ object[q].id = j
      BY <3>1, BrowserAssumption DEF SessionsInv, TableInv
    <3> QED
      BY <3>1, <3>2, <2>0 DEF InTable, TypeOK
  <2>3. \A q \in Sessions : q # o => Kept(q)'
    BY <2>0, <2>2, <1>g, <1>s, OthersKept
  <2> QED
    BY <2>0, <2>1, <2>3 DEF Kept, AllKept
<1>7. ASSUME NEW t \in Threads, NEW o \in Sessions, NEW i \in Ids, Closes(t, i, o) PROVE AllKept'
  <2>0. /\ Elsewhere(t, o) /\ ~Busy(t) /\ Stays(o) /\ (Busy(t)' => session'[t] = o)
        /\ sessions[i] = o /\ InTable(o)
        /\ crossed' = crossed \cup (IF Creating(o) \/ Closing(o) THEN {o} ELSE {})
    BY <1>7, <1>c DEF Closes, Busy, InTable
  <2>1. ASSUME NEW q \in Sessions, q # o, InTable(q) PROVE InTable(q)'
    BY <1>7, <2>0, <2>1 DEF Closes, InTable, TypeOK
  <2>2. \A q \in Sessions : q # o => Kept(q)'
    BY <2>0, <2>1, <1>g, <1>s, OthersKept
  <2>3. \A u \in Threads : Handles(u, o) => o \in crossed'
    BY <2>0 DEF Handles, Creating, Closing
  <2>4. o \in crossed' => object'[o].id \in Spent' /\ Excused(o)'
    BY DEF Spent, Excused
  <2>5. Kept(o)'
    <3>1. CASE object[o].context \in {"none", "launching"}
      <4>1. pc'[t] = "idle" /\ object'[o].context = object[o].context
        BY <1>7, <3>1 DEF Closes
      <4>2. \A u \in Threads : Handles(u, o)' => Handles(u, o)
        BY <4>1, <2>0, <1>c DEF Handles, Elsewhere
      <4>3. object[o].context = "launching" => o \in crossed'
        BY <2>0, <2>3, <1>s DEF Steady, Handles, CreatePc
      <4> QED
        BY <3>1, <4>1, <4>2, <4>3, <2>3, <2>4 DEF Kept
    <3>2. CASE object[o].context \notin {"none", "launching"}
      <4>1. /\ sessions' = sessions /\ session'[t] = o /\ pc[t] = "idle"
            /\ object'[o].context = IF object[o].context = "open" THEN "closing" ELSE object[o].context
            /\ object[o].context = "open" => pc'[t] = "closing"
        BY <1>7, <3>2 DEF Closes
      <4>2. InTable(o)'
        BY <4>1, <2>0 DEF InTable
      <4>3. ~Excused(o)' /\ object'[o].context = "closing" =>
               \E u \in Threads : session'[u] = o /\ pc'[u] = "closing"
        <5>1. CASE object[o].context = "open"
          BY <5>1, <4>1
        <5>2. CASE object[o].context # "open"
          <6> SUFFICES ASSUME ~Excused(o)', object'[o].context = "closing"
                       PROVE  \E u \in Threads : session'[u] = o /\ pc'[u] = "closing"
            OBVIOUS
          <6>1. PICK u \in Threads : session[u] = o /\ pc[u] = "closing"
            BY <5>2, <4>1, <2>0, <1>e, <1>s DEF Kept
          <6> QED
            BY <6>1, <4>1, <2>0 DEF Elsewhere
        <5> QED
          BY <5>1, <5>2
      <4> QED
        BY <4>2, <4>3 DEF Kept
    <3> QED
      BY <3>1, <3>2
  <2> QED
    BY <2>2, <2>5 DEF AllKept
<1>8. CASE Crashes
  <2> SUFFICES ASSUME NEW o \in Sessions PROVE Kept(o)'
    BY DEF AllKept
  <2>1. /\ Stays(o) /\ object'[o].context \in {object[o].context, "gone"}
        /\ UNCHANGED <<sessions, pc, session>>
    BY <1>8 DEF Crashes
  <2>2. InTable(o)' = InTable(o) /\ \A u \in Threads : Handles(u, o)' <=> Handles(u, o)
    BY <2>1 DEF InTable, Handles
  <2> QED
    BY <2>1, <2>2, <1>e, <1>g, <1>s DEF Kept, Stays
<1>9. CASE Swept
  <2> SUFFICES ASSUME NEW o \in Sessions PROVE Kept(o)'
    BY DEF AllKept
  <2>1. UNCHANGED <<sessions, object, pc, session, crossed, stranded, displaced>>
    BY <1>9 DEF Swept
  <2> QED
    BY <2>1, <1>s DEF Kept, Spent, Excused, InTable, Handles
<1>10. ASSUME NEW i \in Ids, Refused(i) PROVE AllKept'
  <2> SUFFICES ASSUME NEW o \in Sessions PROVE Kept(o)'
    BY DEF AllKept
  <2>1. UNCHANGED <<object, pc, session>> /\ Stays(o)
    BY <1>10 DEF Refused, Stays
  <2>2. InTable(o) => InTable(o)' \/ object'[o].id \in Spent'
    BY <1>10, RefusedFacts
  <2>3. object'[o].id \in Spent' => Excused(o)'
    BY DEF Excused, Spent
  <2> QED
    BY <2>1, <2>2, <2>3, <1>e, <1>g, <1>s DEF Kept, Handles
<1> QED
  BY <1>1, <1>2, <1>3, <1>4, <1>5, <1>6, <1>7, <1>8, <1>9, <1>10 DEF Effect

LEMMA LockedStep ==
    ASSUME TypeOK, SessionsInv, AllSteady, AllKept, Locked, Effect
    PROVE  Locked'
<1>g. Spent \subseteq Spent' /\ stranded \subseteq stranded'
  BY SpentGrows
<1>c. "idle" \notin CreatePc \cup ClosePc
  BY DEF CreatePc, ClosePc
<1>p. "shared" \notin Profiles /\ profileLocks \subseteq Profiles
  BY BrowserAssumption DEF TypeOK
<1>s. ASSUME NEW o \in Sessions PROVE Steady(o) /\ Kept(o)
  BY DEF AllSteady, AllKept
<1>l. ASSUME NEW p \in profileLocks
      PROVE  \E w \in Sessions : object[w].place = p /\ (Claims(w) \/ Excused(w))
  BY DEF Locked
\* It is enough that what claims or is excused stays so, or its profile is free.
<1>w. ASSUME NEW t \in Threads, NEW o \in Sessions, Elsewhere(t, o), Stays(o),
             Busy(t) => session[t] = o, Busy(t)' => session'[t] = o,
             profileLocks' \subseteq profileLocks,
             \A q \in Sessions : q # o /\ InTable(q) => InTable(q)' \/ object[q].id \in Spent',
             object[o].place \in profileLocks' /\ Claims(o) /\ ~Excused(o) => Claims(o)' \/ Excused(o)'
      PROVE  Locked'
  <2> SUFFICES ASSUME NEW p \in profileLocks'
               PROVE  \E w \in Sessions : object'[w].place = p /\ (Claims(w)' \/ Excused(w)')
    BY DEF Locked
  <2>1. PICK w \in Sessions : object[w].place = p /\ (Claims(w) \/ Excused(w))
    BY <1>w, <1>l
  <2>2. CASE w = o
    <3>1. Excused(o) => Excused(o)'
      BY <1>w, <1>g DEF Excused, Spent, Stays
    <3> QED
      BY <2>1, <2>2, <3>1, <1>w DEF Stays
  <2>3. CASE w # o
    <3>1. object'[w] = object[w]
      BY <2>3, <1>w DEF Elsewhere
    <3>2. Claims(w)' \/ Excused(w)'
      BY <2>1, <2>3, <1>w, <1>g, OthersKept
    <3> QED
      BY <2>1, <3>1, <3>2
  <2> QED
    BY <2>2, <2>3
<1>1. ASSUME NEW t \in Threads, NEW o \in Sessions, CreationFails(t, o) PROVE Locked'
  <2>0. /\ Handles(t, o) /\ Elsewhere(t, o) /\ ~Busy(t)' /\ Stays(o) /\ TakenOut(o)
        /\ profileLocks' \subseteq profileLocks /\ session[t] = o
    BY <1>1, <1>c DEF CreationFails, Handles, Busy
  <2>1. \A q \in Sessions : q # o /\ InTable(q) => InTable(q)' \/ object[q].id \in Spent'
    BY <2>0, <1>g, OthersStay
  <2>2. CASE pc[t] = "page"
    <3>1. Excused(o)'
      BY <1>1, <2>2 DEF CreationFails, Excused
    <3> QED
      BY <2>0, <2>1, <3>1, <1>w
  <2>3. CASE pc[t] = "context"
    <3>1. object[o].place \notin profileLocks'
      BY <1>1, <2>3 DEF CreationFails
    <3> QED
      BY <2>0, <2>1, <3>1, <1>w
  <2>4. CASE pc[t] \in {"core", "chromium"}
    <3>1. ~Claims(o)
      <4>1. object[o].context = "none"
        BY <2>0, <2>4, <1>s DEF Steady, HandledAt
      <4>2. \A u \in Threads : ~(session[u] = o /\ pc[u] \in ClosePc)
        BY <2>0, <2>4, <1>s, NobodyCloses
      <4> QED
        BY <4>1, <4>2 DEF Claims, ClosePc
    <3> QED
      BY <2>0, <2>1, <3>1, <1>w
  <2> QED
    BY <1>1, <2>2, <2>3, <2>4 DEF CreationFails, CreatePc
<1>2. ASSUME NEW t \in Threads, NEW o \in Sessions, GoesOn(t, o) PROVE Locked'
  <2>0. /\ Handles(t, o) /\ Elsewhere(t, o) /\ Stays(o) /\ pc[t] \in CreatePc
        /\ (Busy(t)' => session'[t] = o) /\ session[t] = o
    BY <1>2, <1>c DEF GoesOn, Proceeds, Handles, CreatePc, ClosePc, Busy
  <2>1. \A q \in Sessions : InTable(q)' = InTable(q)
    BY <1>2 DEF GoesOn, InTable
  <2>2. CASE object'[o].context \in {"launching", "open"}
    <3>1. Claims(o)'
      BY <2>2 DEF Claims
    <3>2. profileLocks' \subseteq profileLocks \cup {object[o].place}
      BY <1>2 DEF GoesOn, Proceeds
    <3> SUFFICES ASSUME NEW p \in profileLocks'
                 PROVE  \E w \in Sessions : object'[w].place = p /\ (Claims(w)' \/ Excused(w)')
      BY DEF Locked
    <3>3. CASE p = object[o].place
      BY <3>1, <3>3, <2>0 DEF Stays
    <3>4. CASE p # object[o].place
      <4>1. PICK w \in Sessions : object[w].place = p /\ (Claims(w) \/ Excused(w))
        BY <3>2, <3>4, <1>l
      <4>2. w # o
        BY <4>1, <3>4
      <4>3. Claims(w)' \/ Excused(w)'
        BY <4>1, <4>2, <2>0, <2>1, <1>g, OthersKept
      <4> QED
        BY <4>1, <4>2, <4>3, <2>0 DEF Elsewhere
    <3> QED
      BY <3>3, <3>4
  <2>3. CASE object'[o].context \notin {"launching", "open"}
    <3>1. pc[t] \in {"core", "chromium", "got"} /\ profileLocks' = profileLocks
      BY <1>2, <2>3 DEF GoesOn, Proceeds
    <3>2. ~Claims(o)
      <4>1. object[o].context = "none"
        BY <2>0, <3>1, <1>s DEF Steady, HandledAt
      <4>2. \A u \in Threads : ~(session[u] = o /\ pc[u] \in ClosePc)
        BY <2>0, <3>1, <1>s, NobodyCloses
      <4> QED
        BY <4>1, <4>2 DEF Claims, ClosePc
    <3> QED
      BY <2>0, <2>1, <3>1, <3>2, <1>w
  <2> QED
    BY <2>2, <2>3
<1>3. ASSUME NEW t \in Threads, NEW o \in Sessions, Uses(t, o) PROVE Locked'
  <2>0. /\ ~Busy(t) /\ ~Busy(t)' /\ Elsewhere(t, o) /\ Stays(o)
        /\ object'[o].context = object[o].context /\ profileLocks' = profileLocks
    BY <1>3 DEF Uses, Busy, tables
  <2>1. \A q \in Sessions : InTable(q)' = InTable(q)
    BY <1>3 DEF Uses, InTable, tables
  <2>2. \A u \in Threads, x \in ClosePc :
           (session'[u] = o /\ pc'[u] = x) <=> (session[u] = o /\ pc[u] = x)
    BY <2>0 DEF Busy, Elsewhere
  <2>3. Claims(o) => Claims(o)'
    BY <2>0, <2>1, <2>2 DEF Claims, ClosePc
  <2> QED
    BY <2>0, <2>1, <2>3, <1>w
<1>4. ASSUME NEW t \in Threads, NEW o \in Sessions, HasClosed(t, o) PROVE Locked'
  <2>0. /\ Elsewhere(t, o) /\ Stays(o) /\ session[t] = o /\ session'[t] = o
        /\ profileLocks' \subseteq profileLocks \ {object[o].place}
    BY <1>4 DEF HasClosed, Unlocks
  <2>1. \A q \in Sessions : InTable(q)' = InTable(q)
    BY <1>4 DEF HasClosed, InTable
  <2> QED
    BY <2>0, <2>1, <1>w
<1>5. ASSUME NEW t \in Threads, NEW o \in Sessions, Quits(t, o) PROVE Locked'
  <2>0. /\ Handles(t, o) /\ Elsewhere(t, o) /\ ~Busy(t)' /\ Stays(o) /\ TakenOut(o)
        /\ profileLocks' = profileLocks /\ session[t] = o /\ pc[t] = "quit"
    BY <1>5, <1>c DEF Quits, Handles, Busy, ClosePc
  <2>1. \A q \in Sessions : q # o /\ InTable(q) => InTable(q)' \/ object[q].id \in Spent'
    BY <2>0, <1>g, OthersStay
  <2>2. Claims(o) /\ ~Excused(o) => FALSE
    <3> SUFFICES ASSUME Claims(o), ~Excused(o) PROVE FALSE
      OBVIOUS
    <3>1. object[o].context \in {"closing", "closed", "gone"}
      BY <2>0, <1>s DEF Steady, HandledAt, ClosePc
    <3>2. ASSUME NEW u \in Threads, session[u] = o, pc[u] \in {"closing", "closing again"} PROVE FALSE
      <4>1. Handles(u, o)
        BY <3>2 DEF Handles, ClosePc
      <4> QED
        BY <4>1, <3>2, <2>0, <1>s, OneHandler
    <3>3. object[o].context # "closing"
      BY <3>2, <1>s DEF Kept
    <3> QED
      BY <3>1, <3>2, <3>3, <2>0 DEF Claims
  <2> QED
    BY <2>0, <2>1, <2>2, <1>w
<1>6. ASSUME NEW t \in Threads, NEW o \in Sessions, NEW i \in Ids, Begins(t, i, o) PROVE Locked'
  <2>0. /\ Elsewhere(t, o) /\ ~Busy(t) /\ session'[t] = o /\ profileLocks' = profileLocks
        /\ sessions' = [sessions EXCEPT ![i] = o] /\ object[o].place = "shared"
        /\ sessions[i] # None => i \in Spent'
    BY <1>6, <1>c DEF Begins, Busy, Spent
  <2>1. ASSUME NEW q \in Sessions, q # o, InTable(q) PROVE InTable(q)' \/ object[q].id \in Spent'
    <3>1. PICK j \in Ids : sessions[j] = q
      BY <2>1 DEF InTable
    <3>2. q # None /\ object[q].id = j
      BY <3>1, BrowserAssumption DEF SessionsInv, TableInv
    <3> QED
      BY <3>1, <3>2, <2>0 DEF InTable, TypeOK
  <2> SUFFICES ASSUME NEW p \in profileLocks'
               PROVE  \E w \in Sessions : object'[w].place = p /\ (Claims(w)' \/ Excused(w)')
    BY DEF Locked
  <2>2. PICK w \in Sessions : object[w].place = p /\ (Claims(w) \/ Excused(w))
    BY <2>0, <1>l
  <2>3. w # o /\ object'[w] = object[w]
    BY <2>0, <2>2, <1>p DEF Elsewhere
  <2>4. Claims(w)' \/ Excused(w)'
    BY <2>0, <2>1, <2>2, <2>3, <1>g, OthersKept
  <2> QED
    BY <2>2, <2>3, <2>4
<1>7. ASSUME NEW t \in Threads, NEW o \in Sessions, NEW i \in Ids, Closes(t, i, o) PROVE Locked'
  <2>0. /\ Elsewhere(t, o) /\ ~Busy(t) /\ Stays(o) /\ (Busy(t)' => session'[t] = o)
        /\ sessions[i] = o /\ profileLocks' \subseteq profileLocks
    BY <1>7, <1>c DEF Closes, Busy, Unlocks
  <2>1. ASSUME NEW q \in Sessions, q # o, InTable(q) PROVE InTable(q)'
    BY <1>7, <2>0, <2>1 DEF Closes, InTable, TypeOK
  <2>2. object[o].place \in profileLocks' => Claims(o)'
    <3>1. object[o].context \in {"none", "launching"} => object[o].place \notin profileLocks'
      BY <1>7 DEF Closes, Unlocks
    <3>2. object[o].context \notin {"none", "launching"} =>
             session'[t] = o /\ pc'[t] \in {"closing", "closing again"}
      BY <1>7 DEF Closes
    <3> QED
      BY <3>1, <3>2 DEF Claims
  <2> QED
    BY <2>0, <2>1, <2>2, <1>w
<1>8. CASE Crashes
  <2> SUFFICES ASSUME NEW p \in profileLocks'
               PROVE  \E w \in Sessions : object'[w].place = p /\ (Claims(w)' \/ Excused(w)')
    BY DEF Locked
  <2>0. UNCHANGED <<sessions, profileLocks, pc, session, crossed, stranded, displaced>>
    BY <1>8 DEF Crashes
  <2>1. PICK w \in Sessions : object[w].place = p /\ (Claims(w) \/ Excused(w))
    BY <2>0, <1>l
  <2>2. /\ Stays(w)
        /\ \/ object'[w].context = object[w].context
           \/ /\ object'[w].context = "gone"
              /\ object[w].browser # None \/ object[w].context \in {"open", "closing", "closed"}
    BY <1>8 DEF Crashes
  <2>3. Excused(w) => Excused(w)'
    BY <2>0, <2>2, <1>g DEF Excused, Spent, Stays
  <2>4. InTable(w)' = InTable(w)
    BY <2>0 DEF InTable
  <2>5. object[w].browser = None
    BY <2>0, <2>1, <1>p, <1>s DEF Steady
  <2>6. ASSUME Claims(w), ~Excused(w) PROVE Claims(w)'
    <3>1. CASE object'[w].context = object[w].context
      BY <3>1, <2>0, <2>4, <2>6 DEF Claims
    <3>2. CASE object'[w].context = "gone" /\ object[w].context = "open"
      <4>1. InTable(w)'
        BY <3>2, <2>4, <2>6, <1>s DEF Kept
      <4>2. \A u \in Threads : ~(session[u] = w /\ pc[u] = "quit")
        BY <3>2, <1>s DEF Steady, Handles, HandledAt, ClosePc
      <4> QED
        BY <4>1, <4>2, <3>2, <2>0 DEF Claims
    <3>3. CASE object'[w].context = "gone" /\ object[w].context = "closing"
      BY <3>3, <2>0, <2>6, <1>s DEF Kept, Claims
    <3>4. CASE object'[w].context = "gone" /\ object[w].context = "closed"
      BY <3>4, <2>0, <2>6 DEF Claims
    <3> QED
      BY <2>2, <2>5, <3>1, <3>2, <3>3, <3>4
  <2> QED
    BY <2>1, <2>2, <2>3, <2>6 DEF Stays
<1>9. CASE Swept
  <2> SUFFICES ASSUME NEW p \in profileLocks'
               PROVE  \E w \in Sessions : object'[w].place = p /\ (Claims(w)' \/ Excused(w)')
    BY DEF Locked
  <2>0. UNCHANGED <<sessions, profileLocks, object, pc, session, crossed, stranded, displaced>>
    BY <1>9 DEF Swept
  <2>1. PICK w \in Sessions : object[w].place = p /\ (Claims(w) \/ Excused(w))
    BY <2>0, <1>l
  <2>2. InTable(w)' = InTable(w)
    BY <2>0 DEF InTable
  <2>3. Claims(w) => Claims(w)'
    BY <2>0, <2>2 DEF Claims
  <2>4. Excused(w) => Excused(w)'
    BY <2>0, <1>g DEF Excused, Spent
  <2> QED
    BY <2>0, <2>1, <2>3, <2>4
<1>10. ASSUME NEW i \in Ids, Refused(i) PROVE Locked'
  <2> SUFFICES ASSUME NEW p \in profileLocks'
               PROVE  \E w \in Sessions : object'[w].place = p /\ (Claims(w)' \/ Excused(w)')
    BY DEF Locked
  <2>0. UNCHANGED <<profileLocks, object, pc, session>>
    BY <1>10 DEF Refused
  <2>1. PICK w \in Sessions : object[w].place = p /\ (Claims(w) \/ Excused(w))
    BY <2>0, <1>l
  <2>2. Excused(w) => Excused(w)'
    BY <2>0, <1>g DEF Excused, Spent
  <2>3. InTable(w) => InTable(w)' \/ Excused(w)'
    BY <1>10, RefusedFacts DEF Excused, Spent
  <2>4. Claims(w) => Claims(w)' \/ Excused(w)'
    BY <2>0, <2>3 DEF Claims
  <2> QED
    BY <2>0, <2>1, <2>2, <2>4
<1> QED
  BY <1>1, <1>2, <1>3, <1>4, <1>5, <1>6, <1>7, <1>8, <1>9, <1>10 DEF Effect

(***************************************************************************)
(* The sweep and the shared browser.                                       *)
(***************************************************************************)
LEMMA SparedStep ==
    ASSUME TypeOK, SessionsInv, AllSteady, AllSpared, Effect
    PROVE  AllSpared'
<1>t. \A o \in Sessions : object[o].browser \in Browsers \cup {None}
  BY SessionFields DEF TypeOK
<1>s. ASSUME NEW o \in Sessions PROVE Steady(o) /\ OpenSpared(o)
  BY DEF AllSteady, AllSpared
<1>k. ASSUME NEW q \in Sessions, object'[q] = object[q], InTable(q)' => InTable(q),
             \A b \in Browsers : process'[b] = process[b] \/ process'[b] = "up"
      PROVE  OpenSpared(q)'
  BY <1>k, <1>t, <1>s DEF OpenSpared
<1>1. ASSUME NEW t \in Threads, NEW o \in Sessions,
             CreationFails(t, o) \/ Uses(t, o) \/ HasClosed(t, o) \/ Quits(t, o)
      PROVE  AllSpared'
  <2>1. Elsewhere(t, o) /\ process' = process /\ object'[o].browser = object[o].browser
    BY <1>1 DEF CreationFails, Uses, HasClosed, Quits, tables
  <2>2. \A q \in Sessions : InTable(q)' => InTable(q)
    <3>1. TakenOut(o) \/ sessions' = sessions
      BY <1>1 DEF CreationFails, Uses, HasClosed, Quits, tables
    <3> QED
      BY <3>1, TakenOutOfTable DEF InTable
  <2>3. OpenSpared(o)'
    <3>1. object'[o].context = "open" => object[o].context = "open"
      BY <1>1 DEF CreationFails, Uses, HasClosed, Quits
    <3> QED
      BY <3>1, <2>1, <2>2, <1>s DEF OpenSpared
  <2>4. ASSUME NEW q \in Sessions, q # o PROVE OpenSpared(q)'
    BY <2>1, <2>2, <2>4, <1>k DEF Elsewhere
  <2> QED
    BY <2>3, <2>4 DEF AllSpared
<1>2. ASSUME NEW t \in Threads, NEW o \in Sessions, GoesOn(t, o) PROVE AllSpared'
  <2>1. /\ Elsewhere(t, o) /\ Handles(t, o)
        /\ \A b \in Browsers : process'[b] = process[b] \/ process'[b] = "up"
        /\ \A q \in Sessions : InTable(q)' = InTable(q)
    BY <1>2 DEF GoesOn, Handles, Proceeds, CreatePc, InTable
  <2>2. OpenSpared(o)'
    <3>1. CASE pc[t] = "context"
      <4>1. /\ object'[o].browser = object[o].browser
            /\ object[o].place = "shared" => process[object[o].browser] = "up"
        BY <1>2, <3>1 DEF GoesOn, Proceeds
      <4>2. object[o].place # "shared" => object[o].browser = None
        BY <1>s DEF Steady
      <4> QED
        BY <4>1, <4>2, <2>1, <1>t DEF OpenSpared
    <3>2. CASE pc[t] = "page"
      <4>1. object'[o].browser = object[o].browser /\ object[o].context = "open"
        BY <1>2, <3>2 DEF GoesOn, Proceeds
      <4> QED
        BY <4>1, <2>1, <1>s, <1>t DEF OpenSpared
    <3>3. CASE pc[t] \in {"core", "chromium", "got"}
      <4>1. object[o].context = "none"
        BY <3>3, <2>1, <1>s DEF Steady, HandledAt
      <4>2. object'[o].context # "open"
        BY <4>1, <3>3, <1>2 DEF GoesOn, Proceeds
      <4> QED
        BY <4>2 DEF OpenSpared
    <3> QED
      BY <1>2, <3>1, <3>2, <3>3 DEF GoesOn, Proceeds
  <2>3. ASSUME NEW q \in Sessions, q # o PROVE OpenSpared(q)'
    BY <2>1, <2>3, <1>k DEF Elsewhere
  <2> QED
    BY <2>2, <2>3 DEF AllSpared
<1>3. ASSUME NEW t \in Threads, NEW o \in Sessions, NEW i \in Ids, Begins(t, i, o) PROVE AllSpared'
  <2>1. Elsewhere(t, o) /\ process' = process /\ object'[o].browser = None
    BY <1>3 DEF Begins
  <2>2. \A q \in Sessions : q # o /\ InTable(q)' => InTable(q)
    BY <1>3 DEF Begins, InTable, TypeOK
  <2>3. ASSUME NEW q \in Sessions, q # o PROVE OpenSpared(q)'
    BY <2>1, <2>2, <2>3, <1>k DEF Elsewhere
  <2> QED
    BY <2>1, <2>3 DEF AllSpared, OpenSpared
<1>4. ASSUME NEW t \in Threads, NEW o \in Sessions, NEW i \in Ids, Closes(t, i, o) PROVE AllSpared'
  <2>1. Elsewhere(t, o) /\ process' = process /\ object'[o].context # "open"
    BY <1>4 DEF Closes
  <2>2. \A q \in Sessions : InTable(q)' => InTable(q)
    BY <1>4, BrowserAssumption DEF Closes, InTable, TypeOK
  <2>3. ASSUME NEW q \in Sessions, q # o PROVE OpenSpared(q)'
    BY <2>1, <2>2, <2>3, <1>k DEF Elsewhere
  <2> QED
    BY <2>1, <2>3 DEF AllSpared, OpenSpared
<1>5. CASE Crashes
  <2> SUFFICES ASSUME NEW o \in Sessions PROVE OpenSpared(o)'
    BY DEF AllSpared
  <2>1. /\ object'[o].browser = object[o].browser
        /\ object'[o].context \in {object[o].context, "gone"}
        /\ \A b \in Browsers : process'[b] \in {process[b], "gone"}
        /\ InTable(o)' = InTable(o)
    BY <1>5 DEF Crashes, InTable
  <2> QED
    BY <2>1, <1>s, <1>t DEF OpenSpared
<1>6. CASE Swept
  <2> SUFFICES ASSUME NEW o \in Sessions, InTable(o)', object'[o].context = "open",
                      object'[o].browser # None
               PROVE  process'[object'[o].browser] # "closing"
    BY DEF AllSpared, OpenSpared
  <2>1. /\ UNCHANGED <<sessions, object>>
        /\ \A b \in Browsers : process'[b] = process[b] \/ (b = managedBrowser /\ ~InUse(b))
    BY <1>6 DEF Swept
  <2>2. InTable(o) /\ object[o].browser \in Browsers
    BY <2>1, <1>t DEF InTable
  <2>3. InUse(object[o].browser)
    BY <2>2, <1>s, BrowserAssumption DEF InUse, InTable, Steady
  <2>4. process[object[o].browser] # "closing"
    BY <2>1, <2>2, <1>s DEF OpenSpared
  <2> QED
    BY <2>1, <2>2, <2>3, <2>4
<1>7. ASSUME NEW i \in Ids, Refused(i) PROVE AllSpared'
  <2> SUFFICES ASSUME NEW q \in Sessions PROVE OpenSpared(q)'
    BY DEF AllSpared
  <2>1. object' = object /\ process' = process
    BY <1>7 DEF Refused
  <2> QED
    BY <2>1, <1>7, <1>k, RefusedFacts
<1> QED
  BY <1>1, <1>2, <1>3, <1>4, <1>5, <1>6, <1>7 DEF Effect

(***************************************************************************)
(* Theorems.                                                               *)
(***************************************************************************)
LEMMA InvInit == Init => Inv
<1> SUFFICES ASSUME Init PROVE Inv
  OBVIOUS
<1>n. None \notin Sessions
  BY BrowserAssumption
<1>1. TypeOK
  BY UnusedType, BrowserAssumption DEF Init, TypeOK, Pc
<1>2. SessionsInv
  <2>1. \A o \in Sessions : Fresh(o)
    BY <1>n DEF Init, Fresh, Unused, InTable
  <2>2. \A o \in Sessions : object[o].place \notin Profiles
    BY BrowserAssumption DEF Init, Unused
  <2> QED
    BY <2>1, <2>2 DEF Init, SessionsInv, TableInv
<1>3. ClaimsInv
  BY <1>n DEF Init, ClaimsInv, Claims, Unused
<1>4. Placed
  BY BrowserAssumption DEF Init, Placed, Unused
<1> QED
  BY <1>1, <1>2, <1>3, <1>4 DEF Inv

\* The table, the objects, the locks and the threads agree as SessionsInv and
\* ClaimsInv say, after any steps of createSession, closeSession, the sweep and
\* the browsers.
THEOREM SessionsInvariant == Spec => []Inv
<1>1. Inv /\ [Next]_vars => Inv'
  BY TypeStep, PlacedStep, SessionsStep, ClaimsStep DEF Inv
<1> QED
  BY <1>1, InvInit, PTL DEF Spec

\* Every variable keeps its type.
THEOREM SessionsTypeCorrect == Spec => []TypeOK
<1>1. Inv => TypeOK
  BY DEF Inv
<1> QED
  BY <1>1, SessionsInvariant, PTL

\* The browser of a profile has its directory alone and its lock, for any number
\* of jobs and sessions, unless a session of the profile was closed while it was
\* created or by two callers at once, or a session of mode "existing" that names
\* the profile took the lock away when it was closed.
THEOREM ProfileExclusiveHolds == Spec => []ProfileExclusive
<1>1. Inv => ProfileExclusive
  <2> SUFFICES ASSUME Inv, NEW o \in Sessions, Occupies(o), ~Spoiled(object[o].place)
               PROVE  /\ object[o].place \in profileLocks
                      /\ \A q \in Sessions \ {o} : Occupies(q) => object[q].place # object[o].place
    BY DEF ProfileExclusive, Spoiled
  <2>1. object[o].place \in Profiles /\ Claims(o)
    BY DEF Occupies, Claims
  <2>2. \A q \in Sessions : Occupies(q) => Claims(q)
    BY DEF Occupies, Claims
  <2> QED
    BY <2>1, <2>2 DEF Inv, ClaimsInv
<1> QED
  BY <1>1, SessionsInvariant, PTL

AllFound == Inv /\ AllSteady /\ AllKept /\ Locked /\ AllSpared

LEMMA FoundInit == Init => AllFound
<1> SUFFICES ASSUME Init PROVE AllFound
  OBVIOUS
<1>n. None \notin Sessions /\ "idle" \notin CreatePc \cup ClosePc
  BY BrowserAssumption DEF CreatePc, ClosePc
<1>1. ASSUME NEW o \in Sessions
      PROVE  /\ object[o].context = "none" /\ object[o].state = "new"
             /\ object[o].browser = None
             /\ \A t \in Threads : ~Handles(t, o)
  BY <1>n DEF Init, Unused, Handles
<1>2. AllSteady
  BY <1>1 DEF AllSteady, Steady
<1>3. AllKept
  BY <1>1 DEF AllKept, Kept
<1>4. Locked
  BY DEF Init, Locked
<1>5. AllSpared
  BY <1>1 DEF AllSpared, OpenSpared
<1> QED
  BY <1>2, <1>3, <1>4, <1>5, InvInit DEF AllFound

LEMMA FoundStep == AllFound /\ [Next]_vars => AllFound'
<1> SUFFICES ASSUME AllFound, [Next]_vars PROVE AllFound'
  OBVIOUS
<1>1. TypeOK /\ Placed /\ SessionsInv /\ AllSteady /\ AllKept /\ Locked /\ AllSpared
  BY DEF AllFound, Inv
<1>2. Effect
  BY <1>1, StepEffect
<1>3. Inv'
  BY TypeStep, PlacedStep, SessionsStep, ClaimsStep DEF AllFound, Inv
<1>4. AllSteady' /\ AllKept' /\ Locked' /\ AllSpared'
  BY <1>1, <1>2, SteadyStep, KeptStep, LockedStep, SparedStep
<1> QED
  BY <1>3, <1>4 DEF AllFound

\* Where each session's context and threads are, what of it the table finds,
\* and what each lock belongs to, after any steps.
THEOREM SessionsFound == Spec => []AllFound
<1> QED
  BY FoundInit, FoundStep, PTL DEF Spec

\* No context and no lock is forgotten by the table while it is open or taken,
\* for any number of jobs and sessions, but for a first page that failed, two
\* closes that met, or an id that a create took from a lost session.
THEOREM NothingStraysHolds == Spec => []NothingStrays
<1>1. ASSUME AllFound PROVE NothingStrays
  <2>1. ASSUME NEW o \in Sessions PROVE Kept(o)
    BY <1>1 DEF AllFound, AllKept
  <2>2. ASSUME NEW o \in Sessions, InTable(o) PROVE Reachable(o)
    BY <2>2 DEF InTable, Reachable
  <2>3. ASSUME NEW o \in Sessions, Claims(o), ~Excused(o) PROVE Reachable(o)
    <3>1. CASE object[o].context \in {"launching", "open"}
      BY <3>1, <2>1, <2>2, <2>3 DEF Kept
    <3>2. CASE \E t \in Threads : session[t] = o /\ pc[t] \in {"closing", "closing again"}
      BY <3>2 DEF Reachable, Closing, ClosePc
    <3>3. CASE object[o].context = "closing"
      BY <3>3, <2>1, <2>3, <3>2 DEF Kept
    <3>4. CASE object[o].context = "gone" /\ InTable(o)
      BY <3>4, <2>2
    <3> QED
      BY <2>3, <3>1, <3>2, <3>3, <3>4 DEF Claims
  <2>4. ASSUME NEW o \in Sessions, object[o].context \in {"launching", "open"}
        PROVE  Reachable(o) \/ Excused(o)
    BY <2>3, <2>4 DEF Claims
  <2>5. ASSUME NEW p \in profileLocks
        PROVE  \E o \in Sessions : object[o].place = p /\ (Reachable(o) \/ Excused(o))
    <3>1. PICK o \in Sessions : object[o].place = p /\ (Claims(o) \/ Excused(o))
      BY <1>1 DEF AllFound, Locked
    <3> QED
      BY <3>1, <2>3
  <2> QED
    BY <2>4, <2>5 DEF NothingStrays
<1> QED
  BY <1>1, SessionsFound, PTL

\* The sweep closes the shared browser only when no session of the table has an
\* open context in it, however many sessions are being created meanwhile.
THEOREM SweepSparesOpenHolds == Spec => []SweepSparesOpen
<1>1. ASSUME AllFound PROVE SweepSparesOpen
  <2> SUFFICES ASSUME NEW i \in Ids, sessions[i] # None, object[sessions[i]].context = "open",
                      object[sessions[i]].browser # None
               PROVE  process[object[sessions[i]].browser] # "closing"
    BY DEF SweepSparesOpen
  <2>1. sessions[i] \in Sessions
    BY <1>1 DEF AllFound, Inv, TypeOK
  <2>2. OpenSpared(sessions[i])
    BY <1>1, <2>1 DEF AllFound, AllSpared
  <2> QED
    BY <2>1, <2>2 DEF OpenSpared, InTable
<1> QED
  BY <1>1, SessionsFound, PTL

-----------------------------------------------------------------------------
(***************************************************************************)
(* The safety of BrowserPages for any number of pages and waiting jobs.    *)
(* Dialogs: the timer of the pending one stops only in the step that gives *)
(* it to a job or forgets it.  Refs: between a snapshot and the use of one *)
(* of its refs, whatever makes another page the current one or puts a new  *)
(* document into the page on behalf of the agent also makes the refs old,  *)
(* and a page that has gone does not come back.                            *)
(***************************************************************************)

Refs == [page : Pages \cup {NoPage}, seen : Pages \cup {NoPage}, fresh : BOOLEAN,
         doc : {"same", "changed", "excused"}]
Operations == [kind : Kinds, at : At, page : Pages \cup {NoPage}, byRef : BOOLEAN]

\* A snapshot renders the current page, as long as it is there.
TreeOfCurrent == op.at = "tree" /\ op.page \in pages => current = op.page

RefsOfOnePage == refs.page = refs.seen

\* Refs of this revision are of the current page, unless a tab is opening.
FreshIsCurrent ==
    refs.fresh /\ op.at # "first load" /\ refs.seen \in pages => current = refs.seen

\* A document the agent has changed has its revision coming.
FreshIsShown ==
    refs.fresh /\ refs.doc = "changed" => op.at = "settled" /\ refs.seen = op.page

\* An interaction by ref found the page of the ref, and stays with it.
RefInUse ==
    op.kind = "interact" /\ op.byRef /\ op.at \in {"found", "acting"} /\ refs # NoRefs =>
       /\ refs.doc # "changed"
       /\ op.at = "found" /\ refs.seen \in pages => op.page = refs.seen
       /\ op.at = "acting" => op.page = refs.seen

RefsInv == TreeOfCurrent /\ RefsOfOnePage /\ FreshIsCurrent /\ FreshIsShown /\ RefInUse
PagesInv == PagesTypeOK /\ DialogWatched /\ RefsInv

(***************************************************************************)
(* Records.                                                                *)
(***************************************************************************)
LEMMA NoRefsType == NoRefs \in Refs /\ NoOp \in Operations
BY DEF NoRefs, Refs, NoOp, Operations, Kinds, At

LEMMA RefsFields ==
    ASSUME NEW r \in Refs
    PROVE  /\ r.page \in Pages \cup {NoPage} /\ r.seen \in Pages \cup {NoPage}
           /\ r.fresh \in BOOLEAN /\ r.doc \in {"same", "changed", "excused"}
BY DEF Refs

LEMMA OpFields ==
    ASSUME NEW o \in Operations
    PROVE  /\ o.kind \in Kinds /\ o.at \in At /\ o.page \in Pages \cup {NoPage}
           /\ o.byRef \in BOOLEAN
BY DEF Operations

LEMMA BumpRefs ==
    ASSUME NEW r \in Refs, NEW b, b = [r EXCEPT !.fresh = FALSE]
    PROVE  /\ b \in Refs /\ ~b.fresh
           /\ b.page = r.page /\ b.seen = r.seen /\ b.doc = r.doc
BY DEF Refs

LEMMA CommitRefs ==
    ASSUME NEW r \in Refs, NEW p, NEW why \in {"changed", "excused"}, NEW b, b = Commit(r, p, why)
    PROVE  /\ b \in Refs /\ b.fresh = r.fresh
           /\ b.page = r.page /\ b.seen = r.seen
           /\ b.doc = r.doc \/ (b.doc = why /\ r.seen = p)
           /\ b = r \/ r.seen = p
BY DEF Refs, Commit

LEMMA ChangedRefs ==
    ASSUME PagesTypeOK, Changed
    PROVE  /\ refs' \in Refs /\ ~refs'.fresh
           /\ refs'.page = refs.page /\ refs'.seen = refs.seen
<1>0. refs \in Refs
  BY DEF PagesTypeOK, Refs
<1>1. PICK committed \in BOOLEAN :
        refs' = [(IF committed THEN Commit(refs, op.page, "changed") ELSE refs)
                   EXCEPT !.fresh = FALSE]
  BY DEF Changed
<1>2. CASE committed
  <2>1. refs' = [Commit(refs, op.page, "changed") EXCEPT !.fresh = FALSE]
    BY <1>1, <1>2
  <2>2. /\ Commit(refs, op.page, "changed") \in Refs
        /\ Commit(refs, op.page, "changed").page = refs.page
        /\ Commit(refs, op.page, "changed").seen = refs.seen
    BY <1>0, CommitRefs
  <2> QED
    BY <2>1, <2>2, BumpRefs
<1>3. CASE ~committed
  <2>1. refs' = [refs EXCEPT !.fresh = FALSE]
    BY <1>1, <1>3
  <2> QED
    BY <2>1, <1>0, BumpRefs
<1> QED
  BY <1>2, <1>3

LEMMA AwaitOp ==
    ASSUME NEW o \in Operations, NEW at \in At, NEW b, b = [o EXCEPT !.at = at]
    PROVE  /\ b \in Operations /\ b.at = at
           /\ b.kind = o.kind /\ b.page = o.page /\ b.byRef = o.byRef
BY DEF Operations

LEMMA AwaitOpOn ==
    ASSUME NEW o \in Operations, NEW at \in At, NEW p \in Pages \cup {NoPage},
           NEW b, b = [o EXCEPT !.at = at, !.page = p]
    PROVE  b \in Operations /\ b.at = at /\ b.kind = o.kind /\ b.page = p /\ b.byRef = o.byRef
BY DEF Operations

LEMMA StartsOp ==
    ASSUME NEW kind \in Kinds, NEW at \in At, NEW p \in Pages \cup {NoPage}, NEW byRef \in BOOLEAN,
           Starts(kind, at, p, byRef)
    PROVE  /\ op' \in Operations
           /\ op'.kind = kind /\ op'.at = at /\ op'.page = p /\ op'.byRef = byRef
BY DEF Starts, Operations

(***************************************************************************)
(* Types.                                                                  *)
(***************************************************************************)
PagesType ==
    /\ attached \in BOOLEAN /\ pages \subseteq Pages /\ operators \subseteq pages
    /\ current \in pages \cup {NoPage}
    /\ dialogs \subseteq pages /\ timers \subseteq Pages /\ pending \in Pages \cup {NoPage}
    /\ waiting \in 0..MaxWaiting
    /\ state \in {"ready", "busy", "closing", "closed"}
    /\ closer \in {"no", "closing", "done"} /\ shut \in BOOLEAN

LEMMA TypeParts == PagesTypeOK <=> PagesType /\ refs \in Refs /\ op \in Operations
BY DEF PagesTypeOK, PagesType, Refs, Operations

LEMMA GoneType ==
    ASSUME PagesType, NEW set \in SUBSET pages, Gone(set)
    PROVE  /\ pages' \subseteq Pages /\ operators' \subseteq pages'
           /\ current' \in pages' \cup {NoPage} /\ dialogs' \subseteq pages'
BY DEF PagesType, Gone

LEMMA CurrentType ==
    ASSUME PagesType, NEW p \in Current
    PROVE  p \in pages /\ p \in Pages
BY DEF PagesType, Current

LEMMA StartsType ==
    ASSUME PagesTypeOK, Turn,
           NEW kind \in Kinds, NEW at \in At, NEW p \in Pages \cup {NoPage}, NEW byRef \in BOOLEAN,
           Starts(kind, at, p, byRef),
           UNCHANGED <<attached, pages, operators, dialogs, closer, shut>>,
           current' \in pages \cup {NoPage}, refs' \in Refs,
           timers' \subseteq timers, pending' = pending
    PROVE  PagesTypeOK'
<1>1. op' \in Operations
  BY StartsOp
<1>2. waiting' \in 0..MaxWaiting /\ state' = "busy"
  BY PagesAssumption DEF Starts, PagesTypeOK, Turn
<1> QED
  BY <1>1, <1>2, TypeParts DEF PagesTypeOK, PagesType, Refs, Operations

LEMMA PagesTypeStep == PagesTypeOK /\ [PagesNext]_pagesVars => PagesTypeOK'
<1> SUFFICES ASSUME PagesTypeOK, [PagesNext]_pagesVars PROVE PagesTypeOK'
  OBVIOUS
<1> USE DEF browserVars, dialogVars, closeVars
<1>t. PagesType /\ refs \in Refs /\ op \in Operations /\ NoPage \notin Pages
  BY TypeParts, PagesAssumption
<1>p. op.page \in Pages \cup {NoPage} /\ \A p \in Current : p \in pages /\ p \in Pages
  BY <1>t, OpFields, CurrentType
<1>b. ASSUME Bump PROVE refs' \in Refs
  BY <1>b, <1>t, BumpRefs DEF Bump
<1>a. ASSUME Answer PROVE op' \in Operations /\ state' = "ready"
  BY <1>a, NoRefsType DEF Answer
<1>w. ASSUME NEW at \in At, Await(at) PROVE op' \in Operations
  BY <1>w, <1>t, AwaitOp DEF Await
<1>s. ASSUME UNCHANGED <<browserVars, dialogVars, closeVars, waiting>>,
             refs' \in Refs, op' \in Operations, state' \in {state, "ready"}
      PROVE  PagesTypeOK'
  BY <1>s, <1>t DEF PagesTypeOK, PagesType, Refs, Operations
<1>f. ASSUME NEW committed \in BOOLEAN, Fails(committed) PROVE PagesTypeOK'
  <2>1. refs' \in Refs
    BY <1>f, <1>t, CommitRefs DEF Fails
  <2> QED
    BY <1>f, <1>a, <1>s, <2>1 DEF Fails
<1>o. ASSUME Turn, FailsAtOnce PROVE PagesTypeOK'
  <2>1. waiting' \in 0..MaxWaiting
    BY <1>o, <1>t, PagesAssumption DEF Turn, FailsAtOnce, PagesType
  <2> QED
    BY <1>o, <1>a, <1>t, <2>1 DEF FailsAtOnce, PagesTypeOK, PagesType, Refs, Operations
<1>k. /\ {"navigate", "snapshot", "find", "evaluate", "read", "interact", "upload",
          "screenshot", "tabs", "dialog"} \subseteq Kinds
      /\ {"goto", "settled", "tree", "title", "found", "acting", "script", "new page",
          "first load", "page closing", "titles", "dialog"} \subseteq At
  BY DEF Kinds, At
<1>1. CASE Request
  BY <1>1, <1>t, PagesAssumption DEF Request, PagesTypeOK, PagesType, Refs, Operations
<1>2. ASSUME NEW kind \in Kinds, NEW at \in At, OnPage(kind, at) PROVE PagesTypeOK'
  <2>1. CASE FailsAtOnce
    BY <1>2, <2>1, <1>o DEF OnPage
  <2>2. CASE ~FailsAtOnce
    <3>1. PICK p \in Current :
            /\ current' = p /\ Starts(kind, at, p, FALSE)
            /\ UNCHANGED <<pages, operators, dialogs, dialogVars, closeVars, refs>>
      BY <1>2, <2>2 DEF OnPage
    <3> QED
      BY <1>2, <3>1, <1>p, <1>t, StartsType DEF OnPage
  <2> QED
    BY <2>1, <2>2
<1>3. CASE StartNavigate \/ StartSnapshot \/ StartFind \/ StartEvaluate
  BY <1>3, <1>2, <1>k DEF StartNavigate, StartSnapshot, StartFind, StartEvaluate
<1>4. CASE Resolve
  <2>1. CASE FailsAtOnce
    BY <1>4, <2>1, <1>o DEF Resolve
  <2>2. CASE ~FailsAtOnce
    <3>1. PICK byRef \in BOOLEAN, kind \in {"interact", "upload", "screenshot"}, p \in Current :
            /\ current' = p /\ Starts(kind, "found", p, byRef)
            /\ UNCHANGED <<pages, operators, dialogs, dialogVars, closeVars, refs>>
      BY <1>4, <2>2 DEF Resolve
    <3>2. kind \in Kinds /\ "found" \in At
      BY <1>k
    <3> QED
      BY <1>4, <3>1, <3>2, <1>p, <1>t, StartsType DEF Resolve
  <2> QED
    BY <2>1, <2>2
<1>5. CASE GotoCommits
  BY <1>5, <1>s, <1>t, <1>w, <1>k, CommitRefs DEF GotoCommits
<1>6. CASE GotoFails \/ NotFound \/ NewPageFails \/ DialogFails \/ TreeFails \/ ActFails
  BY <1>6, <1>f DEF GotoFails, NotFound, NewPageFails, DialogFails, TreeFails, ActFails
<1>7. CASE Navigated
  BY <1>7, <1>s, <1>a, <1>b DEF Navigated
<1>8. CASE RedirectDenied
  <2>1. refs' \in Refs
    BY <1>8, <1>t DEF RedirectDenied, Refs
  <2> QED
    BY <1>8, <2>1, <1>s, <1>a DEF RedirectDenied
<1>9. CASE TreeRendered
  <2>1. PICK p \in Current :
          /\ current' = p /\ refs' = [page |-> p, seen |-> op.page, fresh |-> TRUE, doc |-> "same"]
    BY <1>9 DEF TreeRendered
  <2>2. refs' \in Refs
    BY <2>1, <1>p DEF Refs
  <2>3. op' \in Operations
    BY <1>9, <1>w, <1>k DEF TreeRendered
  <2> QED
    BY <1>9, <2>1, <2>2, <2>3, <1>t, <1>p DEF TreeRendered, PagesTypeOK, PagesType, Refs, Operations
<1>10. CASE TitleRead \/ Shot
  BY <1>10, <1>s, <1>t, <1>a DEF TitleRead, Shot
<1>11. CASE Found
  BY <1>11, <1>s, <1>t, <1>w, <1>k DEF Found
<1>12. CASE Acted \/ Uploaded
  <2>1. Changed /\ Answer /\ UNCHANGED <<browserVars, dialogVars, closeVars, waiting>>
    BY <1>12 DEF Acted, Uploaded
  <2> QED
    BY <2>1, <1>s, <1>a, ChangedRefs
<1>13. CASE Evaluated
  <2>1. CASE Changed /\ Answer /\ UNCHANGED <<browserVars, dialogVars, closeVars, waiting>>
    BY <2>1, <1>s, <1>a, ChangedRefs
  <2>2. CASE \E committed \in BOOLEAN : Fails(committed /\ op.page \in pages)
    BY <2>2, <1>f
  <2> QED
    BY <1>13, <2>1, <2>2 DEF Evaluated
<1>14. CASE StartTabs
  <2>1. PICK at \in {"new page", "titles"} : Starts("tabs", at, NoPage, FALSE)
    BY <1>14 DEF StartTabs
  <2>2. at \in At /\ "tabs" \in Kinds
    BY <1>k
  <2> QED
    BY <1>14, <2>1, <2>2, <1>t, StartsType DEF StartTabs, PagesType
<1>15. CASE NewPage
  <2>1. PICK p \in Unremembered : /\ pages' = pages \cup {p} /\ current' = p
                                  /\ op' = [op EXCEPT !.at = "first load", !.page = p]
    BY <1>15 DEF NewPage
  <2>2. p \in Pages /\ op' \in Operations
    BY <2>1, <1>t, <1>k, AwaitOpOn DEF Unremembered
  <2> QED
    BY ZenonT(30), <1>15, <2>1, <2>2, <1>t DEF NewPage, PagesTypeOK, PagesType, Refs, Operations
<1>16. CASE FirstLoad
  BY <1>16, <1>s, <1>b, <1>w, <1>k DEF FirstLoad
<1>17. CASE Select
  <2>1. CASE FailsAtOnce
    BY <1>17, <2>1, <1>o DEF Select
  <2>2. CASE ~FailsAtOnce
    <3>1. PICK p \in pages : /\ current' = p /\ Starts("tabs", "titles", NoPage, FALSE) /\ Bump
                             /\ UNCHANGED <<pages, operators, dialogs, dialogVars, closeVars>>
      BY <1>17, <2>2 DEF Select
    <3> QED
      BY <1>17, <3>1, <1>t, <1>b, <1>k, StartsType DEF Select
  <2> QED
    BY <2>1, <2>2
<1>18. CASE StartClose
  <2>1. CASE FailsAtOnce
    BY <1>18, <2>1, <1>o DEF StartClose
  <2>2. CASE ~FailsAtOnce
    <3>1. PICK p \in pages : /\ Starts("tabs", "page closing", p, FALSE)
                             /\ UNCHANGED <<browserVars, dialogVars, closeVars, refs>>
      BY <1>18, <2>2 DEF StartClose
    <3>2. p \in Pages
      BY <1>t DEF PagesType
    <3> QED
      BY <1>18, <3>1, <3>2, <1>t, <1>k, StartsType DEF StartClose, PagesType
  <2> QED
    BY <2>1, <2>2
<1>19. CASE TabClosed
  <2>1. op' \in Operations
    <3>1. op' = [op EXCEPT !.at = "titles", !.page = NoPage] /\ "titles" \in At
      BY <1>19, <1>k DEF TabClosed
    <3>2. NoPage \in Pages \cup {NoPage}
      OBVIOUS
    <3> QED
      BY <3>1, <3>2, <1>t, AwaitOpOn
  <2>2. /\ pages' \subseteq Pages /\ operators' \subseteq pages'
        /\ current' \in pages' \cup {NoPage} /\ dialogs' \subseteq pages'
    BY <1>19, <1>t DEF TabClosed, Gone, PagesType
  <2> QED
    BY <1>19, <2>1, <2>2, <1>b, <1>t DEF TabClosed, PagesTypeOK, PagesType, Refs, Operations
<1>20. CASE Listed
  <2>1. current' \in pages \cup {NoPage}
    BY <1>20, <1>p DEF Listed
  <2> QED
    BY <1>20, <2>1, <1>a, <1>t DEF Listed, PagesTypeOK, PagesType, Refs, Operations
<1>21. ASSUME NEW p \in Pages, DialogOpens(p) \/ DialogTimer(p) PROVE PagesTypeOK'
  BY <1>21, <1>t DEF DialogOpens, DialogTimer, PagesTypeOK, PagesType, Refs, Operations
<1>22. CASE StartDialog
  <2>1. CASE FailsAtOnce
    BY <1>22, <2>1, <1>o DEF StartDialog
  <2>2. CASE ~FailsAtOnce
    BY <1>22, <2>2, <1>t, <1>k, StartsType DEF StartDialog, PagesType
  <2> QED
    BY <2>1, <2>2
<1>23. CASE DialogAnswers
  BY <1>23, <1>a, <1>b, <1>t DEF DialogAnswers, PagesTypeOK, PagesType, Refs, Operations
<1>24. ASSUME NEW p \in Pages, PageOpens(p) PROVE PagesTypeOK'
  BY <1>24, <1>t DEF PageOpens, PagesTypeOK, PagesType, Refs, Operations
<1>25. ASSUME NEW p \in Pages, PageCloses(p) PROVE PagesTypeOK'
  BY <1>25, <1>t, GoneType DEF PageCloses, PagesTypeOK, PagesType, Refs, Operations
<1>26. ASSUME NEW p \in Pages, Drifts(p) PROVE PagesTypeOK'
  <2>1. refs' \in Refs
    BY <1>26, <1>t, CommitRefs DEF Drifts
  <2> QED
    BY <1>26, <2>1, <1>t DEF Drifts, PagesTypeOK, PagesType, Refs, Operations
<1>27. CASE Expire
  BY <1>27, <1>t DEF Expire, PagesTypeOK, PagesType, Refs, Operations
<1>28. CASE ClosePages
  <2>1. PICK set \in SUBSET pages : Gone(set) /\ shut' = (shut \/ set \cap operators # {})
    BY <1>28 DEF ClosePages
  <2>2. /\ pages' \subseteq Pages /\ operators' \subseteq pages'
        /\ current' \in pages' \cup {NoPage} /\ dialogs' \subseteq pages'
    BY <2>1, <1>t, GoneType
  <2>3. shut' \in BOOLEAN
    BY <2>1
  <2>4. UNCHANGED <<pending, timers, attached, closer, refs, waiting, op, state>>
    BY <1>28 DEF ClosePages
  <2> QED
    BY <2>2, <2>3, <2>4, <1>t DEF PagesTypeOK, PagesType, Refs, Operations
<1>29. CASE CloseEnds
  BY <1>29, <1>t, NoRefsType DEF CloseEnds, PagesTypeOK, PagesType, Refs, Operations
<1>30. CASE UNCHANGED pagesVars
  BY <1>30, <1>t DEF pagesVars, PagesTypeOK, PagesType, Refs, Operations
<1> QED
  BY <1>1, <1>3, <1>4, <1>5, <1>6, <1>7, <1>8, <1>9, <1>10, <1>11, <1>12, <1>13, <1>14, <1>15,
     <1>16, <1>17, <1>18, <1>19, <1>20, <1>21, <1>22, <1>23, <1>24, <1>25, <1>26, <1>27, <1>28,
     <1>29, <1>30 DEF PagesNext, Starting, Going, SessionCloses

(***************************************************************************)
(* Steps with something in common.                                         *)
(***************************************************************************)

\* The operation answers; it may have left a document it has to account for.
LEMMA AnswerStep ==
    ASSUME PagesInv, Answer, pages' = pages, current' = current,
           refs' \in Refs, refs'.page = refs.page, refs'.seen = refs.seen,
           refs'.fresh => refs.fresh /\ refs'.doc # "changed",
           op.at # "first load"
    PROVE  RefsInv'
<1>1. op' = NoOp /\ NoOp.at = "none"
  BY DEF Answer, NoOp
<1> QED
  BY <1>1 DEF PagesInv, RefsInv, TreeOfCurrent, RefsOfOnePage, FreshIsCurrent, FreshIsShown, RefInUse

(***************************************************************************)
(* Dialogs.                                                                *)
(***************************************************************************)
LEMMA DialogStep == PagesTypeOK /\ DialogWatched /\ [PagesNext]_pagesVars => DialogWatched'
<1> SUFFICES ASSUME PagesTypeOK, DialogWatched, [PagesNext]_pagesVars PROVE DialogWatched'
  OBVIOUS
<1> USE DEF browserVars, dialogVars, closeVars
<1>t. /\ dialogs \subseteq pages /\ pages \subseteq Pages /\ NoPage \notin Pages
      /\ op \in Operations /\ pending \in Pages \cup {NoPage}
  BY TypeParts, PagesAssumption DEF PagesType
\* No dialog opens, no timer stops, and the job that answers one is still at it.
<1>u. ASSUME dialogs' \subseteq dialogs, UNCHANGED <<pending, timers>>,
             op.at # "dialog" \/ op' = op
      PROVE  DialogWatched'
  BY <1>u DEF DialogWatched
<1>1. CASE \/ Request \/ StartNavigate \/ StartSnapshot \/ StartFind \/ StartEvaluate
           \/ Resolve \/ StartTabs \/ Select \/ StartClose
  BY <1>1, <1>u DEF Request, StartNavigate, StartSnapshot, StartFind, StartEvaluate, OnPage,
     FailsAtOnce, Resolve, StartTabs, Select, StartClose, Turn
<1>2. CASE \/ GotoCommits \/ GotoFails \/ Navigated \/ RedirectDenied
           \/ TreeRendered \/ TreeFails \/ TitleRead
           \/ Found \/ NotFound \/ Acted \/ Uploaded \/ Shot \/ ActFails \/ Evaluated
           \/ NewPage \/ NewPageFails \/ FirstLoad \/ Listed
  BY <1>2, <1>u DEF GotoCommits, GotoFails, Navigated, RedirectDenied, TreeRendered, TreeFails,
     TitleRead, Found, NotFound, Acted, Uploaded, Shot, ActFails, Evaluated, NewPage,
     NewPageFails, FirstLoad, Listed, Fails
<1>3. CASE TabClosed
  BY <1>3, <1>u DEF TabClosed, Gone
<1>4. CASE StartDialog
  <2>1. CASE FailsAtOnce
    BY <1>4, <2>1, <1>u DEF StartDialog, FailsAtOnce, Turn
  <2>2. CASE ~FailsAtOnce
    <3>1. /\ Starts("dialog", "dialog", pending, FALSE)
          /\ pending \in Pages /\ pending' = pending /\ dialogs' = dialogs
      BY <1>4, <2>2, <1>t DEF StartDialog
    <3>2. op'.at = "dialog" /\ op'.page = pending
      BY <3>1 DEF Starts
    <3> QED
      BY <3>1, <3>2 DEF DialogWatched
  <2> QED
    BY <2>1, <2>2
<1>5. CASE DialogAnswers
  BY <1>5, <1>t DEF DialogAnswers, DialogWatched
<1>6. CASE DialogFails
  BY <1>6 DEF DialogFails, Fails, DialogWatched
<1>7. ASSUME NEW p \in Pages, DialogOpens(p) PROVE DialogWatched'
  BY <1>7 DEF DialogOpens, DialogWatched
<1>8. ASSUME NEW p \in Pages, DialogTimer(p) PROVE DialogWatched'
  BY <1>8, <1>t DEF DialogTimer, DialogWatched
<1>9. ASSUME NEW p \in Pages, PageOpens(p) \/ PageCloses(p) \/ Drifts(p) PROVE DialogWatched'
  BY <1>9, <1>u DEF PageOpens, PageCloses, Drifts, Gone
<1>10. CASE Expire
  BY <1>10, <1>t DEF Expire, DialogWatched
<1>11. CASE ClosePages \/ CloseEnds \/ UNCHANGED pagesVars
  BY <1>11, <1>u DEF ClosePages, CloseEnds, Gone, pagesVars
<1> QED
  BY <1>1, <1>2, <1>3, <1>4, <1>5, <1>6, <1>7, <1>8, <1>9, <1>10, <1>11
     DEF PagesNext, Starting, Going, SessionCloses

(***************************************************************************)
(* Refs.                                                                   *)
(***************************************************************************)

\* An operation begins that is no snapshot and uses no ref.
LEMMA StartStep ==
    ASSUME PagesInv, Turn, NEW kind \in Kinds, NEW at \in At \ {"first load", "settled"},
           NEW p \in Pages \cup {NoPage}, Starts(kind, at, p, FALSE),
           pages' = pages, refs' = refs, current' \in IF pages = {} THEN {current} ELSE Current \cup {current},
           at = "tree" => current' = p
    PROVE  RefsInv'
<1>1. op'.at = at /\ op'.page = p /\ ~op'.byRef
  BY DEF Starts
<1>2. TreeOfCurrent'
  BY <1>1 DEF TreeOfCurrent
<1>3. RefsOfOnePage' /\ RefInUse'
  BY <1>1 DEF PagesInv, RefsInv, RefsOfOnePage, RefInUse
<1>4. FreshIsShown'
  BY <1>1 DEF PagesInv, RefsInv, FreshIsShown, Turn
<1>5. FreshIsCurrent'
  BY <1>1, PagesAssumption, TypeParts
     DEF PagesInv, RefsInv, FreshIsCurrent, Turn, Current, PagesType
<1> QED
  BY <1>2, <1>3, <1>4, <1>5 DEF RefsInv

LEMMA FailsAtOnceStep == ASSUME PagesInv, Turn, FailsAtOnce PROVE RefsInv'
<1>1. refs' = refs /\ pages' = pages /\ current' = current /\ Answer /\ op.at = "none"
  BY DEF FailsAtOnce, browserVars, Turn
<1>2. refs \in Refs /\ (refs.fresh => refs.doc # "changed")
  BY <1>1, TypeParts DEF PagesInv, RefsInv, FreshIsShown
<1> QED
  BY <1>1, <1>2, AnswerStep

LEMMA RefsStep == PagesInv /\ [PagesNext]_pagesVars => RefsInv'
<1> SUFFICES ASSUME PagesInv, [PagesNext]_pagesVars PROVE RefsInv'
  OBVIOUS
<1> USE DEF browserVars, dialogVars, closeVars
<1>t. PagesTypeOK /\ PagesType /\ refs \in Refs /\ op \in Operations /\ NoPage \notin Pages
  BY TypeParts, PagesAssumption DEF PagesInv
<1>i. TreeOfCurrent /\ RefsOfOnePage /\ FreshIsCurrent /\ FreshIsShown /\ RefInUse
  BY DEF PagesInv, RefsInv
<1>p. /\ op.page \in Pages \cup {NoPage} /\ pages \subseteq Pages
      /\ refs.seen \in Pages \cup {NoPage} /\ current \in pages \cup {NoPage}
      /\ \A p \in Current : p \in pages /\ p \in Pages
      /\ current # NoPage => Current = {current}
  BY <1>t, OpFields, RefsFields, CurrentType DEF PagesType, Current
\* Pages may go, and the current page with them; nothing else happens here.
<1>u. ASSUME refs' = refs, op' = op, pages' \subseteq pages,
             current' = IF current \in pages \ pages' THEN NoPage ELSE current
      PROVE  RefsInv'
  <2>1. TreeOfCurrent' /\ RefsOfOnePage' /\ FreshIsShown' /\ RefInUse'
    BY <1>u, <1>i, <1>p DEF TreeOfCurrent, RefsOfOnePage, FreshIsShown, RefInUse
  <2>2. FreshIsCurrent'
    BY <1>u, <1>i, <1>p DEF FreshIsCurrent
  <2> QED
    BY <2>1, <2>2 DEF RefsInv
\* Refs that are out of date, and an operation that is no snapshot and uses none.
<1>o. ASSUME refs' \in Refs, ~refs'.fresh, refs'.page = refs'.seen,
             op'.at \notin {"tree", "found", "acting"}
      PROVE  RefsInv'
  BY <1>o DEF RefsInv, TreeOfCurrent, RefsOfOnePage, FreshIsCurrent, FreshIsShown, RefInUse
<1>f. ASSUME NEW committed \in BOOLEAN, Fails(committed),
             op.at \notin {"settled", "first load"}
      PROVE  RefsInv'
  <2>1. refs' \in {refs, Commit(refs, op.page, "excused")} /\ Answer
        /\ pages' = pages /\ current' = current
    BY <1>f DEF Fails
  <2>2. /\ refs' \in Refs /\ refs'.page = refs.page /\ refs'.seen = refs.seen
        /\ refs'.fresh = refs.fresh /\ refs'.doc \in {refs.doc, "excused"}
    BY <2>1, <1>t, CommitRefs
  <2>3. refs.fresh => refs.doc # "changed"
    BY <1>f, <1>i DEF FreshIsShown
  <2>4. refs'.fresh => refs.fresh /\ refs'.doc # "changed"
    BY <2>2, <2>3
  <2> QED
    BY <1>f, <2>1, <2>2, <2>4, AnswerStep
\* The answer of an operation with a new revision.
<1>b. ASSUME Bump, op'.at \notin {"tree", "found", "acting"} PROVE RefsInv'
  BY <1>b, <1>t, <1>i, <1>o, BumpRefs DEF Bump, RefsOfOnePage
<1>n. ASSUME Answer PROVE op'.at = "none"
  BY <1>n DEF Answer, NoOp
<1>c. ASSUME Changed, Answer PROVE RefsInv'
  BY <1>c, <1>n, <1>t, <1>i, <1>o, ChangedRefs DEF RefsOfOnePage
<1>s. ASSUME Answer, refs' = refs, pages' = pages, current' = current,
             op.at \notin {"settled", "first load"}
      PROVE  RefsInv'
  <2>1. refs.fresh => refs.doc # "changed"
    BY <1>s, <1>i DEF FreshIsShown
  <2> QED
    BY <1>s, <2>1, <1>t, AnswerStep
<1>k. /\ {"navigate", "snapshot", "find", "evaluate", "read", "interact", "upload",
          "screenshot", "tabs", "dialog"} \subseteq Kinds
      /\ {"goto", "settled", "tree", "title", "found", "acting", "script", "new page",
          "first load", "page closing", "titles", "dialog"} \subseteq At
  BY DEF Kinds, At
<1>1. CASE Request
  BY <1>1, <1>u DEF Request
<1>2. ASSUME NEW kind \in Kinds, NEW at \in At \ {"first load", "settled"}, OnPage(kind, at)
      PROVE  RefsInv'
  <2>1. CASE FailsAtOnce
    BY <1>2, <2>1, FailsAtOnceStep DEF OnPage
  <2>2. CASE ~FailsAtOnce
    <3>1. PICK p \in Current :
            /\ current' = p /\ Starts(kind, at, p, FALSE)
            /\ UNCHANGED <<pages, operators, dialogs, dialogVars, closeVars, refs>>
      BY <1>2, <2>2 DEF OnPage
    <3> QED
      BY <1>2, <3>1, <1>p, StartStep DEF OnPage
  <2> QED
    BY <2>1, <2>2
<1>3. CASE StartNavigate \/ StartSnapshot \/ StartFind \/ StartEvaluate
  BY <1>3, <1>2, <1>k DEF StartNavigate, StartSnapshot, StartFind, StartEvaluate
<1>4. CASE Resolve
  <2>1. CASE FailsAtOnce
    BY <1>4, <2>1, FailsAtOnceStep DEF Resolve
  <2>2. CASE ~FailsAtOnce
    <3>1. PICK byRef \in BOOLEAN, kind \in {"interact", "upload", "screenshot"} :
            /\ byRef => refs.fresh
            /\ \E p \in Current : current' = p /\ Starts(kind, "found", p, byRef)
            /\ UNCHANGED <<pages, operators, dialogs, dialogVars, closeVars, refs>>
      BY <1>4, <2>2 DEF Resolve
    <3>2. PICK p \in Current : current' = p /\ Starts(kind, "found", p, byRef)
      BY <3>1
    <3>3. op.at = "none" /\ op'.at = "found" /\ op'.page = p /\ op'.byRef = byRef
      BY <1>4, <3>2 DEF Resolve, Turn, Starts
    <3>4. refs.fresh /\ refs.seen \in pages => current = refs.seen /\ p = refs.seen
      BY <3>3, <3>2, <1>i, <1>p, <1>t DEF FreshIsCurrent
    <3>5. TreeOfCurrent' /\ RefsOfOnePage' /\ FreshIsCurrent'
      BY <3>1, <3>2, <3>3, <3>4, <1>i DEF TreeOfCurrent, RefsOfOnePage, FreshIsCurrent
    <3>6. refs.fresh => refs.doc # "changed"
      BY <3>3, <1>i DEF FreshIsShown
    <3>7. FreshIsShown' /\ RefInUse'
      BY <3>1, <3>3, <3>4, <3>6 DEF FreshIsShown, RefInUse
    <3> QED
      BY <3>5, <3>7 DEF RefsInv
  <2> QED
    BY <2>1, <2>2
<1>5. CASE GotoCommits
  <2>1. /\ op.at = "goto" /\ pages' = pages /\ current' = current
        /\ refs' = Commit(refs, op.page, "changed") /\ op' = [op EXCEPT !.at = "settled"]
    BY <1>5 DEF GotoCommits, Await
  <2>2. op'.at = "settled" /\ op'.page = op.page
    <3>1. "settled" \in At
      BY <1>k
    <3> QED
      BY <2>1, <3>1, <1>t, AwaitOp
  <2>3. /\ refs'.page = refs.page /\ refs'.seen = refs.seen /\ refs'.fresh = refs.fresh
        /\ refs'.doc = refs.doc \/ refs.seen = op.page
    BY <2>1, <1>t, CommitRefs
  <2>4. TreeOfCurrent' /\ RefsOfOnePage' /\ FreshIsCurrent' /\ RefInUse'
    BY <2>1, <2>2, <2>3, <1>i DEF TreeOfCurrent, RefsOfOnePage, FreshIsCurrent, RefInUse
  <2>5. FreshIsShown'
    BY <2>1, <2>2, <2>3, <1>i DEF FreshIsShown
  <2> QED
    BY <2>4, <2>5 DEF RefsInv
<1>6. CASE GotoFails \/ NotFound \/ NewPageFails \/ DialogFails \/ TreeFails \/ ActFails
  BY <1>6, <1>f DEF GotoFails, NotFound, NewPageFails, DialogFails, TreeFails, ActFails
<1>7. CASE Navigated
  BY <1>7, <1>n, <1>b DEF Navigated
<1>8. CASE RedirectDenied
  <2>1. /\ op.at = "settled" /\ Answer /\ pages' = pages /\ current' = current
        /\ refs' = IF refs.seen = op.page THEN [refs EXCEPT !.doc = "excused"] ELSE refs
    BY <1>8 DEF RedirectDenied
  <2>2. /\ refs' \in Refs /\ refs'.page = refs.page /\ refs'.seen = refs.seen
        /\ refs'.fresh = refs.fresh
        /\ refs.seen = op.page => refs'.doc = "excused"
        /\ refs.seen # op.page => refs'.doc = refs.doc
    BY <2>1, <1>t DEF Refs
  <2>3. refs'.fresh => refs.fresh /\ refs'.doc # "changed"
    BY <2>2, <1>i DEF FreshIsShown
  <2> QED
    BY <2>1, <2>2, <2>3, AnswerStep
<1>9. CASE TreeRendered
  <2>1. PICK p \in Current :
          /\ current' = p /\ refs' = [page |-> p, seen |-> op.page, fresh |-> TRUE, doc |-> "same"]
    BY <1>9 DEF TreeRendered
  <2>2. op.at = "tree" /\ op.page \in pages /\ pages' = pages /\ op' = [op EXCEPT !.at = "title"]
    BY <1>9 DEF TreeRendered, Await
  <2>3. op'.at = "title"
    <3>1. "title" \in At
      BY <1>k
    <3> QED
      BY <2>2, <3>1, <1>t, AwaitOp
  <2>4. p = op.page
    BY <2>1, <2>2, <1>i, <1>p, <1>t DEF TreeOfCurrent
  <2>5. refs'.page = p /\ refs'.seen = p /\ refs'.doc = "same"
    BY <2>1, <2>4
  <2> QED
    BY <2>1, <2>3, <2>5
       DEF RefsInv, TreeOfCurrent, RefsOfOnePage, FreshIsCurrent, FreshIsShown, RefInUse
<1>10. CASE TitleRead \/ Shot
  BY <1>10, <1>s DEF TitleRead, Shot
<1>11. CASE Found
  <2>1. /\ op.at = "found" /\ pages' = pages /\ current' = current /\ refs' = refs
        /\ (op.kind = "interact" /\ op.byRef) => refs.page \in pages
        /\ op' = [op EXCEPT !.at = "acting"]
    BY <1>11 DEF Found, Await
  <2>2. op'.at = "acting" /\ op'.kind = op.kind /\ op'.page = op.page /\ op'.byRef = op.byRef
    <3>1. "acting" \in At
      BY <1>k
    <3> QED
      BY <2>1, <3>1, <1>t, AwaitOp
  <2>3. RefInUse'
    BY <2>1, <2>2, <1>i DEF RefInUse, RefsOfOnePage
  <2>4. TreeOfCurrent' /\ RefsOfOnePage' /\ FreshIsCurrent' /\ FreshIsShown'
    BY <2>1, <2>2, <1>i DEF TreeOfCurrent, RefsOfOnePage, FreshIsCurrent, FreshIsShown
  <2> QED
    BY <2>3, <2>4 DEF RefsInv
<1>12. CASE Acted \/ Uploaded
  BY <1>12, <1>c DEF Acted, Uploaded
<1>13. CASE Evaluated
  <2>1. CASE Changed /\ Answer
    BY <2>1, <1>c
  <2>2. CASE \E committed \in BOOLEAN : Fails(committed /\ op.page \in pages)
    BY <1>13, <2>2, <1>f DEF Evaluated
  <2> QED
    BY <1>13, <2>1, <2>2 DEF Evaluated
<1>14. CASE StartTabs
  <2>1. PICK at \in {"new page", "titles"} : Starts("tabs", at, NoPage, FALSE)
    BY <1>14 DEF StartTabs
  <2>2. at \in At \ {"first load", "settled"} /\ "tabs" \in Kinds
    BY <1>k
  <2> QED
    BY <1>14, <2>1, <2>2, StartStep DEF StartTabs
<1>15. CASE NewPage
  <2>1. PICK p \in Unremembered : pages' = pages \cup {p}
    BY <1>15 DEF NewPage
  <2>2. /\ op.at = "new page" /\ refs' = refs
        /\ op' = [op EXCEPT !.at = "first load", !.page = p]
    BY <1>15, <2>1 DEF NewPage, Unremembered, PagesType
  <2>3. op'.at = "first load"
    BY <2>2, <1>t DEF Operations
  <2> QED
    BY <2>2, <2>3, <1>i
       DEF RefsInv, TreeOfCurrent, RefsOfOnePage, FreshIsCurrent, FreshIsShown, RefInUse
<1>16. CASE FirstLoad
  <2>1. op'.at = "titles"
    BY ZenonT(30), <1>16, <1>t, <1>k, AwaitOp DEF FirstLoad, Await
  <2> QED
    BY <1>16, <2>1, <1>b DEF FirstLoad
<1>17. CASE Select
  <2>1. CASE FailsAtOnce
    BY <1>17, <2>1, FailsAtOnceStep DEF Select
  <2>2. CASE ~FailsAtOnce
    <3>1. Bump /\ Starts("tabs", "titles", NoPage, FALSE)
      BY <1>17, <2>2 DEF Select
    <3>2. op'.at = "titles"
      BY <3>1 DEF Starts
    <3> QED
      BY <3>1, <3>2, <1>b
  <2> QED
    BY <2>1, <2>2
<1>18. CASE StartClose
  <2>1. CASE FailsAtOnce
    BY <1>18, <2>1, FailsAtOnceStep DEF StartClose
  <2>2. CASE ~FailsAtOnce
    <3>1. PICK p \in pages : /\ Starts("tabs", "page closing", p, FALSE)
                             /\ UNCHANGED <<browserVars, dialogVars, closeVars, refs>>
      BY <1>18, <2>2 DEF StartClose
    <3>2. "page closing" \in At \ {"first load", "settled"} /\ p \in Pages \cup {NoPage}
      BY <1>k, <1>p
    <3> QED
      BY <1>18, <3>1, <3>2, <1>k, StartStep DEF StartClose
  <2> QED
    BY <2>1, <2>2
<1>19. CASE TabClosed
  <2>1. op' = [op EXCEPT !.at = "titles", !.page = NoPage] /\ Bump
    BY <1>19 DEF TabClosed
  <2>3. op'.at = "titles"
    BY <2>1, <1>t DEF Operations
  <2> QED
    BY <2>1, <2>3, <1>b
<1>20. CASE Listed
  <2>1. /\ op.at = "titles" /\ refs' = refs /\ pages' = pages /\ Answer
        /\ current' \in IF pages = {} THEN {NoPage} ELSE Current
    BY <1>20 DEF Listed
  <2>2. op'.at = "none"
    BY <2>1, <1>n
  <2>3. FreshIsCurrent'
    BY <2>1, <2>2, <1>i, <1>p, <1>t DEF FreshIsCurrent
  <2>4. TreeOfCurrent' /\ RefsOfOnePage' /\ FreshIsShown' /\ RefInUse'
    BY <2>1, <2>2, <1>i DEF TreeOfCurrent, RefsOfOnePage, FreshIsShown, RefInUse
  <2> QED
    BY <2>3, <2>4 DEF RefsInv
<1>21. ASSUME NEW p \in Pages, DialogOpens(p) \/ DialogTimer(p) PROVE RefsInv'
  BY <1>21, <1>u DEF DialogOpens, DialogTimer
<1>22. CASE StartDialog
  <2>1. CASE FailsAtOnce
    BY <1>22, <2>1, FailsAtOnceStep DEF StartDialog
  <2>2. CASE ~FailsAtOnce
    <3>1. Starts("dialog", "dialog", pending, FALSE)
          /\ UNCHANGED <<browserVars, pending, closeVars, refs>>
      BY <1>22, <2>2 DEF StartDialog
    <3>2. "dialog" \in At \ {"first load", "settled"} /\ "dialog" \in Kinds
          /\ pending \in Pages \cup {NoPage}
      BY <1>k, <1>t DEF PagesType
    <3> QED
      BY <1>22, <3>1, <3>2, StartStep DEF StartDialog
  <2> QED
    BY <2>1, <2>2
<1>23. CASE DialogAnswers
  BY <1>23, <1>n, <1>b DEF DialogAnswers
<1>24. ASSUME NEW p \in Pages, PageOpens(p) PROVE RefsInv'
  <2>1. /\ p \notin pages /\ p # op.page /\ p # refs.seen /\ p \in Pages
        /\ pages' = pages \cup {p} /\ refs' = refs /\ op' = op
        /\ current' = IF current = NoPage THEN p ELSE current
    BY <1>24 DEF PageOpens, Unremembered
  <2>2. TreeOfCurrent'
    BY <2>1, <1>i, <1>p, <1>t DEF TreeOfCurrent
  <2>3. FreshIsCurrent'
    BY <2>1, <1>i, <1>p, <1>t DEF FreshIsCurrent
  <2>4. RefsOfOnePage' /\ FreshIsShown' /\ RefInUse'
    BY <2>1, <1>i DEF RefsOfOnePage, FreshIsShown, RefInUse
  <2> QED
    BY <2>2, <2>3, <2>4 DEF RefsInv
<1>25. ASSUME NEW p \in Pages, PageCloses(p) PROVE RefsInv'
  BY <1>25, <1>u DEF PageCloses, Gone
<1>26. ASSUME NEW p \in Pages, Drifts(p) PROVE RefsInv'
  <2>1. /\ refs' = Commit(refs, p, "excused") /\ refs' # refs
        /\ op' = op /\ pages' = pages /\ current' = current
    BY <1>26 DEF Drifts
  <2>2. /\ refs'.page = refs.page /\ refs'.seen = refs.seen /\ refs'.fresh = refs.fresh
        /\ refs'.doc \in {refs.doc, "excused"} /\ refs.seen = p
    BY <2>1, <1>t, CommitRefs
  <2>3. refs # NoRefs
    BY <2>2, <1>t DEF NoRefs
  <2>4. RefInUse'
    BY <2>1, <2>2, <2>3, <1>i DEF RefInUse
  <2>5. TreeOfCurrent' /\ RefsOfOnePage' /\ FreshIsCurrent' /\ FreshIsShown'
    BY <2>1, <2>2, <1>i DEF TreeOfCurrent, RefsOfOnePage, FreshIsCurrent, FreshIsShown
  <2> QED
    BY <2>4, <2>5 DEF RefsInv
<1>27. CASE Expire
  BY <1>27, <1>u DEF Expire
<1>28. CASE ClosePages
  BY <1>28, <1>u DEF ClosePages, Gone
<1>29. CASE CloseEnds
  <2>1. refs' = NoRefs /\ op' = op /\ pages' = pages /\ current' = current
    BY <1>29 DEF CloseEnds
  <2>2. ~refs'.fresh /\ refs'.page = refs'.seen
    BY <2>1 DEF NoRefs
  <2> QED
    BY <2>1, <2>2, <1>i
       DEF RefsInv, TreeOfCurrent, RefsOfOnePage, FreshIsCurrent, FreshIsShown, RefInUse
<1>30. CASE UNCHANGED pagesVars
  BY <1>30, <1>u DEF pagesVars
<1> QED
  BY <1>1, <1>3, <1>4, <1>5, <1>6, <1>7, <1>8, <1>9, <1>10, <1>11, <1>12, <1>13, <1>14, <1>15,
     <1>16, <1>17, <1>18, <1>19, <1>20, <1>21, <1>22, <1>23, <1>24, <1>25, <1>26, <1>27, <1>28,
     <1>29, <1>30 DEF PagesNext, Starting, Going, SessionCloses

(***************************************************************************)
(* The theorems.                                                           *)
(***************************************************************************)

\* The inductive invariant: types, the pending dialog, and what a ref is of.
THEOREM PagesInvariant == PagesSpec => []PagesInv
<1>1. PagesInit => PagesInv
  <2> SUFFICES ASSUME PagesInit PROVE PagesInv
    OBVIOUS
  <2>1. PagesTypeOK
    <3>1. PagesType
      <4>1. waiting \in 0..MaxWaiting
        BY PagesAssumption DEF PagesInit
      <4>2. /\ pages \subseteq Pages /\ operators \subseteq pages /\ current \in pages \cup {NoPage}
            /\ dialogs \subseteq pages /\ timers \subseteq Pages /\ pending \in Pages \cup {NoPage}
        BY DEF PagesInit
      <4>3. /\ attached \in BOOLEAN /\ shut \in BOOLEAN
            /\ state \in {"ready", "busy", "closing", "closed"}
            /\ closer \in {"no", "closing", "done"}
        BY DEF PagesInit
      <4> QED
        BY <4>1, <4>2, <4>3 DEF PagesType
    <3>2. refs \in Refs /\ op \in Operations
      BY NoRefsType DEF PagesInit
    <3> QED
      BY <3>1, <3>2, TypeParts
  <2>2. DialogWatched
    BY DEF PagesInit, DialogWatched
  <2>3. RefsInv
    BY DEF PagesInit, RefsInv, TreeOfCurrent, RefsOfOnePage, FreshIsCurrent, FreshIsShown, RefInUse,
           NoRefs, NoOp
  <2> QED
    BY <2>1, <2>2, <2>3 DEF PagesInv
<1>2. PagesInv /\ [PagesNext]_pagesVars => PagesInv'
  BY PagesTypeStep, DialogStep, RefsStep DEF PagesInv
<1> QED
  BY <1>1, <1>2, PTL DEF PagesSpec

\* Every variable of a browser session keeps its type.
THEOREM PagesTypeCorrect == PagesSpec => []PagesTypeOK
<1>1. PagesInv => PagesTypeOK
  BY DEF PagesInv
<1> QED
  BY PagesInvariant, <1>1, PTL

\* The pending dialog has its timer or the job that answers it.
THEOREM DialogWatchedHolds == PagesSpec => []DialogWatched
<1>1. PagesInv => DialogWatched
  BY DEF PagesInv
<1> QED
  BY PagesInvariant, <1>1, PTL

\* An interaction by ref acts on the page and the document its snapshot showed.
THEOREM ActsOnWhatItShowsHolds == PagesSpec => []ActsOnWhatItShows
<1>1. PagesInv => ActsOnWhatItShows
  BY DEF PagesInv, RefsInv, RefInUse, RefsOfOnePage, ActsOnWhatItShows
<1> QED
  BY PagesInvariant, <1>1, PTL
=============================================================================
