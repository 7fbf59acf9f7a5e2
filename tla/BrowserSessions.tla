--------------------------- MODULE BrowserSessions ---------------------------
(***************************************************************************)
(* The browser sessions of the agent (src/src/browser/browser-manager.mjs  *)
(* and the jobs of browser-jobs.mjs that create, use and close them): the  *)
(* table from browser ids to sessions, the locks on persistent profiles,   *)
(* the Chromium process that sessions without a profile share, and the     *)
(* sweep that closes what is old.                                          *)
(*                                                                         *)
(* Jobs are promises on one event loop, any number of them at once, so a   *)
(* step is what runs between two awaits.  A BrowserSession object has an   *)
(* identity of its own: two of them may follow each other under one id.    *)
(* What a job does to the pages of a session is BrowserPages.  Left out:   *)
(* clocks (any session may be found expired, and any one be the oldest),   *)
(* the second key of managedBrowsers (headed), launch options, downloads   *)
(* and closeAll, which the agent never calls.                              *)
(***************************************************************************)
EXTENDS Naturals

CONSTANTS
    Ids,          \* browser ids
    Profiles,     \* profile directories
    Sessions,     \* BrowserSession objects
    Browsers,     \* Chromium processes that managedBrowser launches
    Jobs,         \* browser jobs that run at the same time
    Sweeper,      \* sweep, which the interval timer starts
    None,
    MaxLosses     \* bound: browsers that crash

ASSUME BrowserAssumption ==
    /\ Sweeper \notin Jobs
    /\ None \notin Ids \cup Profiles \cup Sessions \cup Browsers
    /\ {"shared", "attached"} \cap Profiles = {}
    /\ MaxLosses \in Nat

Threads == Jobs \cup {Sweeper}

\* Where a session runs: mode "existing" attaches to the operator's browser,
\* whatever profile the job names; a managed one with a profile owns a browser
\* there, one without shares a browser.
Mode  == {"managed", "existing"}
Place == Profiles \cup {"shared", "attached"}
PlaceOf(mode, profile) == IF mode = "existing" THEN "attached"
                          ELSE IF profile = None THEN "shared" ELSE profile

State   == {"new", "creating", "ready", "busy", "closing", "closed", "lost", "error"}
Context == {"none", "launching", "open", "closing", "closed", "gone"}

Session == [state : State, id : Ids \cup {None}, place : Place,
            profile : Profiles \cup {None}, browser : Browsers \cup {None}, context : Context]

\* The awaits of createSession, of closeSession, of an operation and of sweep.
CreatePc == {"core", "chromium", "got", "context", "page"}
ClosePc  == {"closing", "closing again", "quit"}
Pc == CreatePc \cup ClosePc \cup {"idle", "queued", "operating"}

VARIABLES
    sessions,         \* the table: id to object
    object,           \* the BrowserSession objects
    profileLocks,     \* the locked profiles
    managedBrowser,   \* the entry of managedBrowsers
    process,          \* what has become of each shared browser
    pc,               \* where each thread is suspended
    session,          \* the object it works on
    browser,          \* the browser managedBrowser returned to it
    \* history
    crossed,          \* objects closed while created, or by two at a time
    stranded,         \* objects whose first page could not be opened
    displaced,        \* ids whose lost session a create took out of the table
    freed,            \* profiles whose lock went with a session of mode "existing"
    losses

pastVars  == <<crossed, stranded, displaced, freed, losses>>
tables    == <<sessions, profileLocks, managedBrowser, process>>
vars      == <<tables, object, pc, session, browser, pastVars>>

Unused == [state |-> "new", id |-> None, place |-> "shared",
           profile |-> None, browser |-> None, context |-> "none"]

Init ==
    /\ sessions = [i \in Ids |-> None]
    /\ object = [o \in Sessions |-> Unused]
    /\ profileLocks = {}
    /\ managedBrowser = None
    /\ process = [b \in Browsers |-> "new"]
    /\ pc = [t \in Threads |-> "idle"]
    /\ session = [t \in Threads |-> None]
    /\ browser = [t \in Threads |-> None]
    /\ crossed = {} /\ stranded = {} /\ displaced = {} /\ freed = {} /\ losses = 0

Of(t) == object[session[t]]
Creating(o) == \E t \in Threads : session[t] = o /\ pc[t] \in CreatePc
Closing(o)  == \E t \in Threads : session[t] = o /\ pc[t] \in ClosePc

Goto(t, p) == pc' = [pc EXCEPT ![t] = p]

\* The job answers, the sweep goes on.
Return(t) ==
    /\ Goto(t, "idle")
    /\ session' = [session EXCEPT ![t] = None]
    /\ browser' = [browser EXCEPT ![t] = None]

-----------------------------------------------------------------------------
(* createSession.  An object found under the id that is neither closed nor *)
(* lost is returned as it is, be it still creating or already closing:     *)
(* that changes nothing.                                                   *)

Create(t, i, mode, profile) ==
    /\ pc[t] = "idle" /\ t \in Jobs
    /\ sessions[i] # None => object[sessions[i]].state \in {"closed", "lost"}
    /\ \E o \in Sessions :
        /\ object[o] = Unused
        /\ object' = [object EXCEPT ![o] = [Unused EXCEPT
                         !.state = "creating", !.id = i,
                         !.place = PlaceOf(mode, profile), !.profile = profile]]
        /\ sessions' = [sessions EXCEPT ![i] = o]
        /\ session' = [session EXCEPT ![t] = o]
    /\ displaced' = displaced \cup (IF sessions[i] # None THEN {i} ELSE {})
    /\ Goto(t, "core")
    /\ UNCHANGED <<profileLocks, managedBrowser, process, browser,
                   crossed, stranded, freed, losses>>

\* A lost session leaves the table before the mode and the policy are looked at.
CreateRefused(t, i) ==
    /\ pc[t] = "idle" /\ t \in Jobs
    /\ sessions[i] # None /\ object[sessions[i]].state \in {"closed", "lost"}
    /\ sessions' = [sessions EXCEPT ![i] = None]
    /\ displaced' = displaced \cup {i}
    /\ UNCHANGED <<profileLocks, managedBrowser, process, object, pc, session,
                   browser, crossed, stranded, freed, losses>>

\* createSession catches: it takes the id out of the table, whoever has it.
Fail(t, context) ==
    /\ object' = [object EXCEPT ![session[t]].state = "error",
                                ![session[t]].context = context]
    /\ sessions' = [sessions EXCEPT ![Of(t).id] = None]
    /\ Return(t)

\* Mutant: the lock of a profile is not looked at.
LaunchProfileBlind(t) ==
    /\ pc[t] = "core" /\ Of(t).place \in Profiles
    /\ profileLocks' = profileLocks \cup {Of(t).place}
    /\ object' = [object EXCEPT ![session[t]].context = "launching"]
    /\ Goto(t, "context")
    /\ UNCHANGED <<sessions, session, browser, managedBrowser, process, pastVars>>

\* launchManaged and attachExisting, once playwright-core is loaded.
LaunchProfile(t) ==
    /\ pc[t] = "core" /\ Of(t).place \in Profiles
    /\ \/ /\ Of(t).place \in profileLocks      \* BROWSER_PROFILE_IN_USE
          /\ Fail(t, "none")
          /\ UNCHANGED profileLocks
       \/ /\ Of(t).place \notin profileLocks
          /\ profileLocks' = profileLocks \cup {Of(t).place}
          /\ object' = [object EXCEPT ![session[t]].context = "launching"]
          /\ Goto(t, "context")
          /\ UNCHANGED <<sessions, session, browser>>
    /\ UNCHANGED <<managedBrowser, process, pastVars>>

Attach(t) ==
    /\ pc[t] = "core" /\ Of(t).place = "attached"
    /\ Goto(t, "context")
    /\ UNCHANGED <<tables, object, session, browser, pastVars>>

\* managedBrowser: the live one, or a launch that nothing keeps single.
UseManaged(t) ==
    /\ pc[t] = "core" /\ Of(t).place = "shared"
    /\ browser' = [browser EXCEPT ![t] = managedBrowser]
    /\ Goto(t, IF managedBrowser # None THEN "got" ELSE "chromium")
    /\ UNCHANGED <<tables, object, session, pastVars>>

ChromiumUp(t) ==
    /\ pc[t] = "chromium"
    /\ \E b \in Browsers :
        /\ process[b] = "new"
        /\ process' = [process EXCEPT ![b] = "up"]
        /\ managedBrowser' = b
        /\ browser' = [browser EXCEPT ![t] = b]
    /\ Goto(t, "got")
    /\ UNCHANGED <<sessions, profileLocks, object, session, pastVars>>

Got(t) ==
    /\ pc[t] = "got"
    /\ object' = [object EXCEPT ![session[t]].browser = browser[t]]
    /\ Goto(t, "context")
    /\ UNCHANGED <<tables, session, browser, pastVars>>

ContextOpens(t) ==
    /\ pc[t] = "context"
    /\ Of(t).place = "shared" => process[Of(t).browser] = "up"
    /\ object' = [object EXCEPT ![session[t]].context = "open"]
    /\ Goto(t, "page")
    /\ UNCHANGED <<tables, session, browser, pastVars>>

\* Mutant: a launch that fails keeps the lock.
LaunchFailsLeaks(t) ==
    /\ pc[t] \in {"core", "chromium", "context"}
    /\ Fail(t, "none")
    /\ UNCHANGED <<profileLocks, managedBrowser, process, pastVars>>

LaunchFails(t) ==
    /\ pc[t] \in {"core", "chromium", "context"}
    /\ Fail(t, "none")
    /\ profileLocks' = IF pc[t] = "context" THEN profileLocks \ {Of(t).place}
                                            ELSE profileLocks
    /\ UNCHANGED <<managedBrowser, process, pastVars>>

\* The session is ready whatever has been done to it in the meantime. A
\* navigation that created it goes on to the queue.
FirstPage(t) ==
    /\ pc[t] = "page" /\ Of(t).context = "open"
    /\ object' = [object EXCEPT ![session[t]].state = "ready"]
    /\ \/ Return(t)
       \/ /\ Of(t).place = "shared"
          /\ Goto(t, "queued")
          /\ UNCHANGED <<session, browser>>
    /\ UNCHANGED <<tables, pastVars>>

\* Nothing closes the context or frees the profile.
FirstPageFails(t) ==
    /\ pc[t] = "page"
    /\ stranded' = stranded \cup {session[t]}
    /\ Fail(t, Of(t).context)
    /\ UNCHANGED <<profileLocks, managedBrowser, process,
                   crossed, displaced, freed, losses>>

-----------------------------------------------------------------------------
(* closeSession, which jobs and the sweep call.                            *)

\* The lock of the profile goes, whatever the mode and whoever holds it.
Unlock(o) ==
    /\ profileLocks' = profileLocks \ {object[o].profile}
    /\ freed' = IF object[o].place = "attached"
                THEN freed \cup (profileLocks \cap {object[o].profile}) ELSE freed

\* Its first part, up to the first await. Without a context there is none.
Close(t, i) ==
    LET o == sessions[i]
        nothing == object[o].context \in {"none", "launching"}
    IN  /\ object' = [object EXCEPT
                ![o].state = IF nothing THEN "closed" ELSE "closing",
                ![o].context = IF @ = "open" THEN "closing" ELSE @]
        /\ crossed' = crossed \cup (IF Creating(o) \/ Closing(o) THEN {o} ELSE {})
        /\ IF nothing
           THEN /\ Unlock(o)
                /\ sessions' = [sessions EXCEPT ![i] = None]
                /\ UNCHANGED session
           ELSE /\ session' = [session EXCEPT ![t] = o]
                /\ UNCHANGED <<profileLocks, freed, sessions>>
        /\ Goto(t, IF nothing THEN "idle"
                   ELSE IF object[o].context = "open" THEN "closing" ELSE "closing again")
        /\ UNCHANGED <<managedBrowser, process, browser, stranded, displaced, losses>>

CloseJob(t, i) ==
    /\ t \in Jobs /\ pc[t] = "idle"
    /\ sessions[i] # None
    /\ Close(t, i)

\* The first caller waits until the context is closed; context.close() of a
\* context that is closing already returns at once.
ContextClosed(t) ==
    /\ pc[t] \in {"closing", "closing again"}
    /\ object' = [object EXCEPT ![session[t]].context =
                     IF pc[t] = "closing" /\ @ = "closing" THEN "closed" ELSE @]
    /\ Unlock(session[t])
    /\ Goto(t, "quit")
    /\ UNCHANGED <<sessions, managedBrowser, process, session, browser,
                   crossed, stranded, displaced, losses>>

\* When the browser it owns, if any, is closed too. The id goes out of the
\* table, whoever has it.
Closed(t) ==
    /\ pc[t] = "quit"
    /\ object' = [object EXCEPT ![session[t]].state = "closed"]
    /\ sessions' = [sessions EXCEPT ![Of(t).id] = None]
    /\ Return(t)
    /\ UNCHANGED <<profileLocks, managedBrowser, process, pastVars>>

-----------------------------------------------------------------------------
(* An operation: requireSession, the queue of the session, the function.   *)

\* A navigation also takes a session that is closing, by createSession.
Ask(t, i) ==
    /\ t \in Jobs /\ pc[t] = "idle"
    /\ sessions[i] # None
    /\ object[sessions[i]].state \in {"creating", "ready", "busy", "closing"}
    /\ session' = [session EXCEPT ![t] = sessions[i]]
    /\ Goto(t, "queued")
    /\ UNCHANGED <<tables, object, browser, pastVars>>

Operate(t) ==
    /\ pc[t] = "queued"
    /\ \A u \in Threads : pc[u] = "operating" => session[u] # session[t]
    /\ object' = [object EXCEPT ![session[t]].state = "busy"]
    /\ Goto(t, "operating")
    /\ UNCHANGED <<tables, session, browser, pastVars>>

OperationEnds(t) ==
    /\ pc[t] = "operating"
    /\ object' = [object EXCEPT ![session[t]].state = "ready"]
    /\ Return(t)
    /\ UNCHANGED <<tables, pastVars>>

-----------------------------------------------------------------------------
(* sweep.  Clocks and the limit are abstract: it may find any session over *)
(* the limit or expired, closes one after the other, and may be done.      *)

\* Eviction looks at the object it found under the id when the sweep started;
\* after a loss another one may have taken its place.
Spared(i) == object[sessions[i]].state \in {"closing", "closed"} /\ i \notin displaced

SweepCloses(i) ==
    /\ pc[Sweeper] = "idle"
    /\ sessions[i] # None /\ ~Spared(i)
    /\ Close(Sweeper, i)

\* Mutant: only sessions that answer count.
InUseReady(b) == \E i \in Ids : /\ sessions[i] # None
                                /\ object[sessions[i]].browser = b
                                /\ object[sessions[i]].state \in {"ready", "busy"}

InUse(b) == \E i \in Ids : /\ sessions[i] # None
                           /\ object[sessions[i]].browser = b
                           /\ object[sessions[i]].state # "closed"

\* At last it closes the shared browser if no session uses it.
SweepEnds ==
    /\ pc[Sweeper] = "idle"
    /\ managedBrowser # None /\ ~InUse(managedBrowser)
    /\ process' = [process EXCEPT ![managedBrowser] = "closing"]
    /\ managedBrowser' = None
    /\ UNCHANGED <<sessions, profileLocks, object, pc, session, browser, pastVars>>

-----------------------------------------------------------------------------
(* What browsers do.                                                       *)

Lost(o) == object[o].state \notin {"new", "closed"}

\* A shared browser crashes or has been closed. Its listener takes the key out
\* of managedBrowsers, whichever browser is there.
Disconnected(b) ==
    LET hit == {o \in Sessions : object[o].browser = b}
        told == {o \in hit : Lost(o) /\ \E i \in Ids : sessions[i] = o}
    IN  /\ \/ process[b] = "up" /\ losses < MaxLosses /\ losses' = losses + 1
           \/ process[b] = "closing" /\ UNCHANGED losses
        /\ process' = [process EXCEPT ![b] = "gone"]
        /\ managedBrowser' = None
        /\ object' = [o \in Sessions |->
               [object[o] EXCEPT !.state = IF o \in told THEN "lost" ELSE @,
                                 !.context = IF o \in hit /\ @ # "none"
                                             THEN "gone" ELSE @]]
        /\ UNCHANGED <<sessions, profileLocks, pc, session, browser,
                       crossed, stranded, displaced, freed>>

\* The browser of a profile is closed, or it or the operator's crashes.
OwnDisconnected(o) ==
    /\ object[o].place # "shared"
    /\ \/ object[o].context = "closed" /\ object[o].place \in Profiles /\ UNCHANGED losses
       \/ object[o].context \in {"open", "closing"} /\ losses < MaxLosses
          /\ losses' = losses + 1
    /\ object' = [object EXCEPT ![o].context = "gone",
                                ![o].state = IF Lost(o) THEN "lost" ELSE @]
    /\ UNCHANGED <<tables, pc, session, browser, crossed, stranded, displaced, freed>>

-----------------------------------------------------------------------------
Job(t) ==
    \/ \E i \in Ids, mode \in Mode, profile \in Profiles \cup {None} :
          Create(t, i, mode, profile)
    \/ \E i \in Ids : CreateRefused(t, i) \/ CloseJob(t, i) \/ Ask(t, i)
    \/ LaunchProfile(t) \/ Attach(t) \/ UseManaged(t) \/ ChromiumUp(t) \/ Got(t)
    \/ ContextOpens(t) \/ LaunchFails(t) \/ FirstPage(t) \/ FirstPageFails(t)
    \/ Operate(t) \/ OperationEnds(t)

Next ==
    \/ \E t \in Jobs : Job(t)
    \/ \E t \in Threads : ContextClosed(t) \/ Closed(t)
    \/ (\E i \in Ids : SweepCloses(i)) \/ SweepEnds
    \/ \E b \in Browsers : Disconnected(b)
    \/ \E o \in Sessions : OwnDisconnected(o)

Spec == Init /\ [][Next]_vars

-----------------------------------------------------------------------------
(* Properties.                                                             *)

\* Every variable has its type.
TypeOK ==
    /\ sessions \in [Ids -> Sessions \cup {None}]
    /\ object \in [Sessions -> Session]
    /\ profileLocks \subseteq Profiles
    /\ managedBrowser \in Browsers \cup {None}
    /\ process \in [Browsers -> {"new", "up", "closing", "gone"}]
    /\ pc \in [Threads -> Pc]
    /\ session \in [Threads -> Sessions \cup {None}]
    /\ browser \in [Threads -> Browsers \cup {None}]
    /\ crossed \subseteq Sessions /\ stranded \subseteq Sessions
    /\ displaced \subseteq Ids /\ freed \subseteq Profiles /\ losses \in 0..MaxLosses

\* The browser of a session runs, or starts, in its profile directory.
Occupies(o) ==
    object[o].place \in Profiles /\ object[o].context \in {"launching", "open", "closing"}

\* A profile directory belongs to one browser at a time and is locked while that
\* runs, whatever is created, lost, used, closed and swept in whatever order, but
\* for two reasons: a session of that profile was closed while it was created or
\* by two callers at once, and the second caller frees the lock of a browser that
\* still runs; or a session of mode "existing" that names the profile was closed,
\* which frees a lock that it never took (browser-manager.mjs:889).
ProfileExclusive ==
    \A o \in Sessions : LET p == object[o].place IN Occupies(o) =>
        \/ /\ p \in profileLocks
           /\ \A q \in Sessions \ {o} : Occupies(q) => object[q].place # p
        \/ \E x \in crossed : object[x].place = p
        \/ p \in freed

Reachable(o) == Creating(o) \/ Closing(o) \/ \E i \in Ids : sessions[i] = o
Excused(o)   == \/ o \in stranded
                \/ object[o].id \in displaced \cup {object[x].id : x \in crossed}

\* No browser context and no lock outlives its place in the table, where a
\* close or the sweep would find it, except for three reasons: its first page
\* failed, it was closed twice or while created, or it was lost and a create took
\* its id.
NothingStrays ==
    /\ \A o \in Sessions :
          object[o].context \in {"launching", "open"} => Reachable(o) \/ Excused(o)
    /\ \A p \in profileLocks :
          \E o \in Sessions : object[o].place = p /\ (Reachable(o) \/ Excused(o))

\* The sweep never closes the shared browser under a session of the table that
\* has an open context in it, though it decides and closes between the awaits
\* of a session that is being created.
SweepSparesOpen ==
    \A i \in Ids : LET o == sessions[i] IN
        o # None /\ object[o].context = "open" /\ object[o].browser # None
        => process[object[o].browser] # "closing"
=============================================================================
