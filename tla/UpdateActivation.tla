-------------------------- MODULE UpdateActivation --------------------------
(***************************************************************************)
(* What client updates do to the installed files                           *)
(* (src/src/updater/updater.mjs, on Linux and macOS): the handler of an    *)
(* update job stages a release, the reported result activates it (app      *)
(* moves to a backup, the stage moves to app, a detached watchdog is       *)
(* spawned, the process ends itself), the process that the service manager *)
(* starts next marks the release healthy when the hub welcomes it, and a   *)
(* watchdog that finds no such mark moves the backup back.                 *)
(*                                                                         *)
(* A result is reported over HTTP (flushPendingResults) or over the session*)
(* (ackSessionResult), and both activate; nothing keeps a second           *)
(* activation out, of another update or of the same result over the other  *)
(* transport, so activations interleave rename by rename.                  *)
(*                                                                         *)
(* A directory is a function from file names to the release each file came *)
(* from, None where it is missing.  The directory that a rollback moves    *)
(* app to is never read and is left out, as is the Windows helper          *)
(* (updater.mjs:393-405).                                                  *)
(***************************************************************************)
EXTENDS Naturals

CONSTANTS
    Files,          \* names of the files of a release
    MaxVersion,     \* releases are 1..MaxVersion; 1 is installed first
    BadVersions,    \* releases that start but are never welcomed by the hub
    MaxUpdates,     \* bound: update jobs the hub sends
    MaxActivations, \* bound: calls of activatePreparedUpdate
    KillsGroup,     \* whether the service manager kills what a process leaves
    MaxMishaps      \* bound: kills of the process and renames the disk refuses

ASSUME UpdateAssumption ==
    /\ Files # {}
    /\ MaxVersion \in Nat \ {0}
    /\ BadVersions \subseteq 2..MaxVersion
    /\ MaxUpdates \in Nat /\ MaxActivations \in Nat
    /\ KillsGroup \in BOOLEAN
    /\ MaxMishaps \in Nat

None     == 0
Versions == 1..MaxVersion

\* Update jobs in the order they arrive, activations in that of their stamps.
Updates     == 1..MaxUpdates
Activations == 1..MaxActivations

Content  == [Files -> Versions \cup {None}]
Nothing  == [f \in Files |-> None]
Release(v) == [f \in Files |-> v]

\* An update job: not sent, its directory cleared, the completed result pending, acked over the session while flushPendingResults
\* may hold it still, or over.
JobPc == {"none", "cleared", "pending", "acked", "over"}

\* An activation: the two moves of the swap, the two of its undoing, the end.
ActPc == {"off", "backup", "install", "undo", "restore", "over"}

VARIABLES
    app,        \* layout.app
    stage,      \* clientReleases/<version>/stage
    previous,   \* clientBackups/previous-<stamp>
    running,    \* the release the process loaded; None: no process
    welcomed,   \* the hub has welcomed the running process
    job,        \* job[u]: how far update u is, and of which release
    act,        \* act[a]: where activation a is, of which release, who awaits it
    todo,       \* todo[a]: names its moveDirContents has still to rename
    record,     \* layout.updateState: the activation recorded last, or none
    markers,    \* activations whose healthy marker exists
    watchdog,   \* "off", "armed", "counting", "restoring", "over"
    \* history and bounds
    torn,       \* a swap or a rollback ended half-way, neither done nor undone
    crossed,    \* activations that met another one, or are of what runs already
    found,      \* found[a]: what activation a found in app
    mishaps

files   == <<app, stage, previous>>
process == <<running, welcomed>>
swap    == <<act, todo>>
guards  == <<markers, watchdog>>
past    == <<crossed, found>>
vars    == <<files, process, job, swap, record, guards, torn, past, mishaps>>

Init ==
    /\ app = Release(1)
    /\ stage = [v \in Versions |-> Nothing]
    /\ previous = [a \in Activations |-> Nothing]
    /\ running = 1 /\ welcomed = FALSE
    /\ job = [u \in Updates |-> [pc |-> "none", version |-> None]]
    /\ act = [a \in Activations |-> [pc |-> "off", version |-> None, by |-> "nobody"]]
    /\ todo = [a \in Activations |-> {}]
    /\ record = [version |-> None, by |-> {}]
    /\ markers = {}
    /\ watchdog = [a \in Activations |-> "off"]
    /\ torn = FALSE
    /\ crossed = {}
    /\ found = [a \in Activations |-> Nothing]
    /\ mishaps = 0

\* A job that is over.
Over == [pc |-> "over", version |-> None]

Names(dir) == {f \in Files : dir[f] # None}

Mishap == mishaps < MaxMishaps /\ mishaps' = mishaps + 1

\* A swap is under way, or being undone.
Swapping(a) == act[a].pc \in {"backup", "install", "undo", "restore"}

\* Activation a may still move files.
Live(a) == Swapping(a) \/ watchdog[a] \in {"armed", "counting", "restoring"}

-----------------------------------------------------------------------------
(* makeUpdateHandler: download, stage and check a release.                 *)

\* Only a release newer than the running one; its old directory goes first.
StageClear(u, v) ==
    /\ running # None
    /\ job[u].pc = "none" /\ \A w \in 1..(u - 1) : job[w].pc # "none"
    /\ v > running
    /\ stage' = [stage EXCEPT ![v] = Nothing]
    /\ job' = [job EXCEPT ![u] = [pc |-> "cleared", version |-> v]]
    /\ UNCHANGED <<app, previous, process, swap, record, guards, torn,
                   past, mishaps>>

\* The download, the digest, the extraction or a check fails.
StageFails(u) ==
    /\ job[u].pc = "cleared"
    /\ job' = [job EXCEPT ![u] = Over]
    /\ UNCHANGED <<files, process, swap, record, guards, torn, past, mishaps>>

\* The archive matches its digest and is extracted, every required file is
\* there and the handler returns.
StageReady(u) ==
    /\ job[u].pc = "cleared"
    /\ stage' = [stage EXCEPT ![job[u].version] = Release(job[u].version)]
    /\ job' = [job EXCEPT ![u].pc = "pending"]
    /\ UNCHANGED <<app, previous, process, swap, record, guards, torn, past, mishaps>>

-----------------------------------------------------------------------------
(* The result is reported: flushPendingResults and ackSessionResult.       *)

\* An ack needs the result to be pending still. A flush reports what was pending
\* when it began, acked since or not, and waits for its own activation.
Reported(u, by) ==
    /\ running # None
    /\ \/ /\ by = "session" /\ job[u].pc = "pending"
          /\ job' = [job EXCEPT ![u].pc = "acked"]
       \/ /\ by = "http" /\ job[u].pc \in {"pending", "acked"}
          /\ \A a \in Activations : act[a].by # "http"
          /\ job' = [job EXCEPT ![u] = Over]

\* authorizePreparedUpdate says no, or the process ends between the record of
\* the report and the activation.
NotActivated(u, by) ==
    /\ Reported(u, by)
    /\ UNCHANGED <<files, process, swap, record, guards, torn, past, mishaps>>

\* activatePreparedUpdate: the record and the watchdog's source are written,
\* the names of app read.
ActivateBegin(a, u, by) ==
    LET v      == job[u].version
        others == {b \in Activations : Live(b)} IN
    /\ Reported(u, by)
    /\ act[a].pc = "off" /\ \A b \in 1..(a - 1) : act[b].pc # "off"
    /\ act' = [act EXCEPT ![a] = [pc |-> "backup", version |-> v, by |-> by]]
    /\ todo' = [todo EXCEPT ![a] = Names(app)]
    /\ record' = [version |-> v, by |-> {a}]
    /\ crossed' = IF others = {} /\ v # running THEN crossed
                  ELSE crossed \cup others \cup {a}
    /\ found' = [found EXCEPT ![a] = app]
    /\ UNCHANGED <<files, process, guards, torn, mishaps>>

-----------------------------------------------------------------------------
(* swapAppContents: moveDirContents of app to the backup and of the stage  *)
(* to app; when the second fails, of app to the stage and of the backup to *)
(* app.                                                                    *)

\* rename moves one file and replaces one of that name.
Put(dir, f, v) == [dir EXCEPT ![f] = v]

\* Mutant: the file is removed and not moved.
BackupFileLost(a, f) ==
    /\ act[a].pc = "backup"
    /\ f \in todo[a] /\ app[f] # None
    /\ app' = Put(app, f, None)
    /\ todo' = [todo EXCEPT ![a] = @ \ {f}]
    /\ UNCHANGED <<previous, stage, process, job, act, record, guards, torn,
                   past, mishaps>>

BackupFile(a, f) ==
    /\ act[a].pc = "backup"
    /\ f \in todo[a] /\ app[f] # None
    /\ previous' = [previous EXCEPT ![a] = Put(@, f, app[f])]
    /\ app' = Put(app, f, None)
    /\ todo' = [todo EXCEPT ![a] = @ \ {f}]
    /\ UNCHANGED <<stage, process, job, act, record, guards, torn, past, mishaps>>

InstallFile(a, f) ==
    LET v == act[a].version IN
    /\ act[a].pc = "install"
    /\ f \in todo[a] /\ stage[v][f] # None
    /\ app' = Put(app, f, stage[v][f])
    /\ stage' = [stage EXCEPT ![v] = Put(@, f, None)]
    /\ todo' = [todo EXCEPT ![a] = @ \ {f}]
    /\ UNCHANGED <<previous, process, job, act, record, guards, torn, past, mishaps>>

UndoFile(a, f) ==
    LET v == act[a].version IN
    /\ act[a].pc = "undo"
    /\ f \in todo[a] /\ app[f] # None
    /\ stage' = [stage EXCEPT ![v] = Put(@, f, app[f])]
    /\ app' = Put(app, f, None)
    /\ todo' = [todo EXCEPT ![a] = @ \ {f}]
    /\ UNCHANGED <<previous, process, job, act, record, guards, torn, past, mishaps>>

RestoreFile(a, f) ==
    /\ act[a].pc = "restore"
    /\ f \in todo[a] /\ previous[a][f] # None
    /\ app' = Put(app, f, previous[a][f])
    /\ previous' = [previous EXCEPT ![a] = Put(@, f, None)]
    /\ todo' = [todo EXCEPT ![a] = @ \ {f}]
    /\ UNCHANGED <<stage, process, job, act, record, guards, torn, past, mishaps>>

Ended(a) == [act[a] EXCEPT !.pc = "over", !.by = "nobody"]

\* A move is over and the next one reads the names it has to rename.
Proceeds(a, pc, dir) ==
    /\ act' = [act EXCEPT ![a].pc = pc]
    /\ todo' = [todo EXCEPT ![a] = Names(dir)]
    /\ UNCHANGED <<files, process, job, record, guards, torn, past>>

BackupDone(a) ==
    /\ act[a].pc = "backup" /\ todo[a] = {}
    /\ Proceeds(a, "install", stage[act[a].version])
    /\ UNCHANGED mishaps

UndoDone(a) ==
    /\ act[a].pc = "undo" /\ todo[a] = {}
    /\ Proceeds(a, "restore", previous[a])
    /\ UNCHANGED mishaps

\* The watchdog is spawned and the SIGTERM armed.
ActivateEnd(a) ==
    /\ act[a].pc = "install" /\ todo[a] = {}
    /\ act' = [act EXCEPT ![a] = Ended(a)]
    /\ watchdog' = [watchdog EXCEPT ![a] = "armed"]
    /\ UNCHANGED <<files, process, job, todo, record, markers, torn,
                   past, mishaps>>

-----------------------------------------------------------------------------
(* The process and the service manager.                                    *)

\* What a process that ends leaves: the watchdogs, unless its group is killed.
Left(w) == CASE w = "armed" /\ ~KillsGroup -> "counting"
             [] KillsGroup /\ w # "off"    -> "over"
             [] OTHER                      -> w

\* The swaps of the process end where they are, all but that of the
\* activations in undone.
ProcessDies(undone) ==
    /\ running' = None /\ welcomed' = FALSE
    /\ job' = [u \in Updates |-> IF job[u].pc \in {"none", "pending"} THEN job[u] ELSE Over]
    /\ act' = [a \in Activations |-> IF Swapping(a) THEN Ended(a) ELSE act[a]]
    /\ todo' = [a \in Activations |-> {}]
    /\ torn' = (torn \/ \E a \in Activations \ undone : Swapping(a))

\* An activation rejects: flushPendingResults catches it and ends its flush,
\* for an ack the rejection ends the process.
Rejects(a, whole) ==
    IF act[a].by = "session"
    THEN /\ ProcessDies(IF whole THEN {a} ELSE {})
         /\ watchdog' = [b \in Activations |-> Left(watchdog[b])]
    ELSE /\ act' = [act EXCEPT ![a] = Ended(a)]
         /\ todo' = [todo EXCEPT ![a] = {}]
         /\ job' = [u \in Updates |-> IF job[u].pc = "acked" THEN Over ELSE job[u]]
         /\ torn' = (torn \/ ~whole)
         /\ UNCHANGED <<process, watchdog>>

\* A rename fails: the disk refuses, or something that runs at the same time
\* has taken the file.
RenameFails(a, f, dir) ==
    /\ f \in todo[a]
    /\ IF dir[f] = None
       THEN UNCHANGED mishaps
       ELSE Mishap

\* In the first move nothing is undone.
BackupFails(a, f) ==
    /\ act[a].pc = "backup"
    /\ RenameFails(a, f, app)
    /\ Rejects(a, previous[a] = Nothing)
    /\ UNCHANGED <<files, record, markers, past>>

\* Mutant: the new files go back and the old ones do not.
InstallFailsUnrestored(a, f) ==
    /\ act[a].pc = "install"
    /\ RenameFails(a, f, stage[act[a].version])
    /\ app' = Nothing
    /\ Rejects(a, TRUE)
    /\ UNCHANGED <<stage, previous, record, markers, past>>

InstallFails(a, f) ==
    /\ act[a].pc = "install"
    /\ RenameFails(a, f, stage[act[a].version])
    /\ Proceeds(a, "undo", app)

\* The first move of the undoing may fail, the second goes on.
UndoFails(a, f) ==
    /\ act[a].pc = "undo"
    /\ RenameFails(a, f, app)
    /\ Proceeds(a, "restore", previous[a])

RestoreDone(a) ==
    /\ act[a].pc = "restore" /\ todo[a] = {}
    /\ Rejects(a, TRUE)
    /\ UNCHANGED <<files, record, markers, past, mishaps>>

RestoreFails(a, f) ==
    /\ act[a].pc = "restore"
    /\ RenameFails(a, f, previous[a])
    /\ Rejects(a, FALSE)
    /\ UNCHANGED <<files, record, markers, past>>

Kill ==
    /\ running # None
    /\ Mishap
    /\ ProcessDies({})
    /\ watchdog' = [a \in Activations |-> Left(watchdog[a])]
    /\ UNCHANGED <<files, record, markers, past>>

\* The SIGTERM of an activation, 800 ms after its end.
ExitForUpdate ==
    /\ \E a \in Activations : watchdog[a] = "armed"
    /\ ProcessDies({})
    /\ watchdog' = [a \in Activations |-> Left(watchdog[a])]
    /\ UNCHANGED <<files, record, markers, past, mishaps>>

\* Mutant: a release counts as healthy as soon as it starts.
BootMarks(v) ==
    /\ running = None
    /\ app = Release(v)
    /\ running' = v
    /\ markers' = IF record.version = v THEN markers \cup record.by ELSE markers
    /\ UNCHANGED <<files, welcomed, job, swap, record, watchdog, torn,
                   past, mishaps>>

\* The service manager starts the launcher in app. A start that finds files
\* missing, or of two releases, fails and is tried again.
Boot(v) ==
    /\ running = None
    /\ app = Release(v)
    /\ running' = v
    /\ UNCHANGED <<files, welcomed, job, swap, record, guards, torn,
                   past, mishaps>>

\* Mutant: no marker is written.
WelcomeUnmarked ==
    /\ running \notin BadVersions \cup {None}
    /\ welcomed' = TRUE
    /\ UNCHANGED <<files, running, job, swap, record, guards, torn,
                   past, mishaps>>

\* Mutant: the marker is written whichever release runs.
WelcomeAnyVersion ==
    /\ running \notin BadVersions \cup {None}
    /\ welcomed' = TRUE
    /\ markers' = markers \cup record.by
    /\ UNCHANGED <<files, running, job, swap, record, watchdog, torn,
                   past, mishaps>>

\* The hub welcomes a session: markUpdateHealthy, if the record names the
\* version that runs. The session may come and go.
Welcome ==
    /\ running \notin BadVersions \cup {None}
    /\ welcomed' = TRUE
    /\ markers' = IF record.version = running
                  THEN markers \cup record.by ELSE markers
    /\ UNCHANGED <<files, running, job, swap, record, watchdog, torn,
                   past, mishaps>>

-----------------------------------------------------------------------------
(* The watchdog of an activation, 25 s after it was spawned.               *)

WatchdogSatisfied(a) ==
    /\ watchdog[a] = "counting"
    /\ a \in markers
    /\ watchdog' = [watchdog EXCEPT ![a] = "over"]
    /\ UNCHANGED <<files, process, job, swap, record, markers, torn, past, mishaps>>

\* Everything in app moves away.
WatchdogRemoves(a) ==
    /\ watchdog[a] = "counting"
    /\ a \notin markers
    /\ watchdog' = [watchdog EXCEPT ![a] = "restoring"]
    /\ app' = Nothing
    /\ UNCHANGED <<stage, previous, process, job, swap, record, markers, torn,
                   past, mishaps>>

\* moveDirContents as a whole.
Merge(from, to) == [f \in Files |-> IF from[f] # None THEN from[f] ELSE to[f]]

\* The backup moves back and the process named in the pid file is ended.
WatchdogRestores(a) ==
    /\ watchdog[a] = "restoring"
    /\ app' = Merge(previous[a], app)
    /\ previous' = [previous EXCEPT ![a] = Nothing]
    /\ ProcessDies({})
    /\ watchdog' = [b \in Activations |->
                       IF b = a THEN "over"
                       ELSE IF running = None THEN watchdog[b]
                       ELSE Left(watchdog[b])]
    /\ UNCHANGED <<stage, record, markers, past, mishaps>>

\* A rename of the watchdog fails: it ends there, and says nothing.
WatchdogFails(a, f) ==
    /\ Mishap
    /\ watchdog' = [watchdog EXCEPT ![a] = "over"]
    /\ \/ /\ watchdog[a] = "counting" /\ a \notin markers
          /\ app[f] # None
          /\ \E moved \in SUBSET (Names(app) \ {f}) :
                app' = [g \in Files |-> IF g \in moved THEN None ELSE app[g]]
          /\ UNCHANGED previous
       \/ /\ watchdog[a] = "restoring"
          /\ previous[a][f] # None
          /\ \E moved \in SUBSET (Names(previous[a]) \ {f}) :
                /\ app' = [g \in Files |-> IF g \in moved THEN previous[a][g] ELSE app[g]]
                /\ previous' = [previous EXCEPT ![a] =
                                   [g \in Files |-> IF g \in moved THEN None ELSE @[g]]]
    /\ torn' = TRUE
    /\ UNCHANGED <<stage, process, job, swap, record, markers, past>>

-----------------------------------------------------------------------------
Stage    == \E u \in Updates :
               \/ \E v \in Versions : StageClear(u, v)
               \/ StageFails(u) \/ StageReady(u)
Report   == \E u \in Updates, by \in {"http", "session"} :
               \/ NotActivated(u, by)
               \/ \E a \in Activations : ActivateBegin(a, u, by)
Move(a)  == \/ \E f \in Files : \/ BackupFile(a, f) \/ InstallFile(a, f)
                                \/ UndoFile(a, f) \/ RestoreFile(a, f)
            \/ BackupDone(a) \/ UndoDone(a) \/ RestoreDone(a) \/ ActivateEnd(a)
Fault    == \/ Kill
            \/ \E a \in Activations, f \in Files :
                  \/ BackupFails(a, f) \/ InstallFails(a, f)
                  \/ UndoFails(a, f) \/ RestoreFails(a, f) \/ WatchdogFails(a, f)
Process  == ExitForUpdate \/ Welcome \/ \E v \in Versions : Boot(v)
Watch(a) == WatchdogSatisfied(a) \/ WatchdogRemoves(a) \/ WatchdogRestores(a)

Next == Stage \/ Report \/ Fault \/ Process \/ \E a \in Activations : Move(a) \/ Watch(a)

Spec == Init /\ [][Next]_vars

Fairness ==
    /\ WF_vars(ExitForUpdate)
    /\ \A v \in Versions \ BadVersions : WF_vars(Boot(v))
    /\ \A a \in Activations : WF_vars(Move(a)) /\ WF_vars(Watch(a))

FairSpec == Spec /\ Fairness
-----------------------------------------------------------------------------
TypeOK ==
    /\ app \in Content
    /\ stage \in [Versions -> Content]
    /\ previous \in [Activations -> Content]
    /\ running \in Versions \cup {None}
    /\ welcomed \in BOOLEAN
    /\ job \in [Updates -> [pc : JobPc, version : Versions \cup {None}]]
    /\ act \in [Activations -> [pc : ActPc, version : Versions \cup {None},
                                by : {"http", "session", "nobody"}]]
    /\ todo \in [Activations -> SUBSET Files]
    /\ record \in [version : Versions \cup {None}, by : SUBSET Activations]
    /\ markers \subseteq Activations
    /\ watchdog \in [Activations -> {"off", "armed", "counting", "restoring", "over"}]
    /\ torn \in BOOLEAN
    /\ crossed \subseteq Activations
    /\ found \in [Activations -> Content]
    /\ mishaps \in Nat

\* A watchdog never takes away a release that the hub has welcomed: the marker
\* named in the record is the one it looks for, whatever restarts lie between
\* (updater.mjs:477-486, 501). Excepted is an activation whose record another
\* one has overwritten since (437).
HealthyStays ==
    [][\A a \in Activations :
          WatchdogRemoves(a) /\ record.by = {a}
             => ~(welcomed /\ running = act[a].version)]_vars

\* A rollback puts back, file for file, what the activation found in app,
\* however the swap went and whatever other updates staged meanwhile
\* (updater.mjs:301-315, 501), unless it crossed another activation.
RollbackRestores ==
    [][\A a \in Activations :
          WatchdogRestores(a) /\ a \notin crossed => app' = found[a]]_vars

\* What excuses the files of app: a move that ended half-way, or two
\* activations that moved them at the same time.
Spoiled == torn \/ crossed # {}

\* After a process ends, for an update, a rollback, a failed rename or a kill,
\* the service manager can start a release again (updater.mjs:308-314, 471-474).
Recovers == running = None ~> running # None \/ Spoiled

\* A release that the hub never welcomes is left in the end ("25s detached
\* watchdog", updater.mjs:508).
BadReleaseIsLeft ==
    running \in BadVersions ~> running \notin BadVersions \/ Spoiled

\* A file is where the swap found it, has put it, or would put it back.
Undecided(a) == Swapping(a) \/ watchdog[a] = "restoring"
Held == IF \E a \in Activations : Undecided(a)
        THEN found[CHOOSE a \in Activations : Undecided(a)] ELSE app

OnTrial(a) == watchdog[a] \in {"armed", "counting"}
Kept == IF \E a \in Activations : OnTrial(a)
        THEN previous[CHOOSE a \in Activations : OnTrial(a)] ELSE Nothing

VersionOf(dir) == IF \E v \in Versions : dir = Release(v)
                  THEN CHOOSE v \in Versions : dir = Release(v) ELSE None

Accepted == \E a \in Activations : OnTrial(a) /\ a \in markers

\* Whatever moves, fails and restarts, the client has one release installed, as
\* InstalledRelease promises: the swap, file by file, counts as one step, its
\* undoing and a rollback bring back the whole release that was there, and a
\* release on probation stays exactly when the hub has welcomed it.
Installed == INSTANCE InstalledRelease
    WITH Survives  <- ~KillsGroup,
         installed <- VersionOf(Held),
         fallback  <- VersionOf(Kept),
         accepted  <- Accepted,
         torn      <- Spoiled
OneRelease == Installed!Spec
=============================================================================
