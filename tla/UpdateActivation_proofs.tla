---------------------- MODULE UpdateActivation_proofs ----------------------
(***************************************************************************)
(* What updates do to the installed files, for any number of releases,     *)
(* files, update jobs, activations, kills and refused renames, whatever    *)
(* they do to each other.                                                  *)
(*                                                                         *)
(* Course says what each activation has behind it and ties the record, the *)
(* markers and the welcome together.  An activation that has crossed no    *)
(* other is the only one that moves files (Alone), and the backup holds,   *)
(* or app and the backup hold between them, what it found in app (Back).   *)
(* While none has crossed another and no move ended half-way, a whole      *)
(* release is in app or can go back there (Sound): enough to see one       *)
(* installed release in the moving files, as InstalledRelease promises.    *)
(***************************************************************************)
EXTENDS UpdateActivation, TLAPS

\* An activation that has begun has a release, and so has an update job.
Begun ==
    /\ \A a \in Activations : act[a].pc # "off" => act[a].version \in Versions
    /\ \A u \in Updates : job[u].pc \in {"cleared", "pending", "acked"}
                             => job[u].version \in Versions

\* What each activation has behind it.
Course ==
    \A a \in Activations :
        /\ act[a].pc = "off" => /\ previous[a] = Nothing /\ watchdog[a] = "off"
                                /\ a \notin markers /\ a \notin record.by
        /\ watchdog[a] # "off" => act[a].pc = "over"
        /\ watchdog[a] \in {"counting", "restoring"} => ~KillsGroup
        /\ Swapping(a) \/ watchdog[a] = "armed" => running # None
        /\ record.by = {a} => record.version = act[a].version
        /\ watchdog[a] = "counting" /\ record.by = {a} /\ welcomed
              /\ running = act[a].version => a \in markers

\* No process, no welcome.
Alive == welcomed => running # None

\* What has crossed nothing is alone.
Alone ==
    \A a \in Activations : Live(a) /\ a \notin crossed =>
        /\ record.by = {a}
        /\ \A b \in Activations : Live(b) => b = a

\* Where the files are that activation a found in app.
BackOf(a) ==
    /\ act[a].pc = "backup" =>
          /\ todo[a] = Names(app)
          /\ \A f \in Files :
                IF app[f] # None THEN app[f] = found[a][f] /\ previous[a][f] = None
                                 ELSE previous[a][f] = found[a][f]
    /\ act[a].pc \in {"install", "undo"} => previous[a] = found[a]
    /\ act[a].pc = "restore" =>
          \A f \in Files : /\ f \in todo[a] => previous[a][f] = found[a][f]
                           /\ f \notin todo[a] => found[a][f] \in {None, app[f]}
    /\ watchdog[a] \in {"armed", "counting", "restoring"} => previous[a] = found[a]
    /\ watchdog[a] = "restoring" => app = Nothing

Back == \A a \in Activations : Live(a) /\ a \notin crossed => BackOf(a)

IInv == TypeOK /\ Begun /\ Course /\ Alive /\ Alone /\ Back

(***************************************************************************)
(* Versions and directories.                                               *)
(***************************************************************************)
LEMMA VersionFacts ==
    /\ \A v \in Versions : v \in Nat /\ v # None /\ None < v
    /\ None \in Nat /\ None \notin Versions
    /\ 1 \in Versions
BY UpdateAssumption DEF Versions, None

LEMMA Directories ==
    /\ Nothing \in Content
    /\ \A v \in Versions : Release(v) \in Content /\ Release(v) # Nothing
    /\ \A v, w \in Versions : Release(v) = Release(w) => v = w
<1>1. PICK g \in Files : TRUE
  BY UpdateAssumption
<1>2. \A v \in Versions : Release(v)[g] = v /\ Nothing[g] = None
  BY <1>1 DEF Release, Nothing
<1>3. Nothing \in Content /\ \A v \in Versions : Release(v) \in Content
  BY DEF Nothing, Content, Release
<1> QED
  BY <1>2, <1>3, VersionFacts

\* A directory that has nothing, or the same release everywhere.
LEMMA SameEverywhere ==
    ASSUME NEW dir \in Content
    PROVE  /\ (\A f \in Files : dir[f] = None) => dir = Nothing
           /\ \A v \in Versions : (\A f \in Files : dir[f] = v) => dir = Release(v)
BY DEF Content, Nothing, Release

LEMMA MergeType ==
    ASSUME NEW from \in Content, NEW to \in Content
    PROVE  Merge(from, to) \in Content
BY DEF Merge, Content

LEMMA PutType ==
    ASSUME NEW dir \in Content, NEW f \in Files, NEW v \in Versions \cup {None}
    PROVE  /\ Put(dir, f, v) \in Content
           /\ \A g \in Files : Put(dir, f, v)[g] = IF g = f THEN v ELSE dir[g]
BY DEF Put, Content

LEMMA NamesType ==
    ASSUME NEW dir
    PROVE  Names(dir) \subseteq Files
BY DEF Names

LEMMA LeftType ==
    ASSUME NEW w \in {"off", "armed", "counting", "restoring", "over"}
    PROVE  /\ Left(w) \in {"off", "counting", "restoring", "over"}
           /\ Left(w) = "off" => w = "off"
           /\ Left(w) = "counting" => w \in {"armed", "counting"}
           /\ Left(w) = "restoring" => w = "restoring"
           /\ Left(w) \in {"counting", "restoring"} => ~KillsGroup
BY DEF Left

(***************************************************************************)
(* Types.                                                                  *)
(***************************************************************************)
Acts == [pc : ActPc, version : Versions \cup {None}, by : {"http", "session", "nobody"}]
Jobs == [pc : JobPc, version : Versions \cup {None}]
Dogs == {"off", "armed", "counting", "restoring", "over"}

LEMMA InitTypes == Init => TypeOK
<1> SUFFICES ASSUME Init PROVE TypeOK
  OBVIOUS
<1>1. app \in Content /\ Nothing \in Content /\ running \in Versions
  BY Directories, VersionFacts DEF Init
<1>2. act \in [Activations -> Acts] /\ job \in [Updates -> Jobs]
  BY DEF Init, Acts, Jobs, ActPc, JobPc
<1>3. record \in [version : Versions \cup {None}, by : SUBSET Activations]
  BY DEF Init
<1>4. /\ stage \in [Versions -> Content] /\ previous \in [Activations -> Content]
      /\ found \in [Activations -> Content]
  BY <1>1 DEF Init
<1> QED
  BY <1>1, <1>2, <1>3, <1>4 DEF Init, TypeOK, Acts, Jobs

LEMMA EndedType ==
    ASSUME TypeOK, NEW a \in Activations
    PROVE  /\ Ended(a) \in Acts
           /\ Ended(a).pc = "over" /\ Ended(a).version = act[a].version
           /\ Ended(a).by = "nobody"
BY ZenonT(30) DEF TypeOK, Acts, ActPc, Ended

LEMMA OverType == Over \in Jobs
BY DEF Over, Jobs, JobPc

\* The process ends: what it leaves has its type.
LEMMA DiesTypes ==
    ASSUME TypeOK, NEW undone, ProcessDies(undone)
    PROVE  /\ running' \in Versions \cup {None} /\ welcomed' \in BOOLEAN
           /\ job' \in [Updates -> Jobs] /\ act' \in [Activations -> Acts]
           /\ todo' \in [Activations -> SUBSET Files] /\ torn' \in BOOLEAN
<1>1. act' \in [Activations -> Acts]
  BY EndedType DEF ProcessDies, TypeOK, Acts
<1>2. job' \in [Updates -> Jobs]
  BY OverType DEF ProcessDies, TypeOK, Jobs
<1> QED
  BY <1>1, <1>2 DEF ProcessDies, TypeOK

LEMMA LeftTypes ==
    ASSUME TypeOK, watchdog' = [b \in Activations |-> Left(watchdog[b])]
    PROVE  watchdog' \in [Activations -> Dogs]
BY LeftType DEF TypeOK, Dogs

LEMMA RejectsTypes ==
    ASSUME TypeOK, NEW a \in Activations, NEW whole, Rejects(a, whole)
    PROVE  /\ running' \in Versions \cup {None} /\ welcomed' \in BOOLEAN
           /\ job' \in [Updates -> Jobs] /\ act' \in [Activations -> Acts]
           /\ todo' \in [Activations -> SUBSET Files] /\ torn' \in BOOLEAN
           /\ watchdog' \in [Activations -> Dogs]
<1>1. CASE act[a].by = "session"
  BY <1>1, DiesTypes, LeftTypes DEF Rejects
<1>2. CASE act[a].by # "session"
  <2>1. act' \in [Activations -> Acts]
    BY <1>2, EndedType DEF Rejects, TypeOK, Acts
  <2>2. job' \in [Updates -> Jobs]
    BY <1>2, OverType DEF Rejects, TypeOK, Jobs
  <2>3. todo' \in [Activations -> SUBSET Files] /\ torn' \in BOOLEAN
    BY <1>2 DEF Rejects, TypeOK
  <2> QED
    BY <1>2, <2>1, <2>2, <2>3 DEF Rejects, TypeOK, Dogs, process
<1> QED
  BY <1>1, <1>2

LEMMA ProceedsTypes ==
    ASSUME TypeOK, NEW a \in Activations, NEW pc \in ActPc, NEW dir, Proceeds(a, pc, dir),
           mishaps' \in Nat
    PROVE  TypeOK'
<1>1. act' \in [Activations -> Acts]
  BY DEF Proceeds, TypeOK, Acts
<1>2. todo' \in [Activations -> SUBSET Files]
  BY NamesType DEF Proceeds, TypeOK
<1> QED
  BY <1>1, <1>2 DEF Proceeds, TypeOK, Acts, Jobs, files, process, guards, past

LEMMA MishapType ==
    ASSUME TypeOK
    PROVE  /\ Mishap => mishaps' \in Nat
           /\ \A a \in Activations, f \in Files : \A dir : RenameFails(a, f, dir) => mishaps' \in Nat
BY DEF TypeOK, Mishap, RenameFails

LEMMA StepTypes == TypeOK /\ Begun /\ [Next]_vars => TypeOK'
<1> SUFFICES ASSUME TypeOK, Begun, [Next]_vars PROVE TypeOK'
  OBVIOUS
<1> USE DEF files, process, swap, guards, past, Acts, Jobs, Dogs
<1>n. None \in Versions \cup {None}
  OBVIOUS
<1>1. ASSUME NEW u \in Updates, NEW v \in Versions, StageClear(u, v) PROVE TypeOK'
  <2>1. stage' \in [Versions -> Content]
    BY <1>1, Directories DEF StageClear, TypeOK
  <2>2. job' \in [Updates -> Jobs]
    BY <1>1 DEF StageClear, TypeOK, JobPc
  <2> QED
    BY <1>1, <2>1, <2>2 DEF StageClear, TypeOK
<1>2. ASSUME NEW u \in Updates, StageFails(u) PROVE TypeOK'
  <2>1. job' \in [Updates -> Jobs]
    BY <1>2, OverType DEF StageFails, TypeOK
  <2> QED
    BY <1>2, <2>1 DEF StageFails, TypeOK
<1>3. ASSUME NEW u \in Updates, StageReady(u) PROVE TypeOK'
  <2>1. Release(job[u].version) \in Content
    BY <1>3, Directories DEF StageReady, Begun
  <2>2. stage' \in [Versions -> Content]
    BY <1>3, <2>1 DEF StageReady, TypeOK
  <2>3. job' \in [Updates -> Jobs]
    BY <1>3 DEF StageReady, TypeOK, JobPc
  <2> QED
    BY <1>3, <2>2, <2>3 DEF StageReady, TypeOK
<1>r. ASSUME NEW u \in Updates, NEW by \in {"http", "session"}, Reported(u, by)
      PROVE  job' \in [Updates -> Jobs]
  BY <1>r, OverType DEF Reported, TypeOK, JobPc
<1>4. ASSUME NEW u \in Updates, NEW by \in {"http", "session"}, NotActivated(u, by) PROVE TypeOK'
  BY <1>4, <1>r DEF NotActivated, TypeOK
<1>5. ASSUME NEW a \in Activations, NEW u \in Updates, NEW by \in {"http", "session"},
             ActivateBegin(a, u, by)
      PROVE  TypeOK'
  <2>1. job' \in [Updates -> Jobs] /\ job[u].version \in Versions \cup {None}
    BY <1>5, <1>r DEF ActivateBegin, TypeOK
  <2>2. act' \in [Activations -> Acts]
    BY <1>5, <2>1 DEF ActivateBegin, TypeOK, ActPc
  <2>3. todo' \in [Activations -> SUBSET Files]
    BY <1>5, NamesType DEF ActivateBegin, TypeOK
  <2>4. record' \in [version : Versions \cup {None}, by : SUBSET Activations]
    BY <1>5, <2>1 DEF ActivateBegin
  <2>5. crossed' \subseteq Activations /\ found' \in [Activations -> Content]
    BY <1>5 DEF ActivateBegin, TypeOK
  <2> QED
    BY <1>5, <2>1, <2>2, <2>3, <2>4, <2>5 DEF ActivateBegin, TypeOK
<1>6. ASSUME NEW a \in Activations, NEW f \in Files, BackupFile(a, f) PROVE TypeOK'
  <2>1. app[f] \in Versions \cup {None}
    BY DEF TypeOK, Content
  <2>2. Put(app, f, None) \in Content /\ Put(previous[a], f, app[f]) \in Content
    BY <2>1, <1>n, PutType DEF TypeOK
  <2>3. previous' \in [Activations -> Content] /\ todo' \in [Activations -> SUBSET Files]
    BY <1>6, <2>2 DEF BackupFile, TypeOK
  <2> QED
    BY <1>6, <2>2, <2>3 DEF BackupFile, TypeOK
<1>7. ASSUME NEW a \in Activations, NEW f \in Files, RestoreFile(a, f) PROVE TypeOK'
  <2>1. previous[a][f] \in Versions \cup {None}
    BY DEF TypeOK, Content
  <2>2. Put(app, f, previous[a][f]) \in Content /\ Put(previous[a], f, None) \in Content
    BY <2>1, <1>n, PutType DEF TypeOK
  <2>3. previous' \in [Activations -> Content] /\ todo' \in [Activations -> SUBSET Files]
    BY <1>7, <2>2 DEF RestoreFile, TypeOK
  <2> QED
    BY <1>7, <2>2, <2>3 DEF RestoreFile, TypeOK
<1>8. ASSUME NEW a \in Activations, NEW f \in Files, InstallFile(a, f) PROVE TypeOK'
  <2> DEFINE v == act[a].version
  <2>1. v \in Versions
    BY <1>8 DEF InstallFile, Begun
  <2>2. stage[v][f] \in Versions \cup {None} /\ stage[v] \in Content
    BY <2>1 DEF TypeOK, Content
  <2>3. Put(app, f, stage[v][f]) \in Content /\ Put(stage[v], f, None) \in Content
    BY <2>2, <1>n, PutType DEF TypeOK
  <2>4. stage' \in [Versions -> Content] /\ todo' \in [Activations -> SUBSET Files]
    BY <1>8, <2>3 DEF InstallFile, TypeOK
  <2> QED
    BY <1>8, <2>3, <2>4 DEF InstallFile, TypeOK
<1>9. ASSUME NEW a \in Activations, NEW f \in Files, UndoFile(a, f) PROVE TypeOK'
  <2> DEFINE v == act[a].version
  <2>1. v \in Versions
    BY <1>9 DEF UndoFile, Begun
  <2>2. app[f] \in Versions \cup {None} /\ stage[v] \in Content
    BY <2>1 DEF TypeOK, Content
  <2>3. Put(app, f, None) \in Content /\ Put(stage[v], f, app[f]) \in Content
    BY <2>2, <1>n, PutType DEF TypeOK
  <2>4. stage' \in [Versions -> Content] /\ todo' \in [Activations -> SUBSET Files]
    BY <1>9, <2>3 DEF UndoFile, TypeOK
  <2> QED
    BY <1>9, <2>3, <2>4 DEF UndoFile, TypeOK
<1>10. ASSUME NEW a \in Activations, BackupDone(a) \/ UndoDone(a) PROVE TypeOK'
  <2>1. mishaps' \in Nat
    BY <1>10 DEF BackupDone, UndoDone, TypeOK
  <2>2. "install" \in ActPc /\ "restore" \in ActPc
    BY DEF ActPc
  <2> QED
    BY <1>10, <2>1, <2>2, ProceedsTypes DEF BackupDone, UndoDone
<1>11. ASSUME NEW a \in Activations, NEW f \in Files, InstallFails(a, f) \/ UndoFails(a, f)
       PROVE  TypeOK'
  <2>1. mishaps' \in Nat
    BY <1>11, MishapType DEF InstallFails, UndoFails
  <2>2. "undo" \in ActPc /\ "restore" \in ActPc
    BY DEF ActPc
  <2> QED
    BY <1>11, <2>1, <2>2, ProceedsTypes DEF InstallFails, UndoFails
<1>12. ASSUME NEW a \in Activations, ActivateEnd(a) PROVE TypeOK'
  <2>1. act' \in [Activations -> Acts]
    BY <1>12, EndedType DEF ActivateEnd, TypeOK
  <2> QED
    BY <1>12, <2>1 DEF ActivateEnd, TypeOK
<1>13. ASSUME NEW a \in Activations, NEW f \in Files, BackupFails(a, f) \/ RestoreFails(a, f)
       PROVE  TypeOK'
  <2>1. mishaps' \in Nat
    BY <1>13, MishapType DEF BackupFails, RestoreFails
  <2>2. \E whole : Rejects(a, whole)
    BY <1>13 DEF BackupFails, RestoreFails
  <2> QED
    BY <1>13, <2>1, <2>2, RejectsTypes DEF BackupFails, RestoreFails, TypeOK
<1>14. ASSUME NEW a \in Activations, RestoreDone(a) PROVE TypeOK'
  BY <1>14, RejectsTypes DEF RestoreDone, TypeOK
<1>15. ASSUME Kill \/ ExitForUpdate PROVE TypeOK'
  <2>1. mishaps' \in Nat /\ ProcessDies({})
    BY <1>15, MishapType DEF Kill, ExitForUpdate, TypeOK
  <2> QED
    BY <1>15, <2>1, DiesTypes, LeftTypes DEF Kill, ExitForUpdate, TypeOK
<1>16. ASSUME NEW v \in Versions, Boot(v) PROVE TypeOK'
  BY <1>16 DEF Boot, TypeOK
<1>17. ASSUME Welcome PROVE TypeOK'
  BY <1>17 DEF Welcome, TypeOK
<1>18. ASSUME NEW a \in Activations, WatchdogSatisfied(a) PROVE TypeOK'
  BY <1>18 DEF WatchdogSatisfied, TypeOK
<1>19. ASSUME NEW a \in Activations, WatchdogRemoves(a) PROVE TypeOK'
  BY <1>19, Directories DEF WatchdogRemoves, TypeOK
<1>20. ASSUME NEW a \in Activations, WatchdogRestores(a) PROVE TypeOK'
  <2>1. Merge(previous[a], app) \in Content /\ Nothing \in Content
    BY MergeType, Directories DEF TypeOK
  <2>2. app' \in Content /\ previous' \in [Activations -> Content]
    BY <1>20, <2>1 DEF WatchdogRestores, TypeOK
  <2>3. \A b \in Activations : watchdog[b] \in Dogs /\ Left(watchdog[b]) \in Dogs
    BY LeftType DEF TypeOK
  <2>4. watchdog' \in [Activations -> Dogs]
    BY <1>20, <2>3 DEF WatchdogRestores
  <2>5. ProcessDies({})
    BY <1>20 DEF WatchdogRestores
  <2> QED
    BY <1>20, <2>2, <2>4, <2>5, DiesTypes DEF WatchdogRestores, TypeOK
<1>21. ASSUME NEW a \in Activations, NEW f \in Files, WatchdogFails(a, f) PROVE TypeOK'
  <2>1. mishaps' \in Nat
    BY <1>21, MishapType DEF WatchdogFails
  <2>2. \A S : [g \in Files |-> IF g \in S THEN None ELSE app[g]] \in Content
    BY DEF TypeOK, Content
  <2>3. \A S : /\ [g \in Files |-> IF g \in S THEN previous[a][g] ELSE app[g]] \in Content
               /\ [g \in Files |-> IF g \in S THEN None ELSE previous[a][g]] \in Content
    BY DEF TypeOK, Content
  <2>4. app' \in Content /\ previous' \in [Activations -> Content]
    <3>1. CASE watchdog[a] = "counting"
      <4>1. PICK S : app' = [g \in Files |-> IF g \in S THEN None ELSE app[g]]
        BY <1>21, <3>1 DEF WatchdogFails
      <4> QED
        BY <1>21, <3>1, <4>1, <2>2 DEF WatchdogFails, TypeOK
    <3>2. CASE watchdog[a] # "counting"
      <4>1. PICK S : /\ app' = [g \in Files |-> IF g \in S THEN previous[a][g] ELSE app[g]]
                     /\ previous' = [previous EXCEPT ![a] =
                                        [g \in Files |-> IF g \in S THEN None ELSE @[g]]]
        BY <1>21, <3>2 DEF WatchdogFails
      <4>2. previous' = [previous EXCEPT ![a] =
                            [g \in Files |-> IF g \in S THEN None ELSE previous[a][g]]]
        BY <4>1
      <4> DEFINE rest == [g \in Files |-> IF g \in S THEN None ELSE previous[a][g]]
      <4>3. rest \in Content /\ previous' = [previous EXCEPT ![a] = rest]
        BY <4>2, <2>3
      <4>4. app' \in Content
        BY <4>1, <2>3
      <4> HIDE DEF rest
      <4>5. previous' \in [Activations -> Content]
        BY <4>3 DEF TypeOK
      <4> QED
        BY <4>4, <4>5
    <3> QED
      BY <3>1, <3>2
  <2> QED
    BY <1>21, <2>1, <2>4 DEF WatchdogFails, TypeOK
<1>22. CASE UNCHANGED vars
  BY <1>22 DEF vars, TypeOK
<1> QED
  BY <1>1, <1>2, <1>3, <1>4, <1>5, <1>6, <1>7, <1>8, <1>9, <1>10, <1>11, <1>12, <1>13, <1>14,
     <1>15, <1>16, <1>17, <1>18, <1>19, <1>20, <1>21, <1>22
     DEF Next, Stage, Report, Move, Fault, Process, Watch

(***************************************************************************)
(* Begun, Course and Alive: the control of every activation.               *)
(***************************************************************************)
LEMMA InitControl == Init => Begun /\ Course /\ Alive /\ Alone /\ Back
BY DEF Init, Begun, Course, Alive, Alone, Back, Live, Swapping

\* The end of the process: no swap goes on, and no watchdog is armed.
LEMMA DiesEffect ==
    ASSUME TypeOK, NEW undone, ProcessDies(undone)
    PROVE  /\ running' = None /\ welcomed' = FALSE
           /\ \A a \in Activations :
                 /\ ~Swapping(a)'
                 /\ act'[a].version = act[a].version
                 /\ (act'[a].pc = "off") <=> (act[a].pc = "off")
                 /\ act[a].pc = "over" => act'[a].pc = "over"
                 /\ act[a].pc # "off" => act'[a].pc = "over"
           /\ \A u \in Updates : job'[u] \in {job[u], Over}
                                 /\ (job'[u].pc \notin {"over"} => job'[u] = job[u])
<1>1. \A a \in Activations : act'[a] = IF Swapping(a) THEN Ended(a) ELSE act[a]
  BY DEF ProcessDies
<1>2. \A a \in Activations : act[a].pc \in ActPc
  BY DEF TypeOK
<1>3. \A u \in Updates : job'[u] \in {job[u], Over} /\ (job'[u].pc \notin {"over"} => job'[u] = job[u])
  BY DEF ProcessDies, Over
<1> QED
  BY <1>1, <1>2, <1>3, EndedType DEF ProcessDies, Swapping, ActPc

LEMMA LeftEffect ==
    ASSUME TypeOK, watchdog' = [b \in Activations |-> Left(watchdog[b])]
    PROVE  \A a \in Activations :
              /\ watchdog'[a] # "armed"
              /\ watchdog'[a] # "off" => watchdog[a] # "off"
              /\ watchdog'[a] = "counting" => watchdog[a] \in {"armed", "counting"} /\ ~KillsGroup
              /\ watchdog'[a] = "restoring" => watchdog[a] = "restoring" /\ ~KillsGroup
<1> SUFFICES ASSUME NEW a \in Activations
             PROVE  LET w == Left(watchdog[a]) IN
                    /\ w # "armed"
                    /\ w # "off" => watchdog[a] # "off"
                    /\ w = "counting" => watchdog[a] \in {"armed", "counting"} /\ ~KillsGroup
                    /\ w = "restoring" => watchdog[a] = "restoring" /\ ~KillsGroup
  OBVIOUS
<1>1. watchdog[a] \in {"off", "armed", "counting", "restoring", "over"}
  BY DEF TypeOK
<1> QED
  BY <1>1 DEF Left

\* What the end of activation b leaves of every activation.
LEMMA RejectsEffect ==
    ASSUME TypeOK, NEW b \in Activations, NEW whole, Rejects(b, whole), Swapping(b)
    PROVE  /\ running' \in {running, None} /\ (welcomed' => welcomed /\ running' = running)
           /\ \A a \in Activations :
                 /\ Swapping(a)' => Swapping(a) /\ a # b /\ running' = running
                 /\ act'[a].version = act[a].version
                 /\ (act'[a].pc = "off") <=> (act[a].pc = "off")
                 /\ act[a].pc = "over" => act'[a].pc = "over"
                 /\ watchdog'[a] = "armed" => watchdog[a] = "armed" /\ running' = running
                 /\ watchdog'[a] # "off" => watchdog[a] # "off"
                 /\ watchdog'[a] = "counting" =>
                       \/ watchdog[a] = "counting"
                       \/ watchdog[a] = "armed" /\ ~KillsGroup /\ ~welcomed'
                 /\ watchdog'[a] = "restoring" => watchdog[a] = "restoring"
           /\ \A u \in Updates : job'[u].pc \notin {"over"} => job'[u] = job[u]
<1>1. CASE act[b].by = "session"
  <2>1. ProcessDies(IF whole THEN {b} ELSE {})
        /\ watchdog' = [c \in Activations |-> Left(watchdog[c])]
    BY <1>1 DEF Rejects
  <2> QED
    BY <2>1, DiesEffect, LeftEffect
<1>2. CASE act[b].by # "session"
  <2>1. /\ act' = [act EXCEPT ![b] = Ended(b)]
        /\ job' = [u \in Updates |-> IF job[u].pc = "acked" THEN Over ELSE job[u]]
        /\ running' = running /\ welcomed' = welcomed /\ watchdog' = watchdog
    BY <1>2 DEF Rejects, process
  <2>2. \A a \in Activations : act'[a] = IF a = b THEN Ended(b) ELSE act[a]
    BY <2>1 DEF TypeOK
  <2>3. \A u \in Updates : job'[u].pc \notin {"over"} => job'[u] = job[u]
    BY <2>1 DEF Over
  <2> QED
    BY <2>1, <2>2, <2>3, EndedType DEF Swapping
<1> QED
  BY <1>1, <1>2

LEMMA EndsCourse ==
    ASSUME TypeOK, Course, Alive, NEW undone, ProcessDies(undone),
           watchdog' = [b \in Activations |-> Left(watchdog[b])],
           previous' = previous, record' = record, markers' = markers
    PROVE  Course' /\ Alive'
BY ZenonT(30), DiesEffect, LeftEffect DEF Course, Alive

LEMMA RejectsCourse ==
    ASSUME TypeOK, Course, Alive, NEW b \in Activations, NEW whole, Rejects(b, whole), Swapping(b),
           previous' = previous, record' = record, markers' = markers
    PROVE  Course' /\ Alive'
BY RejectsEffect DEF Course, Alive

\* A step inside a swap, of activation b.
LEMMA InsideCourse ==
    ASSUME TypeOK, Course, Alive, NEW b \in Activations, Swapping(b),
           \A a \in Activations : /\ act'[a].version = act[a].version
                                  /\ a # b => act'[a] = act[a] /\ previous'[a] = previous[a],
           act'[b].pc \in {"backup", "install", "undo", "restore"},
           UNCHANGED <<process, record, guards>>
    PROVE  Course' /\ Alive'
<1>1. UNCHANGED <<running, welcomed, record, markers, watchdog>> /\ running # None
  BY DEF process, guards, Course
<1>2. ASSUME NEW a \in Activations
      PROVE  /\ act'[a].pc = "off" => act[a].pc = "off" /\ previous'[a] = previous[a]
             /\ watchdog[a] # "off" => act'[a].pc = "over"
  BY DEF Swapping, Course
<1> QED
  BY <1>1, <1>2 DEF Course, Alive

LEMMA ControlStep == TypeOK /\ Begun /\ Course /\ Alive /\ [Next]_vars => Begun' /\ Course' /\ Alive'
<1> SUFFICES ASSUME TypeOK, Begun, Course, Alive, [Next]_vars PROVE Begun' /\ Course' /\ Alive'
  OBVIOUS
<1> USE DEF files, process, swap, guards, past
<1>1. ASSUME NEW u \in Updates, (\E v \in Versions : StageClear(u, v)) \/ StageFails(u) \/ StageReady(u)
      PROVE  Begun' /\ Course' /\ Alive'
  <2>1. UNCHANGED <<process, previous, act, record, guards>>
    BY <1>1 DEF StageClear, StageFails, StageReady
  <2>2. \A w \in Updates : job'[w].pc \in {"cleared", "pending", "acked"} => job'[w].version \in Versions
    BY <1>1 DEF StageClear, StageFails, StageReady, Begun, TypeOK, Over
  <2> QED
    BY <2>1, <2>2 DEF Begun, Course, Alive, Swapping
<1>r. ASSUME NEW u \in Updates, NEW by \in {"http", "session"}, Reported(u, by)
      PROVE  /\ job[u].version \in Versions
             /\ \A w \in Updates : job'[w].pc \in {"cleared", "pending", "acked"} => job'[w].version \in Versions
  BY <1>r DEF Reported, Begun, TypeOK, Over
<1>2. ASSUME NEW u \in Updates, NEW by \in {"http", "session"}, NotActivated(u, by)
      PROVE  Begun' /\ Course' /\ Alive'
  <2>1. UNCHANGED <<process, previous, act, record, guards>>
    BY <1>2 DEF NotActivated
  <2>2. \A w \in Updates : job'[w].pc \in {"cleared", "pending", "acked"} => job'[w].version \in Versions
    BY <1>2, <1>r DEF NotActivated
  <2> QED
    BY <2>1, <2>2 DEF Begun, Course, Alive, Swapping
<1>3. ASSUME NEW a \in Activations, NEW u \in Updates, NEW by \in {"http", "session"},
             ActivateBegin(a, u, by)
      PROVE  Begun' /\ Course' /\ Alive'
  <2> DEFINE v == job[u].version
  <2>1. /\ running # None /\ act[a].pc = "off"
        /\ act' = [act EXCEPT ![a] = [pc |-> "backup", version |-> v, by |-> by]]
        /\ record' = [version |-> v, by |-> {a}]
        /\ UNCHANGED <<previous, process, guards>>
    BY <1>3 DEF ActivateBegin, Reported
  <2>2. \A b \in Activations :
           /\ b = a => act'[b].pc = "backup" /\ act'[b].version = v
           /\ b # a => act'[b] = act[b]
    BY <2>1 DEF TypeOK
  <2>3. Begun'
    BY <1>3, <1>r, <2>2 DEF ActivateBegin, Begun
  <2>4. \A b \in Activations : b # a => record'.by # {b} /\ b \notin record'.by
    BY <2>1
  <2>5. Course'
    BY <2>1, <2>2, <2>4 DEF Course, Swapping
  <2> QED
    BY <2>1, <2>3, <2>5 DEF Alive
<1>4. ASSUME NEW a \in Activations, NEW f \in Files,
             BackupFile(a, f) \/ InstallFile(a, f) \/ UndoFile(a, f) \/ RestoreFile(a, f)
      PROVE  Begun' /\ Course' /\ Alive'
  <2>1. /\ Swapping(a) /\ UNCHANGED <<process, job, act, record, guards>>
        /\ \A b \in Activations : b # a => previous'[b] = previous[b]
    BY <1>4 DEF BackupFile, InstallFile, UndoFile, RestoreFile, Swapping, TypeOK
  <2> QED
    BY <2>1, InsideCourse DEF Begun, Swapping
<1>5. ASSUME NEW a \in Activations, NEW pc \in {"install", "undo", "restore"}, NEW dir,
             Swapping(a), Proceeds(a, pc, dir)
      PROVE  Begun' /\ Course' /\ Alive'
  <2>1. /\ UNCHANGED <<process, job, previous, record, guards>>
        /\ act' = [act EXCEPT ![a].pc = pc]
    BY <1>5 DEF Proceeds
  <2>2. \A b \in Activations : /\ act'[b].version = act[b].version
                               /\ b = a => act'[b].pc = pc
                               /\ b # a => act'[b] = act[b]
    BY <2>1 DEF TypeOK
  <2>3. Course' /\ Alive'
    BY <1>5, <2>1, <2>2, InsideCourse
  <2> QED
    BY <1>5, <2>1, <2>2, <2>3 DEF Begun, Swapping
<1>6. ASSUME NEW a \in Activations, NEW f \in Files,
             BackupDone(a) \/ UndoDone(a) \/ InstallFails(a, f) \/ UndoFails(a, f)
      PROVE  Begun' /\ Course' /\ Alive'
  BY <1>5, <1>6 DEF BackupDone, UndoDone, InstallFails, UndoFails, Swapping
<1>7. ASSUME NEW a \in Activations, ActivateEnd(a) PROVE Begun' /\ Course' /\ Alive'
  <2>1. /\ Swapping(a) /\ UNCHANGED <<previous, process, job, record, markers>>
        /\ act' = [act EXCEPT ![a] = Ended(a)]
        /\ watchdog' = [watchdog EXCEPT ![a] = "armed"]
    BY <1>7 DEF ActivateEnd, Swapping
  <2>2. \A b \in Activations :
           /\ b = a => act'[b].pc = "over" /\ act'[b].version = act[b].version /\ watchdog'[b] = "armed"
           /\ b # a => act'[b] = act[b] /\ watchdog'[b] = watchdog[b]
    BY <2>1, EndedType DEF TypeOK
  <2>3. act[a].pc # "off"
    BY <2>1 DEF Swapping
  <2>4. Begun'
    BY <2>1, <2>2, <2>3 DEF Begun
  <2>5. Course'
    BY <2>1, <2>2, <2>3 DEF Course, Swapping
  <2> QED
    BY <2>1, <2>4, <2>5 DEF Alive
<1>8. ASSUME NEW a \in Activations, NEW f \in Files,
             BackupFails(a, f) \/ RestoreDone(a) \/ RestoreFails(a, f)
      PROVE  Begun' /\ Course' /\ Alive'
  <2>1. PICK whole : Rejects(a, whole)
    BY <1>8 DEF BackupFails, RestoreDone, RestoreFails
  <2>2. Swapping(a) /\ previous' = previous /\ record' = record /\ markers' = markers
    BY <1>8 DEF BackupFails, RestoreDone, RestoreFails, Swapping
  <2>3. Course' /\ Alive'
    BY <2>1, <2>2, RejectsCourse
  <2> QED
    BY <2>1, <2>2, <2>3, RejectsEffect DEF Begun
<1>9. ASSUME Kill \/ ExitForUpdate PROVE Begun' /\ Course' /\ Alive'
  <2>1. /\ ProcessDies({}) /\ watchdog' = [b \in Activations |-> Left(watchdog[b])]
        /\ previous' = previous /\ record' = record /\ markers' = markers
    BY <1>9 DEF Kill, ExitForUpdate
  <2>2. Course' /\ Alive'
    BY <2>1, EndsCourse
  <2> QED
    BY <2>1, <2>2, DiesEffect DEF Begun
<1>10. ASSUME NEW v \in Versions, Boot(v) PROVE Begun' /\ Course' /\ Alive'
  <2>1. running = None /\ running' = v /\ ~welcomed /\ v # None
    BY <1>10, VersionFacts DEF Boot, Alive
  <2> QED
    BY <1>10, <2>1 DEF Boot, Begun, Course, Alive, Swapping
<1>11. ASSUME Welcome PROVE Begun' /\ Course' /\ Alive'
  <2>1. UNCHANGED <<previous, running, job, act, record, watchdog>> /\ running # None
    BY <1>11 DEF Welcome
  <2>2. \A a \in Activations :
           /\ a \in markers' <=> a \in markers \/ (record.version = running /\ a \in record.by)
    BY <1>11 DEF Welcome
  <2>3. Course'
    BY <2>1, <2>2 DEF Course, Swapping
  <2> QED
    BY <2>1, <2>3 DEF Begun, Alive
<1>12. ASSUME NEW a \in Activations, WatchdogSatisfied(a) \/ WatchdogRemoves(a)
       PROVE  Begun' /\ Course' /\ Alive'
  <2>1. /\ UNCHANGED <<previous, process, job, act, record, markers>>
        /\ watchdog[a] = "counting"
        /\ \A b \in Activations : /\ b # a => watchdog'[b] = watchdog[b]
                                  /\ b = a => watchdog'[b] \in {"over", "restoring"}
    BY <1>12 DEF WatchdogSatisfied, WatchdogRemoves, TypeOK
  <2> QED
    BY <2>1 DEF Begun, Course, Alive, Swapping
<1>13. ASSUME NEW a \in Activations, WatchdogRestores(a) PROVE Begun' /\ Course' /\ Alive'
  <2>1. /\ ProcessDies({}) /\ record' = record /\ markers' = markers
        /\ watchdog[a] = "restoring"
        /\ \A b \in Activations : b # a => previous'[b] = previous[b]
    BY <1>13 DEF WatchdogRestores, TypeOK
  <2>2. \A b \in Activations :
           /\ watchdog'[b] = "armed" => watchdog[b] = "armed" /\ running = None
           /\ watchdog'[b] # "off" => watchdog[b] # "off"
           /\ watchdog'[b] \in {"counting", "restoring"} => ~KillsGroup \/ watchdog[b] = watchdog'[b]
           /\ b = a => watchdog'[b] = "over"
    <3> SUFFICES ASSUME NEW b \in Activations
                 PROVE  /\ watchdog'[b] = "armed" => watchdog[b] = "armed" /\ running = None
                        /\ watchdog'[b] # "off" => watchdog[b] # "off"
                        /\ watchdog'[b] \in {"counting", "restoring"}
                              => ~KillsGroup \/ watchdog[b] = watchdog'[b]
                        /\ b = a => watchdog'[b] = "over"
      OBVIOUS
    <3>1. watchdog'[b] = IF b = a THEN "over" ELSE IF running = None THEN watchdog[b]
                         ELSE Left(watchdog[b])
      BY <1>13 DEF WatchdogRestores
    <3>2. watchdog[b] \in {"off", "armed", "counting", "restoring", "over"}
      BY DEF TypeOK
    <3> QED
      BY <2>1, <3>1, <3>2 DEF Left
  <2>3. Course' /\ Alive'
    BY ZenonT(30), <2>1, <2>2, DiesEffect DEF Course, Alive
  <2> QED
    BY <2>1, <2>3, DiesEffect DEF Begun
<1>14. ASSUME NEW a \in Activations, NEW f \in Files, WatchdogFails(a, f)
       PROVE  Begun' /\ Course' /\ Alive'
  <2>1. /\ UNCHANGED <<process, job, act, record, markers>>
        /\ watchdog[a] # "off"
        /\ \A b \in Activations : /\ b # a => watchdog'[b] = watchdog[b] /\ previous'[b] = previous[b]
                                  /\ b = a => watchdog'[b] = "over"
    BY <1>14 DEF WatchdogFails, TypeOK
  <2> QED
    BY <2>1 DEF Begun, Course, Alive, Swapping
<1>15. CASE UNCHANGED vars
  BY <1>15 DEF vars, Begun, Course, Alive, Swapping
<1>16. ASSUME NEW a \in Activations, Move(a) \/ Watch(a) PROVE Begun' /\ Course' /\ Alive'
  BY <1>16, <1>4, <1>6, <1>7, <1>8, <1>12, <1>13, UpdateAssumption DEF Move, Watch
<1>17. CASE Fault
  BY <1>17, <1>6, <1>8, <1>9, <1>14 DEF Fault
<1>18. CASE Stage \/ Report \/ Process
  BY <1>18, <1>1, <1>2, <1>3, <1>9, <1>10, <1>11 DEF Stage, Report, Process
<1> QED
  BY <1>15, <1>16, <1>17, <1>18 DEF Next

(***************************************************************************)
(* Alone and Back: an activation that crosses no other.                    *)
(***************************************************************************)

\* A step of activation b, and of no other.
StepOf(b) ==
    \/ Move(b) \/ Watch(b)
    \/ \E f \in Files : \/ BackupFails(b, f) \/ InstallFails(b, f) \/ UndoFails(b, f)
                        \/ RestoreFails(b, f) \/ WatchdogFails(b, f)

\* A step of none: app and the backups stay.
StepOfNone == Stage \/ Kill \/ Process \/ UNCHANGED vars
              \/ \E u \in Updates, by \in {"http", "session"} : NotActivated(u, by)

Begins(a) == \E u \in Updates, by \in {"http", "session"} : ActivateBegin(a, u, by)

LEMMA Steps ==
    [Next]_vars => StepOfNone \/ \E b \in Activations : Begins(b) \/ StepOf(b)
<1> SUFFICES ASSUME [Next]_vars PROVE StepOfNone \/ \E b \in Activations : Begins(b) \/ StepOf(b)
  OBVIOUS
<1>1. CASE Fault
  BY <1>1 DEF Fault, StepOf, StepOfNone
<1>2. CASE Report
  BY <1>2 DEF Report, Begins, StepOfNone
<1> QED
  BY <1>1, <1>2 DEF Next, StepOf, StepOfNone

\* What a step of b does to the others.
LEMMA StepOfEffect ==
    ASSUME TypeOK, Course, NEW b \in Activations, StepOf(b)
    PROVE  /\ Live(b) /\ crossed' = crossed /\ found' = found /\ record' = record
           /\ \A a \in Activations : Live(a)' => Live(a)
<1> USE DEF files, process, swap, guards, past
<1> DEFINE Kept1 == crossed' = crossed /\ found' = found /\ record' = record
           Rest  == \A a \in Activations : Live(a)' => Live(a)
<1>1. ASSUME NEW f \in Files, BackupFile(b, f) \/ InstallFile(b, f) \/ UndoFile(b, f) \/ RestoreFile(b, f)
      PROVE  Live(b) /\ Kept1 /\ Rest
  BY <1>1 DEF BackupFile, InstallFile, UndoFile, RestoreFile, Live, Swapping
<1>2. ASSUME NEW f \in Files, BackupDone(b) \/ UndoDone(b) \/ InstallFails(b, f) \/ UndoFails(b, f)
      PROVE  Live(b) /\ Kept1 /\ Rest
  <2>1. Swapping(b)
    BY <1>2 DEF BackupDone, UndoDone, InstallFails, UndoFails, Swapping
  <2>2. PICK pc, dir : Proceeds(b, pc, dir)
    BY <1>2 DEF BackupDone, UndoDone, InstallFails, UndoFails
  <2>3. Kept1 /\ watchdog' = watchdog /\ \A a \in Activations : a # b => act'[a] = act[a]
    BY <2>2 DEF Proceeds, TypeOK
  <2> QED
    BY <2>1, <2>3 DEF Live, Swapping
<1>3. ASSUME ActivateEnd(b) PROVE Live(b) /\ Kept1 /\ Rest
  <2>1. Swapping(b) /\ Kept1
    BY <1>3 DEF ActivateEnd, Swapping
  <2>2. \A a \in Activations : a # b => act'[a] = act[a] /\ watchdog'[a] = watchdog[a]
    BY <1>3 DEF ActivateEnd, TypeOK
  <2> QED
    BY <2>1, <2>2 DEF Live, Swapping
<1>4. ASSUME NEW f \in Files, BackupFails(b, f) \/ RestoreDone(b) \/ RestoreFails(b, f)
      PROVE  Live(b) /\ Kept1 /\ Rest
  <2>1. Swapping(b) /\ Kept1
    BY <1>4 DEF BackupFails, RestoreDone, RestoreFails, Swapping
  <2>2. PICK whole : Rejects(b, whole)
    BY <1>4 DEF BackupFails, RestoreDone, RestoreFails
  <2>3. \A a \in Activations : watchdog'[a] \in {"armed", "counting", "restoring"}
                                  => watchdog[a] \in {"armed", "counting", "restoring"}
    BY <2>1, <2>2, RejectsEffect
  <2> QED
    BY <2>1, <2>2, <2>3, RejectsEffect DEF Live
<1>5. ASSUME WatchdogSatisfied(b) \/ WatchdogRemoves(b) PROVE Live(b) /\ Kept1 /\ Rest
  <2>1. /\ watchdog[b] = "counting" /\ Kept1 /\ act' = act
        /\ \A a \in Activations : a # b => watchdog'[a] = watchdog[a]
    BY <1>5 DEF WatchdogSatisfied, WatchdogRemoves, TypeOK
  <2> QED
    BY <2>1 DEF Live, Swapping
<1>6. ASSUME NEW f \in Files, WatchdogFails(b, f) PROVE Live(b) /\ Kept1 /\ Rest
  <2>1. /\ watchdog[b] \in {"counting", "restoring"} /\ Kept1 /\ act' = act
        /\ \A a \in Activations : a # b => watchdog'[a] = watchdog[a]
    BY <1>6 DEF WatchdogFails, TypeOK
  <2> QED
    BY <2>1 DEF Live, Swapping
<1>7. ASSUME WatchdogRestores(b) PROVE Live(b) /\ Kept1 /\ Rest
  <2>1. watchdog[b] = "restoring" /\ Kept1 /\ ProcessDies({})
    BY <1>7 DEF WatchdogRestores
  <2>2. ASSUME NEW a \in Activations, watchdog'[a] \in {"armed", "counting", "restoring"}
        PROVE  watchdog[a] \in {"armed", "counting", "restoring"}
    <3>1. watchdog'[a] = IF a = b THEN "over" ELSE IF running = None THEN watchdog[a]
                         ELSE Left(watchdog[a])
      BY <1>7 DEF WatchdogRestores
    <3>2. watchdog[a] \in {"off", "armed", "counting", "restoring", "over"}
      BY DEF TypeOK
    <3> QED
      BY <2>2, <3>1, <3>2 DEF Left
  <2> QED
    BY <2>1, <2>2, DiesEffect DEF Live
<1>8. ASSUME Move(b) \/ Watch(b) PROVE Live(b) /\ Kept1 /\ Rest
  BY <1>8, <1>1, <1>2, <1>3, <1>4, <1>5, <1>7, UpdateAssumption DEF Move, Watch
<1> QED
  BY <1>8, <1>2, <1>4, <1>6 DEF StepOf

\* What a step of none does.
LEMMA StepOfNoneEffect ==
    ASSUME TypeOK, StepOfNone
    PROVE  /\ UNCHANGED <<app, previous, record, crossed, found>>
           /\ \A a \in Activations :
                 /\ Live(a)' => Live(a)
                 /\ Swapping(a)' => act'[a] = act[a] /\ todo'[a] = todo[a]
                 /\ watchdog'[a] \in {"armed", "counting", "restoring"} =>
                       \/ watchdog'[a] = watchdog[a]
                       \/ watchdog[a] = "armed" /\ watchdog'[a] = "counting"
<1> USE DEF files, process, swap, guards, past
<1>1. CASE Kill \/ ExitForUpdate
  <2>1. /\ ProcessDies({}) /\ watchdog' = [b \in Activations |-> Left(watchdog[b])]
        /\ UNCHANGED <<app, previous, record, crossed, found>>
    BY <1>1 DEF Kill, ExitForUpdate
  <2> QED
    BY <2>1, DiesEffect, LeftEffect DEF Live
<1>2. CASE Stage \/ UNCHANGED vars
  BY <1>2 DEF Stage, StageClear, StageFails, StageReady, vars, Live, Swapping
<1>3. CASE Welcome \/ \E v \in Versions : Boot(v)
  BY <1>3 DEF Welcome, Boot, Live, Swapping
<1>4. CASE \E u \in Updates, by \in {"http", "session"} : NotActivated(u, by)
  BY <1>4 DEF NotActivated, Live, Swapping
<1> QED
  BY <1>1, <1>2, <1>3, <1>4 DEF StepOfNone, Process

\* What the beginning of activation b does.
LEMMA BeginsEffect ==
    ASSUME TypeOK, Course, NEW b \in Activations, Begins(b)
    PROVE  /\ act[b].pc = "off" /\ watchdog[b] = "off" /\ previous[b] = Nothing
           /\ act'[b].pc = "backup" /\ todo'[b] = Names(app) /\ found'[b] = app
           /\ record'.by = {b} /\ running # None
           /\ UNCHANGED <<app, stage, previous, process, guards, torn>>
           /\ \A a \in Activations : a # b => act'[a] = act[a] /\ todo'[a] = todo[a]
                                              /\ found'[a] = found[a]
           /\ \A a \in Activations : Live(a) => {a, b} \subseteq crossed'
           /\ crossed \subseteq crossed'
           /\ b \notin crossed' => act'[b].version # running /\ crossed' = crossed
<1>1. PICK u \in Updates, by \in {"http", "session"} : ActivateBegin(b, u, by)
  BY DEF Begins
<1> DEFINE others == {c \in Activations : Live(c)}
           ver    == job[u].version
<1>2. /\ act[b].pc = "off" /\ running # None
      /\ act' = [act EXCEPT ![b] = [pc |-> "backup", version |-> ver, by |-> by]]
      /\ todo' = [todo EXCEPT ![b] = Names(app)] /\ found' = [found EXCEPT ![b] = app]
      /\ record' = [version |-> ver, by |-> {b}]
      /\ crossed' = IF others = {} /\ ver # running THEN crossed ELSE crossed \cup others \cup {b}
      /\ UNCHANGED <<files, process, guards, torn>>
  BY <1>1 DEF ActivateBegin, Reported
<1>3. /\ act'[b] = [pc |-> "backup", version |-> ver, by |-> by]
      /\ todo'[b] = Names(app) /\ found'[b] = app
      /\ \A a \in Activations : a # b => act'[a] = act[a] /\ todo'[a] = todo[a]
                                         /\ found'[a] = found[a]
  BY <1>2 DEF TypeOK
<1>4. \A a \in Activations : Live(a) => a \in others
  OBVIOUS
<1>5. \A a \in Activations : Live(a) => {a, b} \subseteq crossed'
  BY <1>2, <1>4
<1>6. watchdog[b] = "off" /\ previous[b] = Nothing
  BY <1>2 DEF Course
<1>7. b \notin crossed' => ver # running /\ crossed' = crossed
  BY <1>2
<1>8. crossed \subseteq crossed'
  BY <1>2
<1> QED
  BY <1>2, <1>3, <1>5, <1>6, <1>7, <1>8 DEF files

LEMMA AloneStep == TypeOK /\ Course /\ Alone /\ [Next]_vars => Alone'
<1> SUFFICES ASSUME TypeOK, Course, Alone, [Next]_vars PROVE Alone'
  OBVIOUS
<1>1. CASE StepOfNone
  BY <1>1, StepOfNoneEffect DEF Alone
<1>2. ASSUME NEW b \in Activations, StepOf(b) PROVE Alone'
  BY <1>2, StepOfEffect DEF Alone
<1>3. ASSUME NEW b \in Activations, Begins(b) PROVE Alone'
  <2>1. \A a \in Activations : a # b /\ Live(a)' => Live(a)
    BY <1>3, BeginsEffect DEF Live, Swapping, guards
  <2>2. ASSUME NEW a \in Activations, Live(a)', a \notin crossed'
        PROVE  a = b /\ \A c \in Activations : Live(c)' => c = b
    BY <1>3, <2>1, <2>2, BeginsEffect
  <2> QED
    BY <1>3, <2>2, BeginsEffect DEF Alone
<1> QED
  BY <1>1, <1>2, <1>3, Steps

LEMMA PutsSame ==
    ASSUME NEW dir \in Content, NEW f \in Files, NEW v
    PROVE  \A g \in Files : Put(dir, f, v)[g] = IF g = f THEN v ELSE dir[g]
BY DEF Put, Content

\* A directory all of whose files are those of another is that one.
LEMMA SameFiles ==
    ASSUME NEW d \in Content, NEW e \in Content, \A f \in Files : d[f] = e[f]
    PROVE  d = e
BY DEF Content

LEMMA BackFileStep ==
    ASSUME TypeOK, Course, NEW a \in Activations, BackOf(a), NEW f \in Files,
           BackupFile(a, f) \/ InstallFile(a, f) \/ UndoFile(a, f) \/ RestoreFile(a, f)
    PROVE  BackOf(a)'
<1> USE DEF files, process, swap, guards, past
<1>w. UNCHANGED <<act, found, watchdog>> /\ Swapping(a) /\ watchdog[a] = "off"
  BY DEF BackupFile, InstallFile, UndoFile, RestoreFile, Swapping, Course
<1>t. app \in Content /\ previous[a] \in Content /\ found[a] \in Content
  BY DEF TypeOK
<1>1. CASE BackupFile(a, f)
  <2>1. /\ act[a].pc = "backup" /\ f \in todo[a] /\ app[f] # None
        /\ \A g \in Files : app'[g] = IF g = f THEN None ELSE app[g]
        /\ \A g \in Files : previous'[a][g] = IF g = f THEN app[f] ELSE previous[a][g]
        /\ todo'[a] = todo[a] \ {f}
    BY <1>1, <1>t, PutsSame DEF BackupFile, TypeOK
  <2>2. todo'[a] = Names(app)'
    BY <2>1, <1>w DEF Names, BackOf
  <2>3. \A g \in Files :
           IF app'[g] # None THEN app'[g] = found[a][g] /\ previous'[a][g] = None
                             ELSE previous'[a][g] = found[a][g]
    BY <2>1 DEF BackOf
  <2> QED
    BY <1>w, <2>1, <2>2, <2>3 DEF BackOf
<1>2. CASE InstallFile(a, f) \/ UndoFile(a, f)
  BY <1>2, <1>w DEF InstallFile, UndoFile, BackOf
<1>3. CASE RestoreFile(a, f)
  <2>1. /\ act[a].pc = "restore" /\ f \in todo[a]
        /\ \A g \in Files : app'[g] = IF g = f THEN previous[a][f] ELSE app[g]
        /\ \A g \in Files : previous'[a][g] = IF g = f THEN None ELSE previous[a][g]
        /\ todo'[a] = todo[a] \ {f}
    BY <1>3, <1>t, PutsSame DEF RestoreFile, TypeOK
  <2>2. \A g \in Files : /\ g \in todo'[a] => previous'[a][g] = found[a][g]
                         /\ g \notin todo'[a] => found[a][g] \in {None, app'[g]}
    BY <2>1 DEF BackOf
  <2> QED
    BY <1>w, <2>1, <2>2 DEF BackOf
<1> QED
  BY <1>1, <1>2, <1>3

LEMMA BackProceeds ==
    ASSUME TypeOK, Course, NEW a \in Activations, BackOf(a), NEW f \in Files,
           BackupDone(a) \/ UndoDone(a) \/ InstallFails(a, f) \/ UndoFails(a, f)
    PROVE  BackOf(a)'
<1> USE DEF files, process, swap, guards, past
<1>w. /\ UNCHANGED <<app, previous, found, watchdog>> /\ Swapping(a) /\ watchdog[a] = "off"
      /\ app \in Content /\ previous[a] \in Content /\ found[a] \in Content
  BY DEF BackupDone, UndoDone, InstallFails, UndoFails, Proceeds, Swapping, Course, TypeOK
<1>1. CASE BackupDone(a)
  <2>1. act[a].pc = "backup" /\ todo[a] = {} /\ act'[a].pc = "install"
    BY <1>1 DEF BackupDone, Proceeds, TypeOK
  <2>2. \A g \in Files : previous[a][g] = found[a][g]
    BY <2>1 DEF BackOf, Names
  <2>3. previous[a] = found[a]
    BY <1>w, <2>2, SameFiles
  <2> QED
    BY <1>w, <2>1, <2>3 DEF BackOf
<1>2. CASE InstallFails(a, f)
  <2>1. act[a].pc = "install" /\ act'[a].pc = "undo"
    BY <1>2 DEF InstallFails, Proceeds, TypeOK
  <2> QED
    BY <1>w, <2>1 DEF BackOf
<1>3. CASE UndoDone(a) \/ UndoFails(a, f)
  <2>1. act[a].pc = "undo" /\ act'[a].pc = "restore" /\ todo'[a] = Names(previous[a])
    BY <1>3 DEF UndoDone, UndoFails, Proceeds, TypeOK
  <2>2. previous[a] = found[a]
    BY <2>1 DEF BackOf
  <2>3. \A g \in Files : g \notin todo'[a] => found[a][g] = None
    BY <2>1, <2>2 DEF Names
  <2> QED
    BY <1>w, <2>1, <2>2, <2>3 DEF BackOf
<1> QED
  BY <1>1, <1>2, <1>3

LEMMA BackStep == TypeOK /\ Course /\ Alone /\ Back /\ [Next]_vars => Back'
<1> SUFFICES ASSUME TypeOK, Course, Alone, Back, [Next]_vars,
                    NEW a \in Activations, Live(a)', a \notin crossed'
             PROVE  BackOf(a)'
  BY DEF Back
<1> USE DEF files, process, swap, guards, past
<1>1. CASE StepOfNone
  <2>1. BackOf(a)
    BY <1>1, StepOfNoneEffect DEF Back
  <2>2. /\ UNCHANGED <<app, previous, found>>
        /\ act'[a].pc \in {"backup", "install", "undo", "restore"}
              => act'[a] = act[a] /\ todo'[a] = todo[a]
        /\ watchdog'[a] \in {"armed", "counting", "restoring"} =>
              watchdog[a] \in {"armed", "counting", "restoring"}
              /\ (watchdog'[a] = "restoring" => watchdog[a] = "restoring")
    BY <1>1, StepOfNoneEffect DEF Swapping
  <2> QED
    BY <2>1, <2>2 DEF BackOf
<1>2. ASSUME NEW b \in Activations, Begins(b) PROVE BackOf(a)'
  <2>1. a = b
    <3>1. a # b /\ Live(a)' => Live(a)
      BY <1>2, BeginsEffect DEF Live, Swapping
    <3> QED
      BY <1>2, <3>1, BeginsEffect
  <2>2. /\ act'[a].pc = "backup" /\ todo'[a] = Names(app) /\ found'[a] = app
        /\ previous'[a] = Nothing /\ app' = app /\ watchdog'[a] = "off"
    BY <1>2, <2>1, BeginsEffect
  <2>3. \A f \in Files : Nothing[f] = None
    BY DEF Nothing
  <2> QED
    BY <2>2, <2>3 DEF BackOf
<1>3. ASSUME NEW b \in Activations, StepOf(b) PROVE BackOf(a)'
  <2>1. Live(a) /\ a \notin crossed /\ Live(b)
    BY <1>3, StepOfEffect
  <2>2. a = b /\ BackOf(a)
    BY <2>1 DEF Alone, Back
  <2>3. ASSUME NEW f \in Files, BackupFile(a, f) \/ InstallFile(a, f) \/ UndoFile(a, f) \/ RestoreFile(a, f)
        PROVE  BackOf(a)'
    BY <2>2, <2>3, BackFileStep
  <2>4. ASSUME NEW f \in Files, BackupDone(a) \/ UndoDone(a) \/ InstallFails(a, f) \/ UndoFails(a, f)
        PROVE  BackOf(a)'
    BY <2>2, <2>4, BackProceeds
  <2>5. ASSUME ActivateEnd(a) PROVE BackOf(a)'
    <3>1. act[a].pc = "install" /\ act'[a].pc = "over" /\ watchdog'[a] = "armed"
          /\ UNCHANGED <<app, previous, found>>
      BY <2>5, EndedType DEF ActivateEnd, TypeOK
    <3> QED
      BY <2>2, <3>1 DEF BackOf
  <2>6. ASSUME NEW f \in Files, BackupFails(a, f) \/ RestoreDone(a) \/ RestoreFails(a, f)
        PROVE  BackOf(a)'
    <3>1. PICK whole : Rejects(a, whole)
      BY <2>6 DEF BackupFails, RestoreDone, RestoreFails
    <3>2. Swapping(a)
      BY <2>6 DEF BackupFails, RestoreDone, RestoreFails, Swapping
    <3>3. watchdog[a] = "off"
      BY <3>2 DEF Course, Swapping
    <3>4. ~Swapping(a)' /\ watchdog'[a] = "off"
      BY <3>1, <3>2, <3>3, RejectsEffect
    <3>5. ~Live(a)'
      BY <3>4 DEF Live
    <3> QED
      BY <3>5
  <2>7. ASSUME WatchdogSatisfied(a) \/ WatchdogRestores(a) PROVE BackOf(a)'
    <3>1. watchdog'[a] = "over" /\ act[a].pc = "over" /\ act'[a].pc = "over"
      BY ZenonT(30), <2>7, DiesEffect DEF WatchdogSatisfied, WatchdogRestores, TypeOK, Course
    <3> QED
      BY <3>1 DEF Live, Swapping
  <2>8. ASSUME WatchdogRemoves(a) PROVE BackOf(a)'
    <3>1. /\ watchdog[a] = "counting" /\ watchdog'[a] = "restoring" /\ app' = Nothing
          /\ UNCHANGED <<act, previous, found>> /\ act[a].pc = "over"
      BY <2>8 DEF WatchdogRemoves, TypeOK, Course
    <3> QED
      BY <2>2, <3>1 DEF BackOf
  <2>9. ASSUME NEW f \in Files, WatchdogFails(a, f) PROVE BackOf(a)'
    <3>1. watchdog'[a] = "over" /\ act' = act /\ act[a].pc = "over"
      BY <2>9 DEF WatchdogFails, TypeOK, Course
    <3> QED
      BY <3>1 DEF Live, Swapping
  <2>10. ASSUME Move(a) \/ Watch(a) PROVE BackOf(a)'
    BY <2>10, <2>3, <2>4, <2>5, <2>6, <2>7, <2>8, UpdateAssumption DEF Move, Watch
  <2> QED
    BY <1>3, <2>2, <2>4, <2>6, <2>9, <2>10 DEF StepOf
<1> QED
  BY <1>1, <1>2, <1>3, Steps

(***************************************************************************)
(* Sound: one release, while nothing is spoiled.                           *)
(***************************************************************************)

\* What activation a, alone, makes of the release that ran when it began.
SoundOf(a) ==
    LET v == act[a].version IN
    /\ \E u \in Versions : found[a] = Release(u)
    /\ Swapping(a) \/ watchdog[a] = "armed" =>
          found[a] = Release(running) /\ running # v /\ a \notin markers
    /\ act[a].pc \in {"install", "undo"} \/ watchdog[a] \in {"armed", "counting"} =>
          \A f \in Files : app[f] \in {v, None}
    /\ watchdog[a] = "counting" =>
          /\ running \in {None, v}
          /\ running = v \/ a \in markers => app = Release(v)

\* What is staged is the release that its directory is named after.
Staged == \A v \in Versions, f \in Files : stage[v][f] \in {v, None}

\* What runs is what app holds, or what the one activation under way found there.
RunsWhole ==
    /\ \A a \in Activations : Live(a) => SoundOf(a)
    /\ (\A a \in Activations : ~Live(a)) /\ running # None => app = Release(running)

Sound == Staged /\ RunsWhole

\* An activation that has crossed nothing is the only one under way.
LEMMA OneLive ==
    ASSUME IInv, ~Spoiled, NEW a \in Activations, Live(a)
    PROVE  /\ record.by = {a} /\ record.version = act[a].version /\ BackOf(a)
           /\ \A b \in Activations : Live(b) => b = a
BY DEF IInv, Spoiled, Alone, Course, Back

LEMMA InitSound == Init => Sound
<1>1. \A v \in Versions, f \in Files : Nothing[f] = None /\ Release(v)[f] = v
  BY DEF Nothing, Release
<1> QED
  BY <1>1 DEF Init, Sound, Staged, RunsWhole, Live, Swapping

LEMMA TornStays == torn /\ [Next]_vars => torn'
<1> SUFFICES ASSUME torn, [Next]_vars PROVE torn'
  OBVIOUS
<1>1. \A undone : ProcessDies(undone) => torn'
  BY DEF ProcessDies
<1>2. \A a \in Activations : \A whole : Rejects(a, whole) => torn'
  BY <1>1 DEF Rejects
<1>3. CASE Stage \/ Report \/ UNCHANGED vars
  BY <1>3 DEF Stage, Report, StageClear, StageFails, StageReady, NotActivated, ActivateBegin, vars
<1>4. CASE Fault
  BY <1>1, <1>2, <1>4 DEF Fault, Kill, BackupFails, InstallFails, UndoFails, RestoreFails,
     WatchdogFails, Proceeds
<1>5. CASE Process
  BY <1>1, <1>5 DEF Process, ExitForUpdate, Welcome, Boot
<1>6. ASSUME NEW a \in Activations, Move(a) \/ Watch(a) PROVE torn'
  BY <1>1, <1>2, <1>6 DEF Move, Watch, BackupFile, InstallFile, UndoFile, RestoreFile, BackupDone,
     UndoDone, RestoreDone, ActivateEnd, Proceeds, WatchdogSatisfied, WatchdogRemoves,
     WatchdogRestores
<1> QED
  BY <1>3, <1>4, <1>5, <1>6 DEF Next

LEMMA SpoiledStays == TypeOK /\ Course /\ Spoiled /\ [Next]_vars => Spoiled'
<1> SUFFICES ASSUME TypeOK, Course, Spoiled, [Next]_vars PROVE Spoiled'
  OBVIOUS
<1>1. crossed \subseteq crossed'
  BY Steps, StepOfNoneEffect, StepOfEffect, BeginsEffect
<1> QED
  BY <1>1, TornStays DEF Spoiled

\* What is staged stays what its directory is named after.
LEMMA StagedStep ==
    IInv /\ ~Spoiled /\ Sound /\ [Next]_vars => Staged'
<1> SUFFICES ASSUME IInv, ~Spoiled, Sound, [Next]_vars, NEW v \in Versions, NEW f \in Files
             PROVE  stage'[v][f] \in {v, None}
  BY DEF Staged
<1> USE DEF files, process, swap, guards, past
<1>t. TypeOK /\ Begun /\ Nothing[f] = None /\ Release(v)[f] = v /\ stage[v][f] \in {v, None}
  BY DEF IInv, Nothing, Release, Sound, Staged
<1>1. ASSUME stage' = stage PROVE stage'[v][f] \in {v, None}
  BY <1>1, <1>t
<1>2. CASE Stage
  <2>1. PICK u \in Updates : (\E w \in Versions : StageClear(u, w)) \/ StageFails(u) \/ StageReady(u)
    BY <1>2 DEF Stage
  <2>2. ASSUME NEW w \in Versions, StageClear(u, w) PROVE stage'[v][f] \in {v, None}
    BY <1>t, <2>2 DEF StageClear, TypeOK
  <2>3. CASE StageReady(u)
    BY <1>t, <2>3 DEF StageReady, TypeOK
  <2> QED
    BY <1>1, <2>1, <2>2, <2>3 DEF StageFails
<1>3. ASSUME NEW a \in Activations, NEW g \in Files, InstallFile(a, g)
      PROVE  stage'[v][f] \in {v, None}
  <2> DEFINE w == act[a].version
  <2>1. w \in Versions /\ stage' = [stage EXCEPT ![w] = Put(stage[w], g, None)]
    BY <1>3, <1>t DEF InstallFile, Begun
  <2>2. stage'[v] = IF v = w THEN Put(stage[w], g, None) ELSE stage[v]
    BY <1>t, <2>1 DEF TypeOK
  <2>3. Put(stage[v], g, None)[f] = IF f = g THEN None ELSE stage[v][f]
    BY <1>t, PutsSame DEF TypeOK
  <2> QED
    BY <1>t, <2>2, <2>3
<1>4. ASSUME NEW a \in Activations, NEW g \in Files, UndoFile(a, g)
      PROVE  stage'[v][f] \in {v, None}
  <2> DEFINE w == act[a].version
  <2>1. w \in Versions /\ stage' = [stage EXCEPT ![w] = Put(stage[w], g, app[g])]
    BY <1>4, <1>t DEF UndoFile, Begun
  <2>2. stage'[v] = IF v = w THEN Put(stage[w], g, app[g]) ELSE stage[v]
    BY <1>t, <2>1 DEF TypeOK
  <2>3. Put(stage[v], g, app[g])[f] = IF f = g THEN app[g] ELSE stage[v][f]
    BY <1>t, PutsSame DEF TypeOK
  <2>4. app[g] \in {w, None}
    <3>1. Live(a) /\ act[a].pc = "undo"
      BY <1>4 DEF UndoFile, Live, Swapping
    <3> QED
      BY <3>1 DEF Sound, RunsWhole, SoundOf
  <2> QED
    BY <1>t, <2>2, <2>3, <2>4
<1>5. ASSUME NEW a \in Activations, Move(a) \/ Watch(a) PROVE stage'[v][f] \in {v, None}
  BY <1>1, <1>3, <1>4, <1>5 DEF Move, Watch, BackupFile, RestoreFile, BackupDone, UndoDone,
     RestoreDone, ActivateEnd, Proceeds, WatchdogSatisfied, WatchdogRemoves, WatchdogRestores
<1>6. CASE Report \/ Fault \/ Process \/ UNCHANGED vars
  <2>1. stage' = stage
    BY <1>6 DEF Report, NotActivated, ActivateBegin, Fault, Kill, BackupFails, InstallFails,
       UndoFails, RestoreFails, WatchdogFails, Proceeds, Process, ExitForUpdate, Welcome, Boot, vars
  <2> QED
    BY <1>1, <2>1
<1> QED
  BY <1>2, <1>5, <1>6 DEF Next

\* A step that leaves app, the swaps, the watchdogs and the process alone.
LEMMA SoundSteady ==
    ASSUME Sound, UNCHANGED <<app, found, act, watchdog, markers, running>>
    PROVE  RunsWhole'
BY DEF Sound, RunsWhole, SoundOf, Live, Swapping

\* A step of activation a inside its swap.
LEMMA SoundInside ==
    ASSUME IInv, Sound, ~Spoiled, NEW a \in Activations, Swapping(a),
           UNCHANGED <<found, watchdog, markers, running>>,
           act'[a].version = act[a].version,
           act'[a].pc \in {"backup", "install", "undo", "restore"},
           act'[a].pc \in {"install", "undo"} =>
              \A f \in Files : app'[f] \in {act[a].version, None},
           \A b \in Activations : Live(b)' => Live(b)
    PROVE  RunsWhole'
<1>1. Live(a) /\ Live(a)' /\ watchdog[a] = "off"
  BY DEF Live, Swapping, IInv, Course
<1>2. SoundOf(a)'
  BY <1>1 DEF Sound, RunsWhole, SoundOf, Swapping
<1>3. \A b \in Activations : Live(b)' => b = a
  BY <1>1, OneLive
<1> QED
  BY <1>1, <1>2, <1>3 DEF RunsWhole

\* What the end of a swap that was undone leaves is what it found.
LEMMA WholeAgain ==
    ASSUME IInv, Sound, ~Spoiled, NEW a \in Activations,
           \/ act[a].pc = "backup" /\ previous[a] = Nothing
           \/ act[a].pc = "restore" /\ todo[a] = {}
    PROVE  app = found[a] /\ found[a] = Release(running) /\ running # None
<1>1. Swapping(a) /\ Live(a)
  BY DEF Swapping, Live
<1>2. /\ BackOf(a) /\ found[a] = Release(running) /\ running \in Versions
      /\ app \in Content /\ found[a] \in Content
  BY <1>1, OneLive DEF Sound, RunsWhole, SoundOf, IInv, Course, TypeOK
<1>3. \A f \in Files : found[a][f] = running /\ found[a][f] # None /\ Nothing[f] = None
  BY <1>2, VersionFacts DEF Release, Nothing
<1>4. \A f \in Files : app[f] = found[a][f]
  BY <1>2, <1>3 DEF BackOf
<1> QED
  BY <1>2, <1>4, SameFiles, VersionFacts

LEMMA SoundEnds ==
    ASSUME IInv, Sound, ~Spoiled, ProcessDies({}), ~torn',
           UNCHANGED <<app, found, markers>>,
           watchdog' = [b \in Activations |-> Left(watchdog[b])]
    PROVE  RunsWhole'
<1>t. TypeOK
  BY DEF IInv
<1>1. running' = None /\ \A a \in Activations : ~Swapping(a)' /\ ~Swapping(a)
                                               /\ act'[a].version = act[a].version
                                               /\ act'[a].pc \notin {"install", "undo"}
  BY <1>t, DiesEffect DEF ProcessDies, Swapping
<1>2. ASSUME NEW a \in Activations, Live(a)' PROVE SoundOf(a)'
  <2>1. /\ watchdog'[a] \in {"counting", "restoring"} /\ Live(a)
        /\ watchdog'[a] = "counting" => watchdog[a] \in {"armed", "counting"}
    BY <1>t, <1>1, <1>2, LeftEffect DEF Live
  <2>2. act[a].version # None
    BY <2>1, <1>1, VersionFacts DEF IInv, Course, Begun, Live
  <2> QED
    BY <1>1, <2>1, <2>2 DEF Sound, RunsWhole, SoundOf
<1> QED
  BY <1>1, <1>2 DEF RunsWhole

LEMMA SoundProcess ==
    ASSUME IInv, Sound, ~Spoiled, Process, ~torn'
    PROVE  RunsWhole'
<1> USE DEF files, process, swap, guards, past
<1>t. TypeOK /\ Course
  BY DEF IInv
<1>1. CASE ExitForUpdate
  BY <1>1, SoundEnds DEF ExitForUpdate
<1>2. ASSUME NEW v \in Versions, Boot(v) PROVE RunsWhole'
  <2>1. /\ running = None /\ running' = v /\ app = Release(v) /\ v # None
        /\ UNCHANGED <<app, found, act, watchdog, markers>>
    BY <1>2, VersionFacts DEF Boot
  <2>2. ASSUME NEW a \in Activations, Live(a)' PROVE SoundOf(a)'
    <3>1. Live(a) /\ ~Swapping(a) /\ watchdog[a] # "armed"
      BY <1>t, <2>1, <2>2 DEF Live, Swapping, Course
    <3>2. act[a].pc = "over" /\ SoundOf(a)
      BY <1>t, <3>1 DEF Live, Course, Sound, RunsWhole
    <3>3. watchdog[a] = "counting" => v = act[a].version
      <4>1. PICK f \in Files : TRUE
        BY UpdateAssumption
      <4>2. Release(v)[f] = v
        BY <4>1 DEF Release
      <4> QED
        BY <2>1, <3>2, <4>1, <4>2 DEF SoundOf
    <3> QED
      BY <2>1, <3>1, <3>2, <3>3 DEF SoundOf, Swapping
  <2> QED
    BY <2>1, <2>2 DEF RunsWhole
<1>3. ASSUME Welcome PROVE RunsWhole'
  <2>1. /\ running # None /\ UNCHANGED <<app, found, act, watchdog, running>>
        /\ \A a \in Activations : a \in markers' <=>
              a \in markers \/ (record.version = running /\ a \in record.by)
    BY <1>3 DEF Welcome
  <2>2. ASSUME NEW a \in Activations, Live(a)' PROVE SoundOf(a)'
    <3>1. Live(a) /\ SoundOf(a) /\ record.by = {a} /\ record.version = act[a].version
      BY <2>1, <2>2, OneLive DEF Live, Swapping, Sound, RunsWhole
    <3> QED
      BY <2>1, <3>1 DEF SoundOf, Swapping
  <2>3. (\A a \in Activations : ~Live(a)') => app = Release(running)
    BY <2>1 DEF Sound, RunsWhole, Live, Swapping
  <2> QED
    BY <2>1, <2>2, <2>3 DEF RunsWhole
<1> QED
  BY <1>1, <1>2, <1>3 DEF Process

LEMMA SoundBegins ==
    ASSUME IInv, Sound, ~Spoiled, ~Spoiled', NEW b \in Activations, Begins(b)
    PROVE  RunsWhole'
<1>t. TypeOK /\ Course
  BY DEF IInv
<1>1. /\ act[b].pc = "off" /\ watchdog'[b] = "off" /\ act'[b].pc = "backup"
      /\ found'[b] = app /\ running # None /\ act'[b].version # running
      /\ UNCHANGED <<app, running, watchdog, markers>>
      /\ \A a \in Activations : ~Live(a) /\ (a # b => act'[a] = act[a])
  BY <1>t, BeginsEffect DEF Spoiled, guards, process
<1>2. \A a \in Activations : Live(a)' => a = b
  BY <1>1 DEF Live, Swapping
<1>3. app = Release(running) /\ b \notin markers /\ running \in Versions
  BY <1>t, <1>1 DEF Sound, RunsWhole, Course, TypeOK
<1>4. SoundOf(b)'
  BY <1>1, <1>3 DEF SoundOf
<1>5. Live(b)'
  BY <1>1 DEF Live, Swapping
<1> QED
  BY <1>2, <1>4, <1>5 DEF RunsWhole

LEMMA SoundSwap ==
    ASSUME IInv, Sound, ~Spoiled, NEW a \in Activations, NEW f \in Files,
           \/ BackupFile(a, f) \/ InstallFile(a, f) \/ UndoFile(a, f) \/ RestoreFile(a, f)
           \/ BackupDone(a) \/ UndoDone(a) \/ InstallFails(a, f) \/ UndoFails(a, f)
    PROVE  RunsWhole'
<1> USE DEF files, process, swap, guards, past
<1> DEFINE v == act[a].version
<1>t. TypeOK /\ Course /\ app \in Content
  BY DEF IInv, TypeOK
<1>0. Swapping(a) /\ Live(a) /\ StepOf(a) /\ v \in Versions
  BY DEF BackupFile, InstallFile, UndoFile, RestoreFile, BackupDone, UndoDone, InstallFails,
     UndoFails, Swapping, Live, StepOf, Move, IInv, Begun
<1>1. BackOf(a) /\ SoundOf(a) /\ \A b \in Activations : Live(b)' => Live(b)
  BY <1>t, <1>0, OneLive, StepOfEffect DEF Sound, RunsWhole
<1>2. CASE BackupFile(a, f) \/ RestoreFile(a, f)
  BY <1>0, <1>1, <1>2, SoundInside DEF BackupFile, RestoreFile
<1>3. CASE InstallFile(a, f) \/ UndoFile(a, f)
  <2>1. /\ act[a].pc \in {"install", "undo"} /\ act' = act
        /\ \E x \in {v, None} : app' = Put(app, f, x)
    BY <1>0, <1>3 DEF InstallFile, UndoFile, Sound, Staged
  <2>2. \A g \in Files : app'[g] \in {v, None}
    BY <1>t, <1>1, <2>1, PutsSame DEF SoundOf
  <2> QED
    BY <1>0, <1>1, <1>3, <2>1, <2>2, SoundInside DEF InstallFile, UndoFile
<1>4. CASE BackupDone(a) \/ UndoDone(a) \/ InstallFails(a, f) \/ UndoFails(a, f)
  <2>1. /\ UNCHANGED <<app, found, watchdog, markers, running>>
        /\ act'[a].version = v /\ act'[a].pc \in {"install", "undo", "restore"}
        /\ act[a].pc = "backup" => todo[a] = {}
        /\ act'[a].pc \in {"install", "undo"} => act[a].pc \in {"backup", "install"}
    BY <1>t, <1>4 DEF BackupDone, UndoDone, InstallFails, UndoFails, Proceeds, TypeOK
  <2>2. act[a].pc = "backup" => \A g \in Files : app[g] = None
    BY <1>1, <2>1 DEF BackOf, Names
  <2>3. act'[a].pc \in {"install", "undo"} => \A g \in Files : app'[g] \in {v, None}
    BY <1>1, <2>1, <2>2 DEF SoundOf
  <2> QED
    BY <1>0, <1>1, <2>1, <2>3, SoundInside
<1> QED
  BY <1>2, <1>3, <1>4

LEMMA SoundStepOf ==
    ASSUME IInv, Sound, ~Spoiled, ~Spoiled', NEW a \in Activations, StepOf(a)
    PROVE  RunsWhole'
<1> USE DEF files, process, swap, guards, past
<1>t. TypeOK /\ Course /\ ~torn' /\ Alive
  BY DEF IInv, Spoiled
<1>0. /\ Live(a) /\ BackOf(a) /\ SoundOf(a) /\ act[a].version \in Versions
      /\ \A b \in Activations : Live(b)' => b = a
  BY <1>t, StepOfEffect, OneLive DEF Sound, RunsWhole, IInv, Begun, Course, Live, Swapping
<1>1. ASSUME ActivateEnd(a) PROVE RunsWhole'
  <2>1. /\ act[a].pc = "install" /\ act'[a].pc = "over" /\ watchdog'[a] = "armed"
        /\ act'[a].version = act[a].version /\ UNCHANGED <<app, found, running, markers>>
    BY <1>t, <1>1, EndedType DEF ActivateEnd, TypeOK
  <2>2. SoundOf(a)' /\ Live(a)'
    BY <1>0, <2>1 DEF SoundOf, Swapping, Live
  <2> QED
    BY <1>0, <2>2 DEF RunsWhole
<1>2. ASSUME NEW f \in Files, BackupFails(a, f) \/ RestoreDone(a) \/ RestoreFails(a, f)
      PROVE  RunsWhole'
  <2>1. Swapping(a) /\ watchdog[a] = "off" /\ app' = app
    BY <1>t, <1>2 DEF BackupFails, RestoreDone, RestoreFails, Swapping, Course
  <2>2. PICK whole \in BOOLEAN :
           /\ Rejects(a, whole)
           /\ whole => \/ act[a].pc = "backup" /\ previous[a] = Nothing
                       \/ act[a].pc = "restore" /\ todo[a] = {}
    BY <1>2 DEF BackupFails, RestoreDone, RestoreFails
  <2>3. ~Live(a)' /\ running' \in {running, None}
    BY <1>t, <2>1, <2>2, RejectsEffect DEF Live
  <2>4. whole
    BY <1>t, <2>1, <2>2 DEF Rejects, ProcessDies
  <2>5. app = Release(running)
    BY <2>2, <2>4, WholeAgain
  <2> QED
    BY <1>0, <2>1, <2>3, <2>5 DEF RunsWhole
<1>3. ASSUME WatchdogSatisfied(a) PROVE RunsWhole'
  <2>1. /\ watchdog[a] = "counting" /\ a \in markers /\ watchdog'[a] = "over"
        /\ UNCHANGED <<app, running, act>>
    BY <1>t, <1>3 DEF WatchdogSatisfied, TypeOK
  <2>2. ~Live(a)' /\ running \in {None, act[a].version} /\ app = Release(act[a].version)
    BY <1>0, <1>t, <2>1 DEF Live, Swapping, Course, SoundOf
  <2> QED
    BY <1>0, <2>1, <2>2 DEF RunsWhole
<1>4. ASSUME WatchdogRemoves(a) PROVE RunsWhole'
  <2>1. /\ watchdog[a] = "counting" /\ watchdog'[a] = "restoring" /\ act[a].pc = "over"
        /\ UNCHANGED <<found, running, act>>
    BY <1>t, <1>4 DEF WatchdogRemoves, TypeOK, Course
  <2>2. SoundOf(a)' /\ Live(a)'
    BY <1>0, <2>1 DEF SoundOf, Swapping, Live
  <2> QED
    BY <1>0, <2>2 DEF RunsWhole
<1>5. ASSUME WatchdogRestores(a) PROVE RunsWhole'
  <2>1. running' = None /\ watchdog'[a] = "over" /\ ~Swapping(a)'
    BY <1>t, <1>5, DiesEffect DEF WatchdogRestores
  <2>2. ~Live(a)'
    BY <2>1 DEF Live
  <2> QED
    BY <1>0, <2>1, <2>2 DEF RunsWhole
<1>6. ASSUME NEW f \in Files, WatchdogFails(a, f) PROVE FALSE
  BY <1>t, <1>6 DEF WatchdogFails
<1>7. ASSUME NEW f \in Files, \/ BackupFile(a, f) \/ InstallFile(a, f) \/ UndoFile(a, f)
                              \/ RestoreFile(a, f) \/ InstallFails(a, f) \/ UndoFails(a, f)
                              \/ BackupDone(a) \/ UndoDone(a)
      PROVE  RunsWhole'
  BY <1>7, SoundSwap
<1> QED
  BY <1>1, <1>2, <1>3, <1>4, <1>5, <1>6, <1>7, UpdateAssumption DEF StepOf, Move, Watch

\* What is spoiled stays so, and what is not has one release.
LEMMA SoundStep == IInv /\ IInv' /\ (Spoiled \/ Sound) /\ [Next]_vars => (Spoiled \/ Sound)'
<1> SUFFICES ASSUME IInv, IInv', Spoiled \/ Sound, [Next]_vars, ~Spoiled' PROVE Sound'
  OBVIOUS
<1> USE DEF files, process, swap, guards, past
<1>t. ~Spoiled /\ Sound /\ ~torn'
  BY SpoiledStays DEF IInv, Spoiled
<1>1. Staged'
  BY <1>t, StagedStep
<1>2. ASSUME NEW b \in Activations, Begins(b) \/ StepOf(b) PROVE RunsWhole'
  BY <1>t, <1>2, SoundBegins, SoundStepOf
<1>3. ASSUME Stage \/ UNCHANGED vars
                \/ \E u \in Updates, by \in {"http", "session"} : NotActivated(u, by)
      PROVE  RunsWhole'
  <2>1. UNCHANGED <<app, found, act, watchdog, markers, running>>
    BY <1>3 DEF Stage, StageClear, StageFails, StageReady, NotActivated, vars
  <2> QED
    BY <1>t, <2>1, SoundSteady
<1>4. ASSUME Kill PROVE RunsWhole'
  BY <1>t, <1>4, SoundEnds DEF Kill
<1>5. ASSUME Process PROVE RunsWhole'
  BY <1>t, <1>5, SoundProcess
<1> QED
  BY <1>1, <1>2, <1>3, <1>4, <1>5, Steps DEF Sound, StepOfNone

(***************************************************************************)
(* What InstalledRelease sees of it.                                       *)
(***************************************************************************)
LEMMA Versioned ==
    /\ \A u \in Versions : VersionOf(Release(u)) = u
    /\ VersionOf(Nothing) = None
    /\ \A dir : VersionOf(dir) \in Versions \cup {None}
BY Directories DEF VersionOf

\* A directory with files of release v alone is v or no release.
LEMMA PartOf ==
    ASSUME NEW v \in Versions, NEW dir, \A f \in Files : dir[f] \in {v, None}
    PROVE  VersionOf(dir) \in {v, None}
<1>1. PICK f \in Files : TRUE
  BY UpdateAssumption
<1>2. \A u \in Versions : dir = Release(u) => u = v
  BY <1>1, VersionFacts DEF Release
<1> QED
  BY <1>2 DEF VersionOf

\* What is shown: release i, f to go back to, and whether i was welcomed.
Shows(i, f, c) == VersionOf(Held) = i /\ VersionOf(Kept) = f /\ (Accepted <=> c)

\* Nothing is under way; a swap or a rollback is; a release is on probation.
Idle  == \A a \in Activations : ~Live(a)
Shown ==
    /\ Idle => Shows(VersionOf(app), None, FALSE)
    /\ \A a \in Activations :
          /\ Undecided(a) => \E u \in Versions : found[a] = Release(u) /\ Shows(u, None, FALSE)
          /\ OnTrial(a) => \E u \in Versions : /\ found[a] = Release(u)
                                               /\ Shows(VersionOf(app), u, a \in markers)

LEMMA ShownHolds == IInv /\ Sound /\ ~Spoiled => Shown
<1> SUFFICES ASSUME IInv, Sound, ~Spoiled PROVE Shown
  OBVIOUS
<1>1. \A a \in Activations : Undecided(a) \/ OnTrial(a) <=> Live(a)
  BY DEF Undecided, OnTrial, Live
<1>2. ASSUME NEW a \in Activations, Live(a)
      PROVE  /\ \E u \in Versions : found[a] = Release(u)
             /\ \A b \in Activations : Live(b) => b = a
             /\ ~(Undecided(a) /\ OnTrial(a))
             /\ OnTrial(a) => previous[a] = found[a]
  BY <1>2, OneLive DEF Sound, RunsWhole, SoundOf, Undecided, OnTrial, Swapping, IInv, Course, BackOf
<1>3. ASSUME Idle PROVE Shows(VersionOf(app), None, FALSE)
  <2>1. Held = app /\ Kept = Nothing /\ ~Accepted
    BY <1>1, <1>3 DEF Idle, Held, Kept, Accepted
  <2> QED
    BY <2>1, Versioned DEF Shows
<1>4. ASSUME NEW a \in Activations, Undecided(a)
      PROVE  \E u \in Versions : found[a] = Release(u) /\ Shows(u, None, FALSE)
  <2>1. \A b \in Activations : (Undecided(b) => b = a) /\ ~OnTrial(b)
    BY <1>1, <1>2, <1>4
  <2>2. (CHOOSE b \in Activations : Undecided(b)) = a
    BY <1>4, <2>1
  <2>3. Held = found[a] /\ Kept = Nothing /\ ~Accepted
    BY <1>4, <2>1, <2>2 DEF Held, Kept, Accepted
  <2> QED
    BY <1>1, <1>2, <1>4, <2>3, Versioned DEF Shows
<1>5. ASSUME NEW a \in Activations, OnTrial(a)
      PROVE  \E u \in Versions : found[a] = Release(u) /\ Shows(VersionOf(app), u, a \in markers)
  <2>1. \A b \in Activations : (OnTrial(b) => b = a) /\ ~Undecided(b)
    BY <1>1, <1>2, <1>5
  <2>2. (CHOOSE b \in Activations : OnTrial(b)) = a
    BY <1>5, <2>1
  <2>3. Held = app /\ Kept = previous[a] /\ (Accepted <=> a \in markers)
    BY <1>5, <2>1, <2>2 DEF Held, Kept, Accepted
  <2> QED
    BY <1>1, <1>2, <1>5, <2>3, Versioned DEF Shows
<1> QED
  BY <1>3, <1>4, <1>5 DEF Shown

\* A step of the updater as InstalledRelease sees it.
LEMMA SeenStep ==
    ASSUME ~Spoiled, ~Spoiled',
           NEW i, NEW f, NEW c \in BOOLEAN, NEW j, NEW g, NEW d \in BOOLEAN,
           Shows(i, f, c), Shows(j, g, d)',
           \/ /\ running = None /\ running' = i /\ j = i /\ g = f /\ d = c /\ welcomed' = welcomed
           \/ /\ running' = None /\ welcomed' = FALSE /\ j = i
              /\ IF KillsGroup THEN g = None /\ d = FALSE ELSE g = f /\ d = c
           \/ /\ running # None /\ welcomed' = TRUE /\ j = i /\ g = f
              /\ (d <=> c \/ (f # None /\ running = i)) /\ running' = running
           \/ /\ running = i /\ i # j /\ j \in Versions \cup {None} /\ f = None /\ g = i /\ d = c
              /\ running' = running /\ welcomed' = welcomed
           \/ /\ f # None /\ c /\ g = None /\ ~d /\ j = i
              /\ running' = running /\ welcomed' = welcomed
           \/ /\ f # None /\ ~c /\ j = f /\ g = None /\ ~d
              /\ running' = running /\ welcomed' = welcomed
    PROVE  Installed!Next
<1> USE DEF Shows, Installed!Next, None, Installed!None, Installed!Versions, Versions
<1>1. CASE running = None /\ running' = i /\ j = i /\ g = f /\ d = c /\ welcomed' = welcomed
  BY <1>1 DEF Installed!Start
<1>2. CASE /\ running' = None /\ welcomed' = FALSE /\ j = i
           /\ IF KillsGroup THEN g = None /\ d = FALSE ELSE g = f /\ d = c
  BY <1>2 DEF Installed!Stop
<1>3. CASE /\ running # None /\ welcomed' = TRUE /\ j = i /\ g = f
           /\ (d <=> c \/ (f # None /\ running = i)) /\ running' = running
  BY <1>3 DEF Installed!Welcome
<1>4. CASE /\ running = i /\ i # j /\ j \in Versions \cup {None} /\ f = None /\ g = i /\ d = c
           /\ running' = running /\ welcomed' = welcomed
  BY <1>4 DEF Installed!Replace
<1>5. CASE /\ f # None /\ c /\ g = None /\ ~d /\ j = i
           /\ running' = running /\ welcomed' = welcomed
  BY <1>5 DEF Installed!Keep
<1>6. CASE /\ f # None /\ ~c /\ j = f /\ g = None /\ ~d
           /\ running' = running /\ welcomed' = welcomed
  BY <1>6 DEF Installed!GoBack
<1> QED
  BY <1>1, <1>2, <1>3, <1>4, <1>5, <1>6

LEMMA SeenSame ==
    ASSUME ~Spoiled, ~Spoiled', NEW i, NEW f, NEW c \in BOOLEAN, Shows(i, f, c), Shows(i, f, c)',
           UNCHANGED <<running, welcomed>>
    PROVE  UNCHANGED Installed!vars
<1>1. Spoiled' = Spoiled
  BY DEF Spoiled
<1> QED
  BY <1>1 DEF Shows, Installed!vars

LEMMA SameShown == app' = app => VersionOf(app)' = VersionOf(app)
BY DEF VersionOf

\* What the files show does not change when they and the activations do not.
LEMMA ShownSame ==
    ASSUME Shown, Shown', UNCHANGED <<app, found, act, watchdog, markers>>
    PROVE  \E i, f \in Versions \cup {None}, c \in BOOLEAN : Shows(i, f, c) /\ Shows(i, f, c)'
<1>1. CASE Idle
  <2>1. Idle'
    BY <1>1 DEF Idle, Live, Swapping
  <2>2. Shows(VersionOf(app), None, FALSE) /\ Shows(VersionOf(app), None, FALSE)'
    BY <1>1, <2>1 DEF Shown, Shows
  <2> QED
    BY <2>2, SameShown, Versioned DEF Shows
<1>2. ASSUME NEW a \in Activations, Undecided(a)
      PROVE  \E i, f \in Versions \cup {None}, c \in BOOLEAN : Shows(i, f, c) /\ Shows(i, f, c)'
  <2>1. PICK u \in Versions : found[a] = Release(u) /\ Shows(u, None, FALSE)
    BY <1>2 DEF Shown
  <2>2. Undecided(a)'
    BY <1>2 DEF Undecided, Swapping
  <2>3. PICK w \in Versions : found'[a] = Release(w) /\ Shows(w, None, FALSE)'
    BY <2>2 DEF Shown
  <2> QED
    BY <2>1, <2>3, Directories
<1>3. ASSUME NEW a \in Activations, OnTrial(a)
      PROVE  \E i, f \in Versions \cup {None}, c \in BOOLEAN : Shows(i, f, c) /\ Shows(i, f, c)'
  <2>1. PICK u \in Versions : found[a] = Release(u) /\ Shows(VersionOf(app), u, a \in markers)
    BY <1>3 DEF Shown
  <2>2. OnTrial(a)'
    BY <1>3 DEF OnTrial
  <2>3. PICK w \in Versions : found'[a] = Release(w) /\ Shows(VersionOf(app), w, a \in markers)'
    BY <2>2 DEF Shown
  <2>4. u = w
    BY <2>1, <2>3, Directories
  <2> QED
    BY <2>1, <2>3, <2>4, SameShown, Versioned DEF Shows
<1> QED
  BY <1>1, <1>2, <1>3 DEF Idle, Live, Undecided, OnTrial

\* The process ends, and no swap with it.
LEMMA SeenEnds ==
    ASSUME IInv, ~Spoiled, ~Spoiled', Shown, Shown', ProcessDies({}),
           UNCHANGED <<app, found, markers>>,
           watchdog' = [b \in Activations |-> Left(watchdog[b])]
    PROVE  Installed!Next
<1>t. TypeOK /\ Course /\ ~torn'
  BY DEF IInv, Spoiled
<1>1. /\ running' = None /\ welcomed' = FALSE
      /\ \A a \in Activations : ~Swapping(a) /\ ~Swapping(a)'
      /\ \A a \in Activations : /\ watchdog[a] \in {"off", "armed", "counting", "restoring", "over"}
                                /\ watchdog'[a] = Left(watchdog[a])
  BY <1>t, DiesEffect DEF ProcessDies, TypeOK
<1>2. CASE Idle'
  <2>1. Shows(VersionOf(app), None, FALSE)'
    BY <1>2 DEF Shown
  <2>2. \A a \in Activations : watchdog[a] = "armed" \/ ~Live(a)
    BY <1>t, <1>1, <1>2 DEF Idle, Live, Left, Course
  <2>3. CASE Idle
    BY <1>1, <2>1, <2>3, SameShown, SeenStep DEF Shown, Shows
  <2>4. ASSUME NEW a \in Activations, watchdog[a] = "armed" PROVE Installed!Next
    <3>1. PICK u \in Versions : Shows(VersionOf(app), u, a \in markers)
      BY <2>4 DEF Shown, OnTrial
    <3>2. KillsGroup
      BY <1>1, <1>2, <2>4 DEF Idle, Live, Left
    <3>3. PICK i \in Versions \cup {None}, c \in BOOLEAN :
              i = VersionOf(app) /\ (c <=> a \in markers)
      BY Versioned
    <3>4. Shows(i, u, c) /\ Shows(i, None, FALSE)'
      BY <2>1, <3>1, <3>3, SameShown DEF Shows
    <3> QED
      BY <1>1, <3>2, <3>4, SeenStep
  <2> QED
    BY <2>2, <2>3, <2>4 DEF Idle
<1>3. ASSUME NEW a \in Activations, Live(a)' PROVE Installed!Next
  <2>0. ~KillsGroup /\ watchdog[a] \in {"armed", "counting", "restoring"}
    BY <1>1, <1>3 DEF Live, Left
  <2>1. CASE watchdog[a] = "restoring"
    <3>1. PICK u \in Versions : found[a] = Release(u) /\ Shows(u, None, FALSE)
      BY <2>1 DEF Shown, Undecided
    <3>2. Undecided(a)'
      BY <1>1, <2>0, <2>1 DEF Undecided, Left
    <3>3. PICK w \in Versions : found'[a] = Release(w) /\ Shows(w, None, FALSE)'
      BY <3>2 DEF Shown
    <3>4. u = w
      BY <3>1, <3>3, Directories
    <3> QED
      BY <1>1, <2>0, <3>1, <3>3, <3>4, SeenStep
  <2>2. CASE watchdog[a] # "restoring"
    <3>1. PICK u \in Versions : found[a] = Release(u) /\ Shows(VersionOf(app), u, a \in markers)
      BY <2>0, <2>2 DEF Shown, OnTrial
    <3>2. OnTrial(a)'
      BY <1>1, <2>0, <2>2 DEF OnTrial, Left
    <3>3. PICK w \in Versions : found'[a] = Release(w) /\ Shows(VersionOf(app), w, a \in markers)'
      BY <3>2 DEF Shown
    <3>4. u = w
      BY <3>1, <3>3, Directories
    <3>5. PICK i \in Versions \cup {None}, c \in BOOLEAN :
              i = VersionOf(app) /\ (c <=> a \in markers)
      BY Versioned
    <3>6. Shows(i, u, c) /\ Shows(i, u, c)'
      BY <3>1, <3>3, <3>4, <3>5, SameShown DEF Shows
    <3> QED
      BY <1>1, <2>0, <3>6, SeenStep
  <2> QED
    BY <2>1, <2>2
<1> QED
  BY <1>2, <1>3 DEF Idle

\* The service manager starts the release that is shown.
LEMMA SeenBoots ==
    ASSUME IInv, ~Spoiled, ~Spoiled', Shown, Shown', NEW v \in Versions, Boot(v)
    PROVE  Installed!Next
<1> USE DEF files, process, swap, guards, past
<1>1. /\ running = None /\ running' = v /\ app = Release(v)
      /\ UNCHANGED <<app, found, act, watchdog, markers, welcomed>>
  BY DEF Boot
<1>2. PICK i, f \in Versions \cup {None}, c \in BOOLEAN : Shows(i, f, c) /\ Shows(i, f, c)'
  BY <1>1, ShownSame
<1>3. ASSUME NEW a \in Activations, Undecided(a) PROVE FALSE
  <2>1. watchdog[a] = "restoring" /\ Live(a)
    BY <1>1, <1>3 DEF Undecided, IInv, Course, Live
  <2>2. app = Nothing
    BY <2>1, OneLive DEF BackOf
  <2> QED
    BY <1>1, <2>2, Directories
<1>4. Held = app
  BY <1>3 DEF Held
<1>5. i = v
  BY <1>1, <1>2, <1>4, Versioned DEF Shows
<1> QED
  BY <1>1, <1>2, <1>5, SeenStep

\* The hub welcomes the session of the running process.
LEMMA SeenWelcome ==
    ASSUME IInv, Sound, ~Spoiled, ~Spoiled', Shown, Shown', Welcome
    PROVE  Installed!Next
<1> USE DEF files, process, swap, guards, past
<1>1. /\ running # None /\ welcomed' = TRUE
      /\ UNCHANGED <<app, found, act, watchdog, running>>
      /\ \A a \in Activations : a \in markers' <=>
              a \in markers \/ (record.version = running /\ a \in record.by)
  BY DEF Welcome
<1>2. CASE Idle
  <2>1. Idle'
    BY <1>1, <1>2 DEF Idle, Live, Swapping
  <2>2. PICK i \in Versions \cup {None} : i = VersionOf(app)
    BY Versioned
  <2>3. Shows(i, None, FALSE) /\ Shows(i, None, FALSE)'
    BY <1>1, <1>2, <2>1, <2>2, SameShown DEF Shown, Shows
  <2> QED
    BY <1>1, <2>3, SeenStep
<1>3. ASSUME NEW a \in Activations, Undecided(a) PROVE Installed!Next
  <2>1. PICK u \in Versions : found[a] = Release(u) /\ Shows(u, None, FALSE)
    BY <1>3 DEF Shown
  <2>2. Undecided(a)'
    BY <1>1, <1>3 DEF Undecided, Swapping
  <2>3. PICK w \in Versions : found'[a] = Release(w) /\ Shows(w, None, FALSE)'
    BY <2>2 DEF Shown
  <2>4. u = w
    BY <1>1, <2>1, <2>3, Directories
  <2> QED
    BY <1>1, <2>1, <2>3, <2>4, SeenStep
<1>4. ASSUME NEW a \in Activations, OnTrial(a) PROVE Installed!Next
  <2> DEFINE v == act[a].version
  <2>1. PICK u \in Versions : found[a] = Release(u) /\ Shows(VersionOf(app), u, a \in markers)
    BY <1>4 DEF Shown
  <2>2. OnTrial(a)'
    BY <1>1, <1>4 DEF OnTrial
  <2>3. PICK w \in Versions : found'[a] = Release(w) /\ Shows(VersionOf(app), w, a \in markers)'
    BY <2>2 DEF Shown
  <2>4. u = w /\ u # None
    BY <1>1, <2>1, <2>3, Directories, VersionFacts
  <2>5. PICK i \in Versions \cup {None}, c \in BOOLEAN, d \in BOOLEAN :
           i = VersionOf(app) /\ (c <=> a \in markers) /\ (d <=> a \in markers')
    BY Versioned
  <2>6. Shows(i, u, c) /\ Shows(i, u, d)'
    BY <1>1, <2>1, <2>3, <2>4, <2>5, SameShown DEF Shows
  <2>7. a \in markers' <=> a \in markers \/ running = v
    BY <1>1, <1>4, OneLive DEF Live, OnTrial
  <2>8. running = v <=> running = i
    <3>1. /\ v \in Versions /\ SoundOf(a) /\ running \in Versions
      BY <1>1, <1>4 DEF IInv, TypeOK, Begun, Course, OnTrial, Live, Sound, RunsWhole
    <3>2. i \in {v, None}
      BY <1>4, <2>5, <3>1, PartOf DEF SoundOf, OnTrial
    <3>3. running = v => app = Release(v)
      BY <1>4, <3>1 DEF SoundOf, OnTrial
    <3> QED
      BY <1>1, <2>5, <3>1, <3>2, <3>3, Versioned
  <2>9. d <=> c \/ (u # None /\ running = i)
    BY <2>4, <2>5, <2>7, <2>8
  <2> QED
    BY <1>1, <2>6, <2>9, SeenStep
<1> QED
  BY <1>2, <1>3, <1>4 DEF Idle, Live, Undecided, OnTrial

\* An activation begins: the release it replaces is still the one shown.
LEMMA SeenBegins ==
    ASSUME IInv, Sound, ~Spoiled, ~Spoiled', Shown, Shown', NEW b \in Activations, Begins(b)
    PROVE  UNCHANGED Installed!vars
<1>t. TypeOK /\ Course
  BY DEF IInv
<1>1. /\ Idle /\ running \in Versions /\ found'[b] = app /\ act'[b].pc = "backup"
      /\ UNCHANGED <<app, running, welcomed>>
  BY <1>t, BeginsEffect DEF Spoiled, process, Idle, TypeOK
<1>2. app = Release(running)
  BY <1>1, VersionFacts DEF Sound, RunsWhole, Idle
<1>3. PICK i \in Versions : i = running
  BY <1>1
<1>4. Shows(i, None, FALSE)
  BY <1>1, <1>2, <1>3, Versioned DEF Shown
<1>5. Undecided(b)'
  BY <1>1 DEF Undecided, Swapping
<1>6. PICK w \in Versions : found'[b] = Release(w) /\ Shows(w, None, FALSE)'
  BY <1>5 DEF Shown
<1>7. w = i
  BY <1>1, <1>2, <1>3, <1>6, Directories
<1> QED
  BY <1>1, <1>4, <1>6, <1>7, SeenSame

LEMMA SeenStepOf ==
    ASSUME IInv, IInv', Sound, Sound', ~Spoiled, ~Spoiled', Shown, Shown',
           NEW a \in Activations, StepOf(a)
    PROVE  [Installed!Next]_(Installed!vars)
<1> USE DEF files, process, swap, guards, past
<1>t. TypeOK /\ Course /\ ~torn' /\ Alive
  BY DEF IInv, Spoiled
<1>0. /\ Live(a) /\ BackOf(a) /\ SoundOf(a) /\ act[a].version \in Versions
      /\ found' = found /\ \A b \in Activations : Live(b)' => b = a
  BY <1>t, StepOfEffect, OneLive DEF Sound, RunsWhole, IInv, Begun, Course, Live, Swapping
<1>u. Undecided(a) => \E u \in Versions : found[a] = Release(u) /\ Shows(u, None, FALSE)
  BY DEF Shown
<1>o. OnTrial(a) => \E u \in Versions : found[a] = Release(u) /\ Shows(VersionOf(app), u, a \in markers)
  BY DEF Shown
<1>x. Undecided(a)' => \E u \in Versions : found[a] = Release(u) /\ Shows(u, None, FALSE)'
  BY <1>0 DEF Shown
<1>i. ~Live(a)' => Shows(VersionOf(app), None, FALSE)'
  BY <1>0 DEF Shown, Idle
<1>1. ASSUME NEW f \in Files, \/ BackupFile(a, f) \/ InstallFile(a, f) \/ UndoFile(a, f)
                              \/ RestoreFile(a, f) \/ InstallFails(a, f) \/ UndoFails(a, f)
                              \/ BackupDone(a) \/ UndoDone(a)
      PROVE  UNCHANGED Installed!vars
  <2>1. Undecided(a) /\ Undecided(a)' /\ UNCHANGED <<running, welcomed>>
    BY <1>t, <1>1 DEF BackupFile, InstallFile, UndoFile, RestoreFile, InstallFails, UndoFails,
       BackupDone, UndoDone, Proceeds, Undecided, Swapping, TypeOK
  <2>2. PICK u \in Versions : found[a] = Release(u) /\ Shows(u, None, FALSE)
    BY <1>u, <2>1
  <2>3. PICK w \in Versions : found[a] = Release(w) /\ Shows(w, None, FALSE)'
    BY <1>x, <2>1
  <2>4. u = w
    BY <2>2, <2>3, Directories
  <2> QED
    BY <2>1, <2>2, <2>3, <2>4, SeenSame
<1>2. ASSUME ActivateEnd(a) PROVE Installed!Next
  <2>1. /\ act[a].pc = "install" /\ watchdog'[a] = "armed" /\ act'[a].version = act[a].version
        /\ UNCHANGED <<app, running, welcomed, markers>>
    BY <1>t, <1>2, EndedType DEF ActivateEnd, TypeOK
  <2>2. PICK u \in Versions : found[a] = Release(u) /\ Shows(u, None, FALSE)
    BY <1>u, <2>1 DEF Undecided, Swapping
  <2>3. running = u /\ running # act[a].version /\ a \notin markers
    BY <1>0, <1>t, <2>1, <2>2, Directories DEF SoundOf, Swapping, Course, TypeOK
  <2>4. PICK w \in Versions : found[a] = Release(w) /\ Shows(VersionOf(app), w, a \in markers)'
    BY <1>0, <2>1 DEF Shown, OnTrial
  <2>5. PICK j \in Versions \cup {None} : j = VersionOf(app)
    BY Versioned
  <2>6. Shows(j, u, FALSE)'
    BY <2>1, <2>2, <2>3, <2>4, <2>5, SameShown, Directories DEF Shows
  <2>7. j \in {act[a].version, None}
    BY <1>0, <2>1, <2>5, PartOf DEF SoundOf
  <2> QED
    BY <2>1, <2>2, <2>3, <2>5, <2>6, <2>7, VersionFacts, SeenStep
<1>3. ASSUME NEW f \in Files, BackupFails(a, f) \/ RestoreDone(a) \/ RestoreFails(a, f)
      PROVE  [Installed!Next]_(Installed!vars)
  <2>1. Swapping(a) /\ watchdog[a] = "off" /\ app' = app
    BY <1>t, <1>3 DEF BackupFails, RestoreDone, RestoreFails, Swapping, Course
  <2>2. PICK whole \in BOOLEAN :
           /\ Rejects(a, whole)
           /\ whole => \/ act[a].pc = "backup" /\ previous[a] = Nothing
                       \/ act[a].pc = "restore" /\ todo[a] = {}
    BY <1>3 DEF BackupFails, RestoreDone, RestoreFails
  <2>3. ~Live(a)'
    BY <1>t, <2>1, <2>2, RejectsEffect DEF Live
  <2>4. whole
    BY <1>t, <2>1, <2>2 DEF Rejects, ProcessDies
  <2>5. app = found[a]
    BY <2>2, <2>4, WholeAgain
  <2>6. PICK u \in Versions : found[a] = Release(u) /\ Shows(u, None, FALSE)
    BY <1>u, <2>1 DEF Undecided
  <2>7. Shows(u, None, FALSE)'
    BY <1>i, <2>1, <2>3, <2>5, <2>6, SameShown, Versioned DEF Shows
  <2>8. CASE UNCHANGED <<running, welcomed>>
    BY <2>6, <2>7, <2>8, SeenSame
  <2>9. CASE running' = None /\ welcomed' = FALSE
    BY <2>6, <2>7, <2>9, SeenStep
  <2> QED
    BY <2>2, <2>8, <2>9 DEF Rejects, ProcessDies
<1>4. ASSUME WatchdogSatisfied(a) PROVE Installed!Next
  <2>1. /\ OnTrial(a) /\ a \in markers /\ ~Live(a)'
        /\ UNCHANGED <<app, running, welcomed>>
    BY <1>t, <1>4 DEF WatchdogSatisfied, OnTrial, Live, Swapping, Course, TypeOK
  <2>2. PICK u \in Versions : Shows(VersionOf(app), u, a \in markers)
    BY <1>o, <2>1
  <2>3. PICK i \in Versions \cup {None} : i = VersionOf(app)
    BY Versioned
  <2>4. Shows(i, u, TRUE) /\ Shows(i, None, FALSE)'
    BY <1>i, <2>1, <2>2, <2>3, SameShown DEF Shows
  <2> QED
    BY <2>1, <2>4, VersionFacts, SeenStep
<1>5. ASSUME WatchdogRemoves(a) PROVE Installed!Next
  <2>1. /\ OnTrial(a) /\ a \notin markers /\ Undecided(a)'
        /\ UNCHANGED <<running, welcomed>>
    BY <1>t, <1>5 DEF WatchdogRemoves, OnTrial, Undecided, TypeOK
  <2>2. PICK u \in Versions : found[a] = Release(u) /\ Shows(VersionOf(app), u, a \in markers)
    BY <1>o, <2>1
  <2>3. PICK i \in Versions \cup {None} : i = VersionOf(app)
    BY Versioned
  <2>4. PICK w \in Versions : found[a] = Release(w) /\ Shows(w, None, FALSE)'
    BY <1>x, <2>1
  <2>5. Shows(i, u, FALSE) /\ Shows(u, None, FALSE)'
    BY <2>1, <2>2, <2>3, <2>4, Directories DEF Shows
  <2> QED
    BY <2>1, <2>5, VersionFacts, SeenStep
<1>6. ASSUME WatchdogRestores(a) PROVE Installed!Next
  <2>1. /\ watchdog[a] = "restoring" /\ running' = None /\ welcomed' = FALSE
        /\ app' = Merge(previous[a], app) /\ watchdog'[a] = "over" /\ ~Swapping(a)'
    BY <1>t, <1>6, DiesEffect DEF WatchdogRestores
  <2>2. PICK u \in Versions : found[a] = Release(u) /\ Shows(u, None, FALSE)
    BY <1>u, <2>1 DEF Undecided
  <2>3. app' = Release(u)
    <3>1. previous[a] = Release(u) /\ app = Nothing
      BY <1>0, <2>1, <2>2 DEF BackOf
    <3>2. Merge(Release(u), Nothing) = Release(u)
      BY VersionFacts DEF Merge, Release, Nothing
    <3> QED
      BY <2>1, <3>1, <3>2
  <2>4. VersionOf(app)' = u
    BY <2>3, Versioned
  <2>5. Shows(u, None, FALSE)'
    BY <1>i, <2>1, <2>4 DEF Live, Shows
  <2> QED
    BY <2>1, <2>2, <2>5, SeenStep
<1>7. ASSUME NEW f \in Files, WatchdogFails(a, f) PROVE FALSE
  BY <1>t, <1>7 DEF WatchdogFails
<1> QED
  BY <1>1, <1>2, <1>3, <1>4, <1>5, <1>6, <1>7, UpdateAssumption DEF StepOf, Move, Watch

LEMMA SeenNext ==
    ASSUME IInv, IInv', Sound, Sound', ~Spoiled, ~Spoiled', Shown, Shown', [Next]_vars
    PROVE  [Installed!Next]_(Installed!vars)
<1> USE DEF files, process, swap, guards, past
<1>1. ASSUME NEW b \in Activations, Begins(b) \/ StepOf(b)
      PROVE  [Installed!Next]_(Installed!vars)
  BY <1>1, SeenBegins, SeenStepOf
<1>2. ASSUME Stage \/ UNCHANGED vars
             \/ \E u \in Updates, by \in {"http", "session"} : NotActivated(u, by)
      PROVE  UNCHANGED Installed!vars
  <2>1. UNCHANGED <<app, found, act, watchdog, markers, running, welcomed>>
    BY <1>2 DEF Stage, StageClear, StageFails, StageReady, NotActivated, vars
  <2> QED
    BY <2>1, ShownSame, SeenSame
<1>3. ASSUME Kill \/ ExitForUpdate PROVE Installed!Next
  BY <1>3, SeenEnds DEF Kill, ExitForUpdate
<1>4. ASSUME Welcome \/ \E v \in Versions : Boot(v) PROVE Installed!Next
  BY <1>4, SeenWelcome, SeenBoots
<1> QED
  BY <1>1, <1>2, <1>3, <1>4, Steps DEF StepOfNone, Process

(***************************************************************************)
(* The theorems.                                                           *)
(***************************************************************************)

\* Whatever updates, activations, failures and restarts do to each other, every
\* variable keeps its type.
THEOREM UpdateTypeCorrect == Spec => []TypeOK
<1>1. Init => TypeOK /\ Begun /\ Course /\ Alive
  BY InitTypes, InitControl
<1>2. TypeOK /\ Begun /\ Course /\ Alive /\ [Next]_vars
         => TypeOK' /\ Begun' /\ Course' /\ Alive'
  BY StepTypes, ControlStep
<1> QED
  BY <1>1, <1>2, PTL DEF Spec

\* The record and the marker belong together over every restart, an activation
\* that crosses no other is the only one that moves files, and at each step of
\* its swap, of the undoing and of the rollback what it found in app is in app,
\* in the backup, or between the two.
THEOREM UpdateInvariant == Spec => []IInv
<1>1. Init => IInv
  BY InitTypes, InitControl DEF IInv
<1>2. IInv /\ [Next]_vars => IInv'
  BY StepTypes, ControlStep, AloneStep, BackStep DEF IInv
<1> QED
  BY <1>1, <1>2, PTL DEF Spec

\* No watchdog takes away a release that the hub has welcomed, whatever
\* updates, restarts and activations lie between, unless the record of its
\* activation has been overwritten.
THEOREM HealthyStaysHolds == Spec => HealthyStays
<1>1. IInv /\ [Next]_vars =>
         [\A a \in Activations :
             WatchdogRemoves(a) /\ record.by = {a}
                => ~(welcomed /\ running = act[a].version)]_vars
  BY DEF IInv, Course, WatchdogRemoves
<1> QED
  BY <1>1, UpdateInvariant, PTL DEF Spec, HealthyStays

\* A rollback puts back, file for file, what its activation found in app,
\* whatever was there, unless the activation has crossed another one.
THEOREM RollbackRestoresHolds == Spec => RollbackRestores
<1>1. IInv /\ [Next]_vars =>
         [\A a \in Activations :
             WatchdogRestores(a) /\ a \notin crossed => app' = found[a]]_vars
  <2> SUFFICES ASSUME IInv, NEW a \in Activations, WatchdogRestores(a), a \notin crossed
               PROVE  app' = found[a]
    OBVIOUS
  <2>1. watchdog[a] = "restoring" /\ app' = Merge(previous[a], app)
    BY DEF WatchdogRestores
  <2>2. previous[a] = found[a] /\ app = Nothing
    BY <2>1 DEF IInv, Back, BackOf, Live
  <2>3. found[a] \in Content
    BY DEF IInv, TypeOK
  <2>4. Merge(found[a], Nothing) = found[a]
    BY <2>3 DEF Merge, Nothing, Content
  <2> QED
    BY <2>1, <2>2, <2>4
<1> QED
  BY <1>1, UpdateInvariant, PTL DEF Spec, RollbackRestores

\* The files, the marker and the watchdog of an update do what InstalledRelease
\* promises of the release of the client, for any releases, files, activations,
\* kills and refused renames, until a move ends half-way or two activations meet
\* (updater.mjs:288-315, 466-502).
THEOREM OneReleaseHolds == Spec => OneRelease
<1>1. Init => Installed!Init
  <2> SUFFICES ASSUME Init PROVE Installed!Init
    OBVIOUS
  <2>1. \A a \in Activations : ~Undecided(a) /\ ~OnTrial(a)
    BY DEF Init, Undecided, OnTrial, Swapping
  <2>2. Held = Release(1) /\ Kept = Nothing /\ ~Accepted /\ ~Spoiled
    BY <2>1 DEF Held, Kept, Accepted, Init, Spoiled
  <2>3. VersionOf(Held) = 1 /\ VersionOf(Kept) = None
    BY <2>2, Versioned, VersionFacts
  <2> QED
    BY <2>2, <2>3 DEF Init, Installed!Init, Installed!None, None
<1>2. Init => Spoiled \/ Sound
  BY InitSound
<1>3. Spec => [](IInv /\ (Spoiled \/ Sound))
  BY <1>2, SoundStep, UpdateInvariant, PTL DEF Spec
<1>4. (IInv /\ (Spoiled \/ Sound)) /\ (IInv /\ (Spoiled \/ Sound))' /\ [Next]_vars
         => [Installed!Next]_(Installed!vars)
  <2> SUFFICES ASSUME IInv, IInv', Spoiled \/ Sound, (Spoiled \/ Sound)', [Next]_vars
               PROVE  [Installed!Next]_(Installed!vars)
    OBVIOUS
  <2>1. CASE Spoiled'
    BY <2>1 DEF Installed!Next
  <2>2. (IInv /\ Sound /\ ~Spoiled => Shown)'
    BY ShownHolds, PTL
  <2>3. CASE ~Spoiled'
    <3>1. ~Spoiled /\ Sound /\ Sound'
      BY <2>3, SpoiledStays DEF IInv
    <3>2. Shown /\ Shown'
      BY <2>2, <2>3, <3>1, ShownHolds
    <3> QED
      BY <2>3, <3>1, <3>2, SeenNext
  <2> QED
    BY <2>1, <2>3
<1> QED
  BY <1>1, <1>3, <1>4, PTL DEF Spec, OneRelease, Installed!Spec

=============================================================================
