--------------------------- MODULE AgentJobs_proofs ---------------------------
(***************************************************************************)
(* Theorems about AgentJobs, for any set of jobs and any number of faults: *)
(* every safety property that its runs check, type correctness among them, *)
(* and that AgentJobs implements JobLedger.                                *)
(*                                                                         *)
(* The invariant has four layers. Control is about the threads alone: who  *)
(* is in the write chain, which of them serves a job, which holds a        *)
(* result. Records relates the three copies of the job table (in memory,   *)
(* being written, on disk) to the threads and to the history. Answers      *)
(* follows a result from the copies through the posts and frames that      *)
(* carry it to the hub. Closed is about the jobs whose result the hub has. *)
(***************************************************************************)
EXTENDS AgentJobs, TLAPS

\* The order in which a job's status moves.
Rank(s) == CASE s = "absent"         -> 0
             [] s = "claimed"        -> 1
             [] s = "running"        -> 2
             [] s = "result_pending" -> 3
             [] s = "finished"       -> 4

\* A thread that has claimed a job and not yet recorded a result.
Busy == {"w_claim", "authorizing", "starting", "w_running", "ready", "executing"}

-----------------------------------------------------------------------------
(* Layer 1: the threads.                                                   *)

\* The chain holds threads that await a write, each once.
QueueWaits ==
    /\ \A i \in 1..Len(queue) : pc[queue[i]] \in WaitingPc
    /\ \A i, k \in 1..Len(queue) : i # k => queue[i] # queue[k]

WriteHasOwner == writing => queue # <<>>

BusyHasJob == \A t \in Workers : pc[t] \in Busy => JobOf(t) \in Jobs

AnswerHasResult ==
    /\ \A t \in Workers : pc[t] \in {"w_result", "respond"} => result[t] # NoResult
    /\ pc[Http] \in {"posting", "posted"} => httpJob \in Jobs /\ result[Http] # NoResult

\* A process that is down left nothing behind but the state file.
DownIsClean ==
    ~up => /\ pc = AllIdle
           /\ queue = <<>>
           /\ ~writing
           /\ tmpFile = stateFile
           /\ todo = NothingTodo

Control == /\ TypeOK
           /\ QueueWaits
           /\ WriteHasOwner
           /\ BusyHasJob
           /\ AnswerHasResult
           /\ DownIsClean

-----------------------------------------------------------------------------
(* Layer 2: the records.                                                   *)

Behind(a, b) == \A j \in Jobs : Rank(a.jobs[j]) <= Rank(b.jobs[j])

CopiesInOrder == Behind(stateFile, tmpFile) /\ Behind(tmpFile, state)

PendingIff(s) ==
    \A j \in Jobs : s.jobs[j] = "result_pending" <=> s.pendingResults[j] # NoResult

PendingAgrees == PendingIff(state) /\ PendingIff(tmpFile) /\ PendingIff(stateFile)

\* What the record and the history of a busy thread's job are.
Holds(t, j) ==
    /\ pc[t] \in {"w_claim", "authorizing", "starting"} =>
          state.jobs[j] = "claimed" /\ runs[j] = 0
    /\ pc[t] = "w_running" => state.jobs[j] = "running" /\ runs[j] = 0
    /\ pc[t] = "ready" =>
          /\ state.jobs[j] \in {"claimed", "running"}
          /\ runs[j] = 0
          /\ result[t] = NoResult => stateFile.jobs[j] = "running"
    /\ pc[t] = "executing" => state.jobs[j] = "running"

BusyHolds == \A t \in Workers : Holds(t, JobOf(t))

\* No two threads work on the same job.
BusyApart ==
    \A t, u \in Workers :
        t # u /\ pc[t] \in Busy /\ pc[u] \in Busy => JobOf(t) # JobOf(u)

\* What a flush has taken is no longer anybody's work.
FlushHolds ==
    /\ \A j \in Jobs : todo[j] # NoResult => Rank(state.jobs[j]) >= 3
    /\ pc[Http] \in {"posting", "posted"} => Rank(state.jobs[httpJob]) >= 3

\* The write a thread awaits before the spawn carries its "running".
WriteCarriesRunning ==
    writing =>
        LET t == Head(queue) IN
        t \in Workers /\ pc[t] = "w_running" => tmpFile.jobs[JobOf(t)] = "running"

RunsRecorded ==
    \A j \in Jobs : /\ runs[j] <= 1
                    /\ runs[j] > 0 => Rank(stateFile.jobs[j]) >= 2

Records == /\ CopiesInOrder
           /\ PendingAgrees
           /\ BusyHolds
           /\ BusyApart
           /\ FlushHolds
           /\ WriteCarriesRunning
           /\ RunsRecorded

-----------------------------------------------------------------------------
(* Layer 3: the answers.                                                   *)

\* While main waits for the write of the marked state, nothing else has begun.
BootFirst ==
    /\ ~up => state = stateFile /\ session = "down"
    /\ pc[Main] # "idle" =>
          /\ pc[Main] = "w_boot"
          /\ \A t \in Thread : t # Main => pc[t] = "idle"
          /\ session = "down"
          /\ writing => tmpFile = state

Copies == {state, tmpFile, stateFile}

Free(j) == \A t \in Workers : pc[t] \in Busy => JobOf(t) # j

\* Where a thread holds a result that the hub may get from it.
Telling == {"w_result", "respond", "posting", "posted"}

\* A result is recorded in a copy of the state, or has left it for the hub.
Kept(j, r) == \E c \in Copies : c.pendingResults[j] = r

Sent(j, r) ==
    \/ todo[j] = r
    \/ <<j, r>> \in wire
    \/ r \in hubResults[j]
    \/ \E t \in Workers : pc[t] \in Telling /\ JobOf(t) = j /\ result[t] = r

Known(j, r) == Kept(j, r) \/ Sent(j, r)

OutputRan == \A j \in Jobs : Known(j, "output") => runs[j] > 0

DeniedStays ==
    \A j \in Jobs : Known(j, "denied") =>
        runs[j] = 0 /\ Free(j) /\ Rank(stateFile.jobs[j]) >= 1

InterruptedStays ==
    \A j \in Jobs : Known(j, "interrupted") =>
        j \in announced /\ Free(j) /\ ~Kept(j, "output")

\* A restart is only told once it is recorded.
InterruptedRecorded ==
    \A j \in Jobs :
        /\ Sent(j, "interrupted") => Rank(stateFile.jobs[j]) >= 3
        /\ pc[Main] = "idle" /\ state.pendingResults[j] = "interrupted"
              => Rank(stateFile.jobs[j]) >= 3

RunningAnnounced ==
    \A j \in Jobs, c \in Copies : c.jobs[j] = "running" => j \in announced

ExecutingRan == \A t \in Workers : pc[t] = "executing" => runs[JobOf(t)] > 0

\* From the claim on, the claim is on disk.
ClaimRecorded ==
    /\ \A t \in Workers : pc[t] \in Busy \ {"w_claim"} =>
          Rank(stateFile.jobs[JobOf(t)]) >= 1
    /\ writing =>
          LET t == Head(queue) IN
          t \in Workers /\ pc[t] = "w_claim" => Rank(tmpFile.jobs[JobOf(t)]) >= 1

Answers == /\ BootFirst
           /\ OutputRan
           /\ DeniedStays
           /\ InterruptedStays
           /\ InterruptedRecorded
           /\ RunningAnnounced
           /\ ExecutingRan
           /\ ClaimRecorded

-----------------------------------------------------------------------------
(* Layer 4: the jobs that are closed.                                      *)

PostedReached == pc[Http] = "posted" => result[Http] \in hubResults[httpJob]

FinishedTold == \A j \in Jobs, c \in Copies : c.jobs[j] = "finished" => hubResults[j] # {}

\* A thread that has closed a job.
Closing == {"w_sent", "sent", "w_ack", "acked"}

ClosedBy(t, j) ==
    /\ j \in Jobs
    /\ state.jobs[j] = "finished"
    /\ result[t] = "output" => "output" \in hubResults[j]
    /\ pc[t] \in {"sent", "acked"} => stateFile.jobs[j] = "finished"

TellersClose == \A t \in Tellers : pc[t] \in Closing => ClosedBy(t, JobOf(t))

WriteCarriesFinished ==
    writing =>
        LET t == Head(queue) IN
        t \in Tellers /\ pc[t] \in Closing => tmpFile.jobs[JobOf(t)] = "finished"

Closed == /\ PostedReached
          /\ FinishedTold
          /\ TellersClose
          /\ WriteCarriesFinished
          /\ ActivatedAfterAck

-----------------------------------------------------------------------------
(* Facts about the operators the model is built from.                      *)

\* The threads are what their names say, and no two of them are the same.
LEMMA ThreadFacts ==
    /\ Http \in Thread /\ Telemetry \in Thread /\ Main \in Thread
    /\ Http # Telemetry /\ Http # Main /\ Telemetry # Main
    /\ \A t \in SessionJobs : /\ t \in Thread /\ t \in Workers
                              /\ t \notin {Http, Telemetry, Main}
                              /\ t[2] \in Jobs /\ t = SessionJob(t[2])
    /\ \A t \in AckJobs : /\ t \in Thread /\ t \in Tellers
                          /\ t \notin {Http, Telemetry, Main}
                          /\ t \notin SessionJobs
                          /\ t[2] \in Jobs /\ t = AckJob(t[2])
    /\ \A j \in Jobs : /\ SessionJob(j) \in SessionJobs /\ SessionJob(j)[2] = j
                       /\ AckJob(j) \in AckJobs /\ AckJob(j)[2] = j
    /\ Http \in Workers /\ Http \in Tellers
    /\ \A t \in Workers : t = Http \/ t \in SessionJobs
    /\ \A t \in Tellers : t = Http \/ t \in AckJobs
BY DEF Http, Telemetry, Main, Thread, Loops, SessionJobs, AckJobs, SessionJob,
       AckJob, Workers, Tellers

\* What WithJob changes, and that it is a state again.
LEMMA WithJobFacts ==
    ASSUME NEW s \in AgentState, NEW j, NEW status \in JobStatus,
           NEW pending \in Result \cup {NoResult}
    PROVE  /\ WithJob(s, j, status, pending) \in AgentState
           /\ WithJob(s, j, status, pending).jobs = [s.jobs EXCEPT ![j] = status]
           /\ WithJob(s, j, status, pending).pendingResults
                  = [s.pendingResults EXCEPT ![j] = pending]
BY DEF WithJob, AgentState

LEMMA WithJobFields ==
    \A s \in AgentState : \A j, status, pending :
        /\ WithJob(s, j, status, pending).jobs = [s.jobs EXCEPT ![j] = status]
        /\ WithJob(s, j, status, pending).pendingResults
               = [s.pendingResults EXCEPT ![j] = pending]
BY DEF WithJob, AgentState

\* markInterruptedJobs turns a state into a state.
LEMMA MarkFacts ==
    ASSUME NEW s \in AgentState
    PROVE  markInterruptedJobs(s) \in AgentState
BY DEF markInterruptedJobs, AgentState, JobStatus, Result

-----------------------------------------------------------------------------
(* Layer 1 is inductive.                                                   *)

USE DEF fileVars, httpVars, linkVars, pastVars, faults

\* The values that the start and the death of the process give.
LEMMA CleanFacts ==
    /\ freshState \in AgentState
    /\ AllIdle \in [Thread -> Pc]
    /\ NoResults \in [Thread -> Result \cup {NoResult}]
    /\ NothingTodo \in [Jobs -> Result \cup {NoResult}]
    /\ \A t \in Thread : AllIdle[t] = "idle"
    /\ <<>> \in Seq(Thread)
<1>1. freshState \in AgentState
  BY DEF freshState, AgentState, JobStatus
<1>2. /\ AllIdle \in [Thread -> Pc]
      /\ \A t \in Thread : AllIdle[t] = "idle"
  BY DEF AllIdle, Pc
<1>3. /\ NoResults \in [Thread -> Result \cup {NoResult}]
      /\ NothingTodo \in [Jobs -> Result \cup {NoResult}]
  BY DEF NoResults, NothingTodo
<1>4. QED
  BY <1>1, <1>2, <1>3

LEMMA ControlInit == Init => Control
<1> SUFFICES ASSUME Init PROVE Control
  OBVIOUS
<1>2. TypeOK
  BY CleanFacts DEF Init, TypeOK
<1>3. QueueWaits /\ WriteHasOwner /\ DownIsClean
  BY DEF Init, QueueWaits, WriteHasOwner, DownIsClean
<1>4. BusyHasJob /\ AnswerHasResult
  BY ThreadFacts DEF Init, BusyHasJob, AnswerHasResult, AllIdle, Busy
<1>5. QED
  BY <1>2, <1>3, <1>4 DEF Control

\* The death of the process.
LEMMA ControlDies ==
    ASSUME Control, ProcessDies, kills' \in Nat, writeFaults' \in Nat
    PROVE  Control'
<1>1. TypeOK'
  BY CleanFacts DEF Control, TypeOK, ProcessDies
<1>2. QueueWaits' /\ WriteHasOwner' /\ DownIsClean'
  BY DEF ProcessDies, QueueWaits, WriteHasOwner, DownIsClean
<1>3. BusyHasJob' /\ AnswerHasResult'
  BY ThreadFacts DEF ProcessDies, BusyHasJob, AnswerHasResult, AllIdle, Busy
<1>4. QED
  BY <1>1, <1>2, <1>3 DEF Control

\* A thread enters the chain of writes.
LEMMA EnqueueFacts ==
    ASSUME Control, NEW t \in Thread, NEW s, NEW wait \in WaitingPc,
           pc[t] \notin WaitingPc, WriteState(t, s, wait)
    PROVE  /\ queue' \in Seq(Thread) /\ queue' # <<>>
           /\ queue # <<>> => Head(queue') = Head(queue)
           /\ queue = <<>> => Head(queue') = t
           /\ QueueWaits'
           /\ state' = s
           /\ pc' = [pc EXCEPT ![t] = wait] /\ pc' \in [Thread -> Pc]
<1>1. queue \in Seq(Thread) /\ pc \in [Thread -> Pc] /\ WaitingPc \subseteq Pc
  BY DEF Control, TypeOK, Pc
<1>2. queue' = Append(queue, t) /\ pc' = [pc EXCEPT ![t] = wait] /\ state' = s
  BY DEF WriteState
<1>3. queue' \in Seq(Thread) /\ queue' # <<>> /\ pc' \in [Thread -> Pc]
  BY <1>1, <1>2
<1>4. QueueWaits'
  BY <1>1, <1>2 DEF Control, QueueWaits
<1>5. QED
  BY <1>1, <1>2, <1>3, <1>4

\* A step that leaves the chain alone and moves no waiting thread.
LEMMA QueueKept ==
    ASSUME Control, UNCHANGED <<queue, writing>>,
           \A t \in Thread : pc[t] \in WaitingPc => pc'[t] \in WaitingPc
    PROVE  QueueWaits' /\ WriteHasOwner'
<1>1. \A i \in 1..Len(queue) : queue[i] \in Thread
  BY DEF Control, TypeOK
<1>2. QED
  BY <1>1 DEF Control, QueueWaits, WriteHasOwner

\* Nothing runs in a process that is down.
LEMMA BusyMeansUp ==
    ASSUME Control, NEW t \in Thread, pc[t] # "idle"
    PROVE  up
BY CleanFacts DEF Control, DownIsClean

\* The HTTP loop ends its cycle.
LEMMA ControlEndCycle ==
    ASSUME Control, EndCycle, pc[Http] \notin WaitingPc, pc[Http] # "idle",
           UNCHANGED <<up, state, fileVars, queue, linkVars, exiting, pastVars,
                       faults>>
    PROVE  Control'
<1>1. TypeOK'
  BY ThreadFacts, CleanFacts DEF Control, TypeOK, EndCycle, Pc
<1>2. QueueWaits' /\ WriteHasOwner'
  BY QueueKept, ThreadFacts DEF Control, TypeOK, EndCycle
<1>3. BusyHasJob' /\ AnswerHasResult'
  BY ThreadFacts DEF Control, TypeOK, EndCycle, BusyHasJob, AnswerHasResult,
                     Busy, JobOf
<1>4. DownIsClean'
  BY BusyMeansUp, ThreadFacts DEF DownIsClean
<1>5. QED
  BY <1>1, <1>2, <1>3, <1>4 DEF Control

\* A thread mutates the state and awaits its write.
LEMMA ControlWrite ==
    ASSUME Control, NEW t \in Thread, NEW s \in AgentState, NEW wait \in WaitingPc,
           pc[t] \notin WaitingPc, up, WriteState(t, s, wait),
           UNCHANGED <<up, fileVars, session, wire, exiting>>,
           sockets' \subseteq SessionJobs,
           httpJob' \in Jobs \cup {NoJob},
           t # Http => httpJob' = httpJob,
           todo' = todo, afterFlush' = afterFlush,
           result' \in [Thread -> Result \cup {NoResult}],
           \A u \in Thread : u # t => result'[u] = result[u],
           wait \in Busy /\ t \in Workers => JobOf(t)' \in Jobs,
           wait = "w_result" => result'[t] # NoResult,
           runs' \in [Jobs -> Nat], announced' \subseteq Jobs,
           hubResults' \in [Jobs -> SUBSET Result],
           activations' \in [Jobs -> Nat],
           kills' \in Nat, writeFaults' \in Nat
    PROVE  Control'
<1>1. /\ queue' \in Seq(Thread) /\ queue' # <<>> /\ QueueWaits' /\ state' = s
      /\ pc' = [pc EXCEPT ![t] = wait] /\ pc' \in [Thread -> Pc]
  BY EnqueueFacts
<1>2. TypeOK'
  BY <1>1 DEF Control, TypeOK
<1>3. WriteHasOwner' /\ DownIsClean'
  BY <1>1 DEF WriteHasOwner, DownIsClean
<1>4. BusyHasJob'
  BY <1>1, ThreadFacts DEF Control, TypeOK, BusyHasJob, JobOf
<1>5. AnswerHasResult'
  BY <1>1, ThreadFacts DEF Control, TypeOK, AnswerHasResult, WaitingPc
<1>6. QED
  BY <1>1, <1>2, <1>3, <1>4, <1>5 DEF Control

LEMMA ControlDisk == Control /\ Disk => Control'
<1> SUFFICES ASSUME Control, Disk PROVE Control'
  OBVIOUS
<1>1. CASE PersistStart
  <2>1. TypeOK' /\ QueueWaits' /\ WriteHasOwner'
    BY <1>1 DEF Control, TypeOK, PersistStart, QueueWaits, WriteHasOwner
  <2>2. BusyHasJob' /\ AnswerHasResult'
    BY <1>1 DEF Control, PersistStart, BusyHasJob, AnswerHasResult, JobOf
  <2>3. DownIsClean'
    BY <1>1 DEF Control, PersistStart, DownIsClean
  <2>4. QED
    BY <2>1, <2>2, <2>3 DEF Control
<1>2. CASE PersistDone
  <2> DEFINE h == Head(queue)
  <2>1. /\ queue \in Seq(Thread) /\ queue # <<>> /\ writing /\ up
        /\ pc \in [Thread -> Pc]
    BY <1>2 DEF Control, TypeOK, WriteHasOwner, PersistDone, DownIsClean
  <2>2. h \in Thread /\ queue' = Tail(queue) /\ queue' \in Seq(Thread)
    BY <1>2, <2>1 DEF PersistDone
  <2>3. /\ pc' = [pc EXCEPT ![h] = Resumed(pc[h])]
        /\ Resumed(pc[h]) \in Pc
    BY <1>2 DEF PersistDone, Resumed, Pc
  <2>4. pc[h] \in WaitingPc
    BY <2>1 DEF Control, QueueWaits
  <2>5. TypeOK'
    BY <1>2, <2>1, <2>2, <2>3 DEF Control, TypeOK, PersistDone
  <2>6. QueueWaits'
    BY <2>1, <2>2, <2>3 DEF Control, QueueWaits
  <2>7. WriteHasOwner' /\ DownIsClean'
    BY <1>2, <2>1 DEF PersistDone, WriteHasOwner, DownIsClean
  <2>8. BusyHasJob'
    BY <1>2, <2>1, <2>2, <2>3, <2>4, ThreadFacts
       DEF Control, PersistDone, BusyHasJob, JobOf, Busy, Resumed, WaitingPc
  <2>9. AnswerHasResult'
    BY <1>2, <2>1, <2>2, <2>3, <2>4, ThreadFacts
       DEF Control, PersistDone, AnswerHasResult, Resumed, WaitingPc
  <2>10. QED
    BY <2>5, <2>6, <2>7, <2>8, <2>9 DEF Control
<1>3. CASE PersistFails
  <2>1. kills' \in Nat /\ writeFaults' \in Nat
    BY <1>3 DEF PersistFails, Control, TypeOK
  <2>2. CASE ProcessDies
    BY <2>1, <2>2, ControlDies
  <2>3. CASE ~ProcessDies
    <3> DEFINE h == Head(queue)
    <3>1. /\ h \in {Http, Telemetry}
          /\ writing' = FALSE /\ tmpFile' = stateFile /\ queue' = Tail(queue)
          /\ stateFile' = stateFile
          /\ UNCHANGED <<up, state, linkVars, exiting, pastVars>>
          /\ IF h = Http
             THEN EndCycle
             ELSE /\ pc' = [pc EXCEPT ![h] = "idle"]
                  /\ UNCHANGED <<result, httpVars>>
      BY <1>3, <2>3 DEF PersistFails, Rejects
    <3>2. queue \in Seq(Thread) /\ queue # <<>> /\ up /\ pc \in [Thread -> Pc]
      BY <1>3 DEF Control, TypeOK, WriteHasOwner, PersistFails, DownIsClean
    <3>3. /\ pc' = [pc EXCEPT ![h] = "idle"]
          /\ h = Http => httpJob' = NoJob
          /\ httpJob' \in Jobs \cup {NoJob}
          /\ todo' \in [Jobs -> Result \cup {NoResult}]
          /\ afterFlush' \in {"claim", "sleep"}
          /\ result' \in [Thread -> Result \cup {NoResult}]
      BY <3>1, CleanFacts DEF EndCycle, Control, TypeOK
    <3>4. queue' \in Seq(Thread) /\ h \in Thread
      BY <3>1, <3>2
    <3>5. TypeOK'
      BY <2>1, <3>1, <3>2, <3>3, <3>4 DEF Control, TypeOK, Pc
    <3>6. QueueWaits'
      BY <3>1, <3>2, <3>3 DEF Control, QueueWaits
    <3>7. WriteHasOwner' /\ DownIsClean'
      BY <3>1, <3>2 DEF WriteHasOwner, DownIsClean
    <3>8. BusyHasJob' /\ AnswerHasResult'
      BY <3>1, <3>2, <3>3, <3>4, ThreadFacts
         DEF Control, TypeOK, EndCycle, BusyHasJob, AnswerHasResult, JobOf, Busy
    <3>9. QED
      BY <3>5, <3>6, <3>7, <3>8 DEF Control
  <2>4. QED
    BY <2>2, <2>3
<1>4. CASE TelemetryWrite
  <2>1. "w_other" \in WaitingPc /\ "w_other" \notin Busy /\ "idle" \notin WaitingPc
    BY DEF WaitingPc, Busy
  <2>2. /\ Telemetry \in Thread /\ Telemetry # Http /\ Telemetry \notin Workers
        /\ state \in AgentState /\ up /\ pc[Telemetry] \notin WaitingPc
    BY <1>4, <2>1, ThreadFacts DEF Control, TypeOK, TelemetryWrite, Serving
  <2>3. /\ WriteState(Telemetry, state, "w_other")
        /\ UNCHANGED <<up, fileVars, result, httpVars, linkVars, exiting,
                       pastVars, faults>>
    BY <1>4 DEF TelemetryWrite
  <2>4. QED
    BY <2>1, <2>2, <2>3, ControlWrite DEF Control, TypeOK
<1>5. QED
  BY <1>1, <1>2, <1>3, <1>4 DEF Disk

LEMMA ControlProcess == Control /\ Process => Control'
<1> SUFFICES ASSUME Control, Process PROVE Control'
  OBVIOUS
<1>1. CASE Boot
  <2> DEFINE s == markInterruptedJobs(stateFile)
  <2>1. s \in AgentState /\ pc = AllIdle /\ queue = <<>> /\ ~writing
        /\ pc[Main] = "idle" /\ todo = NothingTodo
    BY <1>1, MarkFacts, ThreadFacts, CleanFacts
       DEF Boot, Control, TypeOK, DownIsClean
  <2>2. CASE s # stateFile
    <3>1. WriteState(Main, s, "w_boot") /\ up'
      BY <1>1, <2>2 DEF Boot
    <3>2. "w_boot" \in WaitingPc /\ "w_boot" \in Pc
      BY DEF WaitingPc, Pc
    <3>3. /\ queue' = <<Main>> /\ state' = s
          /\ pc' = [pc EXCEPT ![Main] = "w_boot"]
      BY <2>1, <3>1 DEF WriteState
    <3>4. TypeOK'
      BY <1>1, <2>1, <3>2, <3>3, ThreadFacts DEF Boot, Control, TypeOK
    <3>5. QueueWaits' /\ WriteHasOwner' /\ DownIsClean'
      BY <1>1, <2>1, <3>1, <3>2, <3>3, ThreadFacts
         DEF Boot, Control, TypeOK, QueueWaits, WriteHasOwner, DownIsClean
    <3>6. BusyHasJob' /\ AnswerHasResult'
      BY <1>1, <2>1, <3>3, ThreadFacts, CleanFacts
         DEF Boot, Control, TypeOK, BusyHasJob, AnswerHasResult, JobOf, Busy
    <3>7. QED
      BY <3>4, <3>5, <3>6 DEF Control
  <2>3. CASE s = stateFile
    BY <1>1, <2>1, <2>3
       DEF Boot, Control, TypeOK, QueueWaits, WriteHasOwner, DownIsClean,
           BusyHasJob, AnswerHasResult, JobOf
  <2>4. QED
    BY <2>2, <2>3
<1>2. CASE Kill
  BY <1>2, ControlDies DEF Kill, Control, TypeOK
<1>3. CASE ExitForUpdate
  BY <1>3, ControlDies DEF ExitForUpdate, Control, TypeOK
<1>4. QED
  BY <1>1, <1>2, <1>3 DEF Process

\* The HTTP loop takes the pending results it will post.
LEMMA ControlBeginFlush ==
    ASSUME Control, NEW next \in {"claim", "sleep"}, BeginFlush(next), up,
           pc[Http] \notin WaitingPc,
           UNCHANGED <<up, state, fileVars, queue, linkVars, exiting, pastVars,
                       faults>>
    PROVE  Control'
<1>1. TypeOK'
  BY ThreadFacts DEF Control, TypeOK, BeginFlush, Pc, AgentState
<1>2. QueueWaits' /\ WriteHasOwner'
  BY QueueKept, ThreadFacts DEF Control, TypeOK, BeginFlush
<1>3. BusyHasJob' /\ AnswerHasResult' /\ DownIsClean'
  BY ThreadFacts DEF Control, TypeOK, BeginFlush, BusyHasJob, AnswerHasResult,
                     DownIsClean, Busy, JobOf
<1>4. QED
  BY <1>1, <1>2, <1>3 DEF Control

LEMMA ControlFlush == Control /\ Flush => Control'
<1> SUFFICES ASSUME Control, Flush PROVE Control'
  OBVIOUS
<1> USE ThreadFacts
<1>1. CASE Poll
  BY <1>1, ControlBeginFlush DEF Poll, Serving, WaitingPc
<1>2. CASE FlushDone
  <2>1. CASE afterFlush = "claim"
    <3>1. TypeOK'
      BY ZenonT(30), <1>2, <2>1 DEF Control, TypeOK, FlushDone, Pc
    <3>2. QueueWaits' /\ WriteHasOwner'
      BY <1>2, <2>1, QueueKept DEF Control, TypeOK, FlushDone, WaitingPc
    <3>3. BusyHasJob' /\ AnswerHasResult' /\ DownIsClean'
      BY <1>2, <2>1, BusyMeansUp
         DEF Control, TypeOK, FlushDone, BusyHasJob, AnswerHasResult,
             DownIsClean, Busy, JobOf
    <3>4. QED
      BY <3>1, <3>2, <3>3 DEF Control
  <2>2. CASE afterFlush # "claim"
    BY <1>2, <2>2, ControlEndCycle DEF FlushDone, WaitingPc
  <2>3. QED
    BY <2>1, <2>2
<1>3. CASE PostReachesHub
  <2>1. TypeOK'
    BY <1>3 DEF Control, TypeOK, AnswerHasResult, PostReachesHub, Pc
  <2>2. QueueWaits' /\ WriteHasOwner'
    BY <1>3, QueueKept DEF Control, TypeOK, PostReachesHub, WaitingPc
  <2>3. BusyHasJob' /\ AnswerHasResult' /\ DownIsClean'
    BY <1>3, BusyMeansUp
       DEF Control, TypeOK, PostReachesHub, BusyHasJob, AnswerHasResult,
           DownIsClean, Busy, JobOf
  <2>4. QED
    BY <2>1, <2>2, <2>3 DEF Control
<1>4. CASE PostFails
  BY <1>4, ControlEndCycle DEF PostFails, WaitingPc
<1>5. CASE PostConfirmed
  <2> DEFINE s == WithJob(state, httpJob, "finished", NoResult)
  <2>1. s \in AgentState /\ up /\ pc[Http] \notin WaitingPc
    BY <1>5, WithJobFacts, BusyMeansUp
       DEF PostConfirmed, Control, TypeOK, JobStatus, WaitingPc
  <2>2. "w_sent" \in WaitingPc /\ "w_sent" \notin Busy
    BY DEF WaitingPc, Busy
  <2>3. /\ WriteState(Http, s, "w_sent")
        /\ UNCHANGED <<up, fileVars, result, httpVars, linkVars, exiting,
                       pastVars, faults>>
    BY <1>5 DEF PostConfirmed
  <2>4. QED
    BY <2>1, <2>2, <2>3, ControlWrite DEF Control, TypeOK
<1>6. CASE \E j \in Jobs : PostResult(j)
  <2> PICK j \in Jobs : PostResult(j)
    BY <1>6
  <2>1. TypeOK'
    BY DEF Control, TypeOK, PostResult, Pc
  <2>2. QueueWaits' /\ WriteHasOwner'
    BY QueueKept DEF Control, TypeOK, PostResult, WaitingPc
  <2>3. BusyHasJob' /\ AnswerHasResult' /\ DownIsClean'
    BY BusyMeansUp
       DEF Control, TypeOK, PostResult, BusyHasJob, AnswerHasResult,
           DownIsClean, Busy, JobOf
  <2>4. QED
    BY <2>1, <2>2, <2>3 DEF Control
<1>7. QED
  BY <1>1, <1>2, <1>3, <1>4, <1>5, <1>6 DEF Flush

LEMMA ControlArrive == Control /\ Arrive => Control'
<1> SUFFICES ASSUME Control, Arrive PROVE Control'
  OBVIOUS
<1> USE ThreadFacts
<1>0. "w_claim" \in WaitingPc /\ "claiming" \notin WaitingPc
      /\ "idle" \notin WaitingPc /\ "claimed" \in JobStatus
      /\ NoResult \in Result \cup {NoResult}
  BY DEF WaitingPc, JobStatus
<1>1. CASE ClaimNothing
  BY <1>0, <1>1, ControlEndCycle DEF ClaimNothing
<1>2. ASSUME NEW j \in Jobs, ClaimDuplicate(j) PROVE Control'
  BY <1>0, <1>2, ControlEndCycle DEF ClaimDuplicate
<1>3. ASSUME NEW j \in Jobs, ClaimJob(j) PROVE Control'
  <2> DEFINE s == WithJob(state, j, "claimed", state.pendingResults[j])
  <2>1. state.pendingResults[j] \in Result \cup {NoResult} /\ state \in AgentState
    BY DEF Control, TypeOK, AgentState
  <2>2. s \in AgentState /\ up /\ pc[Http] \notin WaitingPc
    BY <1>0, <1>3, <2>1, WithJobFacts, BusyMeansUp DEF ClaimJob
  <2>3. /\ WriteState(Http, s, "w_claim") /\ httpJob' = j
        /\ UNCHANGED <<up, fileVars, result, todo, afterFlush, linkVars,
                       exiting, pastVars, faults>>
    BY <1>3 DEF ClaimJob
  <2>4. JobOf(Http)' \in Jobs
    BY <2>3 DEF JobOf
  <2>5. QED
    <3> HIDE DEF s
    <3>1. /\ sockets' \subseteq SessionJobs
          /\ httpJob' \in Jobs \cup {NoJob}
          /\ todo' = todo /\ afterFlush' = afterFlush
          /\ result' \in [Thread -> Result \cup {NoResult}]
          /\ runs' \in [Jobs -> Nat] /\ announced' \subseteq Jobs
          /\ hubResults' \in [Jobs -> SUBSET Result]
          /\ activations' \in [Jobs -> Nat]
          /\ kills' \in Nat /\ writeFaults' \in Nat
      BY <2>3 DEF Control, TypeOK
    <3>2. QED
      BY <1>0, <2>2, <2>3, <2>4, <3>1, ControlWrite
<1>4. ASSUME NEW j \in Jobs, SessionRequest(j) PROVE Control'
  <2> DEFINE t == SessionJob(j)
             s == WithJob(state, j, "claimed", NoResult)
  <2>1. s \in AgentState /\ up /\ pc[t] \notin WaitingPc /\ t \in Thread /\ t # Http
    BY <1>0, <1>4, WithJobFacts DEF SessionRequest, Serving, Control, TypeOK
  <2>2. /\ WriteState(t, s, "w_claim")
        /\ UNCHANGED <<up, fileVars, result, httpVars, session, wire, exiting,
                       pastVars, faults>>
        /\ sockets' = sockets \cup {t}
    BY <1>4 DEF SessionRequest
  <2>3. JobOf(t)' \in Jobs
    BY <2>1 DEF JobOf
  <2>4. QED
    <3> HIDE DEF s, t
    <3>1. /\ sockets' \subseteq SessionJobs
          /\ httpJob' \in Jobs \cup {NoJob} /\ httpJob' = httpJob
          /\ todo' = todo /\ afterFlush' = afterFlush
          /\ result' \in [Thread -> Result \cup {NoResult}]
          /\ runs' \in [Jobs -> Nat] /\ announced' \subseteq Jobs
          /\ hubResults' \in [Jobs -> SUBSET Result]
          /\ activations' \in [Jobs -> Nat]
          /\ kills' \in Nat /\ writeFaults' \in Nat
      BY <2>2 DEF Control, TypeOK, t
    <3>2. QED
      BY <1>0, <2>1, <2>2, <2>3, <3>1, ControlWrite
<1>5. ASSUME NEW j \in Jobs, SessionRequestAgain(j) PROVE Control'
  <2>1. TypeOK'
    BY <1>5 DEF Control, TypeOK, SessionRequestAgain, AgentState
  <2>2. QED
    BY <1>5, <2>1
       DEF Control, SessionRequestAgain, QueueWaits, WriteHasOwner, BusyHasJob,
           AnswerHasResult, DownIsClean, JobOf
<1>6. QED
  BY <1>1, <1>2, <1>3, <1>4, <1>5 DEF Arrive

\* A thread moves between two points at which it awaits no write.
LEMMA ControlMove ==
    ASSUME Control, NEW t \in Thread, NEW to \in Pc,
           pc[t] \notin WaitingPc, pc[t] # "idle", to \notin WaitingPc,
           pc' = [pc EXCEPT ![t] = to],
           to \in Busy => pc[t] \in Busy,
           to \notin {"respond", "posting", "posted"},
           result' \in [Thread -> Result \cup {NoResult}],
           \A u \in Thread : u # t => result'[u] = result[u],
           UNCHANGED <<up, state, fileVars, queue, httpVars, session>>,
           sockets' \subseteq SessionJobs, wire' \subseteq Jobs \X Result,
           exiting' \in BOOLEAN,
           runs' \in [Jobs -> Nat], announced' \subseteq Jobs,
           hubResults' \in [Jobs -> SUBSET Result],
           activations' \in [Jobs -> Nat],
           kills' \in Nat, writeFaults' \in Nat
    PROVE  Control'
<1>1. TypeOK'
  BY DEF Control, TypeOK
<1>2. QueueWaits' /\ WriteHasOwner'
  BY QueueKept DEF Control, TypeOK
<1>3. BusyHasJob'
  BY ThreadFacts DEF Control, TypeOK, BusyHasJob, JobOf
<1>4. AnswerHasResult'
  BY ThreadFacts DEF Control, TypeOK, AnswerHasResult, WaitingPc
<1>5. DownIsClean'
  BY BusyMeansUp DEF DownIsClean
<1>6. QED
  BY <1>1, <1>2, <1>3, <1>4, <1>5 DEF Control

LEMMA WorkersAreThreads ==
    /\ Workers \subseteq Thread /\ Tellers \subseteq Thread
    /\ Http \in Workers
    /\ \A j \in Jobs : SessionJob(j) \in Workers /\ SessionJob(j) # Http
BY ThreadFacts

\* The start of a job is announced and its "running" is written.
LEMMA ControlMarkRunning ==
    ASSUME Control, NEW t \in Workers, MarkRunning(t),
           pc[t] \in {"starting", "authorizing"}
    PROVE  Control'
<1> DEFINE j == JobOf(t)
           s == WithJob(state, j, "running", state.pendingResults[j])
<1>1. j \in Jobs /\ up /\ t \in Thread /\ pc[t] \notin WaitingPc
  BY WorkersAreThreads, BusyMeansUp DEF Control, BusyHasJob, Busy, WaitingPc
<1>2. s \in AgentState
  BY ZenonT(30), <1>1, WithJobFacts DEF Control, TypeOK, AgentState, JobStatus
<1>3. /\ WriteState(t, s, "w_running") /\ announced' = announced \cup {j}
      /\ UNCHANGED <<up, fileVars, result, httpVars, linkVars, exiting, runs,
                     hubResults, activations, faults>>
  BY DEF MarkRunning
<1>4. "w_running" \in WaitingPc /\ JobOf(t)' \in Jobs
  BY <1>1, <1>3 DEF WaitingPc, JobOf
<1> HIDE DEF s, j
<1>5. /\ sockets' \subseteq SessionJobs
      /\ httpJob' \in Jobs \cup {NoJob} /\ httpJob' = httpJob
      /\ todo' = todo /\ afterFlush' = afterFlush
      /\ result' \in [Thread -> Result \cup {NoResult}]
      /\ runs' \in [Jobs -> Nat] /\ announced' \subseteq Jobs
      /\ hubResults' \in [Jobs -> SUBSET Result]
      /\ activations' \in [Jobs -> Nat]
      /\ kills' \in Nat /\ writeFaults' \in Nat
  BY <1>1, <1>3 DEF Control, TypeOK
<1>6. QED
  BY <1>1, <1>2, <1>3, <1>4, <1>5, ControlWrite

LEMMA ControlBegin == Control /\ Begin => Control'
<1> SUFFICES ASSUME Control, Begin PROVE Control'
  OBVIOUS
<1> USE WorkersAreThreads
<1>0. /\ {"authorizing", "starting", "ready"} \subseteq Busy
      /\ {"authorizing", "starting", "ready"} \subseteq Pc
      /\ WaitingPc \cap {"authorizing", "starting", "ready"} = {}
  BY DEF Busy, Pc, WaitingPc
<1>1. CASE AllowHttp
  BY <1>0, <1>1, ControlMove DEF AllowHttp, Control, TypeOK
<1>2. CASE StartHttp
  BY <1>2, ControlMarkRunning DEF StartHttp
<1>3. CASE StartHttpFails
  BY <1>0, <1>3, ControlEndCycle DEF StartHttpFails
<1>4. ASSUME NEW j \in Jobs, AllowSession(j) PROVE Control'
  BY <1>4, ControlMarkRunning DEF AllowSession
<1>5. ASSUME NEW j \in Jobs, AllowSessionFails(j) PROVE Control'
  BY <1>5, ControlDies DEF AllowSessionFails, Control, TypeOK
<1>6. ASSUME NEW t \in Workers, Deny(t) PROVE Control'
  <2> DEFINE to == IF t = Http THEN "starting" ELSE "ready"
  <2>1. /\ pc[t] = "authorizing" /\ t \in Thread
        /\ pc' = [pc EXCEPT ![t] = to] /\ result' = [result EXCEPT ![t] = "denied"]
        /\ UNCHANGED <<up, state, fileVars, queue, httpVars, linkVars, exiting,
                       pastVars, faults>>
    BY <1>6 DEF Deny
  <2>2. result' \in [Thread -> Result \cup {NoResult}]
    BY <2>1 DEF Control, TypeOK, Result
  <2>3. to \in {"starting", "ready"}
    OBVIOUS
  <2> HIDE DEF to
  <2>4. QED
    BY <1>0, <2>1, <2>2, <2>3, ControlMove DEF Control, TypeOK
<1>7. QED
  BY <1>1, <1>2, <1>3, <1>4, <1>5, <1>6 DEF Begin

\* A loop that catches ends its cycle; anything else ends the process.
LEMMA ControlRejects ==
    ASSUME Control, NEW t \in Thread \ {Telemetry}, Rejects(t),
           pc[t] \notin WaitingPc, pc[t] # "idle",
           t = Http => UNCHANGED <<fileVars, queue>>, UNCHANGED faults
    PROVE  Control'
<1>1. CASE t = Http
  BY <1>1, ControlEndCycle DEF Rejects
<1>2. CASE t # Http
  BY <1>2, ControlDies DEF Rejects, Control, TypeOK
<1>3. QED
  BY <1>1, <1>2

\* A result is recorded.
LEMMA ControlRecordResult ==
    ASSUME Control, NEW t \in Workers, NEW r \in Result, RecordResult(t, r),
           pc[t] \in {"ready", "executing"}
    PROVE  Control'
<1> DEFINE j == JobOf(t)
           s == WithJob(state, j, "result_pending", r)
<1>1. j \in Jobs /\ up /\ t \in Thread /\ pc[t] \notin WaitingPc
  BY WorkersAreThreads, BusyMeansUp DEF Control, BusyHasJob, Busy, WaitingPc
<1>2. s \in AgentState
  BY <1>1, WithJobFacts DEF Control, TypeOK, AgentState, JobStatus
<1>3. /\ WriteState(t, s, "w_result") /\ result' = [result EXCEPT ![t] = r]
      /\ UNCHANGED <<up, fileVars, httpVars, linkVars, exiting, pastVars, faults>>
  BY DEF RecordResult
<1>4. "w_result" \in WaitingPc /\ "w_result" \notin Busy /\ NoResult \notin Result
  BY DEF WaitingPc, Busy, Result, NoResult
<1> HIDE DEF s, j
<1>5. /\ result' \in [Thread -> Result \cup {NoResult}]
      /\ result'[t] # NoResult
      /\ \A u \in Thread : u # t => result'[u] = result[u]
  BY <1>1, <1>3, <1>4 DEF Control, TypeOK
<1>6. QED
  BY <1>1, <1>2, <1>3, <1>4, <1>5, ControlWrite DEF Control, TypeOK

LEMMA ControlWork == Control /\ Work => Control'
<1> SUFFICES ASSUME Control, Work PROVE Control'
  OBVIOUS
<1> USE WorkersAreThreads
<1>0. /\ {"ready", "executing"} \subseteq Busy
      /\ {"executing", "idle"} \subseteq Pc
      /\ "idle" \notin Busy
      /\ WaitingPc \cap {"ready", "executing", "respond", "idle"} = {}
      /\ {"output", "denied"} \subseteq Result
  BY DEF Busy, Pc, WaitingPc, Result
<1>1. CASE RespondHttp
  BY <1>0, <1>1, ControlBeginFlush, BusyMeansUp DEF RespondHttp
<1>2. ASSUME NEW j \in Jobs, RespondSession(j) PROVE Control'
  <2> DEFINE t == SessionJob(j)
  <2>1. /\ pc[t] = "respond" /\ pc' = [pc EXCEPT ![t] = "idle"]
        /\ result' = [result EXCEPT ![t] = NoResult]
        /\ sockets' = sockets \ {t}
        /\ UNCHANGED <<up, state, fileVars, queue, httpVars, session, exiting,
                       pastVars, faults>>
    BY <1>2 DEF RespondSession
  <2>2. result[t] \in Result
    BY <2>1 DEF Control, TypeOK, AnswerHasResult
  <2>3. wire' \subseteq Jobs \X Result
    BY <1>2, <2>2 DEF RespondSession, Control, TypeOK
  <2>4. t \in Thread
    OBVIOUS
  <2> HIDE DEF t
  <2>5. result' \in [Thread -> Result \cup {NoResult}]
    BY <2>1 DEF Control, TypeOK
  <2>6. QED
    BY <1>0, <2>1, <2>3, <2>4, <2>5, ControlMove DEF Control, TypeOK
<1>3. ASSUME NEW t \in Workers, Execute(t) PROVE Control'
  <2>1. runs' \in [Jobs -> Nat]
    <3> DEFINE j == JobOf(t)
    <3>1. j \in Jobs
      BY <1>0, <1>3 DEF Execute, Control, BusyHasJob
    <3>2. runs' = [runs EXCEPT ![j] = @ + 1]
      BY <1>3 DEF Execute
    <3> HIDE DEF j
    <3>3. QED
      BY <3>1, <3>2 DEF Control, TypeOK
  <2>2. QED
    BY <1>0, <1>3, <2>1, ControlMove DEF Execute, Control, TypeOK
<1>4. ASSUME NEW t \in Workers, ExecutionReturns(t) PROVE Control'
  BY <1>0, <1>4, ControlRecordResult DEF ExecutionReturns
<1>5. ASSUME NEW t \in Workers, DeniedReturns(t) PROVE Control'
  BY <1>0, <1>5, ControlRecordResult DEF DeniedReturns
<1>6. ASSUME NEW t \in Workers, ExecutionThrows(t) PROVE Control'
  BY <1>0, <1>6, ControlRejects, ThreadFacts DEF ExecutionThrows
<1>7. QED
  BY <1>1, <1>2, <1>3, <1>4, <1>5, <1>6 DEF Work

\* A step of the session that touches neither threads nor records.
LEMMA ControlLinkOnly ==
    ASSUME Control, UNCHANGED <<up, state, fileVars, queue, pc, result, httpVars,
                                exiting, runs, announced, activations, faults>>,
           session' \in {"down", "live", "flushed"},
           sockets' \subseteq SessionJobs, wire' \subseteq Jobs \X Result,
           hubResults' \in [Jobs -> SUBSET Result]
    PROVE  Control'
BY DEF Control, TypeOK, QueueWaits, WriteHasOwner, BusyHasJob, AnswerHasResult,
       DownIsClean, JobOf

LEMMA ControlLink == Control /\ Link => Control'
<1> SUFFICES ASSUME Control, Link PROVE Control'
  OBVIOUS
<1>1. CASE Connect
  BY <1>1, ControlLinkOnly DEF Connect, Control, TypeOK
<1>2. CASE flushSessionPending
  <2>1. wire' \subseteq Jobs \X Result
    BY <1>2 DEF flushSessionPending, Control, TypeOK, AgentState
  <2>2. QED
    BY <1>2, <2>1, ControlLinkOnly DEF flushSessionPending, Control, TypeOK
<1>3. CASE Disconnect
  BY <1>3, ControlLinkOnly DEF Disconnect, Control, TypeOK
<1>4. ASSUME NEW j \in Jobs, HubReceives(j) PROVE Control'
  BY <1>4, ControlLinkOnly DEF HubReceives, Control, TypeOK
<1>5. ASSUME NEW j \in Jobs, ackSessionResult(j) PROVE Control'
  <2> DEFINE t == AckJob(j)
             s == WithJob(state, j, "finished", NoResult)
  <2>1. t \in Thread /\ t # Http /\ t \notin Workers
    BY ThreadFacts
  <2>2. s \in AgentState
    BY WithJobFacts DEF Control, TypeOK, JobStatus
  <2>3. /\ WriteState(t, s, "w_ack") /\ up /\ pc[t] = "idle"
        /\ result' = [result EXCEPT ![t] = state.pendingResults[j]]
        /\ UNCHANGED <<up, fileVars, httpVars, linkVars, exiting, pastVars, faults>>
    BY <1>5 DEF ackSessionResult, Serving
  <2>4. "w_ack" \in WaitingPc /\ "w_ack" # "w_result" /\ "idle" \notin WaitingPc
    BY DEF WaitingPc
  <2> HIDE DEF s, t
  <2>5. /\ result' \in [Thread -> Result \cup {NoResult}]
        /\ \A u \in Thread : u # t => result'[u] = result[u]
    BY <2>1, <2>3 DEF Control, TypeOK, AgentState
  <2>6. QED
    BY <2>1, <2>2, <2>3, <2>4, <2>5, ControlWrite DEF Control, TypeOK
<1>6. QED
  BY <1>1, <1>2, <1>3, <1>4, <1>5 DEF Link

LEMMA ControlUpdate == Control /\ Update => Control'
<1> SUFFICES ASSUME Control, Update PROVE Control'
  OBVIOUS
<1> USE WorkersAreThreads
<1>0. /\ {"flushing", "idle"} \subseteq Pc
      /\ ({"flushing", "idle"} \cap Busy) = {}
      /\ WaitingPc \cap {"flushing", "idle", "sent", "acked"} = {}
  BY DEF Pc, Busy, WaitingPc
\* Continue moves the thread on and drops its result.
<1>1. ASSUME NEW t \in Tellers, pc[t] \in {"sent", "acked"}, Continue(t),
             UNCHANGED <<up, state, fileVars, queue, httpVars, linkVars, runs,
                         announced, hubResults, faults>>,
             exiting' \in BOOLEAN, activations' \in [Jobs -> Nat]
      PROVE  Control'
  <2> DEFINE to == IF t = Http THEN "flushing" ELSE "idle"
  <2>1. pc' = [pc EXCEPT ![t] = to] /\ to \in {"flushing", "idle"}
    BY <1>1 DEF Continue
  <2>2. /\ result' \in [Thread -> Result \cup {NoResult}]
        /\ \A u \in Thread : u # t => result'[u] = result[u]
    BY <1>1 DEF Continue, Control, TypeOK
  <2> HIDE DEF to
  <2>3. QED
    BY <1>0, <1>1, <2>1, <2>2, ControlMove DEF Control, TypeOK
<1>2. ASSUME NEW t \in Tellers, NoActivation(t) PROVE Control'
  BY <1>1, <1>2 DEF NoActivation, Control, TypeOK
<1>3. ASSUME NEW t \in Tellers, activatePreparedUpdate(t) PROVE Control'
  <2>1. activations' \in [Jobs -> Nat]
    <3>1. JobOf(t) \in Jobs
      BY <1>3, JobsAssumption DEF activatePreparedUpdate, PreparedUpdate
    <3> DEFINE j == JobOf(t)
    <3>2. activations' = [activations EXCEPT ![j] = @ + 1]
      BY <1>3 DEF activatePreparedUpdate
    <3> HIDE DEF j
    <3>3. QED
      BY <3>1, <3>2 DEF Control, TypeOK, j
  <2>2. QED
    BY <1>1, <1>3, <2>1 DEF activatePreparedUpdate
<1>4. ASSUME NEW t \in Tellers, ActivationFails(t) PROVE Control'
  BY <1>0, <1>4, ControlRejects, ThreadFacts DEF ActivationFails
<1>5. QED
  BY <1>2, <1>3, <1>4 DEF Update

LEMMA ControlStep == Control /\ [Next]_vars => Control'
<1>1. Control /\ Next => Control'
  BY ControlDisk, ControlProcess, ControlFlush, ControlArrive, ControlBegin,
     ControlWork, ControlLink, ControlUpdate DEF Next
<1>2. Control /\ UNCHANGED vars => Control'
  <2> SUFFICES ASSUME Control, UNCHANGED vars PROVE Control'
    OBVIOUS
  <2>1. TypeOK'
    BY DEF vars, Control, TypeOK
  <2>2. QueueWaits' /\ WriteHasOwner' /\ DownIsClean'
    BY DEF vars, Control, QueueWaits, WriteHasOwner, DownIsClean
  <2>3. BusyHasJob' /\ AnswerHasResult'
    BY DEF vars, Control, BusyHasJob, AnswerHasResult, JobOf
  <2>4. QED
    BY <2>1, <2>2, <2>3 DEF Control
<1>3. QED
  BY <1>1, <1>2

\* Every variable keeps its type, in every run, whatever the jobs and however
\* many faults.
THEOREM TypeCorrect == Spec => []TypeOK
<1>1. Control => TypeOK
  BY DEF Control
<1>2. QED
  BY ControlInit, ControlStep, <1>1, PTL DEF Spec

-----------------------------------------------------------------------------
(* Layer 2 is inductive.                                                   *)

LEMMA RankFacts ==
    /\ Rank("absent") = 0 /\ Rank("claimed") = 1 /\ Rank("running") = 2
    /\ Rank("result_pending") = 3 /\ Rank("finished") = 4
    /\ \A a \in JobStatus : /\ Rank(a) \in 0..4
                            /\ Rank(a) = 0 => a = "absent"
                            /\ Rank(a) = 1 => a = "claimed"
                            /\ Rank(a) = 2 => a = "running"
                            /\ Rank(a) >= 3 => a \in {"result_pending", "finished"}
BY DEF Rank, JobStatus

\* Every copy of the state gives every job a status.
LEMMA CopyFacts ==
    ASSUME Control
    PROVE  \A c \in {state, tmpFile, stateFile} :
              c \in AgentState /\ \A j \in Jobs : c.jobs[j] \in JobStatus
BY DEF Control, TypeOK, AgentState

LEMMA RecordsInit == Init => Records
<1> SUFFICES ASSUME Init PROVE Records
  OBVIOUS
<1>1. Control
  BY ControlInit
<1>2. CopiesInOrder
  BY <1>1, CopyFacts, RankFacts DEF Init, CopiesInOrder, Behind
<1>3. PendingAgrees
  BY DEF Init, PendingAgrees, PendingIff, freshState, NoResult
<1>4. BusyHolds /\ BusyApart /\ FlushHolds
  BY ThreadFacts, CleanFacts
     DEF Init, BusyHolds, Holds, BusyApart, FlushHolds, NothingTodo, Busy
<1>5. WriteCarriesRunning /\ RunsRecorded
  BY DEF Init, WriteCarriesRunning, RunsRecorded
<1>6. QED
  BY <1>2, <1>3, <1>4, <1>5 DEF Records

LEMMA RecordsDies ==
    ASSUME Control, Records, ProcessDies
    PROVE  Records'
<1>1. CopiesInOrder'
  BY CopyFacts, RankFacts DEF ProcessDies, CopiesInOrder, Behind
<1>2. PendingAgrees'
  BY DEF Records, ProcessDies, PendingAgrees, PendingIff
<1>3. BusyHolds' /\ BusyApart' /\ FlushHolds'
  BY ThreadFacts, CleanFacts
     DEF ProcessDies, BusyHolds, Holds, BusyApart, FlushHolds, NothingTodo, Busy
<1>4. WriteCarriesRunning' /\ RunsRecorded'
  BY DEF Records, ProcessDies, WriteCarriesRunning, RunsRecorded
<1>5. QED
  BY <1>1, <1>2, <1>3, <1>4 DEF Records

\* The thread whose write is under way is waiting for it.
LEMMA HeadWaits ==
    ASSUME Control, writing
    PROVE  Head(queue) \in Thread /\ pc[Head(queue)] \in WaitingPc /\ queue # <<>>
BY DEF Control, TypeOK, WriteHasOwner, QueueWaits

\* The busy part of a step that leaves the copies and the history alone: a
\* worker stays as it is, or is not busy, or stays on its job and holds.
StaysOrHolds(t) ==
    \/ pc'[t] = pc[t] /\ result'[t] = result[t] /\ JobOf(t)' = JobOf(t)
    \/ pc'[t] \notin Busy
    \/ pc[t] \in Busy /\ JobOf(t)' = JobOf(t) /\ Holds(t, JobOf(t))'

LEMMA RecordsMove ==
    ASSUME Control, Records,
           UNCHANGED <<state, fileVars, queue, runs>>,
           \A t \in Workers : StaysOrHolds(t),
           \A t \in Thread : pc[t] \in WaitingPc =>
              pc'[t] = pc[t] /\ JobOf(t)' = JobOf(t),
           FlushHolds'
    PROVE  Records'
<1>1. CopiesInOrder' /\ PendingAgrees' /\ RunsRecorded'
  BY DEF Records, CopiesInOrder, Behind, PendingAgrees, PendingIff, RunsRecorded
<1>2. BusyHolds'
  BY DEF Records, BusyHolds, Holds, StaysOrHolds, Busy
<1>3. BusyApart'
  BY DEF Records, BusyApart, StaysOrHolds
<1>4. WriteCarriesRunning'
  BY HeadWaits DEF Records, WriteCarriesRunning
<1>5. QED
  BY <1>1, <1>2, <1>3, <1>4 DEF Records

\* A thread moves a job's status on and awaits the write; nobody else is busy
\* with that job.
LEMMA RecordsWrite ==
    ASSUME Control, Records, NEW t \in Thread, NEW j \in Jobs,
           NEW status \in JobStatus, NEW pending \in Result \cup {NoResult},
           NEW wait \in WaitingPc, pc[t] \notin WaitingPc,
           WriteState(t, WithJob(state, j, status, pending), wait),
           Rank(state.jobs[j]) <= Rank(status),
           status = "result_pending" <=> pending # NoResult,
           UNCHANGED <<fileVars, runs, todo>>,
           t # Http => httpJob' = httpJob,
           \A u \in Thread : u # t => result'[u] = result[u],
           \A u \in Workers : u # t /\ pc[u] \in Busy => JobOf(u) # j,
           t \in Workers /\ wait \in Busy => JobOf(t)' = j /\ Holds(t, j)'
    PROVE  Records'
<1> DEFINE s == WithJob(state, j, status, pending)
<1>1. /\ state' = s /\ pc' = [pc EXCEPT ![t] = wait] /\ pc \in [Thread -> Pc]
      /\ queue # <<>> => Head(queue') = Head(queue)
  BY EnqueueFacts DEF Control, TypeOK
<1>2. /\ s.jobs = [state.jobs EXCEPT ![j] = status]
      /\ s.pendingResults = [state.pendingResults EXCEPT ![j] = pending]
      /\ state.jobs \in [Jobs -> JobStatus]
      /\ state.pendingResults \in [Jobs -> Result \cup {NoResult}]
  <2>1. state \in AgentState
    BY DEF Control, TypeOK
  <2>2. /\ state.jobs \in [Jobs -> JobStatus]
        /\ state.pendingResults \in [Jobs -> Result \cup {NoResult}]
    BY <2>1 DEF AgentState
  <2>3. /\ s.jobs = [state.jobs EXCEPT ![j] = status]
        /\ s.pendingResults = [state.pendingResults EXCEPT ![j] = pending]
    BY <2>1, <2>2, WithJobFields
  <2>4. QED
    BY <2>2, <2>3
<1> HIDE DEF s
<1>3. CopiesInOrder'
  BY <1>1, <1>2, CopyFacts, RankFacts DEF Records, CopiesInOrder, Behind
<1>4. PendingAgrees'
  BY <1>1, <1>2 DEF Records, PendingAgrees, PendingIff
<1>5. \A u \in Workers : u # t => JobOf(u)' = JobOf(u)
  BY ThreadFacts DEF JobOf
<1>6. BusyHolds'
  <2> SUFFICES ASSUME NEW u \in Workers PROVE Holds(u, JobOf(u))'
    BY DEF BusyHolds
  <2>1. CASE u = t
    BY <1>1, <2>1 DEF Holds, Busy
  <2>2. CASE u # t /\ pc[u] \in Busy
    BY <1>1, <1>2, <1>5, <2>2, ThreadFacts
       DEF Records, BusyHolds, Holds, Control, BusyHasJob
  <2>3. CASE u # t /\ pc[u] \notin Busy
    BY <1>1, <2>3, ThreadFacts DEF Holds, Busy
  <2>4. QED
    BY <2>1, <2>2, <2>3
<1>7. BusyApart'
  BY <1>1, <1>5, ThreadFacts DEF Records, BusyApart
<1>8. FlushHolds'
  <2>1. \A i \in Jobs : Rank(state.jobs[i]) >= 3 => Rank(state'.jobs[i]) >= 3
    BY <1>1, <1>2, RankFacts
  <2>2. \A i \in Jobs : todo'[i] # NoResult => Rank(state'.jobs[i]) >= 3
    BY <2>1 DEF Records, FlushHolds
  <2>3. ASSUME pc'[Http] \in {"posting", "posted"}
        PROVE  Rank(state'.jobs[httpJob']) >= 3
    <3>1. t # Http /\ httpJob' = httpJob /\ pc[Http] = pc'[Http]
      BY <1>1, <2>3, ThreadFacts DEF WaitingPc
    <3>2. QED
      BY <2>1, <2>3, <3>1 DEF Records, FlushHolds, Control, AnswerHasResult
  <2>4. QED
    BY <2>2, <2>3 DEF FlushHolds
<1>9. WriteCarriesRunning'
  BY <1>1, <1>5, HeadWaits DEF Records, WriteCarriesRunning
<1>10. RunsRecorded'
  BY DEF Records, RunsRecorded
<1>11. QED
  BY <1>3, <1>4, <1>6, <1>7, <1>8, <1>9, <1>10 DEF Records

\* Only the HTTP loop's job is a variable.
LEMMA JobKept ==
    ASSUME NEW t \in Workers, httpJob' = httpJob \/ t # Http
    PROVE  JobOf(t)' = JobOf(t)
BY DEF JobOf

LEMMA RecordsDisk == Control /\ Records /\ Disk => Records'
<1> SUFFICES ASSUME Control, Records, Disk PROVE Records'
  OBVIOUS
<1>1. CASE PersistStart
  <2>1. UNCHANGED <<state, stateFile, queue, pc, result, httpJob, todo, runs>>
        /\ tmpFile' = state
    BY <1>1 DEF PersistStart
  <2>2. CopiesInOrder'
    BY <2>1, CopyFacts, RankFacts DEF Records, CopiesInOrder, Behind
  <2>3. PendingAgrees' /\ FlushHolds' /\ RunsRecorded'
    BY <2>1 DEF Records, PendingAgrees, PendingIff, FlushHolds, RunsRecorded
  <2>4. BusyHolds' /\ BusyApart'
    BY <2>1, JobKept DEF Records, BusyHolds, Holds, BusyApart
  <2>5. WriteCarriesRunning'
    BY <2>1, JobKept DEF Records, BusyHolds, Holds, WriteCarriesRunning
  <2>6. QED
    BY <2>2, <2>3, <2>4, <2>5 DEF Records
<1>2. CASE PersistDone
  <2> DEFINE h == Head(queue)
  <2>1. /\ h \in Thread /\ pc[h] \in WaitingPc /\ pc \in [Thread -> Pc]
        /\ pc' = [pc EXCEPT ![h] = Resumed(pc[h])]
        /\ UNCHANGED <<state, tmpFile, result, httpJob, todo, runs>>
        /\ stateFile' = tmpFile /\ ~writing'
    BY <1>2, HeadWaits DEF PersistDone, Control, TypeOK
  <2> HIDE DEF h
  <2>2. CopiesInOrder' /\ RunsRecorded'
    BY <2>1, CopyFacts, RankFacts
       DEF Records, CopiesInOrder, Behind, RunsRecorded
  <2>3. PendingAgrees' /\ WriteCarriesRunning'
    BY <2>1 DEF Records, PendingAgrees, PendingIff, WriteCarriesRunning
  <2>4. FlushHolds'
    BY <2>1, ThreadFacts DEF Records, FlushHolds, Resumed, WaitingPc
  \* A job that is "running" on disk and at most "running" in memory is
  \* "running" in the write between them.
  <2>5. \A j \in Jobs : /\ stateFile.jobs[j] = "running"
                        /\ state.jobs[j] \in {"claimed", "running"}
                        => tmpFile.jobs[j] = "running"
    BY CopyFacts, RankFacts DEF Records, CopiesInOrder, Behind
  <2>6. h \in Workers /\ pc[h] = "w_running" => tmpFile.jobs[JobOf(h)] = "running"
    BY <1>2 DEF PersistDone, Records, WriteCarriesRunning, h
  <2>7. BusyHolds'
    <3> SUFFICES ASSUME NEW t \in Workers PROVE Holds(t, JobOf(t))'
      BY DEF BusyHolds
    <3>1. JobOf(t)' = JobOf(t) /\ t \in Thread
      BY <2>1, JobKept, WorkersAreThreads
    <3>2. CASE t # h
      <4>1. pc'[t] = pc[t]
        BY <2>1, <3>1, <3>2
      <4>2. pc[t] = "ready" => JobOf(t) \in Jobs
        BY DEF Control, BusyHasJob, Busy
      <4>3. QED
        BY <2>1, <2>5, <3>1, <4>1, <4>2 DEF Records, BusyHolds, Holds
    <3>3. CASE t = h /\ pc[h] \in {"w_claim", "w_running"}
      BY <2>1, <2>6, <3>1, <3>3 DEF Records, BusyHolds, Holds, Resumed
    <3>4. CASE t = h /\ pc[h] \notin {"w_claim", "w_running"}
      BY <2>1, <3>1, <3>4 DEF Holds, Resumed, WaitingPc
    <3>5. QED
      BY <3>2, <3>3, <3>4
  <2>8. BusyApart'
    <3>1. \A t \in Workers : /\ JobOf(t)' = JobOf(t)
                             /\ pc'[t] \in Busy => pc[t] \in Busy
      BY <2>1, JobKept, WorkersAreThreads DEF Resumed, WaitingPc, Busy
    <3>2. QED
      BY <3>1 DEF Records, BusyApart
  <2>9. QED
    BY <2>2, <2>3, <2>4, <2>7, <2>8 DEF Records
<1>3. CASE PersistFails
  <2>1. CASE ProcessDies
    BY <2>1, RecordsDies
  <2>2. CASE ~ProcessDies
    <3> DEFINE h == Head(queue)
    <3>1. /\ h \in {Http, Telemetry} /\ h \in Thread /\ pc[h] \in WaitingPc
          /\ ~writing' /\ tmpFile' = stateFile
          /\ UNCHANGED <<state, stateFile, runs>>
          /\ h = Http => EndCycle
          /\ h # Http => pc' = [pc EXCEPT ![h] = "idle"] /\ UNCHANGED <<result, httpVars>>
      BY <1>3, <2>2, HeadWaits DEF PersistFails, Rejects
    <3> HIDE DEF h
    <3>2. /\ pc' = [pc EXCEPT ![h] = "idle"] /\ pc \in [Thread -> Pc]
          /\ \A t \in Workers : t # h => JobOf(t)' = JobOf(t) /\ result'[t] = result[t]
          /\ todo' = todo \/ todo' = NothingTodo
          /\ h # Http => httpJob' = httpJob
      BY <3>1, JobKept, WorkersAreThreads DEF EndCycle, Control, TypeOK
    <3>3. CopiesInOrder'
      BY <3>1, CopyFacts, RankFacts DEF Records, CopiesInOrder, Behind
    <3>4. PendingAgrees' /\ WriteCarriesRunning' /\ RunsRecorded'
      BY <3>1 DEF Records, PendingAgrees, PendingIff, WriteCarriesRunning, RunsRecorded
    <3>5. FlushHolds'
      BY <3>1, <3>2, ThreadFacts DEF Records, FlushHolds, NothingTodo
    <3>6. \A t \in Workers : /\ t = h => pc'[t] = "idle"
                             /\ t # h => pc'[t] = pc[t]
      BY <3>1, <3>2, WorkersAreThreads
    <3>7. BusyHolds' /\ BusyApart'
      BY <3>1, <3>2, <3>6 DEF Records, BusyHolds, Holds, BusyApart, Busy
    <3>8. QED
      BY <3>3, <3>4, <3>5, <3>7 DEF Records
  <2>3. QED
    BY <2>1, <2>2
<1>4. CASE TelemetryWrite
  <2>1. /\ Telemetry \in Thread /\ Telemetry \notin Workers /\ Telemetry # Http
        /\ pc[Telemetry] \notin WaitingPc /\ "w_other" \in WaitingPc
        /\ WriteState(Telemetry, state, "w_other")
        /\ UNCHANGED <<fileVars, result, httpVars, runs>>
    BY <1>4, ThreadFacts DEF TelemetryWrite, WaitingPc
  <2>2. /\ state' = state /\ pc' = [pc EXCEPT ![Telemetry] = "w_other"]
        /\ pc \in [Thread -> Pc] /\ (queue # <<>> => Head(queue') = Head(queue))
    BY <2>1, EnqueueFacts DEF Control, TypeOK
  <2>3. \A t \in Workers : pc'[t] = pc[t] /\ JobOf(t)' = JobOf(t)
    BY <2>1, <2>2, JobKept, WorkersAreThreads
  <2>4. BusyHolds' /\ BusyApart'
    BY <2>1, <2>2, <2>3 DEF Records, BusyHolds, Holds, BusyApart
  <2>5. FlushHolds' /\ WriteCarriesRunning'
    BY <2>1, <2>2, <2>3, HeadWaits, WorkersAreThreads
       DEF Records, FlushHolds, WriteCarriesRunning
  <2>6. CopiesInOrder' /\ PendingAgrees' /\ RunsRecorded'
    BY <2>1, <2>2
       DEF Records, CopiesInOrder, Behind, PendingAgrees, PendingIff, RunsRecorded
  <2>7. QED
    BY <2>4, <2>5, <2>6 DEF Records
<1>5. QED
  BY <1>1, <1>2, <1>3, <1>4 DEF Disk

LEMMA RecordsProcess == Control /\ Records /\ Process => Records'
<1> SUFFICES ASSUME Control, Records, Process PROVE Records'
  OBVIOUS
<1>1. CASE Boot
  <2> DEFINE s == markInterruptedJobs(stateFile)
  <2>1. /\ pc = AllIdle /\ tmpFile = stateFile /\ ~writing /\ todo = NothingTodo
        /\ stateFile \in AgentState
    BY <1>1 DEF Boot, Control, TypeOK, DownIsClean
  <2>2. /\ UNCHANGED <<fileVars, result, httpVars, runs>> /\ state' = s
        /\ pc' = pc \/ pc' = [pc EXCEPT ![Main] = "w_boot"]
    BY <1>1 DEF Boot, WriteState
  <2>3. \A j \in Jobs : /\ Rank(stateFile.jobs[j]) <= Rank(s.jobs[j])
                        /\ s.jobs[j] = "result_pending" <=> s.pendingResults[j] # NoResult
    <3> TAKE j \in Jobs
    <3>1. stateFile.jobs[j] = "result_pending" <=> stateFile.pendingResults[j] # NoResult
      BY DEF Records, PendingAgrees, PendingIff
    <3>2. stateFile.jobs[j] \in JobStatus
      BY CopyFacts
    <3>3. QED
      BY <3>1, <3>2, RankFacts DEF markInterruptedJobs, NoResult
  <2> HIDE DEF s
  <2>4. CopiesInOrder'
    BY <2>1, <2>2, <2>3, CopyFacts, RankFacts DEF CopiesInOrder, Behind
  <2>5. PendingAgrees'
    BY <2>1, <2>2, <2>3 DEF Records, PendingAgrees, PendingIff
  <2>6. \A t \in Workers : pc'[t] = "idle"
    BY <2>1, <2>2, ThreadFacts, CleanFacts
  <2>7. BusyHolds' /\ BusyApart' /\ FlushHolds'
    BY <2>1, <2>2, <2>6, ThreadFacts
       DEF BusyHolds, Holds, BusyApart, FlushHolds, NothingTodo, Busy
  <2>8. WriteCarriesRunning' /\ RunsRecorded'
    BY <2>1, <2>2 DEF Records, WriteCarriesRunning, RunsRecorded
  <2>9. QED
    BY <2>4, <2>5, <2>7, <2>8 DEF Records
<1>2. CASE Kill \/ ExitForUpdate
  BY <1>2, RecordsDies DEF Kill, ExitForUpdate
<1>3. QED
  BY <1>1, <1>2 DEF Process

\* The HTTP loop moves while it is not busy: nobody's work changes.
LEMMA RecordsHttp ==
    ASSUME Control, Records,
           UNCHANGED <<state, fileVars, queue, runs>>,
           pc[Http] \notin WaitingPc, pc'[Http] \notin Busy,
           \A t \in Thread : t # Http => pc'[t] = pc[t] /\ result'[t] = result[t],
           \A j \in Jobs : todo'[j] # NoResult =>
              todo[j] # NoResult \/ state.pendingResults[j] # NoResult,
           pc'[Http] \in {"posting", "posted"} =>
              \/ pc[Http] \in {"posting", "posted"} /\ httpJob' = httpJob
              \/ httpJob' \in Jobs /\ todo[httpJob'] # NoResult
    PROVE  Records'
<1>1. \A j \in Jobs : state.pendingResults[j] # NoResult => Rank(state.jobs[j]) >= 3
  BY RankFacts DEF Records, PendingAgrees, PendingIff
<1>2. FlushHolds'
  BY <1>1 DEF Records, FlushHolds
<1>3. \A t \in Thread : t # Http => JobOf(t)' = JobOf(t)
  BY DEF JobOf
<1>4. \A t \in Workers : StaysOrHolds(t)
  BY <1>3, WorkersAreThreads DEF StaysOrHolds
<1>5. QED
  BY <1>2, <1>3, <1>4, RecordsMove

LEMMA RecordsEndCycle ==
    ASSUME Control, Records, EndCycle, pc[Http] \notin WaitingPc,
           UNCHANGED <<state, fileVars, queue, runs>>
    PROVE  Records'
<1>1. /\ pc \in [Thread -> Pc] /\ result \in [Thread -> Result \cup {NoResult}]
      /\ pc' = [pc EXCEPT ![Http] = "idle"] /\ Http \in Thread
      /\ result' = [result EXCEPT ![Http] = NoResult] /\ todo' = NothingTodo
  BY ThreadFacts DEF EndCycle, Control, TypeOK
<1>2. pc'[Http] = "idle" /\ "idle" \notin Busy
  BY <1>1 DEF Busy
<1>3. \A j \in Jobs : todo'[j] = NoResult
  BY <1>1 DEF NothingTodo
<1>4. QED
  BY <1>1, <1>2, <1>3, RecordsHttp

LEMMA RecordsBeginFlush ==
    ASSUME Control, Records, NEW next, BeginFlush(next), pc[Http] \notin WaitingPc,
           UNCHANGED <<state, fileVars, queue, runs>>
    PROVE  Records'
<1>1. /\ pc \in [Thread -> Pc] /\ result \in [Thread -> Result \cup {NoResult}]
      /\ pc' = [pc EXCEPT ![Http] = "flushing"] /\ Http \in Thread
      /\ result' = [result EXCEPT ![Http] = NoResult]
      /\ todo' = state.pendingResults
  BY ThreadFacts DEF BeginFlush, Control, TypeOK
<1>2. pc'[Http] = "flushing" /\ "flushing" \notin Busy
  BY <1>1 DEF Busy
<1>3. QED
  BY <1>1, <1>2, RecordsHttp

LEMMA RecordsFlush == Control /\ Records /\ Flush => Records'
<1> SUFFICES ASSUME Control, Records, Flush PROVE Records'
  OBVIOUS
<1>0. /\ pc \in [Thread -> Pc] /\ result \in [Thread -> Result \cup {NoResult}]
      /\ todo \in [Jobs -> Result \cup {NoResult}] /\ Http \in Thread
      /\ {"idle", "flushing", "posting", "posted"} \cap WaitingPc = {}
      /\ {"claiming", "posting", "posted"} \cap Busy = {}
  BY ThreadFacts DEF Control, TypeOK, WaitingPc, Busy
<1>1. CASE Poll
  BY <1>0, <1>1, RecordsBeginFlush DEF Poll
<1>2. CASE FlushDone
  <2>1. CASE afterFlush = "claim"
    BY <1>0, <1>2, <2>1, RecordsHttp DEF FlushDone
  <2>2. CASE afterFlush # "claim"
    BY <1>0, <1>2, <2>2, RecordsEndCycle DEF FlushDone
  <2>3. QED
    BY <2>1, <2>2
<1>3. CASE PostReachesHub
  BY <1>0, <1>3, RecordsHttp DEF PostReachesHub
<1>4. CASE PostFails
  BY <1>0, <1>4, RecordsEndCycle DEF PostFails
<1>5. CASE PostConfirmed
  <2>1. /\ httpJob \in Jobs /\ Rank(state.jobs[httpJob]) >= 3
        /\ pc[Http] = "posted"
        /\ WriteState(Http, WithJob(state, httpJob, "finished", NoResult), "w_sent")
        /\ UNCHANGED <<fileVars, result, todo, runs, httpJob>>
    BY <1>5 DEF PostConfirmed, Control, AnswerHasResult, Records, FlushHolds
  <2>2. /\ Rank(state.jobs[httpJob]) <= Rank("finished")
        /\ "finished" \in JobStatus /\ "w_sent" \in WaitingPc /\ "w_sent" \notin Busy
    BY <2>1, CopyFacts, RankFacts DEF JobStatus, WaitingPc, Busy
  <2>3. \A u \in Workers : u # Http /\ pc[u] \in Busy => JobOf(u) # httpJob
    BY <2>1, RankFacts DEF Records, BusyHolds, Holds, Busy
  <2>4. QED
    BY <1>0, <2>1, <2>2, <2>3, RecordsWrite
<1>6. ASSUME NEW j \in Jobs, PostResult(j) PROVE Records'
  BY <1>0, <1>6, RecordsHttp DEF PostResult
<1>7. QED
  BY <1>1, <1>2, <1>3, <1>4, <1>5, <1>6 DEF Flush

\* A job that no copy knows has never been called and is nobody's work.
LEMMA AbsentIsFree ==
    ASSUME Control, Records, NEW j \in Jobs, state.jobs[j] = "absent"
    PROVE  /\ runs[j] = 0
           /\ state.pendingResults[j] = NoResult
           /\ \A u \in Workers : pc[u] \in Busy => JobOf(u) # j
<1>1. Rank(stateFile.jobs[j]) <= 0
  BY CopyFacts, RankFacts DEF Records, CopiesInOrder, Behind
<1>2. runs[j] = 0
  <2>1. runs[j] \in Nat /\ Rank(stateFile.jobs[j]) \in 0..4
    BY CopyFacts, RankFacts DEF Control, TypeOK
  <2>2. runs[j] > 0 => Rank(stateFile.jobs[j]) >= 2
    BY DEF Records, RunsRecorded
  <2>3. QED
    BY <1>1, <2>1, <2>2
<1>3. QED
  BY <1>2 DEF Records, PendingAgrees, PendingIff, BusyHolds, Holds, Busy

LEMMA RecordsArrive == Control /\ Records /\ Arrive => Records'
<1> SUFFICES ASSUME Control, Records, Arrive PROVE Records'
  OBVIOUS
<1>0. /\ pc \in [Thread -> Pc] /\ Http \in Thread
      /\ "claiming" \notin WaitingPc /\ "idle" \notin WaitingPc
      /\ "w_claim" \in WaitingPc /\ "claimed" \in JobStatus
      /\ NoResult \in Result \cup {NoResult}
      /\ "w_claim" \notin {"w_running", "ready", "executing"}
  BY ThreadFacts DEF Control, TypeOK, WaitingPc, JobStatus
<1>1. CASE ClaimNothing
  BY <1>0, <1>1, RecordsEndCycle DEF ClaimNothing
<1>2. ASSUME NEW j \in Jobs, ClaimDuplicate(j) PROVE Records'
  BY <1>0, <1>2, RecordsEndCycle DEF ClaimDuplicate
\* A new job enters the table, by either transport.
<1>3. ASSUME NEW t \in Workers, NEW j \in Jobs, state.jobs[j] = "absent",
             pc[t] \notin WaitingPc,
             WriteState(t, WithJob(state, j, "claimed", NoResult), "w_claim"),
             UNCHANGED <<fileVars, result, todo, runs>>,
             JobOf(t)' = j, t # Http => httpJob' = httpJob
      PROVE  Records'
  <2>1. /\ runs[j] = 0
        /\ \A u \in Workers : u # t /\ pc[u] \in Busy => JobOf(u) # j
    BY <1>3, AbsentIsFree
  <2>2. t \in Thread
    BY WorkersAreThreads
  <2>3. /\ state'.jobs = [state.jobs EXCEPT ![j] = "claimed"]
        /\ state.jobs \in [Jobs -> JobStatus]
        /\ pc' = [pc EXCEPT ![t] = "w_claim"]
    <3>1. state \in AgentState /\ state.jobs \in [Jobs -> JobStatus]
      BY DEF Control, TypeOK, AgentState
    <3>2. /\ state' = WithJob(state, j, "claimed", NoResult)
          /\ pc' = [pc EXCEPT ![t] = "w_claim"]
      BY <1>3 DEF WriteState
    <3>3. WithJob(state, j, "claimed", NoResult).jobs
              = [state.jobs EXCEPT ![j] = "claimed"]
      BY <3>1 DEF WithJob, AgentState
    <3>4. QED
      BY <3>1, <3>2, <3>3
  <2>4. Holds(t, j)'
    BY <1>0, <1>3, <2>1, <2>2, <2>3 DEF Holds
  <2>5. Rank(state.jobs[j]) <= Rank("claimed")
    BY <1>3, RankFacts
  <2>6. QED
    BY <1>0, <1>3, <2>1, <2>2, <2>4, <2>5, RecordsWrite
<1>4. ASSUME NEW j \in Jobs, ClaimJob(j) PROVE Records'
  <2>1. state.pendingResults[j] = NoResult /\ JobOf(Http)' = j
    BY <1>4, AbsentIsFree DEF ClaimJob, JobOf
  <2>2. QED
    BY <1>0, <1>3, <1>4, <2>1, WorkersAreThreads DEF ClaimJob
<1>5. ASSUME NEW j \in Jobs, SessionRequest(j) PROVE Records'
  <2>1. state.jobs[j] = "absent"
    BY <1>5 DEF SessionRequest, Records, PendingAgrees, PendingIff
  <2>2. SessionJob(j) \in Workers /\ JobOf(SessionJob(j))' = j
    BY ThreadFacts DEF JobOf
  <2>3. QED
    BY <1>0, <1>3, <1>5, <2>1, <2>2 DEF SessionRequest
<1>6. ASSUME NEW j \in Jobs, SessionRequestAgain(j) PROVE Records'
  <2>1. UNCHANGED <<state, fileVars, queue, pc, result, httpVars, runs>>
    BY <1>6 DEF SessionRequestAgain
  <2>2. \A t \in Workers : JobOf(t)' = JobOf(t)
    BY <2>1, JobKept
  <2>3. FlushHolds'
    BY <2>1 DEF Records, FlushHolds
  <2>4. QED
    BY <2>1, <2>2, <2>3, RecordsMove DEF StaysOrHolds, JobOf
<1>7. QED
  BY <1>1, <1>2, <1>4, <1>5, <1>6 DEF Arrive

\* One thread moves between two points at which it awaits no write.
LEMMA RecordsStep1 ==
    ASSUME Control, Records, NEW t \in Thread, NEW to,
           pc' = [pc EXCEPT ![t] = to],
           pc[t] \notin WaitingPc, to \notin {"posting", "posted"},
           \A u \in Thread : u # t => result'[u] = result[u],
           UNCHANGED <<state, fileVars, queue, runs, httpJob, todo>>,
           t \in Workers /\ to \in Busy => pc[t] \in Busy /\ Holds(t, JobOf(t))'
    PROVE  Records'
<1>1. pc \in [Thread -> Pc]
  BY DEF Control, TypeOK
<1>2. \A u \in Workers : JobOf(u)' = JobOf(u)
  BY JobKept
<1>3. \A u \in Workers : StaysOrHolds(u)
  BY <1>1, <1>2, WorkersAreThreads DEF StaysOrHolds
<1>4. \A u \in Thread : pc[u] \in WaitingPc => pc'[u] = pc[u] /\ JobOf(u)' = JobOf(u)
  BY <1>1 DEF JobOf
<1>5. FlushHolds'
  BY <1>1, ThreadFacts DEF Records, FlushHolds
<1>6. QED
  BY <1>3, <1>4, <1>5, RecordsMove

\* The start of a claimed job is written by the only thread that works on it.
LEMMA RecordsMarkRunning ==
    ASSUME Control, Records, NEW t \in Workers, MarkRunning(t),
           pc[t] \in {"starting", "authorizing"}
    PROVE  Records'
<1> PICK j \in Jobs : j = JobOf(t)
  BY DEF Control, BusyHasJob, Busy
<1>1. /\ t \in Thread /\ pc[t] \notin WaitingPc
      /\ state.jobs[j] = "claimed" /\ runs[j] = 0
      /\ \A u \in Workers : u # t /\ pc[u] \in Busy => JobOf(u) # j
  BY WorkersAreThreads
     DEF Control, BusyHasJob, Records, BusyHolds, Holds, BusyApart, Busy, WaitingPc
<1>2. state.pendingResults[j] = NoResult
  BY <1>1 DEF Records, PendingAgrees, PendingIff
<1>3. /\ WriteState(t, WithJob(state, j, "running", NoResult), "w_running")
      /\ UNCHANGED <<fileVars, result, httpJob, todo, runs>>
  BY <1>2 DEF MarkRunning
<1>4. JobOf(t)' = j
  BY <1>3, JobKept
<1>5. /\ state'.jobs = [state.jobs EXCEPT ![j] = "running"]
      /\ state.jobs \in [Jobs -> JobStatus]
      /\ pc' = [pc EXCEPT ![t] = "w_running"] /\ pc \in [Thread -> Pc]
  BY <1>3 DEF WriteState, WithJob, Control, TypeOK, AgentState
<1>6. Holds(t, j)'
  <2>1. pc'[t] = "w_running" /\ state'.jobs[j] = "running" /\ runs'[j] = 0
    BY <1>1, <1>3, <1>5
  <2>2. QED
    BY <2>1 DEF Holds
<1>7. /\ Rank(state.jobs[j]) <= Rank("running") /\ "running" \in JobStatus
      /\ "w_running" \in WaitingPc /\ NoResult \in Result \cup {NoResult}
      /\ \A u \in Thread : u # t => result'[u] = result[u]
      /\ t # Http => httpJob' = httpJob
  BY <1>1, <1>3, RankFacts DEF JobStatus, WaitingPc
<1>8. QED
  BY <1>1, <1>3, <1>4, <1>6, <1>7, RecordsWrite

LEMMA RecordsBegin == Control /\ Records /\ Begin => Records'
<1> SUFFICES ASSUME Control, Records, Begin PROVE Records'
  OBVIOUS
<1> USE WorkersAreThreads
<1>0. /\ pc \in [Thread -> Pc] /\ result \in [Thread -> Result \cup {NoResult}]
      /\ {"authorizing", "starting", "ready"} \subseteq Busy
      /\ WaitingPc \cap {"authorizing", "starting", "ready"} = {}
  BY DEF Control, TypeOK, Busy, WaitingPc
\* An authorised thread moves on and its job is still only claimed.
<1>1. ASSUME NEW t \in Workers, NEW to \in {"starting", "ready"},
             pc[t] = "authorizing", pc' = [pc EXCEPT ![t] = to],
             \A u \in Thread : u # t => result'[u] = result[u],
             to = "ready" => result'[t] # NoResult,
             UNCHANGED <<state, fileVars, queue, runs, httpJob, todo>>
      PROVE  Records'
  <2>1. JobOf(t)' = JobOf(t)
    BY <1>1, JobKept
  <2>2. Holds(t, JobOf(t))'
    BY <1>0, <1>1, <2>1 DEF Records, BusyHolds, Holds
  <2>3. QED
    BY <1>0, <1>1, <2>2, RecordsStep1
<1>2. CASE AllowHttp
  BY <1>1, <1>2 DEF AllowHttp
<1>3. CASE StartHttp
  BY <1>3, RecordsMarkRunning DEF StartHttp
<1>4. CASE StartHttpFails
  BY <1>0, <1>4, RecordsEndCycle DEF StartHttpFails
<1>5. ASSUME NEW j \in Jobs, AllowSession(j) PROVE Records'
  BY <1>5, RecordsMarkRunning DEF AllowSession
<1>6. ASSUME NEW j \in Jobs, AllowSessionFails(j) PROVE Records'
  BY <1>6, RecordsDies DEF AllowSessionFails
<1>7. ASSUME NEW t \in Workers, Deny(t) PROVE Records'
  <2> DEFINE to == IF t = Http THEN "starting" ELSE "ready"
  <2>1. /\ pc[t] = "authorizing" /\ t \in Thread
        /\ pc' = [pc EXCEPT ![t] = to] /\ result' = [result EXCEPT ![t] = "denied"]
        /\ UNCHANGED <<state, fileVars, queue, httpVars, runs>>
    BY <1>7 DEF Deny
  <2>2. to \in {"starting", "ready"} /\ result'[t] # NoResult
    BY <1>0, <2>1 DEF NoResult
  <2> HIDE DEF to
  <2>3. QED
    BY <1>0, <1>1, <2>1, <2>2
<1>8. QED
  BY <1>2, <1>3, <1>4, <1>5, <1>6, <1>7 DEF Begin

LEMMA RecordsRecordResult ==
    ASSUME Control, Records, NEW t \in Workers, NEW r \in Result,
           RecordResult(t, r), pc[t] \in {"ready", "executing"}
    PROVE  Records'
<1> DEFINE j == JobOf(t)
<1>1. /\ j \in Jobs /\ t \in Thread /\ pc[t] \notin WaitingPc
      /\ state.jobs[j] \in {"claimed", "running"}
      /\ \A u \in Workers : u # t /\ pc[u] \in Busy => JobOf(u) # j
  BY WorkersAreThreads
     DEF Control, BusyHasJob, Records, BusyHolds, Holds, BusyApart, Busy, WaitingPc
<1>2. /\ WriteState(t, WithJob(state, j, "result_pending", r), "w_result")
      /\ UNCHANGED <<fileVars, httpJob, todo, runs>>
      /\ \A u \in Thread : u # t => result'[u] = result[u]
  BY <1>1 DEF RecordResult, Control, TypeOK
<1> HIDE DEF j
<1>3. /\ Rank(state.jobs[j]) <= Rank("result_pending")
      /\ "result_pending" \in JobStatus /\ r # NoResult
      /\ "w_result" \in WaitingPc /\ "w_result" \notin Busy
  BY <1>1, RankFacts DEF JobStatus, WaitingPc, Busy, Result, NoResult
<1>4. QED
  BY <1>1, <1>2, <1>3, RecordsWrite

LEMMA RecordsRejects ==
    ASSUME Control, Records, NEW t \in Thread \ {Telemetry}, Rejects(t),
           pc[t] \notin WaitingPc, t = Http => UNCHANGED <<fileVars, queue>>
    PROVE  Records'
<1>1. CASE t = Http
  BY <1>1, RecordsEndCycle DEF Rejects
<1>2. CASE t # Http
  BY <1>2, RecordsDies DEF Rejects
<1>3. QED
  BY <1>1, <1>2

LEMMA RecordsWork == Control /\ Records /\ Work => Records'
<1> SUFFICES ASSUME Control, Records, Work PROVE Records'
  OBVIOUS
<1> USE WorkersAreThreads
<1>0. /\ pc \in [Thread -> Pc] /\ result \in [Thread -> Result \cup {NoResult}]
      /\ {"ready", "executing"} \subseteq Busy /\ "idle" \notin Busy
      /\ WaitingPc \cap {"ready", "executing", "respond", "idle"} = {}
      /\ {"output", "denied"} \subseteq Result
  BY DEF Control, TypeOK, Busy, WaitingPc, Result
<1>1. CASE RespondHttp
  BY <1>0, <1>1, RecordsBeginFlush DEF RespondHttp
<1>2. ASSUME NEW j \in Jobs, RespondSession(j) PROVE Records'
  <2>1. /\ SessionJob(j) \in Thread /\ pc[SessionJob(j)] = "respond"
        /\ pc' = [pc EXCEPT ![SessionJob(j)] = "idle"]
        /\ \A u \in Thread : u # SessionJob(j) => result'[u] = result[u]
        /\ UNCHANGED <<state, fileVars, queue, runs, httpJob, todo>>
    BY <1>0, <1>2 DEF RespondSession
  <2>2. QED
    BY <1>0, <2>1, RecordsStep1
\* The handler is called: the job is on disk as "running" and was not called.
<1>3. ASSUME NEW t \in Workers, Execute(t) PROVE Records'
  <2> DEFINE j == JobOf(t)
  <2>1. /\ j \in Jobs /\ runs[j] = 0 /\ stateFile.jobs[j] = "running"
        /\ state.jobs[j] \in {"claimed", "running"}
        /\ pc[t] = "ready" /\ t \in Thread
        /\ \A u \in Workers : u # t /\ pc[u] \in Busy => JobOf(u) # j
    BY <1>0, <1>3
       DEF Execute, Control, BusyHasJob, Records, BusyHolds, Holds, BusyApart
  <2>2. /\ pc' = [pc EXCEPT ![t] = "executing"]
        /\ runs' = [runs EXCEPT ![j] = @ + 1]
        /\ UNCHANGED <<state, fileVars, queue, result, httpVars>>
        /\ runs \in [Jobs -> Nat]
    BY <1>3 DEF Execute, Control, TypeOK
  <2>3. \A u \in Workers : JobOf(u)' = JobOf(u)
    BY <2>2, JobKept
  <2> HIDE DEF j
  <2>4. state.jobs[j] = "running"
    <3>1. Rank(stateFile.jobs[j]) <= Rank(state.jobs[j])
      BY <2>1, CopyFacts, RankFacts DEF Records, CopiesInOrder, Behind
    <3>2. QED
      BY <2>1, <3>1, RankFacts
  <2>5. CopiesInOrder' /\ PendingAgrees'
    BY <2>2 DEF Records, CopiesInOrder, Behind, PendingAgrees, PendingIff
  <2>6. RunsRecorded'
    BY <2>1, <2>2, RankFacts DEF Records, RunsRecorded
  <2>7. BusyHolds'
    <3> SUFFICES ASSUME NEW u \in Workers PROVE Holds(u, JobOf(u))'
      BY DEF BusyHolds
    <3>1. CASE u = t
      <4>1. pc'[u] = "executing" /\ state'.jobs[JobOf(u)'] = "running"
        BY <1>0, <2>1, <2>2, <2>3, <2>4, <3>1 DEF j
      <4>2. QED
        BY <4>1 DEF Holds
    <3>2. CASE u # t /\ pc[u] \in Busy
      <4>1. /\ pc'[u] = pc[u] /\ JobOf(u) # j /\ JobOf(u)' = JobOf(u)
            /\ JobOf(u) \in Jobs
        BY <1>0, <2>1, <2>2, <2>3, <3>2 DEF Control, BusyHasJob
      <4>2. runs'[JobOf(u)] = runs[JobOf(u)]
        BY <2>2, <4>1
      <4>3. QED
        BY <2>2, <4>1, <4>2 DEF Records, BusyHolds, Holds
    <3>3. CASE u # t /\ pc[u] \notin Busy
      BY <1>0, <2>1, <2>2, <3>3 DEF Holds, Busy
    <3>4. QED
      BY <3>1, <3>2, <3>3
  <2>8. BusyApart'
    BY <1>0, <2>1, <2>2, <2>3 DEF Records, BusyApart
  <2>9. FlushHolds'
    BY <1>0, <2>1, <2>2 DEF Records, FlushHolds
  <2>10. WriteCarriesRunning'
    BY <1>0, <2>1, <2>2, <2>3, HeadWaits DEF Records, WriteCarriesRunning
  <2>11. QED
    BY <2>5, <2>6, <2>7, <2>8, <2>9, <2>10 DEF Records
<1>4. ASSUME NEW t \in Workers, ExecutionReturns(t) PROVE Records'
  BY <1>0, <1>4, RecordsRecordResult DEF ExecutionReturns
<1>5. ASSUME NEW t \in Workers, DeniedReturns(t) PROVE Records'
  BY <1>0, <1>5, RecordsRecordResult DEF DeniedReturns
<1>6. ASSUME NEW t \in Workers, ExecutionThrows(t) PROVE Records'
  BY <1>0, <1>6, RecordsRejects, ThreadFacts DEF ExecutionThrows
<1>7. QED
  BY <1>1, <1>2, <1>3, <1>4, <1>5, <1>6 DEF Work

LEMMA RecordsLink == Control /\ Records /\ Link => Records'
<1> SUFFICES ASSUME Control, Records, Link PROVE Records'
  OBVIOUS
<1>1. CASE \/ Connect \/ flushSessionPending \/ Disconnect
           \/ \E j \in Jobs : HubReceives(j)
  <2>1. UNCHANGED <<state, fileVars, queue, pc, result, httpVars, runs>>
    BY <1>1 DEF Connect, flushSessionPending, Disconnect, HubReceives
  <2>2. FlushHolds' /\ \A t \in Workers : JobOf(t)' = JobOf(t)
    BY <2>1, JobKept DEF Records, FlushHolds
  <2>3. QED
    BY <2>1, <2>2, RecordsMove DEF StaysOrHolds, JobOf
\* An acknowledged job was pending, so that nobody works on it.
<1>2. ASSUME NEW j \in Jobs, ackSessionResult(j) PROVE Records'
  <2> DEFINE t == AckJob(j)
  <2>1. /\ t \in Thread /\ t # Http /\ t \notin Workers
        /\ pc[t] \notin WaitingPc /\ "w_ack" \in WaitingPc
    BY <1>2, ThreadFacts DEF ackSessionResult, WaitingPc
  <2>2. state.jobs[j] = "result_pending"
    BY <1>2 DEF ackSessionResult, Records, PendingAgrees, PendingIff
  <2>3. /\ WriteState(t, WithJob(state, j, "finished", NoResult), "w_ack")
        /\ UNCHANGED <<fileVars, httpJob, todo, runs>>
        /\ \A u \in Thread : u # t => result'[u] = result[u]
    BY <1>2, <2>1 DEF ackSessionResult, Control, TypeOK
  <2>4. \A u \in Workers : pc[u] \in Busy => JobOf(u) # j
    BY <2>2 DEF Records, BusyHolds, Holds, Busy
  <2>5. Rank(state.jobs[j]) <= Rank("finished") /\ "finished" \in JobStatus
    BY <2>2, RankFacts DEF JobStatus
  <2> HIDE DEF t
  <2>6. QED
    BY <2>1, <2>3, <2>4, <2>5, RecordsWrite
<1>3. QED
  BY <1>1, <1>2 DEF Link

LEMMA RecordsUpdate == Control /\ Records /\ Update => Records'
<1> SUFFICES ASSUME Control, Records, Update PROVE Records'
  OBVIOUS
<1>0. /\ {"sent", "acked"} \cap WaitingPc = {}
      /\ {"flushing", "idle"} \cap Busy = {}
  BY DEF WaitingPc, Busy
<1>1. ASSUME NEW t \in Tellers,
             NoActivation(t) \/ activatePreparedUpdate(t)
      PROVE  Records'
  <2> DEFINE to == IF t = Http THEN "flushing" ELSE "idle"
  <2>1. /\ t \in Thread /\ pc[t] \in {"sent", "acked"}
        /\ pc' = [pc EXCEPT ![t] = to]
        /\ \A u \in Thread : u # t => result'[u] = result[u]
        /\ UNCHANGED <<state, fileVars, queue, runs, httpJob, todo>>
    BY <1>1, WorkersAreThreads
       DEF NoActivation, activatePreparedUpdate, Continue, Control, TypeOK
  <2>2. to \in {"flushing", "idle"}
    OBVIOUS
  <2> HIDE DEF to
  <2>3. QED
    BY <1>0, <2>1, <2>2, RecordsStep1
<1>2. ASSUME NEW t \in Tellers, ActivationFails(t) PROVE Records'
  BY <1>0, <1>2, RecordsRejects, ThreadFacts DEF ActivationFails
<1>3. QED
  BY <1>1, <1>2 DEF Update

LEMMA RecordsNext == Control /\ Records /\ [Next]_vars => Records'
<1>1. Control /\ Records /\ Next => Records'
  BY RecordsDisk, RecordsProcess, RecordsFlush, RecordsArrive, RecordsBegin,
     RecordsWork, RecordsLink, RecordsUpdate DEF Next
<1>2. ASSUME Control, Records, UNCHANGED vars PROVE Records'
  <2>1. UNCHANGED <<state, fileVars, queue, pc, result, httpVars, runs>>
    BY <1>2 DEF vars
  <2>2. FlushHolds' /\ \A t \in Workers : JobOf(t)' = JobOf(t)
    BY <1>2, <2>1, JobKept DEF Records, FlushHolds
  <2>3. QED
    BY <1>2, <2>1, <2>2, RecordsMove DEF StaysOrHolds, JobOf
<1>3. QED
  BY <1>1, <1>2

-----------------------------------------------------------------------------
(* The safety theorems.                                                    *)

\* Both layers hold in every run.
THEOREM Invariants == Spec => [](Control /\ Records)
BY ControlInit, RecordsInit, ControlStep, RecordsNext, PTL DEF Spec

\* A job's handler is called at most once, whatever is delivered twice, by
\* whichever transport, and however often the process dies and restarts
\* (client.mjs:1315, 1479).
THEOREM AtMostOnceHolds == Spec => []AtMostOnce
<1>1. Records => AtMostOnce
  BY DEF Records, RunsRecorded, AtMostOnce
<1>2. QED
  BY Invariants, <1>1, PTL

\* A handler is only called for a job whose "running" record is on disk
\* (client.mjs:1329, 1335).
THEOREM SpawnRecordedHolds == Spec => []SpawnRecorded
<1>1. Control /\ Records => SpawnRecorded
  <2> SUFFICES ASSUME Control, Records, NEW j \in Jobs, runs[j] > 0
               PROVE  stateFile.jobs[j] \in {"running", "result_pending", "finished"}
    BY DEF SpawnRecorded
  <2>1. Rank(stateFile.jobs[j]) >= 2 /\ stateFile.jobs[j] \in JobStatus
    BY CopyFacts DEF Records, RunsRecorded
  <2>2. QED
    BY <2>1, RankFacts DEF JobStatus
<1>2. QED
  BY Invariants, <1>1, PTL
-----------------------------------------------------------------------------
(* Layer 3 is inductive.                                                   *)

LEMMA ResultFacts ==
    /\ {"output", "denied", "interrupted"} = Result
    /\ NoResult \notin Result
    /\ "w_result" \in Telling /\ WaitingPc \cap Telling = {"w_result"}
    /\ Telling \cap Busy = {} /\ "executing" \notin WaitingPc
BY DEF Result, NoResult, Telling, WaitingPc, Busy

LEMMA KeptWhere ==
    \A j \in Jobs, r \in Result : Kept(j, r) <=>
        \/ state.pendingResults[j] = r
        \/ tmpFile.pendingResults[j] = r
        \/ stateFile.pendingResults[j] = r
BY DEF Kept, Copies

\* A job that memory does not know has been told nothing about.
LEMMA AbsentIsUntold ==
    ASSUME Control, Records, Answers, NEW j \in Jobs, state.jobs[j] = "absent"
    PROVE  ~Known(j, "denied") /\ ~Known(j, "interrupted")
<1>1. \A c \in Copies : /\ Rank(c.jobs[j]) = 0
                        /\ c.jobs[j] # "result_pending"
  <2>1. /\ Rank(stateFile.jobs[j]) <= Rank(tmpFile.jobs[j])
        /\ Rank(tmpFile.jobs[j]) <= Rank(state.jobs[j])
    BY DEF Records, CopiesInOrder, Behind
  <2>2. \A c \in Copies : c.jobs[j] \in JobStatus /\ Rank(c.jobs[j]) \in 0..4
    BY CopyFacts, RankFacts DEF Copies
  <2>3. \A c \in Copies : Rank(c.jobs[j]) = 0
    BY <2>1, <2>2, RankFacts DEF Copies
  <2> QED
    BY <2>2, <2>3, RankFacts
<1>2. \A c \in Copies : c.pendingResults[j] = NoResult
  BY <1>1 DEF Records, PendingAgrees, PendingIff, Copies
<1>3. ~Known(j, "denied")
  <2>1. ~(Rank(stateFile.jobs[j]) >= 1)
    BY <1>1 DEF Copies
  <2> QED
    BY <2>1 DEF Answers, DeniedStays
<1>4. ~Kept(j, "interrupted")
  BY <1>2, ResultFacts DEF Kept
<1>5. ~Sent(j, "interrupted")
  <2>1. ~(Rank(stateFile.jobs[j]) >= 3)
    BY <1>1 DEF Copies
  <2> QED
    BY <2>1 DEF Answers, InterruptedRecorded
<1> QED
  BY <1>3, <1>4, <1>5 DEF Known

LEMMA AnswersInit == Init => Answers
<1> SUFFICES ASSUME Init PROVE Answers
  OBVIOUS
<1>1. \A j \in Jobs, r \in Result : ~Known(j, r)
  BY ResultFacts, WorkersAreThreads
     DEF Init, Known, Kept, Sent, Copies, freshState, NothingTodo, AllIdle, Telling
<1>2. \A t \in Thread : pc[t] = "idle"
  BY CleanFacts DEF Init
<1>3. OutputRan /\ DeniedStays /\ InterruptedStays
  BY <1>1, ResultFacts DEF OutputRan, DeniedStays, InterruptedStays
<1>4. BootFirst /\ RunningAnnounced /\ ExecutingRan /\ ClaimRecorded
  BY <1>2, ThreadFacts, WorkersAreThreads
     DEF Init, BootFirst, RunningAnnounced, ExecutingRan, ClaimRecorded, Copies,
         freshState, Busy
<1>5. InterruptedRecorded
  <2>1. \A j \in Jobs : ~Sent(j, "interrupted")
                        /\ state.pendingResults[j] # "interrupted"
    BY <1>1, ResultFacts, KeptWhere DEF Known
  <2> QED
    BY <2>1 DEF InterruptedRecorded
<1> QED
  BY <1>3, <1>4, <1>5 DEF Answers

LEMMA AnswersDies ==
    ASSUME Control, Records, Answers, ProcessDies
    PROVE  Answers'
<1>1. \A t \in Thread : pc'[t] = "idle"
  BY CleanFacts DEF ProcessDies
<1>2. /\ state' = stateFile /\ tmpFile' = stateFile /\ stateFile' = stateFile
      /\ ~writing' /\ up' = FALSE /\ UNCHANGED <<runs, announced, hubResults>>
      /\ session' = "down" /\ wire' = {} /\ \A j \in Jobs : todo'[j] = NoResult
  BY DEF ProcessDies, NothingTodo
<1>3. \A j \in Jobs, r \in Result : Kept(j, r)' => stateFile.pendingResults[j] = r
  BY <1>2 DEF Kept, Copies
<1>4. \A j \in Jobs, r \in Result : Sent(j, r)' => Sent(j, r)
  BY <1>1, <1>2, ResultFacts, WorkersAreThreads DEF Sent, Telling
<1>5. \A j \in Jobs, r \in Result :
         (Known(j, r)' => Known(j, r)) /\ (Kept(j, r)' => Kept(j, r))
  BY <1>3, <1>4, KeptWhere DEF Known
<1>6. \A j \in Jobs : Free(j)'
  BY <1>1, WorkersAreThreads DEF Free, Busy
<1>7. OutputRan' /\ DeniedStays' /\ InterruptedStays'
  BY <1>2, <1>5, <1>6, ResultFacts
     DEF Answers, OutputRan, DeniedStays, InterruptedStays
<1>8. BootFirst' /\ RunningAnnounced' /\ ExecutingRan' /\ ClaimRecorded'
  BY <1>1, <1>2, ThreadFacts, WorkersAreThreads
     DEF Answers, BootFirst, RunningAnnounced, ExecutingRan, ClaimRecorded, Copies,
         Busy
<1>9. InterruptedRecorded'
  <2>1. \A j \in Jobs : stateFile.pendingResults[j] = "interrupted"
                          => Rank(stateFile.jobs[j]) >= 3
    BY RankFacts, ResultFacts DEF Records, PendingAgrees, PendingIff
  <2> QED
    BY <1>2, <1>4, <2>1, ResultFacts DEF Answers, InterruptedRecorded
<1> QED
  BY <1>7, <1>8, <1>9 DEF Answers

\* A step after which no copy of the state is new and no result is sent that
\* was not known: what is said of the answers stays true.
LEMMA AnswersShift ==
    ASSUME Control, Records, Answers,
           Copies' \subseteq Copies,
           UNCHANGED <<runs, announced>>,
           \A j \in Jobs : Rank(stateFile.jobs[j]) <= Rank(stateFile'.jobs[j]),
           \A j \in Jobs, r \in Result : Sent(j, r)' => Known(j, r),
           \A t \in Workers : pc'[t] \in Busy =>
              /\ pc[t] \in Busy /\ JobOf(t)' = JobOf(t)
              /\ pc'[t] = "executing" => pc[t] = "executing"
    PROVE  /\ OutputRan' /\ DeniedStays' /\ InterruptedStays'
           /\ RunningAnnounced' /\ ExecutingRan'
<1>1. \A j \in Jobs, r \in Result : Kept(j, r)' => Kept(j, r)
  BY DEF Kept
<1>2. \A j \in Jobs, r \in Result : Known(j, r)' => Known(j, r)
  BY <1>1 DEF Known
<1>3. \A j \in Jobs : Free(j) => Free(j)'
  BY DEF Free
<1>4. \A j \in Jobs : Rank(stateFile.jobs[j]) >= 1 => Rank(stateFile'.jobs[j]) >= 1
  <2>1. \A j \in Jobs : Rank(stateFile.jobs[j]) \in 0..4
    BY CopyFacts, RankFacts
  <2>2. \A j \in Jobs : Rank(stateFile'.jobs[j]) \in 0..4
    BY CopyFacts, RankFacts, <2>1 DEF Copies
  <2> QED
    BY <2>1, <2>2
<1>5. OutputRan' /\ DeniedStays' /\ InterruptedStays'
  BY <1>1, <1>2, <1>3, <1>4, ResultFacts
     DEF Answers, OutputRan, DeniedStays, InterruptedStays
<1>6. RunningAnnounced'
  BY DEF Answers, RunningAnnounced
<1>7. ExecutingRan'
  BY DEF Answers, ExecutingRan, Busy
<1> QED
  BY <1>5, <1>6, <1>7

\* The copies stay as they are: threads move, results go from one place of
\* those that hold them to the next.
LEMMA AnswersQuiet ==
    ASSUME Control, Records, Answers,
           UNCHANGED <<up, state, fileVars, runs, announced>>,
           writing => Head(queue') = Head(queue),
           (up /\ pc[Main] = "idle") \/ UNCHANGED <<pc, session>>,
           pc'[Main] = pc[Main],
           \A j \in Jobs, r \in Result : Sent(j, r)' =>
              Sent(j, r) \/ (pc[Main] = "idle" /\ state.pendingResults[j] = r),
           \A t \in Workers : pc'[t] \in Busy =>
              /\ pc[t] \in Busy /\ JobOf(t)' = JobOf(t)
              /\ pc'[t] = "executing" => pc[t] = "executing"
              /\ pc[t] = "w_claim" => pc'[t] = "w_claim",
           \A t \in Thread : pc[t] \in WaitingPc =>
              pc'[t] = pc[t] /\ JobOf(t)' = JobOf(t)
    PROVE  Answers'
<1>1. Copies' = Copies
  BY DEF Copies
<1>2. \A j \in Jobs : Rank(stateFile.jobs[j]) <= Rank(stateFile'.jobs[j])
  <2>1. \A j \in Jobs : Rank(stateFile.jobs[j]) \in 0..4 /\ stateFile' = stateFile
    BY CopyFacts, RankFacts
  <2> QED
    BY <2>1
<1>3. \A j \in Jobs, r \in Result : Sent(j, r)' => Known(j, r)
  BY KeptWhere DEF Known
<1>4. /\ OutputRan' /\ DeniedStays' /\ InterruptedStays'
      /\ RunningAnnounced' /\ ExecutingRan'
  BY <1>1, <1>2, <1>3, AnswersShift
<1>5. BootFirst'
  BY DEF Answers, BootFirst
<1>6. InterruptedRecorded'
  BY ResultFacts DEF Answers, InterruptedRecorded
<1>7. ClaimRecorded'
  BY HeadWaits DEF Answers, ClaimRecorded
<1> QED
  BY <1>4, <1>5, <1>6, <1>7 DEF Answers

\* While a thread other than main is at work, main has started the loops.
LEMMA MainIsIdle ==
    ASSUME Control, Answers, NEW t \in Thread, t # Main, pc[t] # "idle"
    PROVE  up /\ pc[Main] = "idle"
BY BusyMeansUp DEF Answers, BootFirst

LEMMA AnswersEndCycle ==
    ASSUME Control, Records, Answers, EndCycle, pc[Http] \notin WaitingPc,
           pc[Http] # "idle",
           UNCHANGED <<up, state, fileVars, queue, linkVars, exiting, pastVars>>
    PROVE  Answers'
<1>1. /\ pc' = [pc EXCEPT ![Http] = "idle"] /\ pc \in [Thread -> Pc]
      /\ result' = [result EXCEPT ![Http] = NoResult]
      /\ result \in [Thread -> Result \cup {NoResult}]
      /\ \A j \in Jobs : todo'[j] = NoResult
  BY DEF EndCycle, NothingTodo, Control, TypeOK
<1>2. up /\ pc[Main] = "idle" /\ pc'[Main] = pc[Main]
  BY <1>1, MainIsIdle, ThreadFacts
<1>3. \A t \in Workers : t # Http => JobOf(t)' = JobOf(t)
  BY JobKept
<1>4. \A t \in Workers : /\ t = Http => pc'[t] = "idle"
                         /\ t # Http => pc'[t] = pc[t] /\ result'[t] = result[t]
  BY <1>1, WorkersAreThreads, ThreadFacts
<1>5. \A j \in Jobs, r \in Result : Sent(j, r)' => Sent(j, r)
  BY <1>1, <1>3, <1>4, ResultFacts DEF Sent, Telling
<1>6. \A t \in Workers : pc'[t] \in Busy => pc'[t] = pc[t] /\ JobOf(t)' = JobOf(t)
  BY <1>3, <1>4 DEF Busy
<1>7. \A t \in Thread : pc[t] \in WaitingPc => pc'[t] = pc[t] /\ JobOf(t)' = JobOf(t)
  BY <1>1 DEF JobOf
<1> QED
  BY <1>2, <1>5, <1>6, <1>7, AnswersQuiet

LEMMA AnswersDisk == Control /\ Records /\ Answers /\ Disk => Answers'
<1> SUFFICES ASSUME Control, Records, Answers, Disk PROVE Answers'
  OBVIOUS
<1>0. /\ \A c \in Copies : \A j \in Jobs : Rank(c.jobs[j]) \in 0..4
      /\ \A j \in Jobs : Rank(stateFile.jobs[j]) <= Rank(tmpFile.jobs[j])
      /\ pc \in [Thread -> Pc]
  BY CopyFacts, RankFacts
     DEF Copies, Records, CopiesInOrder, Behind, Control, TypeOK
<1>1. CASE PersistStart
  <2>1. /\ UNCHANGED <<up, state, stateFile, queue, pc, result, httpVars, linkVars,
                       pastVars>>
        /\ tmpFile' = state /\ writing' /\ ~writing
    BY <1>1 DEF PersistStart
  <2>2. \A t \in Workers : JobOf(t)' = JobOf(t)
    BY <2>1, JobKept
  <2>3. \A j \in Jobs, r \in Result : Sent(j, r)' => Sent(j, r)
    BY <2>1, <2>2 DEF Sent
  <2>4. \A j \in Jobs : Rank(stateFile.jobs[j]) <= Rank(stateFile'.jobs[j])
    BY <1>0, <2>1 DEF Copies
  <2>5. /\ OutputRan' /\ DeniedStays' /\ InterruptedStays'
        /\ RunningAnnounced' /\ ExecutingRan'
    BY <2>1, <2>2, <2>3, <2>4, AnswersShift DEF Copies, Known
  <2>6. BootFirst'
    BY <2>1 DEF Answers, BootFirst
  <2>7. InterruptedRecorded'
    BY <2>1, <2>3, ResultFacts DEF Answers, InterruptedRecorded
  <2>8. ClaimRecorded'
    <3>1. \A t \in Workers : pc[t] = "w_claim" => Rank(state.jobs[JobOf(t)]) >= 1
      BY RankFacts DEF Records, BusyHolds, Holds
    <3> QED
      BY <2>1, <2>2, <3>1 DEF Answers, ClaimRecorded
  <2> QED
    BY <2>5, <2>6, <2>7, <2>8 DEF Answers
<1>2. CASE PersistDone
  <2> DEFINE h == Head(queue)
  <2>1. /\ h \in Thread /\ pc[h] \in WaitingPc
        /\ pc' = [pc EXCEPT ![h] = Resumed(pc[h])]
        /\ UNCHANGED <<up, state, tmpFile, result, httpVars, linkVars, pastVars>>
        /\ stateFile' = tmpFile /\ writing /\ ~writing'
    BY <1>2, HeadWaits DEF PersistDone
  <2>2. pc[h] = "w_claim" /\ h \in Workers => Rank(tmpFile.jobs[JobOf(h)]) >= 1
    BY <2>1 DEF Answers, ClaimRecorded
  <2> HIDE DEF h
  <2>3. \A t \in Workers : JobOf(t)' = JobOf(t)
    BY <2>1, JobKept
  <2>4. \A t \in Thread : /\ t = h => pc'[t] = Resumed(pc[h])
                          /\ t # h => pc'[t] = pc[t]
    BY <1>0, <2>1
  <2>5. \A t \in Workers : /\ pc'[t] \in Telling => pc[t] \in Telling
                           /\ pc'[t] \in Busy => pc[t] \in Busy
                           /\ pc'[t] = "executing" => pc[t] = "executing"
    BY <2>1, <2>4, WorkersAreThreads DEF Resumed, WaitingPc, Telling, Busy
  <2>6. \A j \in Jobs, r \in Result : Sent(j, r)' => Sent(j, r)
    BY <2>1, <2>3, <2>5 DEF Sent
  <2>7. \A j \in Jobs : Rank(stateFile.jobs[j]) <= Rank(stateFile'.jobs[j])
    BY <1>0, <2>1
  <2>8. /\ OutputRan' /\ DeniedStays' /\ InterruptedStays'
        /\ RunningAnnounced' /\ ExecutingRan'
    BY <2>1, <2>3, <2>5, <2>6, <2>7, AnswersShift DEF Copies, Known
  <2>9. BootFirst'
    <3>1. CASE h = Main
      BY <2>1, <2>4, <3>1, ThreadFacts
         DEF Answers, BootFirst, Resumed, Control, DownIsClean
    <3>2. CASE h # Main
      BY <2>1, <2>4, <3>2, ThreadFacts, MainIsIdle
         DEF Answers, BootFirst, Control, DownIsClean, WaitingPc
    <3> QED
      BY <3>1, <3>2
  <2>10. InterruptedRecorded'
    <3>1. \A j \in Jobs : Rank(stateFile.jobs[j]) >= 3 => Rank(stateFile'.jobs[j]) >= 3
      BY <1>0, <2>1, <2>7 DEF Copies
    <3>2. ASSUME NEW j \in Jobs, pc'[Main] = "idle",
                 state'.pendingResults[j] = "interrupted"
          PROVE  Rank(stateFile'.jobs[j]) >= 3
      <4>1. CASE pc[Main] = "idle"
        BY <2>1, <3>1, <3>2, <4>1 DEF Answers, InterruptedRecorded
      <4>2. CASE pc[Main] # "idle"
        <5>1. stateFile' = state
          BY <2>1, <4>2 DEF Answers, BootFirst
        <5>2. state.jobs[j] = "result_pending"
          BY <2>1, <3>2, ResultFacts DEF Records, PendingAgrees, PendingIff
        <5> QED
          BY <5>1, <5>2, RankFacts
      <4> QED
        BY <4>1, <4>2
    <3> QED
      BY <2>6, <3>1, <3>2, ResultFacts DEF Answers, InterruptedRecorded
  <2>11. ClaimRecorded'
    <3> SUFFICES ASSUME NEW t \in Workers, pc'[t] \in Busy \ {"w_claim"}
                 PROVE  Rank(stateFile'.jobs[JobOf(t)']) >= 1
      BY <2>1 DEF ClaimRecorded
    <3>1. /\ pc[t] \in Busy /\ JobOf(t)' = JobOf(t) /\ JobOf(t) \in Jobs
          /\ t \in Thread
      BY <2>3, <2>5, WorkersAreThreads DEF Control, BusyHasJob
    <3>2. CASE pc[t] = "w_claim"
      <4>1. t = h
        BY <2>4, <3>1, <3>2
      <4> QED
        BY <2>1, <2>2, <3>1, <3>2, <4>1
    <3>3. CASE pc[t] # "w_claim"
      <4>1. Rank(stateFile.jobs[JobOf(t)]) >= 1
        BY <3>1, <3>3 DEF Answers, ClaimRecorded
      <4>2. /\ Rank(stateFile.jobs[JobOf(t)]) \in 0..4
            /\ Rank(tmpFile.jobs[JobOf(t)]) \in 0..4
        BY <1>0, <3>1 DEF Copies
      <4> QED
        BY <2>1, <2>7, <3>1, <4>1, <4>2
    <3> QED
      BY <3>2, <3>3
  <2> QED
    BY <2>8, <2>9, <2>10, <2>11 DEF Answers
<1>3. CASE PersistFails
  <2>1. CASE ProcessDies
    BY <2>1, AnswersDies
  <2>2. CASE ~ProcessDies
    <3> DEFINE h == Head(queue)
    <3>1. /\ h \in {Http, Telemetry} /\ h \in Thread /\ pc[h] \in WaitingPc
          /\ ~writing' /\ tmpFile' = stateFile
          /\ UNCHANGED <<up, state, stateFile, linkVars, pastVars>>
          /\ h = Http => EndCycle
          /\ h # Http => pc' = [pc EXCEPT ![h] = "idle"] /\ UNCHANGED <<result, httpVars>>
      BY <1>3, <2>2, HeadWaits DEF PersistFails, Rejects
    <3> HIDE DEF h
    <3>2. /\ pc' = [pc EXCEPT ![h] = "idle"]
          /\ \A t \in Workers : t # h => JobOf(t)' = JobOf(t) /\ result'[t] = result[t]
          /\ \A j \in Jobs : todo'[j] = todo[j] \/ todo'[j] = NoResult
      BY <3>1, JobKept, WorkersAreThreads
         DEF EndCycle, Control, TypeOK, NothingTodo
    <3>3. \A t \in Workers : /\ t = h => pc'[t] = "idle"
                             /\ t # h => pc'[t] = pc[t]
      BY <1>0, <3>1, <3>2, WorkersAreThreads
    <3>4. \A j \in Jobs, r \in Result : Sent(j, r)' => Sent(j, r)
      BY <3>1, <3>2, <3>3, ResultFacts DEF Sent, Telling
    <3>5. \A j \in Jobs : Rank(stateFile.jobs[j]) <= Rank(stateFile'.jobs[j])
      BY <1>0, <3>1 DEF Copies
    <3>6. \A t \in Workers : pc'[t] \in Busy => pc'[t] = pc[t] /\ JobOf(t)' = JobOf(t)
      BY <3>2, <3>3 DEF Busy
    <3>7. /\ OutputRan' /\ DeniedStays' /\ InterruptedStays'
          /\ RunningAnnounced' /\ ExecutingRan'
      BY <3>1, <3>4, <3>5, <3>6, AnswersShift DEF Copies, Known
    <3>8. pc[Main] = "idle" /\ pc'[Main] = "idle"
      BY <1>0, <3>1, <3>2, ThreadFacts, MainIsIdle DEF WaitingPc
    <3>9. BootFirst' /\ InterruptedRecorded'
      BY <3>1, <3>4, <3>8, ResultFacts DEF Answers, BootFirst, InterruptedRecorded
    <3>10. ClaimRecorded'
      BY <3>1, <3>6 DEF Answers, ClaimRecorded
    <3> QED
      BY <3>7, <3>9, <3>10 DEF Answers
  <2> QED
    BY <2>1, <2>2
<1>4. CASE TelemetryWrite
  <2>1. /\ Telemetry \in Thread /\ Telemetry \notin Workers /\ Telemetry # Http
        /\ pc[Telemetry] \notin WaitingPc /\ "w_other" \in WaitingPc
        /\ WriteState(Telemetry, state, "w_other") /\ up /\ pc[Main] = "idle"
        /\ UNCHANGED <<up, fileVars, result, httpVars, linkVars, pastVars>>
    BY <1>4, ThreadFacts DEF TelemetryWrite, WaitingPc, Serving
  <2>2. /\ state' = state /\ pc' = [pc EXCEPT ![Telemetry] = "w_other"]
        /\ (queue # <<>> => Head(queue') = Head(queue))
    BY <2>1, EnqueueFacts
  <2>3. \A t \in Workers : pc'[t] = pc[t] /\ JobOf(t)' = JobOf(t)
    BY <1>0, <2>1, <2>2, JobKept, WorkersAreThreads
  <2>4. \A j \in Jobs, r \in Result : Sent(j, r)' => Sent(j, r)
    BY <2>1, <2>3 DEF Sent
  <2>5. \A t \in Thread : pc[t] \in WaitingPc => pc'[t] = pc[t] /\ JobOf(t)' = JobOf(t)
    BY <1>0, <2>1, <2>2 DEF JobOf
  <2>6. pc'[Main] = pc[Main] /\ (writing => Head(queue') = Head(queue))
    BY <1>0, <2>1, <2>2, HeadWaits, ThreadFacts
  <2> QED
    BY <2>1, <2>2, <2>3, <2>4, <2>5, <2>6, AnswersQuiet
<1> QED
  BY <1>1, <1>2, <1>3, <1>4 DEF Disk

LEMMA AnswersProcess == Control /\ Records /\ Answers /\ Process => Answers'
<1> SUFFICES ASSUME Control, Records, Answers, Process PROVE Answers'
  OBVIOUS
<1>1. CASE Boot
  <2> DEFINE s == markInterruptedJobs(stateFile)
  <2>1. /\ pc = AllIdle /\ tmpFile = stateFile /\ ~writing /\ state = stateFile
        /\ stateFile \in AgentState /\ ~up
    BY <1>1 DEF Boot, Control, TypeOK, DownIsClean, Answers, BootFirst
  <2>2. /\ UNCHANGED <<fileVars, result, httpVars, linkVars, pastVars>> /\ state' = s
        /\ \/ pc' = pc /\ s = stateFile
           \/ pc' = [pc EXCEPT ![Main] = "w_boot"]
        /\ up'
    BY <1>1 DEF Boot, WriteState
  <2>3. \A j \in Jobs :
           \/ /\ s.jobs[j] = stateFile.jobs[j]
              /\ s.pendingResults[j] = stateFile.pendingResults[j]
           \/ /\ stateFile.jobs[j] = "running" /\ s.jobs[j] = "result_pending"
              /\ stateFile.pendingResults[j] = NoResult
              /\ s.pendingResults[j] = "interrupted"
    BY DEF markInterruptedJobs
  <2> HIDE DEF s
  <2>4. \A t \in Thread : t # Main => pc'[t] = "idle" /\ pc[t] = "idle"
    BY <2>1, <2>2, CleanFacts
  <2>5. \A t \in Workers : pc'[t] = "idle" /\ pc[t] = "idle"
    BY <2>4, ThreadFacts, WorkersAreThreads
  <2>6. \A j \in Jobs : Free(j)'
    BY <2>5 DEF Free, Busy
  <2>7. \A j \in Jobs, r \in Result : Sent(j, r)' => Sent(j, r)
    BY <2>2, <2>5 DEF Sent, Telling
  <2>8. \A j \in Jobs, r \in Result : Kept(j, r)' =>
           \/ Kept(j, r)
           \/ r = "interrupted" /\ stateFile.jobs[j] = "running"
    BY <2>1, <2>2, <2>3 DEF Kept, Copies
  <2>9. OutputRan' /\ DeniedStays'
    BY <2>2, <2>6, <2>7, <2>8, ResultFacts
       DEF Answers, OutputRan, DeniedStays, Known
  <2>10. InterruptedStays'
    <3> SUFFICES ASSUME NEW j \in Jobs, Known(j, "interrupted")'
                 PROVE  j \in announced /\ ~Kept(j, "output")'
      BY <2>2, <2>6 DEF InterruptedStays
    <3>1. ~Kept(j, "output") => ~Kept(j, "output")'
      BY <2>8, ResultFacts
    <3>2. CASE Known(j, "interrupted")
      BY <3>1, <3>2 DEF Answers, InterruptedStays
    <3>3. CASE stateFile.jobs[j] = "running"
      <4>1. j \in announced
        BY <3>3 DEF Answers, RunningAnnounced, Copies
      <4>2. stateFile.pendingResults[j] = NoResult
        BY <3>3 DEF Records, PendingAgrees, PendingIff
      <4>3. ~Kept(j, "output")
        BY <2>1, <4>2, ResultFacts DEF Kept, Copies
      <4> QED
        BY <3>1, <4>1, <4>3
    <3> QED
      BY <2>7, <2>8, <3>2, <3>3, ResultFacts DEF Known
  <2>11. RunningAnnounced' /\ ExecutingRan'
    BY <2>1, <2>2, <2>3, <2>5 DEF Answers, RunningAnnounced, ExecutingRan, Copies
  <2>12. BootFirst'
    <3>1. pc'[Main] # "idle" => pc'[Main] = "w_boot"
      BY <2>1, <2>2, CleanFacts, ThreadFacts
    <3>2. session = "down"
      BY <1>1, <2>1 DEF Answers, BootFirst
    <3> QED
      BY <2>1, <2>2, <2>4, <3>1, <3>2 DEF BootFirst
  <2>13. InterruptedRecorded'
    <3>1. ASSUME NEW j \in Jobs, pc'[Main] = "idle",
                 state'.pendingResults[j] = "interrupted"
          PROVE  Rank(stateFile'.jobs[j]) >= 3
      <4>1. state' = stateFile
        BY <2>1, <2>2, <3>1, CleanFacts, ThreadFacts
      <4>2. stateFile.jobs[j] = "result_pending"
        BY <3>1, <4>1, ResultFacts DEF Records, PendingAgrees, PendingIff
      <4> QED
        BY <2>2, <4>2, RankFacts
    <3> QED
      BY <2>2, <2>7, <3>1, ResultFacts DEF Answers, InterruptedRecorded
  <2>14. ClaimRecorded'
    BY <2>1, <2>2, <2>5 DEF ClaimRecorded, Busy
  <2> QED
    BY <2>9, <2>10, <2>11, <2>12, <2>13, <2>14 DEF Answers
<1>2. CASE Kill \/ ExitForUpdate
  BY <1>2, AnswersDies DEF Kill, ExitForUpdate
<1> QED
  BY <1>1, <1>2 DEF Process

\* A thread moves a job's status on and awaits the write. Nothing was told of
\* a job that enters the table; a job that is given a result was its work.
LEMMA AnswersWrite ==
    ASSUME Control, Records, Answers, NEW t \in Thread, NEW j \in Jobs,
           NEW status \in JobStatus, NEW pending \in Result \cup {NoResult},
           NEW wait \in WaitingPc, pc[t] \notin WaitingPc,
           t # Main, up, pc[Main] = "idle",
           WriteState(t, WithJob(state, j, status, pending), wait),
           UNCHANGED <<up, fileVars, runs, hubResults, todo, session, wire>>,
           announced \subseteq announced',
           status = "running" => j \in announced',
           t # Http => httpJob' = httpJob,
           \A u \in Thread : u # t => result'[u] = result[u],
           t \in Workers /\ wait = "w_result" => JobOf(t)' = j /\ result'[t] = pending,
           pending # "interrupted",
           pending = "output" =>
              runs[j] > 0 /\ t \in Workers /\ pc[t] \in Busy /\ JobOf(t) = j,
           pending = "denied" =>
              /\ runs[j] = 0 /\ Rank(stateFile.jobs[j]) >= 1 /\ wait \notin Busy
              /\ \A u \in Workers : u # t /\ pc[u] \in Busy => JobOf(u) # j,
           t \in Workers /\ wait \in Busy =>
              /\ JobOf(t)' = j
              /\ state.jobs[j] = "absent" \/ (pc[t] \in Busy /\ JobOf(t) = j)
              /\ wait # "w_claim" => Rank(stateFile.jobs[j]) >= 1
    PROVE  Answers'
<1>1. /\ state' = WithJob(state, j, status, pending)
      /\ pc' = [pc EXCEPT ![t] = wait] /\ pc \in [Thread -> Pc]
      /\ queue # <<>> => Head(queue') = Head(queue)
  BY EnqueueFacts DEF Control, TypeOK
<1>2. /\ state'.jobs = [state.jobs EXCEPT ![j] = status]
      /\ state'.pendingResults = [state.pendingResults EXCEPT ![j] = pending]
      /\ state.jobs \in [Jobs -> JobStatus]
      /\ state.pendingResults \in [Jobs -> Result \cup {NoResult}]
  <2>1. state \in AgentState
    BY DEF Control, TypeOK
  <2>2. /\ state.jobs \in [Jobs -> JobStatus]
        /\ state.pendingResults \in [Jobs -> Result \cup {NoResult}]
    BY <2>1 DEF AgentState
  <2> QED
    BY <1>1, <2>1, <2>2, WithJobFields
<1>3. \A u \in Workers : u # t =>
         pc'[u] = pc[u] /\ JobOf(u)' = JobOf(u) /\ result'[u] = result[u]
  BY <1>1, WorkersAreThreads, ThreadFacts DEF JobOf
<1>4. t \in Workers => pc'[t] = wait
  BY <1>1
<1>5. \A i \in Jobs, r \in Result : Kept(i, r)' => Kept(i, r) \/ (i = j /\ r = pending)
  BY <1>2 DEF Kept, Copies
<1>6. \A i \in Jobs, r \in Result : Sent(i, r)' => Sent(i, r) \/ (i = j /\ r = pending)
  <2> SUFFICES ASSUME NEW i \in Jobs, NEW r \in Result, Sent(i, r)'
               PROVE  Sent(i, r) \/ (i = j /\ r = pending)
    OBVIOUS
  <2>1. CASE \/ todo'[i] = r \/ <<i, r>> \in wire' \/ r \in hubResults'[i]
    BY <2>1 DEF Sent
  <2>2. ASSUME NEW u \in Workers, pc'[u] \in Telling, JobOf(u)' = i, result'[u] = r
        PROVE  Sent(i, r) \/ (i = j /\ r = pending)
    <3>1. CASE u = t
      BY <1>4, <2>2, <3>1, ResultFacts
    <3>2. CASE u # t
      BY <1>3, <2>2, <3>2 DEF Sent
    <3> QED
      BY <3>1, <3>2
  <2> QED
    BY <2>1, <2>2 DEF Sent
<1>7. \A i \in Jobs, r \in Result : Known(i, r)' => Known(i, r) \/ (i = j /\ r = pending)
  BY <1>5, <1>6 DEF Known
<1>8. \A i \in Jobs : Free(i) /\ ~(i = j /\ state.jobs[j] = "absent") => Free(i)'
  <2> SUFFICES ASSUME NEW i \in Jobs, Free(i), ~(i = j /\ state.jobs[j] = "absent"),
                      NEW u \in Workers, pc'[u] \in Busy
               PROVE  JobOf(u)' # i
    BY DEF Free
  <2>1. CASE u = t
    BY <1>4, <2>1 DEF Free
  <2>2. CASE u # t
    BY <1>3, <2>2 DEF Free
  <2> QED
    BY <2>1, <2>2
<1>9. OutputRan'
  BY <1>7, ResultFacts DEF Answers, OutputRan
<1>10. DeniedStays'
  <2> SUFFICES ASSUME NEW i \in Jobs, Known(i, "denied")'
               PROVE  runs[i] = 0 /\ Free(i)' /\ Rank(stateFile.jobs[i]) >= 1
    BY DEF DeniedStays
  <2>1. CASE Known(i, "denied")
    BY <1>8, <2>1, AbsentIsUntold DEF Answers, DeniedStays
  <2>2. CASE i = j /\ pending = "denied"
    BY <1>3, <1>4, <2>2 DEF Free
  <2> QED
    BY <1>7, <2>1, <2>2, ResultFacts
<1>11. InterruptedStays'
  <2> SUFFICES ASSUME NEW i \in Jobs, Known(i, "interrupted")'
               PROVE  i \in announced' /\ Free(i)' /\ ~Kept(i, "output")'
    BY DEF InterruptedStays
  <2>1. Known(i, "interrupted")
    BY <1>7, ResultFacts
  <2>2. i \in announced /\ Free(i) /\ ~Kept(i, "output")
    BY <2>1 DEF Answers, InterruptedStays
  <2>3. ~(i = j /\ state.jobs[j] = "absent") /\ ~(i = j /\ pending = "output")
    BY <2>1, <2>2, AbsentIsUntold DEF Free
  <2> QED
    BY <1>5, <1>8, <2>2, <2>3, ResultFacts
<1>12. BootFirst'
  <2>1. pc'[Main] = "idle"
    BY <1>1, ThreadFacts
  <2> QED
    BY <2>1 DEF BootFirst
<1>13. InterruptedRecorded'
  BY <1>2, <1>6, ResultFacts DEF Answers, InterruptedRecorded
<1>14. RunningAnnounced'
  BY <1>2 DEF Answers, RunningAnnounced, Copies
<1>15. ExecutingRan'
  BY <1>3, <1>4, ResultFacts DEF Answers, ExecutingRan
<1>16. ClaimRecorded'
  <2>1. \A u \in Workers : pc'[u] \in Busy \ {"w_claim"} =>
           Rank(stateFile'.jobs[JobOf(u)']) >= 1
    BY <1>3, <1>4 DEF Answers, ClaimRecorded
  <2>2. writing => /\ Head(queue') = Head(queue)
                   /\ Head(queue) # t
    BY <1>1, HeadWaits
  <2> QED
    BY <1>3, <2>1, <2>2 DEF Answers, ClaimRecorded
<1> QED
  BY <1>9, <1>10, <1>11, <1>12, <1>13, <1>14, <1>15, <1>16 DEF Answers

\* The HTTP loop moves on, away from any work.
LEMMA AnswersHttp ==
    ASSUME Control, Records, Answers,
           UNCHANGED <<up, state, fileVars, queue, session, wire, runs, announced>>,
           up, pc[Main] = "idle",
           pc[Http] \notin WaitingPc,
           NEW to, pc' = [pc EXCEPT ![Http] = to], to \notin Busy,
           \A t \in Thread : t # Http => result'[t] = result[t],
           \A j \in Jobs, r \in Result : todo'[j] = r =>
              todo[j] = r \/ state.pendingResults[j] = r,
           \A j \in Jobs, r \in Result : r \in hubResults'[j] => Sent(j, r),
           to \in Telling /\ httpJob' \in Jobs /\ result'[Http] \in Result =>
              Sent(httpJob', result'[Http])
    PROVE  Answers'
<1>1. pc \in [Thread -> Pc] /\ Http \in Thread
  BY ThreadFacts DEF Control, TypeOK
<1>2. \A t \in Workers : t # Http =>
         pc'[t] = pc[t] /\ JobOf(t)' = JobOf(t) /\ result'[t] = result[t]
  BY <1>1, WorkersAreThreads DEF JobOf
<1>3. pc'[Http] = to /\ JobOf(Http)' = httpJob' /\ pc'[Main] = pc[Main]
  BY <1>1, ThreadFacts DEF JobOf
<1>4. ASSUME NEW j \in Jobs, NEW r \in Result, Sent(j, r)'
      PROVE  Sent(j, r) \/ state.pendingResults[j] = r
  <2>1. CASE \/ todo'[j] = r \/ <<j, r>> \in wire' \/ r \in hubResults'[j]
    BY <2>1 DEF Sent
  <2>2. ASSUME NEW u \in Workers, pc'[u] \in Telling, JobOf(u)' = j, result'[u] = r
        PROVE  Sent(j, r)
    <3>1. CASE u = Http
      BY <1>3, <2>2, <3>1
    <3>2. CASE u # Http
      BY <1>2, <2>2, <3>2 DEF Sent
    <3> QED
      BY <3>1, <3>2
  <2> QED
    BY <1>4, <2>1, <2>2 DEF Sent
<1>5. \A t \in Workers : pc'[t] \in Busy => pc'[t] = pc[t] /\ JobOf(t)' = JobOf(t)
  BY <1>2, <1>3
<1>6. \A t \in Thread : pc[t] \in WaitingPc => pc'[t] = pc[t] /\ JobOf(t)' = JobOf(t)
  BY <1>1 DEF JobOf
<1> QED
  BY <1>3, <1>4, <1>5, <1>6, AnswersQuiet

LEMMA AnswersBeginFlush ==
    ASSUME Control, Records, Answers, NEW next, BeginFlush(next),
           pc[Http] \notin WaitingPc, up, pc[Main] = "idle",
           UNCHANGED <<up, state, fileVars, queue, linkVars, exiting, pastVars>>
    PROVE  Answers'
<1>1. /\ result \in [Thread -> Result \cup {NoResult}]
      /\ pc' = [pc EXCEPT ![Http] = "flushing"]
      /\ result' = [result EXCEPT ![Http] = NoResult]
      /\ todo' = state.pendingResults
  BY DEF BeginFlush, Control, TypeOK
<1>2. "flushing" \notin Busy /\ "flushing" \notin Telling
  BY DEF Busy, Telling
<1>3. \A j \in Jobs, r \in Result : r \in hubResults'[j] => Sent(j, r)
  BY DEF Sent
<1> QED
  BY <1>1, <1>2, <1>3, AnswersHttp

LEMMA AnswersFlush == Control /\ Records /\ Answers /\ Flush => Answers'
<1> SUFFICES ASSUME Control, Records, Answers, Flush PROVE Answers'
  OBVIOUS
<1>0. /\ pc \in [Thread -> Pc] /\ result \in [Thread -> Result \cup {NoResult}]
      /\ todo \in [Jobs -> Result \cup {NoResult}] /\ Http \in Thread /\ Http # Main
      /\ httpJob \in Jobs \cup {NoJob} /\ hubResults \in [Jobs -> SUBSET Result]
      /\ {"idle", "flushing", "posting", "posted"} \cap WaitingPc = {}
      /\ {"claiming", "posting", "posted"} \cap Busy = {}
      /\ "claiming" \notin Telling /\ {"posting", "posted"} \subseteq Telling
  BY ThreadFacts DEF Control, TypeOK, WaitingPc, Busy, Telling
<1>1. \A j \in Jobs, r \in Result : r \in hubResults[j] => Sent(j, r)
  BY DEF Sent
<1>2. CASE Poll
  BY <1>0, <1>2, AnswersBeginFlush DEF Poll, Serving
<1>3. pc[Http] # "idle" => up /\ pc[Main] = "idle"
  BY <1>0, MainIsIdle
<1>4. pc[Http] \in {"posting", "posted"} /\ httpJob \in Jobs
         /\ result[Http] \in Result => Sent(httpJob, result[Http])
  BY <1>0, WorkersAreThreads, ThreadFacts DEF Sent, JobOf
<1>5. CASE FlushDone
  <2>1. CASE afterFlush = "claim"
    BY <1>0, <1>1, <1>3, <1>5, <2>1, AnswersHttp DEF FlushDone
  <2>2. CASE afterFlush # "claim"
    BY <1>0, <1>5, <2>2, AnswersEndCycle DEF FlushDone
  <2> QED
    BY <2>1, <2>2
<1>6. CASE PostReachesHub
  <2>1. /\ httpJob \in Jobs /\ result[Http] \in Result
        /\ hubResults' = [hubResults EXCEPT ![httpJob] = @ \cup {result[Http]}]
    BY <1>0, <1>6 DEF PostReachesHub, Control, AnswerHasResult
  <2>2. Sent(httpJob, result[Http])
    BY <1>4, <1>6, <2>1 DEF PostReachesHub
  <2>3. \A j \in Jobs, r \in Result : r \in hubResults'[j] => Sent(j, r)
    BY <1>0, <1>1, <2>1, <2>2
  <2> QED
    BY <1>0, <1>3, <1>6, <2>2, <2>3, AnswersHttp DEF PostReachesHub
<1>7. CASE PostFails
  BY <1>0, <1>7, AnswersEndCycle DEF PostFails
<1>8. CASE PostConfirmed
  <2>1. /\ httpJob \in Jobs /\ pc[Http] = "posted"
        /\ WriteState(Http, WithJob(state, httpJob, "finished", NoResult), "w_sent")
        /\ UNCHANGED <<up, fileVars, result, httpVars, linkVars, exiting, pastVars>>
    BY <1>8 DEF PostConfirmed, Control, AnswerHasResult
  <2>2. /\ "finished" \in JobStatus /\ "w_sent" \in WaitingPc /\ "w_sent" \notin Busy
        /\ NoResult \notin {"interrupted", "output", "denied"}
    BY ResultFacts DEF JobStatus, WaitingPc, Busy
  <2> QED
    BY <1>0, <1>3, <2>1, <2>2, AnswersWrite
<1>9. ASSUME NEW j \in Jobs, PostResult(j) PROVE Answers'
  <2>1. /\ todo[j] \in Result /\ result'[Http] = todo[j] /\ httpJob' = j
        /\ todo' = [todo EXCEPT ![j] = NoResult]
        /\ pc' = [pc EXCEPT ![Http] = "posting"] /\ pc[Http] = "flushing"
        /\ \A t \in Thread : t # Http => result'[t] = result[t]
        /\ UNCHANGED <<up, state, fileVars, queue, linkVars, pastVars>>
    BY <1>0, <1>9 DEF PostResult
  <2>2. Sent(j, todo[j])
    BY DEF Sent
  <2>3. \A i \in Jobs, r \in Result : todo'[i] = r => todo[i] = r
    BY <1>0, <2>1, ResultFacts
  <2> QED
    BY <1>0, <1>1, <1>3, <2>1, <2>2, <2>3, AnswersHttp
<1> QED
  BY <1>2, <1>5, <1>6, <1>7, <1>8, <1>9 DEF Flush

LEMMA AnswersArrive == Control /\ Records /\ Answers /\ Arrive => Answers'
<1> SUFFICES ASSUME Control, Records, Answers, Arrive PROVE Answers'
  OBVIOUS
<1>0. /\ pc \in [Thread -> Pc] /\ Http \in Thread /\ Http # Main
      /\ "claiming" \notin WaitingPc /\ "idle" \notin WaitingPc
      /\ "w_claim" \in WaitingPc /\ "claimed" \in JobStatus /\ "w_claim" # "w_result"
      /\ NoResult \notin {"interrupted", "output", "denied"}
  BY ThreadFacts, ResultFacts DEF Control, TypeOK, WaitingPc, JobStatus
<1>1. CASE ClaimNothing
  BY <1>0, <1>1, AnswersEndCycle DEF ClaimNothing
<1>2. ASSUME NEW j \in Jobs, ClaimDuplicate(j) PROVE Answers'
  BY <1>0, <1>2, AnswersEndCycle DEF ClaimDuplicate
<1>3. ASSUME NEW j \in Jobs, ClaimJob(j) PROVE Answers'
  <2>1. state.pendingResults[j] = NoResult /\ JobOf(Http)' = j
    BY <1>3, AbsentIsFree DEF ClaimJob, JobOf
  <2>2. up /\ pc[Main] = "idle"
    BY <1>0, <1>3, MainIsIdle DEF ClaimJob
  <2> QED
    BY <1>0, <1>3, <2>1, <2>2, AnswersWrite DEF ClaimJob
<1>4. ASSUME NEW j \in Jobs, SessionRequest(j) PROVE Answers'
  <2>1. state.jobs[j] = "absent"
    BY <1>4 DEF SessionRequest, Records, PendingAgrees, PendingIff
  <2>2. /\ SessionJob(j) \in Thread /\ SessionJob(j) # Main /\ SessionJob(j) # Http
        /\ JobOf(SessionJob(j))' = j
    BY ThreadFacts DEF JobOf
  <2> QED
    BY <1>0, <1>4, <2>1, <2>2, AnswersWrite DEF SessionRequest, Serving
<1>5. ASSUME NEW j \in Jobs, SessionRequestAgain(j) PROVE Answers'
  <2>1. /\ UNCHANGED <<up, state, fileVars, queue, pc, result, httpVars, session,
                       pastVars>>
        /\ up /\ pc[Main] = "idle"
        /\ wire' = wire \cup {<<j, state.pendingResults[j]>>}
    BY <1>5 DEF SessionRequestAgain, Serving
  <2>2. \A t \in Workers : JobOf(t)' = JobOf(t)
    BY <2>1, JobKept
  <2>3. \A i \in Jobs, r \in Result : Sent(i, r)' =>
           Sent(i, r) \/ state.pendingResults[i] = r
    BY <2>1, <2>2 DEF Sent
  <2>4. \A t \in Thread : JobOf(t)' = JobOf(t)
    BY <2>1 DEF JobOf
  <2> QED
    BY <2>1, <2>2, <2>3, <2>4, AnswersQuiet
<1> QED
  BY <1>1, <1>2, <1>3, <1>4, <1>5 DEF Arrive

\* One thread moves between two points at which it awaits no write.
LEMMA AnswersStep1 ==
    ASSUME Control, Records, Answers, NEW t \in Thread, t # Main, NEW to,
           pc' = [pc EXCEPT ![t] = to],
           pc[t] \notin WaitingPc, pc[t] # "idle",
           to \notin Telling, to # "executing",
           \A u \in Thread : u # t => result'[u] = result[u],
           UNCHANGED <<up, state, fileVars, queue, runs, announced, hubResults,
                       session, httpJob, todo>>,
           \A j \in Jobs, r \in Result : <<j, r>> \in wire' => Sent(j, r),
           t \in Workers /\ to \in Busy => pc[t] \in Busy
    PROVE  Answers'
<1>1. pc \in [Thread -> Pc] /\ pc'[Main] = pc[Main] /\ up /\ pc[Main] = "idle"
  BY MainIsIdle, ThreadFacts DEF Control, TypeOK
<1>2. \A u \in Workers : JobOf(u)' = JobOf(u)
  BY JobKept
<1>3. \A u \in Workers : /\ u = t => pc'[u] = to
                         /\ u # t => pc'[u] = pc[u] /\ result'[u] = result[u]
  BY <1>1, WorkersAreThreads
<1>4. ASSUME NEW j \in Jobs, NEW r \in Result, Sent(j, r)'
      PROVE  Sent(j, r)
  <2>1. CASE \/ todo'[j] = r \/ <<j, r>> \in wire' \/ r \in hubResults'[j]
    BY <2>1 DEF Sent
  <2>2. CASE \E u \in Workers : /\ pc'[u] \in Telling /\ JobOf(u)' = j
                                /\ result'[u] = r
    BY <1>2, <1>3, <2>2 DEF Sent
  <2> QED
    BY <1>4, <2>1, <2>2 DEF Sent
<1>5. \A u \in Workers : pc'[u] \in Busy =>
         /\ pc[u] \in Busy
         /\ pc'[u] = "executing" => pc[u] = "executing"
         /\ pc[u] = "w_claim" => pc'[u] = "w_claim"
  BY <1>3 DEF WaitingPc
<1>6. \A u \in Thread : pc[u] \in WaitingPc => pc'[u] = pc[u] /\ JobOf(u)' = JobOf(u)
  BY <1>1 DEF JobOf
<1> QED
  BY <1>1, <1>2, <1>4, <1>5, <1>6, AnswersQuiet

LEMMA AnswersMarkRunning ==
    ASSUME Control, Records, Answers, NEW t \in Workers, MarkRunning(t),
           pc[t] \in {"starting", "authorizing"}
    PROVE  Answers'
<1> PICK j \in Jobs : j = JobOf(t)
  BY DEF Control, BusyHasJob, Busy
<1>1. /\ t \in Thread /\ t # Main /\ pc[t] \notin WaitingPc /\ pc[t] # "idle"
      /\ pc[t] \in Busy \ {"w_claim"} /\ state.jobs[j] = "claimed"
      /\ Rank(stateFile.jobs[j]) >= 1
  BY WorkersAreThreads, ThreadFacts
     DEF Records, BusyHolds, Holds, Busy, WaitingPc, Answers, ClaimRecorded
<1>2. state.pendingResults[j] = NoResult
  BY <1>1 DEF Records, PendingAgrees, PendingIff
<1>3. /\ WriteState(t, WithJob(state, j, "running", NoResult), "w_running")
      /\ UNCHANGED <<up, fileVars, result, httpVars, linkVars, runs, hubResults>>
      /\ announced' = announced \cup {j}
  BY <1>2 DEF MarkRunning
<1>4. JobOf(t)' = j
  BY <1>3, JobKept
<1>5. /\ up /\ pc[Main] = "idle" /\ "running" \in JobStatus
      /\ "w_running" \in WaitingPc /\ NoResult \in Result \cup {NoResult}
      /\ "w_running" # "w_result" /\ NoResult \notin {"interrupted", "output", "denied"}
  BY <1>1, MainIsIdle, ResultFacts DEF JobStatus, WaitingPc
<1> QED
  BY <1>1, <1>3, <1>4, <1>5, AnswersWrite

LEMMA AnswersBegin == Control /\ Records /\ Answers /\ Begin => Answers'
<1> SUFFICES ASSUME Control, Records, Answers, Begin PROVE Answers'
  OBVIOUS
<1> USE WorkersAreThreads
<1>0. /\ pc \in [Thread -> Pc] /\ result \in [Thread -> Result \cup {NoResult}]
      /\ {"authorizing", "starting", "ready"} \subseteq Busy
      /\ WaitingPc \cap {"authorizing", "starting", "ready"} = {}
      /\ Telling \cap {"authorizing", "starting", "ready"} = {}
      /\ \A t \in Workers : t # Main
      /\ \A j \in Jobs, r \in Result : <<j, r>> \in wire => Sent(j, r)
  BY ThreadFacts DEF Control, TypeOK, Busy, WaitingPc, Telling, Sent
<1>1. CASE AllowHttp
  <2>1. /\ pc[Http] = "authorizing" /\ Http \in Thread /\ Http \in Workers
        /\ pc' = [pc EXCEPT ![Http] = "starting"]
        /\ UNCHANGED <<up, state, fileVars, queue, result, httpVars, linkVars, pastVars>>
    BY <1>1, ThreadFacts DEF AllowHttp
  <2> QED
    BY <1>0, <2>1, AnswersStep1
<1>2. CASE StartHttp
  BY <1>2, ThreadFacts, AnswersMarkRunning DEF StartHttp
<1>3. CASE StartHttpFails
  BY <1>0, <1>3, AnswersEndCycle DEF StartHttpFails
<1>4. ASSUME NEW j \in Jobs, AllowSession(j) PROVE Answers'
  BY <1>4, ThreadFacts, AnswersMarkRunning DEF AllowSession
<1>5. ASSUME NEW j \in Jobs, AllowSessionFails(j) PROVE Answers'
  BY <1>5, AnswersDies DEF AllowSessionFails
<1>6. ASSUME NEW t \in Workers, Deny(t) PROVE Answers'
  <2> DEFINE to == IF t = Http THEN "starting" ELSE "ready"
  <2>1. /\ pc[t] = "authorizing" /\ t \in Thread
        /\ pc' = [pc EXCEPT ![t] = to] /\ result' = [result EXCEPT ![t] = "denied"]
        /\ UNCHANGED <<up, state, fileVars, queue, httpVars, linkVars, pastVars>>
    BY <1>6 DEF Deny
  <2>2. to \in {"starting", "ready"}
    OBVIOUS
  <2> HIDE DEF to
  <2> QED
    BY <1>0, <2>1, <2>2, AnswersStep1
<1> QED
  BY <1>1, <1>2, <1>3, <1>4, <1>5, <1>6 DEF Begin

LEMMA AnswersRecordResult ==
    ASSUME Control, Records, Answers, NEW t \in Workers,
           NEW r \in {"output", "denied"}, RecordResult(t, r),
           pc[t] = IF r = "output" THEN "executing" ELSE "ready"
    PROVE  Answers'
<1> DEFINE j == JobOf(t)
<1>1. /\ j \in Jobs /\ t \in Thread /\ t # Main
      /\ pc[t] \notin WaitingPc /\ pc[t] # "idle" /\ pc[t] \in Busy
      /\ Rank(stateFile.jobs[j]) >= 1
      /\ \A u \in Workers : u # t /\ pc[u] \in Busy => JobOf(u) # j
      /\ r = "output" => runs[j] > 0
      /\ r = "denied" => runs[j] = 0
  BY WorkersAreThreads, ThreadFacts
     DEF Control, BusyHasJob, Records, BusyHolds, Holds, BusyApart, Busy, WaitingPc,
         Answers, ExecutingRan, ClaimRecorded
<1>2. /\ WriteState(t, WithJob(state, j, "result_pending", r), "w_result")
      /\ UNCHANGED <<up, fileVars, httpVars, linkVars, pastVars>>
      /\ result' = [result EXCEPT ![t] = r]
      /\ result \in [Thread -> Result \cup {NoResult}]
  BY DEF RecordResult, Control, TypeOK
<1>3. JobOf(t)' = j
  BY <1>2, JobKept
<1> HIDE DEF j
<1>4. /\ up /\ pc[Main] = "idle" /\ "result_pending" \in JobStatus
      /\ "result_pending" # "running" /\ r \in Result /\ r # "interrupted"
      /\ "w_result" \in WaitingPc /\ "w_result" \notin Busy
  BY <1>1, MainIsIdle, ResultFacts DEF JobStatus, Busy
<1>5. JobOf(t) = j
  BY DEF j
<1> QED
  BY <1>1, <1>2, <1>3, <1>4, <1>5, AnswersWrite

LEMMA AnswersRejects ==
    ASSUME Control, Records, Answers, NEW t \in Thread \ {Telemetry}, Rejects(t),
           pc[t] \notin WaitingPc, pc[t] # "idle",
           t = Http => UNCHANGED <<fileVars, queue>>
    PROVE  Answers'
<1>1. CASE t = Http
  BY <1>1, AnswersEndCycle DEF Rejects
<1>2. CASE t # Http
  BY <1>2, AnswersDies DEF Rejects
<1> QED
  BY <1>1, <1>2

LEMMA AnswersWork == Control /\ Records /\ Answers /\ Work => Answers'
<1> SUFFICES ASSUME Control, Records, Answers, Work PROVE Answers'
  OBVIOUS
<1> USE WorkersAreThreads
<1>0. /\ pc \in [Thread -> Pc] /\ result \in [Thread -> Result \cup {NoResult}]
      /\ "idle" \notin Busy /\ "idle" \notin Telling /\ "ready" \in Busy
      /\ WaitingPc \cap {"ready", "executing", "respond", "idle"} = {}
      /\ "executing" \notin Telling /\ "respond" \in Telling
      /\ Http \in Thread /\ Http # Main /\ Main \in Thread
  BY ThreadFacts DEF Control, TypeOK, Busy, WaitingPc, Telling
<1>1. CASE RespondHttp
  <2>1. up /\ pc[Main] = "idle"
    BY <1>0, <1>1, MainIsIdle DEF RespondHttp
  <2> QED
    BY <1>0, <1>1, <2>1, AnswersBeginFlush DEF RespondHttp
<1>2. ASSUME NEW j \in Jobs, RespondSession(j) PROVE Answers'
  <2> DEFINE t == SessionJob(j)
  <2>1. /\ t \in Thread /\ t \in Workers /\ t # Main /\ JobOf(t) = j
        /\ pc[t] = "respond"
        /\ pc' = [pc EXCEPT ![t] = "idle"]
        /\ \A u \in Thread : u # t => result'[u] = result[u]
        /\ UNCHANGED <<up, state, fileVars, queue, httpVars, session, pastVars>>
        /\ wire' \subseteq wire \cup {<<j, result[t]>>}
    BY <1>0, <1>2, ThreadFacts DEF RespondSession, JobOf
  <2> HIDE DEF t
  <2>2. \A i \in Jobs, r \in Result : <<i, r>> \in wire' => Sent(i, r)
    BY <1>0, <2>1 DEF Sent
  <2> QED
    BY <1>0, <2>1, <2>2, AnswersStep1
\* The handler is called: nobody was told anything that speaks against it.
<1>3. ASSUME NEW t \in Workers, Execute(t) PROVE Answers'
  <2> DEFINE j == JobOf(t)
  <2>1. /\ j \in Jobs /\ runs[j] = 0 /\ pc[t] = "ready" /\ t \in Thread /\ t # Main
        /\ \A u \in Workers : u # t /\ pc[u] \in Busy => JobOf(u) # j
        /\ Rank(stateFile.jobs[j]) >= 1
    BY <1>0, <1>3, ThreadFacts
       DEF Execute, Control, BusyHasJob, Records, BusyHolds, Holds, BusyApart,
           Answers, ClaimRecorded, Busy
  <2>2. /\ pc' = [pc EXCEPT ![t] = "executing"]
        /\ runs' = [runs EXCEPT ![j] = @ + 1] /\ runs \in [Jobs -> Nat]
        /\ UNCHANGED <<up, state, fileVars, queue, result, httpVars, linkVars,
                       announced, hubResults>>
    BY <1>3 DEF Execute, Control, TypeOK
  <2>3. \A u \in Workers : JobOf(u)' = JobOf(u)
    BY <2>2, JobKept
  <2>4. j = JobOf(t)
    OBVIOUS
  <2> HIDE DEF j
  <2>5. up /\ pc[Main] = "idle" /\ pc'[Main] = "idle"
    BY <1>0, <2>1, <2>2, MainIsIdle
  <2>6. \A u \in Workers : /\ u = t => pc'[u] = "executing"
                           /\ u # t => pc'[u] = pc[u]
    BY <1>0, <2>2
  <2>7. \A i \in Jobs, r \in Result : Sent(i, r)' => Sent(i, r)
    BY <1>0, <2>2, <2>3, <2>6 DEF Sent
  <2>8. \A i \in Jobs, r \in Result : /\ Kept(i, r)' => Kept(i, r)
                                      /\ Known(i, r)' => Known(i, r)
    BY <2>2, <2>7 DEF Kept, Copies, Known
  <2>9. \A i \in Jobs : Free(i) => Free(i)' /\ i # j
    BY <1>0, <2>1, <2>3, <2>4, <2>6 DEF Free
  <2>10. OutputRan'
    BY <2>2, <2>8, ResultFacts DEF Answers, OutputRan
  <2>11. DeniedStays' /\ InterruptedStays'
    BY <2>2, <2>8, <2>9, ResultFacts DEF Answers, DeniedStays, InterruptedStays
  <2>12. BootFirst'
    BY <2>2, <2>5 DEF Answers, BootFirst
  <2>13. InterruptedRecorded' /\ RunningAnnounced'
    BY <2>2, <2>5, <2>7, ResultFacts
       DEF Answers, InterruptedRecorded, RunningAnnounced, Copies
  <2>14. ExecutingRan'
    <3> SUFFICES ASSUME NEW u \in Workers, pc'[u] = "executing"
                 PROVE  runs'[JobOf(u)] > 0
      BY <2>3 DEF ExecutingRan
    <3>1. CASE u = t
      BY <2>1, <2>2, <2>4, <3>1
    <3>2. CASE u # t
      <4>1. pc[u] = "executing" /\ JobOf(u) \in Jobs /\ JobOf(u) # j
        BY <2>1, <2>6, <3>2 DEF Control, BusyHasJob, Busy
      <4> QED
        BY <2>2, <4>1 DEF Answers, ExecutingRan
    <3> QED
      BY <3>1, <3>2
  <2>15. ClaimRecorded'
    <3>1. \A u \in Workers : pc'[u] \in Busy \ {"w_claim"}
             => Rank(stateFile.jobs[JobOf(u)]) >= 1
      BY <2>1, <2>4, <2>6 DEF Answers, ClaimRecorded
    <3>2. writing => Head(queue) # t
      BY <1>0, <2>1, HeadWaits
    <3> QED
      BY <2>2, <2>3, <2>6, <3>1, <3>2 DEF Answers, ClaimRecorded
  <2> QED
    BY <2>10, <2>11, <2>12, <2>13, <2>14, <2>15 DEF Answers
<1>4. ASSUME NEW t \in Workers, ExecutionReturns(t) PROVE Answers'
  BY <1>4, AnswersRecordResult DEF ExecutionReturns
<1>5. ASSUME NEW t \in Workers, DeniedReturns(t) PROVE Answers'
  BY <1>5, AnswersRecordResult DEF DeniedReturns
<1>6. ASSUME NEW t \in Workers, ExecutionThrows(t) PROVE Answers'
  BY <1>0, <1>6, AnswersRejects, ThreadFacts DEF ExecutionThrows
<1> QED
  BY <1>1, <1>2, <1>3, <1>4, <1>5, <1>6 DEF Work

LEMMA AnswersLink == Control /\ Records /\ Answers /\ Link => Answers'
<1> SUFFICES ASSUME Control, Records, Answers, Link PROVE Answers'
  OBVIOUS
<1>1. CASE \/ Connect \/ flushSessionPending \/ Disconnect
           \/ \E j \in Jobs : HubReceives(j)
  <2>1. UNCHANGED <<up, state, fileVars, queue, pc, result, httpVars, runs, announced>>
    BY <1>1 DEF Connect, flushSessionPending, Disconnect, HubReceives
  <2>2. \A t \in Workers : JobOf(t)' = JobOf(t)
    BY <2>1, JobKept
  <2>3. \A t \in Thread : JobOf(t)' = JobOf(t)
    BY <2>1 DEF JobOf
  <2>4. (up /\ pc[Main] = "idle") \/ session' = session
    BY <1>1 DEF Connect, flushSessionPending, Disconnect, HubReceives, Serving,
                Answers, BootFirst
  <2>5. /\ hubResults \in [Jobs -> SUBSET Result]
        /\ \A j \in Jobs, r \in Result : <<j, r>> \in wire' =>
              <<j, r>> \in wire \/ (pc[Main] = "idle" /\ state.pendingResults[j] = r)
    BY <1>1 DEF Connect, flushSessionPending, Disconnect, HubReceives, Serving,
                Control, TypeOK
  <2>6. \A j \in Jobs, r \in Result : r \in hubResults'[j] =>
           r \in hubResults[j] \/ <<j, r>> \in wire
    <3>1. CASE Connect \/ flushSessionPending \/ Disconnect
      BY <3>1 DEF Connect, flushSessionPending, Disconnect
    <3>2. ASSUME NEW i \in Jobs, HubReceives(i)
          PROVE  \A j \in Jobs, r \in Result : r \in hubResults'[j] =>
                    r \in hubResults[j] \/ <<j, r>> \in wire
      <4> PICK s \in Result :
             /\ <<i, s>> \in wire
             /\ hubResults' = [hubResults EXCEPT ![i] = hubResults[i] \cup {s}]
        BY <3>2 DEF HubReceives
      <4> QED
        BY <2>5
    <3> QED
      BY <1>1, <3>1, <3>2
  <2>7. ASSUME NEW j \in Jobs, NEW r \in Result, Sent(j, r)'
        PROVE  Sent(j, r) \/ (pc[Main] = "idle" /\ state.pendingResults[j] = r)
    BY <2>1, <2>2, <2>5, <2>6, <2>7 DEF Sent
  <2> QED
    BY <2>1, <2>2, <2>3, <2>4, <2>7, AnswersQuiet
<1>2. ASSUME NEW j \in Jobs, ackSessionResult(j) PROVE Answers'
  <2> DEFINE t == AckJob(j)
  <2>1. /\ t \in Thread /\ t # Http /\ t \notin Workers /\ t # Main
        /\ pc[t] \notin WaitingPc /\ "w_ack" \in WaitingPc
    BY <1>2, ThreadFacts, WorkersAreThreads
       DEF ackSessionResult, WaitingPc, Workers
  <2>2. /\ WriteState(t, WithJob(state, j, "finished", NoResult), "w_ack")
        /\ UNCHANGED <<up, fileVars, httpVars, linkVars, pastVars>>
        /\ \A u \in Thread : u # t => result'[u] = result[u]
        /\ up /\ pc[Main] = "idle"
    BY <1>2, <2>1 DEF ackSessionResult, Control, TypeOK, Serving
  <2>3. /\ "finished" \in JobStatus /\ NoResult \in Result \cup {NoResult}
        /\ NoResult \notin {"interrupted", "output", "denied"}
    BY ResultFacts DEF JobStatus
  <2> HIDE DEF t
  <2> QED
    BY <2>1, <2>2, <2>3, AnswersWrite
<1> QED
  BY <1>1, <1>2 DEF Link

LEMMA AnswersUpdate == Control /\ Records /\ Answers /\ Update => Answers'
<1> SUFFICES ASSUME Control, Records, Answers, Update PROVE Answers'
  OBVIOUS
<1>0. /\ {"sent", "acked"} \cap WaitingPc = {}
      /\ {"flushing", "idle"} \cap Busy = {} /\ {"flushing", "idle"} \cap Telling = {}
      /\ \A j \in Jobs, r \in Result : <<j, r>> \in wire => Sent(j, r)
      /\ \A t \in Tellers : t \in Thread /\ t # Main /\ t # Telemetry
  BY ThreadFacts, WorkersAreThreads DEF WaitingPc, Busy, Telling, Sent
<1>1. ASSUME NEW t \in Tellers,
             NoActivation(t) \/ activatePreparedUpdate(t)
      PROVE  Answers'
  <2> DEFINE to == IF t = Http THEN "flushing" ELSE "idle"
  <2>1. /\ pc[t] \in {"sent", "acked"}
        /\ pc' = [pc EXCEPT ![t] = to]
        /\ \A u \in Thread : u # t => result'[u] = result[u]
        /\ UNCHANGED <<up, state, fileVars, queue, runs, announced, hubResults,
                       httpVars, linkVars>>
    BY <1>1, <1>0
       DEF NoActivation, activatePreparedUpdate, Continue, Control, TypeOK
  <2>2. to \in {"flushing", "idle"}
    OBVIOUS
  <2> HIDE DEF to
  <2> QED
    BY <1>0, <2>1, <2>2, AnswersStep1
<1>2. ASSUME NEW t \in Tellers, ActivationFails(t) PROVE Answers'
  BY <1>0, <1>2, AnswersRejects DEF ActivationFails
<1> QED
  BY <1>1, <1>2 DEF Update

LEMMA AnswersNext == Control /\ Records /\ Answers /\ [Next]_vars => Answers'
<1>1. Control /\ Records /\ Answers /\ Next => Answers'
  BY AnswersDisk, AnswersProcess, AnswersFlush, AnswersArrive, AnswersBegin,
     AnswersWork, AnswersLink, AnswersUpdate DEF Next
<1>2. ASSUME Control, Records, Answers, UNCHANGED vars PROVE Answers'
  <2>1. UNCHANGED <<up, state, fileVars, queue, pc, result, httpVars, linkVars,
                    pastVars>>
    BY <1>2 DEF vars
  <2>2. \A t \in Thread : JobOf(t)' = JobOf(t)
    BY <2>1 DEF JobOf
  <2>3. \A t \in Workers : JobOf(t)' = JobOf(t)
    BY <2>1, JobKept
  <2>4. \A j \in Jobs, r \in Result : Sent(j, r)' => Sent(j, r)
    BY <2>1, <2>3 DEF Sent
  <2> QED
    BY <1>2, <2>1, <2>2, <2>3, <2>4, AnswersQuiet
<1> QED
  BY <1>1, <1>2

-----------------------------------------------------------------------------
(* Layer 4 is inductive.                                                   *)

LEMMA ClosingFacts ==
    /\ WaitingPc \cap Closing = {"w_sent", "w_ack"}
    /\ Closing \cap {"idle", "flushing", "posting", "posted", "claiming",
                     "starting", "ready", "executing"} = {}
    /\ \A t \in Tellers : t \in Thread /\ t # Main /\ t # Telemetry
    /\ \A t \in AckJobs : t \notin Workers
BY ThreadFacts, WorkersAreThreads DEF WaitingPc, Closing, Workers

LEMMA ClosedInit == Init => Closed
<1> SUFFICES ASSUME Init PROVE Closed
  OBVIOUS
<1>1. \A t \in Thread : pc[t] = "idle"
  BY CleanFacts DEF Init
<1>2. PostedReached /\ TellersClose /\ WriteCarriesFinished
  BY <1>1, ThreadFacts, ClosingFacts
     DEF Init, PostedReached, TellersClose, WriteCarriesFinished
<1>3. FinishedTold /\ ActivatedAfterAck
  BY DEF Init, FinishedTold, ActivatedAfterAck, Copies, freshState
<1> QED
  BY <1>2, <1>3 DEF Closed

LEMMA ClosedDies ==
    ASSUME Control, Closed, ProcessDies
    PROVE  Closed'
<1>1. \A t \in Thread : pc'[t] = "idle"
  BY CleanFacts DEF ProcessDies
<1>2. /\ state' = stateFile /\ tmpFile' = stateFile /\ stateFile' = stateFile
      /\ ~writing' /\ UNCHANGED pastVars
  BY DEF ProcessDies
<1>3. PostedReached' /\ TellersClose' /\ WriteCarriesFinished'
  BY <1>1, <1>2, ThreadFacts, ClosingFacts
     DEF PostedReached, TellersClose, WriteCarriesFinished
<1>4. FinishedTold' /\ ActivatedAfterAck'
  BY <1>2 DEF Closed, FinishedTold, ActivatedAfterAck, Copies
<1> QED
  BY <1>3, <1>4 DEF Closed

\* The files stay; a job that is closed stays closed, and another is closed
\* only when the hub has a result; a thread that closes a job has done so.
LEMMA ClosedQuiet ==
    ASSUME Control, Closed,
           UNCHANGED <<fileVars, activations>>,
           writing => Head(queue') = Head(queue),
           \A j \in Jobs : state.jobs[j] = "finished" => state'.jobs[j] = "finished",
           \A j \in Jobs : state'.jobs[j] = "finished" =>
              state.jobs[j] = "finished" \/ hubResults[j] # {},
           \A j \in Jobs : hubResults[j] \subseteq hubResults'[j],
           \A t \in Tellers : pc'[t] \in Closing =>
              \/ pc'[t] = pc[t] /\ JobOf(t)' = JobOf(t) /\ result'[t] = result[t]
              \/ ClosedBy(t, JobOf(t))',
           \A t \in Thread : pc[t] \in WaitingPc =>
              pc'[t] = pc[t] /\ JobOf(t)' = JobOf(t),
           PostedReached'
    PROVE  Closed'
<1>1. \A j \in Jobs : hubResults[j] # {} => hubResults'[j] # {}
  OBVIOUS
<1>2. FinishedTold'
  BY <1>1 DEF Closed, FinishedTold, Copies
<1>3. TellersClose'
  <2> SUFFICES ASSUME NEW t \in Tellers, pc'[t] \in Closing
               PROVE  ClosedBy(t, JobOf(t))'
    BY DEF TellersClose
  <2>1. CASE pc'[t] = pc[t] /\ JobOf(t)' = JobOf(t) /\ result'[t] = result[t]
    BY <2>1 DEF Closed, TellersClose, ClosedBy
  <2> QED
    BY <2>1
<1>4. WriteCarriesFinished'
  BY HeadWaits DEF Closed, WriteCarriesFinished
<1>5. ActivatedAfterAck'
  BY DEF Closed, ActivatedAfterAck
<1> QED
  BY <1>2, <1>3, <1>4, <1>5 DEF Closed

\* One thread moves between two points at which it awaits no write.
LEMMA ClosedStep1 ==
    ASSUME Control, Closed, NEW t \in Thread, NEW to,
           pc' = [pc EXCEPT ![t] = to],
           pc[t] \notin WaitingPc, to \notin Closing, to # "posted",
           \A u \in Thread : u # t => result'[u] = result[u],
           t # Http => httpJob' = httpJob,
           UNCHANGED <<state, fileVars, queue, hubResults, activations>>
    PROVE  Closed'
<1>1. pc \in [Thread -> Pc]
  BY DEF Control, TypeOK
<1>2. \A u \in Thread : u # t =>
         pc'[u] = pc[u] /\ result'[u] = result[u] /\ JobOf(u)' = JobOf(u)
  BY <1>1 DEF JobOf
<1>3. pc'[t] = to
  BY <1>1
<1>4. \A u \in Tellers : pc'[u] \in Closing =>
         pc'[u] = pc[u] /\ JobOf(u)' = JobOf(u) /\ result'[u] = result[u]
  BY <1>2, <1>3, ClosingFacts
<1>5. \A u \in Thread : pc[u] \in WaitingPc => pc'[u] = pc[u] /\ JobOf(u)' = JobOf(u)
  BY <1>2
<1>6. PostedReached'
  BY <1>2, <1>3, ThreadFacts DEF Closed, PostedReached
<1> QED
  BY <1>4, <1>5, <1>6, ClosedQuiet

LEMMA ClosedWrite ==
    ASSUME Control, Closed, NEW t \in Thread, NEW j \in Jobs,
           NEW status \in JobStatus, NEW pending \in Result \cup {NoResult},
           NEW wait \in WaitingPc, pc[t] \notin WaitingPc,
           WriteState(t, WithJob(state, j, status, pending), wait),
           UNCHANGED <<fileVars, hubResults, activations>>,
           IF status = "finished" THEN hubResults[j] # {}
                                  ELSE state.jobs[j] # "finished",
           t # Http => httpJob' = httpJob,
           \A u \in Thread : u # t => result'[u] = result[u],
           t \in Tellers /\ wait \in Closing =>
              /\ JobOf(t)' = j /\ status = "finished"
              /\ result'[t] = "output" => "output" \in hubResults[j]
    PROVE  Closed'
<1>1. /\ state' = WithJob(state, j, status, pending)
      /\ pc' = [pc EXCEPT ![t] = wait] /\ pc \in [Thread -> Pc]
      /\ queue # <<>> => Head(queue') = Head(queue)
  BY EnqueueFacts DEF Control, TypeOK
<1>2. /\ state'.jobs = [state.jobs EXCEPT ![j] = status]
      /\ state.jobs \in [Jobs -> JobStatus]
  <2>1. state \in AgentState
    BY DEF Control, TypeOK
  <2>2. state.jobs \in [Jobs -> JobStatus]
    BY <2>1 DEF AgentState
  <2>3. WithJob(state, j, status, pending).jobs = [state.jobs EXCEPT ![j] = status]
    BY <2>1 DEF WithJob, AgentState
  <2> QED
    BY <1>1, <2>2, <2>3
<1>3. \A u \in Thread : u # t =>
         pc'[u] = pc[u] /\ result'[u] = result[u] /\ JobOf(u)' = JobOf(u)
  BY <1>1 DEF JobOf
<1>4. pc'[t] = wait /\ wait \notin {"sent", "acked", "posted"}
  BY <1>1 DEF WaitingPc
<1>5. \A u \in Tellers : pc'[u] \in Closing =>
         \/ pc'[u] = pc[u] /\ JobOf(u)' = JobOf(u) /\ result'[u] = result[u]
         \/ ClosedBy(u, JobOf(u))'
  <2> SUFFICES ASSUME NEW u \in Tellers, pc'[u] \in Closing, u = t
               PROVE  ClosedBy(u, JobOf(u))'
    BY <1>3, ClosingFacts
  <2>1. state'.jobs[j] = "finished" /\ JobOf(u)' = j
        /\ (result'[u] = "output" => "output" \in hubResults'[j])
    BY <1>2, <1>4
  <2> QED
    BY <1>4, <2>1 DEF ClosedBy
<1>6. \A u \in Thread : pc[u] \in WaitingPc => pc'[u] = pc[u] /\ JobOf(u)' = JobOf(u)
  BY <1>3
<1>7. PostedReached'
  BY <1>3, <1>4, ThreadFacts DEF Closed, PostedReached
<1>8. /\ \A i \in Jobs : state.jobs[i] = "finished" => state'.jobs[i] = "finished"
      /\ \A i \in Jobs : state'.jobs[i] = "finished" =>
            state.jobs[i] = "finished" \/ hubResults[i] # {}
  BY <1>2
<1>9. writing => Head(queue') = Head(queue)
  BY <1>1 DEF Control, WriteHasOwner
<1> QED
  BY <1>5, <1>6, <1>7, <1>8, <1>9, ClosedQuiet

LEMMA ClosedEndCycle ==
    ASSUME Control, Closed, EndCycle, pc[Http] \notin WaitingPc,
           UNCHANGED <<state, fileVars, queue, hubResults, activations>>
    PROVE  Closed'
BY ZenonT(30), ClosedStep1, ClosingFacts, ThreadFacts DEF EndCycle, Control, TypeOK

LEMMA ClosedRejects ==
    ASSUME Control, Closed, NEW t \in Thread \ {Telemetry}, Rejects(t),
           pc[t] \notin WaitingPc, t = Http => UNCHANGED <<fileVars, queue>>
    PROVE  Closed'
<1>1. CASE t = Http
  BY <1>1, ClosedEndCycle DEF Rejects
<1>2. CASE t # Http
  BY <1>2, ClosedDies DEF Rejects
<1> QED
  BY <1>1, <1>2

LEMMA ClosedDisk == Control /\ Records /\ Closed /\ Disk => Closed'
<1> SUFFICES ASSUME Control, Records, Closed, Disk PROVE Closed'
  OBVIOUS
<1>0. /\ pc \in [Thread -> Pc]
      /\ \A t \in Tellers : t \in Thread
      /\ \A j \in Jobs : stateFile.jobs[j] = "finished" => tmpFile.jobs[j] = "finished"
  <2>1. \A j \in Jobs : /\ Rank(stateFile.jobs[j]) <= Rank(tmpFile.jobs[j])
                        /\ tmpFile.jobs[j] \in JobStatus
    BY CopyFacts DEF Records, CopiesInOrder, Behind
  <2>2. \A a \in JobStatus : 4 <= Rank(a) => a = "finished"
    BY RankFacts DEF Rank, JobStatus
  <2> QED
    BY <2>1, <2>2, RankFacts, ClosingFacts DEF Control, TypeOK
<1>1. CASE PersistStart
  <2>1. /\ UNCHANGED <<state, stateFile, queue, pc, result, httpJob, hubResults,
                       activations>>
        /\ tmpFile' = state
    BY <1>1 DEF PersistStart
  <2>2. \A t \in Tellers : JobOf(t)' = JobOf(t)
    BY <2>1 DEF JobOf
  <2>3. PostedReached' /\ TellersClose'
    BY <2>1, <2>2 DEF Closed, PostedReached, TellersClose, ClosedBy
  <2>4. FinishedTold' /\ ActivatedAfterAck'
    BY <2>1 DEF Closed, FinishedTold, ActivatedAfterAck, Copies
  <2>5. WriteCarriesFinished'
    BY <2>1, <2>2 DEF Closed, TellersClose, ClosedBy, WriteCarriesFinished
  <2> QED
    BY <2>3, <2>4, <2>5 DEF Closed
<1>2. CASE PersistDone
  <2> DEFINE h == Head(queue)
  <2>1. /\ h \in Thread /\ pc[h] \in WaitingPc
        /\ pc' = [pc EXCEPT ![h] = Resumed(pc[h])]
        /\ UNCHANGED <<state, tmpFile, result, httpJob, hubResults, activations>>
        /\ stateFile' = tmpFile /\ writing /\ ~writing'
    BY <1>2, HeadWaits DEF PersistDone
  <2>2. h \in Tellers /\ pc[h] \in Closing => tmpFile.jobs[JobOf(h)] = "finished"
    BY <2>1 DEF Closed, WriteCarriesFinished
  <2> HIDE DEF h
  <2>3. \A t \in Tellers : JobOf(t)' = JobOf(t)
    BY <2>1 DEF JobOf
  <2>4. \A t \in Thread : /\ t = h => pc'[t] = Resumed(pc[h])
                          /\ t # h => pc'[t] = pc[t]
    BY <1>0, <2>1
  <2>5. \A t \in Thread : /\ pc'[t] \in Closing => pc[t] \in Closing
                          /\ pc'[t] = "posted" => pc[t] = "posted"
    BY <2>1, <2>4 DEF Resumed, WaitingPc, Closing
  <2>6. PostedReached'
    BY <2>1, <2>5, ThreadFacts DEF Closed, PostedReached
  <2>7. FinishedTold' /\ WriteCarriesFinished'
    BY <2>1 DEF Closed, FinishedTold, WriteCarriesFinished, Copies
  <2>8. ActivatedAfterAck'
    BY <1>0, <2>1 DEF Closed, ActivatedAfterAck
  <2>9. TellersClose'
    <3> SUFFICES ASSUME NEW t \in Tellers, pc'[t] \in Closing
                 PROVE  ClosedBy(t, JobOf(t))'
      BY DEF TellersClose
    <3>1. ClosedBy(t, JobOf(t)) /\ t \in Thread /\ pc[t] \in Closing
      BY <1>0, <2>5 DEF Closed, TellersClose
    <3>2. pc'[t] \in {"sent", "acked"} => tmpFile.jobs[JobOf(t)] = "finished"
      BY <1>0, <2>2, <2>4, <3>1 DEF ClosedBy
    <3> QED
      BY <2>1, <2>3, <3>1, <3>2 DEF ClosedBy
  <2> QED
    BY <2>6, <2>7, <2>8, <2>9 DEF Closed
<1>3. CASE PersistFails
  <2>1. CASE ProcessDies
    BY <2>1, ClosedDies
  <2>2. CASE ~ProcessDies
    <3> DEFINE h == Head(queue)
    <3>1. /\ h \in {Http, Telemetry} /\ h \in Thread /\ pc[h] \in WaitingPc
          /\ ~writing' /\ tmpFile' = stateFile
          /\ UNCHANGED <<state, stateFile, hubResults, activations>>
          /\ h = Http => EndCycle
          /\ h # Http => pc' = [pc EXCEPT ![h] = "idle"] /\ UNCHANGED <<result, httpVars>>
      BY <1>3, <2>2, HeadWaits DEF PersistFails, Rejects
    <3> HIDE DEF h
    <3>2. /\ pc' = [pc EXCEPT ![h] = "idle"]
          /\ \A t \in Thread : t # h => JobOf(t)' = JobOf(t) /\ result'[t] = result[t]
      BY <3>1, ThreadFacts DEF EndCycle, JobOf, Control, TypeOK
    <3>3. \A t \in Thread : /\ t = h => pc'[t] = "idle"
                            /\ t # h => pc'[t] = pc[t]
      BY <1>0, <3>1, <3>2
    <3>4. TellersClose'
      BY <1>0, <3>1, <3>2, <3>3, ClosingFacts DEF Closed, TellersClose, ClosedBy
    <3>5. PostedReached'
      BY <3>1, <3>2, <3>3, ThreadFacts DEF Closed, PostedReached
    <3>6. FinishedTold' /\ WriteCarriesFinished' /\ ActivatedAfterAck'
      BY <3>1 DEF Closed, FinishedTold, WriteCarriesFinished, ActivatedAfterAck, Copies
    <3> QED
      BY <3>4, <3>5, <3>6 DEF Closed
  <2> QED
    BY <2>1, <2>2
<1>4. CASE TelemetryWrite
  <2>1. /\ Telemetry \in Thread /\ Telemetry # Http
        /\ pc[Telemetry] \notin WaitingPc /\ "w_other" \in WaitingPc
        /\ WriteState(Telemetry, state, "w_other")
        /\ UNCHANGED <<fileVars, result, httpVars, hubResults, activations>>
    BY <1>4, ThreadFacts DEF TelemetryWrite, WaitingPc
  <2>2. /\ state' = state /\ pc' = [pc EXCEPT ![Telemetry] = "w_other"]
        /\ (queue # <<>> => Head(queue') = Head(queue))
    BY <2>1, EnqueueFacts
  <2>3. \A t \in Thread : /\ t # Telemetry => pc'[t] = pc[t]
                          /\ JobOf(t)' = JobOf(t) /\ result'[t] = result[t]
    BY <1>0, <2>1, <2>2 DEF JobOf
  <2>4. PostedReached'
    BY <2>1, <2>3, ThreadFacts DEF Closed, PostedReached
  <2>5. writing => Head(queue') = Head(queue)
    BY <2>2 DEF Control, WriteHasOwner
  <2>6. \A t \in Tellers : pc'[t] = pc[t] /\ JobOf(t)' = JobOf(t) /\ result'[t] = result[t]
    BY <2>3, ClosingFacts
  <2>7. \A t \in Thread : pc[t] \in WaitingPc => pc'[t] = pc[t] /\ JobOf(t)' = JobOf(t)
    BY <2>1, <2>3
  <2> QED
    BY <2>1, <2>2, <2>4, <2>5, <2>6, <2>7, ClosedQuiet
<1> QED
  BY <1>1, <1>2, <1>3, <1>4 DEF Disk

LEMMA ClosedProcess == Control /\ Answers /\ Closed /\ Process => Closed'
<1> SUFFICES ASSUME Control, Answers, Closed, Process PROVE Closed'
  OBVIOUS
<1>1. CASE Boot
  <2> DEFINE s == markInterruptedJobs(stateFile)
  <2>1. pc = AllIdle /\ ~writing /\ state = stateFile
    BY <1>1 DEF Boot, Control, DownIsClean, Answers, BootFirst
  <2>2. /\ UNCHANGED <<fileVars, result, httpVars, pastVars>> /\ state' = s
        /\ pc' = pc \/ pc' = [pc EXCEPT ![Main] = "w_boot"]
    BY <1>1 DEF Boot, WriteState
  <2>3. \A j \in Jobs : s.jobs[j] = "finished" => stateFile.jobs[j] = "finished"
    BY DEF markInterruptedJobs
  <2> HIDE DEF s
  <2>4. \A t \in Thread : t # Main => pc'[t] = "idle"
    BY <2>1, <2>2, CleanFacts
  <2>5. PostedReached' /\ TellersClose' /\ WriteCarriesFinished'
    BY <2>1, <2>2, <2>4, ThreadFacts, ClosingFacts
       DEF PostedReached, TellersClose, WriteCarriesFinished
  <2>6. FinishedTold' /\ ActivatedAfterAck'
    BY <2>2, <2>3 DEF Closed, FinishedTold, ActivatedAfterAck, Copies
  <2> QED
    BY <2>5, <2>6 DEF Closed
<1>2. CASE Kill \/ ExitForUpdate
  BY <1>2, ClosedDies DEF Kill, ExitForUpdate
<1> QED
  BY <1>1, <1>2 DEF Process

LEMMA ClosedFlush == Control /\ Closed /\ Flush => Closed'
<1> SUFFICES ASSUME Control, Closed, Flush PROVE Closed'
  OBVIOUS
<1>0. /\ pc \in [Thread -> Pc] /\ result \in [Thread -> Result \cup {NoResult}]
      /\ Http \in Thread /\ Http \in Tellers
      /\ hubResults \in [Jobs -> SUBSET Result]
      /\ {"idle", "flushing", "posting", "posted"} \cap WaitingPc = {}
  BY ThreadFacts DEF Control, TypeOK, WaitingPc
<1>1. CASE Poll
  BY <1>0, <1>1, ClosedStep1, ClosingFacts DEF Poll, BeginFlush
<1>2. CASE FlushDone
  <2>1. CASE afterFlush = "claim"
    BY <1>0, <1>2, <2>1, ClosedStep1, ClosingFacts DEF FlushDone
  <2>2. CASE afterFlush # "claim"
    BY <1>0, <1>2, <2>2, ClosedEndCycle DEF FlushDone
  <2> QED
    BY <2>1, <2>2
<1>3. CASE PostReachesHub
  <2>1. /\ httpJob \in Jobs /\ pc[Http] = "posting"
        /\ hubResults' = [hubResults EXCEPT
                            ![httpJob] = hubResults[httpJob] \cup {result[Http]}]
        /\ pc' = [pc EXCEPT ![Http] = "posted"]
        /\ UNCHANGED <<state, fileVars, queue, result, httpVars, activations>>
    BY <1>3 DEF PostReachesHub, Control, AnswerHasResult
  <2>2. result[Http] \in hubResults'[httpJob]
        /\ \A j \in Jobs : hubResults[j] \subseteq hubResults'[j]
    BY <1>0, <2>1
  <2>3. PostedReached'
    BY <2>1, <2>2 DEF PostedReached
  <2>4. \A t \in Thread : /\ t # Http => pc'[t] = pc[t]
                          /\ JobOf(t)' = JobOf(t) /\ result'[t] = result[t]
    BY <1>0, <2>1 DEF JobOf
  <2>5. pc'[Http] \notin Closing
    BY <1>0, <2>1, ClosingFacts
  <2>6. \A t \in Tellers : pc'[t] \in Closing =>
           pc'[t] = pc[t] /\ JobOf(t)' = JobOf(t) /\ result'[t] = result[t]
    BY <2>4, <2>5, ClosingFacts
  <2>7. \A t \in Thread : pc[t] \in WaitingPc => pc'[t] = pc[t] /\ JobOf(t)' = JobOf(t)
    BY <1>0, <2>1, <2>4
  <2> QED
    BY <2>1, <2>2, <2>3, <2>6, <2>7, ClosedQuiet
<1>4. CASE PostFails
  BY <1>0, <1>4, ClosedEndCycle DEF PostFails
<1>5. CASE PostConfirmed
  <2>1. /\ httpJob \in Jobs /\ pc[Http] = "posted"
        /\ result[Http] \in hubResults[httpJob]
        /\ WriteState(Http, WithJob(state, httpJob, "finished", NoResult), "w_sent")
        /\ UNCHANGED <<fileVars, result, httpVars, hubResults, activations>>
    BY <1>5 DEF PostConfirmed, Control, AnswerHasResult, Closed, PostedReached
  <2>2. "finished" \in JobStatus /\ "w_sent" \in WaitingPc
        /\ JobOf(Http)' = httpJob
    BY <2>1 DEF JobStatus, WaitingPc, JobOf
  <2> QED
    BY <1>0, <2>1, <2>2, ClosedWrite
<1>6. ASSUME NEW j \in Jobs, PostResult(j) PROVE Closed'
  BY <1>0, <1>6, ClosedStep1, ClosingFacts DEF PostResult
<1> QED
  BY <1>1, <1>2, <1>3, <1>4, <1>5, <1>6 DEF Flush

LEMMA ClosedArrive == Control /\ Records /\ Closed /\ Arrive => Closed'
<1> SUFFICES ASSUME Control, Records, Closed, Arrive PROVE Closed'
  OBVIOUS
<1>0. /\ Http \in Thread /\ "claiming" \notin WaitingPc /\ "idle" \notin WaitingPc
      /\ "w_claim" \in WaitingPc /\ "claimed" \in JobStatus /\ "w_claim" \notin Closing
  BY ThreadFacts DEF WaitingPc, JobStatus, Closing
<1>1. CASE ClaimNothing
  BY <1>0, <1>1, ClosedEndCycle DEF ClaimNothing
<1>2. ASSUME NEW j \in Jobs, ClaimDuplicate(j) PROVE Closed'
  BY <1>0, <1>2, ClosedEndCycle DEF ClaimDuplicate
<1>3. ASSUME NEW j \in Jobs, ClaimJob(j) PROVE Closed'
  <2>1. state.pendingResults[j] = NoResult
    BY <1>3, AbsentIsFree DEF ClaimJob
  <2> QED
    BY <1>0, <1>3, <2>1, ClosedWrite DEF ClaimJob
<1>4. ASSUME NEW j \in Jobs, SessionRequest(j) PROVE Closed'
  <2>1. state.jobs[j] # "finished" /\ SessionJob(j) \in Thread
    BY <1>4, ThreadFacts DEF SessionRequest
  <2> QED
    BY <1>0, <1>4, <2>1, ClosedWrite DEF SessionRequest
<1>5. ASSUME NEW j \in Jobs, SessionRequestAgain(j) PROVE Closed'
  <2>1. UNCHANGED <<state, fileVars, queue, pc, result, httpVars, pastVars>>
    BY <1>5 DEF SessionRequestAgain
  <2>2. PostedReached' /\ \A t \in Thread : JobOf(t)' = JobOf(t)
    BY <2>1 DEF Closed, PostedReached, JobOf
  <2> QED
    BY <2>1, <2>2, ClosedQuiet, ClosingFacts
<1> QED
  BY <1>1, <1>2, <1>3, <1>4, <1>5 DEF Arrive

LEMMA ClosedMarkRunning ==
    ASSUME Control, Records, Closed, NEW t \in Workers, MarkRunning(t),
           pc[t] \in {"starting", "authorizing"}
    PROVE  Closed'
<1> PICK j \in Jobs : j = JobOf(t)
  BY DEF Control, BusyHasJob, Busy
<1>1. /\ t \in Thread /\ pc[t] \notin WaitingPc /\ state.jobs[j] = "claimed"
  BY WorkersAreThreads DEF Records, BusyHolds, Holds, WaitingPc
<1>2. state.pendingResults[j] = NoResult
  BY <1>1 DEF Records, PendingAgrees, PendingIff
<1>3. /\ WriteState(t, WithJob(state, j, "running", NoResult), "w_running")
      /\ UNCHANGED <<fileVars, result, httpVars, hubResults, activations>>
  BY <1>2 DEF MarkRunning
<1>4. /\ "running" \in JobStatus /\ "running" # "finished"
      /\ "w_running" \in WaitingPc /\ "w_running" \notin Closing
      /\ NoResult \in Result \cup {NoResult}
  BY DEF JobStatus, WaitingPc, Closing
<1> QED
  BY <1>1, <1>3, <1>4, ClosedWrite

LEMMA ClosedBegin == Control /\ Records /\ Closed /\ Begin => Closed'
<1> SUFFICES ASSUME Control, Records, Closed, Begin PROVE Closed'
  OBVIOUS
<1>0. /\ result \in [Thread -> Result \cup {NoResult}] /\ Http \in Thread
      /\ WaitingPc \cap {"authorizing", "starting", "ready"} = {}
  BY ThreadFacts DEF Control, TypeOK, WaitingPc
<1>1. CASE AllowHttp
  BY <1>0, <1>1, ClosedStep1, ClosingFacts DEF AllowHttp
<1>2. CASE StartHttp
  BY <1>2, ThreadFacts, ClosedMarkRunning DEF StartHttp
<1>3. CASE StartHttpFails
  BY <1>0, <1>3, ClosedEndCycle DEF StartHttpFails
<1>4. ASSUME NEW j \in Jobs, AllowSession(j) PROVE Closed'
  BY <1>4, ThreadFacts, ClosedMarkRunning DEF AllowSession
<1>5. ASSUME NEW j \in Jobs, AllowSessionFails(j) PROVE Closed'
  BY <1>5, ClosedDies DEF AllowSessionFails
<1>6. ASSUME NEW t \in Workers, Deny(t) PROVE Closed'
  <2> DEFINE to == IF t = Http THEN "starting" ELSE "ready"
  <2>1. /\ pc[t] = "authorizing" /\ t \in Thread
        /\ pc' = [pc EXCEPT ![t] = to] /\ result' = [result EXCEPT ![t] = "denied"]
        /\ UNCHANGED <<state, fileVars, queue, httpVars, pastVars>>
    BY <1>6, WorkersAreThreads DEF Deny
  <2>2. to \in {"starting", "ready"}
    OBVIOUS
  <2> HIDE DEF to
  <2> QED
    BY <1>0, <2>1, <2>2, ClosedStep1, ClosingFacts
<1> QED
  BY <1>1, <1>2, <1>3, <1>4, <1>5, <1>6 DEF Begin

LEMMA ClosedRecordResult ==
    ASSUME Control, Records, Closed, NEW t \in Workers, NEW r \in Result,
           RecordResult(t, r), pc[t] \in {"ready", "executing"}
    PROVE  Closed'
<1> DEFINE j == JobOf(t)
<1>1. /\ j \in Jobs /\ t \in Thread /\ pc[t] \notin WaitingPc
      /\ state.jobs[j] \in {"claimed", "running"}
  BY WorkersAreThreads
     DEF Control, BusyHasJob, Records, BusyHolds, Holds, Busy, WaitingPc
<1>2. /\ WriteState(t, WithJob(state, j, "result_pending", r), "w_result")
      /\ UNCHANGED <<fileVars, httpVars, hubResults, activations>>
      /\ \A u \in Thread : u # t => result'[u] = result[u]
  BY <1>1 DEF RecordResult, Control, TypeOK
<1> HIDE DEF j
<1>3. /\ "result_pending" \in JobStatus /\ "result_pending" # "finished"
      /\ "w_result" \in WaitingPc /\ "w_result" \notin Closing
  BY DEF JobStatus, WaitingPc, Closing
<1> QED
  BY <1>1, <1>2, <1>3, ClosedWrite

LEMMA ClosedWork == Control /\ Records /\ Closed /\ Work => Closed'
<1> SUFFICES ASSUME Control, Records, Closed, Work PROVE Closed'
  OBVIOUS
<1> USE WorkersAreThreads
<1>0. /\ result \in [Thread -> Result \cup {NoResult}] /\ Http \in Thread
      /\ WaitingPc \cap {"ready", "executing", "respond", "idle"} = {}
      /\ {"output", "denied"} \subseteq Result
  BY ThreadFacts DEF Control, TypeOK, WaitingPc, Result
<1>1. CASE RespondHttp
  BY <1>0, <1>1, ClosedStep1, ClosingFacts DEF RespondHttp, BeginFlush
<1>2. ASSUME NEW j \in Jobs, RespondSession(j) PROVE Closed'
  <2>1. /\ SessionJob(j) \in Thread /\ pc[SessionJob(j)] = "respond"
        /\ pc' = [pc EXCEPT ![SessionJob(j)] = "idle"]
        /\ \A u \in Thread : u # SessionJob(j) => result'[u] = result[u]
        /\ UNCHANGED <<state, fileVars, queue, httpVars, pastVars>>
    BY <1>0, <1>2, ThreadFacts DEF RespondSession
  <2> QED
    BY <1>0, <2>1, ClosedStep1, ClosingFacts
<1>3. ASSUME NEW t \in Workers, Execute(t) PROVE Closed'
  <2>1. /\ t \in Thread /\ pc[t] = "ready"
        /\ pc' = [pc EXCEPT ![t] = "executing"]
        /\ UNCHANGED <<state, fileVars, queue, result, httpVars, hubResults,
                       activations>>
    BY <1>3 DEF Execute
  <2> QED
    BY <1>0, <2>1, ClosedStep1, ClosingFacts
<1>4. ASSUME NEW t \in Workers, ExecutionReturns(t) PROVE Closed'
  BY <1>0, <1>4, ClosedRecordResult DEF ExecutionReturns
<1>5. ASSUME NEW t \in Workers, DeniedReturns(t) PROVE Closed'
  BY <1>0, <1>5, ClosedRecordResult DEF DeniedReturns
<1>6. ASSUME NEW t \in Workers, ExecutionThrows(t) PROVE Closed'
  BY <1>0, <1>6, ClosedRejects, ThreadFacts DEF ExecutionThrows
<1> QED
  BY <1>1, <1>2, <1>3, <1>4, <1>5, <1>6 DEF Work

\* The hub acknowledges what it has: had it been told anything else of this
\* job, the job would not have its output pending.
LEMMA AckIsTrue ==
    ASSUME Control, Answers, NEW j \in Jobs, hubResults[j] # {},
           state.pendingResults[j] = "output"
    PROVE  "output" \in hubResults[j]
<1>1. Kept(j, "output") /\ Known(j, "output")
  BY ResultFacts, KeptWhere DEF Known
<1>2. PICK r \in Result : r \in hubResults[j]
  BY DEF Control, TypeOK
<1>3. Known(j, r)
  BY <1>2 DEF Known, Sent
<1>4. r # "interrupted"
  BY <1>1, <1>3 DEF Answers, InterruptedStays
<1>5. r # "denied"
  <2>1. runs[j] > 0
    BY <1>1 DEF Answers, OutputRan
  <2> QED
    BY <1>3, <2>1 DEF Answers, DeniedStays
<1> QED
  BY <1>2, <1>4, <1>5, ResultFacts

LEMMA ClosedLink == Control /\ Records /\ Answers /\ Closed /\ Link => Closed'
<1> SUFFICES ASSUME Control, Records, Answers, Closed, Link PROVE Closed'
  OBVIOUS
<1>1. CASE \/ Connect \/ flushSessionPending \/ Disconnect
           \/ \E j \in Jobs : HubReceives(j)
  <2>1. UNCHANGED <<state, fileVars, queue, pc, result, httpVars, activations>>
    BY <1>1 DEF Connect, flushSessionPending, Disconnect, HubReceives
  <2>2. \A j \in Jobs : hubResults[j] \subseteq hubResults'[j]
    <3>1. CASE Connect \/ flushSessionPending \/ Disconnect
      BY <3>1 DEF Connect, flushSessionPending, Disconnect
    <3>2. ASSUME NEW i \in Jobs, HubReceives(i)
          PROVE  \A j \in Jobs : hubResults[j] \subseteq hubResults'[j]
      <4> PICK s \in Result :
             hubResults' = [hubResults EXCEPT ![i] = hubResults[i] \cup {s}]
        BY <3>2 DEF HubReceives
      <4> QED
        BY DEF Control, TypeOK
    <3> QED
      BY <1>1, <3>1, <3>2
  <2>3. \A t \in Thread : JobOf(t)' = JobOf(t)
    BY <2>1 DEF JobOf
  <2>4. PostedReached'
    <3>1. pc[Http] = "posted" => httpJob \in Jobs
      BY DEF Control, AnswerHasResult
    <3> QED
      BY <2>1, <2>2, <3>1 DEF Closed, PostedReached
  <2> QED
    BY <2>1, <2>2, <2>3, <2>4, ClosedQuiet, ClosingFacts
<1>2. ASSUME NEW j \in Jobs, ackSessionResult(j) PROVE Closed'
  <2> DEFINE t == AckJob(j)
  <2>1. /\ t \in Thread /\ t # Http /\ t \in Tellers
        /\ pc[t] \notin WaitingPc /\ "w_ack" \in WaitingPc
        /\ t[2] = j
    BY <1>2, ThreadFacts DEF ackSessionResult, WaitingPc
  <2>2. /\ WriteState(t, WithJob(state, j, "finished", NoResult), "w_ack")
        /\ UNCHANGED <<fileVars, httpVars, hubResults, activations>>
        /\ result' = [result EXCEPT ![t] = state.pendingResults[j]]
        /\ result \in [Thread -> Result \cup {NoResult}]
        /\ hubResults[j] # {}
    BY <1>2 DEF ackSessionResult, Control, TypeOK
  <2> HIDE DEF t
  <2>3. JobOf(t)' = j /\ (result'[t] = "output" => "output" \in hubResults[j])
    BY <2>1, <2>2, AckIsTrue DEF JobOf
  <2>4. "finished" \in JobStatus /\ NoResult \in Result \cup {NoResult}
    BY DEF JobStatus
  <2>5. \A u \in Thread : u # t => result'[u] = result[u]
    BY <2>1, <2>2
  <2> QED
    BY <2>1, <2>2, <2>3, <2>4, <2>5, ClosedWrite
<1> QED
  BY <1>1, <1>2 DEF Link

LEMMA ClosedUpdate == Control /\ Closed /\ Update => Closed'
<1> SUFFICES ASSUME Control, Closed, Update PROVE Closed'
  OBVIOUS
<1>0. /\ {"sent", "acked"} \cap WaitingPc = {} /\ {"sent", "acked"} \subseteq Closing
      /\ pc \in [Thread -> Pc] /\ result \in [Thread -> Result \cup {NoResult}]
      /\ activations \in [Jobs -> Nat]
  BY DEF WaitingPc, Closing, Control, TypeOK
<1>1. ASSUME NEW t \in Tellers, NoActivation(t) PROVE Closed'
  <2> DEFINE to == IF t = Http THEN "flushing" ELSE "idle"
  <2>1. /\ pc[t] \in {"sent", "acked"} /\ t \in Thread
        /\ pc' = [pc EXCEPT ![t] = to]
        /\ \A u \in Thread : u # t => result'[u] = result[u]
        /\ UNCHANGED <<state, fileVars, queue, httpVars, pastVars>>
    BY <1>0, <1>1, ClosingFacts DEF NoActivation, Continue
  <2>2. to \in {"flushing", "idle"}
    OBVIOUS
  <2> HIDE DEF to
  <2> QED
    BY <1>0, <2>1, <2>2, ClosedStep1, ClosingFacts
<1>2. ASSUME NEW t \in Tellers, activatePreparedUpdate(t) PROVE Closed'
  <2> DEFINE to == IF t = Http THEN "flushing" ELSE "idle"
             j == JobOf(t)
  <2>1. /\ pc[t] \in {"sent", "acked"} /\ t \in Thread /\ result[t] = "output"
        /\ pc' = [pc EXCEPT ![t] = to]
        /\ \A u \in Thread : u # t => result'[u] = result[u]
        /\ UNCHANGED <<state, fileVars, queue, httpVars, hubResults>>
        /\ activations' = [activations EXCEPT ![j] = activations[j] + 1]
    BY <1>0, <1>2, ClosingFacts DEF activatePreparedUpdate, Continue, PreparedUpdate
  <2>2. j \in Jobs /\ "output" \in hubResults[j] /\ stateFile.jobs[j] = "finished"
    BY <1>0, <2>1 DEF Closed, TellersClose, ClosedBy
  <2>3. to \in {"flushing", "idle"}
    OBVIOUS
  <2> HIDE DEF to, j
  <2>4. ActivatedAfterAck'
    BY <1>0, <2>1, <2>2 DEF Closed, ActivatedAfterAck
  <2>5. \A u \in Thread : /\ u = t => pc'[u] = to
                          /\ u # t => pc'[u] = pc[u] /\ result'[u] = result[u]
                          /\ JobOf(u)' = JobOf(u)
    BY <1>0, <2>1 DEF JobOf
  <2>6. TellersClose'
    BY <2>1, <2>3, <2>5, ClosingFacts DEF Closed, TellersClose, ClosedBy
  <2>7. PostedReached'
    BY <2>1, <2>3, <2>5, ThreadFacts DEF Closed, PostedReached
  <2>8. FinishedTold'
    BY <2>1 DEF Closed, FinishedTold, Copies
  <2>9. WriteCarriesFinished'
    <3>1. writing => Head(queue) \in Thread /\ Head(queue) # t
      BY <1>0, <2>1, HeadWaits
    <3> QED
      BY <2>1, <2>5, <3>1 DEF Closed, WriteCarriesFinished
  <2> QED
    BY <2>4, <2>6, <2>7, <2>8, <2>9 DEF Closed
<1>3. ASSUME NEW t \in Tellers, ActivationFails(t) PROVE Closed'
  BY <1>0, <1>3, ClosedRejects, ClosingFacts DEF ActivationFails
<1> QED
  BY <1>1, <1>2, <1>3 DEF Update

LEMMA ClosedNext == Control /\ Records /\ Answers /\ Closed /\ [Next]_vars => Closed'
<1>1. Control /\ Records /\ Answers /\ Closed /\ Next => Closed'
  BY ClosedDisk, ClosedProcess, ClosedFlush, ClosedArrive, ClosedBegin,
     ClosedWork, ClosedLink, ClosedUpdate DEF Next
<1>2. ASSUME Control, Closed, UNCHANGED vars PROVE Closed'
  <2>1. UNCHANGED <<state, fileVars, queue, pc, result, httpVars, pastVars>>
    BY <1>2 DEF vars
  <2>2. PostedReached' /\ \A t \in Thread : JobOf(t)' = JobOf(t)
    BY <1>2, <2>1 DEF Closed, PostedReached, JobOf
  <2> QED
    BY <1>2, <2>1, <2>2, ClosedQuiet, ClosingFacts
<1> QED
  BY <1>1, <1>2

-----------------------------------------------------------------------------
(* What the hub is told, what is closed, what is activated.                *)

\* All four layers hold in every run.
THEOREM AllInvariants == Spec => [](Control /\ Records /\ Answers /\ Closed)
BY ControlInit, RecordsInit, AnswersInit, ClosedInit, ControlStep, RecordsNext,
   AnswersNext, ClosedNext, PTL DEF Spec

\* No copy of the state counts a job as finished before the hub has received
\* a result for it, however the writes, the losses and the restarts fall
\* (client.mjs:1232-1238, 1435-1443).
THEOREM NoResultForgottenHolds == Spec => []NoResultForgotten
<1>1. Closed => NoResultForgotten
  BY DEF Closed, FinishedTold, NoResultForgotten, Copies
<1> QED
  BY AllInvariants, <1>1, PTL

\* What the hub is told of a job agrees with what happened to it
\* (client.mjs:1277-1296, 1330-1345).
THEOREM VerdictMatchesRunHolds == Spec => []VerdictMatchesRun
<1>1. Answers => VerdictMatchesRun
  <2> SUFFICES ASSUME Answers, NEW j \in Jobs
               PROVE  /\ "output" \in hubResults[j] => runs[j] > 0
                      /\ "denied" \in hubResults[j] => runs[j] = 0
                      /\ "interrupted" \in hubResults[j] => j \in announced
    BY DEF VerdictMatchesRun
  <2>1. \A r \in Result : r \in hubResults[j] => Known(j, r)
    BY DEF Known, Sent
  <2> QED
    BY <2>1, ResultFacts
       DEF Answers, OutputRan, DeniedStays, InterruptedStays
<1> QED
  BY AllInvariants, <1>1, PTL

\* An update is only activated when the hub has its result and the record on
\* disk says so (client.mjs:1239-1261, 1444-1465).
THEOREM ActivatedAfterAckHolds == Spec => []ActivatedAfterAck
<1>1. Closed => ActivatedAfterAck
  BY DEF Closed
<1> QED
  BY AllInvariants, <1>1, PTL

-----------------------------------------------------------------------------
(* The state file is a ledger.                                             *)

LEMMA LedgerRank ==
    /\ Ledger!Status = JobStatus
    /\ \A a \in JobStatus : Ledger!Rank[a] = Rank(a)
BY DEF Ledger!Status, Ledger!Rank, JobStatus, Rank

LEMMA LedgerInit == Init => Ledger!Init
BY DEF Init, freshState, Ledger!Init

\* A write that is renamed records the progress of all jobs.
LEMMA LedgerRecord ==
    ASSUME Control, Records, Closed, PersistDone
    PROVE  Ledger!Record
<1>1. stateFile' = tmpFile /\ UNCHANGED <<runs, hubResults>>
  BY DEF PersistDone
<1>2. tmpFile.jobs \in [Jobs -> JobStatus] /\ tmpFile \in AgentState
  BY DEF Control, TypeOK, AgentState
<1>3. \A j \in Jobs : /\ stateFile.jobs[j] \in JobStatus
                      /\ tmpFile.jobs[j] \in JobStatus
                      /\ Rank(stateFile.jobs[j]) <= Rank(tmpFile.jobs[j])
  BY CopyFacts DEF Records, CopiesInOrder, Behind
<1>4. \A j \in Jobs : tmpFile.jobs[j] = "finished" => hubResults[j] # {}
  BY DEF Closed, FinishedTold, Copies
<1> QED
  BY <1>1, <1>2, <1>3, <1>4, LedgerRank DEF Ledger!Record

\* A handler is called while the record says "running" and nothing is told.
LEMMA LedgerRun ==
    ASSUME Control, Records, Answers, NEW t \in Workers, Execute(t)
    PROVE  Ledger!Run(JobOf(t))
<1>1. /\ JobOf(t) \in Jobs /\ runs[JobOf(t)] = 0
      /\ stateFile.jobs[JobOf(t)] = "running" /\ pc[t] \in Busy
  BY DEF Execute, Control, BusyHasJob, Records, BusyHolds, Holds, Busy
<1>2. \A r \in Result : r \notin hubResults[JobOf(t)]
  <2>1. ~Free(JobOf(t))
    BY <1>1 DEF Free
  <2>2. \A r \in Result : ~Known(JobOf(t), r)
    BY <1>1, <2>1, ResultFacts
       DEF Answers, OutputRan, DeniedStays, InterruptedStays
  <2> QED
    BY <2>2 DEF Known, Sent
<1>3. hubResults[JobOf(t)] = {}
  BY <1>1, <1>2 DEF Control, TypeOK
<1>4. /\ runs' = [runs EXCEPT ![JobOf(t)] = 1]
      /\ UNCHANGED <<stateFile, hubResults>>
  BY <1>1 DEF Execute, Control, TypeOK
<1> QED
  BY <1>1, <1>3, <1>4 DEF Ledger!Run

\* A result that the hub receives was known, and so agrees with the record.
LEMMA LedgerTell ==
    ASSUME Control, Records, Answers, NEW j \in Jobs, NEW r \in Result,
           Sent(j, r), UNCHANGED <<stateFile, runs>>,
           hubResults' = [hubResults EXCEPT ![j] = hubResults[j] \cup {r}]
    PROVE  Ledger!Tell(j, r)
<1>1. Known(j, r) /\ runs[j] \in Nat /\ stateFile.jobs[j] \in JobStatus
  BY CopyFacts DEF Known, Control, TypeOK
<1>2. r = "output" => runs[j] = 1 /\ stateFile.jobs[j] # "claimed"
  <2> SUFFICES ASSUME r = "output"
               PROVE  runs[j] = 1 /\ stateFile.jobs[j] # "claimed"
    OBVIOUS
  <2>1. runs[j] > 0
    BY <1>1 DEF Answers, OutputRan
  <2> QED
    BY <1>1, <2>1, RankFacts DEF Records, RunsRecorded
<1>3. r = "denied" => runs[j] = 0
  BY <1>1 DEF Answers, DeniedStays
<1>4. r = "interrupted" => stateFile.jobs[j] \in {"result_pending", "finished"}
  BY <1>1, RankFacts DEF Answers, InterruptedRecorded
<1> QED
  BY <1>2, <1>3, <1>4, ResultFacts DEF Ledger!Tell

LEMMA LedgerStep ==
    ASSUME Control, Records, Answers, Closed, [Next]_vars
    PROVE  [Ledger!Next]_(Ledger!vars)
<1>1. SUFFICES ASSUME ~UNCHANGED <<stateFile, runs, hubResults>>
               PROVE  Ledger!Next
  BY DEF Ledger!vars
<1>2. CASE PersistDone
  BY <1>2, LedgerRecord DEF Ledger!Next
<1>3. ASSUME NEW t \in Workers, Execute(t) PROVE Ledger!Next
  <2>1. JobOf(t) \in Jobs
    BY <1>3 DEF Execute, Control, BusyHasJob, Busy
  <2> QED
    BY <1>3, <2>1, LedgerRun DEF Ledger!Next
<1>4. CASE PostReachesHub
  <2>1. /\ httpJob \in Jobs /\ result[Http] \in Result
        /\ hubResults' = [hubResults EXCEPT
                            ![httpJob] = hubResults[httpJob] \cup {result[Http]}]
        /\ UNCHANGED <<stateFile, runs>> /\ pc[Http] = "posting"
    BY <1>4, ThreadFacts DEF PostReachesHub, Control, TypeOK, AnswerHasResult
  <2>2. Sent(httpJob, result[Http])
    BY <2>1, WorkersAreThreads, ThreadFacts DEF Sent, JobOf, Telling
  <2>3. Ledger!Tell(httpJob, result[Http])
    BY <2>1, <2>2, LedgerTell
  <2> QED
    BY <2>1, <2>3 DEF Ledger!Next, Ledger!Verdict, Result
<1>5. ASSUME NEW j \in Jobs, HubReceives(j) PROVE Ledger!Next
  <2> PICK r \in Result :
         /\ <<j, r>> \in wire
         /\ hubResults' = [hubResults EXCEPT ![j] = hubResults[j] \cup {r}]
         /\ UNCHANGED <<stateFile, runs>>
    BY <1>5 DEF HubReceives
  <2>1. Ledger!Tell(j, r)
    BY LedgerTell DEF Sent
  <2> QED
    BY <2>1 DEF Ledger!Next, Ledger!Verdict, Result
<1>6. CASE ProcessDies
  BY <1>1, <1>6 DEF ProcessDies
<1>7. CASE EndCycle /\ UNCHANGED <<fileVars, pastVars>>
  BY <1>1, <1>7
<1>8. ASSUME NEW t \in Thread \ {Telemetry}, Rejects(t),
              t = Http => UNCHANGED <<fileVars, queue>>
       PROVE  Ledger!Next
  BY <1>1, <1>6, <1>8 DEF Rejects
<1>9. CASE Disk
  BY <1>1, <1>2, <1>6, <1>9
     DEF Disk, PersistStart, PersistFails, Rejects, TelemetryWrite
<1>10. CASE Process
  BY <1>1, <1>6, <1>10 DEF Process, Boot, Kill, ExitForUpdate
<1>11. CASE Flush
  BY <1>1, <1>4, <1>11
     DEF Flush, Poll, FlushDone, PostFails, PostConfirmed, PostResult
<1>12. CASE Arrive
  BY <1>1, <1>12
     DEF Arrive, ClaimNothing, ClaimDuplicate, ClaimJob, SessionRequest,
         SessionRequestAgain
<1>13. CASE Begin
  BY <1>1, <1>6, <1>13
     DEF Begin, AllowHttp, StartHttp, StartHttpFails, AllowSession,
         AllowSessionFails, Deny, MarkRunning
<1>14. CASE Work
  <2>1. ASSUME NEW t \in Workers, ExecutionThrows(t) PROVE Ledger!Next
    BY <1>8, <2>1, WorkersAreThreads, ThreadFacts DEF ExecutionThrows
  <2>2. ASSUME NEW t \in Workers, ExecutionReturns(t) \/ DeniedReturns(t)
        PROVE  Ledger!Next
    BY <1>1, <2>2 DEF ExecutionReturns, DeniedReturns, RecordResult
  <2>3. CASE RespondHttp \/ \E j \in Jobs : RespondSession(j)
    BY <1>1, <2>3 DEF RespondHttp, RespondSession
  <2> QED
    BY <1>3, <1>14, <2>1, <2>2, <2>3 DEF Work
<1>15. CASE Link
  BY <1>1, <1>5, <1>15
     DEF Link, Connect, flushSessionPending, Disconnect, ackSessionResult
<1>16. CASE Update
  <2>1. ASSUME NEW t \in Tellers, ActivationFails(t) PROVE Ledger!Next
    BY <1>8, <2>1, ClosingFacts DEF ActivationFails
  <2>2. ASSUME NEW t \in Tellers, NoActivation(t) \/ activatePreparedUpdate(t)
        PROVE  Ledger!Next
    BY <1>1, <2>2 DEF NoActivation, activatePreparedUpdate
  <2> QED
    BY <1>16, <2>1, <2>2 DEF Update
<1>17. CASE UNCHANGED vars
  BY <1>1, <1>17 DEF vars
<1> QED
  BY <1>9, <1>10, <1>11, <1>12, <1>13, <1>14, <1>15, <1>16, <1>17 DEF Next

\* The agent implements the ledger: the durable record of a job only moves
\* forward, its handler runs once, while the record says "running" and nothing
\* was told, every verdict agrees with the record and a record is closed only
\* when the hub has a verdict (client.mjs:514-523, 1787-1788).
THEOREM KeepsLedgerHolds == Spec => KeepsLedger
<1>1. Spec => Ledger!Init
  BY LedgerInit DEF Spec
<1>2. Control /\ Records /\ Answers /\ Closed /\ [Next]_vars
        => [Ledger!Next]_(Ledger!vars)
  BY LedgerStep
<1> QED
  BY <1>1, <1>2, AllInvariants, PTL DEF Spec, KeepsLedger, Ledger!Spec
=============================================================================
