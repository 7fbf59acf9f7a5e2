------------------------------ MODULE AgentJobs ------------------------------
(***************************************************************************)
(* The life of a remote job inside the agent (src/src/client/client.mjs):  *)
(* how a job arrives over the two transports (HTTP polling and the live    *)
(* session), is claimed, authorised, started, executed and answered, and   *)
(* how the answer survives lost connections and restarts of the process.   *)
(*                                                                         *)
(* Covered: the in-memory `state` object and its copy in cfg.stateFile,    *)
(* the chain that serialises the writes of that file, the await points of  *)
(* the HTTP loop, of every session request and of every result_ack, the    *)
(* crash and restart of the process, failed writes, failed POSTs, sockets  *)
(* that drop, duplicate deliveries by the hub, and the activation of a     *)
(* downloaded update once its result has been acknowledged.                *)
(*                                                                         *)
(* Left to other modules: how a session is set up and torn down            *)
(* (SessionLink), and what the activation does to the installed files      *)
(* (UpdateActivation).                                                     *)
(***************************************************************************)
EXTENDS Naturals, Sequences

CONSTANTS
    Jobs,           \* job ids the hub may hand to this agent
    NoJob,          \* the job part of a thread that serves no particular job
    UpdateJobs,     \* the jobs whose tool is client_update
    ThrowingJobs,   \* the jobs whose handler throws instead of returning
    OtherWriters,   \* bound: whether telemetryLoop writes the state too
    MaxKills,       \* bound: times the operating system kills the process
    MaxWriteFaults  \* bound: writes of the state file that fail

ASSUME JobsAssumption ==
    /\ NoJob \notin Jobs
    /\ UpdateJobs \subseteq Jobs
    /\ ThrowingJobs \subseteq Jobs
    /\ OtherWriters \in BOOLEAN
    /\ MaxKills \in Nat
    /\ MaxWriteFaults \in Nat

\* "finished" stands for the final status copied from the result or the ack.
JobStatus == {"absent", "claimed", "running", "result_pending", "finished"}

\* "output": what a handler returned; "denied": policyFailureResult;
\* "interrupted": CLIENT_RESTART_DURING_EXECUTION.
Result   == {"output", "denied", "interrupted"}
NoResult == "none"

\* The part of AgentState that jobs use.
AgentState == [jobs : [Jobs -> JobStatus],
               pendingResults : [Jobs -> Result \cup {NoResult}]]

freshState == [jobs |-> [j \in Jobs |-> "absent"],
               pendingResults |-> [j \in Jobs |-> NoResult]]

\* The asynchronous functions that can be suspended at the same time.
Http          == <<"http", NoJob>>       \* jobLoop
Telemetry     == <<"telemetry", NoJob>>  \* telemetryLoop, as a writer of state
Main          == <<"main", NoJob>>       \* main, before it starts the loops
SessionJob(j) == <<"session", j>>        \* handleSessionJob
AckJob(j)     == <<"ack", j>>            \* ackSessionResult
Loops         == {Http, Telemetry, Main}
SessionJobs   == {SessionJob(j) : j \in Jobs}
AckJobs       == {AckJob(j) : j \in Jobs}
Thread        == Loops \cup SessionJobs \cup AckJobs

\* Where a thread is suspended: "w_..." awaits writeState.
WaitingPc == {"w_boot", "w_claim", "w_running", "w_result", "w_sent", "w_ack",
              "w_other"}
Pc == WaitingPc \cup
      {"idle", "flushing", "posting", "posted", "claiming", "authorizing",
       "starting", "ready", "executing", "respond", "sent", "acked"}

VARIABLES
    up,          \* the process runs
    state,       \* the in-memory state object
    stateFile,   \* the last complete cfg.stateFile
    writing,     \* a persist has serialised state and not yet renamed
    tmpFile,     \* what it serialised; equals stateFile while ~writing
    queue,       \* stateWriteChain: the threads awaiting a persist, in order
    pc,          \* where each thread is suspended
    result,      \* the local variable `result` of each thread
    httpJob,     \* the job the HTTP loop is claiming, running or posting
    todo,        \* the entries flushPendingResults has still to post
    afterFlush,  \* what processOneJob does when the flush returns
    session,     \* "down", "live" (liveSession set) or "flushed"
    sockets,     \* session threads whose own socket is still open
    wire,        \* responses written to the session and not yet received
    exiting,     \* activatePreparedUpdate has armed its SIGTERM
    \* the rest records history and bounds
    runs,        \* how often the handler of a job was called
    announced,   \* jobs whose start was announced to the hub
    hubResults,  \* every result the hub has received for a job
    activations, \* how often the update a job prepared was activated
    kills, writeFaults

fileVars == <<stateFile, writing, tmpFile>>
httpVars == <<httpJob, todo, afterFlush>>
linkVars == <<session, sockets, wire>>
pastVars == <<runs, announced, hubResults, activations>>
faults   == <<kills, writeFaults>>
vars     == <<up, state, fileVars, queue, pc, result, httpVars, linkVars,
              exiting, pastVars, faults>>

JobOf(t) == IF t = Http THEN httpJob ELSE t[2]

NothingTodo == [j \in Jobs |-> NoResult]
AllIdle     == [t \in Thread |-> "idle"]
NoResults   == [t \in Thread |-> NoResult]

\* main has started the loops.
Serving == up /\ pc[Main] = "idle"

Init ==
    /\ up = FALSE
    /\ state = freshState /\ stateFile = freshState /\ tmpFile = freshState
    /\ writing = FALSE
    /\ queue = <<>>
    /\ pc = AllIdle
    /\ result = NoResults
    /\ httpJob = NoJob /\ todo = NothingTodo /\ afterFlush = "sleep"
    /\ session = "down" /\ sockets = {} /\ wire = {}
    /\ exiting = FALSE
    /\ runs = [j \in Jobs |-> 0]
    /\ announced = {}
    /\ hubResults = [j \in Jobs |-> {}]
    /\ activations = [j \in Jobs |-> 0]
    /\ kills = 0 /\ writeFaults = 0

-----------------------------------------------------------------------------
\* The process dies: everything but the renamed state file is lost.
ProcessDies ==
    /\ up' = FALSE
    /\ state' = stateFile
    /\ writing' = FALSE /\ tmpFile' = stateFile /\ UNCHANGED stateFile
    /\ queue' = <<>>
    /\ pc' = AllIdle
    /\ result' = NoResults
    /\ httpJob' = NoJob /\ todo' = NothingTodo /\ afterFlush' = "sleep"
    /\ session' = "down" /\ sockets' = {} /\ wire' = {}
    /\ exiting' = FALSE
    /\ UNCHANGED pastVars

\* The loop's own catch: the cycle ends and the next one starts after a pause.
EndCycle ==
    /\ pc' = [pc EXCEPT ![Http] = "idle"]
    /\ result' = [result EXCEPT ![Http] = NoResult]
    /\ httpJob' = NoJob /\ todo' = NothingTodo /\ afterFlush' = "sleep"

\* A promise nobody awaits rejects: Node ends the process. Only the loops
\* catch; main's own catch also ends the process.
Rejects(t) ==
    IF t \in {Http, Telemetry}
    THEN /\ IF t = Http
            THEN EndCycle
            ELSE /\ pc' = [pc EXCEPT ![t] = "idle"]
                 /\ UNCHANGED <<result, httpVars>>
         /\ UNCHANGED <<up, state, linkVars, exiting, pastVars>>
    ELSE ProcessDies

\* Mutate state and await writeState(state), to continue after `wait`.
WriteState(t, s, wait) ==
    /\ state' = s
    /\ queue' = Append(queue, t)
    /\ pc' = [pc EXCEPT ![t] = wait]

WithJob(s, j, status, pending) ==
    [s EXCEPT !.jobs[j] = status, !.pendingResults[j] = pending]

-----------------------------------------------------------------------------
(* The chain of persists: write a temporary file, rename it over the old.  *)

\* The next persist starts: JSON.stringify sees state as it is now.
PersistStart ==
    /\ ~writing
    /\ queue # <<>>
    /\ writing' = TRUE
    /\ tmpFile' = state
    /\ UNCHANGED <<up, state, stateFile, queue, pc, result, httpVars, linkVars,
                   exiting, pastVars, faults>>

\* Where the thread that awaited the persist goes on.
Resumed(wait) ==
    CASE wait = "w_claim"   -> "authorizing"
      [] wait = "w_running" -> "ready"
      [] wait = "w_result"  -> "respond"
      [] wait = "w_sent"    -> "sent"
      [] wait = "w_ack"     -> "acked"
      [] OTHER              -> "idle"

PersistDone ==
    /\ writing
    /\ stateFile' = tmpFile
    /\ writing' = FALSE
    /\ queue' = Tail(queue)
    /\ pc' = [pc EXCEPT ![Head(queue)] = Resumed(pc[Head(queue)])]
    /\ UNCHANGED <<up, state, tmpFile, result, httpVars, linkVars, exiting,
                   pastVars, faults>>

\* The disk refuses the write: the awaiting thread's promise rejects.
PersistFails ==
    /\ writing
    /\ writeFaults < MaxWriteFaults
    /\ writeFaults' = writeFaults + 1
    /\ Rejects(Head(queue))
    /\ Head(queue) \in {Http, Telemetry} =>
          /\ writing' = FALSE
          /\ tmpFile' = stateFile
          /\ queue' = Tail(queue)
          /\ UNCHANGED stateFile
    /\ UNCHANGED kills

\* telemetryLoop saves its offsets: the write carries all of state.
TelemetryWrite ==
    /\ OtherWriters
    /\ Serving
    /\ pc[Telemetry] = "idle"
    /\ WriteState(Telemetry, state, "w_other")
    /\ UNCHANGED <<up, fileVars, result, httpVars, linkVars, exiting, pastVars,
                   faults>>

-----------------------------------------------------------------------------
(* Start, crash and restart of the process.                                *)

\* Faulty variants of markInterruptedJobs, for the sensitivity of the
\* properties: it marks claimed jobs too, it does nothing, it writes the
\* error code into the status.
MarksClaimedToo(s) ==
    [jobs |-> [j \in Jobs |-> IF s.jobs[j] \in {"claimed", "running"}
                              THEN "result_pending" ELSE s.jobs[j]],
     pendingResults |-> [j \in Jobs |->
                              IF s.jobs[j] \in {"claimed", "running"}
                              THEN "interrupted" ELSE s.pendingResults[j]]]
MarksNothing(s) == s
MarksStatusWrong(s) ==
    [s EXCEPT !.jobs = [j \in Jobs |-> IF s.jobs[j] = "running"
                                       THEN "interrupted" ELSE s.jobs[j]]]

markInterruptedJobs(s) ==
    LET hit == {j \in Jobs : /\ s.jobs[j] = "running"
                             /\ s.pendingResults[j] = NoResult}
    IN  [jobs |-> [j \in Jobs |->
                      IF j \in hit THEN "result_pending" ELSE s.jobs[j]],
         pendingResults |-> [j \in Jobs |->
                      IF j \in hit THEN "interrupted" ELSE s.pendingResults[j]]]

\* Faulty variant of Boot: the loops do not wait for the marked state.
BootWithoutWrite ==
    /\ ~up
    /\ up' = TRUE
    /\ state' = markInterruptedJobs(stateFile)
    /\ UNCHANGED <<fileVars, queue, pc, result, httpVars, linkVars, exiting,
                   pastVars, faults>>

\* main: the loops start once the marked state is on disk.
Boot ==
    /\ ~up
    /\ up' = TRUE
    /\ LET s == markInterruptedJobs(stateFile) IN
         IF s # stateFile
         THEN WriteState(Main, s, "w_boot")
         ELSE state' = s /\ UNCHANGED <<queue, pc>>
    /\ UNCHANGED <<fileVars, result, httpVars, linkVars, exiting, pastVars,
                   faults>>

\* The machine or the service manager stops the process at any moment.
Kill ==
    /\ up
    /\ kills < MaxKills
    /\ kills' = kills + 1
    /\ ProcessDies
    /\ UNCHANGED writeFaults

\* The SIGTERM an activation sends to its own process.
ExitForUpdate ==
    /\ exiting
    /\ ProcessDies
    /\ UNCHANGED faults

-----------------------------------------------------------------------------
(* flushPendingResults, called by the HTTP loop before and after a job.    *)

BeginFlush(next) ==
    /\ pc' = [pc EXCEPT ![Http] = "flushing"]
    /\ result' = [result EXCEPT ![Http] = NoResult]
    /\ httpJob' = NoJob
    /\ todo' = state.pendingResults
    /\ afterFlush' = next

\* jobLoop: a cycle starts only while there is no live session.
Poll ==
    /\ Serving
    /\ pc[Http] = "idle"
    /\ session = "down"
    /\ BeginFlush("claim")
    /\ UNCHANGED <<up, state, fileVars, queue, linkVars, exiting, pastVars,
                   faults>>

\* Faulty variant of PostResult: the entry is deleted before the POST.
PostResultDeletesFirst(j) ==
    /\ pc[Http] = "flushing"
    /\ todo[j] # NoResult
    /\ state' = WithJob(state, j, "finished", NoResult)
    /\ pc' = [pc EXCEPT ![Http] = "posting"]
    /\ httpJob' = j
    /\ result' = [result EXCEPT ![Http] = todo[j]]
    /\ todo' = [todo EXCEPT ![j] = NoResult]
    /\ UNCHANGED <<up, fileVars, queue, afterFlush, linkVars, exiting,
                   pastVars, faults>>

PostResult(j) ==
    /\ pc[Http] = "flushing"
    /\ todo[j] # NoResult
    /\ pc' = [pc EXCEPT ![Http] = "posting"]
    /\ httpJob' = j
    /\ result' = [result EXCEPT ![Http] = todo[j]]
    /\ todo' = [todo EXCEPT ![j] = NoResult]
    /\ UNCHANGED <<up, state, fileVars, queue, afterFlush, linkVars, exiting,
                   pastVars, faults>>

FlushDone ==
    /\ pc[Http] = "flushing"
    /\ todo = NothingTodo
    /\ IF afterFlush = "claim"
       THEN /\ pc' = [pc EXCEPT ![Http] = "claiming"]
            /\ httpJob' = NoJob
            /\ afterFlush' = "sleep"
            /\ result' = [result EXCEPT ![Http] = NoResult]
            /\ UNCHANGED todo
       ELSE EndCycle
    /\ UNCHANGED <<up, state, fileVars, queue, linkVars, exiting, pastVars,
                   faults>>

\* The hub receives the POST.
PostReachesHub ==
    /\ pc[Http] = "posting"
    /\ hubResults' = [hubResults EXCEPT ![httpJob] = @ \cup {result[Http]}]
    /\ pc' = [pc EXCEPT ![Http] = "posted"]
    /\ UNCHANGED <<up, state, fileVars, queue, result, httpVars, linkVars,
                   exiting, runs, announced, activations, faults>>

\* The request or its reply is lost: the flush gives up, the cycle ends.
PostFails ==
    /\ pc[Http] \in {"posting", "posted"}
    /\ EndCycle
    /\ UNCHANGED <<up, state, fileVars, queue, linkVars, exiting, pastVars,
                   faults>>

\* The reply arrives: the result is dropped and the job gets its status.
PostConfirmed ==
    /\ pc[Http] = "posted"
    /\ WriteState(Http, WithJob(state, httpJob, "finished", NoResult), "w_sent")
    /\ UNCHANGED <<up, fileVars, result, httpVars, linkVars, exiting, pastVars,
                   faults>>

-----------------------------------------------------------------------------
(* processOneJob and handleSessionJob.                                     *)

\* The hub has no job, or the claim request fails.
ClaimNothing ==
    /\ pc[Http] = "claiming"
    /\ EndCycle
    /\ UNCHANGED <<up, state, fileVars, queue, linkVars, exiting, pastVars,
                   faults>>

\* A claimed job that state already knows is dropped.
ClaimDuplicate(j) ==
    /\ pc[Http] = "claiming"
    /\ state.jobs[j] # "absent"
    /\ EndCycle
    /\ UNCHANGED <<up, state, fileVars, queue, linkVars, exiting, pastVars,
                   faults>>

ClaimJob(j) ==
    /\ pc[Http] = "claiming"
    /\ state.jobs[j] = "absent"
    /\ httpJob' = j
    /\ WriteState(Http, WithJob(state, j, "claimed", state.pendingResults[j]),
                  "w_claim")
    /\ UNCHANGED <<up, fileVars, result, todo, afterFlush, linkVars, exiting,
                   pastVars, faults>>

\* Faulty variant of SessionRequest: only a pending result blocks a duplicate.
SessionRequestUnguarded(j) ==
    /\ Serving
    /\ session # "down"
    /\ pc[SessionJob(j)] = "idle"
    /\ state.pendingResults[j] = NoResult
    /\ sockets' = sockets \cup {SessionJob(j)}
    /\ WriteState(SessionJob(j), WithJob(state, j, "claimed", NoResult),
                  "w_claim")
    /\ UNCHANGED <<up, fileVars, result, httpVars, session, wire, exiting,
                   pastVars, faults>>

\* A request over the session for a job state does not know. The exemption
\* for "result_pending" is the code's; a request for any other known job is
\* dropped and changes nothing.
SessionRequest(j) ==
    /\ Serving
    /\ session # "down"
    /\ pc[SessionJob(j)] = "idle"
    /\ state.pendingResults[j] = NoResult
    /\ state.jobs[j] \in {"absent", "result_pending"}
    /\ sockets' = sockets \cup {SessionJob(j)}
    /\ WriteState(SessionJob(j), WithJob(state, j, "claimed", NoResult),
                  "w_claim")
    /\ UNCHANGED <<up, fileVars, result, httpVars, session, wire, exiting,
                   pastVars, faults>>

\* A request for a job whose result is pending is answered at once.
SessionRequestAgain(j) ==
    /\ Serving
    /\ session # "down"
    /\ state.pendingResults[j] # NoResult
    /\ wire' = wire \cup {<<j, state.pendingResults[j]>>}
    /\ UNCHANGED <<up, state, fileVars, queue, pc, result, httpVars, session,
                   sockets, exiting, pastVars, faults>>

\* ensureJobPolicy says no. The HTTP loop announces the start all the same.
Deny(t) ==
    /\ pc[t] = "authorizing"
    /\ result' = [result EXCEPT ![t] = "denied"]
    /\ pc' = [pc EXCEPT ![t] = IF t = Http THEN "starting" ELSE "ready"]
    /\ UNCHANGED <<up, state, fileVars, queue, httpVars, linkVars, exiting,
                   pastVars, faults>>

\* ensureJobPolicy says yes: the HTTP loop posts the start of the job.
AllowHttp ==
    /\ pc[Http] = "authorizing"
    /\ pc' = [pc EXCEPT ![Http] = "starting"]
    /\ UNCHANGED <<up, state, fileVars, queue, result, httpVars, linkVars,
                   exiting, pastVars, faults>>

\* Faulty variant of MarkRunning: nothing is written before the spawn.
MarkRunningUnwritten(t) ==
    /\ announced' = announced \cup {JobOf(t)}
    /\ state' = WithJob(state, JobOf(t), "running",
                        state.pendingResults[JobOf(t)])
    /\ pc' = [pc EXCEPT ![t] = "ready"]
    /\ UNCHANGED <<up, fileVars, queue, result, httpVars, linkVars, exiting,
                   runs, hubResults, activations, faults>>

MarkRunning(t) ==
    /\ announced' = announced \cup {JobOf(t)}
    /\ WriteState(t, WithJob(state, JobOf(t), "running",
                             state.pendingResults[JobOf(t)]), "w_running")
    /\ UNCHANGED <<up, fileVars, result, httpVars, linkVars, exiting, runs,
                   hubResults, activations, faults>>

StartHttp == pc[Http] = "starting" /\ MarkRunning(Http)

\* postJobStart fails: the cycle ends and the job stays "claimed".
StartHttpFails ==
    /\ pc[Http] = "starting"
    /\ EndCycle
    /\ UNCHANGED <<up, state, fileVars, queue, linkVars, exiting, pastVars,
                   faults>>

\* A session job is announced on the socket that brought it.
AllowSession(j) ==
    /\ pc[SessionJob(j)] = "authorizing"
    /\ SessionJob(j) \in sockets
    /\ MarkRunning(SessionJob(j))

\* The socket closed meanwhile: sendJson throws and nobody catches.
AllowSessionFails(j) ==
    /\ pc[SessionJob(j)] = "authorizing"
    /\ SessionJob(j) \notin sockets
    /\ ProcessDies
    /\ UNCHANGED faults

\* executeByTool is called.
Execute(t) ==
    /\ pc[t] = "ready"
    /\ result[t] = NoResult
    /\ pc' = [pc EXCEPT ![t] = "executing"]
    /\ runs' = [runs EXCEPT ![JobOf(t)] = @ + 1]
    /\ UNCHANGED <<up, state, fileVars, queue, result, httpVars, linkVars,
                   exiting, announced, hubResults, activations, faults>>

RecordResult(t, r) ==
    /\ result' = [result EXCEPT ![t] = r]
    /\ WriteState(t, WithJob(state, JobOf(t), "result_pending", r), "w_result")
    /\ UNCHANGED <<up, fileVars, httpVars, linkVars, exiting, pastVars, faults>>

ExecutionReturns(t) == pc[t] = "executing" /\ RecordResult(t, "output")

DeniedReturns(t) ==
    /\ pc[t] = "ready"
    /\ result[t] = "denied"
    /\ RecordResult(t, "denied")

\* The handler throws: the HTTP loop ends its cycle and leaves the job
\* "running"; in a session job nobody catches.
ExecutionThrows(t) ==
    /\ pc[t] = "executing"
    /\ JobOf(t) \in ThrowingJobs
    /\ Rejects(t)
    /\ t = Http => UNCHANGED <<fileVars, queue>>
    /\ UNCHANGED faults

\* The session job answers on its own socket, if that is still open.
RespondSession(j) ==
    /\ pc[SessionJob(j)] = "respond"
    /\ wire' = IF SessionJob(j) \in sockets
               THEN wire \cup {<<j, result[SessionJob(j)]>>} ELSE wire
    /\ sockets' = sockets \ {SessionJob(j)}
    /\ pc' = [pc EXCEPT ![SessionJob(j)] = "idle"]
    /\ result' = [result EXCEPT ![SessionJob(j)] = NoResult]
    /\ UNCHANGED <<up, state, fileVars, queue, httpVars, session, exiting,
                   pastVars, faults>>

RespondHttp ==
    /\ pc[Http] = "respond"
    /\ BeginFlush("sleep")
    /\ UNCHANGED <<up, state, fileVars, queue, linkVars, exiting, pastVars,
                   faults>>

-----------------------------------------------------------------------------
(* The session as jobs see it.                                             *)

Connect ==
    /\ Serving
    /\ session = "down"
    /\ session' = "live"
    /\ UNCHANGED <<up, state, fileVars, queue, pc, result, httpVars, sockets,
                   wire, exiting, pastVars, faults>>

flushSessionPending ==
    /\ Serving
    /\ session = "live"
    /\ session' = "flushed"
    /\ wire' = wire \cup {<<j, state.pendingResults[j]>> :
                            j \in {i \in Jobs :
                                     state.pendingResults[i] # NoResult}}
    /\ UNCHANGED <<up, state, fileVars, queue, pc, result, httpVars, sockets,
                   exiting, pastVars, faults>>

Disconnect ==
    /\ session # "down"
    /\ session' = "down"
    /\ sockets' = {}
    /\ wire' = {}
    /\ UNCHANGED <<up, state, fileVars, queue, pc, result, httpVars, exiting,
                   pastVars, faults>>

HubReceives(j) ==
    \E r \in Result :
        /\ <<j, r>> \in wire
        /\ wire' = wire \ {<<j, r>>}
        /\ hubResults' = [hubResults EXCEPT ![j] = @ \cup {r}]
        /\ UNCHANGED <<up, state, fileVars, queue, pc, result, httpVars,
                       session, sockets, exiting, runs, announced, activations,
                       faults>>

\* Faulty variant of ackSessionResult: the write is not awaited.
AckUnwritten(j) ==
    /\ Serving
    /\ session # "down"
    /\ hubResults[j] # {}
    /\ pc[AckJob(j)] = "idle"
    /\ state.pendingResults[j] # NoResult
    /\ result' = [result EXCEPT ![AckJob(j)] = state.pendingResults[j]]
    /\ state' = WithJob(state, j, "finished", NoResult)
    /\ pc' = [pc EXCEPT ![AckJob(j)] = "acked"]
    /\ UNCHANGED <<up, fileVars, queue, httpVars, linkVars, exiting, pastVars,
                   faults>>

\* A result_ack; acks of results that are no longer pending change nothing.
ackSessionResult(j) ==
    /\ Serving
    /\ session # "down"
    /\ hubResults[j] # {}
    /\ pc[AckJob(j)] = "idle"
    /\ state.pendingResults[j] # NoResult
    /\ result' = [result EXCEPT ![AckJob(j)] = state.pendingResults[j]]
    /\ WriteState(AckJob(j), WithJob(state, j, "finished", NoResult), "w_ack")
    /\ UNCHANGED <<up, fileVars, httpVars, linkVars, exiting, pastVars, faults>>

-----------------------------------------------------------------------------
(* After the acknowledgement, by either transport: activate the update.    *)

PreparedUpdate(t) == JobOf(t) \in UpdateJobs /\ result[t] = "output"

Continue(t) ==
    /\ pc' = [pc EXCEPT ![t] = IF t = Http THEN "flushing" ELSE "idle"]
    /\ result' = [result EXCEPT ![t] = NoResult]

\* No update, or authorizePreparedUpdate says no.
NoActivation(t) ==
    /\ pc[t] \in {"sent", "acked"}
    /\ Continue(t)
    /\ UNCHANGED <<up, state, fileVars, queue, httpVars, linkVars, exiting,
                   pastVars, faults>>

activatePreparedUpdate(t) ==
    /\ pc[t] \in {"sent", "acked"}
    /\ PreparedUpdate(t)
    /\ activations' = [activations EXCEPT ![JobOf(t)] = @ + 1]
    /\ exiting' = TRUE
    /\ Continue(t)
    /\ UNCHANGED <<up, state, fileVars, queue, httpVars, linkVars, runs,
                   announced, hubResults, faults>>

\* The activation throws: the flush catches it, an ack does not.
ActivationFails(t) ==
    /\ pc[t] \in {"sent", "acked"}
    /\ PreparedUpdate(t)
    /\ Rejects(t)
    /\ t = Http => UNCHANGED <<fileVars, queue>>
    /\ UNCHANGED faults

-----------------------------------------------------------------------------
Workers == {Http} \cup SessionJobs
Tellers == {Http} \cup AckJobs

Disk    == PersistStart \/ PersistDone \/ PersistFails \/ TelemetryWrite
Process == Boot \/ Kill \/ ExitForUpdate
Flush   == \/ Poll \/ FlushDone \/ PostReachesHub \/ PostFails \/ PostConfirmed
           \/ \E j \in Jobs : PostResult(j)
Arrive  == \/ ClaimNothing
           \/ \E j \in Jobs : \/ ClaimDuplicate(j) \/ ClaimJob(j)
                              \/ SessionRequest(j) \/ SessionRequestAgain(j)
Begin   == \/ AllowHttp \/ StartHttp \/ StartHttpFails
           \/ \E j \in Jobs : AllowSession(j) \/ AllowSessionFails(j)
           \/ \E t \in Workers : Deny(t)
Work    == \/ RespondHttp
           \/ \E j \in Jobs : RespondSession(j)
           \/ \E t \in Workers : \/ Execute(t) \/ ExecutionReturns(t)
                                 \/ DeniedReturns(t) \/ ExecutionThrows(t)
Link    == \/ Connect \/ flushSessionPending \/ Disconnect
           \/ \E j \in Jobs : HubReceives(j) \/ ackSessionResult(j)
Update  == \E t \in Tellers : \/ NoActivation(t) \/ activatePreparedUpdate(t)
                              \/ ActivationFails(t)

Next == Disk \/ Process \/ Flush \/ Arrive \/ Begin \/ Work \/ Link \/ Update

Spec == Init /\ [][Next]_vars

(***************************************************************************)
(* Fairness. Node's event loop runs every continuation whose promise has   *)
(* settled (WF on the agent's own steps), timers and the service manager   *)
(* restart what ended (WF on Boot, ExitForUpdate, Poll when it stays       *)
(* enabled). The network is assumed not to fail forever: a POST that is    *)
(* retried forever gets through (SF), a response written again and again   *)
(* arrives (SF), and a session does not stay up forever (WF Disconnect):   *)
(* a result that became pending on a dead socket is only sent again on     *)
(* the next connection or, once the session is down, by the HTTP loop.     *)
(***************************************************************************)
Fairness ==
    /\ WF_vars(PersistStart) /\ WF_vars(PersistDone)
    /\ WF_vars(Boot) /\ WF_vars(ExitForUpdate)
    /\ SF_vars(Poll) /\ WF_vars(FlushDone) /\ WF_vars(\E j \in Jobs : PostResult(j))
    /\ SF_vars(PostReachesHub) /\ SF_vars(PostConfirmed) /\ WF_vars(ClaimNothing)
    /\ WF_vars(StartHttp) /\ WF_vars(RespondHttp)
    /\ \A j \in Jobs :
          /\ WF_vars(AllowSession(j) \/ AllowSessionFails(j))
          /\ WF_vars(RespondSession(j))
          /\ SF_vars(HubReceives(j))
    /\ \A t \in Workers :
          /\ WF_vars(Deny(t))
          /\ WF_vars(Execute(t))
          /\ WF_vars(ExecutionReturns(t) \/ DeniedReturns(t))
    /\ \A t \in Tellers : WF_vars(NoActivation(t))
    /\ WF_vars(Disconnect)

FairSpec == Spec /\ Fairness

-----------------------------------------------------------------------------
(* Properties.                                                             *)

\* Every variable has its type.
TypeOK ==
    /\ up \in BOOLEAN
    /\ state \in AgentState
    /\ stateFile \in AgentState
    /\ writing \in BOOLEAN
    /\ tmpFile \in AgentState
    /\ queue \in Seq(Thread)
    /\ pc \in [Thread -> Pc]
    /\ result \in [Thread -> Result \cup {NoResult}]
    /\ httpJob \in Jobs \cup {NoJob}
    /\ todo \in [Jobs -> Result \cup {NoResult}]
    /\ afterFlush \in {"claim", "sleep"}
    /\ session \in {"down", "live", "flushed"}
    /\ sockets \subseteq SessionJobs
    /\ wire \subseteq Jobs \X Result
    /\ exiting \in BOOLEAN
    /\ runs \in [Jobs -> Nat]
    /\ announced \subseteq Jobs
    /\ hubResults \in [Jobs -> SUBSET Result]
    /\ activations \in [Jobs -> Nat]
    /\ kills \in Nat
    /\ writeFaults \in Nat

\* A job's handler is called at most once, whatever is delivered twice, by
\* whichever transport, and however often the process restarts
\* (client.mjs:1315, 1479: the duplicate blocks).
AtMostOnce == \A j \in Jobs : runs[j] <= 1

\* A handler is only called for a job whose "running" record is already on
\* disk, so that no crash can leave a started job without a trace
\* (client.mjs:1329 "persist BEFORE any execution", 1335 "persist BEFORE
\* spawn").
SpawnRecorded ==
    \A j \in Jobs : runs[j] > 0 =>
        stateFile.jobs[j] \in {"running", "result_pending", "finished"}

\* No copy of the state counts a job as finished, and so drops its result,
\* before the hub has received a result for it (client.mjs:1232-1238,
\* 1435-1443).
NoResultForgotten ==
    \A j \in Jobs :
        "finished" \in {state.jobs[j], stateFile.jobs[j], tmpFile.jobs[j]}
            => hubResults[j] # {}

\* What the hub is told agrees with what happened: an output only from a job
\* that ran, a denial only for a job that never ran, a restart only for a
\* job whose start was announced (client.mjs:1277-1296, 1330-1345).
VerdictMatchesRun ==
    \A j \in Jobs :
        /\ "output" \in hubResults[j] => runs[j] > 0
        /\ "denied" \in hubResults[j] => runs[j] = 0
        /\ "interrupted" \in hubResults[j] => j \in announced

\* An update is activated only after its result reached the hub and the
\* record that says so is on disk: the process that comes back neither runs
\* the update again nor reports it as interrupted (client.mjs:1239-1261,
\* 1444-1465; updater.mjs:507 "after-result-ack").
ActivatedAfterAck ==
    \A j \in Jobs : activations[j] > 0 =>
        "output" \in hubResults[j] /\ stateFile.jobs[j] = "finished"

\* A job that is "running" on disk is eventually reported to the hub: by its
\* own handler, or as interrupted by the process that comes back. Two cases
\* are excluded because the code leaves the job "running" in memory until the
\* next restart: a handler that throws and a failed write (client.mjs:1228-1296, 1421-1430).
RunningIsReported ==
    \A j \in Jobs \ ThrowingJobs :
        stateFile.jobs[j] = "running" ~> (hubResults[j] # {} \/ writeFaults > 0)

\* The state file is a ledger in the sense of JobLedger: whatever is lost,
\* duplicated or restarted, the durable record of a job only moves forward,
\* its handler runs while the record says "running" and nothing was told, and
\* a restart is only reported once it is recorded (client.mjs:514-523,
\* 1787-1788).
Ledger == INSTANCE JobLedger WITH ledger <- stateFile.jobs, told <- hubResults
KeepsLedger == Ledger!Spec

\* updater.mjs:507 advertises activation 'idle-only-after-result-ack': no
\* handler runs when an update is activated. The code does not keep it: see
\* the deviations in README.
ActivationWhileIdle ==
    [][activations' # activations => \A t \in Workers : pc[t] # "executing"]_vars
=============================================================================
