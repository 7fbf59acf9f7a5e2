# Verification project for hhc-agent

TLA+ models of the host agent, the TLC runs that check them on small instances
and the theorems TLAPS checks about them. Paths and line numbers are those of
the repository, which lies in `src/`: `client.mjs` is
`src/src/client/client.mjs`, `updater.mjs` is `src/src/updater/updater.mjs`,
`ws-client.mjs` is `src/src/client/ws-client.mjs`, and so on.

| | |
|---|---|
| modules | nine models: `AgentJobs`, `SessionLink`, `UpdateActivation`, `FileMutation`, `HostPolicy`, `AgentInstance`, `BrowserSessions`, `BrowserPages`, `ProcessSessions`; three abstract specifications, `JobLedger`, `InstalledRelease` and `FileStore`, that the first, third and fourth implement; one `MC…` module per model; eight `…_proofs` modules (`Browser_proofs` is about both browser models) |
| runs | 10 that pass, 2 that refute what a comment or a document says |
| theorems | type correctness, every safety property of the runs and the three refinements, for every value of the constants |

Commands, in `tla/`:

    tlc -workers 2 -config MCAgentJobs.cfg MCAgentJobs
    tlapm AgentJobs_proofs.tla

`PROJECT.json` lists the runs, the mutants that show each property can be
broken by a plausible bug, the source lines behind every definition, the
findings, the hazards and the theorems.

## 1. The system

hhc-agent is one Node.js process per host. A launcher takes a lock and runs
`main`, which starts three loops on one event loop: telemetry, jobs over HTTP
polling, and a live WebSocket session. The hub sends jobs; the agent answers
each with a result. State that must survive a restart is one JSON file.

| component | state it keeps | operations | talks to |
|---|---|---|---|
| Job life cycle, `client.mjs` 472-523, 684-735, 905-942, 1181-1351, 1387-1522, 1746-1862 | `state.jobs`, `state.pendingResults` in memory and in the state file, `stateWriteChain` | claim, authorise, start, execute, record, post or respond, flush, acknowledge, mark interrupted at boot | hub over HTTP and session, all tools, updater |
| Live session, `client.mjs` 60-155, 1526-1703; `ws-client.mjs` | `liveSession`, backoff index, timers, listeners of the socket | connect, hello, welcome, heartbeat, pong watchdog, reconnect | hub, job life cycle, policy, updater |
| Updater, `updater.mjs` | `app`, `releases/client/<v>/stage`, `backups/client/*`, the activation record, healthy markers | stage, activate, swap, mark healthy, watchdog rollback | jobs, service manager, hub |
| Singleton lock and launcher, `singleton.mjs`, `launcher.mjs` | `client.lock` | acquire, take over, release, exit code 75 when retired | service manager, other agent processes |
| Host policy, `host-policy.mjs`, `client.mjs` 216-217, 623-735, 1022-1046, 1567-1625 | `currentPolicy` | apply (welcome, re-hello, fetch), authorise a bound job, gate a mutation | hub, jobs, file tools, browser |
| Retirement, `lifecycle.mjs`, `client.mjs` 528-560, 1705-1743 | evidence counter in the state file, `retired`, `retired.json` | observe a failure, clear, retire | telemetry, session, launcher |
| Telemetry and log forwarding, `client.mjs` 840-900, 1705-1743 | offsets in the state file | register, heartbeat, forward lines | hub, state file |
| File mutation tools, `mutation-ops.mjs` | a queue per path | write, edit, move, delete, create | policy gate, disk |
| Process sessions, `process-sessions.mjs` | table of child processes, output buffers with cursors, records on disk | start, read, write, terminate, expire, sweep at boot | operating system |
| Browser sessions, `browser-manager.mjs`, `browser-jobs.mjs` | table of sessions, profile locks, the shared browser | create, attach, use, close, sweep | Playwright, Chromium |
| Browser pages, the same files | pages, current page, refs, pending dialog, queue of operations | navigate, snapshot, find, interact, tabs, dialogs, evaluate, upload, screenshot | pages, the operator |
| Browser runtime, `browser-runtime.mjs` | directories of browser builds | download, unpack, promote | updater, disk |
| Privileged helper, `privileged-helper/*.mjs` | used request ids, one socket | sign, send, verify, execute, audit | agent, systemd |
| Structured operations, shell, service and log tools, GUI broker, egress policy | none between calls | one call, one answer | operating system |
| Enrolment, migration, device proof, installers, packaging | files written once | run from the command line | operating system |

### What is hard here

* **Three loops and any number of session jobs share one object.** A write of
  the state file serialises that object when the write *starts*
  (`client.mjs:519`), so it carries other threads' half-done steps to disk.
* **Two transports carry the same results.** A result can be posted, sent on
  the session and acknowledged at once, and either delivery may be lost.
* **The agent kills itself on purpose** 800 ms after an update, while other
  work goes on, and by accident: a promise that nobody awaits rejects.
* **Socket events are lost or fatal** depending on which listener is attached
  at which `await`.
* **Names are reused.** A process number passes to another program, a browser id
  to another session, a ref to another element; each is checked in one turn and
  used in a later one.
* **Nothing ends by itself.** Children outlive the agent, a dialog blocks its
  page, `evaluate` waits for a page that never answers; a timer or a sweep has to
  end each, also when the agent dies in between.
* **The update touches the only copy of the program** with many renames, and
  the rollback is the job of a process that outlives its parent.

`PROJECT.json` lists each such hazard at its line with the property that
covers it, or why none does yet.

### What makes each component correct

* Job life cycle: a job runs at most once; it runs only when a crash would
  leave a trace of it; no result is dropped before the hub has one; what the
  hub is told is what happened; a job that runs is reported in the end; an
  update is activated only when its acknowledgement is on disk.
* Live session: an attempt leaves no socket behind; socket events do not end
  the process; a dead peer is noticed.
* Updater: `app` always comes back to one whole release; a welcomed release is
  not rolled back; one never welcomed is; a rollback restores what was there.
* Lock: one process runs `main`, and a dead one does not keep the next out.
  Retirement: six consecutive answers over 45 s, never while the hub knows the
  client, and in the end when it does not.
* Policy: a job runs under the revision it was admitted by.
* File tools: operations on one path do not interleave, a replacement is whole or
  not there, and no call acts on what is no longer true.
* Browser sessions: one browser per profile directory; nothing is left running
  that no table knows. Browser pages: an action reaches the element that the
  snapshot showed; no operation keeps the queue for ever.
* Process sessions: a child that may outlive the agent is on record and ends; a
  reader is told what it missed.

## 2. AgentJobs: the life of a job

### State and actions

A thread is one asynchronous function that can be suspended: the HTTP loop,
the telemetry loop, `main` before the loops, one `handleSessionJob` and one
`ackSessionResult` per job. `pc[t]` is the `await` at which thread `t` is
suspended, so each action is what the code does between two awaits.

| model | code |
|---|---|
| `state`, `stateFile`, `tmpFile`, `writing`, `queue` | the shared object, the renamed file, the serialised text, a running `persist`, `stateWriteChain` (510-523) |
| `PersistStart`, `PersistDone`, `PersistFails` | `persist`: serialise, rename, reject |
| `Boot`, `markInterruptedJobs`, `Kill`, `ExitForUpdate` | `main` up to the loops, 1277-1296, the end of the process |
| `BeginFlush`, `PostResult`, `PostReachesHub`, `PostConfirmed`, `PostFails`, `Continue`, `FlushDone` | `flushPendingResults` 1228-1272 |
| `ClaimNothing`, `ClaimDuplicate`, `ClaimJob`, `Deny`, `AllowHttp`, `StartHttp`, `MarkRunning`, `Execute`, `ExecutionReturns`, `ExecutionThrows`, `DeniedReturns`, `RespondHttp` | `processOneJob` 1301-1351 |
| `SessionRequest`, `SessionRequestAgain`, `AllowSession`, `AllowSessionFails`, `RespondSession` | `handleSessionJob` 1471-1522 |
| `Connect`, `flushSessionPending`, `Disconnect`, `HubReceives`, `ackSessionResult` | what `runSessionOnce` does to jobs, 1421-1465 |
| `activatePreparedUpdate`, `NoActivation`, `ActivationFails` | the end of an acknowledged update job |

`sockets` are the session threads whose own socket still exists: a response is
sent on the socket the request came from. `wire` is a set, so frames may be
delayed, repeated or lost. The hub may hand out a job any number of times over
either transport, before and after restarts. `runs`, `announced`, `hubResults`
and `activations` record history.

Abstracted: what handlers do (return or throw), the policy's contents (a job is
allowed or denied), the size of results, offsets and registration (the
telemetry loop is only another writer of the state, `OtherWriters`). The state
file can be read at boot, as it is only ever renamed into place: the `catch` of
`readState` (505-507), which starts from an empty state, is left out. A session
serves jobs from the welcome on; the code also serves those that arrive between
the handshake and `liveSession` (1567-1583).

### Checked

| run | instance | properties |
|---|---|---|
| `agent_jobs` | two interchangeable jobs, either may be an update and may throw; 1.0 million states | `AtMostOnce`, `SpawnRecorded`, `NoResultForgotten`, `VerdictMatchesRun`, `KeepsLedger` |
| `agent_jobs_crash` | one update job, two kills anywhere, one failed write, a second writer | `TypeOK`, `ActivatedAfterAck`, `RunningIsReported` |

Two jobs are enough for what goes wrong between jobs: one in the loop and one on
the session, one running while the other is activated, one carried to disk by
the other's write. The process of `agent_jobs` still dies, of its own errors
and for updates, and restarts any number of times; kills and failed writes, which
multiply the states, are in `agent_jobs_crash`, where one job meets both of its
transports and two restarts.

`JobLedger` is the abstract specification: a durable record per job that only
moves forward, a handler that runs once while the record says `running`, and
verdicts that agree. `KeepsLedger` says `AgentJobs` implements it with the
state file as the ledger. It lets an output be told before it is on
record, so that it does not say that a result is persisted before it is sent
(the comment of `client.mjs:1345`).

Fairness (`FairSpec`, for `RunningIsReported` only). Weak: the write chain, the
service manager's restart and every step the event loop will take by itself.
Handlers are assumed to end, fetches and posts to end (they have timeouts,
566-580). Strong: polling, and a POST or a frame reaching the hub, because a
connection that keeps coming back gets through in the end; that is an
assumption about the network, which the code's endless retry relies on.
Sessions need never come up. Jobs whose handler throws are excluded, as are
runs with a failed write: the code leaves such a job `running` until the next
restart.

### Proved (`AgentJobs_proofs`)

For any set of jobs, finite or not, any number of kills and failed writes:

* `TypeCorrect`: `Spec => []TypeOK`;
* `AtMostOnceHolds`: `Spec => []AtMostOnce`;
* `SpawnRecordedHolds`: `Spec => []SpawnRecorded`;
* `NoResultForgottenHolds`, `VerdictMatchesRunHolds`, `ActivatedAfterAckHolds`:
  the same for the other safety properties of the runs;
* `KeepsLedgerHolds`: `Spec => KeepsLedger`, the refinement of `JobLedger`;
* `Invariants`, `AllInvariants`: the inductive invariant below.

The only assumption is `JobsAssumption` on the constants. None of the
properties is inductive. The invariant has four layers.
`Control` is about threads alone: those in the write chain await a write and
are there once, a write has an owner, a busy thread has a job, a process that
is down has nothing but its file. `Records` builds on it: the three copies of
the table are ordered (disk behind the text being written behind memory),
`result_pending` and an entry in `pendingResults` go together in each copy, what
a busy thread's job looks like at each await, no two threads are busy with one
job, and the text a thread waits for before it spawns says `running`. The last
is where the shared serialisation could go wrong: it holds because the thread
enqueues *after* it changed the object. `Answers` follows a result from the
copies into posts and frames: whatever is kept or under way as an output belongs
to a job that ran, a denial or an interruption stays what it is, and an
interruption is only told of a job whose running record is on disk. `Closed` says
that whoever closes a job, and every copy that calls it finished, comes after the
hub has a result, and that the text a closing thread waits for says so too. Each
layer has a lemma per group of actions, and the theorems combine them. The
refinement maps each step to what it does to the file on disk, which only a
finished write changes.

## 3. SessionLink: the life of a session

`pc` is where `sessionLoop` is suspended; `sock` the socket of the current
attempt; `leaked` and `closing` count sockets of earlier attempts. Time counts
ticks between pings and in the pong window.

| model | code |
|---|---|
| `Wake`, `ConnectFails`, `Connected` | `sessionLoop` 1673-1700, `connectWebSocket` |
| `WelcomeRejected`, `Welcome`, `WelcomePolicyRefused` | the welcome race 1553-1624 |
| `SettleFails`, `Settled` | the awaits between `liveSession = ws` and the close listener, 1625-1646 |
| `CloseEmitted`, `PeerCloses`, `BadFrame`, `Drained`, `SocketError` | events of the socket, by the listener attached at that moment |
| `Ping`, `Tick`, `Frame`, `PongTimeout` | heartbeat and `attachPongWatchdog` 113-155 |
| `ProcessDies`, `Restart`, `Orphan…` | an `error` nobody listens to; the service manager; sockets left behind |

`session_link` (heartbeat longer than the pong window, as the default 30 s
against 10 s is) checks `LeavesNoSocket`, `SurvivesSocketEvents` and
`HalfOpenIsLeft`. `LeavesNoSocket` names the two ways in which the code does
leave one: the policy of the welcome is refused, or the state file cannot be
written. Two orphans and a backoff of six steps are enough: more of either
repeats the same transitions. Fairness: timers fire, connections succeed or
fail, the loop proceeds; nothing is assumed of the peer.
With a heartbeat that is not longer than the window, which `client.mjs:1635`
allows (the hub may ask for 5 s), every ping arms the window anew, it never ends
and `HalfOpenIsLeft` fails.
A closed socket may also stay the live session: see the deviations.

Proved (`SessionLink_proofs`) for any heartbeat, window, backoff and number of
orphans: `LinkTypeCorrect`, `LeavesNoSocketHolds`, `SurvivesSocketEventsHolds`.
The invariant says what the position of the loop means: there is a socket during
an attempt and none between two, `liveSession` is set from the welcome to the end
of the attempt, timers run only once the session is established, and a process
that is down has neither sockets nor timers.

## 4. UpdateActivation: what updates do to the files

A directory is a function from file names to the release each file came from.
Versions are numbers; `BadVersions` start but are never welcomed. `job[u]` is an
update job, `act[a]` a call of `activatePreparedUpdate`, numbered in the order
of their stamps.

| model | code |
|---|---|
| `StageClear`, `StageReady`, `StageFails` | `makeUpdateHandler` 182-283 |
| `Reported`, `NotActivated` | a result is acknowledged over HTTP (`client.mjs` 1228-1240) or over the session (1434-1445), and is refused, or the process ends, before its activation |
| `ActivateBegin` | record and watchdog source written, names of `app` read, 412-469 and 305 |
| `BackupFile`, `BackupDone`, `InstallFile`, `ActivateEnd` | `swapAppContents` rename by rename, the spawn, the armed SIGTERM |
| `BackupFails`, `InstallFails`, `UndoFile`, `UndoFails`, `UndoDone`, `RestoreFile`, `RestoreFails`, `RestoreDone` | a rename that fails, and the undoing of the swap, 305-314 |
| `Rejects`, `ProcessDies` | an activation that rejects: caught by `flushPendingResults` (1262), the end of the process for an ack |
| `Kill`, `ExitForUpdate`, `Boot` | the process and the service manager |
| `Welcome` | `markUpdateHealthy` 477-486 |
| `WatchdogSatisfied`, `WatchdogRemoves`, `WatchdogRestores`, `WatchdogFails` | `watchdogSource` 495-502 |

Nothing in the code keeps a second activation out. A new update may be prepared
and activated while another waits for its watchdog; and one result can be
activated twice: `flushPendingResults` posts it (1232) while a session comes up,
is sent the same result, acknowledges and activates it, and the flush goes on to
activate it again when its POST returns. So an update job can be `Reported`
`by` either transport, the session while the result is pending, HTTP also after
that, and both begin an activation. Activations interleave rename by rename and
rename each other's files, the later one overwrites the record (437) and backs
up what the earlier one has installed. The history variable `crossed` holds the
activations that met another one that could still move files, and those of the
release that runs already.

`update_activation`: two files, three releases of which the second is bad, two
update jobs, two activations, one mishap (a kill or a refused rename, also one
of the undoing or of a watchdog). Two files are what a half-done swap needs; two
jobs and two activations show an update after another, an update after a
rollback, two at once and one result activated twice. What the properties say
and except:

* `HealthyStays`: the watchdog never takes a welcomed release away, unless a
  later activation has overwritten the record that names its marker.
* `RollbackRestores`: a rollback puts back, file for file, what its activation
  found in `app`, unless it met another one. Updates that only stage, and
  activations that do not meet, are not excepted.
* `Recovers`, `BadReleaseIsLeft`, `OneRelease`, unless `Spoiled`: activations have
  crossed, or a move ended half-way (`torn`): the process died in it, a first
  rename failed outside the `try` (305), the undoing failed (312) or a rename of
  the watchdog did (501). The code has no answer to either.

What happens in the excepted cases is told under the deviations.

`InstalledRelease` is the abstract specification: one release is installed,
another one may take its place in one step and is then on probation, and it
stays when it was welcomed or its predecessor comes back. `OneRelease` says that
`UpdateActivation` implements it. What is installed is read off the files
(`Held`): `app`, except during a swap and a rollback, when it is what the
activation found there. What can come back is the backup of an activation whose
watchdog still has to look (`Kept`); that it was accepted is the marker
(`Accepted`). So a swap replaces the release when it is over and the watchdog
spawned (`ActivateEnd`), an undone one never, and a rollback takes effect when
the watchdog takes the new release away.

Fairness: the swap proceeds, the armed SIGTERM arrives, a service manager
starts a whole release, the watchdog's timer fires. A welcome is never assumed:
a good release that the hub does not welcome in 25 s may be rolled back.
The watchdog does not wait for the new process; that 25 s are longer than the
800 ms of the SIGTERM is the one use of real time.

Abstracted: stamps (`Date.now()`) are taken to be distinct; the record, the
watchdog's source and the list of names are one step, and a failure in it, which
leaves `app` alone, is left out; each of the watchdog's two moves is one step, or
a part of one when it fails; a release that does not have all its files does not
start; the pid file can be read. The Windows helper and supervisor (393-405,
440-465) and the checks of a release's contents are not modelled.

Proved (`UpdateActivation_proofs`), for any releases, files, updates,
activations, kills and refused renames, whatever they do to each other:
`UpdateTypeCorrect`, `HealthyStaysHolds`, `RollbackRestoresHolds`,
`OneReleaseHolds`. No hypothesis keeps activations apart; the exceptions are
those of the properties. The invariant (`UpdateInvariant`) has these parts.
`Course` and `Alive`: how far an activation is agrees with the record, the
markers, the watchdog and the process; in particular, while a watchdog counts, a
welcomed release whose activation is the one on record has its marker. `Alone`:
an activation that can still move files and has not crossed another is the only
such one, and the record is its own. `Back`: for such an activation, at each
rename of the swap, of its undoing and of the rollback, every file it found is in
`app` or in its backup. `OneReleaseHolds` adds `Sound`, which holds while nothing
is `Spoiled`: what runs is the whole release in `app`, or the one that the only
activation under way found there, and a stage holds files of its own release
alone; and it shows, action by action, that the moving files then implement
`InstalledRelease`. The two liveness properties stay with TLC.

## 5. FileMutation: file tools that run at the same time

An operation is one call of a handler of `mutation-ops.mjs`. The contents of a
file are the set of writers that contributed to them, so equal digests are equal
contents and a lost update shows. `whole` is false while a write in place is
half done.

| model | code |
|---|---|
| `Request`, `Precheck` | the payload; what a move looks at before it queues, 411-440 |
| `Ask`, `Turn`, `Release`, `Finish` | `serialized`, `serializedMany` 230-258: the last tail of each path, whom a call found there, and the release |
| `Look`, `Read`, `WriteTemp`, `Again` | the checks and the temporary file of `fileWriteMutation` 268-364 and `fileEditMutation` 630-672 |
| `CreateFile`, `FillFile`, `AppendFile`, `RenameTemp`, `MoveFile`, `DeleteFile` | the system call that changes the file |
| `WriteTempFails`, `CommitFails`, `OutsideChange`, `Kill` | the disk, other programs, the process |

The queue is modelled as the code has it, a map from path to the last tail and
the tail each call found, and not as a list: that only one call at a time gets
in, in order, is what `OneAtATime` checks.

`file_mutation`: two calls of any kind on two paths, with one refused write,
death of the process or change by another program anywhere. It checks
`OneAtATime`, `NoHalfReplacement`, `ActsOnWhatItChecked`,
`EveryCallAnswered` and `OneEffect`. Two calls and two paths are the fewest with a circular
wait, which `serializedMany` prevents by sorting. Fairness: a call goes on when
what it awaits is there.

`FileStore` is the abstract specification, without queues, digests or temporary
files: a call is new, open or closed, and while it is open it takes effect in
one step, once, on the files as they are then; the answer is true. While no
other program writes the files are as the caller asked (there, with the expected
contents, no destination in the way). A create takes two steps, an append may be
left half done. `OneEffect` says that `FileMutation` implements it: the effect
is the call's last system call, and everything before it and the waiting is
invisible, except that it may fail.

Proved (`FileMutation_proofs`): `OneAtATimeHolds`, for any number of calls. It
takes three calls to see a queue entry removed too early (one ends, one waits,
one arrives), and the proof covers any number. The invariant says that the
calls on a path form a line: whom a call found there is still ahead of it, no two
found the same call, at most one has nobody ahead, the map names the last one or
nothing, and no set of calls waits in a ring. An entry is only removed by the
call it names, so that it is only removed when the line ends with it.

`NoHalfReplacementHolds`, `ActsOnWhatItCheckedHolds` and `TypeCorrect` follow for
any number of calls as well. What is torn, in a file, a temporary file or what a
call has read, is the work of a create or an append that has arrived (`Whence`):
a replace and an edit write in place nowhere. And as long as no other program
writes, what a call has found at its paths stays so until the call changes it
(`StillTrue`), because the calls inside with it name other paths, which is the
theorem about the queue.

`SomeCallGoesOnHolds` is what can be proved of `EveryCallAnswered`: while a call
is under way, some call need not wait, for any number of calls on finitely many
paths (`IsFiniteSet(Paths)` is its hypothesis). A call waits for the last path it
has asked for and has its turn for the others (`Sorted`); of the paths that are
waited for take the greatest: the head of its line waits for nothing.

`OneEffectHolds` is the refinement, for any number of calls, paths and troubles.
Beside the two invariants above it needs `Ready`: what a call is about to write
was made for it, the file it is about to change is there (half of it for a
create), and a call that has ended knows its result.

`ActsOnWhatItChecked` is limited to the agent's own calls. Between the last
check and the rename another program may change the file: the window is short in
`file_write`, which compares the digest again, and long in `file_edit`, which
does not (653-661).

## 6. HostPolicy: the policy a job runs under

A policy is its revision; `grants` says what each revision grants. `current` is
`currentPolicy`, which every fetch and every welcome replaces, in the order in
which they arrive.

| model | code |
|---|---|
| `Claim`, `Unbound`, `Ask`, `FetchFails`, `FetchReturns` | the claimed job, `ensureJobPolicy` 704-715, `fetchCurrentPolicy` 656-681, `applyCurrentPolicy` 626-654 |
| `authorizeBoundJob`, `requiredCapabilitiesForOperation`, `Exempt` | `host-policy.mjs` 140-335 |
| `Execute`, `Gate`, `requiredMutationCapabilities` | `executeByTool` 1185-1208; `requirePolicy` and `mutationPolicyGate`, in one turn with it, so that the gate and the roots see the same policy |
| `Acknowledge`, `Activate` | `authorizePreparedUpdate` 1214-1223 and its callers |
| `Connect`, `announceCapabilities`, `WelcomeArrives`, `WelcomeTaken`, `Disconnect` | hellos and welcomes; a first welcome is applied twice, by the listener (1575) and by `runSessionOnce` (1624) |
| `Restart`, `HubChangesPolicy`, `HubAnswers` | the end of the process, the hub |

One tool stands for each shape of the capability table: tools with the same entry
are left out, and so are headed browsers, evaluation and uploads in the browser,
whose capabilities are added the way `browser_existing_attach` is.
The hub's revision is assumed to grow, to have one content each (the digest
covers the capabilities), and a job to be bound when it is admitted. Welcomes of
sockets an earlier attempt left behind are not modelled. Roots are not part of
the digest; the model names them by the revision they came with.

`host_policy`: two jobs, two revisions, two welcomes, one restart; 4.3 million
states. Two jobs are what two fetches that overtake each other need, two
welcomes a re-hello, and a third revision would only repeat the second's role.
It checks `AuthorizedInForce`, `DenialsAreTrue`, `MutationUnderItsPolicy`,
`GateAgrees` and `ActivatedInForce`.

Proved (`HostPolicy_proofs`), for any jobs, operations, profiles and bounds: all
five, and the types. None but the types is inductive. `IndInv` adds the order of four revisions
at each await: what the job is bound to, what was in force when the agent asked,
the answer, and what is in force now never decrease in this order, so an answer
equal to the binding makes the first three equal. The lemma `TablesAgree` covers
all mutation tools and options, of which the run takes one. There is no liveness
to check: a fetch ends by its timeout.

The tools without a gate are run with whatever policy the agent holds when they
start; nothing here says it is the one they were allowed under.

## 7. AgentInstance: processes of one installation

`pc[p]` is where the launcher of process number `p` is suspended: in
`acquireClientLock`, in `main`, in the release. `lock` is `client.lock`: whose
file it is, whether its row is in it, whether the row is older than 5 s.

| model | code |
|---|---|
| `Create`, `WriteRow`, `Exists`, `Refused`, `Stale`, `Remove`, `RemoveLast` | `acquireClientLock`, `singleton.mjs` 76-134: exclusive creation, the row, the look at the owner, the removal, three times at most |
| `Release`, `ReleaseNothing`, `Unlink`, `Gone` | the release 90-97 and `runLauncher`, `launcher.mjs` 71-90 |
| `Alive`, `Recycled`, `StrangerStarts` | `defaultPidAlive` and `defaultOwnerStartMs`: a number that another program has had since after the row was written |
| `Answered`, `Welcomed`, `OtherError`, `NotFound`, `Seen`, `Enough` | `observeRetirementResponse`, `lifecycle.mjs` 79-92, and what resets it, `client.mjs` 528-533, 1626, 1705-1743 |
| `Persist`, `PersistFails`, `Throws`, `Mark`, `Returns`, `Boot`, `BootRetired` | `writeState`, the marker, the end of the loops, the next boot (538-559, 1770-1790, 1853-1855) |
| `ServiceStarts`, `Killed`, `Tick`, `HubChanges` | `Restart=always`, `RestartSec=5` of the unit; the system; time; the hub |

Evidence is kept in three copies, as in the code: in memory, on disk, and
`told`, what the hub has really said. `raced` says that two starts overlapped,
`forgot` that a process ended between a good answer and its record; both are
history variables that the properties except.

`agent_instance`: two numbers, two confirmations over one tick, one trouble (a
kill, a failed write, another error, a start time that cannot be read). Two
numbers are an owner and a starter, or a dead owner's number with a stranger in
it. It checks `OneAgent`, `RetiredOnEvidence`, `StartsAgain`, `RetiresInTheEnd`.
Fairness: the service manager starts an agent when none runs; a launcher and
`main` go on; the telemetry loop asks again and its writes end; time passes. For
`RetiresInTheEnd` a live session is assumed not to keep the telemetry loop from
asking, and to end after retirement, as the code's `retired` flag makes it.

Abstracted: number and start time name a process (the code compares to 5 s), so
the number in the lock is not taken over within 5 s; one stranger at a time;
other writes of the state file are left out: they carry the evidence to the disk
sooner, never later.

Proved (`AgentInstance_proofs`) for any set of numbers and any bounds:
`InstanceTypeCorrect`, `OneAgentHolds`, `RetiredOnEvidenceHolds`. The invariant
says whose file the lock is at each await of each process while no two starts have
overlapped (whoever is past the lock owns it, with its number and not recycled),
and that evidence in memory is never more than what was told, unless `forgot`,
with the disk behind memory or a write under way.

## 8. BrowserSessions: which browser runs for whom

A `BrowserSession` object has an identity of its own: two may follow each other
under one id. `pc[t]` is the await of a browser job or of the sweep, `process[b]`
what has become of a shared Chromium. `context` of an object is its Playwright
context, or, with a profile, the browser it owns.

| model | code |
|---|---|
| `Create`, `CreateRefused`, `LaunchProfile`, `Attach`, `UseManaged`, `ChromiumUp`, `Got`, `ContextOpens`, `FirstPage` | `createSession`, `managedBrowser`, `launchManaged`, `attachExisting`, `browser-manager.mjs` 378-607 |
| `LaunchFails`, `FirstPageFails`, `Fail` | a rejected await and the `catch` of `createSession` |
| `Close`, `ContextClosed`, `Unlock`, `Closed` | `closeSession` 848-905, from its three callers |
| `Ask`, `Operate`, `OperationEnds` | `requireSession`, or the session a navigation takes or creates (`browser-jobs.mjs` 245-266), the queue of the session, the job |
| `SweepCloses`, `SweepEnds`, `InUse` | `sweep` 336-373 |
| `Disconnected`, `OwnDisconnected` | the `disconnected` listeners; a crash, or the end of a close |

`browser_sessions`: two ids, one profile, two session objects, two Chromiums, two
jobs and the sweep, one crash. Two jobs are the fewest that cross on one session
(create and close, two closes, two creates); the sweep is a third thread. It
checks `ProfileExclusive`, `NothingStrays` and `SweepSparesOpen`. Clocks are
abstract: the sweep may find any session expired.

Mode and profile are independent inputs of a creation, as in the code
(`browser-jobs.mjs:162-172`): a session of mode `existing` attaches to the
operator's browser, takes no lock and keeps the profile it was given, and its
close frees the lock of that profile (`browser-manager.mjs:889`), whoever holds
it. `place` says where a session runs and `profile` what it was given.
`ProfileExclusive` excepts a profile whose lock went that way (`freed`), and one
a session of which was closed while it was created or by two callers at once;
`NothingStrays` excepts what the code leaks,
listed under the deviations. Three session objects, with which two browsers do run
in one profile after such a close, are beyond TLC here; with two it finds the
lock gone under a running browser when the exception is dropped.

Proved (`Browser_proofs`), for any numbers of ids, profiles, sessions,
browsers, jobs and crashes: `SessionsTypeCorrect`, `ProfileExclusiveHolds`,
`NothingStraysHolds` and `SweepSparesOpenHolds`.
The locks alone say too little: the lock of a browser that has crashed is still
taken, and a close frees it later. A session *claims* its profile from the
launch until the step that frees the lock. The invariant says that unless two
steps have crossed on a session of the profile, or an attached session has freed
its lock, a claim means that the lock is taken and that there is one claim; under it lies what a suspended creation or
close knows of its session (`ContextAt`), and that there is at most one of them.
`NothingStrays` needs the converse. `Locked`: a lock has a session that claims it
or is excused. `Kept`: what is not excused stays in the table until the step that
ends its close, which takes an id out of the table whoever has it; an id is taken
from another session only when it is `Spent`, that is, given away after a loss or
a session of it was crossed. `OpenSpared` is `SweepSparesOpen` for objects: the
sweep looks at the table and sends the close in one turn.

## 9. BrowserPages: one session from the inside

Operations take turns in `session.queue`; `op` is the one whose turn it is and the
await it is at. Dialogs, popups, pages that close or navigate by themselves and
the close of the session do not wait for a turn.

| model | code |
|---|---|
| `Request`, `Turn`, `Starting`, `Going` | `enqueue`, `browser-manager.mjs` 264-268, and the jobs of `browser-jobs.mjs` up to each await |
| `StartNavigate` … `RedirectDenied` | `browserNavigateJob` 227-360 |
| `StartSnapshot`, `TreeRendered`, `TreeFails`, `TitleRead`, `StartFind` | `browserSnapshotJob`, `browserFindJob`, `renderAxTree` |
| `Resolve`, `Found`, `NotFound`, `Acted`, `ActFails`, `Uploaded`, `Shot` | `resolveTarget` 1214-1267 and the actions on a ref |
| `StartTabs`, `NewPage`, `Select`, `StartClose`, `TabClosed`, `Listed` | `browserTabsJob` 796-888 |
| `DialogOpens`, `DialogTimer`, `StartDialog`, `DialogAnswers`, `DialogFails` | `wireContext` 709-750, `handle_dialog` |
| `PageOpens`, `PageCloses`, `Drifts`, `Expire`, `ClosePages`, `CloseEnds` | `trackPage`, pages and the operator, `closeSession` |

The revision of the page and the identity of a document are kept relative to the
refs: `fresh` says that no revision was counted since the snapshot, `doc` that
the document is still the one it showed, or has changed under the agent's own
operation (`changed`) or otherwise (`excused`). Nothing else about them matters
to the code, and both would be unbounded.

`browser_pages`: two pages, one operation under way and one waiting; a third
page would be in the place of either. It checks `ActsOnWhatItShows`,
`DialogWatched`, `EveryTurnEnds`. Fairness: the event loop runs what is ready,
a dialog's timer fires, a session does not outlive its longest lifetime (the
sweep closes it whatever it does), and a close goes on. Nothing is assumed of
pages, the operator or callers; `evaluate`, `title`, `content`, a key press and
the count of a CSS selector (`Untimed`) have no time limit, and `EveryTurnEnds`
rests on the longest lifetime alone.
`browser_existing_close` is finding 2. The operator is assumed to open no page
while the session closes.

Definitions that `BrowserSessions` has under the same name bear `Pages` in front
(`PagesInit`, `PagesNext`, `PagesSpec`, `PagesTypeOK`), so that one module of
proofs can extend both.

Proved (`Browser_proofs`) for any pages and any number of waiting jobs:
`PagesTypeCorrect`, `DialogWatchedHolds`, `ActsOnWhatItShowsHolds`. The invariant
says at each await which page a suspended operation holds, when refs may be
stale, and who owns the pending dialog. `PagesSpec` contains fairness, which the
proofs do not use.

## 10. ProcessSessions: child processes

`occupant[p]` says who has process number `p`: nobody, a child, or any other
program. A signal goes to a number, so it reaches whoever has it then.

| model | code |
|---|---|
| `Start`, `StartFails`, `CrashStarting`, `Record` | `startSession` 180-264 and `trackSession` 445-462 |
| `Write` | `fs.writeFileSync` of `process-sessions.json`, 170, 458 and 476 |
| `Writes`, `Exits`, `ExitSeen`, `TimeLimit` | the listeners and the timer of a session |
| `Read`, `Received`, `Said` | `readSession` 273-299 |
| `Terminate`, `TerminateEnds`, `TerminateForced`, `Drop`, `Unrecord`, `Reap`, `CrashTerminating` | `process_terminate` 638-663, `terminateSessionTreeAsync`, `dropSession`, `reapSessions` |
| `Crash`, `Boot`, `SweepPasses`, `SweepTerminates`, `SweepKills`, `SweepEnds`, `CrashSweeping` | the death of the agent and `sweepOrphanedSessions` 130-173 |

`process_sessions`: two children, of which one has output, two numbers, one
`process_terminate`, two deaths of the agent, a buffer of two bytes. Two numbers
let one be reused while the other is used, two bytes let an answer be cut off,
the second death may fall in the sweep after the first. It checks
`RecordOutlivesChild`, `SkippedIsTold`, `EveryChildEnds`. Fairness: timers fire,
the service manager starts the agent, the sweep goes on; children may ignore
SIGTERM, and callers may never ask.

The record of all sessions is one file, and every change rewrites it in place:
`Write` leaves the new text, the old one (the write was refused at once) or
nothing that can be read (it was refused or cut off after the file was
truncated), at every one of the three places and also when the agent dies in the
middle. Nobody hears of it; the next `trackSession` starts from an empty record.
What was due to be in the file and is not goes to the history variable
`unrecorded`, and `RecordOutlivesChild` and `EveryChildEnds` except it: the
properties say that nothing else loses the record of a living child.

Abstracted: a process group is its leader; SIGKILL ends a child of the agent at
once, though the sweep may not see it yet and keep the record; ids are fresh, as
the server issues them; a start time tells processes apart or cannot be read (the code compares to
two minutes).

Proved (`ProcessSessions_proofs`) for any sessions, numbers, buffer and deaths:
`ProcessTypeCorrect`, `RecordOutlivesChildHolds`, `SkippedIsToldHolds`. Needed
beside them: a child has its own number and only one; while a sweep runs, a child
that lives is one the sweep has still to look at, keeps or is killing, or has lost
its record to a failed write; and for a reader, that
the bytes it got and the cursor it was given differ only if it was told.

## 11. Findings and deviations

Each of the two findings is a run in which TLC violates the property.

1. **On Linux the rollback never comes** (`update_rollback_killed`). The unit
   written at `install-linux.sh:209-223` has the default
   `KillMode=control-group`, so the detached watchdog dies with the process that
   spawned it. launchd leaves it alone.
2. **Closing an attached session closes the operator's tabs**
   (`browser_existing_close`). `browser-manager.mjs:868` says that only pages the
   agent created are closed; `attachExisting` puts every page into
   `session.pages`, and `closeSession` closes all of them.

Deviations that have no run. The first four are stated as properties, which TLC
refutes when they are put into a configuration:

* `AgentJobs!ActivationWhileIdle`: `updater.mjs:507` advertises
  `idle-only-after-result-ack`; the code waits for the acknowledgement and never
  looks at other jobs, which its SIGTERM interrupts.
* `SessionLink!ClosedSocketIsLeft`: a `close` that is emitted before the
  listener of `client.mjs:1644` is attached leaves a dead session live; pings
  throw inside a `try`, so the watchdog is never armed, and polling stays off.
* `HostPolicy!RehelloOnlyNewer`: `client.mjs:1576` compares revisions after
  `applyCurrentPolicy` has assigned the policy one line earlier. The harm is
  bounded: jobs are judged by their own fetch, and the gate refuses what does not
  match.
* `ProcessSessions!VerifiedKillsOnly`: the sweep verifies a number, signals it,
  waits up to 3 s and signals it again without verifying; the timer of an exited
  session (258) signals its number too.

The rest are exceptions that the properties name, or limits of what they say:

* Two starts of the agent that overlap can both get in (`raced`); evidence of
  retirement that a process had dropped but not saved is back after it ends
  (`forgot`); a welcome between the sixth answer and the marker does not stop the
  retirement.
* Two activations that meet, which takes one update and both transports: the HTTP
  POST of the result is in flight while the session sends and acknowledges it.
  The second activation overwrites the record and the name of the marker, so that
  the first watchdog takes away a release that the hub has welcomed; its backup
  is the new release, which its own watchdog puts back, also a bad one that the
  first has just removed; when both are in the middle, the rename of one finds
  the file gone, and its rejection, which for an ack ends the process, leaves
  `app` in pieces with no watchdog. TLC finds each when `crossed` and the record
  are taken out of the properties.
* "Updater refuses non-newer versions" (`CHANGELOG.md:32`) holds when a release is
  prepared (199) and not when it is activated: prepare 2 and 3 under release 1,
  activate 3, restart, activate 2.
* Closing a session of mode `existing` that names a profile frees the lock of a
  managed browser that runs there (889; `attachExisting` 570-607 takes none), and
  the next creation launches a second browser in the same directory.
* A browser id that is created again after a loss leaks the lock of the old
  session, as does a first page that fails; a second closer frees the lock of a
  browser that still runs; two creates at once may launch two Chromiums, of which
  only the last is kept in `managedBrowsers`; the end of an operation sets
  `ready` over `lost` and `closing`.
* A `tabs` operation that waits while an attached session is closed opens its page
  in the operator's browser; upload and screenshot do not compare the page of a
  ref; a later snapshot at the same revision numbers the refs anew; a failed
  navigation counts no revision; a second dialog pushes the first out of
  `pendingDialog`; `handle_dialog` waits in the queue behind an action that the
  dialog blocks.
* `process-sessions.json` is written in place (170, 458, 476): a write that is
  refused or cut off loses every record, those of other living children too. The
  cursor of an answer is the end of the buffer even when the answer is cut.
* A job left `claimed` by a crash or a failed write is never started or reported;
  one whose handler throws in the HTTP loop is reported after the next restart;
  a result too large for a frame ends the session it is sent on; the state file is
  renamed without `fsync`; `state.jobs` is never pruned.
* An update that dies between two renames, whose first move or whose undoing
  fails, and a rollback that fails are left as they are (`torn`).

## 12. What is proved, what is only checked, what is left out

| model | proved for every instance | only model-checked |
|---|---|---|
| `AgentJobs` | `TypeOK`, `AtMostOnce`, `SpawnRecorded`, `NoResultForgotten`, `VerdictMatchesRun`, `ActivatedAfterAck`, `KeepsLedger` | `RunningIsReported` |
| `SessionLink` | `TypeOK`, `LeavesNoSocket`, `SurvivesSocketEvents` | `HalfOpenIsLeft` |
| `HostPolicy` | `TypeOK`, `AuthorizedInForce`, `DenialsAreTrue`, `MutationUnderItsPolicy`, `GateAgrees`, `ActivatedInForce` | – |
| `FileMutation` | `TypeOK`, `OneAtATime`, `NoHalfReplacement`, `ActsOnWhatItChecked`, `OneEffect` | `EveryCallAnswered` |
| `AgentInstance` | `TypeOK`, `OneAgent`, `RetiredOnEvidence` | `StartsAgain`, `RetiresInTheEnd` |
| `BrowserSessions` | `TypeOK`, `ProfileExclusive`, `NothingStrays`, `SweepSparesOpen` | – |
| `BrowserPages` | `PagesTypeOK`, `ActsOnWhatItShows`, `DialogWatched` | `EveryTurnEnds` |
| `ProcessSessions` | `TypeOK`, `RecordOutlivesChild`, `SkippedIsTold` | `EveryChildEnds` |
| `UpdateActivation` | `TypeOK`, `HealthyStays`, `RollbackRestores`, `OneRelease` | `Recovers`, `BadReleaseIsLeft` |

Every proof rests on the named assumption about the constants in its module and
on nothing else, but for `SomeCallGoesOnHolds`, which supposes finitely many
paths. What is only model-checked is liveness: TLAPS 1.4.5 proves
nothing under fairness and no `ENABLED`. `TypeOK` is an invariant of
`agent_jobs_crash` alone; the other models' types are theorems and cost no run.

### Not modelled

* **Browser runtime**: one caller downloads, unpacks and promotes a directory at
  boot and repeats until it succeeds.
* **Privileged helper**: authentication (peer credentials, signature, expiry,
  requests already seen) and then one call of systemd per request.
* **Structured operations, shell, services, logs**: no state between two calls.
* **Egress policy**: a pure classification of addresses; its tests enumerate the
  ranges.
* **GUI broker, device proof, enrolment, migration, installers, packaging**:
  I/O, cryptography and programs that run once; two facts about the service units
  are in `SessionLink`, `AgentInstance` and `UpdateActivation`.
* **Telemetry and log forwarding**: only their writes of the state file, in
  `AgentJobs`, and the answers they get, in `AgentInstance`.
* **Windows**: helper, supervisor and process trees.
* Inside modelled components: framing and TLS, archive extraction, directories
  and links in the file tools, downloads, console and network logs of pages, what
  tools answer. Power loss: a rename that returned is taken to be durable, though
  the code does not `fsync`.

## 13. What would come next

Directories in `FileMutation`, whose recursive deletes do not queue for what is
below them; what a check of the running version and of other activations at the
begin of `activatePreparedUpdate` would give (the exceptions of section 4 would go);
the set of seen requests of the privileged helper against expiry and restarts.
