--------------------------- MODULE ProcessSessions ---------------------------
(***************************************************************************)
(* The process tools of the agent (src/src/process/process-sessions.mjs):  *)
(* child processes that outlive the job that starts them, the table that   *)
(* holds them, the record on disk by which the next life of the agent      *)
(* finds those it left behind, the time limit, process_terminate, and the  *)
(* output a caller reads with a cursor.                                    *)
(*                                                                         *)
(* A signal goes to a number: what has the number when it arrives may not  *)
(* be what had it when the decision was taken.  A process group stands     *)
(* with its leader.  Left out: Windows, input, listing, the second stream, *)
(* how a start time is read.  Ids are fresh, as the server issues them.    *)
(*                                                                         *)
(* The record is one file for all sessions, rewritten in place at every    *)
(* change: a write that is refused or cut off can cost all of it, and      *)
(* nobody hears of that.                                                   *)
(***************************************************************************)
EXTENDS Naturals

CONSTANTS
    Sessions,     \* process ids the server issues
    Readers,      \* those whose output matters
    Pids,         \* process numbers of the system
    Jobs,         \* process_terminate calls under way
    Sweep,        \* sweepOrphanedSessions
    Nobody,       \* a number that is not in use
    Other,        \* any process that is not a child of the agent
    None,
    Cap,          \* STREAM_CAP_BYTES
    MaxCrashes    \* bound: deaths of the agent

ASSUME ProcessAssumption ==
    /\ Readers \subseteq Sessions /\ Sweep \notin Jobs
    /\ Nobody # Other /\ {Nobody, Other, None} \cap Sessions = {} /\ None \notin Pids
    /\ Cap \in Nat /\ MaxCrashes \in Nat

Threads == Jobs \cup {Sweep}

\* What a reader of the output has: the cursor it was given, the bytes it got,
\* whether any answer said truncated.
Output == [kept : 0..Cap, dropped : BOOLEAN, cursor : 0..Cap, got : 0..Cap, told : BOOLEAN]
NoOutput == [kept |-> 0, dropped |-> FALSE, cursor |-> 0, got |-> 0, told |-> FALSE]

VARIABLES
    agent,        \* "up", "sweeping" or "down"
    occupant,     \* who has each number
    table,        \* sessions in memory
    pid,          \* session.pid, and the pid of the record
    exited,       \* session.exited
    timer,        \* sessions whose time limit runs
    output,       \* the buffered output and its reader
    disk,         \* process-sessions.json
    todo, keep,   \* of the sweep: records to look at, records to write back
    target,       \* the session a thread waits to see dead
    \* history
    started,      \* sessions that have been started
    unrecorded,   \* a write that was refused or cut off left them out of disk
    skipped,      \* a sweep could not tell its start time
    crashes

memory   == <<table, exited, timer, output, target>>
sweepVars == <<todo, keep>>
pastVars == <<started, unrecorded, skipped, crashes>>
vars == <<agent, occupant, pid, memory, disk, sweepVars, pastVars>>

Init ==
    /\ agent = "up"
    /\ occupant = [p \in Pids |-> Nobody]
    /\ table = {} /\ exited = {} /\ timer = {}
    /\ pid = [s \in Sessions |-> None]
    /\ output = [s \in Sessions |-> NoOutput]
    /\ disk = {} /\ todo = {} /\ keep = {}
    /\ target = [t \in Threads |-> None]
    /\ started = {} /\ unrecorded = {} /\ skipped = {} /\ crashes = 0

Lives(s) == \E p \in Pids : occupant[p] = s

\* isPidAlive: somebody has the number.
PidAlive(s) == pid[s] # None /\ occupant[pid[s]] # Nobody

\* process.kill(-pid): to whoever has the number. SIGTERM may be ignored, and
\* another process may be out of reach.
Signal(s, sig) ==
    \/ PidAlive(s) /\ occupant' = [occupant EXCEPT ![pid[s]] = Nobody]
    \/ ~(Lives(s) /\ sig = "SIGKILL") /\ UNCHANGED occupant

\* A write of the file: done, refused, or refused or cut off when the file was
\* empty already. What is due to be there and is not is lost.
Write(content, due) ==
    /\ disk' \in {content, disk, {}}
    /\ unrecorded' = unrecorded \cup (due \ disk')

-----------------------------------------------------------------------------
(* process_start: startSession and trackSession, in one turn.              *)

Spawn(s, p) ==
    /\ s \notin started
    /\ started' = started \cup {s}
    /\ occupant[p] = Nobody
    /\ occupant' = [occupant EXCEPT ![p] = s]
    /\ pid' = [pid EXCEPT ![s] = p]

\* trackSession: a file that cannot be read counts as empty, and is rewritten.
Record(s) ==
    \E found \in {disk, {}} : Write(found \cup {s}, disk \cup {s})

Start(s, p) ==
    /\ agent = "up"
    /\ Spawn(s, p)
    /\ table' = table \cup {s}
    /\ timer' = timer \cup {s}
    /\ Record(s)
    /\ UNCHANGED <<agent, exited, output, sweepVars, target, skipped, crashes>>

\* Nothing to execute: the session has no pid and its child says "error".
StartFails(s) ==
    /\ agent = "up" /\ s \notin started
    /\ started' = started \cup {s}
    /\ table' = table \cup {s} /\ exited' = exited \cup {s} /\ timer' = timer \cup {s}
    /\ Record(s)
    /\ UNCHANGED <<agent, occupant, pid, output, sweepVars, target, skipped, crashes>>

-----------------------------------------------------------------------------
(* The child, and the listeners of its session.                            *)

\* A byte of output; what does not fit is dropped.
Writes(s) ==
    /\ s \in table \cap Readers /\ Lives(s)
    /\ output' = [output EXCEPT ![s] =
          IF output[s].kept < Cap THEN [output[s] EXCEPT !.kept = output[s].kept + 1]
                                  ELSE [output[s] EXCEPT !.dropped = TRUE]]
    /\ UNCHANGED <<agent, occupant, pid, table, exited, timer, target, disk,
                   sweepVars, pastVars>>

Exits(s) ==
    /\ \E p \in Pids : /\ occupant[p] = s
                       /\ occupant' = [occupant EXCEPT ![p] = Nobody]
    /\ UNCHANGED <<agent, pid, memory, disk, sweepVars, pastVars>>

\* The time limit keeps running.
ExitSeen(s) ==
    /\ s \in table \ exited /\ ~Lives(s)
    /\ exited' = exited \cup {s}
    /\ UNCHANGED <<agent, occupant, pid, table, timer, output, target, disk,
                   sweepVars, pastVars>>

\* Mutant: it asks gently.
TimeLimitGentle(s) ==
    /\ s \in timer
    /\ timer' = timer \ {s}
    /\ Signal(s, "SIGTERM")
    /\ UNCHANGED <<agent, pid, table, exited, output, target, disk, sweepVars, pastVars>>

TimeLimit(s) ==
    /\ s \in timer
    /\ timer' = timer \ {s}
    /\ Signal(s, "SIGKILL")
    /\ UNCHANGED <<agent, pid, table, exited, output, target, disk, sweepVars, pastVars>>

-----------------------------------------------------------------------------
(* process_output, process_terminate, and what forgets a session.          *)

Least(a, b) == IF a < b THEN a ELSE b

\* What the reader has after an answer, and whether one said truncated.
Received(s, max) == output[s].got + Least(max, output[s].kept - output[s].cursor)
Said(s, max) == \/ output[s].told \/ output[s].dropped
                \/ output[s].cursor + max < output[s].kept

\* Mutant: what one answer leaves out is not said.
ReadUncut(s, max) ==
    /\ s \in table \cap Readers
    /\ output' = [output EXCEPT ![s] =
          [output[s] EXCEPT !.cursor = output[s].kept,
                            !.got = Received(s, max),
                            !.told = output[s].told \/ output[s].dropped]]
    /\ UNCHANGED <<agent, occupant, pid, table, exited, timer, target, disk,
                   sweepVars, pastVars>>

\* The answer carries at most max bytes; its cursor is the end of the buffer.
Read(s, max) ==
    /\ s \in table \cap Readers
    /\ output' = [output EXCEPT ![s] =
          [output[s] EXCEPT !.cursor = output[s].kept,
                            !.got = Received(s, max),
                            !.told = Said(s, max)]]
    /\ UNCHANGED <<agent, occupant, pid, table, exited, timer, target, disk,
                   sweepVars, pastVars>>

Forget(s) ==
    /\ table' = table \ {s}
    /\ exited' = exited \ {s}
    /\ output' = [output EXCEPT ![s] = NoOutput]

\* getSession and reapSessions: an exited session that was idle. Its record
\* and its time limit stay.
Reap(s) ==
    /\ s \in table \cap exited
    /\ Forget(s)
    /\ UNCHANGED <<agent, occupant, pid, timer, target, disk, sweepVars, pastVars>>

Terminate(j, s) ==
    /\ target[j] = None /\ s \in table
    /\ Signal(s, "SIGTERM")
    /\ target' = [target EXCEPT ![j] = s]
    /\ UNCHANGED <<agent, pid, table, exited, timer, output, disk, sweepVars, pastVars>>

\* The file of dropSession, which is rewritten only to take out what is in it.
Unrecord(s) ==
    \/ s \in disk /\ Write(disk \ {s}, disk \ {s})
    \/ s \notin disk /\ UNCHANGED <<disk, unrecorded>>

\* dropSession
Drop(s) ==
    /\ Forget(s)
    /\ Unrecord(s)

TerminateForced(s) ==
    /\ s \in table
    /\ Signal(s, "SIGKILL")
    /\ Drop(s)
    /\ UNCHANGED <<agent, pid, timer, target, sweepVars, started, skipped, crashes>>

\* Mutant: the grace is over and that is that.
TerminateGivesUp(j) ==
    /\ target[j] # None
    /\ Drop(target[j])
    /\ target' = [target EXCEPT ![j] = None]
    /\ UNCHANGED <<agent, occupant, pid, timer, sweepVars, started, skipped, crashes>>

\* Nobody has the number any more, or the grace is over.
TerminateEnds(j) ==
    /\ target[j] # None
    /\ Signal(target[j], "SIGKILL")
    /\ Drop(target[j])
    /\ target' = [target EXCEPT ![j] = None]
    /\ UNCHANGED <<agent, pid, timer, sweepVars, started, skipped, crashes>>

-----------------------------------------------------------------------------
(* The agent dies, starts again and sweeps before it serves.               *)

Down ==
    /\ crashes < MaxCrashes /\ crashes' = crashes + 1
    /\ agent' = "down"
    /\ table' = {} /\ exited' = {} /\ timer' = {}
    /\ output' = [s \in Sessions |-> NoOutput]
    /\ target' = [t \in Threads |-> None]
    /\ todo' = {} /\ keep' = {}

Crash ==
    /\ agent # "down"
    /\ Down
    /\ UNCHANGED <<occupant, pid, disk, started, unrecorded, skipped>>

\* It dies in process_start, before or during the write of the record.
CrashStarting(s, p) ==
    /\ agent = "up"
    /\ Spawn(s, p)
    /\ Down
    /\ Record(s)
    /\ UNCHANGED skipped

\* It dies when it rewrites the file, for a session that is terminated.
CrashTerminating(s) ==
    /\ s \in table \/ \E j \in Jobs : target[j] = s
    /\ Signal(s, "SIGKILL")
    /\ Down
    /\ Unrecord(s)
    /\ UNCHANGED <<pid, started, skipped>>

Boot ==
    /\ agent = "down"
    /\ agent' = "sweeping"
    /\ todo' = disk
    /\ UNCHANGED <<occupant, pid, memory, disk, keep, pastVars>>

\* The start time of whoever has the number can be told, and then it tells
\* processes apart (to two minutes, in the code), or it cannot.
SweepPasses(s) ==
    /\ agent = "sweeping" /\ target[Sweep] = None /\ s \in todo
    /\ todo' = todo \ {s}
    /\ \/ ~PidAlive(s) /\ UNCHANGED <<keep, skipped>>
       \/ PidAlive(s) /\ keep' = keep \cup {s} /\ skipped' = skipped \cup {s}
    /\ UNCHANGED <<agent, occupant, pid, memory, disk, started, unrecorded, crashes>>

SweepTerminates(s) ==
    /\ agent = "sweeping" /\ target[Sweep] = None /\ s \in todo
    /\ Lives(s)
    /\ todo' = todo \ {s}
    /\ Signal(s, "SIGTERM")
    /\ target' = [target EXCEPT ![Sweep] = s]
    /\ UNCHANGED <<agent, pid, table, exited, timer, output, disk, keep, pastVars>>

\* Gone, or the grace is over: SIGKILL, and once more if need be. The record
\* stays when the number is still in use, or is not seen to be free yet.
SweepKills ==
    /\ target[Sweep] # None
    /\ Signal(target[Sweep], "SIGKILL")
    /\ target' = [target EXCEPT ![Sweep] = None]
    /\ \/ keep' = keep \cup {target[Sweep]}
       \/ keep' = keep /\ occupant'[pid[target[Sweep]]] = Nobody
    /\ UNCHANGED <<agent, pid, table, exited, timer, output, disk, todo, pastVars>>

SweepEnds ==
    /\ agent = "sweeping" /\ todo = {} /\ target[Sweep] = None
    /\ agent' = "up"
    /\ Write(keep, keep)
    /\ keep' = {}
    /\ UNCHANGED <<occupant, pid, memory, todo, started, skipped, crashes>>

\* It dies when it writes back what it keeps.
CrashSweeping ==
    /\ agent = "sweeping" /\ todo = {} /\ target[Sweep] = None
    /\ Down
    /\ Write(keep, keep)
    /\ UNCHANGED <<occupant, pid, started, skipped>>

-----------------------------------------------------------------------------
(* Other processes come and go.                                            *)

OtherStarts(p) ==
    /\ occupant[p] = Nobody
    /\ occupant' = [occupant EXCEPT ![p] = Other]
    /\ UNCHANGED <<agent, pid, memory, disk, sweepVars, pastVars>>

OtherEnds(p) ==
    /\ occupant[p] = Other
    /\ occupant' = [occupant EXCEPT ![p] = Nobody]
    /\ UNCHANGED <<agent, pid, memory, disk, sweepVars, pastVars>>

-----------------------------------------------------------------------------
Sweeping == SweepKills \/ SweepEnds \/ \E s \in Sessions : SweepPasses(s) \/ SweepTerminates(s)

Next ==
    \/ \E s \in Sessions, p \in Pids : Start(s, p) \/ CrashStarting(s, p)
    \/ \E s \in Sessions :
          \/ StartFails(s) \/ Writes(s) \/ Exits(s) \/ ExitSeen(s) \/ TimeLimit(s)
          \/ Reap(s) \/ TerminateForced(s) \/ CrashTerminating(s)
          \/ \E max \in 1..Cap : Read(s, max)
          \/ \E j \in Jobs : Terminate(j, s)
    \/ \E j \in Jobs : TerminateEnds(j)
    \/ Crash \/ CrashSweeping \/ Boot \/ Sweeping
    \/ \E p \in Pids : OtherStarts(p) \/ OtherEnds(p)

\* Timers fire, the service manager starts the agent again, the sweep goes on.
\* Nothing is assumed of children, callers and other processes.
Fairness ==
    /\ \A s \in Sessions : WF_vars(TimeLimit(s))
    /\ \A j \in Jobs : WF_vars(TerminateEnds(j))
    /\ WF_vars(Boot) /\ WF_vars(Sweeping)

Spec == Init /\ [][Next]_vars /\ Fairness

-----------------------------------------------------------------------------
(* Properties.                                                             *)

\* Every variable has its type; what is in memory is gone when the agent is.
TypeOK ==
    /\ agent \in {"up", "sweeping", "down"}
    /\ occupant \in [Pids -> Sessions \cup {Nobody, Other}]
    /\ pid \in [Sessions -> Pids \cup {None}]
    /\ started \subseteq Sessions
    /\ table \subseteq started /\ exited \subseteq table /\ timer \subseteq started
    /\ agent # "up" => table = {} /\ timer = {}
    /\ output \in [Sessions -> Output]
    /\ disk \cup todo \cup keep \subseteq started
    /\ target \in [Threads -> started \cup {None}]
    /\ unrecorded \subseteq started /\ skipped \subseteq started
    /\ crashes \in 0..MaxCrashes

\* A child that lives is on disk, so that the next life of the agent finds it,
\* whatever is terminated, reaped, crashed and swept: only a write of the file
\* that is refused or cut off loses the record of a living child.
RecordOutlivesChild == \A s \in Sessions : Lives(s) => s \in disk \cup unrecorded

\* Output that a caller with a cursor will never get is output it was told of.
SkippedIsTold == \A s \in Sessions : output[s].got < output[s].cursor => output[s].told

\* Every child comes to an end, over deaths and restarts of the agent, unless
\* a write that failed lost its record or a sweep could not tell its start time.
EveryChildEnds ==
    \A s \in Sessions : Lives(s) ~> ~Lives(s) \/ s \in unrecorded \cup skipped

\* "Only kills pids that are BOTH alive AND start-time verified."
\* (process-sessions.mjs:124-127.) The second signal of the sweep is sent
\* without verifying again: see the deviations in README.
VerifiedKillsOnly ==
    [][SweepKills => occupant[pid[target[Sweep]]] # Other]_vars
=============================================================================
