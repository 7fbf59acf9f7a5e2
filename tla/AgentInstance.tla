--------------------------- MODULE AgentInstance ---------------------------
(***************************************************************************)
(* One installation of the agent as its processes see it: the launcher     *)
(* that takes the lock file (src/src/client/singleton.mjs, launcher.mjs),  *)
(* the process that dies and is started again, and the evidence that the   *)
(* hub no longer knows this client, which ends in a marker file and the    *)
(* end of the agent (src/src/lifecycle/lifecycle.mjs and client.mjs).      *)
(*                                                                         *)
(* Time is counted from what it is measured against: the evidence has an   *)
(* age, the lock row is old once 5 s have gone by.  Left out: Windows      *)
(* supervisor, the pid file, everything else main does, the writes of the  *)
(* state file among it (they carry the evidence to the disk sooner).  Each *)
(* telemetry cycle and each session attempt is one answer of the hub.      *)
(***************************************************************************)
EXTENDS Naturals, FiniteSets

CONSTANTS
    Pids,            \* process numbers
    Confirmations,   \* RETIRE_CONFIRMATIONS
    Window,          \* RETIRE_MIN_WINDOW_MS, in ticks
    NoLock,
    MaxTrouble       \* bound: kills, failed writes, other errors, unread start times

ASSUME InstanceAssumption ==
    /\ Confirmations \in Nat \ {0} /\ Window \in Nat /\ MaxTrouble \in Nat
    /\ NoLock \notin [by : Pids, written : BOOLEAN, old : BOOLEAN]

Evidence == [count : 0..Confirmations, age : 0..Window]
NoEvidence == [count |-> 0, age |-> 0]
Locks == [by : Pids, written : BOOLEAN, old : BOOLEAN]

Starting == {"open", "write", "look", "remove"}
Holding == {"boot", "main", "release", "unlink"}
\* "writes" after a success, "notes" after a failure, "decided" after the last one
Telemetry == {"idle", "writes", "notes", "decided", "marks", "retired"}

VARIABLES
    lock,       \* client.lock: the process whose file it is, whether its row is in it
    pc,         \* of the launcher of each process
    tries,      \* lock files it has removed
    stranger,   \* numbers held by other programs
    late,       \* numbers whose process started 5 s after the row that names them
    mem,        \* state.retirement of each process
    tele,       \* where its telemetry loop is
    dirty,      \* a writeState is under way
    disk,       \* retirement in the state file
    marker,     \* retired.json is there
    known,      \* the hub knows this client
    \* history
    raced,      \* two starts have overlapped
    told,       \* what the hub has said since it last knew the client
    forgot,     \* a process ended before the evidence it had dropped was off the disk
    trouble

lockVars == <<lock, pc, tries, stranger, late, raced>>
proofVars == <<mem, tele, dirty, disk, told, forgot>>
vars == <<lockVars, proofVars, marker, known, trouble>>

TypeOK ==
    /\ lock \in Locks \cup {NoLock}
    /\ pc \in [Pids -> Starting \cup Holding \cup {"off"}]
    /\ tries \in [Pids -> 0..2]
    /\ stranger \in SUBSET Pids
    /\ late \in [Pids -> BOOLEAN]
    /\ mem \in [Pids -> Evidence] /\ disk \in Evidence /\ told \in Evidence
    /\ tele \in [Pids -> Telemetry] /\ dirty \in [Pids -> BOOLEAN]
    /\ {marker, known, raced, forgot} \subseteq BOOLEAN
    /\ trouble \in 0..MaxTrouble

Init ==
    /\ lock = NoLock /\ pc = [p \in Pids |-> "off"] /\ tries = [p \in Pids |-> 0]
    /\ stranger = {} /\ late = [p \in Pids |-> FALSE]
    /\ mem = [p \in Pids |-> NoEvidence] /\ tele = [p \in Pids |-> "idle"]
    /\ dirty = [p \in Pids |-> FALSE] /\ disk = NoEvidence
    /\ marker = FALSE /\ known = TRUE
    /\ raced = FALSE /\ told = NoEvidence /\ forgot = FALSE /\ trouble = 0

(***************************************************************************)
(* Processes begin and end.                                                *)
(***************************************************************************)
Alive(p) == pc[p] # "off" \/ p \in stranger
Running == {p \in Pids : pc[p] # "off"}

\* It started more than 5 s after the row that has its number.
StartsLate(p) == lock # NoLock /\ lock.by = p /\ lock.old

Start(p) ==
    /\ ~Alive(p)
    /\ pc' = [pc EXCEPT ![p] = "open"]
    /\ late' = [late EXCEPT ![p] = StartsLate(p)]
    /\ raced' = (raced \/ \E q \in Pids : pc[q] \in Starting)
    /\ UNCHANGED <<lock, tries, stranger, proofVars, marker, known, trouble>>

\* The number that the lock names is given to another program.  Bounds: one such
\* program at a time, and not within 5 s.
StrangerStarts(p) ==
    /\ stranger = {} /\ ~Alive(p) /\ StartsLate(p)
    /\ stranger' = {p}
    /\ late' = [late EXCEPT ![p] = StartsLate(p)]
    /\ UNCHANGED <<lock, pc, tries, raced, proofVars, marker, known, trouble>>

StrangerEnds ==
    /\ stranger # {} /\ stranger' = {}
    /\ UNCHANGED <<lock, pc, tries, late, raced, proofVars, marker, known, trouble>>

\* What ends with a process.  What it had not saved is lost, and what it had
\* dropped without saving that is on the disk again.
Gone(p) ==
    /\ pc' = [pc EXCEPT ![p] = "off"]
    /\ tries' = [tries EXCEPT ![p] = 0]
    /\ mem' = [mem EXCEPT ![p] = NoEvidence]
    /\ tele' = [tele EXCEPT ![p] = "idle"]
    /\ dirty' = [dirty EXCEPT ![p] = FALSE]
    /\ forgot' = \/ forgot
                 \/ /\ pc[p] \in {"main", "release", "unlink"}
                    /\ (disk.count > told.count \/ disk.age > told.age)
    /\ UNCHANGED <<stranger, late, raced, disk, told, marker, known>>

Troubled == trouble < MaxTrouble /\ trouble' = trouble + 1

Killed(p) == pc[p] # "off" /\ Troubled /\ Gone(p) /\ UNCHANGED lock

(***************************************************************************)
(* acquireClientLock and the release it returns.                           *)
(***************************************************************************)
Goto(p, l) == pc' = [pc EXCEPT ![p] = l]
outside == <<stranger, raced, proofVars, marker, known, trouble>>

Create(p) ==
    /\ pc[p] = "open" /\ lock = NoLock
    /\ lock' = [by |-> p, written |-> FALSE, old |-> FALSE]
    /\ Goto(p, "write")
    /\ UNCHANGED <<tries, late, outside>>

Exists(p) ==
    /\ pc[p] = "open" /\ lock # NoLock
    /\ Goto(p, "look")
    /\ UNCHANGED <<lock, tries, late, outside>>

\* The row goes into the file it created, whether or not the name still leads there.
WriteRow(p) ==
    /\ pc[p] = "write"
    /\ lock' = IF lock # NoLock /\ lock.by = p THEN [by |-> p, written |-> TRUE, old |-> FALSE]
                                               ELSE lock
    /\ late' = [late EXCEPT ![p] = FALSE]
    /\ Goto(p, "boot")
    /\ UNCHANGED <<tries, outside>>

Named == lock # NoLock /\ lock.written

\* Mutants: the age of the row decides; nothing does.
RecycledByAge == lock.old

RecycledNever == FALSE

\* Its number has passed to a process that started later.
Recycled == late[lock.by]

\* The owner runs, as far as can be told: HHC_CLIENT_ALREADY_RUNNING.
Refused(p) ==
    /\ pc[p] = "look" /\ Named /\ Alive(lock.by)
    /\ \/ ~Recycled /\ UNCHANGED trouble
       \/ Recycled /\ Troubled          \* its start time cannot be read
    /\ Gone(p) /\ UNCHANGED lock

Stale(p) ==
    /\ pc[p] = "look"
    /\ Named /\ Alive(lock.by) => Recycled
    /\ Goto(p, "remove")
    /\ UNCHANGED <<lock, tries, late, outside>>

Remove(p) ==
    /\ pc[p] = "remove" /\ tries[p] < 2
    /\ lock' = NoLock
    /\ tries' = [tries EXCEPT ![p] = @ + 1]
    /\ Goto(p, "open")
    /\ UNCHANGED <<late, outside>>

\* The third time: CLIENT_LOCK_ACQUIRE_FAILED.
RemoveLast(p) ==
    /\ pc[p] = "remove" /\ tries[p] = 2
    /\ lock' = NoLock
    /\ Gone(p) /\ UNCHANGED trouble

Release(p) ==
    /\ pc[p] = "release" /\ Named /\ lock.by = p
    /\ Goto(p, "unlink")
    /\ UNCHANGED <<lock, tries, late, outside>>

ReleaseNothing(p) ==
    /\ pc[p] = "release" /\ ~(Named /\ lock.by = p)
    /\ Gone(p) /\ UNCHANGED <<lock, trouble>>

Unlink(p) ==
    /\ pc[p] = "unlink"
    /\ lock' = NoLock
    /\ Gone(p) /\ UNCHANGED trouble

(***************************************************************************)
(* main: the marker, the state file, and the answers of the hub.           *)
(***************************************************************************)
files == <<lock, tries, stranger, late, raced>>

BootRetired(p) ==
    /\ pc[p] = "boot" /\ marker
    /\ Goto(p, "release")
    /\ UNCHANGED <<files, proofVars, marker, known, trouble>>

Boot(p) ==
    /\ pc[p] = "boot" /\ ~marker
    /\ Goto(p, "main")
    /\ mem' = [mem EXCEPT ![p] = disk]
    /\ UNCHANGED <<files, tele, dirty, disk, told, forgot, marker, known, trouble>>

\* resetRetirementEvidence, or the same by observeRetirementResponse.
Reset(p) ==
    /\ mem' = [mem EXCEPT ![p] = NoEvidence]
    /\ dirty' = [dirty EXCEPT ![p] = @ \/ mem[p] # NoEvidence]
    /\ told' = NoEvidence /\ forgot' = FALSE
    /\ UNCHANGED <<lockVars, disk, marker, known>>

\* A heartbeat or a telemetry cycle succeeds.
Answered(p) ==
    /\ pc[p] = "main" /\ tele[p] = "idle" /\ known
    /\ Reset(p) /\ UNCHANGED trouble
    /\ tele' = [tele EXCEPT ![p] = IF mem[p] # NoEvidence THEN "writes" ELSE "idle"]

\* The session loop is welcomed, whatever the telemetry loop does.
Welcomed(p) ==
    /\ pc[p] = "main" /\ tele[p] # "retired" /\ known
    /\ Reset(p) /\ UNCHANGED <<tele, trouble>>

\* Any other error takes the evidence back as well.
OtherError(p) ==
    /\ pc[p] = "main" /\ tele[p] = "idle" /\ Troubled
    /\ Reset(p)
    /\ tele' = [tele EXCEPT ![p] = IF mem[p] # NoEvidence THEN "notes" ELSE "idle"]

\* Mutant: each answer is the first one seen.
SeenAnew(e) == [count |-> IF e.count < Confirmations THEN e.count + 1 ELSE e.count, age |-> 0]

Seen(e) == [e EXCEPT !.count = IF @ < Confirmations THEN @ + 1 ELSE @]

\* Mutant: one of the two conditions is enough.
EnoughEither(e) == e.count >= Confirmations \/ (e.count > 0 /\ e.age >= Window)

Enough(e) == e.count >= Confirmations /\ e.age >= Window

\* 404 CLIENT_NOT_FOUND over https.
NotFound(p) ==
    /\ pc[p] = "main" /\ tele[p] = "idle" /\ ~known
    /\ mem' = [mem EXCEPT ![p] = Seen(@)]
    /\ dirty' = [dirty EXCEPT ![p] = TRUE]
    /\ tele' = [tele EXCEPT ![p] = IF Enough(Seen(mem[p])) THEN "decided" ELSE "notes"]
    /\ told' = Seen(told)
    /\ UNCHANGED <<lockVars, disk, forgot, marker, known, trouble>>

\* writeState reads the state when it writes.
Persist(p) ==
    /\ dirty[p]
    /\ disk' = mem[p]
    /\ dirty' = [dirty EXCEPT ![p] = FALSE]
    /\ tele' = [tele EXCEPT ![p] = IF @ \in {"writes", "notes"} THEN "idle"
                                   ELSE IF @ = "decided" THEN "marks" ELSE @]
    /\ UNCHANGED <<lockVars, mem, told, forgot, marker, known, trouble>>

\* A write fails outside of the handler of an error: the cycle, or the session
\* attempt, or the job fails.
PersistFails(p) ==
    /\ dirty[p] /\ tele[p] \notin {"notes", "decided"} /\ Troubled
    /\ dirty' = [dirty EXCEPT ![p] = FALSE]
    /\ tele' = [tele EXCEPT ![p] = IF @ = "writes" THEN "idle" ELSE @]
    /\ UNCHANGED <<lockVars, mem, disk, told, forgot, marker, known>>

\* The write in the handler of an error, or of the marker, fails: main throws.
Throws(p) ==
    /\ \/ dirty[p] /\ tele[p] \in {"notes", "decided"}
       \/ tele[p] = "marks"
    /\ Troubled
    /\ dirty' = [dirty EXCEPT ![p] = FALSE]
    /\ tele' = [tele EXCEPT ![p] = "retired"]
    /\ Goto(p, "release")
    /\ UNCHANGED <<files, mem, disk, told, forgot, marker, known>>

Mark(p) ==
    /\ tele[p] = "marks"
    /\ marker' = TRUE
    /\ tele' = [tele EXCEPT ![p] = "retired"]
    /\ UNCHANGED <<lockVars, mem, dirty, disk, told, forgot, known, trouble>>

\* The loops end, the session with them.
Returns(p) ==
    /\ pc[p] = "main" /\ tele[p] = "retired"
    /\ Goto(p, "release")
    /\ UNCHANGED <<files, proofVars, marker, known, trouble>>

(***************************************************************************)
(* The hub, and time.                                                      *)
(***************************************************************************)
HubChanges ==
    /\ known' = ~known
    /\ UNCHANGED <<lockVars, proofVars, marker, trouble>>

Older(e) == IF e.count > 0 /\ e.age < Window THEN [e EXCEPT !.age = @ + 1] ELSE e

Tick ==
    /\ mem' = [p \in Pids |-> Older(mem[p])]
    /\ disk' = Older(disk) /\ told' = Older(told)
    /\ lock' = IF Named THEN [lock EXCEPT !.old = TRUE] ELSE lock
    /\ UNCHANGED <<pc, tries, stranger, late, raced, tele, dirty, forgot, marker, known, trouble>>

Locking(p) ==
    Create(p) \/ Exists(p) \/ WriteRow(p) \/ Refused(p) \/ Stale(p) \/ Remove(p)
    \/ RemoveLast(p) \/ Release(p) \/ ReleaseNothing(p) \/ Unlink(p)

Working(p) == BootRetired(p) \/ Boot(p) \/ Mark(p) \/ Returns(p)

Next ==
    \/ \E p \in Pids :
         \/ Start(p) \/ StrangerStarts(p) \/ Killed(p) \/ Locking(p) \/ Working(p)
         \/ Answered(p) \/ Welcomed(p) \/ OtherError(p) \/ NotFound(p)
         \/ Persist(p) \/ PersistFails(p) \/ Throws(p)
    \/ StrangerEnds \/ HubChanges \/ Tick

Spec == Init /\ [][Next]_vars

\* The service manager starts the agent again; a process goes on; the telemetry
\* loop goes round; time passes.
ServiceStarts == Running = {} /\ ~marker /\ \E p \in Pids : Start(p)
FairSpec ==
    /\ Spec
    /\ WF_vars(ServiceStarts) /\ WF_vars(Tick)
    /\ \A p \in Pids : WF_vars(Locking(p)) /\ WF_vars(Working(p))
                       /\ WF_vars(Persist(p)) /\ WF_vars(NotFound(p))

(***************************************************************************)
(* Properties.                                                             *)
(***************************************************************************)

\* Unless two starts have overlapped, one process at most is past the lock,
\* whatever was killed, whoever has a dead agent's number now, and although a
\* lock file in the way is removed (acquireClientLock).
OneAgent ==
    raced \/ \A p, q \in Pids : pc[p] \in Holding /\ pc[q] \in Holding => p = q

\* An agent that decides to retire has been told so often enough and for long
\* enough since the hub last gave any other answer, unless a process ended
\* between such an answer and its record (observeRetirementResponse).
RetiredOnEvidence ==
    [][\A p \in Pids : tele[p] # "decided" /\ tele'[p] = "decided"
                         => \/ raced \/ forgot
                            \/ told'.count = Confirmations /\ told'.age = Window]_vars

\* A dead agent's lock never keeps the next one out for good, not even when
\* another program has its number: there is an agent again and again, unless
\* it has retired (acquireClientLock, the service unit).
StartsAgain == []<>(marker \/ \E p \in Pids : pc[p] = "main")

\* A client the hub no longer knows retires (telemetryLoop).
RetiresInTheEnd == <>[](~known) => <>marker
=============================================================================
