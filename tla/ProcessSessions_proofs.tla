----------------------- MODULE ProcessSessions_proofs -----------------------
(***************************************************************************)
(* The safety of ProcessSessions for any sessions, process numbers, calls, *)
(* deaths of the agent and failed writes.  A record may be dropped, or     *)
(* left out by a sweep, only when its child is dead; that is so because a  *)
(* child has the number its session knows, and because what a sweep has    *)
(* not looked at, not kept and is not killing is not alive.                *)
(***************************************************************************)
EXTENDS ProcessSessions, TLAPS

\* A child is found at its session's number.
PidTells == \A p \in Pids : occupant[p] \in Sessions => pid[occupant[p]] = p

\* Calls end with the agent, and a sweep with its life.
AtRest ==
    /\ agent # "up" => \A j \in Jobs : target[j] = None
    /\ agent # "sweeping" => todo = {} /\ keep = {} /\ target[Sweep] = None

\* What the sweep is not done with.
SweepCovers ==
    agent = "sweeping" =>
        \A s \in Sessions :
            Lives(s) => s \in todo \cup keep \cup unrecorded \/ target[Sweep] = s

\* A cursor is at the end of some answer, which is not past the buffer.
CursorInBuffer ==
    \A s \in Sessions : output[s].got <= output[s].cursor /\ output[s].cursor <= output[s].kept

Typed == TypeOK /\ AtRest /\ CursorInBuffer
Inv == Typed /\ PidTells /\ SweepCovers /\ RecordOutlivesChild /\ SkippedIsTold

(***************************************************************************)
(* Signals and buffers.                                                    *)
(***************************************************************************)

\* Whatever comes of a write, what was due is in the file or known as lost.
LEMMA Written ==
    ASSUME NEW content, NEW due, Write(content, due)
    PROVE  /\ due \cup unrecorded \subseteq disk' \cup unrecorded'
           /\ disk' \subseteq content \cup disk
           /\ unrecorded' \subseteq unrecorded \cup due
BY DEF Write

LEMMA Recorded ==
    ASSUME NEW s \in Sessions, Record(s)
    PROVE  /\ disk \cup unrecorded \cup {s} \subseteq disk' \cup unrecorded'
           /\ disk' \subseteq disk \cup {s}
           /\ unrecorded' \subseteq unrecorded \cup disk \cup {s}
<1>1. PICK found \in {disk, {}} : Write(found \cup {s}, disk \cup {s})
  BY DEF Record
<1> QED
  BY <1>1, Written

LEMMA Unrecorded ==
    ASSUME NEW s \in Sessions, Unrecord(s)
    PROVE  /\ (disk \cup unrecorded) \ {s} \subseteq disk' \cup unrecorded'
           /\ disk' \subseteq disk
           /\ unrecorded' \subseteq unrecorded \cup disk
<1>1. CASE s \in disk /\ Write(disk \ {s}, disk \ {s})
  BY <1>1, Written
<1>2. CASE s \notin disk /\ UNCHANGED <<disk, unrecorded>>
  BY <1>2
<1> QED
  BY <1>1, <1>2 DEF Unrecord

LEMMA SignalType ==
    ASSUME TypeOK, NEW s \in Sessions, NEW sig, Signal(s, sig)
    PROVE  /\ occupant' \in [Pids -> Sessions \cup {Nobody, Other}]
           /\ \A p \in Pids : occupant'[p] \in {occupant[p], Nobody}
BY DEF TypeOK, Signal

\* SIGKILL is the end of a child that is there.
LEMMA KilledIsDead ==
    ASSUME TypeOK, PidTells, NEW s \in Sessions, Signal(s, "SIGKILL")
    PROVE  ~Lives(s)'
<1>1. Nobody \notin Sessions
  BY ProcessAssumption
<1>2. \A p \in Pids : occupant[p] = s => p = pid[s]
  BY DEF PidTells
<1>3. CASE PidAlive(s) /\ occupant' = [occupant EXCEPT ![pid[s]] = Nobody]
  <2>1. pid[s] \in Pids
    BY <1>3 DEF PidAlive, TypeOK
  <2>2. \A p \in Pids : occupant'[p] = IF p = pid[s] THEN Nobody ELSE occupant[p]
    BY <1>3, <2>1 DEF TypeOK
  <2> QED
    BY <2>2, <1>1, <1>2 DEF Lives
<1>4. CASE ~(Lives(s) /\ "SIGKILL" = "SIGKILL") /\ UNCHANGED occupant
  BY <1>4 DEF Lives
<1> QED
  BY <1>3, <1>4 DEF Signal

\* The fields of an output, one by one.
LEMMA OutputFields ==
    ASSUME NEW o \in Output
    PROVE  /\ o.kept \in 0..Cap /\ o.cursor \in 0..Cap /\ o.got \in 0..Cap
           /\ o.dropped \in BOOLEAN /\ o.told \in BOOLEAN
BY DEF Output

LEMMA NoOutputType == NoOutput \in Output
BY ProcessAssumption DEF Output, NoOutput

LEMMA ForgetOutput ==
    ASSUME Typed, NEW s \in Sessions, output' = [output EXCEPT ![s] = NoOutput]
    PROVE  output' \in [Sessions -> Output] /\ CursorInBuffer'
BY NoOutputType, ProcessAssumption DEF Typed, TypeOK, CursorInBuffer, NoOutput

LEMMA WriteOutput ==
    ASSUME Typed, NEW s \in Sessions, Writes(s)
    PROVE  output' \in [Sessions -> Output] /\ CursorInBuffer'
<1>1. output[s] \in Output /\ output \in [Sessions -> Output]
  BY DEF Typed, TypeOK
<1>2. output' = [output EXCEPT ![s] = output'[s]]
  BY <1>1 DEF Writes
<1>3. CASE output[s].kept < Cap
  <2>1. output'[s] = [output[s] EXCEPT !.kept = output[s].kept + 1]
    BY <1>1, <1>3 DEF Writes
  <2>2. output[s].kept + 1 \in 0..Cap
    BY <1>1, <1>3, OutputFields, ProcessAssumption
  <2>3. output'[s] \in Output
    BY <1>1, <2>1, <2>2 DEF Output
  <2>4. output'[s].got <= output'[s].cursor /\ output'[s].cursor <= output'[s].kept
    BY <1>1, <2>1, OutputFields, ProcessAssumption DEF Typed, CursorInBuffer, Output
  <2> QED
    BY <1>1, <1>2, <2>3, <2>4 DEF Typed, CursorInBuffer
<1>4. CASE ~(output[s].kept < Cap)
  <2>1. output'[s] = [output[s] EXCEPT !.dropped = TRUE]
    BY <1>1, <1>4 DEF Writes
  <2>3. output'[s] \in Output
    BY <1>1, <2>1 DEF Output
  <2>4. output'[s].got <= output'[s].cursor /\ output'[s].cursor <= output'[s].kept
    BY <1>1, <2>1 DEF Typed, CursorInBuffer, Output
  <2> QED
    BY <1>1, <1>2, <2>3, <2>4 DEF Typed, CursorInBuffer
<1> QED
  BY <1>3, <1>4

\* What one answer moves: the cursor to the end of the buffer.
LEMMA ReadOutput ==
    ASSUME Typed, NEW s \in Sessions, NEW max \in 1..Cap, Read(s, max)
    PROVE  /\ output' \in [Sessions -> Output] /\ CursorInBuffer'
           /\ \A u \in Sessions : u # s => output'[u] = output[u]
           /\ output'[s].cursor = output[s].kept
           /\ output'[s].got = Received(s, max) /\ output'[s].told = Said(s, max)
<1>1. output[s] \in Output /\ output \in [Sessions -> Output]
  BY DEF Typed, TypeOK
<1>2. /\ output'[s] = [output[s] EXCEPT !.cursor = output[s].kept, !.got = Received(s, max),
                                        !.told = Said(s, max)]
      /\ \A u \in Sessions : u # s => output'[u] = output[u]
      /\ DOMAIN output' = Sessions /\ output' = [u \in Sessions |-> output'[u]]
  BY <1>1 DEF Read
<1>3. Received(s, max) \in 0..Cap /\ Received(s, max) <= output[s].kept
  BY <1>1, OutputFields, ProcessAssumption DEF Typed, CursorInBuffer, Least, Received
<1>4. Said(s, max) \in BOOLEAN
  BY DEF Said
<1>5. output'[s] = [kept |-> output[s].kept, dropped |-> output[s].dropped,
                    cursor |-> output[s].kept, got |-> Received(s, max), told |-> Said(s, max)]
  BY <1>1, <1>2 DEF Output
<1>6. output'[s] \in Output
  BY <1>1, <1>3, <1>4, <1>5, OutputFields DEF Output
<1>7. output' \in [Sessions -> Output]
  BY <1>1, <1>2, <1>6
<1>8. /\ output'[s].cursor = output[s].kept /\ output'[s].kept = output[s].kept
      /\ output'[s].got = Received(s, max) /\ output'[s].told = Said(s, max)
  BY <1>5
<1>10. output'[s].got <= output'[s].cursor /\ output'[s].cursor <= output'[s].kept
  BY <1>1, <1>3, <1>8, OutputFields, ProcessAssumption
<1>11. CursorInBuffer'
  BY <1>2, <1>10 DEF Typed, CursorInBuffer
<1> QED
  BY <1>2, <1>7, <1>8, <1>11

(***************************************************************************)
(* Types.                                                                  *)
(***************************************************************************)
LEMMA TypeInit == Init => Typed
BY NoOutputType, ProcessAssumption
   DEF Init, Typed, TypeOK, AtRest, CursorInBuffer, Threads, NoOutput

LEMMA DownType ==
    ASSUME Typed, Down,
           occupant' \in [Pids -> Sessions \cup {Nobody, Other}],
           pid' \in [Sessions -> Pids \cup {None}],
           started \subseteq started', started' \subseteq Sessions,
           disk' \subseteq started', unrecorded' \subseteq started', skipped' = skipped
    PROVE  Typed'
BY NoOutputType, ProcessAssumption
   DEF Typed, TypeOK, AtRest, CursorInBuffer, Down, NoOutput, Threads

LEMMA DropType ==
    ASSUME Typed, agent = "up", NEW s \in Sessions, Drop(s),
           occupant' \in [Pids -> Sessions \cup {Nobody, Other}],
           target' \in [Threads -> started \cup {None}], target'[Sweep] = target[Sweep],
           UNCHANGED <<agent, pid, timer, sweepVars, started, skipped, crashes>>
    PROVE  Typed'
<1>1. output' \in [Sessions -> Output] /\ CursorInBuffer'
  BY ForgetOutput DEF Drop, Forget
<1>2. disk' \subseteq disk /\ unrecorded' \subseteq unrecorded \cup disk
  BY Unrecorded DEF Drop
<1>3. /\ UNCHANGED <<agent, pid, timer, todo, keep, started, skipped, crashes>>
      /\ table' = table \ {s} /\ exited' = exited \ {s}
  BY DEF Drop, Forget, sweepVars
<1>4. AtRest'
  BY <1>3 DEF Typed, AtRest
<1> QED
  BY <1>1, <1>2, <1>3, <1>4 DEF Typed, TypeOK

LEMMA TypeStep == Typed /\ [Next]_vars => Typed'
<1> SUFFICES ASSUME Typed, [Next]_vars PROVE Typed'
  OBVIOUS
<1> USE DEF sweepVars, pastVars, memory
<1>1. ASSUME NEW s \in Sessions, NEW p \in Pids, Start(s, p) PROVE Typed'
  <2>1. disk' \subseteq disk \cup {s} /\ unrecorded' \subseteq unrecorded \cup disk \cup {s}
    BY <1>1, Recorded DEF Start
  <2> QED
    BY <1>1, <2>1 DEF Start, Spawn, Typed, TypeOK, AtRest, CursorInBuffer
<1>2. ASSUME NEW s \in Sessions, NEW p \in Pids, CrashStarting(s, p) PROVE Typed'
  <2>1. disk' \subseteq disk \cup {s} /\ unrecorded' \subseteq unrecorded \cup disk \cup {s}
    BY <1>2, Recorded DEF CrashStarting
  <2> QED
    BY <1>2, <2>1, DownType DEF CrashStarting, Spawn, Typed, TypeOK
<1>3. ASSUME NEW s \in Sessions, StartFails(s) PROVE Typed'
  <2>1. disk' \subseteq disk \cup {s} /\ unrecorded' \subseteq unrecorded \cup disk \cup {s}
    BY <1>3, Recorded DEF StartFails
  <2> QED
    BY <1>3, <2>1 DEF StartFails, Typed, TypeOK, AtRest, CursorInBuffer
<1>4. ASSUME NEW s \in Sessions, Writes(s) PROVE Typed'
  BY <1>4, WriteOutput DEF Writes, Typed, TypeOK, AtRest
<1>5. ASSUME NEW s \in Sessions, Exits(s) PROVE Typed'
  BY <1>5 DEF Exits, Typed, TypeOK, AtRest, CursorInBuffer
<1>6. ASSUME NEW s \in Sessions, ExitSeen(s) PROVE Typed'
  BY <1>6 DEF ExitSeen, Typed, TypeOK, AtRest, CursorInBuffer
<1>7. ASSUME NEW s \in Sessions, TimeLimit(s) PROVE Typed'
  BY <1>7, SignalType DEF TimeLimit, Typed, TypeOK, AtRest, CursorInBuffer
<1>8. ASSUME NEW s \in Sessions, Reap(s) PROVE Typed'
  BY <1>8, ForgetOutput DEF Reap, Forget, Typed, TypeOK, AtRest
<1>9. ASSUME NEW s \in Sessions, TerminateForced(s) PROVE Typed'
  <2>1. agent = "up" /\ target' = target
    BY <1>9 DEF TerminateForced, Typed, TypeOK
  <2> QED
    BY <1>9, <2>1, SignalType, DropType DEF TerminateForced, Typed, TypeOK
<1>10. ASSUME NEW s \in Sessions, NEW max \in 1..Cap, Read(s, max) PROVE Typed'
  <2>1. output' \in [Sessions -> Output] /\ CursorInBuffer'
    BY <1>10, ReadOutput
  <2> QED
    BY <1>10, <2>1 DEF Read, Typed, TypeOK, AtRest
<1>11. ASSUME NEW s \in Sessions, NEW j \in Jobs, Terminate(j, s) PROVE Typed'
  <2>1. agent = "up"
    BY <1>11 DEF Terminate, Typed, TypeOK
  <2> QED
    BY <1>11, <2>1, SignalType, ProcessAssumption DEF Terminate, Typed, TypeOK, AtRest, CursorInBuffer, Threads
<1>12. ASSUME NEW j \in Jobs, TerminateEnds(j) PROVE Typed'
  <2>1. agent = "up"
    BY <1>12 DEF TerminateEnds, Typed, AtRest
  <2>2. target[j] \in Sessions
    BY <1>12, ProcessAssumption DEF TerminateEnds, Typed, TypeOK, Threads
  <2>5. target'[Sweep] = target[Sweep]
    BY <1>12, ProcessAssumption DEF TerminateEnds, Typed, TypeOK, Threads
  <2>3. target' \in [Threads -> started \cup {None}]
    BY <1>12 DEF TerminateEnds, Typed, TypeOK
  <2>4. occupant' \in [Pids -> Sessions \cup {Nobody, Other}]
    BY <1>12, <2>2, SignalType DEF TerminateEnds, Typed
  <2> QED
    BY <1>12, <2>1, <2>2, <2>3, <2>4, <2>5, DropType DEF TerminateEnds
<1>13. CASE Crash
  BY <1>13, DownType DEF Crash, Typed, TypeOK
<1>21. ASSUME NEW s \in Sessions, CrashTerminating(s) PROVE Typed'
  <2>1. disk' \subseteq disk /\ unrecorded' \subseteq unrecorded \cup disk
    BY <1>21, Unrecorded DEF CrashTerminating
  <2> QED
    BY <1>21, <2>1, SignalType, DownType DEF CrashTerminating, Typed, TypeOK
<1>22. CASE CrashSweeping
  <2>1. disk' \subseteq disk \cup keep /\ unrecorded' \subseteq unrecorded \cup keep
    BY <1>22, Written DEF CrashSweeping
  <2> QED
    BY <1>22, <2>1, DownType DEF CrashSweeping, Typed, TypeOK
<1>14. CASE Boot
  BY <1>14 DEF Boot, Typed, TypeOK, AtRest, CursorInBuffer
<1>15. ASSUME NEW s \in Sessions, SweepPasses(s) PROVE Typed'
  BY <1>15 DEF SweepPasses, PidAlive, Typed, TypeOK, AtRest, CursorInBuffer
<1>16. ASSUME NEW s \in Sessions, SweepTerminates(s) PROVE Typed'
  BY <1>16, SignalType, ProcessAssumption
     DEF SweepTerminates, Typed, TypeOK, AtRest, CursorInBuffer, Threads
<1>17. CASE SweepKills
  <2>1. target[Sweep] \in started /\ started \subseteq Sessions
    BY <1>17 DEF SweepKills, Typed, TypeOK, Threads
  <2>2. agent = "sweeping"
    BY <1>17, <2>1 DEF SweepKills, Typed, AtRest
  <2> QED
    BY <1>17, <2>1, <2>2, SignalType, ProcessAssumption
       DEF SweepKills, Typed, TypeOK, AtRest, CursorInBuffer, Threads
<1>18. CASE SweepEnds
  <2>1. disk' \subseteq disk \cup keep /\ unrecorded' \subseteq unrecorded \cup keep
    BY <1>18, Written DEF SweepEnds
  <2> QED
    BY <1>18, <2>1 DEF SweepEnds, Typed, TypeOK, AtRest, CursorInBuffer
<1>19. ASSUME NEW p \in Pids, OtherStarts(p) \/ OtherEnds(p) PROVE Typed'
  BY <1>19 DEF OtherStarts, OtherEnds, Typed, TypeOK, AtRest, CursorInBuffer
<1>20. CASE UNCHANGED vars
  BY <1>20 DEF vars, Typed, TypeOK, AtRest, CursorInBuffer
<1> QED
  BY <1>1, <1>2, <1>3, <1>4, <1>5, <1>6, <1>7, <1>8, <1>9, <1>10, <1>11, <1>12, <1>13, <1>14,
     <1>15, <1>16, <1>17, <1>18, <1>19, <1>20, <1>21, <1>22 DEF Next, Sweeping

(***************************************************************************)
(* Where children are, and that they are on record.                        *)
(***************************************************************************)

\* A step in which nobody new has a number, and no record goes.
LEMMA NoChildAppears ==
    ASSUME Inv, pid' = pid, disk' = disk, unrecorded' = unrecorded,
           \A p \in Pids : occupant'[p] \in Sessions => occupant'[p] = occupant[p]
    PROVE  PidTells' /\ RecordOutlivesChild' /\ \A s \in Sessions : Lives(s)' => Lives(s)
BY DEF Inv, PidTells, RecordOutlivesChild, Lives

LEMMA SignalledOnly ==
    ASSUME Inv, NEW s \in Sessions, NEW sig, Signal(s, sig)
    PROVE  \A p \in Pids : occupant'[p] \in Sessions => occupant'[p] = occupant[p]
BY SignalType, ProcessAssumption DEF Inv, Typed

LEMMA DropKeepsRecords ==
    ASSUME Inv, agent = "up", agent' = agent, NEW s \in Sessions, Signal(s, "SIGKILL"), Drop(s),
           pid' = pid
    PROVE  PidTells' /\ RecordOutlivesChild' /\ SweepCovers'
<1>1. \A p \in Pids : occupant'[p] \in Sessions => occupant'[p] = occupant[p]
  BY SignalledOnly
<1>2. ~Lives(s)'
  BY KilledIsDead DEF Inv, Typed
<1>3. PidTells' /\ \A u \in Sessions : Lives(u)' => Lives(u)
  BY <1>1 DEF Inv, PidTells, Lives
<1>4. RecordOutlivesChild'
  BY <1>2, <1>3, Unrecorded DEF Inv, RecordOutlivesChild, Drop
<1> QED
  BY <1>3, <1>4 DEF SweepCovers

LEMMA SpawnTells ==
    ASSUME Inv, NEW s \in Sessions, NEW p \in Pids, Spawn(s, p)
    PROVE  PidTells' /\ \A u \in Sessions : Lives(u)' => Lives(u) \/ u = s
<1>1. /\ \A q \in Pids : occupant'[q] = IF q = p THEN s ELSE occupant[q]
      /\ \A u \in Sessions : pid'[u] = IF u = s THEN p ELSE pid[u]
      /\ s \notin started
  BY DEF Spawn, Inv, Typed, TypeOK
<1>2. ~Lives(s)
  BY <1>1 DEF Inv, RecordOutlivesChild, Typed, TypeOK
<1> QED
  BY <1>1, <1>2 DEF Inv, PidTells, Lives

LEMMA RecordStep ==
    Inv /\ [Next]_vars => PidTells' /\ SweepCovers' /\ RecordOutlivesChild'
<1> SUFFICES ASSUME Inv, [Next]_vars PROVE PidTells' /\ SweepCovers' /\ RecordOutlivesChild'
  OBVIOUS
<1> USE DEF sweepVars, pastVars, memory
<1>t. Typed /\ TypeOK
  BY DEF Inv, Typed
<1>u. ASSUME UNCHANGED <<agent, pid, disk, todo, keep, unrecorded, target>>,
             \A p \in Pids : occupant'[p] \in Sessions => occupant'[p] = occupant[p]
      PROVE  PidTells' /\ SweepCovers' /\ RecordOutlivesChild'
  <2>1. PidTells' /\ RecordOutlivesChild' /\ \A s \in Sessions : Lives(s)' => Lives(s)
    BY <1>u, NoChildAppears
  <2> QED
    BY <1>u, <2>1 DEF Inv, SweepCovers
<1>1. ASSUME NEW s \in Sessions, NEW p \in Pids, Start(s, p)
      PROVE  PidTells' /\ SweepCovers' /\ RecordOutlivesChild'
  <2>1. PidTells' /\ \A u \in Sessions : Lives(u)' => Lives(u) \/ u = s
    BY <1>1, SpawnTells DEF Start
  <2>2. disk \cup unrecorded \cup {s} \subseteq disk' \cup unrecorded'
    BY <1>1, Recorded DEF Start
  <2> QED
    BY <1>1, <1>t, <2>1, <2>2 DEF Start, Inv, RecordOutlivesChild, SweepCovers
<1>2. ASSUME NEW s \in Sessions, NEW p \in Pids, CrashStarting(s, p)
      PROVE  PidTells' /\ SweepCovers' /\ RecordOutlivesChild'
  <2>1. PidTells' /\ \A u \in Sessions : Lives(u)' => Lives(u) \/ u = s
    BY <1>2, SpawnTells DEF CrashStarting
  <2>2. disk \cup unrecorded \cup {s} \subseteq disk' \cup unrecorded'
    BY <1>2, Recorded DEF CrashStarting
  <2> QED
    BY <1>2, <2>1, <2>2 DEF CrashStarting, Down, Inv, RecordOutlivesChild, SweepCovers
<1>3. ASSUME NEW s \in Sessions, StartFails(s)
      PROVE  PidTells' /\ SweepCovers' /\ RecordOutlivesChild'
  <2>1. disk \cup unrecorded \cup {s} \subseteq disk' \cup unrecorded'
    BY <1>3, Recorded DEF StartFails
  <2> QED
    BY <1>3, <2>1 DEF StartFails, Inv, PidTells, SweepCovers, RecordOutlivesChild, Lives
<1>4. ASSUME NEW s \in Sessions, \/ Writes(s) \/ ExitSeen(s) \/ Reap(s)
                                 \/ \E max \in 1..Cap : Read(s, max)
      PROVE  PidTells' /\ SweepCovers' /\ RecordOutlivesChild'
  BY <1>4, <1>u DEF Writes, ExitSeen, Reap, Read
<1>5. ASSUME NEW s \in Sessions, Exits(s)
      PROVE  PidTells' /\ SweepCovers' /\ RecordOutlivesChild'
  <2>1. \A p \in Pids : occupant'[p] \in Sessions => occupant'[p] = occupant[p]
    BY <1>5, <1>t, ProcessAssumption DEF Exits, TypeOK
  <2> QED
    BY <1>5, <2>1, <1>u DEF Exits
<1>6. ASSUME NEW s \in Sessions, TimeLimit(s)
      PROVE  PidTells' /\ SweepCovers' /\ RecordOutlivesChild'
  BY <1>6, <1>u, SignalledOnly DEF TimeLimit
<1>7. ASSUME NEW s \in Sessions, NEW j \in Jobs, Terminate(j, s)
      PROVE  PidTells' /\ SweepCovers' /\ RecordOutlivesChild'
  <2>1. agent = "up" /\ agent' = "up" /\ UNCHANGED <<pid, disk, unrecorded>>
    BY <1>7, <1>t DEF Terminate, TypeOK
  <2>2. \A p \in Pids : occupant'[p] \in Sessions => occupant'[p] = occupant[p]
    BY <1>7, SignalledOnly DEF Terminate
  <2> QED
    BY <2>1, <2>2, NoChildAppears DEF SweepCovers
<1>8. ASSUME NEW s \in Sessions, TerminateForced(s)
      PROVE  PidTells' /\ SweepCovers' /\ RecordOutlivesChild'
  BY <1>8, <1>t, DropKeepsRecords DEF TerminateForced, TypeOK
<1>9. ASSUME NEW j \in Jobs, TerminateEnds(j)
      PROVE  PidTells' /\ SweepCovers' /\ RecordOutlivesChild'
  <2>1. agent = "up" /\ target[j] \in Sessions
    BY <1>9, <1>t, ProcessAssumption DEF TerminateEnds, Typed, TypeOK, AtRest, Threads
  <2> QED
    BY <1>9, <2>1, DropKeepsRecords DEF TerminateEnds
<1>10. CASE Crash
  BY <1>10 DEF Crash, Down, Inv, PidTells, SweepCovers, RecordOutlivesChild, Lives
<1>18. ASSUME NEW s \in Sessions, CrashTerminating(s)
       PROVE  PidTells' /\ SweepCovers' /\ RecordOutlivesChild'
  <2>1. /\ Signal(s, "SIGKILL") /\ Unrecord(s) /\ pid' = pid /\ agent' = "down"
    BY <1>18 DEF CrashTerminating, Down
  <2>2. \A p \in Pids : occupant'[p] \in Sessions => occupant'[p] = occupant[p]
    BY <2>1, SignalledOnly
  <2>3. ~Lives(s)'
    BY <2>1, KilledIsDead DEF Inv, Typed
  <2>4. PidTells' /\ \A u \in Sessions : Lives(u)' => Lives(u)
    BY <2>1, <2>2 DEF Inv, PidTells, Lives
  <2>5. (disk \cup unrecorded) \ {s} \subseteq disk' \cup unrecorded'
    BY <2>1, Unrecorded
  <2> QED
    BY <2>1, <2>3, <2>4, <2>5 DEF Inv, RecordOutlivesChild, SweepCovers
<1>11. CASE Boot
  BY <1>11 DEF Boot, Inv, PidTells, SweepCovers, RecordOutlivesChild, Lives
<1>12. ASSUME NEW s \in Sessions, SweepPasses(s)
       PROVE  PidTells' /\ SweepCovers' /\ RecordOutlivesChild'
  <2>1. /\ UNCHANGED <<agent, occupant, pid, disk, unrecorded, target>> /\ todo' = todo \ {s}
        /\ \/ ~PidAlive(s) /\ keep' = keep
           \/ PidAlive(s) /\ keep' = keep \cup {s}
    BY <1>12 DEF SweepPasses
  <2>2. PidTells' /\ RecordOutlivesChild' /\ \A u \in Sessions : Lives(u)' <=> Lives(u)
    BY <2>1 DEF Inv, PidTells, RecordOutlivesChild, Lives
  <2>3. Lives(s) => PidAlive(s)
    BY ProcessAssumption DEF Inv, PidTells, Lives, PidAlive
  <2>4. Lives(s) => s \in keep'
    BY <2>1, <2>3
  <2>5. SweepCovers'
    BY <2>1, <2>2, <2>4 DEF Inv, SweepCovers
  <2> QED
    BY <2>2, <2>5
<1>13. ASSUME NEW s \in Sessions, SweepTerminates(s)
       PROVE  PidTells' /\ SweepCovers' /\ RecordOutlivesChild'
  <2>1. PidTells' /\ RecordOutlivesChild' /\ \A u \in Sessions : Lives(u)' => Lives(u)
    BY <1>13, SignalledOnly, NoChildAppears DEF SweepTerminates
  <2>2. target'[Sweep] = s /\ target[Sweep] = None /\ todo' = todo \ {s}
        /\ UNCHANGED <<agent, keep, unrecorded>>
    BY <1>13, <1>t DEF SweepTerminates, TypeOK, Threads
  <2>3. SweepCovers'
    BY <2>1, <2>2, ProcessAssumption DEF Inv, SweepCovers
  <2> QED
    BY <2>1, <2>3
<1>14. CASE SweepKills
  <2>1. target[Sweep] \in Sessions
    BY <1>14, <1>t DEF SweepKills, TypeOK, Threads
  <2>2. PidTells' /\ RecordOutlivesChild' /\ \A u \in Sessions : Lives(u)' => Lives(u)
    BY <1>14, <2>1, SignalledOnly, NoChildAppears DEF SweepKills
  <2>3. ASSUME NEW s \in Sessions, s = target[Sweep] PROVE ~Lives(s)'
    <3>1. Signal(s, "SIGKILL")
      BY <1>14, <2>3 DEF SweepKills
    <3> QED
      BY <3>1, <1>t, KilledIsDead DEF Inv
  <2>4. UNCHANGED <<agent, todo, unrecorded>> /\ keep \subseteq keep'
    BY <1>14 DEF SweepKills
  <2>5. SweepCovers'
    BY <2>1, <2>2, <2>3, <2>4 DEF Inv, SweepCovers
  <2> QED
    BY <2>2, <2>5
<1>15. CASE SweepEnds \/ CrashSweeping
  <2>1. /\ agent = "sweeping" /\ todo = {} /\ target[Sweep] = None /\ agent' # "sweeping"
        /\ Write(keep, keep) /\ UNCHANGED <<occupant, pid>>
    BY <1>15 DEF SweepEnds, CrashSweeping, Down
  <2>2. \A s \in Sessions : Lives(s) => s \in keep \cup unrecorded
    BY <2>1, ProcessAssumption DEF Inv, SweepCovers
  <2>3. keep \cup unrecorded \subseteq disk' \cup unrecorded'
    BY <2>1, Written
  <2> QED
    BY <2>1, <2>2, <2>3 DEF Inv, PidTells, SweepCovers, RecordOutlivesChild, Lives
<1>16. ASSUME NEW p \in Pids, OtherStarts(p) \/ OtherEnds(p)
       PROVE  PidTells' /\ SweepCovers' /\ RecordOutlivesChild'
  <2>1. \A q \in Pids : occupant'[q] \in Sessions => occupant'[q] = occupant[q]
    BY <1>16, <1>t, ProcessAssumption DEF OtherStarts, OtherEnds, TypeOK
  <2> QED
    BY <1>16, <2>1, <1>u DEF OtherStarts, OtherEnds
<1>17. CASE UNCHANGED vars
  BY <1>17, <1>u DEF vars
<1> QED
  BY <1>1, <1>2, <1>3, <1>4, <1>5, <1>6, <1>7, <1>8, <1>9, <1>10, <1>11, <1>12, <1>13, <1>14,
     <1>15, <1>16, <1>17, <1>18 DEF Next, Sweeping

(***************************************************************************)
(* What a reader is told.                                                  *)
(***************************************************************************)
LEMMA OutputStep == Inv /\ [Next]_vars => SkippedIsTold'
<1> SUFFICES ASSUME Inv, [Next]_vars PROVE SkippedIsTold'
  OBVIOUS
<1> USE DEF sweepVars, pastVars, memory
<1>t. Typed /\ TypeOK /\ SkippedIsTold /\ output \in [Sessions -> Output]
  BY DEF Inv, Typed, TypeOK
<1>u. ASSUME output' = output PROVE SkippedIsTold'
  BY <1>u, <1>t DEF SkippedIsTold
<1>n. ~(NoOutput.got < NoOutput.cursor)
  BY DEF NoOutput
<1>f. ASSUME NEW s \in Sessions, output' = [output EXCEPT ![s] = NoOutput]
      PROVE  SkippedIsTold'
  BY <1>f, <1>n, <1>t DEF SkippedIsTold
<1>1. ASSUME NEW s \in Sessions, NEW max \in 1..Cap, Read(s, max) PROVE SkippedIsTold'
  <2>1. /\ \A u \in Sessions : u # s => output'[u] = output[u]
        /\ output'[s].cursor = output[s].kept
        /\ output'[s].got = Received(s, max) /\ output'[s].told = Said(s, max)
    BY <1>1, <1>t, ReadOutput
  <2>2. ASSUME output'[s].got < output'[s].cursor PROVE output'[s].told
    <3>1. CASE output[s].got < output[s].cursor
      BY <3>1, <2>1, <1>t DEF SkippedIsTold, Said
    <3>2. CASE ~(output[s].got < output[s].cursor)
      <4>1. /\ output[s].got \in 0..Cap /\ output[s].cursor \in 0..Cap /\ output[s].kept \in 0..Cap
            /\ output[s].got = output[s].cursor /\ output[s].cursor <= output[s].kept
        BY <3>2, <1>t, OutputFields, ProcessAssumption DEF Typed, CursorInBuffer
      <4>2. output[s].cursor + max < output[s].kept
        BY <4>1, <2>1, <2>2, ProcessAssumption DEF Received, Least
      <4> QED
        BY <4>2, <2>1 DEF Said
    <3> QED
      BY <3>1, <3>2
  <2> QED
    BY <2>1, <2>2, <1>t DEF SkippedIsTold
<1>2. ASSUME NEW s \in Sessions, Writes(s) PROVE SkippedIsTold'
  <2>1. CASE output[s].kept < Cap
    BY <1>2, <2>1, <1>t DEF Writes, SkippedIsTold, Output
  <2>2. CASE ~(output[s].kept < Cap)
    BY <1>2, <2>2, <1>t DEF Writes, SkippedIsTold, Output
  <2> QED
    BY <2>1, <2>2
<1>3. ASSUME NEW s \in Sessions, Reap(s) \/ TerminateForced(s) PROVE SkippedIsTold'
  BY <1>3, <1>f DEF Reap, TerminateForced, Drop, Forget
<1>4. ASSUME NEW j \in Jobs, TerminateEnds(j) PROVE SkippedIsTold'
  <2>1. target[j] \in Sessions
    BY <1>4, <1>t, ProcessAssumption DEF TerminateEnds, TypeOK, Threads
  <2> QED
    BY <1>4, <2>1, <1>n, <1>t DEF TerminateEnds, Drop, Forget, SkippedIsTold
<1>5. ASSUME Down PROVE SkippedIsTold'
  BY <1>5, <1>n DEF Down, SkippedIsTold
<1>6. ASSUME NEW s \in Sessions, NEW p \in Pids,
             Start(s, p) \/ CrashStarting(s, p)
      PROVE  SkippedIsTold'
  BY <1>6, <1>5, <1>u DEF Start, CrashStarting
<1>7. ASSUME NEW s \in Sessions, \/ StartFails(s) \/ Exits(s) \/ ExitSeen(s) \/ TimeLimit(s)
                                 \/ \E j \in Jobs : Terminate(j, s)
      PROVE  SkippedIsTold'
  BY <1>7, <1>u DEF StartFails, Exits, ExitSeen, TimeLimit, Terminate
<1>11. CASE CrashSweeping \/ \E s \in Sessions : CrashTerminating(s)
  BY <1>11, <1>5 DEF CrashSweeping, CrashTerminating
<1>8. CASE Crash \/ Boot \/ Sweeping
  BY <1>8, <1>5, <1>u DEF Crash, Boot, Sweeping, SweepKills, SweepEnds, SweepPasses, SweepTerminates
<1>9. ASSUME NEW p \in Pids, OtherStarts(p) \/ OtherEnds(p) PROVE SkippedIsTold'
  BY <1>9, <1>u DEF OtherStarts, OtherEnds
<1>10. CASE UNCHANGED vars
  BY <1>10, <1>u DEF vars
<1> QED
  BY <1>1, <1>2, <1>3, <1>4, <1>6, <1>7, <1>8, <1>9, <1>10, <1>11 DEF Next

(***************************************************************************)
(* The theorems.                                                           *)
(***************************************************************************)

\* The inductive invariant: types, where children are, what a sweep has still
\* to do, records, and what readers were told.
THEOREM ProcessInvariant == Spec => []Inv
<1>1. Init => Inv
  <2> SUFFICES ASSUME Init PROVE Inv
    OBVIOUS
  <2>1. \A p \in Pids : occupant[p] \notin Sessions
    BY ProcessAssumption DEF Init
  <2>2. PidTells /\ SweepCovers /\ RecordOutlivesChild
    BY <2>1 DEF Init, PidTells, SweepCovers, RecordOutlivesChild, Lives
  <2>3. SkippedIsTold
    BY DEF Init, SkippedIsTold, NoOutput
  <2> QED
    BY <2>2, <2>3, TypeInit DEF Inv
<1>2. Inv /\ [Next]_vars => Inv'
  BY TypeStep, RecordStep, OutputStep DEF Inv
<1> QED
  BY <1>1, <1>2, PTL DEF Spec

\* Every variable of the process tools keeps its type.
THEOREM ProcessTypeCorrect == Spec => []TypeOK
<1>1. Inv => TypeOK
  BY DEF Inv, Typed
<1> QED
  BY ProcessInvariant, <1>1, PTL

\* A living child is on record, through every signal, death and sweep.
THEOREM RecordOutlivesChildHolds == Spec => []RecordOutlivesChild
<1>1. Inv => RecordOutlivesChild
  BY DEF Inv
<1> QED
  BY ProcessInvariant, <1>1, PTL

\* No output goes missing behind a reader's cursor untold.
THEOREM SkippedIsToldHolds == Spec => []SkippedIsTold
<1>1. Inv => SkippedIsTold
  BY DEF Inv
<1> QED
  BY ProcessInvariant, <1>1, PTL
=============================================================================
