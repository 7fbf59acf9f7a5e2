------------------------ MODULE AgentInstance_proofs ------------------------
(***************************************************************************)
(* Proofs about AgentInstance, for any number of processes, confirmations, *)
(* any window and any number of kills and faults: every variable keeps its *)
(* type, one agent at most is past the lock while starts do not overlap,   *)
(* and an agent only decides to retire on enough evidence.                 *)
(*                                                                         *)
(* The lock: while no two starts have overlapped, one process at most is   *)
(* starting, who is past the lock has its row in the file and did not      *)
(* start late, and who is about to remove the file knows that nobody is.   *)
(* The evidence: what a process holds is never more than what the hub has  *)
(* said since its last good answer; when no process works this is so of    *)
(* the disk as well, or a process has forgotten.                           *)
(***************************************************************************)
EXTENDS AgentInstance, TLAPS

\* Where a process has read the state file.
Work == {"main", "release", "unlink"}

LE(a, b) == a.count <= b.count /\ a.age <= b.age

\* Telemetry and writes are those of a process that works; others hold nothing.
Idle == \A p \in Pids : pc[p] \notin Work =>
            mem[p] = NoEvidence /\ tele[p] = "idle" /\ ~dirty[p]

OneStarts == \A p, q \in Pids : pc[p] \in Starting /\ pc[q] \in Starting => p = q
Holder == \A p \in Pids : pc[p] \in Holding =>
            lock # NoLock /\ lock.by = p /\ lock.written /\ ~late[p]
Writer == \A p \in Pids : pc[p] = "write" => lock # NoLock /\ lock.by = p
Remover == \A p, q \in Pids : pc[p] = "remove" => pc[q] \notin Holding

LockInv == raced \/ (OneStarts /\ Holder /\ Writer /\ Remover)

MemTold == \A p \in Pids : LE(mem[p], told)
DiskTold == (\A p \in Pids : pc[p] \notin Work) => LE(disk, told)

EvidenceInv == raced \/ forgot \/ (MemTold /\ DiskTold)

Inv == TypeOK /\ Idle /\ LockInv /\ EvidenceInv

(***************************************************************************)
(* Evidence.                                                               *)
(***************************************************************************)
LEMMA NoEvidenceType == NoEvidence \in Evidence
BY InstanceAssumption DEF NoEvidence, Evidence

LEMMA SeenType ==
    ASSUME NEW e \in Evidence
    PROVE  Seen(e) \in Evidence
BY InstanceAssumption DEF Seen, Evidence

LEMMA OlderType ==
    ASSUME NEW e \in Evidence
    PROVE  Older(e) \in Evidence
BY InstanceAssumption DEF Older, Evidence

LEMMA RowIsLock ==
    \A p \in Pids, w, o \in BOOLEAN : [by |-> p, written |-> w, old |-> o] # NoLock
BY InstanceAssumption

LEMMA OlderNothing == Older(NoEvidence) = NoEvidence
BY DEF Older, NoEvidence

LEMMA NothingLE ==
    ASSUME NEW e \in Evidence
    PROVE  LE(NoEvidence, e)
BY DEF LE, NoEvidence, Evidence

LEMMA SeenLE ==
    ASSUME NEW a \in Evidence, NEW b \in Evidence, LE(a, b)
    PROVE  LE(Seen(a), Seen(b)) /\ LE(a, Seen(b))
BY InstanceAssumption DEF LE, Seen, Evidence

LEMMA OlderLE ==
    ASSUME NEW a \in Evidence, NEW b \in Evidence, LE(a, b)
    PROVE  LE(Older(a), Older(b))
BY InstanceAssumption DEF LE, Older, Evidence

(***************************************************************************)
(* Types.                                                                  *)
(***************************************************************************)
LEMMA TypeInit == Init => TypeOK
<1> SUFFICES ASSUME Init PROVE TypeOK
  OBVIOUS
<1>1. pc \in [Pids -> Starting \cup Holding \cup {"off"}] /\ tries \in [Pids -> 0..2]
  BY DEF Init
<1>2. late \in [Pids -> BOOLEAN] /\ dirty \in [Pids -> BOOLEAN]
  BY DEF Init
<1>3. mem \in [Pids -> Evidence] /\ disk \in Evidence /\ told \in Evidence
  BY NoEvidenceType DEF Init
<1>4. tele \in [Pids -> Telemetry]
  BY DEF Init, Telemetry
<1>5. {marker, known, raced, forgot} \subseteq BOOLEAN
  BY DEF Init
<1>6. lock \in Locks \cup {NoLock} /\ stranger \in SUBSET Pids /\ trouble \in 0..MaxTrouble
  BY InstanceAssumption DEF Init
<1> QED
  BY <1>1, <1>2, <1>3, <1>4, <1>5, <1>6 DEF TypeOK

LEMMA GoneType ==
    ASSUME TypeOK, NEW p \in Pids, Gone(p),
           lock' \in Locks \cup {NoLock}, trouble' \in 0..MaxTrouble
    PROVE  TypeOK'
BY NoEvidenceType DEF Gone, TypeOK, Telemetry

LEMMA LockingType ==
    ASSUME TypeOK, NEW p \in Pids, Locking(p)
    PROVE  TypeOK'
<1> USE DEF TypeOK, Goto, outside, proofVars
<1>1. CASE Create(p)
  BY <1>1 DEF Create, Starting, Locks
<1>2. CASE Exists(p)
  BY <1>2 DEF Exists, Starting
<1>3. CASE WriteRow(p)
  BY <1>3 DEF WriteRow, Holding, Locks
<1>4. CASE Refused(p)
  BY <1>4, GoneType, InstanceAssumption DEF Refused, Troubled
<1>5. CASE Stale(p)
  BY <1>5 DEF Stale, Starting
<1>6. CASE Remove(p)
  BY <1>6 DEF Remove, Starting
<1>7. CASE RemoveLast(p)
  BY <1>7, GoneType DEF RemoveLast
<1>8. CASE Release(p)
  BY <1>8 DEF Release, Holding
<1>9. CASE ReleaseNothing(p)
  BY <1>9, GoneType DEF ReleaseNothing
<1>10. CASE Unlink(p)
  BY <1>10, GoneType DEF Unlink
<1> QED
  BY <1>1, <1>2, <1>3, <1>4, <1>5, <1>6, <1>7, <1>8, <1>9, <1>10 DEF Locking

LEMMA ResetType ==
    ASSUME TypeOK, NEW p \in Pids, Reset(p),
           tele' \in [Pids -> Telemetry], trouble' \in 0..MaxTrouble
    PROVE  TypeOK'
<1>1. dirty' \in [Pids -> BOOLEAN]
  BY DEF Reset, TypeOK
<1> QED
  BY <1>1, NoEvidenceType DEF Reset, TypeOK, lockVars

LEMMA TypeStep == TypeOK /\ [Next]_vars => TypeOK'
<1> SUFFICES ASSUME TypeOK, [Next]_vars PROVE TypeOK'
  OBVIOUS
<1> USE InstanceAssumption
<1>1. ASSUME NEW p \in Pids, Start(p) PROVE TypeOK'
  BY <1>1 DEF Start, TypeOK, proofVars, Starting, StartsLate
<1>2. ASSUME NEW p \in Pids, StrangerStarts(p) PROVE TypeOK'
  BY <1>2 DEF StrangerStarts, TypeOK, proofVars, StartsLate
<1>3. ASSUME NEW p \in Pids, Killed(p) PROVE TypeOK'
  BY <1>3, GoneType DEF Killed, Troubled, TypeOK
<1>4. ASSUME NEW p \in Pids, Locking(p) PROVE TypeOK'
  BY <1>4, LockingType
<1>5. ASSUME NEW p \in Pids, BootRetired(p) PROVE TypeOK'
  BY <1>5 DEF BootRetired, Goto, TypeOK, files, proofVars, Holding
<1>6. ASSUME NEW p \in Pids, Boot(p) PROVE TypeOK'
  BY <1>6 DEF Boot, Goto, TypeOK, files, Holding
<1>7. ASSUME NEW p \in Pids, Mark(p) PROVE TypeOK'
  BY <1>7 DEF Mark, TypeOK, lockVars, Telemetry
<1>8. ASSUME NEW p \in Pids, Returns(p) PROVE TypeOK'
  BY <1>8 DEF Returns, Goto, TypeOK, files, proofVars, Holding
<1>9. ASSUME NEW p \in Pids, Answered(p) PROVE TypeOK'
  <2>1. tele' \in [Pids -> Telemetry]
    BY <1>9 DEF Answered, TypeOK, Telemetry
  <2> QED
    BY <1>9, <2>1, ResetType DEF Answered, TypeOK
<1>10. ASSUME NEW p \in Pids, Welcomed(p) PROVE TypeOK'
  BY <1>10, ResetType DEF Welcomed, TypeOK
<1>11. ASSUME NEW p \in Pids, OtherError(p) PROVE TypeOK'
  <2>1. tele' \in [Pids -> Telemetry]
    BY <1>11 DEF OtherError, TypeOK, Telemetry
  <2> QED
    BY <1>11, <2>1, ResetType DEF OtherError, TypeOK, Troubled
<1>12. ASSUME NEW p \in Pids, NotFound(p) PROVE TypeOK'
  <2>1. mem' \in [Pids -> Evidence] /\ told' \in Evidence
    BY <1>12, SeenType DEF NotFound, TypeOK
  <2>2. tele' \in [Pids -> Telemetry]
    BY <1>12 DEF NotFound, TypeOK, Telemetry
  <2> QED
    BY <1>12, <2>1, <2>2 DEF NotFound, TypeOK, lockVars
<1>13. ASSUME NEW p \in Pids, Persist(p) PROVE TypeOK'
  BY <1>13 DEF Persist, TypeOK, lockVars, Telemetry
<1>14. ASSUME NEW p \in Pids, PersistFails(p) PROVE TypeOK'
  BY <1>14 DEF PersistFails, Troubled, TypeOK, lockVars, Telemetry
<1>15. ASSUME NEW p \in Pids, Throws(p) PROVE TypeOK'
  BY <1>15 DEF Throws, Troubled, Goto, TypeOK, files, Telemetry, Holding
<1>16. CASE StrangerEnds
  BY <1>16 DEF StrangerEnds, TypeOK, proofVars
<1>17. CASE HubChanges
  BY <1>17 DEF HubChanges, TypeOK, lockVars, proofVars
<1>18. CASE Tick
  <2>1. mem' \in [Pids -> Evidence] /\ disk' \in Evidence /\ told' \in Evidence
    BY <1>18, OlderType DEF Tick, TypeOK
  <2>2. lock' \in Locks \cup {NoLock}
    BY <1>18 DEF Tick, TypeOK, Locks, Named
  <2> QED
    BY <1>18, <2>1, <2>2 DEF Tick, TypeOK
<1>19. CASE UNCHANGED vars
  BY <1>19 DEF vars, lockVars, proofVars, TypeOK
<1> QED
  BY <1>1, <1>2, <1>3, <1>4, <1>5, <1>6, <1>7, <1>8, <1>9, <1>10, <1>11, <1>12, <1>13,
     <1>14, <1>15, <1>16, <1>17, <1>18, <1>19 DEF Next, Working

\* Every variable keeps its type.
THEOREM InstanceTypeCorrect == Spec => []TypeOK
BY TypeInit, TypeStep, PTL DEF Spec
(***************************************************************************)
(* Who holds evidence.                                                     *)
(***************************************************************************)
LEMMA IdleStep == TypeOK /\ Idle /\ [Next]_vars => Idle'
<1> SUFFICES ASSUME TypeOK, Idle, [Next]_vars PROVE Idle'
  OBVIOUS
<1> USE DEF Idle, TypeOK, Work
<1>0. ASSUME NEW p \in Pids, Gone(p) PROVE Idle'
  BY <1>0 DEF Gone
<1>1. ASSUME NEW p \in Pids, Start(p) PROVE Idle'
  <2>1. pc[p] = "off" /\ \A q \in Pids : q # p => pc'[q] = pc[q]
    BY <1>1 DEF Start, Alive
  <2>2. UNCHANGED <<mem, tele, dirty>>
    BY <1>1 DEF Start, proofVars
  <2> QED
    BY <2>1, <2>2
<1>2. ASSUME NEW p \in Pids, StrangerStarts(p) PROVE Idle'
  BY <1>2 DEF StrangerStarts, proofVars
<1>3. ASSUME NEW p \in Pids, Killed(p) PROVE Idle'
  BY <1>3, <1>0 DEF Killed
<1>4. ASSUME NEW p \in Pids, Locking(p) PROVE Idle'
  <2>1. CASE Create(p) \/ Exists(p) \/ WriteRow(p) \/ Stale(p) \/ Remove(p) \/ Release(p)
    BY <2>1 DEF Create, Exists, WriteRow, Stale, Remove, Release, Goto, outside, proofVars
  <2>2. CASE Refused(p) \/ RemoveLast(p) \/ ReleaseNothing(p) \/ Unlink(p)
    BY <2>2, <1>0 DEF Refused, RemoveLast, ReleaseNothing, Unlink
  <2> QED
    BY <1>4, <2>1, <2>2 DEF Locking
<1>5. ASSUME NEW p \in Pids, BootRetired(p) PROVE Idle'
  BY <1>5 DEF BootRetired, Goto, proofVars
<1>6. ASSUME NEW p \in Pids, Boot(p) PROVE Idle'
  BY <1>6 DEF Boot, Goto
<1>7. ASSUME NEW p \in Pids, Mark(p) PROVE Idle'
  BY <1>7 DEF Mark, lockVars
<1>8. ASSUME NEW p \in Pids, Returns(p) PROVE Idle'
  BY <1>8 DEF Returns, Goto, proofVars
<1>9. ASSUME NEW p \in Pids, Answered(p) \/ Welcomed(p) \/ OtherError(p) PROVE Idle'
  BY <1>9 DEF Answered, Welcomed, OtherError, Reset, lockVars
<1>12. ASSUME NEW p \in Pids, NotFound(p) PROVE Idle'
  BY <1>12 DEF NotFound, lockVars
<1>13. ASSUME NEW p \in Pids, Persist(p) \/ PersistFails(p) PROVE Idle'
  BY <1>13 DEF Persist, PersistFails, lockVars
<1>15. ASSUME NEW p \in Pids, Throws(p) PROVE Idle'
  BY <1>15 DEF Throws, Goto
<1>16. CASE StrangerEnds \/ HubChanges
  BY <1>16 DEF StrangerEnds, HubChanges, lockVars, proofVars
<1>18. CASE Tick
  BY <1>18, OlderNothing DEF Tick
<1>19. CASE UNCHANGED vars
  BY <1>19 DEF vars, lockVars, proofVars
<1> QED
  BY <1>1, <1>2, <1>3, <1>4, <1>5, <1>6, <1>7, <1>8, <1>9, <1>12, <1>13, <1>15, <1>16,
     <1>18, <1>19 DEF Next, Working

(***************************************************************************)
(* The lock.                                                               *)
(***************************************************************************)

\* A process that ends and leaves the file as it is, or removes one nobody holds.
LEMMA GoneLock ==
    ASSUME TypeOK, LockInv, NEW p \in Pids, Gone(p),
           \/ lock' = lock
           \/ pc[p] \in {"remove", "unlink"}
    PROVE  LockInv'
<1> SUFFICES ASSUME ~raced PROVE (OneStarts /\ Holder /\ Writer /\ Remover)'
  BY DEF LockInv, Gone
<1>1. OneStarts /\ Holder /\ Writer /\ Remover
  BY DEF LockInv
<1>2. /\ pc' = [pc EXCEPT ![p] = "off"] /\ late' = late
  BY DEF Gone
<1>3. \A q \in Pids : pc'[q] # "off" => q # p /\ pc'[q] = pc[q]
  BY <1>2 DEF TypeOK
<1>4. OneStarts' /\ Remover'
  BY <1>1, <1>3 DEF OneStarts, Remover, Starting, Holding
<1>5. CASE lock' = lock
  BY <1>1, <1>2, <1>3, <1>4, <1>5 DEF Holder, Writer, Holding
<1>6. CASE pc[p] \in {"remove", "unlink"}
  <2>1. ASSUME NEW q \in Pids PROVE pc'[q] \notin Holding /\ pc'[q] # "write"
    <3>1. CASE pc[p] = "remove"
      BY <1>1, <1>3, <3>1 DEF OneStarts, Remover, Starting, Holding
    <3>2. CASE pc[p] = "unlink"
      BY <1>1, <1>3, <3>2 DEF Holder, Writer, Holding
    <3> QED
      BY <1>6, <3>1, <3>2
  <2> QED
    BY <1>4, <2>1 DEF Holder, Writer
<1> QED
  BY <1>5, <1>6

LEMMA LockStep == TypeOK /\ Idle /\ LockInv /\ [Next]_vars => LockInv'
<1> SUFFICES ASSUME TypeOK, Idle, LockInv, [Next]_vars PROVE LockInv'
  OBVIOUS
<1>a. SUFFICES ASSUME ~raced, ~raced' PROVE (OneStarts /\ Holder /\ Writer /\ Remover)'
  <2>1. raced => raced'
    BY ZenonT(30) DEF Next, Start, StrangerStarts, Killed, Gone, Locking, Create, Exists, WriteRow, Refused,
       Stale, Remove, RemoveLast, Release, ReleaseNothing, Unlink, outside, Working,
       BootRetired, Boot, Mark, Returns, files, Answered, Welcomed, OtherError, Reset,
       NotFound, Persist, PersistFails, Throws, StrangerEnds, HubChanges, Tick, lockVars, vars
  <2> QED
    BY <2>1 DEF LockInv
<1>b. OneStarts /\ Holder /\ Writer /\ Remover
  BY <1>a DEF LockInv
<1>g. ASSUME NEW p \in Pids, Gone(p), lock' = lock \/ pc[p] \in {"remove", "unlink"}
      PROVE  (OneStarts /\ Holder /\ Writer /\ Remover)'
  BY <1>g, <1>a, GoneLock DEF LockInv
\* Steps among the places past the lock, and steps that leave pc, lock and late alone.
<1>h. ASSUME NEW p \in Pids, NEW l \in Holding, pc[p] \in Holding,
             pc' = [pc EXCEPT ![p] = l], lock' = lock, late' = late
      PROVE  (OneStarts /\ Holder /\ Writer /\ Remover)'
  <2>1. \A q \in Pids : /\ pc'[q] \in Holding <=> pc[q] \in Holding
                        /\ pc'[q] \notin Holding => pc'[q] = pc[q]
    BY <1>h DEF TypeOK
  <2>2. OneStarts' /\ Remover'
    BY <2>1, <1>b DEF OneStarts, Remover, Starting, Holding
  <2>3. Holder' /\ Writer'
    BY <2>1, <1>b, <1>h DEF Holder, Writer, Holding
  <2> QED
    BY <2>2, <2>3
<1>u. ASSUME UNCHANGED <<pc, lock, late>> PROVE (OneStarts /\ Holder /\ Writer /\ Remover)'
  BY <1>u, <1>b DEF OneStarts, Holder, Writer, Remover
<1>1. ASSUME NEW p \in Pids, Start(p) PROVE (OneStarts /\ Holder /\ Writer /\ Remover)'
  <2>1. \A q \in Pids : pc[q] \notin Starting
    BY <1>1, <1>a DEF Start
  <2>2. \A q \in Pids : q # p => pc'[q] = pc[q] /\ late'[q] = late[q]
    BY <1>1 DEF Start, TypeOK
  <2>3. pc'[p] = "open" /\ lock' = lock
    BY <1>1 DEF Start, TypeOK
  <2> QED
    BY <2>1, <2>2, <2>3, <1>b DEF OneStarts, Holder, Writer, Remover, Starting, Holding
<1>2. ASSUME NEW p \in Pids, StrangerStarts(p) PROVE (OneStarts /\ Holder /\ Writer /\ Remover)'
  <2>1. pc[p] = "off" /\ pc' = pc /\ lock' = lock
    BY <1>2 DEF StrangerStarts, Alive
  <2>2. \A q \in Pids : q # p => late'[q] = late[q]
    BY <1>2 DEF StrangerStarts, TypeOK
  <2> QED
    BY <2>1, <2>2, <1>b DEF OneStarts, Holder, Writer, Remover, Holding
<1>3. ASSUME NEW p \in Pids, Killed(p) PROVE (OneStarts /\ Holder /\ Writer /\ Remover)'
  BY <1>3, <1>g DEF Killed
<1>4. ASSUME NEW p \in Pids, Locking(p) PROVE (OneStarts /\ Holder /\ Writer /\ Remover)'
  <2>1. CASE Create(p)
    <3>1. \A q \in Pids : pc[q] \notin Holding
      BY <1>b, <2>1 DEF Create, Holder
    <3>2. pc'[p] = "write" /\ \A q \in Pids : q # p => pc'[q] = pc[q]
      BY <2>1 DEF Create, Goto, TypeOK
    <3>4. lock' = [by |-> p, written |-> FALSE, old |-> FALSE]
      BY <2>1 DEF Create
    <3>5. lock' # NoLock /\ lock'.by = p
      BY <3>4, RowIsLock
    <3>3. \A q \in Pids : q # p => pc[q] \notin Starting
      BY <2>1, <1>b DEF Create, OneStarts, Starting
    <3> QED
      BY <3>1, <3>2, <3>3, <3>5 DEF OneStarts, Holder, Writer, Remover, Starting, Holding
  <2>2. CASE Exists(p)
    <3>1. pc[p] = "open" /\ pc'[p] = "look" /\ \A q \in Pids : q # p => pc'[q] = pc[q]
      BY <2>2 DEF Exists, Goto, TypeOK
    <3>2. lock' = lock /\ late' = late
      BY <2>2 DEF Exists
    <3> QED
      BY <3>1, <3>2, <1>b DEF OneStarts, Holder, Writer, Remover, Starting, Holding
  <2>3. CASE WriteRow(p)
    <3>1. pc[p] = "write" /\ pc'[p] = "boot" /\ \A q \in Pids : q # p => pc'[q] = pc[q]
      BY <2>3 DEF WriteRow, Goto, TypeOK
    <3>2. lock' = [by |-> p, written |-> TRUE, old |-> FALSE]
      BY <2>3, <3>1, <1>b DEF WriteRow, Writer
    <3>4. lock' # NoLock /\ lock'.by = p /\ lock'.written
      BY <3>2, RowIsLock
    <3>5. ~late'[p]
      BY <2>3 DEF WriteRow, TypeOK
    <3>3. \A q \in Pids : q # p => pc[q] \notin Holding /\ pc[q] \notin Starting
      BY <3>1, <1>b DEF OneStarts, Holder, Writer, Starting
    <3> QED
      BY <3>1, <3>3, <3>4, <3>5 DEF OneStarts, Holder, Writer, Remover, Starting, Holding
  <2>4. CASE Stale(p)
    <3>1. pc[p] = "look" /\ pc'[p] = "remove" /\ \A q \in Pids : q # p => pc'[q] = pc[q]
      BY <2>4 DEF Stale, Goto, TypeOK
    <3>2. lock' = lock /\ late' = late
      BY <2>4 DEF Stale
    <3>3. \A q \in Pids : pc[q] \notin Holding
      BY <2>4, <1>b DEF Stale, Holder, Named, Alive, Recycled, Holding
    <3> QED
      BY <3>1, <3>2, <3>3, <1>b DEF OneStarts, Holder, Writer, Remover, Starting, Holding
  <2>5. CASE Remove(p)
    <3>1. pc[p] = "remove" /\ pc'[p] = "open" /\ \A q \in Pids : q # p => pc'[q] = pc[q]
      BY <2>5 DEF Remove, Goto, TypeOK
    <3>2. \A q \in Pids : q # p => pc[q] \notin Holding /\ pc[q] \notin Starting
      BY <3>1, <1>b DEF OneStarts, Remover, Starting
    <3> QED
      BY <3>1, <3>2 DEF OneStarts, Holder, Writer, Remover, Starting, Holding
  <2>6. CASE Release(p)
    BY <2>6, <1>h DEF Release, Goto, Holding
  <2>7. CASE Refused(p) \/ ReleaseNothing(p)
    BY <2>7, <1>g DEF Refused, ReleaseNothing
  <2>8. CASE RemoveLast(p) \/ Unlink(p)
    BY <2>8, <1>g DEF RemoveLast, Unlink
  <2> QED
    BY <1>4, <2>1, <2>2, <2>3, <2>4, <2>5, <2>6, <2>7, <2>8 DEF Locking
<1>5. ASSUME NEW p \in Pids, BootRetired(p) \/ Boot(p) \/ Returns(p)
      PROVE  (OneStarts /\ Holder /\ Writer /\ Remover)'
  BY <1>5, <1>h DEF BootRetired, Boot, Returns, Goto, files, Holding
<1>6. ASSUME NEW p \in Pids, Throws(p) PROVE (OneStarts /\ Holder /\ Writer /\ Remover)'
  <2>1. pc[p] \in Holding
    BY <1>6 DEF Throws, Idle, Work, Holding
  <2> QED
    BY <1>6, <1>h, <2>1 DEF Throws, Goto, files, Holding
<1>7. ASSUME NEW p \in Pids, Mark(p) \/ Answered(p) \/ Welcomed(p) \/ OtherError(p) \/ NotFound(p)
                             \/ Persist(p) \/ PersistFails(p)
      PROVE  (OneStarts /\ Holder /\ Writer /\ Remover)'
  BY <1>7, <1>u DEF Mark, Answered, Welcomed, OtherError, Reset, NotFound, Persist, PersistFails, lockVars
<1>8. CASE StrangerEnds \/ HubChanges \/ UNCHANGED vars
  BY <1>8, <1>u DEF StrangerEnds, HubChanges, vars, lockVars
<1>9. CASE Tick
  <2>1. pc' = pc /\ late' = late
    BY <1>9 DEF Tick
  <2>2. lock # NoLock => lock' # NoLock /\ lock'.by = lock.by /\ (lock.written => lock'.written)
    BY <1>9, InstanceAssumption DEF Tick, Named, TypeOK, Locks
  <2> QED
    BY <2>1, <2>2, <1>b DEF OneStarts, Holder, Writer, Remover
<1> QED
  BY <1>1, <1>2, <1>3, <1>4, <1>5, <1>6, <1>7, <1>8, <1>9 DEF Next, Working

(***************************************************************************)
(* The evidence.                                                           *)
(***************************************************************************)
LEMMA OneWorks ==
    ASSUME TypeOK, Idle, LockInv, ~raced, NEW p \in Pids, pc[p] \in Holding
    PROVE  \A q \in Pids : q # p => mem[q] = NoEvidence
BY DEF LockInv, Holder, Idle, Work, Holding

LEMMA EvidenceStep ==
    TypeOK /\ TypeOK' /\ Idle /\ LockInv /\ EvidenceInv /\ [Next]_vars => EvidenceInv'
<1> SUFFICES ASSUME TypeOK, TypeOK', Idle, LockInv, EvidenceInv, [Next]_vars
             PROVE  EvidenceInv'
  OBVIOUS
<1>a. raced => raced'
  BY ZenonT(30) DEF Next, Start, StrangerStarts, Killed, Gone, Locking, Create, Exists, WriteRow, Refused,
     Stale, Remove, RemoveLast, Release, ReleaseNothing, Unlink, outside, Working,
     BootRetired, Boot, Mark, Returns, files, Answered, Welcomed, OtherError, Reset,
     NotFound, Persist, PersistFails, Throws, StrangerEnds, HubChanges, Tick, lockVars, vars
<1> SUFFICES ASSUME ~raced, ~raced', ~forgot' PROVE (MemTold /\ DiskTold)'
  BY <1>a DEF EvidenceInv
<1>t. /\ \A q \in Pids : mem[q] \in Evidence /\ mem'[q] \in Evidence
      /\ disk \in Evidence /\ told \in Evidence /\ told' \in Evidence
  BY DEF TypeOK
<1>e. ~forgot => MemTold /\ DiskTold
  BY DEF EvidenceInv
\* Steps that leave the evidence alone and take no working process off.
<1>u. ASSUME UNCHANGED <<mem, disk, told, forgot>>,
             \A q \in Pids : pc[q] \in Work => pc'[q] \in Work
      PROVE  (MemTold /\ DiskTold)'
  BY <1>u, <1>e DEF MemTold, DiskTold
<1>g. ASSUME NEW p \in Pids, Gone(p) PROVE (MemTold /\ DiskTold)'
  <2>1. /\ ~forgot /\ told' = told /\ disk' = disk
        /\ pc[p] \in Work => disk.count <= told.count /\ disk.age <= told.age
    BY <1>g, <1>t DEF Gone, Work, Evidence
  <2>2. mem'[p] = NoEvidence /\ \A q \in Pids : q # p => mem'[q] = mem[q] /\ pc'[q] = pc[q]
    BY <1>g DEF Gone, TypeOK
  <2>3. MemTold'
    BY <2>1, <2>2, <1>e, <1>t, NothingLE DEF MemTold
  <2>4. CASE pc[p] \in Work
    BY <2>1, <2>4, <2>3 DEF DiskTold, LE
  <2>5. CASE pc[p] \notin Work
    BY <2>1, <2>2, <2>3, <2>5, <1>e DEF DiskTold
  <2> QED
    BY <2>4, <2>5
<1>r. ASSUME NEW p \in Pids, pc[p] = "main", Reset(p) PROVE (MemTold /\ DiskTold)'
  <2>1. pc' = pc /\ told' = NoEvidence /\ mem' = [mem EXCEPT ![p] = NoEvidence]
    BY <1>r DEF Reset, lockVars
  <2>2. \A q \in Pids : mem'[q] = NoEvidence
    BY <2>1, <1>r, OneWorks DEF Holding, TypeOK
  <2>3. MemTold'
    BY <2>2, <1>t, NothingLE DEF MemTold
  <2>4. DiskTold'
    BY <2>1, <1>r DEF DiskTold, Work
  <2> QED
    BY <2>3, <2>4
<1>1. ASSUME NEW p \in Pids, Start(p) PROVE (MemTold /\ DiskTold)'
  <2>1. pc[p] = "off" /\ \A q \in Pids : q # p => pc'[q] = pc[q]
    BY <1>1 DEF Start, Alive, TypeOK
  <2> QED
    BY <1>1, <2>1, <1>u DEF Start, proofVars, Work
<1>2. ASSUME NEW p \in Pids, StrangerStarts(p) PROVE (MemTold /\ DiskTold)'
  BY <1>2, <1>u DEF StrangerStarts, proofVars
<1>3. ASSUME NEW p \in Pids, Killed(p) PROVE (MemTold /\ DiskTold)'
  BY <1>3, <1>g DEF Killed
<1>4. ASSUME NEW p \in Pids, Locking(p) PROVE (MemTold /\ DiskTold)'
  <2>1. CASE Create(p) \/ Exists(p) \/ WriteRow(p) \/ Stale(p) \/ Remove(p) \/ Release(p)
    <3>1. UNCHANGED proofVars
      BY <2>1 DEF Create, Exists, WriteRow, Stale, Remove, Release, outside
    <3>2. \A q \in Pids : pc[q] \in Work => pc'[q] \in Work
      BY <2>1 DEF Create, Exists, WriteRow, Stale, Remove, Release, Goto, TypeOK, Work
    <3> QED
      BY <3>1, <3>2, <1>u DEF proofVars
  <2>2. CASE Refused(p) \/ RemoveLast(p) \/ ReleaseNothing(p) \/ Unlink(p)
    BY <2>2, <1>g DEF Refused, RemoveLast, ReleaseNothing, Unlink
  <2> QED
    BY <1>4, <2>1, <2>2 DEF Locking
<1>5. ASSUME NEW p \in Pids, BootRetired(p) \/ Returns(p) PROVE (MemTold /\ DiskTold)'
  <2>1. \A q \in Pids : pc[q] \in Work => pc'[q] \in Work
    BY <1>5 DEF BootRetired, Returns, Goto, TypeOK, Work
  <2> QED
    BY <1>5, <2>1, <1>u DEF BootRetired, Returns, proofVars
<1>6. ASSUME NEW p \in Pids, Boot(p) PROVE (MemTold /\ DiskTold)'
  <2>1. pc[p] = "boot" /\ pc'[p] = "main" /\ mem'[p] = disk /\ ~forgot /\ told' = told
    BY <1>6 DEF Boot, Goto, TypeOK
  <2>2. \A q \in Pids : q # p => pc[q] \notin Holding /\ mem'[q] = mem[q]
    BY <1>6, <2>1 DEF Boot, TypeOK, LockInv, Holder, Holding
  <2>3. LE(disk, told)
    BY <2>1, <2>2, <1>e DEF DiskTold, Work, Holding
  <2>4. MemTold'
    BY <2>1, <2>2, <2>3, <1>e DEF MemTold
  <2>5. DiskTold'
    BY <2>1 DEF DiskTold, Work
  <2> QED
    BY <2>4, <2>5
<1>7. ASSUME NEW p \in Pids, Mark(p) \/ PersistFails(p) PROVE (MemTold /\ DiskTold)'
  BY <1>7, <1>u DEF Mark, PersistFails, lockVars
<1>8. ASSUME NEW p \in Pids, Answered(p) \/ Welcomed(p) \/ OtherError(p)
      PROVE  (MemTold /\ DiskTold)'
  BY <1>8, <1>r DEF Answered, Welcomed, OtherError
<1>9. ASSUME NEW p \in Pids, NotFound(p) PROVE (MemTold /\ DiskTold)'
  <2>1. /\ pc[p] = "main" /\ pc' = pc /\ ~forgot /\ told' = Seen(told) /\ disk' = disk
        /\ mem'[p] = Seen(mem[p]) /\ \A q \in Pids : q # p => mem'[q] = mem[q]
    BY <1>9 DEF NotFound, lockVars, TypeOK
  <2>2. MemTold'
    BY <2>1, <1>e, <1>t, SeenLE DEF MemTold
  <2>3. DiskTold'
    BY <2>1 DEF DiskTold, Work
  <2> QED
    BY <2>2, <2>3
<1>10. ASSUME NEW p \in Pids, Persist(p) PROVE (MemTold /\ DiskTold)'
  BY <1>10, <1>e DEF Persist, lockVars, MemTold, DiskTold
<1>11. ASSUME NEW p \in Pids, Throws(p) PROVE (MemTold /\ DiskTold)'
  <2>1. \A q \in Pids : pc[q] \in Work => pc'[q] \in Work
    BY <1>11 DEF Throws, Goto, TypeOK, Work
  <2> QED
    BY <1>11, <2>1, <1>u DEF Throws
<1>12. CASE StrangerEnds \/ HubChanges \/ UNCHANGED vars
  BY <1>12, <1>u DEF StrangerEnds, HubChanges, vars, lockVars, proofVars
<1>13. CASE Tick
  <2>1. /\ pc' = pc /\ ~forgot /\ told' = Older(told) /\ disk' = Older(disk)
        /\ \A q \in Pids : mem'[q] = Older(mem[q])
    BY <1>13 DEF Tick
  <2>2. MemTold'
    BY <2>1, <1>e, <1>t, OlderLE DEF MemTold
  <2>3. DiskTold'
    BY <2>1, <1>e, <1>t, OlderLE DEF DiskTold
  <2> QED
    BY <2>2, <2>3
<1> QED
  BY <1>1, <1>2, <1>3, <1>4, <1>5, <1>6, <1>7, <1>8, <1>9, <1>10, <1>11, <1>12, <1>13
     DEF Next, Working

(***************************************************************************)
(* The theorems.                                                           *)
(***************************************************************************)
LEMMA InvInit == Init => Inv
<1> SUFFICES ASSUME Init PROVE Inv
  OBVIOUS
<1>1. TypeOK
  BY TypeInit
<1>2. Idle
  BY DEF Init, Idle
<1>3. OneStarts /\ Holder /\ Writer /\ Remover
  BY DEF Init, OneStarts, Holder, Writer, Remover, Starting, Holding
<1>4. MemTold /\ DiskTold
  BY NothingLE, NoEvidenceType DEF Init, MemTold, DiskTold
<1> QED
  BY <1>1, <1>2, <1>3, <1>4 DEF Inv, LockInv, EvidenceInv

\* The inductive invariant behind the theorems below: who starts, who holds the
\* lock, and how the three copies of the evidence are ordered.
THEOREM InstanceInvariant == Spec => []Inv
<1>1. Inv /\ [Next]_vars => Inv'
  BY TypeStep, IdleStep, LockStep, EvidenceStep DEF Inv
<1> QED
  BY InvInit, <1>1, PTL DEF Spec

\* While no two starts have overlapped, one agent at most is past the lock.
THEOREM OneAgentHolds == Spec => []OneAgent
<1>1. Inv => OneAgent
  BY DEF Inv, LockInv, Holder, OneAgent
<1> QED
  BY InstanceInvariant, <1>1, PTL

\* The decision to retire rests on enough answers over enough time.
THEOREM RetiredOnEvidenceHolds == Spec => RetiredOnEvidence
<1>1. ASSUME Inv, Inv', [Next]_vars, NEW p \in Pids, tele[p] # "decided", tele'[p] = "decided"
      PROVE  raced \/ forgot \/ (told'.count = Confirmations /\ told'.age = Window)
  <2>1. \A q \in Pids : ~Gone(q)
    BY <1>1 DEF Gone, Inv, TypeOK
  <2>2. NotFound(p) /\ Enough(Seen(mem[p]))
    BY <1>1, <2>1 DEF Next, Start, StrangerStarts, Killed, Locking, Create, Exists, WriteRow, Refused,
       Stale, Remove, RemoveLast, Release, ReleaseNothing, Unlink, outside, Working, proofVars,
       BootRetired, Boot, Mark, Returns, files, Answered, Welcomed, OtherError,
       NotFound, Persist, PersistFails, Throws, StrangerEnds, HubChanges, Tick, vars, Inv, TypeOK
  <2>3. told' = Seen(told)
    BY <2>2 DEF NotFound
  <2>4. SUFFICES ASSUME ~raced, ~forgot PROVE told'.count = Confirmations /\ told'.age = Window
    OBVIOUS
  <2>5. LE(mem[p], told) /\ mem[p] \in Evidence /\ told \in Evidence
    BY <1>1, <2>4 DEF Inv, EvidenceInv, MemTold, TypeOK
  <2>6. LE(Seen(mem[p]), Seen(told)) /\ Seen(told) \in Evidence /\ Seen(mem[p]) \in Evidence
    BY <2>5, SeenLE, SeenType
  <2> QED
    BY <2>2, <2>3, <2>6, InstanceAssumption DEF LE, Enough, Evidence
<1>2. Inv /\ Inv' /\ [Next]_vars =>
        [\A p \in Pids : tele[p] # "decided" /\ tele'[p] = "decided"
           => \/ raced \/ forgot
              \/ told'.count = Confirmations /\ told'.age = Window]_vars
  BY <1>1
<1> QED
  BY InstanceInvariant, <1>2, PTL DEF Spec, RetiredOnEvidence
=============================================================================
