---------------------------- MODULE FileMutation ----------------------------
(***************************************************************************)
(* The file mutation tools (src/src/filesystem/mutation-ops.mjs): how      *)
(* operations that arrive at the same time queue for the paths they name,  *)
(* what each checks before and after it has waited, and how it changes the *)
(* file: in place, by a temporary file and a rename, or by a rename.       *)
(*                                                                         *)
(* An operation is one call of a handler.  Contents are the set of writers *)
(* that contributed to them, so equal digests are equal contents and a     *)
(* lost update shows.  Other programs may write, the disk may refuse, the  *)
(* process may die.  Directories (directory_create, create_parents,        *)
(* recursive deletes), symbolic links and the authorisation of paths and   *)
(* policy are left out.                                                    *)
(***************************************************************************)
EXTENDS Naturals

CONSTANTS
    Ops,         \* the calls
    NoOp,        \* no call
    Paths,       \* normalised paths, in the order their names sort
    Absent,      \* what lstat finds where there is no file
    Outsider,    \* any program other than the agent
    MaxTroubles  \* bound: changes the outsider makes, writes and renames the
                 \* disk refuses, deaths of the process

Content == [by : SUBSET (Ops \cup {Outsider}), whole : BOOLEAN]

ASSUME MutationAssumption ==
    /\ NoOp \notin Ops
    /\ Outsider \notin Ops
    /\ Paths \subseteq Nat /\ Paths # {}
    /\ Absent \notin Content
    /\ MaxTroubles \in Nat

Kinds == {"create", "replace", "append", "edit", "move", "delete"}

\* expected: the contents of expected_sha256, Absent when it is not given.
\* dest is path unless the call moves a file.
Requests == [kind : Kinds, path : Paths, dest : Paths,
             expected : Content \cup {Absent}, overwrite : BOOLEAN]

\* "check": a move, before it queues. "ask" and "wait": in serialized.
\* "look", "read", "temp", "again", "commit", "fill": in its function.
Pc == {"new", "check", "ask", "wait", "look", "read", "temp", "again",
       "commit", "fill", "end", "answered", "lost"}

VARIABLES
    file,     \* what is at each path
    temp,     \* the temporary file of each call
    req,      \* the payload of each call
    pc,       \* where it is suspended
    outcome,  \* what its handler returns: "none", "ok" or "failed"
    seen,     \* `before` of fileEditMutation
    tail,     \* queues: the last call that asked for a path
    prior,    \* prior[o][p]: whom call o found there
    asked,    \* the paths a call asked for and has not released
    outside, faults, kills  \* how many of each trouble there were

queueVars == <<tail, prior, asked>>
bounds    == <<outside, faults, kills>>
vars      == <<file, temp, req, pc, outcome, seen, queueVars, bounds>>

Keys(o) == {req[o].path, req[o].dest}

\* One of the code's functions is past its turn for every path it names.
Inside(o) == pc[o] \in {"look", "read", "temp", "again", "commit", "fill", "end"}
UnderWay(o) == Inside(o) \/ pc[o] \in {"check", "ask", "wait"}

MoreTrouble == outside + faults + kills < MaxTroubles

Whole(writers) == [by |-> writers, whole |-> TRUE]
Torn(writers)  == [by |-> writers, whole |-> FALSE]
With(c, o)     == [c EXCEPT !.by = @ \cup {o}]

\* Of a call that has not arrived.
NoRequest == LET p == CHOOSE q \in Paths : TRUE IN
             [kind |-> "create", path |-> p, dest |-> p,
              expected |-> Absent, overwrite |-> FALSE]

Init ==
    /\ file \in [Paths -> {Absent, Whole({})}]
    /\ temp = [o \in Ops |-> Absent]
    /\ req = [o \in Ops |-> NoRequest]
    /\ pc = [o \in Ops |-> "new"]
    /\ outcome = [o \in Ops |-> "none"]
    /\ seen = [o \in Ops |-> Absent]
    /\ tail = [p \in Paths |-> NoOp]
    /\ prior = [o \in Ops |-> [p \in Paths |-> NoOp]]
    /\ asked = [o \in Ops |-> {}]
    /\ outside = 0 /\ faults = 0 /\ kills = 0

-----------------------------------------------------------------------------
(* Arrival and the queues.                                                 *)

\* A digest the caller sends is that of contents it has read.
Request(o, r) ==
    /\ pc[o] = "new"
    /\ r.dest = r.path <=> r.kind # "move"
    /\ r.overwrite => r.kind = "move"
    /\ r.expected # Absent =>
          r.kind \in {"replace", "append", "edit"} /\ r.expected = file[r.path]
    /\ req' = [req EXCEPT ![o] = r]
    /\ pc' = [pc EXCEPT ![o] = IF r.kind = "move" THEN "check" ELSE "ask"]
    /\ UNCHANGED <<file, temp, outcome, seen, queueVars, bounds>>

\* FILE_NOT_FOUND and DESTINATION_EXISTS.
MoveImpossible(o) ==
    \/ file[req[o].path] = Absent
    \/ file[req[o].dest] # Absent /\ ~req[o].overwrite

\* A move looks at both files before it queues; a call that fails here has
\* nothing to release.
Precheck(o) ==
    /\ pc[o] = "check"
    /\ IF MoveImpossible(o)
       THEN /\ pc' = [pc EXCEPT ![o] = "answered"]
            /\ outcome' = [outcome EXCEPT ![o] = "failed"]
       ELSE pc' = [pc EXCEPT ![o] = "ask"] /\ UNCHANGED outcome
    /\ UNCHANGED <<file, temp, req, seen, queueVars, bounds>>

\* Faulty variant: the paths are asked for in the order of the payload.
AskUnsorted(o) ==
    LET p == IF asked[o] = {} THEN req[o].path ELSE req[o].dest IN
    /\ pc[o] = "ask"
    /\ asked' = [asked EXCEPT ![o] = @ \cup {p}]
    /\ prior' = [prior EXCEPT ![o][p] = tail[p]]
    /\ tail' = [tail EXCEPT ![p] = o]
    /\ pc' = [pc EXCEPT ![o] = "wait"]
    /\ UNCHANGED <<file, temp, req, outcome, seen, bounds>>

\* serialized up to `await prior`, for the next path in order.
Ask(o) ==
    /\ pc[o] = "ask"
    /\ \E p \in Keys(o) \ asked[o] :
          /\ \A q \in Keys(o) \ asked[o] : p <= q
          /\ asked' = [asked EXCEPT ![o] = @ \cup {p}]
          /\ prior' = [prior EXCEPT ![o][p] = tail[p]]
          /\ tail' = [tail EXCEPT ![p] = o]
    /\ pc' = [pc EXCEPT ![o] = "wait"]
    /\ UNCHANGED <<file, temp, req, outcome, seen, bounds>>

\* The call before has released the path, or there was none.
Resolved(o, p) == prior[o][p] # NoOp => p \notin asked[prior[o][p]]

\* Faulty variant: the promise of the call before is not awaited.
TurnAtOnce(o) ==
    /\ pc[o] = "wait"
    /\ pc' = [pc EXCEPT ![o] = IF asked[o] = Keys(o) THEN "look" ELSE "ask"]
    /\ UNCHANGED <<file, temp, req, outcome, seen, queueVars, bounds>>

Turn(o) ==
    /\ pc[o] = "wait"
    /\ \A p \in asked[o] : Resolved(o, p)
    /\ pc' = [pc EXCEPT ![o] = IF asked[o] = Keys(o) THEN "look" ELSE "ask"]
    /\ UNCHANGED <<file, temp, req, outcome, seen, queueVars, bounds>>

Release(o) ==
    /\ tail' = [p \in Paths |->
                   IF p \in asked[o] /\ tail[p] = o THEN NoOp ELSE tail[p]]
    /\ asked' = [asked EXCEPT ![o] = {}]

\* After a write the digest of the result is read: a file that has gone
\* makes the call fail.
Finish(o) ==
    /\ pc[o] = "end"
    /\ Release(o)
    /\ pc' = [pc EXCEPT ![o] = "answered"]
    /\ outcome' =
          IF req[o].kind \in {"create", "replace", "append"} /\ file[req[o].path] = Absent
          THEN [outcome EXCEPT ![o] = "failed"] ELSE outcome
    /\ seen' = [seen EXCEPT ![o] = Absent]
    /\ prior' = [prior EXCEPT ![o] = [p \in Paths |-> NoOp]]
    /\ UNCHANGED <<file, temp, req, bounds>>

-----------------------------------------------------------------------------
(* The functions.                                                          *)

Goto(o, where) == pc' = [pc EXCEPT ![o] = where] /\ UNCHANGED outcome
Ends(o, how)   == /\ pc' = [pc EXCEPT ![o] = "end"]
                  /\ outcome' = [outcome EXCEPT ![o] = how]

\* FILE_SHA256_MISMATCH, or no file to compare.
Mismatch(o) ==
    LET now == file[req[o].path] IN
    now = Absent \/ (req[o].expected # Absent /\ now # req[o].expected)

AfterLook == [create |-> "commit", replace |-> "temp", append |-> "again",
              edit |-> "read", move |-> "commit", delete |-> "commit"]

Unfit(o) ==
    CASE req[o].kind = "create" -> file[req[o].path] # Absent
      [] req[o].kind = "move"   -> MoveImpossible(o)
      [] OTHER                  -> Mismatch(o)

\* Faulty variant: what was true before the call queued is not looked at again.
LookNotAgain(o) ==
    /\ pc[o] = "look"
    /\ IF req[o].kind # "move" /\ Unfit(o)
       THEN Ends(o, "failed") ELSE Goto(o, AfterLook[req[o].kind])
    /\ UNCHANGED <<file, temp, req, seen, queueVars, bounds>>

\* The first look at the file once it is the call's turn.
Look(o) ==
    /\ pc[o] = "look"
    /\ IF Unfit(o) THEN Ends(o, "failed") ELSE Goto(o, AfterLook[req[o].kind])
    /\ UNCHANGED <<file, temp, req, seen, queueVars, bounds>>

\* The block to replace is found once, or not.
Read(o) ==
    /\ pc[o] = "read"
    /\ \/ Ends(o, "failed")
       \/ file[req[o].path] # Absent /\ Goto(o, "temp")
    /\ seen' = [seen EXCEPT ![o] = file[req[o].path]]
    /\ UNCHANGED <<file, temp, req, queueVars, bounds>>

NewContent(o) == IF req[o].kind = "edit" THEN With(seen[o], o) ELSE Whole({o})

WriteTemp(o) ==
    /\ pc[o] = "temp"
    /\ temp' = [temp EXCEPT ![o] = NewContent(o)]
    /\ Goto(o, IF req[o].kind = "edit" THEN "commit" ELSE "again")
    /\ UNCHANGED <<file, req, seen, queueVars, bounds>>

\* Only fileWriteMutation removes the temporary file then.
WriteTempFails(o) ==
    /\ pc[o] = "temp"
    /\ MoreTrouble /\ faults' = faults + 1
    /\ temp' = [temp EXCEPT ![o] =
                   IF req[o].kind = "edit" THEN Torn({o}) ELSE Absent]
    /\ Ends(o, "failed")
    /\ UNCHANGED <<file, req, seen, queueVars, outside, kills>>

\* The digest is compared again; an append also looks for the file again.
Again(o) ==
    /\ pc[o] = "again"
    /\ IF Mismatch(o) /\ (req[o].expected # Absent \/ req[o].kind = "append")
       THEN Ends(o, "failed") /\ temp' = [temp EXCEPT ![o] = Absent]
       ELSE Goto(o, "commit") /\ UNCHANGED temp
    /\ UNCHANGED <<file, req, seen, queueVars, bounds>>

\* Faulty variant: without 'wx', an empty file takes the place of what is there.
CreateFileOver(o) ==
    /\ pc[o] = "commit" /\ req[o].kind = "create"
    /\ Goto(o, "fill")
    /\ file' = [file EXCEPT ![req[o].path] = Torn({o})]
    /\ UNCHANGED <<temp, req, seen, queueVars, bounds>>

\* writeFile with 'wx': an empty file first, or EEXIST.
CreateFile(o) ==
    /\ pc[o] = "commit" /\ req[o].kind = "create"
    /\ IF file[req[o].path] # Absent
       THEN Ends(o, "failed") /\ UNCHANGED file
       ELSE /\ Goto(o, "fill")
            /\ file' = [file EXCEPT ![req[o].path] = Torn({o})]
    /\ UNCHANGED <<temp, req, seen, queueVars, bounds>>

FillFile(o) ==
    /\ pc[o] = "fill"
    /\ file' = [file EXCEPT ![req[o].path] = IF @ = Torn({o}) THEN Whole({o}) ELSE @]
    /\ Ends(o, "ok")
    /\ UNCHANGED <<temp, req, seen, queueVars, bounds>>

\* appendFile creates a file that has gone.
AppendFile(o) ==
    /\ pc[o] = "commit" /\ req[o].kind = "append"
    /\ file' = [file EXCEPT ![req[o].path] =
                   IF @ = Absent THEN Whole({o}) ELSE With(@, o)]
    /\ Ends(o, "ok")
    /\ UNCHANGED <<temp, req, seen, queueVars, bounds>>

\* Faulty variant: the new contents are written over the old ones.
RenameTempInPlace(o) ==
    /\ pc[o] = "commit" /\ req[o].kind \in {"replace", "edit"}
    /\ file' = [file EXCEPT ![req[o].path] = Torn({o})]
    /\ temp' = [temp EXCEPT ![o] = Absent]
    /\ Goto(o, "fill")
    /\ UNCHANGED <<req, seen, queueVars, bounds>>

RenameTemp(o) ==
    /\ pc[o] = "commit" /\ req[o].kind \in {"replace", "edit"}
    /\ file' = [file EXCEPT ![req[o].path] = temp[o]]
    /\ temp' = [temp EXCEPT ![o] = Absent]
    /\ Ends(o, "ok")
    /\ UNCHANGED <<req, seen, queueVars, bounds>>

MoveFile(o) ==
    /\ pc[o] = "commit" /\ req[o].kind = "move"
    /\ IF file[req[o].path] = Absent
       THEN Ends(o, "failed") /\ UNCHANGED file
       ELSE /\ Ends(o, "ok")
            /\ file' = [file EXCEPT ![req[o].dest] = file[req[o].path],
                                    ![req[o].path] = Absent]
    /\ UNCHANGED <<temp, req, seen, queueVars, bounds>>

DeleteFile(o) ==
    /\ pc[o] = "commit" /\ req[o].kind = "delete"
    /\ Ends(o, IF file[req[o].path] = Absent THEN "failed" ELSE "ok")
    /\ file' = [file EXCEPT ![req[o].path] = Absent]
    /\ UNCHANGED <<temp, req, seen, queueVars, bounds>>

\* The disk refuses the last step: a rename or an unlink changes nothing and
\* the temporary file goes, a write in place may stop half way.
CommitFails(o) ==
    /\ pc[o] \in {"commit", "fill"}
    /\ MoreTrouble /\ faults' = faults + 1
    /\ temp' = [temp EXCEPT ![o] = Absent]
    /\ IF pc[o] = "commit" /\ req[o].kind = "append" /\ file[req[o].path] # Absent
       THEN file' = [file EXCEPT ![req[o].path] = [With(@, o) EXCEPT !.whole = FALSE]]
       ELSE UNCHANGED file
    /\ Ends(o, "failed")
    /\ UNCHANGED <<req, seen, queueVars, outside, kills>>

-----------------------------------------------------------------------------
(* Everything else.                                                        *)

\* Another program replaces or removes a file.
OutsideChange(p) ==
    /\ MoreTrouble /\ outside' = outside + 1
    /\ \E c \in {Absent, Whole({Outsider})} : file' = [file EXCEPT ![p] = c]
    /\ UNCHANGED <<temp, req, pc, outcome, seen, queueVars, faults, kills>>

\* The process dies; the queues start empty.
Kill ==
    /\ MoreTrouble /\ kills' = kills + 1
    /\ pc' = [o \in Ops |-> IF UnderWay(o) THEN "lost" ELSE pc[o]]
    /\ tail' = [p \in Paths |-> NoOp]
    /\ asked' = [o \in Ops |-> {}]
    /\ UNCHANGED <<file, temp, req, outcome, seen, prior, outside, faults>>

Queue(o)  == Precheck(o) \/ Ask(o) \/ Turn(o) \/ Finish(o)
Check(o)  == Look(o) \/ Read(o) \/ WriteTemp(o) \/ Again(o)
Commit(o) == CreateFile(o) \/ FillFile(o) \/ AppendFile(o) \/ RenameTemp(o)
             \/ MoveFile(o) \/ DeleteFile(o)
Fault(o)  == WriteTempFails(o) \/ CommitFails(o)

Next ==
    \/ \E o \in Ops :
          \/ \E k \in Kinds, p, q \in Paths, over \in BOOLEAN :
                \E c \in {file[p], Absent} :
                   Request(o, [kind |-> k, path |-> p, dest |-> q,
                               expected |-> c, overwrite |-> over])
          \/ Queue(o) \/ Check(o) \/ Commit(o) \/ Fault(o)
    \/ \E p \in Paths : OutsideChange(p)
    \/ Kill

Spec == Init /\ [][Next]_vars

\* The event loop goes on with a call once what it awaits is there.
Fairness == \A o \in Ops : WF_vars(Queue(o) \/ Check(o) \/ Commit(o))

FairSpec == Spec /\ Fairness

-----------------------------------------------------------------------------
(* Properties.                                                             *)

\* Every variable has its type.
TypeOK ==
    /\ file \in [Paths -> Content \cup {Absent}]
    /\ temp \in [Ops -> Content \cup {Absent}]
    /\ req \in [Ops -> Requests]
    /\ pc \in [Ops -> Pc]
    /\ outcome \in [Ops -> {"none", "ok", "failed"}]
    /\ seen \in [Ops -> Content \cup {Absent}]
    /\ tail \in [Paths -> Ops \cup {NoOp}]
    /\ prior \in [Ops -> [Paths -> Ops \cup {NoOp}]]
    /\ asked \in [Ops -> SUBSET Paths]
    /\ outside \in Nat
    /\ faults \in Nat
    /\ kills \in Nat

\* Two calls that name the same path are never both past its queue, however
\* many wait, come and go (mutation-ops.mjs:230-245).
OneAtATime ==
    \A o, u \in Ops :
        o # u /\ Inside(o) /\ Inside(u) => Keys(o) \cap Keys(u) = {}

\* Every call is answered, moves in opposite directions included: paths are
\* asked for in one order (mutation-ops.mjs:248-258).
EveryCallAnswered ==
    \A o \in Ops : UnderWay(o) ~> pc[o] \in {"answered", "lost"}

\* While no other program writes, the agent's own calls never undo one
\* another: an edit or an append adds to what is there, contents that were
\* expected are what is replaced, a move without overwrite finds no file
\* (mutation-ops.mjs:311-347, 449-458, 647-661).
ActsOnWhatItChecked ==
    [][\A o \in Ops :
          LET p == req[o].path IN
          outside = 0 /\ pc[o] = "commit" /\ outcome'[o] = "ok" =>
             /\ req[o].kind \in {"edit", "append"} => file'[p] = With(file[p], o)
             /\ req[o].expected # Absent => file[p] = req[o].expected
             /\ req[o].kind = "move" /\ ~req[o].overwrite => file[req[o].dest] = Absent]_vars

\* A file that was whole before a replace or an edit is whole at every
\* moment of it, through failed writes and the death of the process: only
\* create and append write in place (mutation-ops.mjs:340-347, 659-661).
NoHalfReplacement ==
    \A p \in Paths :
        file[p] # Absent /\ ~file[p].whole =>
            \E o \in file[p].by \cap Ops : req[o].kind \in {"create", "append"}

Phase == [o \in Ops |-> CASE pc[o] = "new" -> "new"
                           [] UnderWay(o)  -> "open"
                           [] OTHER        -> "closed"]

\* Queues, checks and temporary files make each call one step on the files, as
\* FileStore promises: at most one, on what the call was asked about, none after
\* the answer or the death of the process, and the answer is true
\* (mutation-ops.mjs:230-258, 311-364, 411-460, 630-672).
Store == INSTANCE FileStore WITH phase <- Phase, disturbed <- outside # 0
OneEffect == Store!Spec
=============================================================================
