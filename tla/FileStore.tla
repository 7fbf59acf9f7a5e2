------------------------------ MODULE FileStore ------------------------------
(***************************************************************************)
(* What the file mutation tools promise their callers, without queues,     *)
(* digests or temporary files: while no other program writes, a call takes *)
(* effect in one step, on the files as they are at that moment and only if *)
(* they are as the caller asked; it does so once, and never after it was   *)
(* answered or the process died; and the answer says whether it did.       *)
(* Creating a file takes two steps, and an append that fails may leave     *)
(* half of it.  FileMutation implements it.                                *)
(***************************************************************************)
CONSTANTS
    Ops,      \* the calls
    Paths,
    Absent,   \* what is at a path without a file
    Outsider  \* any other program

Content  == [by : SUBSET (Ops \cup {Outsider}), whole : BOOLEAN]
Requests == [kind : {"create", "replace", "append", "edit", "move", "delete"},
             path : Paths, dest : Paths,
             expected : Content \cup {Absent}, overwrite : BOOLEAN]

Whole(writers) == [by |-> writers, whole |-> TRUE]
Torn(writers)  == [by |-> writers, whole |-> FALSE]
With(c, o)     == [c EXCEPT !.by = @ \cup {o}]

VARIABLES
    file,      \* what is at each path
    req,       \* what each call asks for
    phase,     \* "new", "open" until it is answered or lost, "closed"
    outcome,   \* "none", "ok" once it has taken effect, "failed" if it never will
    disturbed  \* another program has written

vars == <<file, req, phase, outcome, disturbed>>

Init ==
    /\ file \in [Paths -> {Absent, Whole({})}]
    /\ req \in [Ops -> Requests]
    /\ phase = [o \in Ops |-> "new"]
    /\ outcome = [o \in Ops |-> "none"]
    /\ disturbed = FALSE

Arrives(o) ==
    /\ phase[o] = "new"
    /\ phase' = [phase EXCEPT ![o] = "open"]
    /\ req' \in [Ops -> Requests] /\ \A u \in Ops \ {o} : req'[u] = req[u]
    /\ UNCHANGED <<file, outcome, disturbed>>

Undecided(o) == phase[o] = "open" /\ outcome[o] = "none"

Path(o) == req[o].path
Now(o)  == file[Path(o)]

\* The files are as the caller asked.
Fits(o) ==
    /\ req[o].kind # "create" => Now(o) # Absent
    /\ req[o].expected # Absent => Now(o) = req[o].expected
    /\ req[o].kind = "move" /\ ~req[o].overwrite => file[req[o].dest] = Absent

Puts(o, c) == file' = [file EXCEPT ![Path(o)] = c]

\* An edit knows the file it has read.
Effect(o) ==
    CASE req[o].kind = "create"  -> /\ disturbed \/ Now(o) = Torn({o})
                                    /\ Puts(o, IF Now(o) = Torn({o}) THEN Whole({o}) ELSE Now(o))
      [] req[o].kind = "replace" -> Puts(o, Whole({o}))
      [] req[o].kind = "edit"    -> \E c \in Content : /\ disturbed \/ c = Now(o)
                                                       /\ Puts(o, With(c, o))
      [] req[o].kind = "append"  -> Puts(o, IF Now(o) = Absent THEN Whole({o})
                                            ELSE With(Now(o), o))
      [] req[o].kind = "move"    -> /\ Now(o) # Absent
                                    /\ file' = [file EXCEPT ![req[o].dest] = Now(o),
                                                            ![Path(o)] = Absent]
      [] req[o].kind = "delete"  -> Now(o) # Absent /\ Puts(o, Absent)

TakesEffect(o) ==
    /\ Undecided(o)
    /\ disturbed \/ Fits(o)
    /\ Effect(o)
    /\ outcome' = [outcome EXCEPT ![o] = "ok"]
    /\ UNCHANGED <<req, phase, disturbed>>

\* The empty file of a create.
Begins(o) ==
    /\ Undecided(o) /\ req[o].kind = "create" /\ Now(o) = Absent
    /\ Puts(o, Torn({o}))
    /\ UNCHANGED <<req, phase, outcome, disturbed>>

\* Half of an append.
Tears(o) ==
    /\ Undecided(o) /\ req[o].kind = "append" /\ Now(o) # Absent
    /\ Puts(o, [With(Now(o), o) EXCEPT !.whole = FALSE])
    /\ outcome' = [outcome EXCEPT ![o] = "failed"]
    /\ UNCHANGED <<req, phase, disturbed>>

Fails(o) ==
    /\ Undecided(o)
    /\ outcome' = [outcome EXCEPT ![o] = "failed"]
    /\ phase' = phase \/ phase' = [phase EXCEPT ![o] = "closed"]
    /\ UNCHANGED <<file, req, disturbed>>

\* The result is looked at once more: another program may have removed it.
Answers(o) ==
    /\ phase[o] = "open" /\ outcome[o] # "none"
    /\ phase' = [phase EXCEPT ![o] = "closed"]
    /\ outcome' = outcome \/ (disturbed /\ outcome' = [outcome EXCEPT ![o] = "failed"])
    /\ UNCHANGED <<file, req, disturbed>>

\* Open calls are lost.
Dies ==
    /\ phase' = [o \in Ops |-> IF phase[o] = "open" THEN "closed" ELSE phase[o]]
    /\ UNCHANGED <<file, req, outcome, disturbed>>

Disturbs ==
    /\ disturbed'
    /\ \E p \in Paths, c \in {Absent, Whole({Outsider})} : file' = [file EXCEPT ![p] = c]
    /\ UNCHANGED <<req, phase, outcome>>

Next ==
    \/ \E o \in Ops : Arrives(o) \/ TakesEffect(o) \/ Begins(o) \/ Tears(o) \/ Fails(o) \/ Answers(o)
    \/ Dies \/ Disturbs

Spec == Init /\ [][Next]_vars
=============================================================================
