------------------------ MODULE FileMutation_proofs ------------------------
(***************************************************************************)
(* Two calls never work on the same path at the same time, for any number  *)
(* of calls and paths (FileMutation).  TLC runs two calls; the release of  *)
(* a path by one of three or more is what this module is about.            *)
(*                                                                         *)
(* The calls that have asked for a path stand in one line: each knows the  *)
(* call before it, and the queue knows the last.  A call whose prior has   *)
(* released is at the head.  Why there is only one head, and why the last  *)
(* is removed only when the line is empty, is a fact about the whole line. *)
(* Since a call asks for its paths in order, some call can always go on    *)
(* (Sorted).                                                               *)
(*                                                                         *)
(* On it rests what the calls do to the contents: what a call has found at *)
(* its paths stays as it was until the call changes it (StillTrue), since  *)
(* those inside with it work on other paths, and what is torn is the work  *)
(* of a create or an append (Whence).                                      *)
(*                                                                         *)
(* From both follows that a call is one step of FileStore (OneEffectHolds) *)
(* once it is known that the file it changes is there and that what it     *)
(* writes was made for it (Ready).                                         *)
(***************************************************************************)
EXTENDS FileMutation, FiniteSetTheorems, TLAPS

\* The calls in the line of a path.
InLine(p) == {o \in Ops : p \in asked[o]}

QueueType ==
    /\ tail \in [Paths -> Ops \cup {NoOp}]
    /\ prior \in [Ops -> [Paths -> Ops \cup {NoOp}]]
    /\ asked \in [Ops -> SUBSET Paths]
    /\ pc \in [Ops -> Pc]
    /\ DOMAIN req = Ops
    /\ \A o \in Ops : req[o].path \in Paths /\ req[o].dest \in Paths /\ req[o].kind \in Kinds

\* The last of a line is the tail, and there is a tail if there is a line.
TailInLine(p) == /\ tail[p] # NoOp => tail[p] \in InLine(p)
                 /\ InLine(p) # {} => tail[p] # NoOp

\* Nobody stands behind the tail, and no two behind the same call.
OneBehind(p) ==
    /\ \A o \in InLine(p) : prior[o][p] # tail[p]
    /\ \A o, u \in InLine(p) :
          prior[o][p] = prior[u][p] /\ prior[o][p] \in InLine(p) => o = u

\* No two calls are at the head.
OneHead(p) ==
    \A o, u \in InLine(p) :
        prior[o][p] \notin InLine(p) /\ prior[u][p] \notin InLine(p) => o = u

\* The line has no ring in it.
NoRing(p) ==
    \A S \in SUBSET InLine(p) : S # {} => \E o \in S : prior[o][p] \notin S

\* A call that has left the line does not come back.
LeftForGood(p) ==
    \A o \in InLine(p) :
        prior[o][p] \in Ops \ InLine(p) => pc[prior[o][p]] = "answered"

Line(p) == TailInLine(p) /\ OneBehind(p) /\ OneHead(p) /\ NoRing(p) /\ LeftForGood(p)

\* A call in its function has the turn for every path it names.
HasTurn == \A o \in Ops : Inside(o) =>
              /\ asked[o] = Keys(o)
              /\ \A p \in asked[o] : prior[o][p] \notin InLine(p)

Inv == QueueType /\ (\A p \in Paths : Line(p)) /\ HasTurn

\* A tail that is at the head is alone.
LEMMA LastIsAlone ==
    ASSUME NEW p \in Paths, Line(p), NEW o \in InLine(p), tail[p] = o,
           prior[o][p] \notin InLine(p)
    PROVE  InLine(p) = {o}
<1> SUFFICES ASSUME InLine(p) \ {o} # {} PROVE FALSE
  OBVIOUS
<1>1. PICK u \in InLine(p) \ {o} : prior[u][p] \notin InLine(p) \ {o}
  BY DEF Line, NoRing
<1>2. prior[u][p] # o
  BY DEF Line, OneBehind
<1>3. u = o
  BY <1>1, <1>2 DEF Line, OneHead
<1> QED
  BY <1>3

LEMMA ResolvedIsHead ==
    ASSUME QueueType, NEW o \in Ops, NEW p \in Paths
    PROVE  Resolved(o, p) <=> prior[o][p] \notin InLine(p)
BY MutationAssumption DEF QueueType, Resolved, InLine

LEMMA InitInv == Init => Inv
<1> SUFFICES ASSUME Init PROVE Inv
  OBVIOUS
<1>0. PICK q \in Paths : NoRequest = [kind |-> "create", path |-> q, dest |-> q,
                                      expected |-> Absent, overwrite |-> FALSE]
  BY MutationAssumption DEF NoRequest
<1>1. QueueType
  BY <1>0 DEF Init, QueueType, Pc, Kinds
<1>2. \A p \in Paths : InLine(p) = {} /\ tail[p] = NoOp
  BY DEF Init, InLine
<1>3. \A p \in Paths : Line(p)
  BY <1>2 DEF Line, TailInLine, OneBehind, OneHead, NoRing, LeftForGood
<1>4. HasTurn
  BY DEF HasTurn, Init, Inside
<1> QED
  BY <1>1, <1>3, <1>4 DEF Inv

(***************************************************************************)
(* Steps that leave the queues alone.                                      *)
(***************************************************************************)
LEMMA QueuesAlone ==
    ASSUME Inv, UNCHANGED queueVars, QueueType',
           \A o \in Ops : Inside(o)' => Inside(o) /\ Keys(o)' = Keys(o),
           \A o \in Ops : pc[o] = "answered" => pc'[o] = "answered"
    PROVE  Inv'
<1>1. \A p \in Paths : InLine(p)' = InLine(p) /\ tail'[p] = tail[p]
  BY DEF InLine, queueVars
<1>2. prior' = prior /\ asked' = asked /\ tail' = tail
  BY DEF queueVars
<1>3. ASSUME NEW p \in Paths PROVE Line(p)'
  <2>1. Line(p)
    BY DEF Inv
  <2>2. TailInLine(p)' /\ OneBehind(p)' /\ OneHead(p)' /\ NoRing(p)'
    BY <2>1, <1>1, <1>2 DEF Line, TailInLine, OneBehind, OneHead, NoRing
  <2>3. LeftForGood(p)'
    BY <2>1, <1>1, <1>2 DEF Line, LeftForGood
  <2> QED
    BY <2>2, <2>3 DEF Line
<1>4. HasTurn'
  <2> SUFFICES ASSUME NEW o \in Ops, Inside(o)'
               PROVE  asked'[o] = Keys(o)' /\ \A p \in asked'[o] : prior'[o][p] \notin InLine(p)'
    BY DEF HasTurn
  <2>1. asked[o] = Keys(o) /\ \A p \in asked[o] : prior[o][p] \notin InLine(p)
    BY DEF Inv, HasTurn
  <2>2. asked[o] \subseteq Paths
    BY DEF Inv, QueueType
  <2> QED
    BY <2>1, <2>2, <1>1, <1>2
<1> QED
  BY <1>3, <1>4 DEF Inv

(***************************************************************************)
(* Joining a line.                                                         *)
(***************************************************************************)
LEMMA AskKeepsInv == ASSUME Inv, NEW o \in Ops, Ask(o) PROVE Inv'
<1>1. PICK k \in Keys(o) \ asked[o] :
        /\ asked' = [asked EXCEPT ![o] = @ \cup {k}]
        /\ prior' = [prior EXCEPT ![o][k] = tail[k]]
        /\ tail' = [tail EXCEPT ![k] = o]
  BY DEF Ask
<1>2. k \in Paths
  BY DEF Inv, QueueType, Keys
<1>3. pc[o] = "ask" /\ pc' = [pc EXCEPT ![o] = "wait"] /\ req' = req
  BY DEF Ask
<1>t. QueueType'
  BY <1>1, <1>2, <1>3 DEF Inv, QueueType, Pc
<1>4. /\ tail'[k] = o /\ prior'[o][k] = tail[k]
      /\ \A p \in Paths : p # k => tail'[p] = tail[p]
      /\ \A u \in Ops, p \in Paths : u # o \/ p # k => prior'[u][p] = prior[u][p]
  BY <1>1, <1>2 DEF Inv, QueueType
<1>5. /\ InLine(k)' = InLine(k) \cup {o} /\ o \notin InLine(k)
      /\ \A p \in Paths : p # k => InLine(p)' = InLine(p)
  BY <1>1, <1>2 DEF Inv, QueueType, InLine
<1>6. \A u \in Ops : pc[u] = "answered" => pc'[u] = "answered"
  BY <1>3 DEF Inv, QueueType
<1>7. ASSUME NEW p \in Paths, p # k PROVE Line(p)'
  <2>1. Line(p) /\ InLine(p)' = InLine(p) /\ tail'[p] = tail[p]
    BY <1>7, <1>4, <1>5 DEF Inv
  <2>2. \A u \in Ops : prior'[u][p] = prior[u][p]
    BY <1>7, <1>4
  <2>3. TailInLine(p)' /\ OneBehind(p)' /\ OneHead(p)'
    BY <2>1, <2>2 DEF Line, TailInLine, OneBehind, OneHead, InLine
  <2>4. NoRing(p)'
    <3> SUFFICES ASSUME NEW S \in SUBSET InLine(p)', S # {}
                 PROVE  \E u \in S : prior'[u][p] \notin S
      BY DEF NoRing
    <3>1. PICK u \in S : prior[u][p] \notin S
      BY <2>1 DEF Line, NoRing
    <3>2. u \in Ops
      BY DEF InLine
    <3> QED
      BY <3>1, <3>2, <2>2
  <2>5. LeftForGood(p)'
    BY <2>1, <2>2, <1>6 DEF Line, LeftForGood, InLine
  <2> QED
    BY <2>3, <2>4, <2>5 DEF Line
<1>8. Line(k)
  BY <1>2 DEF Inv
<1>9. \A u \in InLine(k) : u \in Ops /\ u # o /\ prior'[u][k] = prior[u][k]
  BY <1>2, <1>4, <1>5 DEF InLine
<1>10. \A u \in InLine(k) : prior[u][k] # o
  BY <1>3, <1>5, <1>8 DEF Line, LeftForGood
<1>11. tail[k] # o /\ (tail[k] = NoOp <=> InLine(k) = {})
  BY <1>5, <1>8, MutationAssumption DEF Line, TailInLine
<1>12. TailInLine(k)'
  BY <1>4, <1>5, MutationAssumption DEF TailInLine
<1>13. OneBehind(k)'
  BY <1>4, <1>5, <1>8, <1>9, <1>10, <1>11 DEF Line, OneBehind
<1>14. OneHead(k)'
  <2>1. CASE InLine(k) = {}
    BY <2>1, <1>5 DEF OneHead
  <2>2. CASE InLine(k) # {}
    <3>1. tail[k] \in InLine(k)
      BY <2>2, <1>8 DEF Line, TailInLine
    <3>2. prior'[o][k] \in InLine(k)'
      BY <3>1, <1>4, <1>5
    <3>3. \A u \in InLine(k) : prior'[u][k] \notin InLine(k)' => prior[u][k] \notin InLine(k)
      BY <1>5, <1>9
    <3> QED
      BY <3>2, <3>3, <1>5, <1>8 DEF Line, OneHead
  <2> QED
    BY <2>1, <2>2
<1>15. NoRing(k)'
  <2> SUFFICES ASSUME NEW S \in SUBSET InLine(k)', S # {}
               PROVE  \E u \in S : prior'[u][k] \notin S
    BY DEF NoRing
  <2>1. CASE S \ {o} = {}
    <3>1. S = {o}
      BY <2>1
    <3> QED
      BY <3>1, <1>4, <1>11
  <2>2. CASE S \ {o} # {}
    <3>1. S \ {o} \in SUBSET InLine(k)
      BY <1>5
    <3>2. PICK u \in S \ {o} : prior[u][k] \notin S \ {o}
      BY <2>2, <3>1, <1>8 DEF Line, NoRing
    <3> QED
      BY <3>1, <3>2, <1>9, <1>10
  <2> QED
    BY <2>1, <2>2
<1>16. LeftForGood(k)'
  <2>1. \A u \in InLine(k) : prior'[u][k] \in Ops \ InLine(k)'
                               => pc'[prior'[u][k]] = "answered"
    BY <1>5, <1>6, <1>8, <1>9 DEF Line, LeftForGood
  <2>2. prior'[o][k] \in Ops \ InLine(k)' => FALSE
    BY <1>4, <1>5, <1>8, MutationAssumption DEF Line, TailInLine
  <2> QED
    BY <2>1, <2>2, <1>5 DEF LeftForGood
<1>17. HasTurn'
  <2> SUFFICES ASSUME NEW u \in Ops, Inside(u)'
               PROVE  asked'[u] = Keys(u)' /\ \A p \in asked'[u] : prior'[u][p] \notin InLine(p)'
    BY DEF HasTurn
  <2>1. u # o /\ Inside(u) /\ Keys(u)' = Keys(u)
    BY <1>3 DEF Inv, QueueType, Inside, Keys
  <2>2. /\ asked[u] = Keys(u) /\ asked'[u] = asked[u]
        /\ \A p \in asked[u] : p \in Paths /\ prior[u][p] \notin InLine(p)
    BY <2>1, <1>1 DEF Inv, QueueType, HasTurn
  <2>3. ASSUME NEW p \in asked[u] PROVE prior'[u][p] \notin InLine(p)'
    <3>1. p \in Paths /\ u \in InLine(p) /\ prior'[u][p] = prior[u][p]
      BY <2>1, <2>2, <1>4 DEF InLine
    <3> QED
      BY <3>1, <2>2, <1>5, <1>10
  <2> QED
    BY <2>1, <2>2, <2>3
<1> QED
  BY <1>t, <1>7, <1>12, <1>13, <1>14, <1>15, <1>16, <1>17 DEF Inv, Line

(***************************************************************************)
(* Leaving it.                                                             *)
(***************************************************************************)
LEMMA FinishKeepsInv == ASSUME Inv, NEW o \in Ops, Finish(o) PROVE Inv'
<1>1. /\ pc[o] = "end" /\ pc' = [pc EXCEPT ![o] = "answered"] /\ req' = req
      /\ tail' = [p \in Paths |-> IF p \in asked[o] /\ tail[p] = o THEN NoOp ELSE tail[p]]
      /\ asked' = [asked EXCEPT ![o] = {}]
      /\ prior' = [prior EXCEPT ![o] = [p \in Paths |-> NoOp]]
  BY DEF Finish, Release
<1>t. QueueType'
  BY <1>1 DEF Inv, QueueType, Pc
<1>2. \A p \in asked[o] : prior[o][p] \notin InLine(p)
  BY <1>1 DEF Inv, HasTurn, Inside
<1>3. \A u \in Ops : (pc[u] = "answered" => pc'[u] = "answered") /\ pc'[o] = "answered"
  BY <1>1 DEF Inv, QueueType
<1>4. ASSUME NEW p \in Paths PROVE Line(p)'
  <2>1. Line(p) /\ InLine(p)' = InLine(p) \ {o}
    BY <1>1 DEF Inv, QueueType, InLine
  <2>2. \A u \in InLine(p)' : u \in Ops /\ u # o /\ u \in InLine(p) /\ prior'[u][p] = prior[u][p]
    BY <1>1, <2>1 DEF Inv, QueueType, InLine
  <2>3. o \in InLine(p) => prior[o][p] \notin InLine(p)
    BY <1>2 DEF InLine
  <2>4. TailInLine(p)'
    <3>1. CASE tail[p] = o
      <4>1. o \in InLine(p)
        BY <3>1, <2>1, MutationAssumption DEF Line, TailInLine
      <4>2. InLine(p) = {o}
        BY <4>1, <3>1, <2>1, <2>3, LastIsAlone
      <4>3. tail'[p] = NoOp
        BY <4>1, <3>1, <1>1 DEF InLine
      <4> QED
        BY <4>2, <4>3, <2>1 DEF TailInLine
    <3>2. CASE tail[p] # o
      <4>1. tail'[p] = tail[p]
        BY <3>2, <1>1
      <4> QED
        BY <4>1, <3>2, <2>1 DEF Line, TailInLine
    <3> QED
      BY <3>1, <3>2
  <2>5. OneBehind(p)'
    <3>1. CASE InLine(p)' = {}
      BY <3>1 DEF OneBehind
    <3>2. CASE InLine(p)' # {}
      <4>1. tail'[p] = tail[p]
        BY <3>2, <2>4, <1>1 DEF TailInLine
      <4> QED
        BY <4>1, <2>1, <2>2 DEF Line, OneBehind
    <3> QED
      BY <3>1, <3>2
  <2>6. OneHead(p)'
    <3> SUFFICES ASSUME NEW u \in InLine(p)', NEW v \in InLine(p)',
                        prior'[u][p] \notin InLine(p)', prior'[v][p] \notin InLine(p)'
                 PROVE  u = v
      BY DEF OneHead
    <3>1. CASE o \in InLine(p)
      <4>1. prior[u][p] \in InLine(p) /\ prior[v][p] \in InLine(p)
        BY <3>1, <2>1, <2>2, <2>3 DEF Line, OneHead
      <4>2. prior[u][p] = o /\ prior[v][p] = o
        BY <4>1, <2>1, <2>2
      <4> QED
        BY <4>2, <3>1, <2>1, <2>2 DEF Line, OneBehind
    <3>2. CASE o \notin InLine(p)
      BY <3>2, <2>1, <2>2 DEF Line, OneHead
    <3> QED
      BY <3>1, <3>2
  <2>7. NoRing(p)'
    <3> SUFFICES ASSUME NEW S \in SUBSET InLine(p)', S # {}
                 PROVE  \E u \in S : prior'[u][p] \notin S
      BY DEF NoRing
    <3>1. PICK u \in S : prior[u][p] \notin S
      BY <2>1 DEF Line, NoRing
    <3> QED
      BY <3>1, <2>2
  <2>8. LeftForGood(p)'
    BY <2>1, <2>2, <1>3 DEF Line, LeftForGood
  <2> QED
    BY <2>4, <2>5, <2>6, <2>7, <2>8 DEF Line
<1>5. HasTurn'
  <2> SUFFICES ASSUME NEW u \in Ops, Inside(u)'
               PROVE  asked'[u] = Keys(u)' /\ \A p \in asked'[u] : prior'[u][p] \notin InLine(p)'
    BY DEF HasTurn
  <2>1. u # o /\ Inside(u) /\ Keys(u)' = Keys(u)
    BY <1>1 DEF Inv, QueueType, Inside, Keys
  <2>2. /\ asked[u] = Keys(u) /\ asked'[u] = asked[u] /\ prior'[u] = prior[u]
        /\ \A p \in asked[u] : p \in Paths /\ prior[u][p] \notin InLine(p)
    BY <2>1, <1>1 DEF Inv, QueueType, HasTurn
  <2>3. \A p \in Paths : InLine(p)' \subseteq InLine(p)
    BY <1>1 DEF Inv, QueueType, InLine
  <2> QED
    BY <2>1, <2>2, <2>3
<1> QED
  BY <1>t, <1>4, <1>5 DEF Inv

(***************************************************************************)
(* All steps.                                                              *)
(***************************************************************************)
LEMMA TurnKeepsInv == ASSUME Inv, NEW o \in Ops, Turn(o) PROVE Inv'
<1>1. /\ pc[o] = "wait" /\ UNCHANGED queueVars /\ req' = req
      /\ pc' = [pc EXCEPT ![o] = IF asked[o] = Keys(o) THEN "look" ELSE "ask"]
      /\ \A p \in asked[o] : Resolved(o, p)
  BY DEF Turn
<1>t. QueueType'
  BY <1>1 DEF Inv, QueueType, queueVars, Pc
<1>2. CASE asked[o] # Keys(o)
  BY <1>1, <1>2, <1>t, QueuesAlone DEF Inv, QueueType, Inside, Keys
<1>3. CASE asked[o] = Keys(o)
  <2>1. \A p \in asked[o] : p \in Paths /\ prior[o][p] \notin InLine(p)
    BY <1>1, ResolvedIsHead DEF Inv, QueueType
  <2>2. \A p \in Paths : InLine(p)' = InLine(p)
    BY <1>1 DEF InLine, queueVars
  <2>3. HasTurn'
    <3> SUFFICES ASSUME NEW u \in Ops, Inside(u)'
                 PROVE  asked'[u] = Keys(u)' /\ \A p \in asked'[u] : prior'[u][p] \notin InLine(p)'
      BY DEF HasTurn
    <3>1. Keys(u)' = Keys(u) /\ asked' = asked /\ prior' = prior /\ asked[u] \subseteq Paths
      BY <1>1 DEF Keys, queueVars, Inv, QueueType
    <3>2. u = o \/ Inside(u)
      BY <1>1 DEF Inv, QueueType, Inside
    <3>3. asked[u] = Keys(u) /\ \A p \in asked[u] : prior[u][p] \notin InLine(p)
      BY <3>2, <2>1, <1>3 DEF Inv, HasTurn
    <3> QED
      BY <3>1, <3>3, <2>2
  <2>4. \A p \in Paths : Line(p)'
    <3> SUFFICES ASSUME NEW p \in Paths PROVE Line(p)'
      OBVIOUS
    <3>1. Line(p) /\ InLine(p)' = InLine(p) /\ tail' = tail /\ prior' = prior
      BY <1>1, <2>2 DEF Inv, queueVars
    <3>2. \A u \in Ops : pc[u] = "answered" => pc'[u] = "answered"
      BY <1>1 DEF Inv, QueueType
    <3>3. TailInLine(p)' /\ OneBehind(p)' /\ OneHead(p)' /\ NoRing(p)'
      BY <3>1 DEF Line, TailInLine, OneBehind, OneHead, NoRing
    <3>4. LeftForGood(p)'
      BY <3>1, <3>2 DEF Line, LeftForGood
    <3> QED
      BY <3>3, <3>4 DEF Line
  <2> QED
    BY <1>t, <2>3, <2>4 DEF Inv
<1> QED
  BY <1>2, <1>3

LEMMA KillKeepsInv == ASSUME Inv, Kill PROVE Inv'
<1>1. /\ pc' = [o \in Ops |-> IF UnderWay(o) THEN "lost" ELSE pc[o]]
      /\ tail' = [p \in Paths |-> NoOp] /\ asked' = [o \in Ops |-> {}]
      /\ prior' = prior /\ req' = req
  BY DEF Kill
<1>2. QueueType'
  BY <1>1 DEF Inv, QueueType, Pc
<1>3. \A p \in Paths : InLine(p)' = {} /\ tail'[p] = NoOp
  BY <1>1 DEF InLine
<1>4. \A p \in Paths : Line(p)'
  BY <1>3 DEF Line, TailInLine, OneBehind, OneHead, NoRing, LeftForGood
<1>5. HasTurn'
  BY <1>1 DEF HasTurn, Inside, UnderWay
<1> QED
  BY <1>2, <1>4, <1>5 DEF Inv

\* A function of the code goes on: the call stays where no queue is touched.
LEMMA WorkKeepsInv ==
    ASSUME Inv, NEW o \in Ops, Inside(o), UNCHANGED <<queueVars, req>>,
           NEW where \in Pc, pc' = [pc EXCEPT ![o] = where]
    PROVE  Inv'
<1>1. QueueType'
  BY DEF Inv, QueueType, queueVars
<1>2. \A u \in Ops : Inside(u)' => Inside(u) /\ Keys(u)' = Keys(u)
  BY DEF Inv, QueueType, Inside, Keys
<1>3. \A u \in Ops : pc[u] = "answered" => pc'[u] = "answered"
  BY DEF Inv, QueueType, Inside
<1>4. UNCHANGED queueVars
  OBVIOUS
<1> QED
  BY <1>1, <1>2, <1>3, <1>4, QueuesAlone

LEMMA StepKeepsInv == Inv /\ [Next]_vars => Inv'
<1> SUFFICES ASSUME Inv, [Next]_vars PROVE Inv'
  OBVIOUS
<1>1. ASSUME NEW o \in Ops, NEW k \in Kinds, NEW p \in Paths, NEW q \in Paths,
             NEW over \in BOOLEAN, NEW c \in {file[p], Absent},
             Request(o, [kind |-> k, path |-> p, dest |-> q, expected |-> c, overwrite |-> over])
      PROVE  Inv'
  <2>1. /\ pc[o] = "new" /\ UNCHANGED queueVars
        /\ req' = [req EXCEPT ![o] = [kind |-> k, path |-> p, dest |-> q,
                                      expected |-> c, overwrite |-> over]]
        /\ pc' = [pc EXCEPT ![o] = IF k = "move" THEN "check" ELSE "ask"]
    BY <1>1 DEF Request
  <2>2. QueueType'
    BY <2>1 DEF Inv, QueueType, queueVars, Pc
  <2> QED
    BY <2>1, <2>2, QueuesAlone DEF Inv, QueueType, Inside, Keys
<1>2. ASSUME NEW o \in Ops, Precheck(o) PROVE Inv'
  <2>1. /\ pc[o] = "check" /\ UNCHANGED queueVars /\ req' = req
        /\ \/ pc' = [pc EXCEPT ![o] = "answered"]
           \/ pc' = [pc EXCEPT ![o] = "ask"]
    BY <1>2 DEF Precheck
  <2>2. QueueType'
    BY <2>1 DEF Inv, QueueType, queueVars, Pc
  <2> QED
    BY <2>1, <2>2, QueuesAlone DEF Inv, QueueType, Inside, Keys
<1>3. ASSUME NEW o \in Ops, Ask(o) \/ Turn(o) \/ Finish(o) PROVE Inv'
  BY <1>3, AskKeepsInv, TurnKeepsInv, FinishKeepsInv
<1>4. ASSUME NEW o \in Ops, Check(o) PROVE Inv'
  <2>1. Inside(o) /\ UNCHANGED <<queueVars, req>>
    BY <1>4 DEF Check, Look, Read, WriteTemp, Again, Inside
  <2>2. \A k \in Kinds : AfterLook[k] \in Pc
    BY DEF AfterLook, Kinds, Pc
  <2>3. \E where \in {"end", "temp", "commit", "again", "read", AfterLook[req[o].kind]} :
           pc' = [pc EXCEPT ![o] = where]
    BY <1>4 DEF Check, Look, Read, WriteTemp, Again, Ends, Goto
  <2>4. PICK where \in Pc : pc' = [pc EXCEPT ![o] = where]
    BY <2>2, <2>3 DEF Inv, QueueType, Pc
  <2> QED
    BY <2>1, <2>4, WorkKeepsInv
<1>5. ASSUME NEW o \in Ops, Commit(o) \/ Fault(o) PROVE Inv'
  <2>1. Inside(o) /\ UNCHANGED <<queueVars, req>>
    BY <1>5 DEF Commit, CreateFile, FillFile, AppendFile, RenameTemp, MoveFile, DeleteFile,
                Fault, WriteTempFails, CommitFails, Inside
  <2>2. \E where \in {"end", "fill"} : pc' = [pc EXCEPT ![o] = where]
    BY <1>5 DEF Commit, CreateFile, FillFile, AppendFile, RenameTemp, MoveFile, DeleteFile,
                Fault, WriteTempFails, CommitFails, Ends, Goto
  <2> QED
    BY <2>1, <2>2, WorkKeepsInv DEF Pc
<1>6. ASSUME NEW p \in Paths, OutsideChange(p) PROVE Inv'
  <2>1. UNCHANGED <<pc, req, queueVars>>
    BY <1>6 DEF OutsideChange
  <2>2. QueueType'
    BY <2>1 DEF Inv, QueueType, queueVars
  <2> QED
    BY <2>1, <2>2, QueuesAlone DEF Inside, Keys
<1>7. CASE UNCHANGED vars
  <2>1. UNCHANGED <<pc, req, queueVars>>
    BY <1>7 DEF vars
  <2>2. QueueType'
    BY <2>1 DEF Inv, QueueType, queueVars
  <2> QED
    BY <2>1, <2>2, QueuesAlone DEF Inside, Keys
<1> QED
  BY <1>1, <1>2, <1>3, <1>4, <1>5, <1>6, <1>7, KillKeepsInv DEF Next, Queue

(***************************************************************************)
(* The contents: their types, who made a torn one, and what a call that    *)
(* has looked at its file still knows.                                     *)
(***************************************************************************)

\* The calls that have arrived and may leave a torn content.
Tearers == {o \in Ops : pc[o] # "new" /\ req[o].kind \in {"create", "append"}}

\* A torn content is the work of one of them.
By(c, calls) == c # Absent /\ ~c.whole => c.by \cap calls # {}

\* So has whatever a call may yet put into a file.
Origin(o) ==
    /\ By(seen[o], Tearers)
    /\ pc[o] \in {"again", "commit"} /\ req[o].kind \in {"replace", "edit"} =>
          temp[o] # Absent /\ By(temp[o], Tearers)

\* Which kinds of call pass where, and what they have by then.
Stage(o) ==
    /\ req[o].expected # Absent => req[o].kind \in {"replace", "append", "edit"}
    /\ pc[o] = "read" => req[o].kind = "edit"
    /\ pc[o] = "temp" => req[o].kind \in {"replace", "edit"}
    /\ pc[o] = "temp" /\ req[o].kind = "edit" => seen[o] # Absent
    /\ pc[o] = "again" => req[o].kind \in {"replace", "append"}
    /\ pc[o] = "fill" => req[o].kind = "create"
    /\ pc[o] \notin {"end", "answered", "lost"} => outcome[o] = "none"

Whence == (\A p \in Paths : By(file[p], Tearers)) /\ \A o \in Ops : Origin(o) /\ Stage(o)

\* What a call has found at its paths.
Known(o) ==
    LET now == file[req[o].path] IN
    /\ pc[o] \in {"read", "temp", "again", "commit"} /\ req[o].expected # Absent =>
          now = req[o].expected
    /\ pc[o] = "commit" /\ req[o].kind = "append" => now # Absent
    /\ pc[o] = "temp" /\ req[o].kind = "edit" => now = seen[o]
    /\ pc[o] = "commit" /\ req[o].kind = "edit" => temp[o] = With(now, o)
    /\ pc[o] = "commit" /\ req[o].kind = "move" /\ ~req[o].overwrite => file[req[o].dest] = Absent

StillTrue == outside = 0 => \A o \in Ops : Known(o)

\* An append that stopped half way.
TornWith(c, o) == [With(c, o) EXCEPT !.whole = FALSE]

LEMMA Contents ==
    /\ \A w \in SUBSET (Ops \cup {Outsider}) :
          /\ Whole(w) \in Content /\ Whole(w).by = w /\ Whole(w).whole
          /\ Torn(w) \in Content /\ Torn(w).by = w /\ ~Torn(w).whole
    /\ \A c \in Content, o \in Ops :
          /\ With(c, o) \in Content
          /\ With(c, o).by = c.by \cup {o} /\ With(c, o).whole = c.whole
    /\ \A c \in Content, o \in Ops :
          /\ TornWith(c, o) \in Content
          /\ TornWith(c, o).by = c.by \cup {o} /\ ~TornWith(c, o).whole
    /\ \A c \in Content : c # Absent
<1>1. \A w \in SUBSET (Ops \cup {Outsider}) :
          /\ Whole(w) \in Content /\ Whole(w).by = w /\ Whole(w).whole
          /\ Torn(w) \in Content /\ Torn(w).by = w /\ ~Torn(w).whole
  BY DEF Whole, Torn, Content
<1>2. ASSUME NEW c \in Content, NEW o \in Ops
      PROVE  /\ With(c, o) \in Content
             /\ With(c, o).by = c.by \cup {o} /\ With(c, o).whole = c.whole
  BY DEF With, Content
<1>3. ASSUME NEW c \in Content, NEW o \in Ops
      PROVE  /\ TornWith(c, o) \in Content
             /\ TornWith(c, o).by = c.by \cup {o} /\ ~TornWith(c, o).whole
  <2>1. With(c, o) \in Content /\ With(c, o).by = c.by \cup {o}
    BY <1>2
  <2> QED
    BY <2>1 DEF Content, TornWith
<1>4. \A c \in Content : c # Absent
  BY MutationAssumption
<1> QED
  BY <1>1, <1>2, <1>3, <1>4

(***************************************************************************)
(* Types.                                                                  *)
(***************************************************************************)
LEMMA InitTypes == Init => TypeOK
<1> SUFFICES ASSUME Init PROVE TypeOK
  OBVIOUS
<1>0. PICK q \in Paths : NoRequest = [kind |-> "create", path |-> q, dest |-> q,
                                      expected |-> Absent, overwrite |-> FALSE]
  BY MutationAssumption DEF NoRequest
<1>1. NoRequest \in Requests
  BY <1>0 DEF Requests, Kinds
<1>2. Whole({}) \in Content
  BY Contents
<1> QED
  BY <1>1, <1>2 DEF Init, TypeOK, Pc

\* What a step in a function leaves alone: other calls, and other paths.
Local(o) ==
    /\ UNCHANGED <<req, outside>>
    /\ \A u \in Ops \ {o} : /\ pc'[u] = pc[u] /\ temp'[u] = temp[u]
                            /\ seen'[u] = seen[u] /\ outcome'[u] = outcome[u]
    /\ \A p \in Paths \ Keys(o) : file'[p] = file[p]

Works(o) == Check(o) \/ Commit(o) \/ Fault(o) \/ Finish(o)

LEMMA WorkIsLocal == ASSUME TypeOK, NEW o \in Ops, Works(o) PROVE Local(o) /\ Inside(o)
<1>1. CASE Finish(o)
  BY <1>1 DEF Finish, bounds, Local, TypeOK, Inside
<1>2. CASE Check(o)
  BY <1>2 DEF Check, Look, Read, WriteTemp, Again, Goto, Ends, bounds, Local, TypeOK, Inside
<1>3. CASE Commit(o)
  <2>1. Inside(o) /\ UNCHANGED <<req, outside, seen>>
    BY <1>3 DEF Commit, CreateFile, FillFile, AppendFile, RenameTemp, MoveFile, DeleteFile,
                bounds, Inside
  <2>2. \A u \in Ops \ {o} : pc'[u] = pc[u] /\ temp'[u] = temp[u] /\ outcome'[u] = outcome[u]
    BY <1>3 DEF Commit, CreateFile, FillFile, AppendFile, RenameTemp, MoveFile, DeleteFile,
                Goto, Ends, TypeOK
  <2>3. \A p \in Paths \ Keys(o) : file'[p] = file[p]
    BY <1>3 DEF Commit, CreateFile, FillFile, AppendFile, RenameTemp, MoveFile, DeleteFile,
                TypeOK, Keys
  <2> QED
    BY <2>1, <2>2, <2>3 DEF Local
<1>4. CASE Fault(o)
  BY <1>4 DEF Fault, WriteTempFails, CommitFails, Ends, Local, TypeOK, Keys, Inside
<1> QED
  BY <1>1, <1>2, <1>3, <1>4 DEF Works

LEMMA WorkTypes ==
    ASSUME TypeOK, Whence, NEW o \in Ops, Check(o) \/ Commit(o) \/ Fault(o)
    PROVE  TypeOK'
<1>1. /\ req[o] \in Requests /\ req[o].path \in Paths /\ req[o].dest \in Paths /\ Stage(o)
      /\ \A p \in Paths : file[p] = Absent \/ file[p] \in Content
      /\ seen[o] = Absent \/ seen[o] \in Content
  BY DEF TypeOK, Requests, Whence
<1>2. /\ UNCHANGED <<req, queueVars, outside, kills>> /\ faults' \in Nat
      /\ outcome' \in [Ops -> {"none", "ok", "failed"}]
  <2>1. UNCHANGED <<req, queueVars, outside, kills>>
    BY DEF Check, Look, Read, WriteTemp, Again, Commit, CreateFile, FillFile, AppendFile,
           RenameTemp, MoveFile, DeleteFile, Fault, WriteTempFails, CommitFails, bounds
  <2>2. faults' = faults \/ faults' = faults + 1
    BY DEF Check, Look, Read, WriteTemp, Again, Commit, CreateFile, FillFile, AppendFile,
           RenameTemp, MoveFile, DeleteFile, Fault, WriteTempFails, CommitFails, bounds
  <2>3. \E how \in {"ok", "failed", "none"} :
           outcome' = outcome \/ outcome' = [outcome EXCEPT ![o] = how]
    BY DEF Check, Look, Read, WriteTemp, Again, Commit, CreateFile, FillFile, AppendFile,
           RenameTemp, MoveFile, DeleteFile, Fault, WriteTempFails, CommitFails, Goto, Ends
  <2> QED
    BY <2>1, <2>2, <2>3 DEF TypeOK
<1>3. pc' \in [Ops -> Pc]
  <2>1. AfterLook[req[o].kind] \in Pc
    BY <1>1 DEF AfterLook, Kinds, Pc, Requests
  <2> QED
    BY <2>1 DEF Check, Look, Read, WriteTemp, Again, Commit, CreateFile, FillFile, AppendFile,
         RenameTemp, MoveFile, DeleteFile, Fault, WriteTempFails, CommitFails, Goto, Ends,
         TypeOK, Pc
<1>4. seen' \in [Ops -> Content \cup {Absent}]
  BY <1>1 DEF Check, Look, Read, WriteTemp, Again, Commit, CreateFile, FillFile, AppendFile,
         RenameTemp, MoveFile, DeleteFile, Fault, WriteTempFails, CommitFails, TypeOK
<1>5. temp' \in [Ops -> Content \cup {Absent}]
  <2>1. pc[o] = "temp" => NewContent(o) \in Content
    BY <1>1, Contents DEF NewContent, Stage
  <2>2. Torn({o}) \in Content
    BY Contents
  <2> QED
    BY <2>1, <2>2 DEF Check, Look, Read, WriteTemp, Again, Commit, CreateFile, FillFile, AppendFile,
         RenameTemp, MoveFile, DeleteFile, Fault, WriteTempFails, CommitFails, TypeOK
<1>6. file' \in [Paths -> Content \cup {Absent}]
  <2>1. CASE Check(o) \/ WriteTempFails(o)
    BY <2>1 DEF Check, Look, Read, WriteTemp, Again, WriteTempFails, TypeOK
  <2>2. CASE CreateFile(o) \/ FillFile(o)
    <3>1. Torn({o}) \in Content /\ Whole({o}) \in Content
      BY Contents
    <3> QED
      BY <2>2, <3>1, <1>1 DEF CreateFile, FillFile, TypeOK
  <2>3. CASE AppendFile(o)
    BY <2>3, <1>1, Contents DEF AppendFile, TypeOK
  <2>4. CASE RenameTemp(o) \/ MoveFile(o) \/ DeleteFile(o)
    BY <2>4, <1>1 DEF RenameTemp, MoveFile, DeleteFile, TypeOK
  <2>5. CASE CommitFails(o)
    <3>1. \/ file' = file
          \/ /\ file[req[o].path] \in Content
             /\ file' = [file EXCEPT ![req[o].path] = TornWith(file[req[o].path], o)]
      BY <2>5, <1>1 DEF CommitFails, TornWith
    <3>2. file[req[o].path] \in Content => TornWith(file[req[o].path], o) \in Content
      BY Contents
    <3> QED
      BY <3>1, <3>2, <1>1 DEF TypeOK
  <2> QED
    BY <2>1, <2>2, <2>3, <2>4, <2>5 DEF Commit, Fault
<1> QED
  BY <1>2, <1>3, <1>4, <1>5, <1>6 DEF TypeOK, queueVars

LEMMA StepTypes == TypeOK /\ Whence /\ [Next]_vars => TypeOK'
<1> SUFFICES ASSUME TypeOK, Whence, [Next]_vars PROVE TypeOK'
  OBVIOUS
<1>1. ASSUME NEW o \in Ops, NEW k \in Kinds, NEW p \in Paths, NEW q \in Paths,
             NEW over \in BOOLEAN, NEW c \in {file[p], Absent},
             Request(o, [kind |-> k, path |-> p, dest |-> q, expected |-> c, overwrite |-> over])
      PROVE  TypeOK'
  <2> DEFINE r == [kind |-> k, path |-> p, dest |-> q, expected |-> c, overwrite |-> over]
  <2>1. r \in Requests
    BY DEF TypeOK, Requests
  <2>2. \E w \in {"check", "ask"} : pc' = [pc EXCEPT ![o] = w]
    BY <1>1 DEF Request
  <2>3. /\ req' = [req EXCEPT ![o] = r]
        /\ UNCHANGED <<file, temp, outcome, seen, queueVars, bounds>>
    BY <1>1 DEF Request
  <2> HIDE DEF r
  <2> QED
    BY <2>1, <2>2, <2>3 DEF TypeOK, queueVars, bounds, Pc
<1>2. ASSUME NEW o \in Ops, Precheck(o) PROVE TypeOK'
  BY <1>2 DEF Precheck, TypeOK, queueVars, bounds, Pc
<1>3. ASSUME NEW o \in Ops, Ask(o) PROVE TypeOK'
  <2>1. Keys(o) \subseteq Paths
    BY DEF Keys, TypeOK, Requests
  <2> QED
    BY <1>3, <2>1 DEF Ask, TypeOK, bounds, Pc
<1>4. ASSUME NEW o \in Ops, Turn(o) PROVE TypeOK'
  BY <1>4 DEF Turn, TypeOK, queueVars, bounds, Pc
<1>5. ASSUME NEW o \in Ops, Finish(o) PROVE TypeOK'
  BY <1>5 DEF Finish, Release, TypeOK, bounds, Pc
<1>6. ASSUME NEW p \in Paths, OutsideChange(p) PROVE TypeOK'
  <2>1. Whole({Outsider}) \in Content
    BY Contents
  <2> QED
    BY <1>6, <2>1 DEF OutsideChange, TypeOK, queueVars
<1>7. CASE Kill
  BY <1>7 DEF Kill, TypeOK, Pc
<1>8. CASE UNCHANGED vars
  BY <1>8 DEF vars, queueVars, bounds, TypeOK
<1> QED
  BY <1>1, <1>2, <1>3, <1>4, <1>5, <1>6, <1>7, <1>8, WorkTypes DEF Next, Queue

(***************************************************************************)
(* Whence: no torn content without a create or an append.                  *)
(***************************************************************************)
SameWriters ==
    \A u \in Ops : pc[u] # "new" => pc'[u] # "new" /\ req'[u] = req[u]

LEMMA WritersStay == ASSUME SameWriters PROVE \A c : By(c, Tearers) => By(c, Tearers')
BY DEF SameWriters, By, Tearers

LEMMA InitWhence == Init => Whence
<1> SUFFICES ASSUME Init PROVE Whence
  OBVIOUS
<1>0. PICK q \in Paths : NoRequest = [kind |-> "create", path |-> q, dest |-> q,
                                      expected |-> Absent, overwrite |-> FALSE]
  BY MutationAssumption DEF NoRequest
<1>1. \A p \in Paths : By(file[p], Tearers)
  <2>1. Whole({}).whole
    BY Contents
  <2> QED
    BY <2>1 DEF Init, By
<1>2. \A o \in Ops : Origin(o) /\ Stage(o)
  BY <1>0 DEF Init, Origin, Stage, By
<1> QED
  BY <1>1, <1>2 DEF Whence

\* A step that puts nothing anywhere.
LEMMA NothingWritten ==
    ASSUME TypeOK, Whence, SameWriters, UNCHANGED <<file, temp, seen>>,
           \A u \in Ops : pc'[u] \in {"again", "commit"} => pc[u] = pc'[u] /\ req'[u] = req[u],
           \A u \in Ops : Stage(u)'
    PROVE  Whence'
<1>1. ASSUME NEW p \in Paths PROVE By(file'[p], Tearers')
  BY WritersStay DEF Whence
<1>2. ASSUME NEW u \in Ops PROVE Origin(u)'
  <2>1. Origin(u)
    BY DEF Whence
  <2>2. By(seen'[u], Tearers')
    BY <2>1, WritersStay DEF Origin
  <2>3. By(temp[u], Tearers) => By(temp'[u], Tearers')
    BY WritersStay
  <2> QED
    BY <2>1, <2>2, <2>3 DEF Origin
<1> QED
  BY <1>1, <1>2 DEF Whence

\* A step of one call in its function.
LEMMA OneWrites ==
    ASSUME TypeOK, Whence, NEW o \in Ops, Local(o), pc[o] # "new", pc'[o] # "new",
           \A p \in Keys(o) : By(file'[p], Tearers'), Origin(o)', Stage(o)'
    PROVE  Whence'
<1>1. SameWriters
  BY DEF SameWriters, Local
<1>2. ASSUME NEW p \in Paths PROVE By(file'[p], Tearers')
  BY <1>1, WritersStay DEF Whence, Local
<1>3. ASSUME NEW u \in Ops, u # o PROVE Origin(u)' /\ Stage(u)'
  <2>1. Origin(u) /\ Stage(u)
    BY DEF Whence
  <2>2. /\ pc'[u] = pc[u] /\ temp'[u] = temp[u] /\ req'[u] = req[u]
        /\ seen'[u] = seen[u] /\ outcome'[u] = outcome[u]
    BY <1>3 DEF Local
  <2>3. By(seen'[u], Tearers')
    BY <2>1, <2>2, <1>1, WritersStay DEF Origin
  <2>4. By(temp[u], Tearers) => By(temp'[u], Tearers')
    BY <2>2, <1>1, WritersStay
  <2> QED
    BY <2>1, <2>2, <2>3, <2>4 DEF Origin, Stage
<1> QED
  BY <1>2, <1>3 DEF Whence

LEMMA WorkWhence == ASSUME TypeOK, Whence, NEW o \in Ops, Works(o) PROVE Whence'
<1>1. /\ Local(o) /\ Inside(o) /\ pc[o] # "new"
      /\ Origin(o) /\ Stage(o) /\ (\A p \in Paths : By(file[p], Tearers))
  BY WorkIsLocal DEF Inside, Whence
<1>2. /\ req'[o] = req[o] /\ Keys(o) \subseteq Paths /\ req[o].path \in Keys(o)
      /\ req[o].dest \in Keys(o) /\ req[o].kind \in Kinds
      /\ \A p \in Paths : file[p] = Absent \/ file[p] \in Content
      /\ seen[o] = Absent \/ seen[o] \in Content
  BY <1>1 DEF Local, TypeOK, Requests, Keys
<1>3. /\ pc'[o] # "new" /\ SameWriters
  <2>1. AfterLook[req[o].kind] # "new"
    BY <1>2 DEF AfterLook, Kinds
  <2>2. pc'[o] # "new"
    BY <2>1 DEF Works, Check, Look, Read, WriteTemp, Again, Commit, CreateFile, FillFile,
           AppendFile, RenameTemp, MoveFile, DeleteFile, Fault, WriteTempFails, CommitFails,
           Finish, Goto, Ends, TypeOK
  <2> QED
    BY <2>2, <1>1 DEF SameWriters, Local
<1>4. Stage(o)'
  <2>1. CASE Finish(o)
    BY <2>1, <1>1, <1>2 DEF Finish, Stage, TypeOK
  <2>2. CASE Look(o)
    BY <2>2, <1>1, <1>2 DEF Look, Stage, TypeOK, Goto, Ends, AfterLook, Kinds
  <2>3. CASE Read(o)
    BY <2>3, <1>1, <1>2 DEF Read, Stage, TypeOK, Goto, Ends
  <2>4. CASE WriteTemp(o) \/ Again(o)
    BY <2>4, <1>1, <1>2 DEF WriteTemp, Again, Stage, TypeOK, Goto, Ends
  <2>5. CASE Commit(o)
    BY <2>5, <1>1, <1>2 DEF Commit, CreateFile, FillFile, AppendFile, RenameTemp, MoveFile,
          DeleteFile, Stage, TypeOK, Goto, Ends
  <2>6. CASE Fault(o)
    BY <2>6, <1>1, <1>2 DEF Fault, WriteTempFails, CommitFails, Stage, TypeOK, Ends
  <2> QED
    BY <2>1, <2>2, <2>3, <2>4, <2>5, <2>6 DEF Works, Check
<1>t. req[o].kind \in {"create", "append"} => o \in Tearers'
  BY <1>2, <1>3 DEF Tearers
<1>5. \A c : By(c, Tearers) => By(c, Tearers')
  BY <1>3, WritersStay
<1>6. Origin(o)'
  <2>1. By(seen'[o], Tearers')
    <3>1. seen'[o] \in {seen[o], Absent, file[req[o].path]}
      BY DEF Works, Check, Look, Read, WriteTemp, Again, Commit, CreateFile, FillFile,
             AppendFile, RenameTemp, MoveFile, DeleteFile, Fault, WriteTempFails, CommitFails,
             Finish, TypeOK
    <3> QED
      BY <3>1, <1>1, <1>2, <1>5 DEF Origin, By
  <2>2. ASSUME pc'[o] \in {"again", "commit"}, req[o].kind \in {"replace", "edit"}
        PROVE  temp'[o] # Absent /\ By(temp'[o], Tearers')
    <3>1. WriteTemp(o) \/ Again(o)
      BY <2>2, <1>2 DEF Works, Check, Look, Read, Commit, CreateFile, FillFile, AppendFile,
            RenameTemp, MoveFile, DeleteFile, Fault, WriteTempFails, CommitFails, Finish,
            Goto, Ends, TypeOK, AfterLook
    <3>2. CASE Again(o)
      <4>1. pc[o] = "again" /\ temp'[o] = temp[o]
        BY <3>2, <2>2 DEF Again, Goto, Ends, TypeOK
      <4> QED
        BY <4>1, <2>2, <1>1, <1>5 DEF Origin
    <3>3. CASE WriteTemp(o)
      <4>1. pc[o] = "temp" /\ temp'[o] = NewContent(o)
        BY <3>3 DEF WriteTemp, TypeOK
      <4>2. CASE req[o].kind = "edit"
        <5>1. /\ seen[o] \in Content /\ seen[o] # Absent /\ temp'[o] = With(seen[o], o)
              /\ With(seen[o], o) \in Content
              /\ With(seen[o], o).by = seen[o].by \cup {o}
              /\ With(seen[o], o).whole = seen[o].whole
          BY <4>1, <4>2, <1>1, <1>2, Contents DEF Stage, NewContent
        <5>2. By(seen[o], Tearers)
          BY <1>1 DEF Origin
        <5>3. By(With(seen[o], o), Tearers)
          BY <5>1, <5>2 DEF By
        <5> QED
          BY <5>1, <5>3, <1>5, MutationAssumption
      <4>3. CASE req[o].kind # "edit"
        <5>1. temp'[o] = Whole({o}) /\ Whole({o}) \in Content /\ Whole({o}).whole
          BY <4>1, <4>3, Contents DEF NewContent
        <5> QED
          BY <5>1, MutationAssumption DEF By
      <4> QED
        BY <4>2, <4>3
    <3> QED
      BY <3>1, <3>2, <3>3
  <2> QED
    BY <2>1, <2>2, <1>2 DEF Origin
<1>7. ASSUME NEW p \in Keys(o) PROVE By(file'[p], Tearers')
  <2>1. p \in Paths /\ By(file[p], Tearers)
    BY <1>7, <1>1, <1>2
  <2>2. file'[p] = file[p] => By(file'[p], Tearers')
    BY <2>1, <1>5
  <2>3. file'[p] = Absent => By(file'[p], Tearers')
    BY DEF By
  <2>4. CASE Finish(o) \/ Check(o) \/ WriteTempFails(o)
    BY <2>4, <2>2 DEF Finish, Check, Look, Read, WriteTemp, Again, WriteTempFails
  <2>5. CASE CreateFile(o)
    <3>1. req[o].kind = "create" /\ file'[p] \in {file[p], Torn({o})}
      BY <2>5, <2>1 DEF CreateFile, TypeOK
    <3>2. Torn({o}).by = {o}
      BY Contents
    <3> QED
      BY <3>1, <3>2, <2>2, <1>2, <1>3 DEF By, Tearers
  <2>6. CASE FillFile(o)
    <3>1. file'[p] \in {file[p], Whole({o})} /\ Whole({o}).whole
      BY <2>6, <2>1, Contents DEF FillFile, TypeOK
    <3> QED
      BY <3>1, <2>2 DEF By
  <2>7. CASE AppendFile(o)
    <3>1. /\ req[o].kind = "append"
          /\ \/ file'[p] = file[p]
             \/ file'[p] = Whole({o})
             \/ file[p] \in Content /\ file'[p] = With(file[p], o)
      BY <2>7, <2>1, <1>2 DEF AppendFile, TypeOK
    <3>2. Whole({o}).whole
      BY Contents
    <3>3. file[p] \in Content => With(file[p], o).by = file[p].by \cup {o}
      BY Contents
    <3> QED
      BY <3>1, <3>2, <3>3, <2>2, <1>2, <1>3, <1>t DEF By
  <2>8. CASE RenameTemp(o)
    <3>1. /\ file'[p] \in {file[p], temp[o]} /\ pc[o] = "commit"
          /\ req[o].kind \in {"replace", "edit"}
      BY <2>8, <2>1 DEF RenameTemp, TypeOK
    <3>2. By(temp[o], Tearers')
      BY <3>1, <1>1, <1>5 DEF Origin
    <3>3. CASE file'[p] = temp[o]
      BY <3>3, <1>1, <3>1, <1>5 DEF Origin
    <3> QED
      BY <3>1, <3>3, <2>2
  <2>9. CASE MoveFile(o)
    <3>1. file'[p] \in {file[p], Absent, file[req[o].path]}
      BY <2>9, <2>1 DEF MoveFile, TypeOK
    <3>2. By(file[req[o].path], Tearers)
      BY <1>1, <1>2
    <3>3. CASE file'[p] = file[req[o].path]
      BY <3>3, <3>2, <1>5
    <3> QED
      BY <3>1, <3>3, <2>2, <2>3
  <2>10. CASE DeleteFile(o)
    <3>1. file'[p] \in {file[p], Absent}
      BY <2>10, <2>1 DEF DeleteFile, TypeOK
    <3> QED
      BY <3>1, <2>2, <2>3
  <2>11. CASE CommitFails(o)
    <3>1. \/ file'[p] = file[p]
          \/ /\ req[o].kind = "append" /\ file[p] \in Content
             /\ file'[p] = TornWith(file[p], o)
      BY <2>11, <2>1, <1>2 DEF CommitFails, TornWith, TypeOK
    <3>2. file[p] \in Content => TornWith(file[p], o).by = file[p].by \cup {o}
      BY Contents
    <3> QED
      BY <3>1, <3>2, <2>2, <1>2, <1>3, <1>t DEF By
  <2> QED
    BY <2>4, <2>5, <2>6, <2>7, <2>8, <2>9, <2>10, <2>11 DEF Works, Commit, Fault
<1> QED
  BY <1>1, <1>3, <1>4, <1>6, <1>7, OneWrites

LEMMA StepWhence == TypeOK /\ Whence /\ [Next]_vars => Whence'
<1> SUFFICES ASSUME TypeOK, Whence, [Next]_vars PROVE Whence'
  OBVIOUS
<1>s. \A u \in Ops : Stage(u)
  BY DEF Whence
<1>1. ASSUME NEW o \in Ops, NEW k \in Kinds, NEW p \in Paths, NEW q \in Paths,
             NEW over \in BOOLEAN, NEW c \in {file[p], Absent},
             Request(o, [kind |-> k, path |-> p, dest |-> q, expected |-> c, overwrite |-> over])
      PROVE  Whence'
  <2>1. /\ pc[o] = "new" /\ UNCHANGED <<file, temp, seen, outcome>>
        /\ req' = [req EXCEPT ![o] = [kind |-> k, path |-> p, dest |-> q,
                                      expected |-> c, overwrite |-> over]]
        /\ pc' = [pc EXCEPT ![o] = IF k = "move" THEN "check" ELSE "ask"]
        /\ c # Absent => k \in {"replace", "append", "edit"}
    BY <1>1 DEF Request
  <2>2. SameWriters
    BY <2>1 DEF SameWriters, TypeOK
  <2>3. \A u \in Ops : Stage(u)'
    BY <2>1, <1>s DEF Stage, TypeOK
  <2>4. \A u \in Ops : pc'[u] \in {"again", "commit"} => pc[u] = pc'[u] /\ req'[u] = req[u]
    BY <2>1 DEF TypeOK
  <2> QED
    BY <2>1, <2>2, <2>3, <2>4, NothingWritten
<1>2. ASSUME NEW o \in Ops, Precheck(o) \/ Ask(o) \/ Turn(o) PROVE Whence'
  <2>1. /\ UNCHANGED <<file, temp, seen, req>> /\ pc[o] \in {"check", "ask", "wait"}
        /\ \E w \in {"answered", "ask", "wait", "look"} :
              /\ pc' = [pc EXCEPT ![o] = w]
              /\ w # "answered" => outcome' = outcome
              /\ outcome' = outcome \/ outcome' = [outcome EXCEPT ![o] = "failed"]
    BY <1>2 DEF Precheck, Ask, Turn
  <2>2. SameWriters
    BY <2>1 DEF SameWriters, TypeOK
  <2>3. \A u \in Ops : Stage(u)'
    BY <2>1, <1>s DEF Stage, TypeOK
  <2>4. \A u \in Ops : pc'[u] \in {"again", "commit"} => pc[u] = pc'[u] /\ req'[u] = req[u]
    BY <2>1 DEF TypeOK
  <2> QED
    BY <2>1, <2>2, <2>3, <2>4, NothingWritten
<1>3. ASSUME NEW o \in Ops, Works(o) PROVE Whence'
  BY <1>3, WorkWhence
<1>4. ASSUME NEW p \in Paths, OutsideChange(p) PROVE Whence'
  <2>1. /\ UNCHANGED <<temp, req, pc, outcome, seen>>
        /\ \E c \in {Absent, Whole({Outsider})} : file' = [file EXCEPT ![p] = c]
    BY <1>4 DEF OutsideChange
  <2>2. Whole({Outsider}).whole
    BY Contents
  <2>3. SameWriters
    BY <2>1 DEF SameWriters
  <2>4. ASSUME NEW x \in Paths PROVE By(file'[x], Tearers')
    <3>1. By(file[x], Tearers')
      BY <2>3, WritersStay DEF Whence
    <3>2. file'[x] \in {file[x], Absent, Whole({Outsider})}
      BY <2>1 DEF TypeOK
    <3> QED
      BY <3>1, <3>2, <2>2 DEF By
  <2>5. ASSUME NEW u \in Ops PROVE Origin(u)' /\ Stage(u)'
    BY <2>1, <2>3, WritersStay DEF Whence, Origin, Stage, By
  <2> QED
    BY <2>4, <2>5 DEF Whence
<1>5. CASE Kill
  <2>1. /\ UNCHANGED <<file, temp, req, outcome, seen>>
        /\ \A u \in Ops : pc'[u] = pc[u] \/ pc'[u] = "lost"
        /\ \A u \in Ops : UnderWay(u) => pc'[u] = "lost"
    BY <1>5 DEF Kill
  <2>2. SameWriters
    BY <2>1 DEF SameWriters
  <2>3. \A u \in Ops : Stage(u)'
    BY <2>1, <1>s DEF Stage
  <2> QED
    BY <2>1, <2>2, <2>3, NothingWritten
<1>6. CASE UNCHANGED vars
  <2>1. UNCHANGED <<file, temp, req, pc, outcome, seen>>
    BY <1>6 DEF vars
  <2>2. SameWriters /\ \A u \in Ops : Stage(u)'
    BY <2>1, <1>s DEF SameWriters, Stage
  <2> QED
    BY <2>1, <2>2, NothingWritten
<1> QED
  BY <1>1, <1>2, <1>3, <1>4, <1>5, <1>6 DEF Next, Queue, Works

(***************************************************************************)
(* StillTrue: what a call has found stays, while no other program writes.  *)
(***************************************************************************)

\* The calls that work at the same time name other paths.
LEMMA OthersKeepTheirs ==
    ASSUME TypeOK, OneAtATime, NEW o \in Ops, Local(o), Inside(o),
           NEW u \in Ops, u # o, Known(u)
    PROVE  Known(u)'
<1>1. req' = req /\ pc'[u] = pc[u] /\ temp'[u] = temp[u] /\ seen'[u] = seen[u]
  BY DEF Local
<1>2. CASE ~Inside(u)
  BY <1>1, <1>2 DEF Known, Inside
<1>3. CASE Inside(u)
  <2>1. Keys(u) \cap Keys(o) = {}
    BY <1>3 DEF OneAtATime
  <2>2. /\ req[u].path \in Paths \ Keys(o) /\ req[u].dest \in Paths \ Keys(o)
    BY <2>1 DEF Keys, TypeOK, Requests
  <2>3. file'[req[u].path] = file[req[u].path] /\ file'[req[u].dest] = file[req[u].dest]
    BY <2>2 DEF Local
  <2> QED
    BY <1>1, <2>3 DEF Known
<1> QED
  BY <1>2, <1>3

LEMMA OwnKnown ==
    ASSUME TypeOK, Whence, NEW o \in Ops, Known(o), Works(o) PROVE Known(o)'
<1>1. /\ req'[o] = req[o] /\ req[o].path \in Paths /\ req[o].dest \in Paths /\ Stage(o)
      /\ req[o].kind \in Kinds
  BY WorkIsLocal DEF Local, TypeOK, Requests, Whence
<1>2. pc'[o] \in {"answered", "end", "fill"} => Known(o)'
  BY DEF Known
<1>3. CASE Finish(o)
  <2>1. pc'[o] = "answered"
    BY <1>3 DEF Finish, TypeOK
  <2> QED
    BY <2>1, <1>2
<1>4. CASE Commit(o) \/ Fault(o)
  <2>1. pc'[o] \in {"end", "fill"}
    BY <1>4 DEF Commit, CreateFile, FillFile, AppendFile, RenameTemp, MoveFile, DeleteFile,
                Fault, WriteTempFails, CommitFails, Goto, Ends, TypeOK
  <2> QED
    BY <2>1, <1>2
<1>5. CASE Look(o)
  <2>1. /\ file' = file
        /\ \/ pc'[o] = "end"
           \/ ~Unfit(o) /\ pc'[o] = AfterLook[req[o].kind]
    BY <1>5 DEF Look, Goto, Ends, TypeOK
  <2>2. CASE pc'[o] = "end"
    BY <2>2, <1>2
  <2>3. CASE ~Unfit(o) /\ pc'[o] = AfterLook[req[o].kind]
    <3>1. CASE req[o].kind \in {"create", "delete"}
      BY <3>1, <2>3, <1>1 DEF Known, Stage
    <3>2. CASE req[o].kind = "move"
      BY <3>2, <2>1, <2>3, <1>1 DEF Unfit, MoveImpossible, Known, Stage
    <3>3. CASE req[o].kind \in {"replace", "append", "edit"}
      <4>1. req[o].expected # Absent => file[req[o].path] = req[o].expected
        BY <3>3, <2>3 DEF Unfit, Mismatch
      <4>2. pc'[o] \in {"temp", "again", "read"} /\ (pc'[o] = "temp" => req[o].kind = "replace")
        BY <3>3, <2>3 DEF AfterLook, Kinds
      <4> QED
        BY <4>1, <4>2, <2>1, <1>1 DEF Known
    <3> QED
      BY <3>1, <3>2, <3>3, <1>1 DEF Kinds
  <2> QED
    BY <2>1, <2>2, <2>3
<1>6. CASE Read(o)
  <2>1. /\ pc[o] = "read" /\ pc'[o] \in {"end", "temp"} /\ file' = file
        /\ seen'[o] = file[req[o].path]
    BY <1>6 DEF Read, Goto, Ends, TypeOK
  <2> QED
    BY <2>1, <1>1, <1>2 DEF Known
<1>7. CASE WriteTemp(o)
  <2>1. /\ pc[o] = "temp" /\ file' = file /\ temp'[o] = NewContent(o)
        /\ pc'[o] = IF req[o].kind = "edit" THEN "commit" ELSE "again"
    BY <1>7 DEF WriteTemp, Goto, TypeOK
  <2>2. CASE req[o].kind = "edit"
    <3>1. temp'[o] = With(file[req[o].path], o)
      BY <2>1, <2>2 DEF Known, NewContent
    <3> QED
      BY <3>1, <2>1, <2>2, <1>1 DEF Known
  <2>3. CASE req[o].kind # "edit"
    BY <2>1, <2>3, <1>1 DEF Known
  <2> QED
    BY <2>2, <2>3
<1>8. CASE Again(o)
  <2>1. /\ pc[o] = "again" /\ file' = file
        /\ \/ pc'[o] = "end"
           \/ /\ pc'[o] = "commit"
              /\ req[o].kind = "append" => ~Mismatch(o)
    BY <1>8 DEF Again, Goto, Ends, TypeOK
  <2>2. CASE pc'[o] = "end"
    BY <2>2, <1>2
  <2>3. CASE pc'[o] = "commit" /\ (req[o].kind = "append" => ~Mismatch(o))
    <3>1. req[o].kind \in {"replace", "append"}
      BY <2>1, <1>1 DEF Stage
    <3>2. req[o].kind = "append" => file[req[o].path] # Absent
      BY <2>3 DEF Mismatch
    <3> QED
      BY <3>1, <3>2, <2>1, <2>3, <1>1 DEF Known
  <2> QED
    BY <2>1, <2>2, <2>3
<1> QED
  BY <1>3, <1>4, <1>5, <1>6, <1>7, <1>8 DEF Works, Check

LEMMA InitKnown == Init => StillTrue
BY DEF Init, StillTrue, Known

LEMMA StepKnown ==
    TypeOK /\ Whence /\ OneAtATime /\ StillTrue /\ [Next]_vars => StillTrue'
<1> SUFFICES ASSUME TypeOK, Whence, OneAtATime, StillTrue, [Next]_vars, outside' = 0,
                    NEW u \in Ops
             PROVE  Known(u)'
  BY DEF StillTrue
<1>1. ASSUME NEW o \in Ops, NEW k \in Kinds, NEW p \in Paths, NEW q \in Paths,
             NEW over \in BOOLEAN, NEW c \in {file[p], Absent},
             Request(o, [kind |-> k, path |-> p, dest |-> q, expected |-> c, overwrite |-> over])
      PROVE  Known(u)'
  <2>1. /\ UNCHANGED <<file, temp, seen, outside>>
        /\ u # o => pc'[u] = pc[u] /\ req'[u] = req[u]
        /\ pc'[o] \in {"check", "ask"}
    BY <1>1 DEF Request, bounds, TypeOK
  <2> QED
    BY <2>1 DEF Known, StillTrue
<1>2. ASSUME NEW o \in Ops, Precheck(o) \/ Ask(o) \/ Turn(o) PROVE Known(u)'
  <2>1. /\ UNCHANGED <<file, temp, seen, req, outside>>
        /\ u # o => pc'[u] = pc[u]
        /\ pc'[o] \in {"answered", "ask", "wait", "look"}
    BY <1>2 DEF Precheck, Ask, Turn, bounds, TypeOK
  <2> QED
    BY <2>1 DEF Known, StillTrue
<1>3. ASSUME NEW o \in Ops, Works(o) PROVE Known(u)'
  <2>1. Local(o) /\ Inside(o) /\ outside = 0
    BY <1>3, WorkIsLocal DEF Local
  <2>2. Known(u)
    BY <2>1 DEF StillTrue
  <2> QED
    BY <2>1, <2>2, <1>3, OthersKeepTheirs, OwnKnown
<1>4. ASSUME NEW p \in Paths, OutsideChange(p) PROVE FALSE
  BY <1>4 DEF OutsideChange, TypeOK
<1>5. CASE Kill
  <2>1. /\ UNCHANGED <<file, temp, req, seen, outside>>
        /\ pc'[u] = pc[u] \/ pc'[u] = "lost"
    BY <1>5 DEF Kill
  <2> QED
    BY <2>1 DEF Known, StillTrue
<1>6. CASE UNCHANGED vars
  BY <1>6 DEF vars, bounds, Known, StillTrue
<1> QED
  BY <1>1, <1>2, <1>3, <1>4, <1>5, <1>6 DEF Next, Queue, Works

(***************************************************************************)
(* OneEffect: each call is one step of FileStore.                          *)
(***************************************************************************)

\* What a call is about to write, and that an ended one knows its result.
Prepared(o) ==
    /\ pc[o] \in {"again", "commit"} /\ req[o].kind = "replace" => temp[o] = Whole({o})
    /\ pc[o] = "commit" /\ req[o].kind = "edit" => \E c \in Content : temp[o] = With(c, o)
    /\ pc[o] \in {"end", "answered"} => outcome[o] # "none"

\* The file a call works on is there, half of it while it is created.
InPlace(o) ==
    LET now == file[req[o].path] IN
    /\ pc[o] \in {"temp", "again", "commit"} /\ req[o].kind \in {"replace", "edit"} =>
          now # Absent
    /\ pc[o] = "fill" => now = Torn({o})
    /\ pc[o] = "end" /\ outcome[o] = "ok" /\ req[o].kind \in {"create", "replace", "append"} =>
          now # Absent

Ready == /\ \A o \in Ops : Prepared(o)
         /\ outside = 0 => \A o \in Ops : InPlace(o)

LEMMA InitReady == Init => Ready
BY DEF Init, Ready, Prepared, InPlace

LEMMA OwnPrepared ==
    ASSUME TypeOK, Whence, NEW o \in Ops, Prepared(o), Works(o) PROVE Prepared(o)'
<1>1. /\ req'[o] = req[o] /\ Stage(o) /\ req[o].kind \in Kinds
      /\ seen[o] = Absent \/ seen[o] \in Content
  BY WorkIsLocal DEF Local, TypeOK, Requests, Whence
<1>2. CASE Finish(o)
  BY <1>2 DEF Finish, Prepared, TypeOK
<1>3. CASE Look(o)
  BY <1>1, <1>3 DEF Look, Goto, Ends, AfterLook, Kinds, Prepared, TypeOK
<1>4. CASE Read(o)
  BY <1>4 DEF Read, Goto, Ends, Prepared, TypeOK
<1>5. CASE WriteTemp(o)
  <2>1. /\ pc[o] = "temp" /\ temp'[o] = NewContent(o)
        /\ pc'[o] = IF req[o].kind = "edit" THEN "commit" ELSE "again"
    BY <1>5 DEF WriteTemp, Goto, TypeOK
  <2>2. req[o].kind = "edit" => \E c \in Content : NewContent(o) = With(c, o)
    BY <2>1, <1>1 DEF NewContent, Stage
  <2>3. req[o].kind # "edit" => NewContent(o) = Whole({o})
    BY DEF NewContent
  <2> QED
    BY <1>1, <2>1, <2>2, <2>3 DEF Prepared
<1>6. CASE Again(o)
  <2>1. /\ pc[o] = "again"
        /\ \/ pc'[o] = "end" /\ outcome'[o] = "failed"
           \/ pc'[o] = "commit" /\ temp'[o] = temp[o]
    BY <1>6 DEF Again, Goto, Ends, TypeOK
  <2> QED
    BY <1>1, <2>1 DEF Prepared, Stage
<1>7. CASE Commit(o) \/ Fault(o)
  <2>1. pc'[o] = "fill" \/ (pc'[o] = "end" /\ outcome'[o] \in {"ok", "failed"})
    BY <1>7 DEF Commit, CreateFile, FillFile, AppendFile, RenameTemp, MoveFile, DeleteFile,
                Fault, WriteTempFails, CommitFails, Goto, Ends, TypeOK
  <2> QED
    BY <2>1 DEF Prepared
<1> QED
  BY <1>2, <1>3, <1>4, <1>5, <1>6, <1>7 DEF Works, Check

LEMMA OwnInPlace ==
    ASSUME TypeOK, Whence, NEW o \in Ops, Prepared(o), Known(o), InPlace(o), Works(o)
    PROVE  InPlace(o)'
<1>1. /\ req'[o] = req[o] /\ req[o].path \in Paths /\ req[o].dest \in Paths /\ Stage(o)
      /\ req[o].kind \in Kinds
      /\ \A p \in Paths : file[p] = Absent \/ file[p] \in Content
  BY WorkIsLocal DEF Local, TypeOK, Requests, Whence
<1>2. Whole({o}) # Absent /\ Torn({o}) # Absent /\ \A c \in Content : With(c, o) # Absent
  BY Contents
<1>3. pc'[o] = "answered" \/ (pc'[o] = "end" /\ outcome'[o] = "failed") => InPlace(o)'
  BY DEF InPlace
<1>4. CASE Finish(o)
  <2>1. pc'[o] = "answered"
    BY <1>4 DEF Finish, TypeOK
  <2> QED
    BY <2>1, <1>3
<1>5. CASE Fault(o)
  <2>1. pc'[o] = "end" /\ outcome'[o] = "failed"
    BY <1>5 DEF Fault, WriteTempFails, CommitFails, Ends, TypeOK
  <2> QED
    BY <2>1, <1>3
<1>6. CASE Look(o)
  <2>1. /\ file' = file
        /\ \/ pc'[o] = "end" /\ outcome'[o] = "failed"
           \/ ~Unfit(o) /\ pc'[o] = AfterLook[req[o].kind]
    BY <1>6 DEF Look, Goto, Ends, TypeOK
  <2>2. CASE ~Unfit(o) /\ pc'[o] = AfterLook[req[o].kind]
    <3>1. pc'[o] \notin {"fill", "end"}
      BY <2>2, <1>1 DEF AfterLook, Kinds
    <3>2. req[o].kind \in {"replace", "edit"} => file[req[o].path] # Absent
      BY <2>2 DEF Unfit, Mismatch
    <3> QED
      BY <3>1, <3>2, <2>1, <1>1 DEF InPlace
  <2> QED
    BY <2>1, <2>2, <1>3
<1>7. CASE Read(o) \/ WriteTemp(o) \/ Again(o)
  <2>1. /\ file' = file
        /\ \/ pc'[o] = "end" /\ outcome'[o] = "failed"
           \/ /\ pc'[o] \in {"temp", "again", "commit"}
              /\ pc[o] \in {"temp", "again"} \/ file[req[o].path] # Absent
    BY <1>7 DEF Read, WriteTemp, Again, Goto, Ends, TypeOK
  <2>2. CASE pc'[o] \in {"temp", "again", "commit"}
    BY <2>1, <2>2, <1>1 DEF InPlace
  <2> QED
    BY <2>1, <2>2, <1>3
<1>8. CASE CreateFile(o)
  <2>1. \/ pc'[o] = "end" /\ outcome'[o] = "failed"
        \/ pc'[o] = "fill" /\ file'[req[o].path] = Torn({o})
    BY <1>8, <1>1 DEF CreateFile, Goto, Ends, TypeOK
  <2> QED
    BY <2>1, <1>1, <1>3 DEF InPlace
<1>9. CASE FillFile(o) \/ AppendFile(o) \/ RenameTemp(o)
  <2>1. pc'[o] = "end" /\ file'[req[o].path] # Absent
    <3>1. CASE FillFile(o)
      BY <3>1, <1>1, <1>2 DEF FillFile, Ends, TypeOK, InPlace
    <3>2. CASE AppendFile(o)
      BY <3>2, <1>1, <1>2 DEF AppendFile, Ends, TypeOK
    <3>3. CASE RenameTemp(o)
      <4>1. /\ pc'[o] = "end" /\ file'[req[o].path] = temp[o]
            /\ pc[o] = "commit" /\ req[o].kind \in {"replace", "edit"}
        BY <3>3, <1>1 DEF RenameTemp, Ends, TypeOK
      <4> QED
        BY <4>1, <1>2 DEF Prepared
    <3> QED
      BY <1>9, <3>1, <3>2, <3>3
  <2> QED
    BY <2>1, <1>1 DEF InPlace
<1>10. CASE MoveFile(o) \/ DeleteFile(o)
  <2>1. pc'[o] = "end" /\ req[o].kind \in {"move", "delete"}
    BY <1>10 DEF MoveFile, DeleteFile, Ends, TypeOK
  <2> QED
    BY <2>1, <1>1 DEF InPlace
<1> QED
  BY <1>4, <1>5, <1>6, <1>7, <1>8, <1>9, <1>10 DEF Works, Check, Commit

LEMMA StepReady ==
    TypeOK /\ Whence /\ OneAtATime /\ StillTrue /\ Ready /\ [Next]_vars => Ready'
<1> SUFFICES ASSUME TypeOK, Whence, OneAtATime, StillTrue, Ready, [Next]_vars, NEW u \in Ops
             PROVE  Prepared(u)' /\ (outside' = 0 => InPlace(u)')
  BY DEF Ready
<1>u. Prepared(u) /\ (outside = 0 => InPlace(u))
  BY DEF Ready
<1>1. ASSUME NEW o \in Ops, NEW k \in Kinds, NEW p \in Paths, NEW q \in Paths,
             NEW over \in BOOLEAN, NEW c \in {file[p], Absent},
             Request(o, [kind |-> k, path |-> p, dest |-> q, expected |-> c, overwrite |-> over])
      PROVE  Prepared(u)' /\ (outside' = 0 => InPlace(u)')
  <2>1. /\ UNCHANGED <<file, temp, outcome, outside>>
        /\ u # o => pc'[u] = pc[u] /\ req'[u] = req[u]
        /\ pc'[o] \in {"check", "ask"}
    BY <1>1 DEF Request, bounds, TypeOK
  <2> QED
    BY <2>1, <1>u DEF Prepared, InPlace
<1>2. ASSUME NEW o \in Ops, Precheck(o) \/ Ask(o) \/ Turn(o)
      PROVE  Prepared(u)' /\ (outside' = 0 => InPlace(u)')
  <2>1. /\ UNCHANGED <<file, temp, req, outside>>
        /\ u # o => pc'[u] = pc[u] /\ outcome'[u] = outcome[u]
        /\ \/ pc'[o] = "answered" /\ outcome'[o] = "failed"
           \/ pc'[o] \in {"ask", "wait", "look"}
    BY <1>2 DEF Precheck, Ask, Turn, bounds, TypeOK
  <2> QED
    BY <2>1, <1>u DEF Prepared, InPlace
<1>3. ASSUME NEW o \in Ops, Works(o) PROVE Prepared(u)' /\ (outside' = 0 => InPlace(u)')
  <2>1. Local(o) /\ Inside(o) /\ outside' = outside
    BY <1>3, WorkIsLocal DEF Local
  <2>2. CASE u = o
    <3>1. Prepared(u)'
      BY <1>3, <1>u, <2>2, OwnPrepared
    <3>2. outside = 0 => InPlace(u)'
      BY <1>3, <1>u, <2>2, OwnInPlace DEF StillTrue
    <3> QED
      BY <3>1, <3>2, <2>1
  <2>3. CASE u # o
    <3>1. /\ req'[u] = req[u] /\ pc'[u] = pc[u] /\ temp'[u] = temp[u]
          /\ outcome'[u] = outcome[u]
      BY <2>1, <2>3 DEF Local
    <3>2. Prepared(u)'
      BY <3>1, <1>u DEF Prepared
    <3>3. CASE Inside(u)
      <4>1. req[u].path \in Paths \ Keys(o)
        BY <2>1, <2>3, <3>3 DEF OneAtATime, Keys, TypeOK, Requests
      <4>2. file'[req[u].path] = file[req[u].path]
        BY <4>1, <2>1 DEF Local
      <4> QED
        BY <2>1, <3>1, <3>2, <4>2, <1>u DEF InPlace
    <3>4. CASE ~Inside(u)
      BY <3>1, <3>2, <3>4 DEF InPlace, Inside
    <3> QED
      BY <3>3, <3>4
  <2> QED
    BY <2>2, <2>3
<1>4. ASSUME NEW p \in Paths, OutsideChange(p)
      PROVE  Prepared(u)' /\ (outside' = 0 => InPlace(u)')
  <2>1. UNCHANGED <<temp, req, pc, outcome>> /\ outside' # 0
    BY <1>4 DEF OutsideChange, TypeOK
  <2> QED
    BY <2>1, <1>u DEF Prepared
<1>5. CASE Kill
  <2>1. /\ UNCHANGED <<file, temp, req, outcome, outside>>
        /\ pc'[u] = pc[u] \/ pc'[u] = "lost"
    BY <1>5 DEF Kill
  <2> QED
    BY <2>1, <1>u DEF Prepared, InPlace
<1>6. CASE UNCHANGED vars
  BY <1>6, <1>u DEF vars, bounds, Prepared, InPlace
<1> QED
  BY <1>1, <1>2, <1>3, <1>4, <1>5, <1>6 DEF Next, Queue, Works

\* A step inside a call, or of the queues, that FileStore does not see.
LEMMA PhaseStays ==
    ASSUME \A u \in Ops : (pc'[u] = "new" <=> pc[u] = "new") /\ (UnderWay(u)' <=> UnderWay(u))
    PROVE  Phase' = Phase
BY DEF Phase

LEMMA PhaseOf ==
    ASSUME NEW o \in Ops
    PROVE  /\ DOMAIN Phase = Ops
           /\ pc[o] = "new" => Phase[o] = "new"
           /\ UnderWay(o) => Phase[o] = "open"
           /\ pc[o] \in {"answered", "lost"} => Phase[o] = "closed"
BY DEF Phase, UnderWay, Inside

\* A call that starts, is answered or is lost.
LEMMA PhaseMoves ==
    ASSUME TypeOK, NEW o \in Ops, NEW w \in {"check", "ask", "answered"},
           pc' = [pc EXCEPT ![o] = w]
    PROVE  Phase' = [Phase EXCEPT ![o] = IF w = "answered" THEN "closed" ELSE "open"]
<1>1. /\ pc'[o] = w
      /\ \A u \in Ops : u # o => pc'[u] = pc[u]
  BY DEF TypeOK
<1>2. /\ w = "answered" => Phase'[o] = "closed"
      /\ w # "answered" => Phase'[o] = "open"
      /\ \A u \in Ops : u # o => Phase'[u] = Phase[u]
  BY <1>1 DEF Phase, UnderWay, Inside
<1> QED
  BY <1>2 DEF Phase

\* A step of a call in its function.
LEMMA WorkIsEffect ==
    ASSUME TypeOK, Whence, StillTrue, Ready, NEW o \in Ops, Check(o) \/ Commit(o) \/ Fault(o)
    PROVE  \/ Store!TakesEffect(o) \/ Store!Begins(o) \/ Store!Tears(o) \/ Store!Fails(o)
           \/ UNCHANGED <<file, req, Phase, outcome, outside>>
<1>1. /\ req[o].path \in Paths /\ req[o].dest \in Paths /\ Stage(o) /\ req[o].kind \in Kinds
      /\ \A p \in Paths : file[p] = Absent \/ file[p] \in Content
  BY DEF TypeOK, Requests, Whence
<1>2. Prepared(o) /\ (outside = 0 => Known(o) /\ InPlace(o))
  BY DEF Ready, StillTrue
<1>3. Inside(o) /\ UNCHANGED <<req, outside>>
  BY WorkIsLocal DEF Works, Local
<1>4. Phase' = Phase
  <2>1. \A k \in Kinds : AfterLook[k] \in {"commit", "temp", "again", "read"}
    BY DEF AfterLook, Kinds
  <2>2. \E w \in {"read", "temp", "again", "commit", "fill", "end"} : pc' = [pc EXCEPT ![o] = w]
    BY <1>1, <2>1 DEF Check, Look, Read, WriteTemp, Again, Commit, CreateFile, FillFile,
          AppendFile, RenameTemp, MoveFile, DeleteFile, Fault, WriteTempFails, CommitFails,
          Goto, Ends
  <2>3. \A u \in Ops : (pc'[u] = "new" <=> pc[u] = "new") /\ (UnderWay(u)' <=> UnderWay(u))
    BY <2>2, <1>3 DEF UnderWay, Inside, TypeOK
  <2> QED
    BY <2>3, PhaseStays
<1>5. Phase[o] = "open"
  BY <1>3, PhaseOf DEF UnderWay
<1>6. pc[o] # "end" => Store!Undecided(o)
  BY <1>1, <1>3, <1>5 DEF Store!Undecided, Stage, Inside
<1>7. ASSUME outcome' = [outcome EXCEPT ![o] = "failed"], file' = file, pc[o] # "end"
      PROVE  Store!Fails(o)
  BY <1>3, <1>4, <1>6, <1>7 DEF Store!Fails
<1>8. ASSUME pc[o] # "end", outside # 0 \/ Store!Fits(o), Store!Effect(o),
             outcome' = [outcome EXCEPT ![o] = "ok"]
      PROVE  Store!TakesEffect(o)
  BY <1>3, <1>4, <1>6, <1>8 DEF Store!TakesEffect
<1> USE DEF Store!Path, Store!Now, Store!Puts, Store!Whole, Store!Torn, Store!With, Store!Content,
            Whole, Torn, With
<1>9. CASE Check(o) \/ WriteTempFails(o)
  <2>1. /\ file' = file /\ pc[o] # "end"
        /\ outcome' = outcome \/ outcome' = [outcome EXCEPT ![o] = "failed"]
    BY <1>9 DEF Check, Look, Read, WriteTemp, Again, WriteTempFails, Goto, Ends
  <2> QED
    BY <2>1, <1>3, <1>4, <1>7
<1>10. CASE CreateFile(o)
  <2>1. CASE file[req[o].path] # Absent
    BY <2>1, <1>10, <1>7 DEF CreateFile, Ends
  <2>2. CASE file[req[o].path] = Absent
    <3>1. /\ pc[o] = "commit" /\ req[o].kind = "create" /\ outcome' = outcome
          /\ file' = [file EXCEPT ![req[o].path] = Torn({o})]
      BY <2>2, <1>10 DEF CreateFile, Goto
    <3>2. Store!Begins(o)
      BY <2>2, <3>1, <1>3, <1>4, <1>6 DEF Store!Begins
    <3> QED
      BY <3>2
  <2> QED
    BY <2>1, <2>2
<1>11. CASE FillFile(o)
  <2>1. /\ pc[o] = "fill" /\ req[o].kind = "create" /\ req[o].expected = Absent
        /\ outcome' = [outcome EXCEPT ![o] = "ok"]
        /\ file' = [file EXCEPT ![req[o].path] =
                       IF file[req[o].path] = Torn({o}) THEN Whole({o}) ELSE file[req[o].path]]
    BY <1>11, <1>1 DEF FillFile, Ends, Stage
  <2>2. Store!Effect(o)
    BY <2>1, <1>2 DEF Store!Effect, InPlace
  <2>3. Store!Fits(o)
    BY <2>1 DEF Store!Fits
  <2> QED
    BY <2>1, <2>2, <2>3, <1>8
<1>12. CASE AppendFile(o)
  <2>1. /\ pc[o] = "commit" /\ req[o].kind = "append"
        /\ outcome' = [outcome EXCEPT ![o] = "ok"]
        /\ file' = [file EXCEPT ![req[o].path] =
                       IF file[req[o].path] = Absent THEN Whole({o}) ELSE With(file[req[o].path], o)]
    BY <1>12 DEF AppendFile, Ends
  <2>2. Store!Effect(o)
    BY <2>1 DEF Store!Effect
  <2>3. outside = 0 => Store!Fits(o)
    BY <2>1, <1>2 DEF Store!Fits, Known
  <2> QED
    BY <2>1, <2>2, <2>3, <1>8
<1>13. CASE RenameTemp(o)
  <2>1. /\ pc[o] = "commit" /\ req[o].kind \in {"replace", "edit"}
        /\ outcome' = [outcome EXCEPT ![o] = "ok"]
        /\ file' = [file EXCEPT ![req[o].path] = temp[o]]
    BY <1>13 DEF RenameTemp, Ends
  <2>2. outside = 0 => Store!Fits(o)
    BY <2>1, <1>2 DEF Store!Fits, Known, InPlace
  <2>3. CASE req[o].kind = "replace"
    <3>1. temp[o] = Whole({o})
      BY <2>1, <2>3, <1>2 DEF Prepared
    <3>2. Store!Effect(o)
      BY <2>1, <2>3, <3>1 DEF Store!Effect
    <3> QED
      BY <2>1, <2>2, <3>2, <1>8
  <2>4. CASE req[o].kind = "edit"
    <3>1. \E c \in Content : (outside # 0 \/ c = file[req[o].path]) /\ temp[o] = With(c, o)
      <4>1. CASE outside = 0
        BY <4>1, <2>1, <2>4, <1>1, <1>2 DEF Known, InPlace
      <4>2. CASE outside # 0
        BY <4>2, <2>1, <2>4, <1>2 DEF Prepared
      <4> QED
        BY <4>1, <4>2
    <3>2. Store!Effect(o)
      BY <2>1, <2>4, <3>1 DEF Store!Effect, Content
    <3> QED
      BY <2>1, <2>2, <3>2, <1>8
  <2> QED
    BY <2>1, <2>3, <2>4
<1>14. CASE MoveFile(o)
  <2>1. CASE file[req[o].path] = Absent
    BY <2>1, <1>14, <1>7 DEF MoveFile, Ends
  <2>2. CASE file[req[o].path] # Absent
    <3>1. /\ pc[o] = "commit" /\ req[o].kind = "move" /\ req[o].expected = Absent
          /\ outcome' = [outcome EXCEPT ![o] = "ok"]
          /\ file' = [file EXCEPT ![req[o].dest] = file[req[o].path], ![req[o].path] = Absent]
      BY <2>2, <1>14, <1>1 DEF MoveFile, Ends, Stage
    <3>2. Store!Effect(o)
      BY <2>2, <3>1 DEF Store!Effect
    <3>3. outside = 0 => Store!Fits(o)
      BY <2>2, <3>1, <1>2 DEF Store!Fits, Known
    <3> QED
      BY <3>1, <3>2, <3>3, <1>8
  <2> QED
    BY <2>1, <2>2
<1>15. CASE DeleteFile(o)
  <2>1. CASE file[req[o].path] = Absent
    <3>1. file' = file /\ outcome' = [outcome EXCEPT ![o] = "failed"] /\ pc[o] # "end"
      BY <2>1, <1>15, <1>1 DEF DeleteFile, Ends, TypeOK
    <3> QED
      BY <3>1, <1>7
  <2>2. CASE file[req[o].path] # Absent
    <3>1. /\ pc[o] = "commit" /\ req[o].kind = "delete" /\ req[o].expected = Absent
          /\ outcome' = [outcome EXCEPT ![o] = "ok"]
          /\ file' = [file EXCEPT ![req[o].path] = Absent]
      BY <2>2, <1>15, <1>1 DEF DeleteFile, Ends, Stage
    <3>2. Store!Effect(o)
      BY <2>2, <3>1 DEF Store!Effect
    <3>3. Store!Fits(o)
      BY <2>2, <3>1 DEF Store!Fits
    <3> QED
      BY <3>1, <3>2, <3>3, <1>8
  <2> QED
    BY <2>1, <2>2
<1>16. CASE CommitFails(o)
  <2>1. outcome' = [outcome EXCEPT ![o] = "failed"] /\ pc[o] # "end"
    BY <1>16 DEF CommitFails, Ends
  <2>2. CASE pc[o] = "commit" /\ req[o].kind = "append" /\ file[req[o].path] # Absent
    <3>1. file' = [file EXCEPT ![req[o].path] = [With(file[req[o].path], o) EXCEPT !.whole = FALSE]]
      BY <2>2, <1>16 DEF CommitFails
    <3>2. Store!Tears(o)
      BY <2>1, <2>2, <3>1, <1>3, <1>4, <1>6 DEF Store!Tears
    <3> QED
      BY <3>2
  <2>3. CASE ~(pc[o] = "commit" /\ req[o].kind = "append" /\ file[req[o].path] # Absent)
    <3>1. file' = file
      BY <2>3, <1>16 DEF CommitFails
    <3> QED
      BY <2>1, <3>1, <1>7
  <2> QED
    BY <2>2, <2>3
<1> QED
  BY <1>9, <1>10, <1>11, <1>12, <1>13, <1>14, <1>15, <1>16 DEF Commit, Fault

LEMMA InitStore == Init => Store!Init
<1> SUFFICES ASSUME Init PROVE Store!Init
  OBVIOUS
<1>1. TypeOK
  BY InitTypes
<1>2. Phase = [o \in Ops |-> "new"]
  <2>1. \A o \in Ops : Phase[o] = "new"
    BY PhaseOf DEF Init
  <2> QED
    BY <2>1 DEF Phase
<1>3. req \in [Ops -> Store!Requests]
  BY <1>1 DEF TypeOK, Requests, Kinds, Content, Store!Requests, Store!Content
<1> QED
  BY <1>2, <1>3 DEF Init, Store!Init, Whole, Store!Whole

LEMMA StoreStep ==
    TypeOK /\ TypeOK' /\ Whence /\ StillTrue /\ Ready /\ [Next]_vars => [Store!Next]_(Store!vars)
<1> SUFFICES ASSUME TypeOK, TypeOK', Whence, StillTrue, Ready, [Next]_vars
             PROVE  Store!Next \/ UNCHANGED Store!vars
  OBVIOUS
<1>v. UNCHANGED <<file, req, Phase, outcome, outside>> => UNCHANGED Store!vars
  BY DEF Store!vars
<1>1. ASSUME NEW o \in Ops, NEW k \in Kinds, NEW p \in Paths, NEW q \in Paths,
             NEW over \in BOOLEAN, NEW c \in {file[p], Absent},
             Request(o, [kind |-> k, path |-> p, dest |-> q, expected |-> c, overwrite |-> over])
      PROVE  Store!Arrives(o)
  <2>1. /\ UNCHANGED <<file, outcome, outside>> /\ pc[o] = "new"
        /\ \A u \in Ops \ {o} : req'[u] = req[u]
        /\ \E w \in {"check", "ask"} : pc' = [pc EXCEPT ![o] = w]
    BY <1>1 DEF Request, bounds, TypeOK
  <2>2. Phase' = [Phase EXCEPT ![o] = "open"]
    BY <2>1, PhaseMoves
  <2>3. req' \in [Ops -> Store!Requests]
    BY DEF TypeOK, Requests, Kinds, Content, Store!Requests, Store!Content
  <2>4. Phase[o] = "new"
    BY <2>1, PhaseOf
  <2> QED
    BY <2>1, <2>2, <2>3, <2>4 DEF Store!Arrives
<1>2. ASSUME NEW o \in Ops, Precheck(o)
      PROVE  Store!Fails(o) \/ UNCHANGED Store!vars
  <2>1. UNCHANGED <<file, req, outside>> /\ pc[o] = "check"
    BY <1>2 DEF Precheck, bounds
  <2>2. CASE pc' = [pc EXCEPT ![o] = "answered"] /\ outcome' = [outcome EXCEPT ![o] = "failed"]
    <3>1. Phase' = [Phase EXCEPT ![o] = "closed"]
      BY <2>2, PhaseMoves
    <3>2. Store!Undecided(o)
      BY <2>1, PhaseOf DEF Store!Undecided, Whence, Stage, UnderWay
    <3> QED
      BY <2>1, <2>2, <3>1, <3>2 DEF Store!Fails
  <2>3. CASE pc' = [pc EXCEPT ![o] = "ask"] /\ outcome' = outcome
    <3>1. Phase' = Phase
      BY <2>1, <2>3, PhaseStays DEF UnderWay, Inside, TypeOK
    <3> QED
      BY <2>1, <2>3, <3>1, <1>v
  <2> QED
    BY <1>2, <2>2, <2>3 DEF Precheck
<1>3. ASSUME NEW o \in Ops, Ask(o) \/ Turn(o) PROVE UNCHANGED Store!vars
  <2>1. /\ UNCHANGED <<file, req, outcome, outside>> /\ pc[o] \in {"ask", "wait"}
        /\ \E w \in {"ask", "wait", "look"} : pc' = [pc EXCEPT ![o] = w]
    BY <1>3 DEF Ask, Turn, bounds
  <2>2. Phase' = Phase
    BY <2>1, PhaseStays DEF UnderWay, Inside, TypeOK
  <2> QED
    BY <2>1, <2>2, <1>v
<1>4. ASSUME NEW o \in Ops, Finish(o) PROVE Store!Answers(o)
  <2>1. /\ UNCHANGED <<file, req, outside>> /\ pc[o] = "end"
        /\ pc' = [pc EXCEPT ![o] = "answered"]
        /\ \/ outcome' = outcome
           \/ /\ outcome' = [outcome EXCEPT ![o] = "failed"]
              /\ req[o].kind \in {"create", "replace", "append"} /\ file[req[o].path] = Absent
    BY <1>4 DEF Finish, bounds
  <2>2. Phase' = [Phase EXCEPT ![o] = "closed"] /\ Phase[o] = "open"
    BY <2>1, PhaseMoves, PhaseOf DEF UnderWay, Inside
  <2>3. outcome[o] \in {"ok", "failed"}
    BY <2>1 DEF Ready, Prepared, TypeOK
  <2>4. outcome' = outcome \/ (outside # 0 /\ outcome' = [outcome EXCEPT ![o] = "failed"])
    <3>1. CASE outcome[o] = "failed"
      BY <3>1, <2>1 DEF TypeOK
    <3>2. CASE outcome[o] = "ok" /\ outside = 0
      BY <3>2, <2>1 DEF Ready, InPlace
    <3> QED
      BY <3>1, <3>2, <2>1, <2>3
  <2> QED
    BY <2>1, <2>2, <2>3, <2>4 DEF Store!Answers
<1>5. ASSUME NEW o \in Ops, Check(o) \/ Commit(o) \/ Fault(o)
      PROVE  \/ Store!TakesEffect(o) \/ Store!Begins(o) \/ Store!Tears(o) \/ Store!Fails(o)
             \/ UNCHANGED Store!vars
  BY <1>5, <1>v, WorkIsEffect
<1>6. ASSUME NEW p \in Paths, OutsideChange(p) PROVE Store!Disturbs
  <2>1. /\ UNCHANGED <<req, pc, outcome>> /\ outside' = outside + 1
        /\ \E c \in {Absent, Whole({Outsider})} : file' = [file EXCEPT ![p] = c]
    BY <1>6 DEF OutsideChange
  <2>3. outside' # 0
    BY <2>1 DEF TypeOK
  <2>2. Phase' = Phase
    BY <2>1, PhaseStays DEF UnderWay, Inside
  <2> QED
    BY <2>1, <2>2, <2>3 DEF Store!Disturbs, Whole, Store!Whole
<1>7. CASE Kill
  <2>1. /\ UNCHANGED <<file, req, outcome, outside>>
        /\ pc' = [o \in Ops |-> IF UnderWay(o) THEN "lost" ELSE pc[o]]
    BY <1>7 DEF Kill
  <2>2. Phase' = [o \in Ops |-> IF Phase[o] = "open" THEN "closed" ELSE Phase[o]]
    <3>1. \A o \in Ops : Phase'[o] = IF Phase[o] = "open" THEN "closed" ELSE Phase[o]
      BY <2>1 DEF Phase, UnderWay, Inside
    <3> QED
      BY <3>1 DEF Phase
  <2> QED
    BY <2>1, <2>2 DEF Store!Dies, Store!Next
<1>8. CASE UNCHANGED vars
  <2>1. UNCHANGED <<file, req, pc, outcome, outside>>
    BY <1>8 DEF vars, bounds
  <2>2. Phase' = Phase
    BY <2>1, PhaseStays DEF UnderWay, Inside
  <2> QED
    BY <2>1, <2>2, <1>v
<1> QED
  BY <1>1, <1>2, <1>3, <1>4, <1>5, <1>6, <1>7, <1>8 DEF Next, Queue, Store!Next

(***************************************************************************)
(* No circular wait.                                                       *)
(***************************************************************************)

\* It has the turn for a path it has asked for.
HasIts(o, p) == prior[o][p] \notin InLine(p)

\* The last of the paths it has asked for.
Last(o, k) == /\ k \in asked[o]
              /\ \A p \in asked[o] : p <= k
              /\ \A q \in Keys(o) \ asked[o] : k <= q

\* A call asks for its paths in order, and waits for one at a time.
InOrder(o) ==
    /\ asked[o] \subseteq Keys(o)
    /\ pc[o] \in {"new", "check", "answered", "lost"} => asked[o] = {}
    /\ pc[o] = "ask" => /\ \A p \in asked[o] : HasIts(o, p)
                        /\ \A p \in asked[o], q \in Keys(o) \ asked[o] : p <= q
    /\ pc[o] = "wait" => \E k \in asked[o] : Last(o, k) /\ \A p \in asked[o] \ {k} : HasIts(o, p)

Sorted == \A o \in Ops : InOrder(o)

\* A call that does not wait, or need not any longer.
GoesOn(o) == UnderWay(o) /\ (pc[o] = "wait" => \A p \in asked[o] : Resolved(o, p))

SomeCallGoesOn == (\E o \in Ops : UnderWay(o)) => \E o \in Ops : GoesOn(o)

LEMMA InitSorted == Init => Sorted
BY DEF Init, Sorted, InOrder

\* Whoever has its turn keeps it: nobody it has waited for comes back.
LEMMA TurnsStay ==
    ASSUME Inv, [Next]_vars, NEW o \in Ops, NEW p \in asked[o], HasIts(o, p),
           prior'[o] = prior[o], \A u \in Ops : asked[u] \subseteq Keys(u) /\ Keys(u) \subseteq Paths
    PROVE  HasIts(o, p)'
<1>0. p \in Paths /\ o \in InLine(p) /\ Line(p)
  BY DEF InLine, Inv
<1>1. \A u \in Ops : p \in asked'[u] => p \in asked[u] \/ (pc[u] = "ask" /\ Ask(u))
  <2>1. CASE UNCHANGED asked
    BY <2>1
  <2>2. CASE Kill
    BY <2>2 DEF Kill
  <2>3. ASSUME NEW v \in Ops, Finish(v)
        PROVE  \A u \in Ops : p \in asked'[u] => p \in asked[u]
    BY <2>3 DEF Finish, Release, Inv, QueueType
  <2>4. ASSUME NEW v \in Ops, Ask(v)
        PROVE  \A u \in Ops : p \in asked'[u] => p \in asked[u] \/ (pc[u] = "ask" /\ Ask(u))
    BY <2>4 DEF Ask, Inv, QueueType
  <2>5. \/ UNCHANGED asked \/ Kill
        \/ \E v \in Ops : Finish(v) \/ Ask(v)
    <3>1. ASSUME NEW v \in Ops, NEW r, Request(v, r) PROVE UNCHANGED asked
      BY <3>1 DEF Request, queueVars
    <3>2. ASSUME NEW v \in Ops, Precheck(v) \/ Turn(v) PROVE UNCHANGED asked
      BY <3>2 DEF Precheck, Turn, queueVars
    <3>3. ASSUME NEW v \in Ops, Check(v) \/ Commit(v) \/ Fault(v) PROVE UNCHANGED asked
      BY <3>3 DEF Check, Look, Read, WriteTemp, Again, Commit, CreateFile, FillFile, AppendFile,
            RenameTemp, MoveFile, DeleteFile, Fault, WriteTempFails, CommitFails, queueVars
    <3>4. ASSUME NEW x \in Paths, OutsideChange(x) PROVE UNCHANGED asked
      BY <3>4 DEF OutsideChange, queueVars
    <3>5. CASE UNCHANGED vars
      BY <3>5 DEF vars, queueVars
    <3> QED
      BY <3>1, <3>2, <3>3, <3>4, <3>5 DEF Next, Queue
  <2> QED
    BY <2>1, <2>2, <2>3, <2>4, <2>5
<1>2. prior[o][p] \in Ops => pc[prior[o][p]] = "answered"
  BY <1>0 DEF HasIts, Line, LeftForGood
<1> QED
  BY <1>1, <1>2 DEF HasIts, InLine

LEMMA StepSorted == TypeOK /\ Inv /\ Sorted /\ [Next]_vars => Sorted'
<1> SUFFICES ASSUME TypeOK, Inv, Sorted, [Next]_vars, NEW u \in Ops PROVE InOrder(u)'
  BY DEF Sorted
<1>u. InOrder(u)
  BY DEF Sorted
<1>k. \A o \in Ops : asked[o] \subseteq Keys(o) /\ Keys(o) \subseteq Paths
  BY DEF Sorted, InOrder, Keys, TypeOK, Requests
<1>n. Paths \subseteq Nat
  BY MutationAssumption
<1>s. ASSUME req'[u] = req[u], pc'[u] = pc[u], asked'[u] = asked[u], prior'[u] = prior[u]
      PROVE  InOrder(u)'
  <2>1. \A p \in asked[u] : HasIts(u, p) => HasIts(u, p)'
    BY <1>s, <1>k, TurnsStay
  <2>2. Keys(u)' = Keys(u)
    BY <1>s DEF Keys
  <2>3. \A k : Last(u, k) => Last(u, k)'
    BY <1>s, <2>2 DEF Last
  <2> QED
    BY <1>s, <1>u, <2>1, <2>2, <2>3 DEF InOrder
<1>1. ASSUME NEW o \in Ops, NEW k \in Kinds, NEW p \in Paths, NEW q \in Paths,
             NEW over \in BOOLEAN, NEW c \in {file[p], Absent},
             Request(o, [kind |-> k, path |-> p, dest |-> q, expected |-> c, overwrite |-> over])
      PROVE  InOrder(u)'
  <2>1. /\ pc[o] = "new" /\ UNCHANGED queueVars
        /\ u # o => pc'[u] = pc[u] /\ req'[u] = req[u]
        /\ pc'[o] \in {"check", "ask"}
    BY <1>1 DEF Request, TypeOK
  <2>2. CASE u = o
    <3>1. asked'[u] = {}
      BY <2>1, <2>2, <1>u DEF InOrder, queueVars
    <3> QED
      BY <2>1, <2>2, <3>1 DEF InOrder
  <2> QED
    BY <2>1, <2>2, <1>s DEF queueVars
<1>2. ASSUME NEW o \in Ops, Precheck(o) PROVE InOrder(u)'
  <2>1. /\ pc[o] = "check" /\ UNCHANGED <<req, queueVars>>
        /\ u # o => pc'[u] = pc[u]
        /\ pc'[o] \in {"answered", "ask"}
    BY <1>2 DEF Precheck, TypeOK
  <2>2. CASE u = o
    <3>1. asked'[u] = {}
      BY <2>1, <2>2, <1>u DEF InOrder, queueVars
    <3> QED
      BY <2>1, <2>2, <3>1 DEF InOrder
  <2> QED
    BY <2>1, <2>2, <1>s DEF queueVars
<1>3. ASSUME NEW o \in Ops, Ask(o) PROVE InOrder(u)'
  <2>1. PICK k \in Keys(o) \ asked[o] :
          /\ \A q \in Keys(o) \ asked[o] : k <= q
          /\ asked' = [asked EXCEPT ![o] = @ \cup {k}]
          /\ prior' = [prior EXCEPT ![o][k] = tail[k]]
    BY <1>3 DEF Ask
  <2>2. /\ pc[o] = "ask" /\ pc' = [pc EXCEPT ![o] = "wait"] /\ req' = req
        /\ k \in Paths /\ Keys(u)' = Keys(u)
    BY <1>3, <1>k DEF Ask, Keys
  <2>3. CASE u # o
    BY <2>1, <2>2, <2>3, <1>s DEF TypeOK
  <2>4. CASE u = o
    <3>1. /\ asked'[u] = asked[u] \cup {k} /\ pc'[u] = "wait"
          /\ \A p \in asked[u] : p <= k
      BY <2>1, <2>2, <2>4, <1>u DEF InOrder, TypeOK
    <3>2. Last(u, k)'
      BY <3>1, <2>1, <2>2, <2>4, <1>n DEF Last
    <3>3. ASSUME NEW p \in asked[u] PROVE HasIts(u, p)'
      <4>1. /\ p \in Paths /\ p # k /\ HasIts(u, p) /\ u \in InLine(p) /\ Line(p)
            /\ prior'[u][p] = prior[u][p]
        BY <2>1, <2>2, <2>4, <1>k, <1>u DEF InOrder, TypeOK, InLine, Inv
      <4>2. InLine(p)' = InLine(p)
        BY <4>1, <2>1 DEF InLine, TypeOK
      <4> QED
        BY <4>1, <4>2 DEF HasIts
    <3>4. asked'[u] \subseteq Keys(u)'
      BY <3>1, <2>1, <2>2, <2>4, <1>k
    <3> QED
      BY <3>1, <3>2, <3>3, <3>4 DEF InOrder
  <2> QED
    BY <2>3, <2>4
<1>4. ASSUME NEW o \in Ops, Turn(o) PROVE InOrder(u)'
  <2>1. /\ pc[o] = "wait" /\ UNCHANGED <<req, queueVars>>
        /\ pc' = [pc EXCEPT ![o] = IF asked[o] = Keys(o) THEN "look" ELSE "ask"]
        /\ \A p \in asked[o] : Resolved(o, p)
    BY <1>4 DEF Turn
  <2>2. CASE u # o
    BY <2>1, <2>2, <1>s DEF queueVars, TypeOK
  <2>3. CASE u = o
    <3>1. \A p \in asked[u] : HasIts(u, p)
      BY <2>1, <2>3, <1>k, ResolvedIsHead DEF Inv, HasIts
    <3>2. \A p \in asked[u] : HasIts(u, p)'
      BY <3>1, <2>1, <1>k, TurnsStay DEF queueVars
    <3>3. Keys(u)' = Keys(u) /\ asked'[u] = asked[u] /\ pc'[u] \in {"look", "ask"}
      BY <2>1, <2>3 DEF Keys, queueVars, TypeOK
    <3>4. PICK k \in asked[u] : Last(u, k)
      BY <2>1, <2>3, <1>u DEF InOrder
    <3>5. \A p \in asked[u], q \in Keys(u) \ asked[u] : p <= q
      <4> SUFFICES ASSUME NEW p \in asked[u], NEW q \in Keys(u) \ asked[u] PROVE p <= q
        OBVIOUS
      <4>1. p \in Nat /\ q \in Nat /\ k \in Nat /\ p <= k /\ k <= q
        BY <3>4, <1>k, <1>n DEF Last
      <4> QED
        BY <4>1
    <3> QED
      BY <3>2, <3>3, <3>5, <1>u DEF InOrder
  <2> QED
    BY <2>2, <2>3
<1>5. ASSUME NEW o \in Ops, Finish(o) PROVE InOrder(u)'
  <2>1. /\ req' = req /\ pc'[o] = "answered" /\ asked'[o] = {}
        /\ u # o => pc'[u] = pc[u] /\ asked'[u] = asked[u] /\ prior'[u] = prior[u]
    BY <1>5 DEF Finish, Release, TypeOK
  <2>2. CASE u = o
    BY <2>1, <2>2 DEF InOrder
  <2> QED
    BY <2>1, <2>2, <1>s
<1>6. ASSUME NEW o \in Ops, Check(o) \/ Commit(o) \/ Fault(o) PROVE InOrder(u)'
  <2>1. UNCHANGED <<req, queueVars>>
    BY <1>6 DEF Check, Look, Read, WriteTemp, Again, Commit, CreateFile, FillFile, AppendFile,
          RenameTemp, MoveFile, DeleteFile, Fault, WriteTempFails, CommitFails
  <2>2. u # o => pc'[u] = pc[u]
    BY <1>6, WorkIsLocal DEF Works, Local
  <2>3. CASE u = o
    <3>1. \A k \in Kinds : AfterLook[k] \in {"commit", "temp", "again", "read"}
      BY DEF AfterLook, Kinds
    <3>2. req[o].kind \in Kinds
      BY DEF TypeOK, Requests
    <3>3. pc'[o] \in {"read", "temp", "again", "commit", "fill", "end"}
      BY <1>6, <3>1, <3>2 DEF Check, Look, Read, WriteTemp, Again, Commit, CreateFile, FillFile,
            AppendFile, RenameTemp, MoveFile, DeleteFile, Fault, WriteTempFails, CommitFails,
            Goto, Ends, TypeOK
    <3> QED
      BY <2>1, <2>3, <3>3, <1>u DEF InOrder, queueVars, Keys
  <2> QED
    BY <2>1, <2>2, <2>3, <1>s DEF queueVars
<1>7. ASSUME NEW p \in Paths, OutsideChange(p) PROVE InOrder(u)'
  BY <1>7, <1>s DEF OutsideChange, queueVars
<1>8. CASE Kill
  <2>1. asked'[u] = {} /\ pc'[u] = IF UnderWay(u) THEN "lost" ELSE pc[u]
    BY <1>8 DEF Kill
  <2>2. pc'[u] \notin {"ask", "wait"}
    BY <2>1 DEF UnderWay
  <2> QED
    BY <2>1, <2>2 DEF InOrder
<1>9. CASE UNCHANGED vars
  BY <1>9, <1>s DEF vars, queueVars
<1> QED
  BY <1>1, <1>2, <1>3, <1>4, <1>5, <1>6, <1>7, <1>8, <1>9 DEF Next, Queue

\* Of finitely many paths that are waited for, one is the last.
LEMMA LastPath ==
    ASSUME IsFiniteSet(Paths), NEW K \in SUBSET Paths, K # {}
    PROVE  \E k \in K : \A q \in K : q <= k
<1> DEFINE Above(p) == {q \in Paths : p < q}
           T == {Above(p) : p \in K}
           R == StrictSubsetOrdering(Paths)
<1>1. T \subseteq FiniteSubsetsOf(Paths) /\ T # {}
  <2>1. FiniteSubsetsOf(Paths) = SUBSET Paths
    BY FS_FiniteSubsetsOfFinite
  <2>2. \A p \in K : Above(p) \in SUBSET Paths
    OBVIOUS
  <2> HIDE DEF Above
  <2>3. \A y \in T : y \in SUBSET Paths
    BY <2>2
  <2>4. T # {}
    OBVIOUS
  <2> QED
    BY <2>1, <2>3, <2>4
<1>2. IsWellFoundedOn(R, FiniteSubsetsOf(Paths))
  BY FS_StrictSubsetOrderingWellFounded
<1>3. PICK x \in T : \A y \in T : ~ (<<y, x>> \in R)
  <2> HIDE DEF T, R
  <2> QED
    BY <1>1, <1>2, WFMin
<1>4. PICK k \in K : x = Above(k)
  OBVIOUS
<1>5. ASSUME NEW q \in K, ~ (q <= k) PROVE FALSE
  <2>1. q \in Nat /\ k \in Nat /\ k < q /\ Paths \subseteq Nat
    BY <1>5, MutationAssumption
  <2>2. \A z \in Paths : q < z => k < z
    BY <2>1
  <2>3. q \in Above(k) /\ q \notin Above(q)
    BY <2>1
  <2>4. Above(q) \in T /\ Above(q) \in SUBSET Paths /\ Above(k) \in SUBSET Paths
    OBVIOUS
  <2>5. Above(q) \subseteq Above(k)
    BY <2>2
  <2>6. <<Above(q), Above(k)>> \in R
    <3> HIDE DEF Above
    <3> QED
      BY <2>5, <2>3, <2>4 DEF StrictSubsetOrdering
  <2> QED
    BY <1>3, <1>4, <2>4, <2>6
<1> QED
  BY <1>5

LEMMA NobodyBlocked ==
    ASSUME IsFiniteSet(Paths), TypeOK, Inv, Sorted PROVE SomeCallGoesOn
<1>k. \A u \in Ops : asked[u] \subseteq Keys(u) /\ Keys(u) \subseteq Paths
  <2>1. \A u \in Ops : asked[u] \subseteq Keys(u)
    BY DEF Sorted, InOrder
  <2>2. \A u \in Ops : req[u].path \in Paths /\ req[u].dest \in Paths
    BY DEF TypeOK, Requests
  <2> QED
    BY <2>1, <2>2 DEF Keys
<1> SUFFICES ASSUME NEW o \in Ops, UnderWay(o), \A u \in Ops : ~GoesOn(u) PROVE FALSE
  BY DEF SomeCallGoesOn
<1>n. Paths \subseteq Nat
  BY MutationAssumption
<1> DEFINE K == {p \in Paths : \E u \in Ops : UnderWay(u) /\ p \in asked[u] /\ ~HasIts(u, p)}
<1>1. ASSUME NEW u \in Ops, UnderWay(u)
      PROVE  pc[u] = "wait" /\ \E p \in asked[u] : ~HasIts(u, p)
  BY <1>1, <1>k, ResolvedIsHead DEF GoesOn, Inv, HasIts
<1>2. K # {}
  BY <1>1, <1>k
<1>3. PICK k \in K : \A q \in K : q <= k
  <2> HIDE DEF K
  <2>1. K \in SUBSET Paths
    BY DEF K
  <2> QED
    BY <1>2, <2>1, LastPath
<1>4. PICK h \in InLine(k) : HasIts(h, k)
  <2>1. InLine(k) # {} /\ Line(k)
    BY DEF Inv, InLine
  <2> QED
    BY <2>1 DEF Line, NoRing, HasIts
<1>5. h \in Ops /\ k \in asked[h] /\ k \in Paths
  BY DEF InLine
<1>6. UnderWay(h)
  BY <1>5 DEF Sorted, InOrder, TypeOK, Pc, UnderWay, Inside
<1>7. PICK q \in asked[h] : ~HasIts(h, q)
  BY <1>1, <1>5, <1>6
<1>8. q \in K /\ q # k
  BY <1>4, <1>5, <1>6, <1>7, <1>k
<1>9. PICK l \in asked[h] : Last(h, l) /\ \A p \in asked[h] \ {l} : HasIts(h, p)
  BY <1>1, <1>5, <1>6 DEF Sorted, InOrder
<1>10. l = q /\ k <= q
  BY <1>5, <1>7, <1>9 DEF Last
<1>11. q \in Nat /\ k \in Nat /\ q <= k
  BY <1>3, <1>8, <1>n
<1> QED
  BY <1>8, <1>10, <1>11

(***************************************************************************)
(* The theorems.                                                           *)
(***************************************************************************)

\* The queues of serialized: each path has one line of calls, with one head,
\* and a tail as long as there is a line.
THEOREM QueueInvariant == Spec => []Inv
BY InitInv, StepKeepsInv, PTL DEF Spec

\* Two calls that name the same path are never both in their functions, for
\* any number of calls, however they come, wait, fail and go.
THEOREM OneAtATimeHolds == Spec => []OneAtATime
<1>1. Inv => OneAtATime
  <2> SUFFICES ASSUME Inv, NEW o \in Ops, NEW u \in Ops, o # u, Inside(o), Inside(u),
                      NEW p \in Keys(o) \cap Keys(u)
               PROVE  FALSE
    BY DEF OneAtATime
  <2>1. p \in asked[o] /\ prior[o][p] \notin InLine(p)
    BY DEF Inv, HasTurn
  <2>2. p \in asked[u] /\ prior[u][p] \notin InLine(p)
    BY DEF Inv, HasTurn
  <2>3. p \in Paths /\ o \in InLine(p) /\ u \in InLine(p)
    BY <2>1, <2>2 DEF Inv, QueueType, InLine
  <2> QED
    BY <2>1, <2>2, <2>3 DEF Inv, Line, OneHead
<1> QED
  BY QueueInvariant, <1>1, PTL

\* Every variable keeps its type, and every torn content, in a file or on its
\* way into one, is the work of a create or an append that has arrived.
THEOREM ContentsInvariant == Spec => [](TypeOK /\ Whence)
BY InitTypes, InitWhence, StepTypes, StepWhence, PTL DEF Spec

\* Every variable keeps its type, for any number of calls, paths and troubles.
THEOREM TypeCorrect == Spec => []TypeOK
BY ContentsInvariant, PTL

\* Calls never wait for one another in a circle, moves in opposite directions
\* included: while a call is under way, one can go on, for any number of calls on
\* finitely many paths (mutation-ops.mjs:248-258).
THEOREM SomeCallGoesOnHolds == ASSUME IsFiniteSet(Paths) PROVE Spec => []SomeCallGoesOn
<1>1. Spec => []Sorted
  BY InitSorted, StepSorted, TypeCorrect, QueueInvariant, PTL DEF Spec
<1>2. TypeOK /\ Inv /\ Sorted => SomeCallGoesOn
  BY NobodyBlocked
<1> QED
  BY <1>1, <1>2, TypeCorrect, QueueInvariant, PTL

\* A replace or an edit never leaves a file half written, whatever is refused
\* and whenever the process dies.
THEOREM NoHalfReplacementHolds == Spec => []NoHalfReplacement
<1>1. TypeOK /\ Whence => NoHalfReplacement
  BY DEF Whence, By, Tearers, NoHalfReplacement
<1> QED
  BY ContentsInvariant, <1>1, PTL

\* The calls of the agent never undo one another, while no other program
\* writes: what each has checked still holds when it changes the file.
THEOREM ActsOnWhatItCheckedHolds == Spec => ActsOnWhatItChecked
<1>1. Spec => []StillTrue
  BY InitKnown, StepKnown, ContentsInvariant, OneAtATimeHolds, PTL DEF Spec
<1>2. TypeOK /\ Whence /\ StillTrue /\ [Next]_vars =>
        [\A o \in Ops :
           LET p == req[o].path IN
           outside = 0 /\ pc[o] = "commit" /\ outcome'[o] = "ok" =>
              /\ req[o].kind \in {"edit", "append"} => file'[p] = With(file[p], o)
              /\ req[o].expected # Absent => file[p] = req[o].expected
              /\ req[o].kind = "move" /\ ~req[o].overwrite => file[req[o].dest] = Absent]_vars
  <2> SUFFICES ASSUME TypeOK, Whence, StillTrue, [Next]_vars, ~ UNCHANGED vars, NEW o \in Ops,
                      outside = 0, pc[o] = "commit", outcome'[o] = "ok"
               PROVE  LET p == req[o].path IN
                      /\ req[o].kind \in {"edit", "append"} => file'[p] = With(file[p], o)
                      /\ req[o].expected # Absent => file[p] = req[o].expected
                      /\ req[o].kind = "move" /\ ~req[o].overwrite => file[req[o].dest] = Absent
    OBVIOUS
  <2>1. Known(o) /\ outcome[o] = "none" /\ req[o].path \in Paths
    BY DEF StillTrue, Whence, Stage, TypeOK, Requests
  <2>2. Commit(o)
    <3>1. ASSUME NEW u \in Ops, NEW r, Request(u, r) PROVE FALSE
      BY <3>1, <2>1 DEF Request
    <3>2. ASSUME NEW u \in Ops, Precheck(u) \/ Ask(u) \/ Turn(u) PROVE FALSE
      BY <3>2, <2>1 DEF Precheck, Ask, Turn, TypeOK
    <3>3. ASSUME NEW u \in Ops, Works(u), u # o PROVE FALSE
      BY <3>3, <2>1, WorkIsLocal DEF Local
    <3>4. ~(Finish(o) \/ Check(o))
      BY DEF Finish, Check, Look, Read, WriteTemp, Again
    <3>5. ~Fault(o)
      BY DEF Fault, WriteTempFails, CommitFails, Ends, TypeOK
    <3>6. ASSUME NEW p \in Paths, OutsideChange(p) PROVE FALSE
      BY <3>6, <2>1 DEF OutsideChange
    <3>7. ~Kill
      BY <2>1 DEF Kill
    <3> QED
      BY <3>1, <3>2, <3>3, <3>4, <3>5, <3>6, <3>7 DEF Next, Queue, Works
  <2>3. req[o].kind = "edit" => file'[req[o].path] = temp[o]
    BY <2>1, <2>2 DEF Commit, CreateFile, FillFile, AppendFile, RenameTemp, MoveFile, DeleteFile,
          TypeOK
  <2>4. req[o].kind = "append" =>
           file[req[o].path] # Absent /\ file'[req[o].path] = With(file[req[o].path], o)
    BY <2>1, <2>2 DEF Commit, CreateFile, FillFile, AppendFile, RenameTemp, MoveFile, DeleteFile,
          TypeOK, Known
  <2> QED
    BY <2>1, <2>3, <2>4 DEF Known
<1> QED
  BY <1>1, <1>2, ContentsInvariant, PTL DEF Spec, ActsOnWhatItChecked

\* Whatever queues, checks and temporary files a call goes through, it is one
\* step on the files, once, as it was asked while no other program writes, and
\* its answer is true: the model implements FileStore.
THEOREM OneEffectHolds == Spec => OneEffect
<1>1. Spec => [](TypeOK /\ Whence /\ OneAtATime /\ StillTrue)
  BY InitKnown, StepKnown, ContentsInvariant, OneAtATimeHolds, PTL DEF Spec
<1>2. Spec => []Ready
  BY <1>1, InitReady, StepReady, PTL DEF Spec
<1> QED
  BY <1>1, <1>2, InitStore, StoreStep, PTL DEF Spec, OneEffect, Store!Spec
=============================================================================
