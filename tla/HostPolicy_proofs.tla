-------------------------- MODULE HostPolicy_proofs --------------------------
(***************************************************************************)
(* The safety of HostPolicy for any jobs, operations, policies and bounds. *)
(* The inductive invariant IndInv says of each job how the revision it is  *)
(* bound to, the one in force when the agent asked, and the answer are     *)
(* ordered at each await.                                                  *)
(***************************************************************************)
EXTENDS HostPolicy, TLAPS

\* The hub's revision only grows: what was bound, asked or answered before is
\* not above it, and an answer is not below what was in force when the agent
\* asked.
Ordered(j) ==
    /\ job[j].bound <= hub
    /\ asked[j] <= hub
    /\ acked[j] <= hub
    /\ pc[j] \in {"asking", "answered"} => Bound(j) /\ job[j].bound <= asked[j]
    /\ pc[j] = "answered" => asked[j] <= answer[j] /\ answer[j] <= hub

\* What a verdict says of the job.
Judged(j) ==
    /\ verdict[j] = "ok" =>
         /\ Bound(j)
         /\ job[j].bound = asked[j]
         /\ requiredCapabilitiesForOperation(job[j].op) \subseteq grants[asked[j]]
    /\ verdict[j] = "stale" => job[j].bound < hub
    /\ verdict[j] = "denied" => ~(job[j].caps \subseteq grants[job[j].bound])
    /\ verdict[j] # "not_ready"
    /\ pc[j] = "new" => verdict[j] = "none"
    /\ pc[j] \in {"allowed", "prepared"} =>
         verdict[j] = IF Bound(j) THEN "ok" ELSE "unbound"

\* What a handler has done, and which jobs are at their activation.
Handled(j) ==
    /\ pc[j] = "new" => phase[j] = "run" /\ outcome[j] = "none"
    /\ pc[j] = "prepared" => job[j].op.tool = "client_update"
    /\ phase[j] = "activate" => job[j].op.tool = "client_update"
    /\ outcome[j] # "none" =>
         pc[j] = "done" \/ job[j].op.tool = "client_update"
    /\ outcome[j] # "denied"
    /\ job[j].op.tool \in MutationTools /\ outcome[j] = "ran" =>
         verdict[j] = "ok" /\ ran[j] = job[j].bound

\* An update's second check asks for what is in force after the acknowledgement.
Rechecked(j) ==
    phase[j] = "activate" =>
        /\ pc[j] \in {"asking", "answered"} => acked[j] <= asked[j]
        /\ pc[j] \in {"allowed", "done"} /\ Bound(j) =>
             verdict[j] = "ok" /\ acked[j] <= job[j].bound

JobInv(j) == Ordered(j) /\ Judged(j) /\ Handled(j) /\ Rechecked(j)

IndInv == TypeOK /\ \A j \in Jobs : JobInv(j)

USE DEF Null, Revisions

LEMMA MessageTypes ==
    /\ NoMessage \in Messages
    /\ \A m \in Messages : m.rev \in {Null} \cup Revisions
    /\ hub \in Revisions => Greeting \subseteq Messages
<1>1. NoMessage \in Messages
  BY DEF NoMessage, Messages
<1>2. \A m \in Messages : m.rev \in {Null} \cup Revisions
  BY DEF Messages
<1>3. ASSUME hub \in Revisions, NEW w \in Greeting PROVE w \in Messages
  <2>1. CASE w \in [rev : {hub}, valid : BOOLEAN]
    <3>1. w = [rev |-> hub, valid |-> w.valid] /\ w.valid \in BOOLEAN
      BY <2>1
    <3>2. hub \in {Null} \cup Revisions
      BY <1>3
    <3>3. [rev |-> hub, valid |-> w.valid] \in Messages
      BY <3>1, <3>2, Zenon DEF Messages
    <3> QED BY <3>1, <3>3, Zenon
  <2>2. CASE w = NoMessage
    BY <2>2, <1>1
  <2> QED BY <1>3, <2>1, <2>2, Zenon DEF Greeting, NoMessage
<1> QED BY <1>1, <1>2, <1>3

\* The two tables agree on the tools that have a gate, and none of these may
\* be called without a capability.
LEMMA TablesAgree ==
    ASSUME NEW o, o.tool \in MutationTools
    PROVE  /\ requiredMutationCapabilities(o) = requiredCapabilitiesForOperation(o)
           /\ requiredMutationCapabilities(o) # {}
<1>1. CASE o.tool = "file_write"
  BY <1>1 DEF requiredMutationCapabilities, requiredCapabilitiesForOperation
<1>2. CASE o.tool = "file_edit"
  BY <1>2 DEF requiredMutationCapabilities, requiredCapabilitiesForOperation
<1>3. CASE o.tool = "directory_create"
  BY <1>3 DEF requiredMutationCapabilities, requiredCapabilitiesForOperation
<1>4. CASE o.tool = "file_move"
  BY <1>4 DEF requiredMutationCapabilities, requiredCapabilitiesForOperation
<1>5. CASE o.tool = "file_delete"
  BY <1>5 DEF requiredMutationCapabilities, requiredCapabilitiesForOperation
<1> QED BY <1>1, <1>2, <1>3, <1>4, <1>5 DEF MutationTools

\* authorizeBoundJob against an answer not older than the job's binding.
LEMMA Authorization ==
    ASSUME NEW j \in Jobs, NEW r \in Revisions,
           TypeOK, job[j].bound <= r
    PROVE  /\ authorizeBoundJob(j, r) \in {"mismatch", "stale", "denied", "ok"}
           /\ authorizeBoundJob(j, r) = "stale" => job[j].bound < r
           /\ authorizeBoundJob(j, r) = "denied" =>
                /\ job[j].bound = r
                /\ ~(job[j].caps \subseteq grants[r])
           /\ authorizeBoundJob(j, r) = "ok" =>
                /\ job[j].bound = r
                /\ requiredCapabilitiesForOperation(job[j].op) \subseteq grants[r]
<1>1. job[j].bound \in Nat /\ r \in Nat
  BY HostPolicyAssumption DEF TypeOK
<1> QED BY <1>1 DEF authorizeBoundJob

-----------------------------------------------------------------------------
LEMMA InitEstablishes == Init => IndInv
<1> SUFFICES ASSUME Init PROVE IndInv
  OBVIOUS
<1>1. NoJob \in [op : Operations, bound : {Null} \cup Revisions,
                 caps : {{}} \cup {requiredCapabilitiesForOperation(o) : o \in Operations}]
  BY HostPolicyAssumption DEF NoJob
<1>2. TypeOK
  BY <1>1, HostPolicyAssumption, MessageTypes
     DEF Init, TypeOK, Pcs, UnderWay, Verdicts
<1>3. ASSUME NEW j \in Jobs PROVE JobInv(j)
  <2>1. job[j].bound = Null
    BY DEF Init, NoJob
  <2>2. Ordered(j)
    BY <2>1 DEF Init, Ordered
  <2>3. Judged(j)
    BY <2>1 DEF Init, Judged
  <2>4. Handled(j)
    BY DEF Init, Handled
  <2>5. Rechecked(j)
    BY DEF Init, Rechecked
  <2> QED BY <2>2, <2>3, <2>4, <2>5 DEF JobInv
<1> QED BY <1>2, <1>3 DEF IndInv

\* A step that leaves what JobInv speaks of alone keeps it.
LEMMA Untouched ==
    ASSUME NEW j \in Jobs, TypeOK, JobInv(j), hub' \in Nat, hub <= hub', grants' = grants,
           job'[j] = job[j], pc'[j] = pc[j], phase'[j] = phase[j],
           answer'[j] = answer[j], verdict'[j] = verdict[j],
           outcome'[j] = outcome[j], ran'[j] = ran[j],
           asked'[j] = asked[j], acked'[j] = acked[j]
    PROVE  JobInv(j)'
<1>1. /\ hub \in Nat /\ job[j].bound \in Nat /\ asked[j] \in Nat
      /\ acked[j] \in Nat /\ answer[j] \in Nat
  BY HostPolicyAssumption DEF TypeOK
<1>2. Ordered(j)'
  BY <1>1 DEF JobInv, Ordered, Bound
<1>3. Judged(j)'
  BY <1>1 DEF JobInv, Judged, Bound
<1>4. Handled(j)'
  BY DEF JobInv, Handled, MutationTools
<1>5. Rechecked(j)'
  BY DEF JobInv, Rechecked, Bound
<1> QED BY <1>2, <1>3, <1>4, <1>5 DEF JobInv
-----------------------------------------------------------------------------
(* Types.                                                                  *)

LEMMA TypeHub == ASSUME TypeOK, HubChangesPolicy PROVE TypeOK'
BY HostPolicyAssumption
   DEF TypeOK, HubChangesPolicy, linkVars, runVars

LEMMA TypeClaim ==
    ASSUME NEW j \in Jobs, NEW o \in Operations, NEW b \in {Null} \cup Revisions,
           TypeOK, Claim(j, o, b)
    PROVE  TypeOK'
<1> DEFINE Caps == {{}} \cup {requiredCapabilitiesForOperation(p) : p \in Operations}
<1>1. PICK caps \in {requiredCapabilitiesForOperation(o), {}} :
        job' = [job EXCEPT ![j] = [op |-> o, bound |-> b, caps |-> caps]]
  BY DEF Claim
<1>2. caps \in Caps
  OBVIOUS
<1> HIDE DEF Caps
<1>3. [op |-> o, bound |-> b, caps |-> caps]
        \in [op : Operations, bound : {Null} \cup Revisions, caps : Caps]
  BY <1>2
<1>4. job \in [Jobs -> [op : Operations, bound : {Null} \cup Revisions, caps : Caps]]
  BY DEF TypeOK, Caps
<1>5. job' \in [Jobs -> [op : Operations, bound : {Null} \cup Revisions, caps : Caps]]
  BY <1>1, <1>3, <1>4
<1>6. pc' \in [Jobs -> Pcs]
  BY DEF TypeOK, Claim, Pcs, UnderWay
<1> QED
  BY <1>5, <1>6 DEF TypeOK, Claim, Caps, hubVars, linkVars, runVars

LEMMA TypeJob ==
    ASSUME NEW j \in Jobs, TypeOK, JobInv(j),
           \/ HubAnswers(j) \/ Unbound(j) \/ Ask(j) \/ FetchFails(j)
           \/ FetchReturns(j) \/ Execute(j) \/ Acknowledge(j) \/ Activate(j)
    PROVE  TypeOK'
<1> USE DEF TypeOK, hubVars, linkVars, runVars, Pcs, UnderWay, Verdicts
<1>1. CASE HubAnswers(j)
  BY <1>1 DEF HubAnswers
<1>2. CASE Unbound(j)
  BY <1>2 DEF Unbound, Decide
<1>3. CASE Ask(j)
  BY <1>3 DEF Ask
<1>4. CASE FetchFails(j)
  BY <1>4 DEF FetchFails, Decide
<1>5. CASE FetchReturns(j)
  <2>1. authorizeBoundJob(j, answer[j])
          \in {"mismatch", "not_ready", "stale", "denied", "ok"}
    BY DEF authorizeBoundJob
  <2> QED BY <1>5, <2>1 DEF FetchReturns, Decide
<1>6. CASE Execute(j)
  <2>1. Gate(j) \in {"none", "ran", "not_ready", "denied"}
    BY DEF Gate
  <2> QED BY <1>6, <2>1 DEF Execute
<1>7. CASE Acknowledge(j)
  BY <1>7 DEF Acknowledge
<1>8. CASE Activate(j)
  BY <1>8 DEF Activate
<1> QED BY <1>1, <1>2, <1>3, <1>4, <1>5, <1>6, <1>7, <1>8

LEMMA TypeSession ==
    ASSUME TypeOK,
           \/ Connect \/ announceCapabilities \/ WelcomeArrives
           \/ WelcomeTaken \/ Disconnect \/ Restart
    PROVE  TypeOK'
<1> USE DEF TypeOK, hubVars, runVars
<1>1. /\ Greeting \subseteq Messages
      /\ NoMessage \in Messages
      /\ \A m \in Messages : m.rev \in {Null} \cup Revisions
  BY MessageTypes
<1>2. CASE Connect
  BY <1>1, <1>2 DEF Connect
<1>3. CASE announceCapabilities
  BY SMTT(30), <1>1, <1>3 DEF announceCapabilities
<1>4. CASE WelcomeArrives
  <2>1. Head(wire) \in Messages /\ Tail(wire) \in Seq(Messages)
    BY <1>4 DEF WelcomeArrives
  <2> QED BY <1>1, <1>4, <2>1 DEF WelcomeArrives
<1>5. CASE WelcomeTaken
  <2>1. CASE held.rev # Null /\ ~held.valid
    <3>1. wire' = <<>> /\ session' = "down" /\ current' = current /\ held' = NoMessage
      BY <1>5, <2>1 DEF WelcomeTaken
    <3>2. wire' \in Seq(Messages)
      BY <3>1
    <3> QED BY <1>1, <1>5, <3>1, <3>2 DEF WelcomeTaken
  <2>2. CASE ~(held.rev # Null /\ ~held.valid)
    <3>1. wire' = wire /\ session' = "up" /\ current' = held.rev /\ held' = NoMessage
      BY <1>5, <2>2 DEF WelcomeTaken
    <3> QED BY <1>1, <1>5, <3>1 DEF WelcomeTaken
  <2> QED BY <2>1, <2>2
<1>6. CASE Disconnect
  BY <1>6 DEF Disconnect
<1>7. CASE Restart
  <2>1. pc' \in [Jobs -> Pcs]
    BY <1>7 DEF Restart, Pcs, UnderWay
  <2>2. wire' \in Seq(Messages)
    BY <1>7 DEF Restart
  <2> QED BY <1>1, <1>7, <2>1, <2>2 DEF Restart
<1> QED BY <1>2, <1>3, <1>4, <1>5, <1>6, <1>7
-----------------------------------------------------------------------------
(* Each job's invariant, one lemma per step that disturbs it.  The other   *)
(* jobs are untouched.                                                     *)

\* The numbers of a job, where arithmetic needs them.
LEMMA Numbers ==
    ASSUME NEW j \in Jobs, TypeOK
    PROVE  /\ hub \in Nat /\ job[j].bound \in Nat /\ asked[j] \in Nat
           /\ acked[j] \in Nat /\ answer[j] \in Nat
BY HostPolicyAssumption DEF TypeOK

LEMMA ClaimKeeps ==
    ASSUME NEW j \in Jobs, NEW o \in Operations, NEW b \in {Null} \cup Revisions,
           TypeOK, JobInv(j), Claim(j, o, b)
    PROVE  JobInv(j)'
<1>1. PICK caps : job'[j] = [op |-> o, bound |-> b, caps |-> caps]
  BY ZenonT(30) DEF Claim, TypeOK
<1>2. /\ pc[j] = "new" /\ pc'[j] = "claimed" /\ b <= hub
      /\ UNCHANGED <<hub, grants, phase, answer, verdict, outcome, ran, asked, acked>>
  BY DEF Claim, TypeOK, hubVars, runVars
<1>3. verdict[j] = "none" /\ phase[j] = "run" /\ outcome[j] = "none"
  BY <1>2 DEF JobInv, Judged, Handled
<1>4. Ordered(j)'
  BY <1>1, <1>2, Numbers DEF JobInv, Ordered
<1>5. Judged(j)'
  BY <1>1, <1>2, <1>3 DEF Judged
<1>6. Handled(j)'
  BY <1>1, <1>2, <1>3 DEF Handled
<1>7. Rechecked(j)'
  BY <1>2, <1>3 DEF Rechecked
<1> QED BY <1>4, <1>5, <1>6, <1>7 DEF JobInv

LEMMA AskKeeps ==
    ASSUME NEW j \in Jobs, TypeOK, JobInv(j), Ask(j)
    PROVE  JobInv(j)'
<1>1. /\ pc[j] = "claimed" /\ Bound(j) /\ pc'[j] = "asking"
      /\ asked'[j] = hub /\ verdict'[j] = "none"
      /\ UNCHANGED <<hub, grants, job, phase, answer, outcome, ran, acked>>
  BY DEF Ask, TypeOK, hubVars, runVars
<1>2. Ordered(j)'
  BY <1>1, Numbers DEF JobInv, Ordered, Bound
<1>3. Judged(j)'
  BY <1>1 DEF Judged
<1>4. Handled(j)'
  BY <1>1 DEF JobInv, Handled, MutationTools
<1>5. Rechecked(j)'
  BY <1>1 DEF JobInv, Rechecked, Ordered
<1> QED BY <1>2, <1>3, <1>4, <1>5 DEF JobInv

LEMMA HubAnswersKeeps ==
    ASSUME NEW j \in Jobs, TypeOK, JobInv(j), HubAnswers(j)
    PROVE  JobInv(j)'
<1>1. /\ pc[j] = "asking" /\ pc'[j] = "answered" /\ answer'[j] = hub
      /\ UNCHANGED <<hub, grants, job, phase, verdict, outcome, ran, asked, acked>>
  BY DEF HubAnswers, TypeOK, hubVars, runVars
<1>2. Ordered(j)'
  BY <1>1, Numbers DEF JobInv, Ordered, Bound
<1>3. Judged(j)'
  BY <1>1 DEF JobInv, Judged, Bound
<1>4. Handled(j)'
  BY <1>1 DEF JobInv, Handled, MutationTools
<1>5. Rechecked(j)'
  BY <1>1 DEF JobInv, Rechecked
<1> QED BY <1>2, <1>3, <1>4, <1>5 DEF JobInv

\* An unbound job is allowed, a fetch fails: no policy is compared.
LEMMA UncheckedKeeps ==
    ASSUME NEW j \in Jobs, TypeOK, JobInv(j), Unbound(j) \/ FetchFails(j)
    PROVE  JobInv(j)'
<1>1. /\ UNCHANGED <<hub, grants, job, phase, outcome, ran, asked, acked>>
      /\ pc[j] \in {"claimed", "asking", "answered"}
      /\ \/ ~Bound(j) /\ pc'[j] = "allowed" /\ verdict'[j] = "unbound"
         \/ pc'[j] = "denied" /\ verdict'[j] = "failed"
  BY DEF Unbound, FetchFails, Decide, TypeOK, hubVars, runVars
<1>2. Ordered(j)'
  BY <1>1 DEF JobInv, Ordered
<1>3. Judged(j)'
  BY <1>1 DEF Judged, Bound
<1>4. Handled(j)'
  BY <1>1 DEF JobInv, Handled, MutationTools
<1>5. Rechecked(j)'
  BY <1>1 DEF Rechecked, Bound
<1> QED BY <1>2, <1>3, <1>4, <1>5 DEF JobInv

\* The answer is at least what was in force when the agent asked, which is at
\* least what the job is bound to: if it is what the job is bound to, all
\* three are one revision.
LEMMA FetchReturnsKeeps ==
    ASSUME NEW j \in Jobs, TypeOK, JobInv(j), FetchReturns(j)
    PROVE  JobInv(j)'
<1> DEFINE v == authorizeBoundJob(j, answer[j])
<1>1. /\ UNCHANGED <<hub, grants, job, phase, outcome, ran, asked, acked>>
      /\ pc[j] = "answered"
      /\ verdict'[j] = v
      /\ pc'[j] = IF v \in {"ok", "unbound"} THEN "allowed" ELSE "denied"
  BY DEF FetchReturns, Decide, TypeOK, hubVars, runVars
<1>2. /\ job[j].bound <= asked[j] /\ asked[j] <= answer[j] /\ answer[j] <= hub
      /\ Bound(j)
  BY <1>1 DEF JobInv, Ordered
<1>3. answer[j] \in Revisions /\ job[j].bound <= answer[j]
  <2>1. job[j].bound # 0
    BY <1>2 DEF Bound
  <2>2. job[j].bound <= answer[j] /\ answer[j] # 0
    BY <1>2, <2>1, Numbers
  <2>3. answer[j] \in {0} \cup Revisions
    BY DEF TypeOK
  <2> QED BY <2>2, <2>3
<1>4. /\ v \in {"mismatch", "stale", "denied", "ok"}
      /\ v = "stale" => job[j].bound < answer[j]
      /\ v = "denied" =>
           /\ job[j].bound = answer[j]
           /\ ~(job[j].caps \subseteq grants[answer[j]])
      /\ v = "ok" =>
           /\ job[j].bound = answer[j]
           /\ requiredCapabilitiesForOperation(job[j].op) \subseteq grants[answer[j]]
  BY <1>3, Authorization
<1> HIDE DEF v
<1>5. Ordered(j)'
  BY <1>1, <1>4 DEF JobInv, Ordered
<1>6. v = "ok" => job[j].bound = asked[j] /\ asked[j] = answer[j]
  BY <1>2, <1>4, Numbers
<1>7. v = "stale" => job[j].bound < hub
  BY <1>2, <1>4, Numbers
<1>8. Judged(j)'
  BY <1>1, <1>2, <1>4, <1>6, <1>7 DEF Judged, Bound
<1>9. Handled(j)'
  BY <1>1 DEF JobInv, Handled, MutationTools
<1>10. Rechecked(j)'
  BY <1>1, <1>4, <1>6 DEF JobInv, Rechecked, Bound
<1> QED BY <1>5, <1>8, <1>9, <1>10 DEF JobInv

\* The gate of an allowed mutation: it compares the job's revision with the
\* agent's, and then asks for what the job was allowed for.
LEMMA GateOfAllowed ==
    ASSUME NEW j \in Jobs, TypeOK, JobInv(j), pc[j] = "allowed",
           job[j].op.tool \in MutationTools
    PROVE  /\ Gate(j) \in {"not_ready", "ran"}
           /\ Gate(j) = "ran" => verdict[j] = "ok" /\ current = job[j].bound
<1>1. CASE ~Bound(j) \/ current = Null \/ job[j].bound # current
  BY <1>1 DEF Gate
<1>2. CASE ~(~Bound(j) \/ current = Null \/ job[j].bound # current)
  <2>1. verdict[j] = "ok"
    BY <1>2 DEF JobInv, Judged
  <2>2. requiredCapabilitiesForOperation(job[j].op) \subseteq grants[current]
    BY <1>2, <2>1 DEF JobInv, Judged
  <2>3. /\ requiredMutationCapabilities(job[j].op) # {}
        /\ requiredMutationCapabilities(job[j].op) \subseteq grants[current]
    BY <2>2, TablesAgree
  <2> QED BY <1>2, <2>1, <2>3 DEF Gate
<1> QED BY <1>1, <1>2

LEMMA ExecuteKeeps ==
    ASSUME NEW j \in Jobs, TypeOK, JobInv(j), Execute(j)
    PROVE  JobInv(j)'
<1>1. /\ UNCHANGED <<hub, grants, job, phase, answer, verdict, asked, acked>>
      /\ pc[j] = "allowed" /\ phase[j] = "run"
      /\ pc'[j] = IF job[j].op.tool = "client_update" THEN "prepared" ELSE "done"
      /\ ran'[j] = current
      /\ outcome'[j] = IF job[j].op.tool \in MutationTools THEN Gate(j) ELSE "ran"
  BY DEF Execute, TypeOK, hubVars
<1>2. job[j].op.tool \in MutationTools =>
        /\ outcome'[j] \in {"not_ready", "ran"}
        /\ outcome'[j] = "ran" => verdict[j] = "ok" /\ ran'[j] = job[j].bound
  BY <1>1, GateOfAllowed
<1>3. Ordered(j)'
  BY <1>1 DEF JobInv, Ordered
<1>4. Judged(j)'
  BY <1>1 DEF JobInv, Judged, Bound
<1>5. Handled(j)'
  BY <1>1, <1>2 DEF Handled
<1>6. Rechecked(j)'
  BY <1>1 DEF Rechecked
<1> QED BY <1>3, <1>4, <1>5, <1>6 DEF JobInv

LEMMA AcknowledgeKeeps ==
    ASSUME NEW j \in Jobs, TypeOK, JobInv(j), Acknowledge(j)
    PROVE  JobInv(j)'
<1>1. /\ UNCHANGED <<hub, grants, job, answer, verdict, outcome, ran, asked>>
      /\ pc[j] = "prepared" /\ pc'[j] = "claimed"
      /\ phase'[j] = "activate" /\ acked'[j] = hub
  BY DEF Acknowledge, TypeOK, hubVars, runVars
<1>2. Ordered(j)'
  BY <1>1, Numbers DEF JobInv, Ordered
<1>3. Judged(j)'
  BY <1>1 DEF JobInv, Judged, Bound
<1>4. Handled(j)'
  BY <1>1 DEF JobInv, Handled, MutationTools
<1>5. Rechecked(j)'
  BY <1>1 DEF Rechecked
<1> QED BY <1>2, <1>3, <1>4, <1>5 DEF JobInv

LEMMA ActivateKeeps ==
    ASSUME NEW j \in Jobs, TypeOK, JobInv(j), Activate(j)
    PROVE  JobInv(j)'
<1>1. /\ UNCHANGED <<hub, grants, job, phase, answer, verdict, outcome, ran, asked, acked>>
      /\ pc[j] = "allowed" /\ phase[j] = "activate" /\ pc'[j] = "done"
  BY DEF Activate, TypeOK, hubVars, runVars
<1>2. Ordered(j)'
  BY <1>1 DEF JobInv, Ordered
<1>3. Judged(j)'
  BY <1>1 DEF JobInv, Judged, Bound
<1>4. Handled(j)'
  BY <1>1 DEF JobInv, Handled
<1>5. Rechecked(j)'
  BY <1>1 DEF JobInv, Rechecked, Bound
<1> QED BY <1>2, <1>3, <1>4, <1>5 DEF JobInv

LEMMA RestartKeeps ==
    ASSUME NEW j \in Jobs, TypeOK, JobInv(j), Restart
    PROVE  JobInv(j)'
<1>1. /\ UNCHANGED <<hub, grants, job, phase, answer, verdict, outcome, ran, asked, acked>>
      /\ pc'[j] = IF pc[j] \in UnderWay THEN "lost" ELSE pc[j]
  BY DEF Restart, TypeOK, hubVars, runVars
<1>2. Ordered(j)'
  BY <1>1 DEF JobInv, Ordered, UnderWay, Bound
<1>3. Judged(j)'
  BY <1>1 DEF JobInv, Judged, UnderWay, Bound
<1>4. Handled(j)'
  BY <1>1 DEF JobInv, Handled, UnderWay
<1>5. Rechecked(j)'
  BY <1>1 DEF JobInv, Rechecked, UnderWay, Bound
<1> QED BY <1>2, <1>3, <1>4, <1>5 DEF JobInv

-----------------------------------------------------------------------------
\* A step of job j is no step of another job.
LEMMA OthersUntouched ==
    ASSUME NEW j \in Jobs, NEW k \in Jobs, k # j, TypeOK, JobInv(k),
           \/ \E o \in Operations, b \in {Null} \cup Revisions : Claim(j, o, b)
           \/ HubAnswers(j) \/ Unbound(j) \/ Ask(j) \/ FetchFails(j)
           \/ FetchReturns(j) \/ Execute(j) \/ Acknowledge(j) \/ Activate(j)
    PROVE  JobInv(k)'
<1>1. /\ UNCHANGED <<hub, grants>>
      /\ job'[k] = job[k] /\ pc'[k] = pc[k] /\ phase'[k] = phase[k]
      /\ answer'[k] = answer[k] /\ verdict'[k] = verdict[k]
      /\ outcome'[k] = outcome[k] /\ ran'[k] = ran[k]
      /\ asked'[k] = asked[k] /\ acked'[k] = acked[k]
  BY DEF TypeOK, Claim, HubAnswers, Unbound, Ask, FetchFails, FetchReturns,
         Execute, Acknowledge, Activate, Decide, hubVars, runVars
<1>2. hub' \in Nat /\ hub <= hub'
  BY <1>1, Numbers
<1> QED BY <1>1, <1>2, Untouched

\* The hub and the session leave every job alone.
LEMMA OutsideKeeps ==
    ASSUME NEW k \in Jobs, TypeOK, JobInv(k),
           \/ HubChangesPolicy \/ Connect \/ announceCapabilities
           \/ WelcomeArrives \/ WelcomeTaken \/ Disconnect
    PROVE  JobInv(k)'
<1>1. /\ grants' = grants /\ hub' \in {hub, hub + 1}
      /\ UNCHANGED <<job, pc, phase, answer, verdict, outcome, ran, asked, acked>>
  BY DEF HubChangesPolicy, Connect, announceCapabilities, WelcomeArrives,
         WelcomeTaken, Disconnect, hubVars, runVars
<1>2. hub' \in Nat /\ hub <= hub'
  BY <1>1, Numbers
<1> QED BY <1>1, <1>2, Untouched

LEMMA StepKeeps == IndInv /\ [Next]_vars => IndInv'
<1> SUFFICES ASSUME IndInv, [Next]_vars PROVE IndInv'
  OBVIOUS
<1>1. TypeOK /\ \A k \in Jobs : JobInv(k)
  BY DEF IndInv
<1>2. ASSUME NEW j \in Jobs, NEW o \in Operations,
             NEW b \in {Null} \cup Revisions, Claim(j, o, b)
      PROVE  IndInv'
  <2>1. TypeOK'
    BY <1>1, <1>2, TypeClaim
  <2>2. ASSUME NEW k \in Jobs PROVE JobInv(k)'
    <3>1. CASE k = j
      BY <1>1, <1>2, <3>1, ClaimKeeps
    <3>2. CASE k # j
      BY <1>1, <1>2, <3>2, OthersUntouched
    <3> QED BY <3>1, <3>2
  <2> QED BY <2>1, <2>2 DEF IndInv
<1>3. ASSUME NEW j \in Jobs,
             \/ HubAnswers(j) \/ Unbound(j) \/ Ask(j) \/ FetchFails(j)
             \/ FetchReturns(j) \/ Execute(j) \/ Acknowledge(j) \/ Activate(j)
      PROVE  IndInv'
  <2>1. TypeOK'
    BY <1>1, <1>3, TypeJob
  <2>2. JobInv(j)'
    BY <1>1, <1>3, HubAnswersKeeps, UncheckedKeeps, AskKeeps, FetchReturnsKeeps,
       ExecuteKeeps, AcknowledgeKeeps, ActivateKeeps
  <2>3. ASSUME NEW k \in Jobs, k # j PROVE JobInv(k)'
    BY <1>1, <1>3, <2>3, OthersUntouched
  <2> QED BY <2>1, <2>2, <2>3 DEF IndInv
<1>4. CASE \/ Connect \/ announceCapabilities \/ WelcomeArrives
           \/ WelcomeTaken \/ Disconnect
  <2>1. TypeOK'
    BY <1>1, <1>4, TypeSession
  <2>2. ASSUME NEW k \in Jobs PROVE JobInv(k)'
    BY <1>1, <1>4, OutsideKeeps
  <2> QED BY <2>1, <2>2 DEF IndInv
<1>5. CASE HubChangesPolicy
  BY <1>1, <1>5, TypeHub, OutsideKeeps DEF IndInv
<1>6. CASE Restart
  <2>1. TypeOK'
    BY <1>1, <1>6, TypeSession
  <2>2. ASSUME NEW k \in Jobs PROVE JobInv(k)'
    BY <1>1, <1>6, RestartKeeps
  <2> QED BY <2>1, <2>2 DEF IndInv
<1>7. CASE UNCHANGED vars
  <2>1. TypeOK'
    BY <1>1, <1>7 DEF vars, hubVars, linkVars, runVars, TypeOK
  <2>2. ASSUME NEW k \in Jobs PROVE JobInv(k)'
    <3>1. JobInv(k)
      BY <1>1
    <3> QED BY <1>7, <3>1 DEF vars, hubVars, runVars, JobInv, Ordered, Judged,
                             Handled, Rechecked, Bound
  <2> QED BY <2>1, <2>2 DEF IndInv
<1> QED BY <1>2, <1>3, <1>4, <1>5, <1>6, <1>7 DEF Next

-----------------------------------------------------------------------------
\* IndInv holds in every reachable state.
THEOREM PolicyInvariant == Spec => []IndInv
<1>1. Init => IndInv
  BY InitEstablishes
<1>2. IndInv /\ [Next]_vars => IndInv'
  BY StepKeeps
<1> QED BY <1>1, <1>2, PTL DEF Spec

\* Every variable keeps its type, for any jobs and bounds.
THEOREM PolicyTypeCorrect == Spec => []TypeOK
<1>1. IndInv => TypeOK
  BY DEF IndInv
<1> QED BY <1>1, PolicyInvariant, PTL

\* ensureJobPolicy allows a bound job only under the policy in force when the
\* agent asked, whatever other fetches and welcomes do to currentPolicy.
THEOREM AuthorizedInForceHolds == Spec => []AuthorizedInForce
<1>1. IndInv => AuthorizedInForce
  BY DEF IndInv, JobInv, Judged, AuthorizedInForce
<1> QED BY <1>1, PolicyInvariant, PTL

\* What a job is denied for is true.
THEOREM DenialsAreTrueHolds == Spec => []DenialsAreTrue
<1>1. IndInv => DenialsAreTrue
  BY DEF IndInv, JobInv, Judged, DenialsAreTrue
<1> QED BY <1>1, PolicyInvariant, PTL

\* A mutation runs with the policy it is bound to.
THEOREM MutationUnderItsPolicyHolds == Spec => []MutationUnderItsPolicy
<1>1. IndInv => MutationUnderItsPolicy
  <2> SUFFICES ASSUME IndInv, NEW j \in Jobs,
                      job[j].op.tool \in MutationTools, outcome[j] = "ran"
               PROVE  /\ ran[j] = job[j].bound
                      /\ job[j].bound = asked[j]
                      /\ requiredCapabilitiesForOperation(job[j].op)
                           \subseteq grants[ran[j]]
    BY DEF MutationUnderItsPolicy
  <2>1. verdict[j] = "ok" /\ ran[j] = job[j].bound
    BY DEF IndInv, JobInv, Handled
  <2>2. /\ job[j].bound = asked[j]
        /\ requiredCapabilitiesForOperation(job[j].op) \subseteq grants[asked[j]]
    BY <2>1 DEF IndInv, JobInv, Judged
  <2> QED BY <2>1, <2>2
<1> QED BY <1>1, PolicyInvariant, PTL

\* The gate of the mutation tools never withholds a capability from a job that
\* ensureJobPolicy allowed, for any operation.
THEOREM GateAgreesHolds == Spec => []GateAgrees
<1>1. IndInv => GateAgrees
  BY DEF IndInv, JobInv, Handled, GateAgrees
<1> QED BY <1>1, PolicyInvariant, PTL

\* An update is activated under the policy in force after its acknowledgement.
THEOREM ActivatedInForceHolds == Spec => []ActivatedInForce
<1>1. IndInv => ActivatedInForce
  BY DEF IndInv, JobInv, Rechecked, ActivatedInForce
<1> QED BY <1>1, PolicyInvariant, PTL
=============================================================================
