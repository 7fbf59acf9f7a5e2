----------------------------- MODULE HostPolicy -----------------------------
(***************************************************************************)
(* Which policy a job runs under (src/src/policy/host-policy.mjs and its   *)
(* users in src/src/client/client.mjs and                                  *)
(* src/src/filesystem/mutation-ops.mjs).  The hub binds a job to the       *)
(* revision of the host's policy it admitted it under.  The agent fetches  *)
(* the policy before it runs a bound job, again before it activates an     *)
(* update, and compares; every fetch and every welcome of the session also *)
(* replaces currentPolicy, which is what tools are run with.               *)
(*                                                                         *)
(* A policy is named by its revision, 0 is null: the digest covers         *)
(* contract version, revision and capabilities, and the hub is taken to    *)
(* give each revision one content.  A welcome is valid or not, for all     *)
(* that applyCurrentPolicy can reject it for: transport, signature, shape. *)
(***************************************************************************)
EXTENDS Naturals, Sequences

CONSTANTS
    Jobs,
    Operations,   \* what a job may ask: records of tool, option and origin
    Profiles,     \* sets of capabilities a policy may grant
    MaxRevision,  \* bound: revisions of the policy
    MaxHellos,    \* bound: hellos the agent sends, and welcomes it gets
    MaxRestarts   \* bound: ends of the process

ASSUME HostPolicyAssumption ==
    /\ Operations # {}
    /\ Profiles # {}
    /\ MaxRevision \in Nat \ {0}
    /\ MaxHellos \in Nat
    /\ MaxRestarts \in Nat

Null      == 0
Revisions == 1..MaxRevision
Messages  == [rev : {Null} \cup Revisions, valid : BOOLEAN]

MutationTools == {"file_write", "file_edit", "directory_create",
                  "file_move", "file_delete"}

VARIABLES
    hub,      \* the revision in force
    grants,   \* capabilities each revision grants
    current,  \* currentPolicy of the agent
    session,  \* "down", "hello", "welcomed" (up to line 1624), "up"
    wire,     \* welcomes under way on the session, oldest first
    held,     \* the welcome runSessionOnce was resumed with
    job,      \* the operation, the revision it is bound to (Null: unbound)
              \* and the capabilities bound with it
    pc,       \* the await at which the job is
    phase,    \* "run", or "activate" when its acknowledged update is checked
    answer,   \* the answer to the job's fetch
    verdict,  \* what ensureJobPolicy returned last
    outcome,  \* what the handler did: "none", "ran", or how its gate refused
    ran,      \* the policy the handler was given
    \* history and bounds
    asked,    \* the revision in force when the agent last asked for the job
    acked,    \* the revision in force when the update was acknowledged
    hellos, restarts

hubVars  == <<hub, grants>>
linkVars == <<session, wire, held, hellos>>
runVars  == <<outcome, ran>>
vars     == <<hubVars, current, linkVars, job, pc, phase, answer, verdict,
              runVars, asked, acked, restarts>>

\* The awaits of a job that is being checked or is allowed.
UnderWay == {"claimed", "asking", "answered", "allowed"}
Bound(j) == job[j].bound # Null

NoMessage == [rev |-> Null, valid |-> FALSE]
\* Of a job that has not been claimed.
NoJob == [op |-> CHOOSE o \in Operations : TRUE, bound |-> Null, caps |-> {}]

Init ==
    /\ hub = 1
    /\ grants \in [Revisions -> Profiles]
    /\ current = Null
    /\ session = "down" /\ wire = <<>> /\ held = NoMessage /\ hellos = 0
    /\ job = [j \in Jobs |-> NoJob]
    /\ pc = [j \in Jobs |-> "new"]
    /\ phase = [j \in Jobs |-> "run"]
    /\ answer = [j \in Jobs |-> Null]
    /\ verdict = [j \in Jobs |-> "none"]
    /\ outcome = [j \in Jobs |-> "none"]
    /\ ran = [j \in Jobs |-> Null]
    /\ asked = [j \in Jobs |-> Null]
    /\ acked = [j \in Jobs |-> Null]
    /\ restarts = 0

-----------------------------------------------------------------------------
(* Capabilities.                                                           *)

If(condition, capability) == IF condition THEN {capability} ELSE {}

\* One tool for each shape of the table.  The option is the payload's
\* create_parents, overwrite, recursive or mode = "existing".
requiredCapabilitiesForOperation(o) ==
    CASE o.tool = "client_update" ->
             If(o.origin = "automatic_update", "automatic_client_updates")
      [] o.tool = "file_write" -> {"file_write"} \cup If(o.option, "directory_manage")
      [] o.tool = "file_edit" -> {"file_write"}
      [] o.tool = "directory_create" -> {"directory_manage"}
      [] o.tool = "file_move" -> {"file_move"} \cup If(o.option, "file_delete")
      [] o.tool = "file_delete" -> {"file_delete"} \cup If(o.option, "directory_manage")
      [] o.tool = "browser_create" -> {"gui_launch"} \cup If(o.option, "browser_existing_attach")
      [] o.tool = "file_read" -> {"file_read"}
      [] o.tool = "shell_exec" -> {"shell_exec"}
      [] o.tool = "privileged_shell_exec" -> {"privileged_exec", "shell_exec"}
      [] OTHER -> {}

\* Faulty variant: as the table was before the branch of file_edit was added.
requiredMutationCapabilitiesNoEdit(o) ==
    CASE o.tool = "file_write" -> {"file_write"} \cup If(o.option, "directory_manage")
      [] o.tool = "directory_create" -> {"directory_manage"}
      [] o.tool = "file_move" -> {"file_move"} \cup If(o.option, "file_delete")
      [] o.tool = "file_delete" -> {"file_delete"} \cup If(o.option, "directory_manage")
      [] OTHER -> {}

\* The mutation tools' own table.
requiredMutationCapabilities(o) ==
    CASE o.tool = "file_write" -> {"file_write"} \cup If(o.option, "directory_manage")
      [] o.tool = "file_edit" -> {"file_write"}
      [] o.tool = "directory_create" -> {"directory_manage"}
      [] o.tool = "file_move" -> {"file_move"} \cup If(o.option, "file_delete")
      [] o.tool = "file_delete" -> {"file_delete"} \cup If(o.option, "directory_manage")
      [] OTHER -> {}

\* The operations that may be bound to no capability at all.
Exempt(o) ==
    \/ o.tool = "client_update" /\ o.origin = "admin_api"
    \/ o.tool = "client_uninstall" /\ o.origin \in {"admin_api", "mcp"}

\* Job j against the policy of revision r, a fetch's answer; with a protected
\* transport, without which no answer gets here.
authorizeBoundJob(j, r) ==
    LET expected == requiredCapabilitiesForOperation(job[j].op) IN
    IF job[j].caps # expected \/ (expected = {} /\ ~Exempt(job[j].op))
    THEN "mismatch"
    ELSE IF job[j].bound > r THEN "not_ready"
    ELSE IF job[j].bound < r THEN "stale"
    ELSE IF \E c \in job[j].caps : c \notin grants[r] THEN "denied"
    ELSE "ok"

-----------------------------------------------------------------------------
(* The hub.                                                                *)

HubChangesPolicy ==
    /\ hub < MaxRevision
    /\ hub' = hub + 1
    /\ UNCHANGED <<grants, current, linkVars, job, pc, phase, answer, verdict,
                   runVars, asked, acked, restarts>>

\* The agent claims a job, or gets a request: admitted under the policy in
\* force or an earlier one, by a hub that knows the operation or does not.
Claim(j, o, b) ==
    /\ pc[j] = "new"
    /\ b <= hub
    /\ \E caps \in {requiredCapabilitiesForOperation(o), {}} :
          /\ b = Null => caps = {}
          /\ job' = [job EXCEPT ![j] = [op |-> o, bound |-> b, caps |-> caps]]
    /\ pc' = [pc EXCEPT ![j] = "claimed"]
    /\ UNCHANGED <<hubVars, current, linkVars, phase, answer, verdict, runVars,
                   asked, acked, restarts>>

\* The hub sees the fetch of job j.
HubAnswers(j) ==
    /\ pc[j] = "asking"
    /\ answer' = [answer EXCEPT ![j] = hub]
    /\ pc' = [pc EXCEPT ![j] = "answered"]
    /\ UNCHANGED <<hubVars, current, linkVars, job, phase, verdict, runVars,
                   asked, acked, restarts>>

-----------------------------------------------------------------------------
(* Jobs.                                                                   *)

Decide(j, v) ==
    /\ verdict' = [verdict EXCEPT ![j] = v]
    /\ pc' = [pc EXCEPT ![j] = IF v \in {"ok", "unbound"} THEN "allowed" ELSE "denied"]
    /\ answer' = [answer EXCEPT ![j] = Null]

\* ensureJobPolicy of an unbound job; authorizePreparedUpdate without a record.
Unbound(j) ==
    /\ pc[j] = "claimed" /\ ~Bound(j)
    /\ Decide(j, "unbound")
    /\ UNCHANGED <<hubVars, current, linkVars, job, phase, runVars,
                   asked, acked, restarts>>

\* Faulty variant: a policy the agent already holds is not fetched again.
AskUnlessHeld(j) ==
    /\ pc[j] = "claimed" /\ Bound(j)
    /\ asked' = [asked EXCEPT ![j] = hub]
    /\ IF current = Null
       THEN /\ pc' = [pc EXCEPT ![j] = "asking"]
            /\ verdict' = [verdict EXCEPT ![j] = "none"]
            /\ UNCHANGED answer
       ELSE Decide(j, authorizeBoundJob(j, current))
    /\ UNCHANGED <<hubVars, current, linkVars, job, phase, runVars,
                   acked, restarts>>

\* fetchCurrentPolicy.
Ask(j) ==
    /\ pc[j] = "claimed" /\ Bound(j)
    /\ pc' = [pc EXCEPT ![j] = "asking"]
    /\ asked' = [asked EXCEPT ![j] = hub]
    /\ verdict' = [verdict EXCEPT ![j] = "none"]
    /\ UNCHANGED <<hubVars, current, linkVars, job, phase, answer, runVars,
                   acked, restarts>>

\* The network, the hub's status, the timeout of 7 s, or applyCurrentPolicy,
\* which rejects an answer before it assigns anything.
FetchFails(j) ==
    /\ pc[j] \in {"asking", "answered"}
    /\ Decide(j, "failed")
    /\ UNCHANGED <<hubVars, current, linkVars, job, phase, runVars,
                   asked, acked, restarts>>

\* Faulty variant: the two comparisons of the revision are swapped.
FetchReturnsSwapped(j) ==
    /\ pc[j] = "answered"
    /\ current' = answer[j]
    /\ LET v == authorizeBoundJob(j, answer[j]) IN
       Decide(j, IF v = "stale" THEN "not_ready" ELSE v)
    /\ UNCHANGED <<hubVars, linkVars, job, phase, runVars, asked,
                   acked, restarts>>

\* applyCurrentPolicy of the answer; the job is checked against the answer and
\* not against what currentPolicy may be by then.
FetchReturns(j) ==
    /\ pc[j] = "answered"
    /\ current' = answer[j]
    /\ Decide(j, authorizeBoundJob(j, answer[j]))
    /\ UNCHANGED <<hubVars, linkVars, job, phase, runVars, asked,
                   acked, restarts>>

\* Faulty variant: the gate looks at the capabilities only.
GateUnbound(j) ==
    IF ~Bound(j) \/ current = Null THEN "not_ready"
    ELSE LET caps == requiredMutationCapabilities(job[j].op) IN
         IF caps = {} \/ \E c \in caps : c \notin grants[current]
         THEN "denied" ELSE "ran"

\* requirePolicy and mutationPolicyGate, in one turn with executeByTool.
Gate(j) ==
    IF ~Bound(j) \/ current = Null \/ job[j].bound # current THEN "not_ready"
    ELSE LET caps == requiredMutationCapabilities(job[j].op) IN
         IF caps = {} \/ \E c \in caps : c \notin grants[current]
         THEN "denied" ELSE "ran"

\* executeByTool: the handler gets currentPolicy as it is now.  A prepared
\* update waits for its acknowledgement, in pendingResults.
Execute(j) ==
    /\ pc[j] = "allowed" /\ phase[j] = "run"
    /\ ran' = [ran EXCEPT ![j] = current]
    /\ outcome' = [outcome EXCEPT ![j] =
                      IF job[j].op.tool \in MutationTools THEN Gate(j) ELSE "ran"]
    /\ pc' = [pc EXCEPT ![j] =
                 IF job[j].op.tool = "client_update" THEN "prepared" ELSE "done"]
    /\ UNCHANGED <<hubVars, current, linkVars, job, phase, answer, verdict,
                   asked, acked, restarts>>

\* Faulty variant: what allowed the job allows its activation.
AcknowledgeAllows(j) ==
    /\ pc[j] = "prepared"
    /\ phase' = [phase EXCEPT ![j] = "activate"]
    /\ pc' = [pc EXCEPT ![j] = "allowed"]
    /\ acked' = [acked EXCEPT ![j] = hub]
    /\ UNCHANGED <<hubVars, current, linkVars, job, answer, verdict, runVars,
                   asked, restarts>>

\* The result of an update is posted or acknowledged: authorizePreparedUpdate.
Acknowledge(j) ==
    /\ pc[j] = "prepared"
    /\ phase' = [phase EXCEPT ![j] = "activate"]
    /\ pc' = [pc EXCEPT ![j] = "claimed"]
    /\ acked' = [acked EXCEPT ![j] = hub]
    /\ UNCHANGED <<hubVars, current, linkVars, job, answer, verdict, runVars,
                   asked, restarts>>

Activate(j) ==
    /\ pc[j] = "allowed" /\ phase[j] = "activate"
    /\ pc' = [pc EXCEPT ![j] = "done"]
    /\ UNCHANGED <<hubVars, current, linkVars, job, phase, answer, verdict,
                   runVars, asked, acked, restarts>>

-----------------------------------------------------------------------------
(* The session.                                                            *)

\* The agent says hello and the hub sees it: what it answers with.
Greeting == {[rev |-> Null, valid |-> FALSE]} \cup [rev : {hub}, valid : BOOLEAN]

Connect ==
    /\ session = "down" /\ hellos < MaxHellos
    /\ \E w \in Greeting : wire' = <<w>>
    /\ session' = "hello" /\ hellos' = hellos + 1
    /\ UNCHANGED <<hubVars, current, held, job, pc, phase, answer, verdict,
                   runVars, asked, acked, restarts>>

announceCapabilities ==
    /\ session = "up" /\ hellos < MaxHellos
    /\ \E w \in Greeting : wire' = Append(wire, w)
    /\ hellos' = hellos + 1
    /\ UNCHANGED <<hubVars, current, session, held, job, pc, phase, answer,
                   verdict, runVars, asked, acked, restarts>>

\* The listener of 'json'.  applyCurrentPolicy has assigned currentPolicy by
\* the time line 1576 compares the revisions.
WelcomeArrives ==
    /\ wire # <<>>
    /\ wire' = Tail(wire)
    /\ IF Head(wire).valid
       THEN current' = Head(wire).rev
       ELSE UNCHANGED current
    /\ IF session = "hello"
       THEN session' = "welcomed" /\ held' = Head(wire)
       ELSE UNCHANGED <<session, held>>
    /\ UNCHANGED <<hubVars, hellos, job, pc, phase, answer, verdict, runVars,
                   asked, acked, restarts>>

\* Line 1624: the first welcome once more, or null.
WelcomeTaken ==
    /\ session = "welcomed"
    /\ IF held.rev # Null /\ ~held.valid
       THEN session' = "down" /\ wire' = <<>> /\ UNCHANGED current
       ELSE session' = "up" /\ current' = held.rev /\ UNCHANGED wire
    /\ held' = NoMessage
    /\ UNCHANGED <<hubVars, hellos, job, pc, phase, answer, verdict, runVars,
                   asked, acked, restarts>>

Disconnect ==
    /\ session \in {"hello", "up"}
    /\ session' = "down" /\ wire' = <<>>
    /\ UNCHANGED <<hubVars, current, held, hellos, job, pc, phase, answer,
                   verdict, runVars, asked, acked, restarts>>

\* The process ends and starts again: a pending result is on disk, a job under
\* way is reported as interrupted or forgotten.
Restart ==
    /\ restarts < MaxRestarts
    /\ restarts' = restarts + 1
    /\ current' = Null
    /\ session' = "down" /\ wire' = <<>> /\ held' = NoMessage
    /\ pc' = [j \in Jobs |-> IF pc[j] \in UnderWay THEN "lost" ELSE pc[j]]
    /\ UNCHANGED <<hubVars, hellos, job, phase, answer, verdict, runVars,
                   asked, acked>>

-----------------------------------------------------------------------------
Next ==
    \/ HubChangesPolicy
    \/ \E j \in Jobs :
          \/ \E o \in Operations, b \in {Null} \cup Revisions : Claim(j, o, b)
          \/ HubAnswers(j)
          \/ Unbound(j)
          \/ Ask(j)
          \/ FetchFails(j)
          \/ FetchReturns(j)
          \/ Execute(j)
          \/ Acknowledge(j)
          \/ Activate(j)
    \/ Connect
    \/ announceCapabilities
    \/ WelcomeArrives
    \/ WelcomeTaken
    \/ Disconnect
    \/ Restart

Spec == Init /\ [][Next]_vars

-----------------------------------------------------------------------------
Pcs      == {"new", "prepared", "done", "denied", "lost"} \cup UnderWay
Verdicts == {"none", "unbound", "ok", "mismatch", "not_ready", "stale",
             "denied", "failed"}

\* Every variable keeps its type.
TypeOK ==
    /\ hub \in Revisions
    /\ grants \in [Revisions -> Profiles]
    /\ current \in {Null} \cup Revisions
    /\ session \in {"down", "hello", "welcomed", "up"}
    /\ wire \in Seq(Messages)
    /\ held \in Messages
    /\ job \in [Jobs -> [op : Operations, bound : {Null} \cup Revisions,
                         caps : {{}} \cup
                             {requiredCapabilitiesForOperation(o) : o \in Operations}]]
    /\ pc \in [Jobs -> Pcs]
    /\ phase \in [Jobs -> {"run", "activate"}]
    /\ answer \in [Jobs -> {Null} \cup Revisions]
    /\ verdict \in [Jobs -> Verdicts]
    /\ outcome \in [Jobs -> {"none", "ran", "not_ready", "denied"}]
    /\ ran \in [Jobs -> {Null} \cup Revisions]
    /\ asked \in [Jobs -> {Null} \cup Revisions]
    /\ acked \in [Jobs -> {Null} \cup Revisions]
    /\ hellos \in Nat
    /\ restarts \in Nat

\* A bound job is allowed, to run or to activate its update, only when the
\* policy it was admitted under was in force when the agent asked, and grants
\* what its operation needs: ensureJobPolicy (704-715) does not rely on a
\* policy the agent already holds, nor on one that another fetch or a welcome
\* brings while it waits.
AuthorizedInForce ==
    \A j \in Jobs : verdict[j] = "ok" =>
        /\ job[j].bound = asked[j]
        /\ requiredCapabilitiesForOperation(job[j].op) \subseteq grants[asked[j]]

\* What a job is denied for is true: its policy has been replaced, or withholds
\* a capability.  The agent never says that it has no policy as new as the
\* job's, whatever older answers and welcomes reach it (authorizeBoundJob).
DenialsAreTrue ==
    \A j \in Jobs :
        /\ verdict[j] # "not_ready"
        /\ verdict[j] = "stale" => job[j].bound < hub
        /\ verdict[j] = "denied" => ~(job[j].caps \subseteq grants[job[j].bound])

\* A mutation runs with the roots of the policy it is bound to, which grants
\* what it needs, although currentPolicy may have moved either way since the
\* job was allowed (executeByTool 1196-1201, mutationPolicyGate 1022-1043).
MutationUnderItsPolicy ==
    \A j \in Jobs :
        job[j].op.tool \in MutationTools /\ outcome[j] = "ran" =>
            /\ ran[j] = job[j].bound
            /\ job[j].bound = asked[j]
            /\ requiredCapabilitiesForOperation(job[j].op) \subseteq grants[ran[j]]

\* The gate of the mutation tools never withholds a capability from a job that
\* was allowed: its table (mutation-ops.mjs:576-598) asks for what the table of
\* host-policy.mjs:140-210 asks for, so it refuses only for a policy that was
\* replaced in between, or an unbound job.
GateAgrees == \A j \in Jobs : outcome[j] # "denied"

\* An update is activated only under the policy that was in force after its
\* result was acknowledged, whatever allowed its preparation
\* (authorizePreparedUpdate, 1246 and 1451).
ActivatedInForce ==
    \A j \in Jobs :
        phase[j] = "activate" /\ pc[j] = "done" /\ Bound(j) =>
            /\ verdict[j] = "ok"
            /\ acked[j] <= job[j].bound

\* "Re-hellos (capability re-announce) also refresh a stale policy when the hub
\* sends a newer revision" (client.mjs:1573-1574): the welcome of a re-hello
\* never takes the agent back to an older policy. The code does not keep it:
\* see the deviations in README.
RehelloOnlyNewer ==
    [][session = "up" /\ session' = "up" /\ wire # <<>> /\ wire' = Tail(wire)
          => current' >= current]_vars
=============================================================================
