------------------------------ MODULE JobLedger ------------------------------
(***************************************************************************)
(* What the agent promises about a remote job, without saying how: the     *)
(* durable record of a job only moves forward, its handler runs once and   *)
(* only while the record says "running", nothing runs after the hub was    *)
(* told a verdict, every verdict agrees with what happened, and a record   *)
(* is closed only when the hub has a verdict.  AgentJobs implements it     *)
(* with the state file as the ledger.                                      *)
(***************************************************************************)
EXTENDS Naturals

CONSTANT Jobs

VARIABLES
    ledger, \* the durable status of each job
    runs,   \* how often the handler of each job was called
    told    \* the verdicts the hub has received for each job

vars == <<ledger, runs, told>>

Status  == {"absent", "claimed", "running", "result_pending", "finished"}
Verdict == {"output", "denied", "interrupted"}

Rank == [s \in Status |-> CASE s = "absent"         -> 0
                            [] s = "claimed"        -> 1
                            [] s = "running"        -> 2
                            [] s = "result_pending" -> 3
                            [] s = "finished"       -> 4]

Init ==
    /\ ledger = [j \in Jobs |-> "absent"]
    /\ runs = [j \in Jobs |-> 0]
    /\ told = [j \in Jobs |-> {}]

\* One write may carry the progress of several jobs.
Record ==
    /\ ledger' \in [Jobs -> Status]
    /\ \A j \in Jobs :
          /\ Rank[ledger[j]] <= Rank[ledger'[j]]
          /\ ledger'[j] = "finished" => told[j] # {}
    /\ UNCHANGED <<runs, told>>

Run(j) ==
    /\ ledger[j] = "running"
    /\ runs[j] = 0
    /\ told[j] = {}
    /\ runs' = [runs EXCEPT ![j] = 1]
    /\ UNCHANGED <<ledger, told>>

\* An output may be told before it is recorded; a restart may not.
Tell(j, v) ==
    /\ CASE v = "output"      -> runs[j] = 1 /\ ledger[j] # "claimed"
         [] v = "denied"      -> runs[j] = 0
         [] v = "interrupted" -> ledger[j] \in {"result_pending", "finished"}
    /\ told' = [told EXCEPT ![j] = @ \cup {v}]
    /\ UNCHANGED <<ledger, runs>>

Next == \/ Record
        \/ \E j \in Jobs : \/ Run(j)
                           \/ \E v \in Verdict : Tell(j, v)

Spec == Init /\ [][Next]_vars
=============================================================================
