---------------------------- MODULE MCAgentJobs ----------------------------
(***************************************************************************)
(* Instances of AgentJobs for TLC. The cfg files bind the constants to     *)
(* model values.  JobSymmetry is sound where the jobs are not told apart   *)
(* by UpdateJobs and ThrowingJobs and only safety is checked.              *)
(***************************************************************************)
EXTENDS AgentJobs, TLC

JobSymmetry == Permutations(Jobs)
=============================================================================
