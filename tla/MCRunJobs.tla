------------------------------ MODULE MCRunJobs ------------------------------
(***************************************************************************)
(* RunJobs for TLC.  Processes are interchangeable: they are only compared *)
(* with each other, and no safety property names one.                      *)
(***************************************************************************)
EXTENDS RunJobs, TLC

ProcSymmetry == Permutations(Procs)
==============================================================================
