----------------------------- MODULE AccountLane -----------------------------
(***************************************************************************)
(* What the durable job table promises about the trading account, with     *)
(* processes, leases and queues left out.  A run holds the account from    *)
(* the commit that creates it to the commit that closes its job; at most   *)
(* one run holds it, and no run holds it twice.  An analysis may let go of *)
(* the account before it is finished (its HTML report is still owed): it   *)
(* is then "parked".  An order watch has nothing to render and never       *)
(* parks.  What a run owes once it has let go of the account is written by *)
(* whoever remembers it, without asking how the run ended: a render or a   *)
(* recovery that outlived the run may settle it anew, park an analysis     *)
(* again, and put back a run that was deleted.                             *)
(***************************************************************************)
CONSTANTS Analyses,   \* ids of analysis runs
          Watches     \* ids of order watch runs

Runs == Analyses \cup Watches

VARIABLE phase        \* [Runs -> Phase]

Phase == {"unborn", "held", "parked", "settled", "gone"}

Init == phase = [r \in Runs |-> "unborn"]

\* A submission is accepted only while nobody holds the account.
Acquire(r) ==
  /\ phase[r] = "unborn"
  /\ \A s \in Runs : phase[s] # "held"
  /\ phase' = [phase EXCEPT ![r] = "held"]

\* An analysis saved its Markdown report and let go of the account; or a render
\* that goes on after the run was settled, even deleted, saved its progress.
Park(r) ==
  /\ r \in Analyses
  /\ phase[r] # "unborn"
  /\ phase' = [phase EXCEPT ![r] = "parked"]

\* The run got its final status.  Start-up recovery settles several at once, and
\* writes the one it read before whatever became of it since.
Settle(S) ==
  /\ S # {}
  /\ \A r \in S : phase[r] # "unborn"
  /\ phase' = [r \in Runs |-> IF r \in S THEN "settled" ELSE phase[r]]

\* The rows of a finished run were deleted, its job's too, which may still have
\* held the account; its id is not given out again.
Forget(r) ==
  /\ phase[r] \in {"held", "settled"}
  /\ phase' = [phase EXCEPT ![r] = "gone"]

Next ==
  \/ \E r \in Runs : Acquire(r) \/ Park(r) \/ Forget(r)
  \/ \E S \in SUBSET Runs : Settle(S)

Spec == Init /\ [][Next]_phase
==============================================================================
