-------------------------- MODULE RunOutcomeProofs --------------------------
(***************************************************************************)
(* Proofs about how runs end in RunJobs, for every set of runs, every set  *)
(* of processes and every value of the bounds: stages trade apart, no run  *)
(* is orphaned, neither a reclaim nor a cancellation is overtaken, and the *)
(* job table implements AccountLane.                                       *)
(*                                                                         *)
(* Safe is the inductive invariant behind all of them.  Its core is the    *)
(* fence: a claim's token is held by one worker only, so whoever owns a    *)
(* claim is the only one to write its run (OwnerWrites).  What is written  *)
(* without a fence - by the render lane, by abort_run - is written to runs *)
(* whose job is closed for good (Waiting).                                 *)
(*                                                                         *)
(* RowMove and WorkerMove sum up what one step can do to the two rows of a *)
(* run and to a worker.  They are proved action by action; everything else *)
(* is proved from them and looks into no action.                           *)
(***************************************************************************)
EXTENDS RunJobsProofs

------------------------------------------------------------------------------
(* The invariant *)

\* The two rows of a run.  A claimed job bears the token of its latest claim;
\* only a run whose stage was started is ever parked.
RowsOf(r) ==
  /\ run[r] \in {"ABSENT", "DELETED"} => job[r] = NoJob
  /\ job[r].status = "PENDING" => run[r] = "RUNNING"
  /\ job[r].token = IF job[r].status \in ClaimedStatus THEN job[r].attempt ELSE 0
  /\ job[r].status \in {"COMPLETED", "FAILED", "INTERRUPTED"} => run[r] # "RUNNING"
  /\ run[r] = "SUMMARY" => r \in parked
  /\ r \in parked => /\ r \notin Watches
                     /\ started[r] > 0
                     /\ run[r] \notin {"ABSENT", "RUNNING"}

Rows == \A r \in Runs : RowsOf(r)

\* A worker's token was drawn by a claim of its run, and by no other worker.
\* Only the first claim leads to a stage.
TokenOf(p) ==
  worker[p].pc # "idle" =>
    /\ run[worker[p].run] # "ABSENT"
    /\ worker[p].token > 0
    /\ job[worker[p].run].status # "NONE" =>
         worker[p].token <= job[worker[p].run].attempt
    /\ worker[p].pc \in {"starting", "running"} => worker[p].token = 1

Tokens ==
  /\ \A p \in Procs : TokenOf(p)
  /\ \A p, q \in Procs :
       /\ worker[p].pc # "idle" /\ worker[q].pc # "idle"
       /\ worker[p].run = worker[q].run /\ worker[p].token = worker[q].token
       => p = q

\* The job of a run is closed, and no claim will ever open it again.
Rendering(r) == r \in parked /\ job[r].status \in {"COMPLETED", "NONE"}

\* What a worker knows of its run, most of it for as long as it owns its claim.
PhaseOf(p) ==
  /\ worker[p].pc \in {"starting", "running"} /\ Owns(p) =>
       run[worker[p].run] = "RUNNING"
  /\ worker[p].pc = "running" => started[worker[p].run] > 0
  /\ worker[p].pc = "closing" /\ Owns(p) =>
       run[worker[p].run] \in {"SUMMARY", "COMPLETED"}
  /\ worker[p].pc = "handoff" => Rendering(worker[p].run)
  /\ worker[p].pc = "finalizing" => worker[p].end # "NONE"
  /\ worker[p].pc = "cancelled" /\ ~TransientErrors =>
       run[worker[p].run] # "RUNNING" \/ ~(Owns(p) /\ job[worker[p].run].live)

Phases == \A p \in Procs : PhaseOf(p)

\* abort_run read that the job of r was closed.
Unfenced(r) ==
  /\ run[r] # "ABSENT" /\ ~Active(r)
  /\ r \notin parked => job[r].status \in {"CANCELLED", "NONE"}

\* Start-up recovery read z as a zombie in the state seen.
Zombie(z, seen) ==
  /\ z \in Runs /\ run[z] # "ABSENT"
  /\ seen = "SUMMARY" => z \in parked

\* What is rendered, waits to be rendered, or is about to be aborted without a
\* fence has no job that could be claimed.
WaitOf(p) ==
  /\ lane[p].pc # "idle" => Rendering(lane[p].run)
  /\ \A i \in 1 .. Len(queue[p]) : Rendering(queue[p][i])
  /\ aborting[p] # NoRun => Unfenced(aborting[p])
  /\ mode[p] = "recovering" => Zombie(recovery[p].run, recovery[p].seen)

Waiting == \A p \in Procs : WaitOf(p)

\* While nobody was held up past its lease, whoever is in a stage has one.
LeaseHeld ==
  stalls = 0 =>
    \A p \in Procs : worker[p].pc = "running" =>
      /\ Owns(p)
      /\ job[worker[p].run].status \in ClaimedStatus
      /\ job[worker[p].run].live

Safe == /\ Inv
        /\ Rows
        /\ Tokens
        /\ Phases
        /\ Waiting
        /\ LeaseHeld
        /\ ~TransientErrors => NoOrphan

------------------------------------------------------------------------------
(* What a step can do to the rows of a run *)

\* Both rows were committed.
Created(r) ==
  /\ \A s \in Runs : ~Active(s)
  /\ run[r] = "ABSENT" /\ run'[r] = "RUNNING"
  /\ job'[r] = [status |-> "PENDING", attempt |-> 0, token |-> 0, live |-> FALSE]

\* Its job was claimed, under a token no claim has had before.
Claimed(r) ==
  /\ Claimable(r)
  /\ run'[r] = run[r]
  /\ job'[r].status \in ClaimedStatus
  /\ job'[r].attempt = job[r].attempt + 1
  /\ job'[r].token = job'[r].attempt

\* The lease ran out, or a cancellation was requested.
Touched(r) ==
  /\ run'[r] = run[r]
  /\ job[r].status \in ClaimedStatus
  /\ job'[r].status \in {job[r].status, "CANCEL_REQUESTED"}
  /\ job'[r].attempt = job[r].attempt
  /\ job'[r].token = job[r].token
  /\ job'[r].live => job[r].live
  /\ \/ job'[r].live = job[r].live
     \/ Owner(r) = {}
     \/ stalls' > 0

\* Start-up recovery of p settles r.
Recovers(p, r) ==
  /\ mode[p] = "recovering" /\ mode'[p] # "recovering"
  /\ Running(r) \/ r = recovery[p].run

\* Its outcome was written, or it was parked: by the worker that owns its
\* claim, or, when its job was closed already, by abort_run, the render lane or
\* recovery.  Those three put a deleted row back.
Written(r) ==
  /\ job'[r] = job[r]
  /\ job[r].status # "PENDING"
  /\ run[r] # "ABSENT"
  /\ run'[r] \in Settled \cup {"SUMMARY"}
  /\ run'[r] = "SUMMARY" => r \in parked'
  /\ run'[r] \in {"SUMMARY", "COMPLETED"} =>
       \/ job[r].status = "LEASED" /\ job[r].attempt = 1
       \/ ~Active(r) /\ run[r] # "RUNNING"
  /\ Active(r) =>
       /\ Running(r)
       /\ \E p \in Procs :
            /\ worker[p].pc # "idle" /\ worker[p].run = r /\ Owns(p)
            /\ worker'[p].pc \in {"closing", "finalizing", "cancelled"}
            /\ worker'[p].pc = "closing" => run'[r] \in {"SUMMARY", "COMPLETED"}
  /\ ~Active(r) =>
       \E p \in Procs :
         \/ aborting[p] = r /\ aborting'[p] # r /\ r \notin parked
         \/ /\ lane[p].pc # "idle" /\ lane[p].run = r
            /\ lane'[p].pc = "idle" \/ run'[r] = "SUMMARY"
         \/ Recovers(p, r)

\* Its job was closed, with a failure or a cancellation of the run if that had
\* not ended.  Under a live lease only its owner does that.
Closed(r) ==
  /\ Active(r)
  /\ job'[r].status \in TerminalStatus
  /\ job'[r].token = 0
  /\ job'[r].attempt >= job[r].attempt
  /\ run'[r] \in {run[r], "FAILED", "ABORTED"}
  /\ job'[r].status = "COMPLETED" =>
       /\ run'[r] = run[r]
       /\ \/ run[r] = "COMPLETED"
          \/ job[r].status = "LEASED" /\ run[r] = "SUMMARY"
  /\ job'[r].status \in {"FAILED", "INTERRUPTED"} => run'[r] = "FAILED"
  /\ ~TransientErrors => run'[r] # "RUNNING"
  /\ run'[r] = run[r] \/ Running(r) \/ \E p \in Procs : Recovers(p, r)
  /\ \E p \in Procs : mode[p] = "up" \/ worker[p].pc # "idle" \/ Recovers(p, r)
  /\ job[r].status # "PENDING" /\ job[r].live =>
       \E p \in Procs : /\ worker[p].pc # "idle" /\ worker[p].run = r /\ Owns(p)
                        /\ worker'[p].pc # "running"

\* It was deleted, and its job with it.
Removed(r) ==
  /\ run[r] \in Settled
  /\ run'[r] = "DELETED"
  /\ job'[r] = NoJob

Still(r) == job'[r] = job[r] /\ run'[r] = run[r]

RowMove(r) ==
  \/ Still(r) \/ Created(r) \/ Claimed(r)
  \/ Touched(r) \/ Written(r) \/ Closed(r) \/ Removed(r)

\* Start-up recovery wrote how it ended.
Recovering(r) == run'[r] \in Settled /\ (Closed(r) \/ (Written(r) /\ ~Active(r)))

\* A step that concerns one run.
OneRow == \E r \in Runs : RowMove(r) /\ \A q \in Runs \ {r} : Still(q)

RowMoves == \A r \in Runs : RowMove(r)

------------------------------------------------------------------------------
(* What a step can do to a worker, and to what is remembered *)

\* A worker that goes on with its run.
GoesOn(q) ==
  LET r == worker[q].run IN
  /\ worker[q].pc # "idle"
  /\ worker'[q].run = r /\ worker'[q].token = worker[q].token
  /\ worker'[q].pc = "starting" => worker[q].pc = "starting"
  /\ worker'[q].pc = "running" =>
       \/ worker[q].pc = "running"
       \/ /\ worker[q].pc = "starting" /\ Fenced(q, StageFence)
          /\ job' = job /\ started'[r] > 0
  /\ worker'[q].pc = "closing" =>
       worker[q].pc = "closing" \/ run'[r] \in {"SUMMARY", "COMPLETED"}
  /\ worker'[q].pc = "handoff" => worker[q].pc = "handoff" \/ Rendering(r)'
  /\ worker'[q].pc = "finalizing" => worker'[q].end # "NONE"
  /\ worker'[q].pc = "cancelled" /\ ~TransientErrors =>
       \/ worker[q].pc = "cancelled"
       \/ run'[r] # "RUNNING"
       \/ ~(Owns(q)' /\ job'[r].live)

\* A worker that claims a run.
Draws(q) ==
  LET r == worker'[q].run IN
  /\ r \in Runs /\ Claimed(r)
  /\ worker'[q].token = job'[r].token
  /\ worker'[q].pc \in {"starting", "finalizing", "cancelling"}
  /\ worker'[q].pc = "starting" => job[r].status = "PENDING" /\ job[r].attempt = 0
  /\ worker'[q].pc = "finalizing" => worker'[q].end # "NONE"
  /\ worker[q].pc = "idle" /\ mode[q] = "up" /\ mode' = mode
  /\ \A p \in Procs \ {q} : worker'[p] = worker[p]

WorkerMove(q) == worker'[q].pc = "idle" \/ GoesOn(q) \/ Draws(q)

WorkerMoves == \A q \in Procs : WorkerMove(q)

\* Stages and stalls are counted up, and runs are parked for good.
HistoryMoves ==
  /\ stalls' = stalls \/ stalls' > 0
  /\ \A r \in Runs : started'[r] >= started[r]
  /\ parked \subseteq parked'
  /\ \A r \in parked' \ parked : /\ r \notin Watches
                                 /\ started'[r] > 0
                                 /\ run'[r] = "SUMMARY"

\* What waits after a step was fit to wait before it.
WaitMoves ==
  \A p \in Procs :
    /\ lane'[p].pc # "idle" => Rendering(lane'[p].run)
    /\ \A i \in 1 .. Len(queue'[p]) : Rendering(queue'[p][i])
    /\ aborting'[p] # NoRun => Unfenced(aborting'[p])
    /\ mode'[p] = "recovering" => Zombie(recovery'[p].run, recovery'[p].seen)

------------------------------------------------------------------------------
(* Facts every proof starts from *)

\* A worker under way works on a run, under a token.
LEMMA AtWork ==
  ASSUME Safe, NEW p \in Procs, worker[p].pc # "idle"
  PROVE  /\ worker[p].run \in Runs
         /\ worker[p].token \in Nat /\ worker[p].token > 0
         /\ job[worker[p].run] \in JobRow /\ run[worker[p].run] \in RunRow
         /\ StoreOK /\ WorkersOK
  BY DEF Safe, Inv, TypeInv, WorkersOK, WorkerState, StoreOK, Tokens, TokenOf

\* Who owns a claim works on a claimed job: its token is the latest one drawn.
LEMMA OwnsClaimed ==
  ASSUME Safe, NEW p \in Procs, worker[p].pc # "idle", Owns(p)
  PROVE  /\ job[worker[p].run].status \in ClaimedStatus
         /\ Active(worker[p].run)
         /\ worker[p].token = job[worker[p].run].attempt
         /\ run[worker[p].run] \notin {"ABSENT", "DELETED"}
<1> DEFINE r == worker[p].run
<1>1. r \in Runs /\ worker[p].token > 0 /\ worker[p].token \in Nat
  BY AtWork
<1>2. job[r].token = worker[p].token
  BY DEF Owns
<1>3. job[r].status \in ClaimedStatus /\ worker[p].token = job[r].attempt
  BY <1>1, <1>2 DEF Safe, Rows, RowsOf
<1>4. run[r] \notin {"ABSENT", "DELETED"}
  <2>1. job[r] # NoJob
    BY <1>3 DEF NoJob, ClaimedStatus
  <2> QED BY <1>1, <2>1 DEF Safe, Rows, RowsOf
<1> QED BY <1>3, <1>4 DEF Active, ClaimedStatus, ActiveStatus

\* The status of a job is PENDING, claimed or closed.
LEMMA StatusKinds ==
  ASSUME StoreOK, NEW r \in Runs
  PROVE  /\ Active(r) <=> job[r].status = "PENDING" \/ job[r].status \in ClaimedStatus
         /\ ~Active(r) <=> job[r].status \in ClosedStatus
         /\ job[r].attempt \in Nat /\ job[r].token \in Nat
         /\ job[r].live \in BOOLEAN
  BY DEF StoreOK, JobRow, Active, ActiveStatus, ClaimedStatus, ClosedStatus, TerminalStatus

\* A run without a job has none that is active.
LEMMA NoJobClosed ==
  ASSUME NEW r \in Runs, job[r] = NoJob
  PROVE  job[r].status = "NONE" /\ ~Active(r) /\ job[r].token = 0
  BY DEF NoJob, Active, ActiveStatus

------------------------------------------------------------------------------
(* Each step moves the rows of one run, but for start-up recovery *)

\* A run whose rows move alone.
LEMMA RowFrame ==
  ASSUME StoreOK, NEW r \in Runs, NEW j, NEW s, RowMove(r),
         \/ UNCHANGED job \/ job' = [job EXCEPT ![r] = j],
         \/ UNCHANGED run \/ run' = [run EXCEPT ![r] = s]
  PROVE  OneRow
  BY DEF StoreOK, Still, OneRow

\* A step that leaves both tables alone.
LEMMA NoneMoves ==
  ASSUME UNCHANGED store
  PROVE  RowMoves
  BY DEF store, RowMoves, RowMove, Still

\* The commit of both rows.
LEMMA CreateMoves ==
  ASSUME Safe, NEW p \in Procs, NEW r \in Runs, CreateRun(p, r)
  PROVE  OneRow
<1>1. StoreOK
  BY DEF Safe, Inv, TypeInv
<1>2. Created(r)
  BY <1>1 DEF CreateRun, UniqueGuard, IsNextId, Created, StoreOK
<1> QED BY <1>1, <1>2, RowFrame DEF CreateRun, RowMove

\* claim_next.
LEMMA ClaimMoves ==
  ASSUME Safe, NEW p \in Procs, NEW r \in Runs, Claim(p, r)
  PROVE  OneRow /\ Claimed(r)
<1>1. StoreOK
  BY DEF Safe, Inv, TypeInv
<1> DEFINE n == job[r].attempt + 1
           j == [status |-> IF job[r].status = "CANCEL_REQUESTED"
                            THEN "CANCEL_REQUESTED" ELSE "LEASED",
                 attempt |-> n, token |-> n, live |-> TRUE]
<1>2. job' = [job EXCEPT ![r] = j] /\ UNCHANGED run /\ Claimable(r)
  BY DEF Claim
<1>3. job'[r] = j /\ run'[r] = run[r]
  BY <1>1, <1>2 DEF StoreOK
<1>4. Claimed(r)
  BY <1>2, <1>3 DEF Claimed, ClaimedStatus
<1> HIDE DEF j
<1> QED BY <1>1, <1>2, <1>4, RowFrame DEF RowMove

\* delete_run.
LEMMA DeleteMoves ==
  ASSUME Safe, NEW p \in Procs, NEW r \in Runs, DeleteRun(p, r)
  PROVE  OneRow
<1>1. StoreOK
  BY DEF Safe, Inv, TypeInv
<1>2. Removed(r)
  BY <1>1 DEF DeleteRun, Removed, StoreOK
<1> QED BY <1>1, <1>2, RowFrame DEF DeleteRun, RowMove

\* request_cancel.
LEMMA AbortMoves ==
  ASSUME Safe, NEW p \in Procs, NEW r \in Runs, AbortActive(p, r)
  PROVE  OneRow
<1>1. StoreOK
  BY DEF Safe, Inv, TypeInv
<1>2. CASE job[r].status = "PENDING"
  <2>1. /\ job' = [job EXCEPT ![r] = [status |-> "CANCELLED", attempt |-> job[r].attempt,
                                      token |-> 0, live |-> FALSE]]
        /\ run' = [run EXCEPT ![r] = "ABORTED"]
    BY <1>2 DEF AbortActive, Close, SetRun
  <2>2. Running(r) /\ mode[p] = "up"
    BY <1>2 DEF AbortActive
  <2>3. Closed(r)
    BY <1>1, <1>2, <2>1, <2>2, StatusKinds DEF Closed, StoreOK, TerminalStatus
  <2> QED BY <1>1, <2>1, <2>3, RowFrame DEF RowMove
<1>3. CASE job[r].status # "PENDING"
  <2>1. /\ job' = [job EXCEPT ![r] = [@ EXCEPT !.status = "CANCEL_REQUESTED"]]
        /\ UNCHANGED run
    BY <1>3 DEF AbortActive
  <2>2. job[r].status \in ClaimedStatus
    BY <1>1, <1>3, StatusKinds DEF AbortActive
  <2>3. Touched(r)
    BY <1>1, <2>1, <2>2 DEF Touched, StoreOK, JobRow
  <2> QED BY <1>1, <2>1, <2>3, RowFrame DEF RowMove
<1> QED BY <1>2, <1>3

\* The lease of a job runs out.
LEMMA ExpireMoves ==
  ASSUME Safe, NEW r \in Runs, LeaseRunsOut(r) \/ LeaseOutlivesStall(r)
  PROVE  OneRow
<1>1. StoreOK /\ stalls \in Nat
  BY DEF Safe, Inv, TypeInv, CountsOK
<1>2. job' = [job EXCEPT ![r] = [@ EXCEPT !.live = FALSE]] /\ UNCHANGED run
  BY DEF Expire, LeaseRunsOut, LeaseOutlivesStall
<1>3. job'[r] = [job[r] EXCEPT !.live = FALSE] /\ job[r].status \in ClaimedStatus
  BY <1>1, <1>2 DEF Expire, LeaseRunsOut, LeaseOutlivesStall, StoreOK
<1>4. Owner(r) = {} \/ stalls' > 0
  BY <1>1 DEF LeaseRunsOut, LeaseOutlivesStall
<1>5. Touched(r)
  BY <1>1, <1>2, <1>3, <1>4 DEF Touched, StoreOK, JobRow
<1> QED BY <1>1, <1>2, <1>5, RowFrame DEF RowMove

\* The stage returned.
LEMMA DoneMoves ==
  ASSUME Safe, NEW p \in Procs, StageDone(p)
  PROVE  OneRow
<1> DEFINE r == worker[p].run
<1>1. /\ StoreOK /\ WorkersOK /\ r \in Runs
      /\ worker[p].pc = "running" /\ worker[p].token = 1
  BY AtWork DEF Safe, StageDone, Tokens, TokenOf
<1>2. CASE Fenced(p, StageFence)
  <2> DEFINE s == IF r \in Watches THEN "COMPLETED" ELSE "SUMMARY"
  <2>1. run' = [run EXCEPT ![r] = s] /\ UNCHANGED job
    BY <1>2 DEF StageDone, SetRun
  <2>2. s = "SUMMARY" => r \in parked'
    BY <1>2 DEF StageDone
  <2>3. /\ job[r].status = "LEASED" /\ job[r].attempt = 1 /\ Owns(p)
        /\ run[r] \notin {"ABSENT", "DELETED"}
    BY <1>1, <1>2, OwnsClaimed DEF Fenced, StageFence
  <2>7. Active(r) /\ Running(r)
    BY <1>1, <2>3, OwnsClaimed DEF Safe, Phases, PhaseOf, Running
  <2>4. s \in {"SUMMARY", "COMPLETED"} /\ run'[r] = s /\ job'[r] = job[r]
    BY <1>1, <2>1 DEF StoreOK
  <2>5. worker'[p].pc = "closing"
    <3>1. worker' = [worker EXCEPT ![p].pc = "closing"]
      BY <1>2 DEF StageDone
    <3> QED BY <1>1, <3>1 DEF WorkersOK, WorkerState
  <2> HIDE DEF s
  <2>6. Written(r)
    BY <1>1, <2>2, <2>3, <2>4, <2>5, <2>7 DEF Written, Settled
  <2> QED BY <1>1, <2>1, <2>6, RowFrame DEF RowMove
<1>3. CASE ~Fenced(p, StageFence)
  BY <1>1, <1>3 DEF StageDone, OneRow, RowMove, Still
<1> QED BY <1>2, <1>3

\* The stage was aborted, or failed.
LEMMA UnwindMoves ==
  ASSUME Safe, NEW p \in Procs, StageAborted(p) \/ StageFails(p)
  PROVE  OneRow
<1> DEFINE r == worker[p].run
<1>1. StoreOK /\ WorkersOK /\ r \in Runs /\ worker[p].pc = "running"
  BY AtWork DEF StageAborted, StageFails, StageUnwinds
<1>2. PICK s \in {"ABORTED", "FAILED"} :
        /\ UNCHANGED job
        /\ \/ UNCHANGED run
           \/ Fenced(p, StageFence) /\ run' = [run EXCEPT ![r] = s]
  BY DEF StageAborted, StageFails, StageUnwinds, SetRun
<1>3. CASE UNCHANGED run
  BY <1>1, <1>2, <1>3 DEF OneRow, RowMove, Still
<1>4. CASE Fenced(p, StageFence) /\ run' = [run EXCEPT ![r] = s]
  <2>1. /\ job[r].status = "LEASED" /\ Owns(p) /\ Active(r) /\ Running(r)
        /\ run[r] \notin {"ABSENT", "DELETED"}
    BY <1>1, <1>4, OwnsClaimed DEF Fenced, StageFence, Safe, Phases, PhaseOf, Running
  <2>2. worker'[p].pc = "finalizing"
    BY <1>1 DEF StageAborted, StageFails, StageUnwinds, ToFinalize, WorkersOK, WorkerState
  <2>3. Written(r)
    BY <1>1, <1>2, <1>4, <2>1, <2>2 DEF Written, Settled, StoreOK
  <2> QED BY <1>1, <1>2, <1>4, <2>3, RowFrame DEF RowMove
<1> QED BY <1>2, <1>3, <1>4

\* mark_terminal(COMPLETED).
LEMMA MarkMoves ==
  ASSUME Safe, NEW p \in Procs, Mark(p)
  PROVE  OneRow
<1> DEFINE r == worker[p].run
<1>1. StoreOK /\ WorkersOK /\ r \in Runs /\ worker[p].pc = "closing"
  BY AtWork DEF Mark
<1>2. \/ UNCHANGED store
      \/ Fenced(p, StageFence) /\ Close(r, "COMPLETED") /\ UNCHANGED run
  BY DEF Mark, store
<1>3. CASE UNCHANGED store
  BY <1>1, <1>3 DEF store, OneRow, RowMove, Still
<1>4. CASE Fenced(p, StageFence) /\ Close(r, "COMPLETED") /\ UNCHANGED run
  <2>1. /\ job[r].status = "LEASED" /\ Active(r) /\ Owns(p)
        /\ run[r] \in {"SUMMARY", "COMPLETED"}
    BY <1>1, <1>4, OwnsClaimed DEF Fenced, StageFence, Safe, Phases, PhaseOf
  <2>2. job' = [job EXCEPT ![r] = [status |-> "COMPLETED", attempt |-> job[r].attempt,
                                   token |-> 0, live |-> FALSE]]
    BY <1>4 DEF Close
  <2>3. worker'[p].pc # "running"
    BY <1>1 DEF Mark, WorkersOK, WorkerState, ToFinalize, IdleWorker
  <2>4. Closed(r)
    BY <1>1, <1>4, <2>1, <2>2, <2>3, StatusKinds DEF Closed, StoreOK, TerminalStatus
  <2> QED BY <1>1, <1>4, <2>2, <2>4, RowFrame DEF RowMove
<1> QED BY <1>2, <1>3, <1>4

\* _finalize_execution.
LEMMA FinalizeMoves ==
  ASSUME Safe, NEW p \in Procs, Finalize(p)
  PROVE  OneRow
<1> DEFINE r == worker[p].run
<1>1. /\ StoreOK /\ WorkersOK /\ r \in Runs /\ worker[p].pc = "finalizing"
      /\ worker'[p].pc = "idle"
  BY AtWork DEF Finalize, WorkersOK, IdleWorker
<1>2. CASE UNCHANGED store
  BY <1>1, <1>2 DEF store, OneRow, RowMove, Still
<1>3. CASE FinalizeWrites(p)
  <2>1. Active(r) /\ job[r].attempt \in Nat /\ Owns(p)
    BY <1>1, <1>3, OwnsClaimed, StatusKinds DEF FinalizeWrites, Fenced
  <2>2. CASE Running(r)
    <3> DEFINE end == IF job[r].status = "CANCEL_REQUESTED" THEN "CANCELLED"
                      ELSE worker[p].end
               s == IF end = "CANCELLED" THEN "ABORTED" ELSE "FAILED"
    <3>1. /\ run' = [run EXCEPT ![r] = s]
          /\ job' = [job EXCEPT ![r] = [status |-> end, attempt |-> job[r].attempt,
                                        token |-> 0, live |-> FALSE]]
      BY <1>3, <2>2 DEF FinalizeWrites, SetRun, Close
    <3>2. end \in {"CANCELLED", "FAILED", "INTERRUPTED"}
      BY <1>1 DEF WorkersOK, WorkerState, Safe, Phases, PhaseOf
    <3>3. Closed(r)
      BY <1>1, <2>1, <2>2, <3>1, <3>2 DEF Closed, StoreOK, TerminalStatus
    <3> HIDE DEF end, s
    <3> QED BY <1>1, <3>1, <3>3, RowFrame DEF RowMove
  <2>3. CASE ~Running(r)
    <3> DEFINE end == JobStatusFor[run[r]]
    <3>1. /\ UNCHANGED run /\ run[r] \in Settled
          /\ job' = [job EXCEPT ![r] = [status |-> end, attempt |-> job[r].attempt,
                                        token |-> 0, live |-> FALSE]]
      BY <1>3, <2>3 DEF FinalizeWrites, Close
    <3>2. /\ end \in {"COMPLETED", "FAILED", "CANCELLED"}
          /\ end = "COMPLETED" => run[r] = "COMPLETED"
          /\ end = "FAILED" => run[r] = "FAILED"
      BY <3>1 DEF JobStatusFor, Settled
    <3>3. run[r] # "RUNNING"
      BY <2>3 DEF Running
    <3> HIDE DEF end
    <3>4. Closed(r)
      BY <1>1, <2>1, <3>1, <3>2, <3>3 DEF Closed, StoreOK, TerminalStatus
    <3> QED BY <1>1, <3>1, <3>4, RowFrame DEF RowMove
  <2> QED BY <2>2, <2>3
<1> QED BY <1>2, <1>3 DEF Finalize

\* executor.cancel of _execute_cancelled.
LEMMA CancelRunMoves ==
  ASSUME Safe, NEW p \in Procs, CancelRun(p)
  PROVE  OneRow
<1> DEFINE r == worker[p].run
<1>1. StoreOK /\ WorkersOK /\ r \in Runs /\ worker[p].pc = "cancelling"
  BY AtWork DEF CancelRun
<1>2. CASE UNCHANGED run
  BY <1>1, <1>2 DEF CancelRun, OneRow, RowMove, Still
<1>3. CASE Running(r) /\ Fenced(p, CancelFence) /\ SetRun(r, "ABORTED")
  <2>1. /\ job[r].status \in ClaimedStatus /\ Owns(p) /\ Active(r) /\ Running(r)
        /\ run[r] \notin {"ABSENT", "DELETED"}
    BY <1>1, <1>3, OwnsClaimed DEF Fenced
  <2>2. worker'[p].pc = "cancelled"
    BY <1>1, <2>1 DEF CancelRun, WorkersOK, WorkerState
  <2>3. run' = [run EXCEPT ![r] = "ABORTED"] /\ UNCHANGED job
    BY <1>3 DEF SetRun, CancelRun
  <2>4. Written(r)
    BY <1>1, <2>1, <2>2, <2>3 DEF Written, Settled, StoreOK, ClaimedStatus
  <2> QED BY <1>1, <2>3, <2>4, RowFrame DEF RowMove
<1> QED BY <1>2, <1>3 DEF CancelRun

\* The job's own commit of _execute_cancelled.
LEMMA CancelJobMoves ==
  ASSUME Safe, NEW p \in Procs, CancelJob(p)
  PROVE  OneRow
<1> DEFINE r == worker[p].run
<1>1. /\ StoreOK /\ WorkersOK /\ r \in Runs /\ worker[p].pc = "cancelled"
      /\ worker'[p].pc = "idle"
  BY AtWork DEF CancelJob, WorkersOK, IdleWorker
<1>2. CASE UNCHANGED job
  BY <1>1, <1>2 DEF CancelJob, OneRow, RowMove, Still
<1>3. CASE Fenced(p, ClaimedStatus) /\ Close(r, "CANCELLED")
  <2>1. Active(r) /\ job[r].attempt \in Nat /\ Owns(p) /\ job[r].live
    BY <1>1, <1>3, OwnsClaimed, StatusKinds DEF Fenced
  <2>2. ~TransientErrors => run[r] # "RUNNING"
    BY <1>1, <2>1 DEF Safe, Phases, PhaseOf
  <2>3. /\ UNCHANGED run
        /\ job' = [job EXCEPT ![r] = [status |-> "CANCELLED", attempt |-> job[r].attempt,
                                      token |-> 0, live |-> FALSE]]
    BY <1>3 DEF Close, CancelJob
  <2>4. Closed(r)
    BY <1>1, <2>1, <2>2, <2>3 DEF Closed, StoreOK, TerminalStatus
  <2> QED BY <1>1, <2>3, <2>4, RowFrame DEF RowMove
<1> QED BY <1>2, <1>3 DEF CancelJob

\* A run whose job is closed is written without a fence.
LEMMA UnfencedMoves ==
  ASSUME StoreOK, NEW r \in Runs,
         NEW s \in {"ABORTED", "FAILED", "COMPLETED", "SUMMARY"},
         run[r] # "ABSENT", ~Active(r),
         s \in {"COMPLETED", "SUMMARY"} => run[r] # "RUNNING",
         s = "SUMMARY" => r \in parked',
         NEW p \in Procs,
         \/ aborting[p] = r /\ aborting'[p] # r /\ r \notin parked /\ s # "SUMMARY"
         \/ /\ lane[p].pc # "idle" /\ lane[p].run = r
            /\ lane'[p].pc = "idle" \/ s = "SUMMARY",
         UNCHANGED job, UNCHANGED run \/ WriteUnfenced(r, s)
  PROVE  OneRow
<1>1. CASE UNCHANGED run
  BY <1>1 DEF OneRow, RowMove, Still
<1>2. CASE run' = [run EXCEPT ![r] = s]
  <2>1. job[r].status # "PENDING"
    BY StatusKinds
  <2>2. Written(r)
    BY <1>2, <2>1 DEF Written, Settled, StoreOK
  <2> QED BY <1>2, <2>2, RowFrame DEF RowMove
<1> QED BY <1>1, <1>2 DEF WriteUnfenced, SetRun

\* abort_run on a run whose job it found closed.
LEMMA AbortWriteMoves ==
  ASSUME Safe, NEW p \in Procs, AbortWrite(p)
  PROVE  OneRow
<1> DEFINE r == aborting[p]
<1>1. StoreOK /\ r \in Runs
  BY DEF Safe, Inv, TypeInv, MemoryOK, AbortWrite
<1>2. run[r] # "ABSENT" /\ ~Active(r)
  BY DEF Safe, Waiting, WaitOf, Unfenced, AbortWrite
<1>3. /\ UNCHANGED job /\ WriteUnfenced(r, "ABORTED")
      /\ r \notin parked /\ r # NoRun /\ aborting'[p] = NoRun
  BY DEF AbortWrite, Safe, Inv, TypeInv, MemoryOK
<1> QED BY <1>1, <1>2, <1>3, UnfencedMoves

\* The outcome of a render, and its progress.
LEMMA LaneMoves ==
  ASSUME Safe, NEW p \in Procs,
         RenderProgress(p) \/ RenderAborted(p) \/ RenderFails(p) \/ RenderCommit(p)
  PROVE  OneRow
<1> DEFINE r == lane[p].run
<1>1. StoreOK /\ r \in Runs /\ lane[p].pc # "idle"
  BY DEF Safe, Inv, TypeInv, LaneOK, RenderProgress, RenderAborted, RenderFails,
     RenderUnwinds, RenderCommit
<1>2. r \in parked /\ job[r].status \in {"COMPLETED", "NONE"}
  BY <1>1 DEF Safe, Waiting, WaitOf, Rendering
<1>3. run[r] \notin {"ABSENT", "RUNNING"} /\ ~Active(r)
  BY <1>1, <1>2 DEF Safe, Rows, RowsOf, Active, ActiveStatus
<1>4. CASE RenderProgress(p)
  <2>1. UNCHANGED job /\ WriteUnfenced(r, "SUMMARY") /\ r \in parked'
    BY <1>2, <1>4 DEF RenderProgress, history
  <2> QED BY <1>1, <1>3, <2>1, UnfencedMoves
<1>5. CASE RenderAborted(p) \/ RenderFails(p) \/ RenderCommit(p)
  <2>1. PICK s \in {"ABORTED", "FAILED", "COMPLETED"} :
          UNCHANGED job /\ (UNCHANGED run \/ WriteUnfenced(r, s))
    BY <1>5 DEF RenderAborted, RenderFails, RenderUnwinds, RenderCommit, LaneWrites
  <2>2. lane'[p].pc = "idle"
    BY <1>5 DEF RenderAborted, RenderFails, RenderUnwinds, RenderCommit, IdleLane, Safe,
       Inv, TypeInv, LaneOK
  <2>3. s \in {"ABORTED", "FAILED", "COMPLETED", "SUMMARY"} /\ s # "SUMMARY"
    OBVIOUS
  <2> QED BY <1>1, <1>3, <2>1, <2>2, <2>3, UnfencedMoves
<1> QED BY <1>4, <1>5

\* Start-up recovery settles every zombie up to the first that blocks it.
LEMMA RecoverMoves ==
  ASSUME Safe, NEW p \in Procs, RecoverSettle(p)
  PROVE  \A r \in Runs : Still(r) \/ Recovering(r)
<1> DEFINE z == recovery[p].run
           seen == [run EXCEPT ![z] = recovery[p].seen]
           blocked == BlocksRecovery(z)
<1>1. /\ StoreOK /\ z \in Runs /\ run[z] # "ABSENT"
      /\ recovery[p].seen = "SUMMARY" => z \in parked
  BY DEF Safe, Inv, TypeInv, RecoverSettle, Waiting, WaitOf, Zombie
<1>2. CASE blocked
  BY <1>2 DEF RecoverSettle, Still
<1>3. CASE ~blocked
  <2> SUFFICES ASSUME NEW r \in Runs
               PROVE  Still(r) \/ Recovering(r)
    OBVIOUS
  <2>1. run'[r] = IF r \notin Recovered(z) THEN run[r]
                  ELSE IF ~Active(r) /\ seen[r] = "SUMMARY" THEN "COMPLETED" ELSE "FAILED"
    BY <1>3 DEF RecoverSettle
  <2>2. job'[r] = IF r \in Recovered(z) /\ Active(r)
                  THEN [status |-> "INTERRUPTED", attempt |-> job[r].attempt + 1,
                        token |-> 0, live |-> FALSE]
                  ELSE job[r]
    BY <1>3 DEF RecoverSettle
  <2>3. CASE r \notin Recovered(z)
    BY <2>1, <2>2, <2>3 DEF Still
  <2>4. ASSUME r \in Recovered(z)
        PROVE  /\ run[r] # "ABSENT" /\ ~BlocksRecovery(r)
               /\ Recovers(p, r)
    <3>0. mode[p] = "recovering" /\ mode'[p] # "recovering"
      BY DEF RecoverSettle, Safe, Inv, TypeInv, MemoryOK
    <3>1. CASE r = z
      BY <1>1, <1>3, <3>0, <3>1 DEF Recovers
    <3>2. CASE r # z
      <4>1. Running(r) /\ \A b \in Runs : Running(b) /\ BlocksRecovery(b) => r < b
        BY <2>4, <3>2 DEF Recovered
      <4>2. ~(r < r)
        BY IdsAssumption DEF Runs
      <4> QED BY <3>0, <4>1, <4>2 DEF Running, Recovers
    <3> QED BY <3>1, <3>2
  <2>5. CASE r \in Recovered(z) /\ ~Active(r)
    <3>1. seen[r] = "SUMMARY" => run[r] # "RUNNING"
      <4>1. CASE r = z
        BY <1>1, <4>1 DEF Safe, Rows, RowsOf, StoreOK
      <4>2. CASE r # z
        BY <1>1, <4>2 DEF StoreOK
      <4> QED BY <4>1, <4>2
    <3>2. job[r].status # "PENDING"
      BY <1>1, <2>5, StatusKinds
    <3>3. Written(r)
      BY <2>1, <2>2, <2>4, <2>5, <3>1, <3>2 DEF Written, Settled
    <3> QED BY <2>1, <2>5, <3>3 DEF Recovering, Settled
  <2>6. CASE r \in Recovered(z) /\ Active(r)
    <3>1. job'[r].status = "INTERRUPTED" /\ job'[r].token = 0
          /\ job'[r].attempt >= job[r].attempt /\ run'[r] = "FAILED"
      BY <1>1, <2>1, <2>2, <2>6, StatusKinds
    <3>2. job[r].status = "PENDING" \/ ~job[r].live
      BY <2>4, <2>6 DEF BlocksRecovery
    <3>3. Closed(r)
      BY <2>4, <2>6, <3>1, <3>2 DEF Closed, TerminalStatus
    <3> QED BY <3>1, <3>3 DEF Recovering, Settled
  <2> QED BY <2>3, <2>5, <2>6
<1> QED BY <1>2, <1>3

\* A step of one run is a move of every row.
LEMMA OneOfAll ==
  ASSUME OneRow
  PROVE  RowMoves
  BY DEF OneRow, RowMoves, RowMove

\* Every step moves the rows of one run at most, or is start-up recovery.
LEMMA StepRows ==
  ASSUME Safe, [Next]_vars
  PROVE  \/ UNCHANGED store
         \/ OneRow
         \/ \E p \in Procs : RecoverSettle(p)
<1>1. ASSUME NEW p \in Procs, NEW r \in Runs,
             \/ CreateRun(p, r) \/ Claim(p, r) \/ DeleteRun(p, r) \/ AbortActive(p, r)
       PROVE  OneRow
  BY <1>1, CreateMoves, ClaimMoves, DeleteMoves, AbortMoves
<1>2. ASSUME NEW r \in Runs, LeaseRunsOut(r) \/ LeaseOutlivesStall(r)
       PROVE  OneRow
  BY <1>2, ExpireMoves
<1>3. ASSUME NEW p \in Procs,
             \/ StageDone(p) \/ StageAborted(p) \/ StageFails(p) \/ Mark(p)
             \/ Finalize(p) \/ CancelRun(p) \/ CancelJob(p)
       PROVE  OneRow
  BY <1>3, DoneMoves, UnwindMoves, MarkMoves, FinalizeMoves, CancelRunMoves, CancelJobMoves
<1>4. ASSUME NEW p \in Procs,
             \/ AbortWrite(p) \/ RenderProgress(p)
             \/ RenderAborted(p) \/ RenderFails(p) \/ RenderCommit(p)
       PROVE  OneRow
  BY <1>4, AbortWriteMoves, LaneMoves
<1>5. ASSUME NEW p \in Procs, NEW r \in Runs, AbortSignalled(p, r) \/ AbortRead(p, r)
       PROVE  UNCHANGED store
  BY <1>5 DEF AbortSignalled, AbortRead, store
<1>6. ASSUME NEW p \in Procs,
             \/ Submit(p) \/ RejectSubmission(p) \/ AbortRaises(p) \/ Begin(p) \/ HandOff(p)
             \/ RenderStart(p) \/ RenderDone(p) \/ Exit(p) \/ RecoverLook(p)
             \/ WatchDeadline(p) \/ HeartbeatFails(p) \/ Shutdown(p) \/ Crash(p)
       PROVE  UNCHANGED store
  BY <1>6 DEF Submit, RejectSubmission, AbortRaises, Begin, HandOff, RenderStart,
     RenderDone, Exit, RecoverLook, WatchDeadline, HeartbeatFails, Shutdown, Crash, store
<1> QED
  BY <1>1, <1>2, <1>3, <1>4, <1>5, <1>6
  DEF Next, RequestStep, WorkerStep, StageEnds, LaneStep, RestartStep, vars, store

\* So every row makes one of its moves.
LEMMA RowsMove ==
  ASSUME Safe, [Next]_vars
  PROVE  RowMoves
<1>1. ASSUME NEW p \in Procs, RecoverSettle(p)
      PROVE  RowMoves
  BY <1>1, RecoverMoves DEF RowMoves, RowMove, Recovering
<1> QED BY <1>1, StepRows, NoneMoves, OneOfAll

------------------------------------------------------------------------------
(* Each step moves one worker *)

\* A worker that does nothing.
LEMMA WorkerStays ==
  ASSUME Safe, NEW q \in Procs, worker'[q] = worker[q]
  PROVE  WorkerMove(q)
  BY DEF WorkerMove, GoesOn, Safe, Phases, PhaseOf

\* A worker that moves alone.
LEMMA WorkerFrame ==
  ASSUME Safe, NEW p \in Procs, NEW w, worker' = [worker EXCEPT ![p] = w],
         WorkerMove(p)
  PROVE  WorkerMoves
  BY WorkerStays DEF WorkerMoves, Safe, Inv, TypeInv, WorkersOK

\* A worker that lets go of its run.
LEMMA WorkerIdles ==
  ASSUME Safe, NEW p \in Procs, worker' = [worker EXCEPT ![p] = IdleWorker]
  PROVE  WorkerMoves
<1>1. worker'[p].pc = "idle"
  BY DEF IdleWorker, Safe, Inv, TypeInv, WorkersOK
<1> QED BY <1>1, WorkerFrame DEF WorkerMove

\* The abort signal is raised, or the heartbeat is lost.
LEMMA SignalWorker ==
  ASSUME Safe, NEW p \in Procs, NEW l \in BOOLEAN, worker[p].pc # "idle",
         worker' = [worker EXCEPT ![p] = [@ EXCEPT !.sig = TRUE, !.lost = l]]
  PROVE  WorkerMoves
<1>1. /\ worker'[p].pc = worker[p].pc /\ worker'[p].run = worker[p].run
      /\ worker'[p].token = worker[p].token /\ worker'[p].end = worker[p].end
  BY DEF Safe, Inv, TypeInv, WorkersOK, WorkerState
<1>2. GoesOn(p)
  BY <1>1 DEF GoesOn, Safe, Phases, PhaseOf
<1> QED BY <1>2, WorkerFrame DEF WorkerMove

\* A worker that turns to finalizing its run.
LEMMA FinalizeNext ==
  ASSUME Safe, NEW p \in Procs, NEW end \in {"CANCELLED", "FAILED", "INTERRUPTED"},
         worker[p].pc # "idle", ToFinalize(p, end)
  PROVE  WorkerMoves
<1>1. worker' = [worker EXCEPT ![p] = [@ EXCEPT !.pc = "finalizing", !.end = end]]
  BY DEF ToFinalize, Safe, Inv, TypeInv, WorkersOK, WorkerState
<1>2. /\ worker'[p].pc = "finalizing" /\ worker'[p].run = worker[p].run
      /\ worker'[p].token = worker[p].token /\ worker'[p].end = end
  BY <1>1 DEF Safe, Inv, TypeInv, WorkersOK, WorkerState
<1>3. GoesOn(p)
  BY <1>2 DEF GoesOn
<1> QED BY <1>1, <1>3, WorkerFrame DEF WorkerMove

\* claim_next.
LEMMA ClaimWorker ==
  ASSUME Safe, NEW p \in Procs, NEW r \in Runs, Claim(p, r)
  PROVE  WorkerMoves
<1> DEFINE n == job[r].attempt + 1
<1>1. PICK pc \in Dispatch(r) :
        worker' = [worker EXCEPT ![p] =
          [pc |-> pc, run |-> r, token |-> n, lost |-> FALSE, sig |-> FALSE,
           end |-> IF pc = "finalizing" THEN "INTERRUPTED" ELSE "NONE"]]
  BY DEF Claim
<1>2. /\ StoreOK /\ WorkersOK /\ worker[p].pc = "idle" /\ Claimed(r)
      /\ job'[r].token = n /\ mode[p] = "up" /\ mode' = mode
  BY ClaimMoves DEF Safe, Inv, TypeInv, Claim, StoreOK, local
<1>3. /\ worker'[p].pc = pc /\ worker'[p].run = r /\ worker'[p].token = n
      /\ pc = "finalizing" => worker'[p].end # "NONE"
      /\ \A q \in Procs \ {p} : worker'[q] = worker[q]
  BY <1>1, <1>2 DEF WorkersOK
<1>4. /\ pc \in {"starting", "finalizing", "cancelling"}
      /\ pc = "starting" => job[r].status # "CANCEL_REQUESTED" /\ ~(job[r].attempt > 0)
  BY DEF Dispatch
<1>5. pc = "starting" => job[r].status = "PENDING" /\ job[r].attempt = 0
  BY <1>2, <1>4, StatusKinds DEF Claim, Claimable, ClaimedStatus, Safe, Inv, ClaimsCounted
<1>6. Draws(p)
  BY <1>2, <1>3, <1>4, <1>5 DEF Draws
<1> QED BY <1>1, <1>6, WorkerFrame DEF WorkerMove

\* _execute lets go of the executor, or turns to the end of the run.
LEMMA BeginWorker ==
  ASSUME Safe, NEW p \in Procs, Begin(p)
  PROVE  WorkerMoves
<1> DEFINE r == worker[p].run
           goes == ~worker[p].lost /\ Running(r) /\ Fenced(p, StageFence)
<1>1. /\ WorkersOK /\ CountsOK /\ StoreOK /\ r \in Runs /\ worker[p].pc = "starting"
  BY AtWork DEF Safe, Inv, TypeInv, Begin
<1>2. CASE ~Owns(p)
  BY <1>2, WorkerIdles DEF Begin
<1>3. CASE Owns(p) /\ job[r].status = "CANCEL_REQUESTED"
  <2>1. worker' = [worker EXCEPT ![p] = [@ EXCEPT !.pc = "cancelling"]]
    BY <1>1, <1>3 DEF Begin, WorkersOK, WorkerState
  <2>2. /\ worker'[p].pc = "cancelling" /\ worker'[p].run = r
        /\ worker'[p].token = worker[p].token
    BY <1>1, <2>1 DEF WorkersOK, WorkerState
  <2>3. GoesOn(p)
    BY <1>1, <2>2 DEF GoesOn
  <2> QED BY <2>1, <2>3, WorkerFrame DEF WorkerMove
<1>4. CASE Owns(p) /\ job[r].status # "CANCEL_REQUESTED" /\ goes
  <2>1. worker' = [worker EXCEPT ![p] = [@ EXCEPT !.pc = "running", !.sig = FALSE]]
    BY <1>1, <1>4 DEF Begin, WorkersOK, WorkerState
  <2>2. /\ worker'[p].pc = "running" /\ worker'[p].run = r
        /\ worker'[p].token = worker[p].token
    BY <1>1, <2>1 DEF WorkersOK, WorkerState
  <2>3. started'[r] > 0 /\ job' = job
    BY <1>1, <1>4 DEF Begin, CountsOK
  <2>4. GoesOn(p)
    BY <1>1, <1>4, <2>2, <2>3 DEF GoesOn
  <2> QED BY <2>1, <2>4, WorkerFrame DEF WorkerMove
<1>5. CASE Owns(p) /\ job[r].status # "CANCEL_REQUESTED" /\ ~goes
  <2>1. Running(r)
    BY <1>1, <1>5 DEF Safe, Phases, PhaseOf, Running
  <2>2. ToFinalize(p, "CANCELLED")
    BY <1>1, <1>5, <2>1 DEF Begin
  <2> QED BY <1>1, <2>2, FinalizeNext
<1> QED BY <1>2, <1>3, <1>4, <1>5

\* The stage ended.
LEMMA StageWorker ==
  ASSUME Safe, NEW p \in Procs, StageEnds(p)
  PROVE  WorkerMoves
<1> DEFINE r == worker[p].run
<1>1. /\ WorkersOK /\ StoreOK /\ r \in Runs /\ worker[p].pc = "running"
  BY AtWork DEF StageEnds, StageDone, StageAborted, StageFails, StageUnwinds
<1>2. CASE StageDone(p) /\ Fenced(p, StageFence)
  <2>1. worker' = [worker EXCEPT ![p] = [@ EXCEPT !.pc = "closing"]]
    <3>1. worker' = [worker EXCEPT ![p].pc = "closing"]
      BY <1>2 DEF StageDone
    <3> QED BY <3>1 DEF WorkersOK
  <2>2. /\ worker'[p].pc = "closing" /\ worker'[p].run = r
        /\ worker'[p].token = worker[p].token
    BY <1>1, <2>1 DEF WorkersOK, WorkerState
  <2>3. run'[r] \in {"SUMMARY", "COMPLETED"}
    BY <1>1, <1>2 DEF StageDone, SetRun, StoreOK
  <2>4. GoesOn(p)
    BY <1>1, <2>2, <2>3 DEF GoesOn
  <2> QED BY <2>1, <2>4, WorkerFrame DEF WorkerMove
<1>3. CASE StageDone(p) /\ ~Fenced(p, StageFence)
  <2>1. ToFinalize(p, "CANCELLED")
    BY <1>3 DEF StageDone
  <2> QED BY <1>1, <2>1, FinalizeNext
<1>4. CASE StageAborted(p)
  <2>1. ToFinalize(p, "CANCELLED")
    BY <1>4 DEF StageAborted, StageUnwinds
  <2> QED BY <1>1, <2>1, FinalizeNext
<1>5. CASE StageFails(p)
  <2>1. ToFinalize(p, "FAILED")
    BY <1>5 DEF StageFails, StageUnwinds
  <2> QED BY <1>1, <2>1, FinalizeNext
<1> QED BY <1>2, <1>3, <1>4, <1>5 DEF StageEnds

\* mark_terminal(COMPLETED), and what is handed over after it.
LEMMA MarkWorker ==
  ASSUME Safe, NEW p \in Procs, Mark(p)
  PROVE  WorkerMoves
<1> DEFINE r == worker[p].run
<1>1. /\ WorkersOK /\ StoreOK /\ CountsOK /\ r \in Runs /\ worker[p].pc = "closing"
  BY AtWork DEF Mark, Safe, Inv, TypeInv
<1>2. CASE \E end \in {"CANCELLED", "FAILED"} : ToFinalize(p, end)
  BY <1>1, <1>2, FinalizeNext
<1>3. CASE worker' = [worker EXCEPT ![p] = IdleWorker]
  BY <1>3, WorkerIdles
<1>4. CASE /\ Close(r, "COMPLETED") /\ run[r] = "SUMMARY"
           /\ worker' = [worker EXCEPT ![p] = [@ EXCEPT !.pc = "handoff"]]
  <2>1. /\ worker'[p].pc = "handoff" /\ worker'[p].run = r
        /\ worker'[p].token = worker[p].token
    BY <1>1, <1>4 DEF WorkersOK, WorkerState
  <2>2. job'[r].status = "COMPLETED"
    BY <1>1, <1>4 DEF Close, StoreOK
  <2>3. r \in parked'
    BY <1>1, <1>4 DEF Safe, Rows, RowsOf, Mark, history
  <2>4. Rendering(r)'
    BY <2>1, <2>2, <2>3 DEF Rendering
  <2>5. GoesOn(p)
    BY <1>1, <2>1, <2>4 DEF GoesOn
  <2> QED BY <1>4, <2>5, WorkerFrame DEF WorkerMove
<1> QED BY <1>2, <1>3, <1>4 DEF Mark

\* executor.cancel of _execute_cancelled: it writes the run, unless a database
\* error kept it from doing so or the claim is lost.
LEMMA CancelWorker ==
  ASSUME Safe, NEW p \in Procs, CancelRun(p)
  PROVE  WorkerMoves
<1> DEFINE r == worker[p].run
<1>1. /\ WorkersOK /\ StoreOK /\ r \in Runs /\ worker[p].pc = "cancelling"
  BY AtWork DEF CancelRun
<1>2. CASE ~Owns(p)
  BY <1>2, WorkerIdles DEF CancelRun
<1>3. CASE Owns(p)
  <2>1. worker' = [worker EXCEPT ![p] = [@ EXCEPT !.pc = "cancelled"]]
    <3>1. worker' = [worker EXCEPT ![p].pc = "cancelled"]
      BY <1>3 DEF CancelRun
    <3> QED BY <3>1 DEF WorkersOK
  <2>2. /\ worker'[p].pc = "cancelled" /\ worker'[p].run = r
        /\ worker'[p].token = worker[p].token /\ job' = job
    BY <1>1, <2>1 DEF CancelRun, WorkersOK, WorkerState
  <2>3. \/ TransientErrors
        \/ run'[r] # "RUNNING"
        \/ ~job[r].live
    <3>1. job[r].status \in CancelFence
      BY <1>1, <1>3, OwnsClaimed DEF CancelFence
    <3>2. CASE run'[r] = "ABORTED"
      BY <3>2
    <3>3. CASE ~Running(r) /\ run' = run
      BY <3>3 DEF Running
    <3>4. CASE ~Fenced(p, CancelFence)
      BY <1>3, <3>1, <3>4 DEF Fenced
    <3> QED BY <1>1, <3>2, <3>3, <3>4 DEF CancelRun, SetRun, StoreOK
  <2>4. GoesOn(p)
    BY <1>1, <2>2, <2>3 DEF GoesOn
  <2> QED BY <2>1, <2>4, WorkerFrame DEF WorkerMove
<1> QED BY <1>2, <1>3

\* Every step moves at most one worker, along its phases.
LEMMA WorkersMove ==
  ASSUME Safe, [Next]_vars
  PROVE  WorkerMoves
<1>1. ASSUME UNCHANGED worker
      PROVE  WorkerMoves
  BY <1>1, WorkerStays DEF WorkerMoves
<1>2. ASSUME NEW p \in Procs,
             Begin(p) \/ StageEnds(p) \/ Mark(p) \/ CancelRun(p)
      PROVE  WorkerMoves
  BY <1>2, BeginWorker, StageWorker, MarkWorker, CancelWorker
<1>3. ASSUME NEW p \in Procs,
             HandOff(p) \/ Finalize(p) \/ CancelJob(p) \/ Exit(p) \/ Crash(p)
      PROVE  WorkerMoves
  BY <1>3, WorkerIdles DEF HandOff, Finalize, CancelJob, Exit, Crash, Vanish
<1>4. ASSUME NEW p \in Procs, NEW r \in Runs, Claim(p, r)
      PROVE  WorkerMoves
  BY <1>4, ClaimWorker
<1>5. ASSUME NEW p \in Procs, NEW r \in Runs, AbortActive(p, r) \/ AbortSignalled(p, r)
      PROVE  WorkerMoves
  <2>1. CASE worker' = worker
    BY <2>1, <1>1
  <2>2. CASE Executes(p, r) /\ worker' = [worker EXCEPT ![p].sig = TRUE]
    <3>1. worker' = [worker EXCEPT ![p] = [@ EXCEPT !.sig = TRUE, !.lost = worker[p].lost]]
          /\ worker[p].lost \in BOOLEAN
      BY <2>2 DEF Safe, Inv, TypeInv, WorkersOK, WorkerState
    <3> QED BY <2>2, <3>1, SignalWorker DEF Executes
  <2> QED BY <1>5, <2>1, <2>2 DEF AbortActive, AbortSignalled
<1>6. ASSUME NEW p \in Procs, WatchDeadline(p)
      PROVE  WorkerMoves
  <2>1. worker' = [worker EXCEPT ![p] = [@ EXCEPT !.sig = TRUE, !.lost = worker[p].lost]]
        /\ worker[p].lost \in BOOLEAN
    BY <1>6 DEF WatchDeadline, Safe, Inv, TypeInv, WorkersOK, WorkerState
  <2> QED BY <1>6, <2>1, SignalWorker DEF WatchDeadline
<1>7. ASSUME NEW p \in Procs, HeartbeatFails(p)
      PROVE  WorkerMoves
  <2>1. worker' = [worker EXCEPT ![p] = [@ EXCEPT !.sig = TRUE, !.lost = TRUE]]
    BY <1>7 DEF HeartbeatFails, Safe, Inv, TypeInv, WorkersOK, WorkerState
  <2> QED BY <1>7, <2>1, SignalWorker DEF HeartbeatFails
<1>8. ASSUME NEW p \in Procs, NEW r \in Runs,
             AbortRead(p, r) \/ CreateRun(p, r) \/ DeleteRun(p, r)
      PROVE  WorkerMoves
  BY <1>8, <1>1 DEF AbortRead, CreateRun, DeleteRun
<1>9. ASSUME NEW p \in Procs,
             \/ Submit(p) \/ RejectSubmission(p) \/ AbortWrite(p) \/ AbortRaises(p)
             \/ RenderStart(p) \/ RenderProgress(p) \/ RenderAborted(p) \/ RenderFails(p)
             \/ RenderDone(p) \/ RenderCommit(p) \/ RecoverLook(p) \/ RecoverSettle(p) \/ Shutdown(p)
      PROVE  WorkerMoves
  BY <1>9, <1>1 DEF Submit, RejectSubmission, AbortWrite, AbortRaises, RenderStart,
     RenderProgress, RenderAborted, RenderFails, RenderUnwinds, RenderDone, RenderCommit, RecoverLook,
     RecoverSettle, Shutdown
<1>10. ASSUME NEW r \in Runs, LeaseRunsOut(r) \/ LeaseOutlivesStall(r)
       PROVE  WorkerMoves
  BY <1>10, <1>1 DEF LeaseRunsOut, LeaseOutlivesStall
<1> QED
  BY <1>1, <1>2, <1>3, <1>4, <1>5, <1>6, <1>7, <1>8, <1>9, <1>10
  DEF Next, RequestStep, WorkerStep, LaneStep, RestartStep, vars

------------------------------------------------------------------------------
(* The counters, and what waits *)

\* Stages are only counted up, and only an analysis whose stage was started is
\* parked.
LEMMA HistoryMove ==
  ASSUME Safe, [Next]_vars
  PROVE  HistoryMoves
<1>0. StoreOK /\ WorkersOK /\ CountsOK
  BY DEF Safe, Inv, TypeInv
<1>1. ASSUME UNCHANGED <<started, parked>>, stalls' = stalls \/ stalls' > 0
      PROVE  HistoryMoves
  BY <1>0, <1>1 DEF HistoryMoves, CountsOK
<1>2. ASSUME NEW p \in Procs, Begin(p)
      PROVE  HistoryMoves
  <2> DEFINE r == worker[p].run
  <2>1. r \in Runs
    BY <1>2, AtWork DEF Begin
  <2>2. parked' = parked /\ stalls' = stalls
        /\ (started' = started \/ started' = [started EXCEPT ![r] = @ + 1])
    BY <1>2 DEF Begin, faults
  <2> QED BY <1>0, <2>1, <2>2 DEF HistoryMoves, CountsOK
<1>3. ASSUME NEW p \in Procs, StageDone(p)
      PROVE  HistoryMoves
  <2> DEFINE r == worker[p].run
  <2>1. r \in Runs /\ started[r] > 0
    BY <1>3, AtWork DEF StageDone, Safe, Phases, PhaseOf
  <2>2. started' = started /\ stalls' = stalls
    BY <1>3 DEF StageDone, faults
  <2>3. \/ parked' = parked
        \/ r \notin Watches /\ parked' = parked \cup {r} /\ run' = [run EXCEPT ![r] = "SUMMARY"]
    BY <1>3 DEF StageDone, SetRun
  <2> QED BY <1>0, <2>1, <2>2, <2>3 DEF HistoryMoves, CountsOK, StoreOK
<1>4. ASSUME NEW p \in Procs, NEW r \in Runs,
             \/ AbortSignalled(p, r) \/ AbortRead(p, r) \/ CreateRun(p, r)
             \/ DeleteRun(p, r) \/ AbortActive(p, r) \/ Claim(p, r)
      PROVE  HistoryMoves
  BY <1>4, <1>1 DEF AbortSignalled, AbortRead, CreateRun, DeleteRun, AbortActive, Claim,
     faults, history
<1>5. ASSUME NEW p \in Procs,
             \/ Submit(p) \/ RejectSubmission(p) \/ AbortWrite(p) \/ AbortRaises(p)
             \/ StageAborted(p) \/ StageFails(p) \/ Mark(p) \/ HandOff(p)
             \/ RenderProgress(p) \/ Finalize(p) \/ CancelRun(p) \/ CancelJob(p) \/ RenderStart(p)
             \/ RenderAborted(p) \/ RenderFails(p) \/ RenderDone(p) \/ RenderCommit(p)
             \/ Exit(p) \/ RecoverLook(p) \/ RecoverSettle(p) \/ WatchDeadline(p)
             \/ HeartbeatFails(p) \/ Shutdown(p) \/ Crash(p)
      PROVE  HistoryMoves
  BY <1>5, <1>1 DEF Submit, RejectSubmission, AbortWrite, AbortRaises, StageAborted,
     StageFails, Mark, HandOff, Finalize, CancelRun, CancelJob, RenderStart,
     RenderProgress, RenderAborted, RenderFails, RenderDone, RenderCommit, Exit, RecoverLook,
     RecoverSettle, WatchDeadline, HeartbeatFails, Shutdown, Crash, StageUnwinds,
     RenderUnwinds, faults, history
<1>6. ASSUME NEW r \in Runs, LeaseRunsOut(r) \/ LeaseOutlivesStall(r)
      PROVE  HistoryMoves
  BY <1>0, <1>6, <1>1 DEF LeaseRunsOut, LeaseOutlivesStall, faults, history, CountsOK
<1>7. ASSUME UNCHANGED vars
      PROVE  HistoryMoves
  BY <1>7, <1>1 DEF vars, history
<1> QED
  BY <1>1, <1>2, <1>3, <1>4, <1>5, <1>6, <1>7
  DEF Next, RequestStep, WorkerStep, StageEnds, LaneStep, RestartStep

\* The queue after a run was handed over, or taken from it.
LEMMA QueueEnds ==
  ASSUME NEW q \in Seq(Runs), NEW r \in Runs
  PROVE  /\ \A i \in 1 .. Len(Append(q, r)) :
              Append(q, r)[i] = r \/ \E j \in 1 .. Len(q) : Append(q, r)[i] = q[j]
         /\ q # << >> => /\ \E j \in 1 .. Len(q) : Head(q) = q[j]
                         /\ \A i \in 1 .. Len(Tail(q)) : \E j \in 1 .. Len(q) : Tail(q)[i] = q[j]
<1>1. \A i \in 1 .. Len(Append(q, r)) :
        Append(q, r)[i] = r \/ \E j \in 1 .. Len(q) : Append(q, r)[i] = q[j]
  OBVIOUS
<1>2. ASSUME q # << >>
      PROVE  /\ Head(q) = q[1] /\ 1 \in 1 .. Len(q)
             /\ \A i \in 1 .. Len(Tail(q)) : i + 1 \in 1 .. Len(q) /\ Tail(q)[i] = q[i + 1]
  BY <1>2
<1> QED BY <1>1, <1>2

\* What is rendered or queued afterwards was fit for it before.
LEMMA WaitMove ==
  ASSUME Safe, [Next]_vars
  PROVE  WaitMoves
<1>0. StoreOK /\ WorkersOK /\ LaneOK /\ MemoryOK /\ Waiting
  BY DEF Safe, Inv, TypeInv
<1>1. ASSUME UNCHANGED local
      PROVE  WaitMoves
  BY <1>0, <1>1 DEF WaitMoves, Waiting, WaitOf, local
<1>2. ASSUME NEW p \in Procs, HandOff(p)
      PROVE  WaitMoves
  <2> DEFINE r == worker[p].run
  <2>1. r \in Runs /\ Rendering(r)
    BY <1>2, AtWork DEF HandOff, Safe, Phases, PhaseOf
  <2>2. /\ UNCHANGED <<lane, mode, recovery, aborting>>
        /\ queue' = queue \/ queue' = [queue EXCEPT ![p] = Append(queue[p], r)]
    BY <1>2 DEF HandOff
  <2>3. ASSUME NEW q \in Procs, NEW i \in 1 .. Len(queue'[q])
        PROVE  Rendering(queue'[q][i])
    <3>1. CASE queue'[q] = queue[q]
      BY <1>0, <2>3, <3>1 DEF Waiting, WaitOf
    <3>2. CASE q = p /\ queue'[p] = Append(queue[p], r)
      <4>1. queue[p] \in Seq(Runs)
        BY <1>0 DEF MemoryOK
      <4>2. queue'[q][i] = r \/ \E j \in 1 .. Len(queue[p]) : queue'[q][i] = queue[p][j]
        BY <2>1, <2>3, <3>2, <4>1, QueueEnds
      <4> QED BY <1>0, <2>1, <4>2 DEF Waiting, WaitOf
    <3> QED BY <1>0, <2>2, <3>1, <3>2 DEF MemoryOK
  <2> QED BY <1>0, <2>2, <2>3 DEF WaitMoves, Waiting, WaitOf
<1>3. ASSUME NEW p \in Procs, RenderStart(p)
      PROVE  WaitMoves
  <2> DEFINE h == Head(queue[p])
  <2>1. /\ UNCHANGED <<mode, recovery, aborting>>
        /\ queue' = [queue EXCEPT ![p] = Tail(queue[p])]
        /\ \/ lane' = lane
           \/ lane' = [lane EXCEPT ![p] = [pc |-> "rendering", run |-> h, sig |-> FALSE]]
    BY <1>3 DEF RenderStart
  <2>2. /\ \E j \in 1 .. Len(queue[p]) : h = queue[p][j]
        /\ \A i \in 1 .. Len(Tail(queue[p])) :
             \E j \in 1 .. Len(queue[p]) : Tail(queue[p])[i] = queue[p][j]
    <3>1. queue[p] \in Seq(Runs) /\ queue[p] # << >>
      BY <1>0, <1>3 DEF MemoryOK, RenderStart
    <3>2. h \in Runs
      BY <3>1
    <3> HIDE DEF h
    <3> QED BY <3>1, <3>2, QueueEnds DEF h
  <2>3. Rendering(h) /\ \A i \in 1 .. Len(Tail(queue[p])) : Rendering(Tail(queue[p])[i])
    BY <1>0, <2>2 DEF Waiting, WaitOf
  <2>4. \A q \in Procs : lane'[q].pc # "idle" => Rendering(lane'[q].run)
    BY <1>0, <2>1, <2>3 DEF Waiting, WaitOf, LaneOK
  <2>5. \A q \in Procs : \A i \in 1 .. Len(queue'[q]) : Rendering(queue'[q][i])
    BY <1>0, <2>1, <2>3 DEF Waiting, WaitOf, MemoryOK
  <2> QED BY <1>0, <2>1, <2>4, <2>5 DEF WaitMoves, Waiting, WaitOf
<1>4. ASSUME NEW p \in Procs, NEW r \in Runs, AbortSignalled(p, r)
      PROVE  WaitMoves
  <2>1. UNCHANGED <<queue, mode, recovery, aborting>>
        /\ (lane' = lane \/ lane' = [lane EXCEPT ![p] = [@ EXCEPT !.sig = TRUE]])
    BY <1>4 DEF AbortSignalled
  <2>2. \A q \in Procs : lane'[q].pc = lane[q].pc /\ lane'[q].run = lane[q].run
    BY <1>0, <2>1 DEF LaneOK, LaneState
  <2> QED BY <1>0, <2>1, <2>2 DEF WaitMoves, Waiting, WaitOf
<1>5. ASSUME NEW p \in Procs, RenderDone(p)
      PROVE  WaitMoves
  <2>1. UNCHANGED <<queue, mode, recovery, aborting>> /\ lane[p].pc = "rendering"
        /\ lane' = [lane EXCEPT ![p] = [@ EXCEPT !.pc = "closing", !.sig = FALSE]]
    BY <1>0, <1>5 DEF RenderDone, LaneOK, LaneState
  <2>2. \A q \in Procs : /\ lane'[q].pc # "idle" => lane[q].pc # "idle"
                         /\ lane'[q].run = lane[q].run
    BY <1>0, <2>1 DEF LaneOK, LaneState
  <2> QED BY <1>0, <2>1, <2>2 DEF WaitMoves, Waiting, WaitOf
<1>6. ASSUME NEW p \in Procs, RenderAborted(p) \/ RenderFails(p) \/ RenderCommit(p)
      PROVE  WaitMoves
  <2>1. UNCHANGED <<queue, mode, recovery, aborting>> /\ lane' = [lane EXCEPT ![p] = IdleLane]
    BY <1>6 DEF RenderAborted, RenderFails, RenderUnwinds, RenderCommit
  <2>2. \A q \in Procs : lane'[q].pc = "idle" \/ lane'[q] = lane[q]
    BY <1>0, <2>1 DEF LaneOK, IdleLane
  <2> QED BY <1>0, <2>1, <2>2 DEF WaitMoves, Waiting, WaitOf
<1>7. ASSUME NEW p \in Procs, NEW r \in Runs, AbortRead(p, r)
      PROVE  WaitMoves
  <2>1. UNCHANGED <<lane, queue, mode, recovery>> /\ aborting' = [aborting EXCEPT ![p] = r]
    BY <1>7 DEF AbortRead
  <2>2. Unfenced(r)
    <3>1. ~Active(r) /\ run[r] \in {"RUNNING", "SUMMARY"}
      BY <1>7 DEF AbortRead, Abortable, Running
    <3>2. job[r].status \in {"COMPLETED", "FAILED", "INTERRUPTED"} => r \in parked
      BY <3>1 DEF Safe, Rows, RowsOf
    <3>3. job[r].status \in TerminalStatus \cup {"NONE"}
      BY <1>0, <3>1, StatusKinds DEF ClosedStatus
    <3> QED BY <3>1, <3>2, <3>3 DEF Unfenced, TerminalStatus
  <2> QED BY <1>0, <2>1, <2>2 DEF WaitMoves, Waiting, WaitOf, MemoryOK
<1>8. ASSUME NEW p \in Procs, AbortWrite(p) \/ AbortRaises(p)
      PROVE  WaitMoves
  <2>1. UNCHANGED <<lane, queue, mode, recovery>> /\ aborting' = [aborting EXCEPT ![p] = NoRun]
    BY <1>8 DEF AbortWrite, AbortRaises
  <2> QED BY <1>0, <2>1 DEF WaitMoves, Waiting, WaitOf, MemoryOK
<1>9. ASSUME NEW p \in Procs, Exit(p) \/ Crash(p)
      PROVE  WaitMoves
  <2>1. /\ mode' = [mode EXCEPT ![p] = "down"]
        /\ lane' = [lane EXCEPT ![p] = IdleLane]
        /\ queue' = [queue EXCEPT ![p] = << >>]
        /\ recovery' = [recovery EXCEPT ![p] = [run |-> NoRun, seen |-> "ABSENT"]]
        /\ aborting' = [aborting EXCEPT ![p] = NoRun]
    BY <1>9 DEF Exit, Crash, Vanish
  <2>2. /\ lane'[p].pc = "idle" /\ Len(queue'[p]) = 0 /\ mode'[p] = "down"
        /\ aborting'[p] = NoRun
        /\ \A q \in Procs \ {p} : /\ lane'[q] = lane[q] /\ queue'[q] = queue[q]
                                  /\ aborting'[q] = aborting[q] /\ mode'[q] = mode[q]
                                  /\ recovery'[q] = recovery[q]
    BY <1>0, <2>1 DEF LaneOK, MemoryOK, IdleLane
  <2> QED BY <1>0, <2>2 DEF WaitMoves, Waiting, WaitOf
<1>10. ASSUME NEW p \in Procs, Shutdown(p)
       PROVE  WaitMoves
  <2>1. /\ mode' = [mode EXCEPT ![p] = "stopping"]
        /\ lane' = [lane EXCEPT ![p] = IdleLane]
        /\ queue' = [queue EXCEPT ![p] = << >>]
        /\ recovery' = recovery
        /\ aborting' = [aborting EXCEPT ![p] = NoRun]
    BY <1>10 DEF Shutdown
  <2>2. /\ lane'[p].pc = "idle" /\ Len(queue'[p]) = 0 /\ mode'[p] = "stopping"
        /\ aborting'[p] = NoRun
        /\ \A q \in Procs \ {p} : /\ lane'[q] = lane[q] /\ queue'[q] = queue[q]
                                  /\ aborting'[q] = aborting[q] /\ mode'[q] = mode[q]
                                  /\ recovery'[q] = recovery[q]
    BY <1>0, <2>1 DEF LaneOK, MemoryOK, IdleLane
  <2> QED BY <1>0, <2>2 DEF WaitMoves, Waiting, WaitOf
<1>11. ASSUME NEW p \in Procs, RecoverLook(p)
       PROVE  WaitMoves
  <2>1. UNCHANGED <<lane, queue, aborting>>
    BY <1>11 DEF RecoverLook
  <2>2. \/ mode' = [mode EXCEPT ![p] = "up"] /\ recovery' = recovery
        \/ /\ mode' = [mode EXCEPT ![p] = "recovering"]
           /\ \E z \in Runs : /\ Running(z)
                              /\ recovery' = [recovery EXCEPT ![p] = [run |-> z, seen |-> run[z]]]
    BY <1>11 DEF RecoverLook
  <2>3. \A z \in Runs : Running(z) => Zombie(z, run[z])
    BY DEF Safe, Rows, RowsOf, Running, Zombie
  <2>4. \A q \in Procs : mode'[q] = "recovering" => Zombie(recovery'[q].run, recovery'[q].seen)
    <3>1. CASE mode' = [mode EXCEPT ![p] = "up"] /\ recovery' = recovery
      BY <1>0, <3>1 DEF MemoryOK, Waiting, WaitOf
    <3>2. ASSUME NEW z \in Runs, Running(z), mode' = [mode EXCEPT ![p] = "recovering"],
                 recovery' = [recovery EXCEPT ![p] = [run |-> z, seen |-> run[z]]]
          PROVE  \A q \in Procs : mode'[q] = "recovering" => Zombie(recovery'[q].run, recovery'[q].seen)
      <4>1. Zombie(z, run[z])
        BY <2>3, <3>2
      <4>2. recovery'[p].run = z /\ recovery'[p].seen = run[z]
        BY <1>0, <3>2 DEF MemoryOK
      <4>3. \A q \in Procs \ {p} : recovery'[q] = recovery[q] /\ mode'[q] = mode[q]
        BY <1>0, <3>2 DEF MemoryOK
      <4> QED BY <1>0, <4>1, <4>2, <4>3 DEF Waiting, WaitOf
    <3> QED BY <2>2, <3>1, <3>2
  <2> QED BY <1>0, <2>1, <2>4 DEF WaitMoves, Waiting, WaitOf
<1>12. ASSUME NEW p \in Procs, RecoverSettle(p)
       PROVE  WaitMoves
  <2>1. /\ UNCHANGED <<lane, queue, aborting>>
        /\ mode' = [mode EXCEPT ![p] = "up"]
        /\ recovery' = [recovery EXCEPT ![p] = [run |-> NoRun, seen |-> "ABSENT"]]
    BY <1>12 DEF RecoverSettle
  <2> QED BY <1>0, <2>1 DEF WaitMoves, Waiting, WaitOf, MemoryOK
<1>13. ASSUME NEW p \in Procs, NEW r \in Runs,
             \/ CreateRun(p, r) \/ DeleteRun(p, r) \/ AbortActive(p, r) \/ Claim(p, r)
      PROVE  WaitMoves
  BY <1>0, <1>13 DEF CreateRun, DeleteRun, AbortActive, Claim, local, WaitMoves, Waiting, WaitOf
<1>14. ASSUME NEW p \in Procs,
             \/ Submit(p) \/ RejectSubmission(p) \/ Begin(p) \/ StageEnds(p) \/ Mark(p)
             \/ Finalize(p) \/ CancelRun(p) \/ CancelJob(p) \/ WatchDeadline(p)
             \/ HeartbeatFails(p)
      PROVE  WaitMoves
  BY <1>0, <1>14 DEF Submit, RejectSubmission, Begin, StageEnds, StageDone, StageAborted,
     StageFails, StageUnwinds, Mark, Finalize, CancelRun, CancelJob, WatchDeadline,
     HeartbeatFails, local, WaitMoves, Waiting, WaitOf
<1>15. ASSUME NEW r \in Runs, LeaseRunsOut(r) \/ LeaseOutlivesStall(r)
      PROVE  WaitMoves
  BY <1>15, <1>1 DEF LeaseRunsOut, LeaseOutlivesStall
<1>16. ASSUME UNCHANGED vars
      PROVE  WaitMoves
  BY <1>16, <1>1 DEF vars, local
<1>17. ASSUME NEW p \in Procs, RenderProgress(p)
      PROVE  WaitMoves
  BY <1>17, <1>1 DEF RenderProgress, local
<1> QED
  BY <1>1, <1>2, <1>3, <1>4, <1>5, <1>6, <1>7, <1>8, <1>9, <1>10, <1>11, <1>12, <1>13,
     <1>14, <1>15, <1>16, <1>17
  DEF Next, RequestStep, WorkerStep, LaneStep, RestartStep

------------------------------------------------------------------------------
(* The moves keep the invariant *)

\* What a row was and what it becomes.
LEMMA RowFacts ==
  ASSUME Safe, NEW r \in Runs, RowMove(r)
  PROVE  /\ run'[r] = "ABSENT" => run[r] = "ABSENT"
         /\ job[r].status = "NONE" /\ run[r] # "ABSENT" =>
              job'[r].status = "NONE" /\ ~Created(r) /\ ~Claimed(r)
         /\ run'[r] = "RUNNING" => run[r] = "RUNNING" \/ Created(r)
         /\ job'[r].status # "NONE" => job'[r].attempt >= job[r].attempt \/ Created(r)
         /\ job[r].attempt \in Nat /\ job[r].token \in Nat
<1>1. StoreOK /\ job[r].attempt \in Nat /\ job[r].token \in Nat /\ RowsOf(r)
  BY StatusKinds DEF Safe, Inv, TypeInv, Rows
<1>2. run[r] \in {"ABSENT", "DELETED"} =>
        job[r].status = "NONE" /\ ~Active(r) /\ ~Claimable(r)
  BY <1>1, NoJobClosed DEF RowsOf, Claimable, ClaimedStatus
<1>3. job[r].status \in ClaimedStatus => run[r] \notin {"ABSENT", "DELETED"}
  BY <1>2 DEF ClaimedStatus
<1>11. job[r].status = "NONE" => ~Active(r) /\ ~Claimable(r)
  BY DEF Active, ActiveStatus, Claimable, ClaimedStatus
<1>4. CASE Still(r)
  BY <1>1, <1>2, <1>4, <1>11 DEF Still, Created, Claimed
<1>5. CASE Created(r)
  BY <1>1, <1>5 DEF Created, Claimed
<1>6. CASE Claimed(r)
  BY <1>1, <1>2, <1>6, <1>11 DEF Claimed
<1>7. CASE Touched(r)
  BY <1>1, <1>3, <1>7, <1>11 DEF Touched, Created, Claimed, ClaimedStatus
<1>8. CASE Written(r)
  BY <1>1, <1>8, <1>11 DEF Written, Settled, Created, Claimed
<1>9. CASE Closed(r)
  BY <1>1, <1>2, <1>9, <1>11 DEF Closed
<1>10. CASE Removed(r)
  BY <1>1, <1>10, <1>11 DEF Removed, Settled, NoJob, Created, Claimed
<1> QED BY <1>4, <1>5, <1>6, <1>7, <1>8, <1>9, <1>10 DEF RowMove

\* The two rows of a run stay in step.
LEMMA RowsStep ==
  ASSUME Safe, TypeInv', RowMoves, HistoryMoves
  PROVE  Rows'
<1> SUFFICES ASSUME NEW r \in Runs
             PROVE  RowsOf(r)'
  BY DEF Rows
<1>1. /\ StoreOK /\ CountsOK /\ job[r].attempt \in Nat /\ job[r].token \in Nat
      /\ RowsOf(r) /\ RowMove(r)
  BY StatusKinds DEF Safe, Inv, TypeInv, Rows, RowMoves
<1>2. /\ r \in parked => r \in parked'
      /\ r \in parked' => \/ r \in parked
                          \/ r \notin Watches /\ started'[r] > 0 /\ run'[r] = "SUMMARY"
      /\ started[r] > 0 => started'[r] > 0
  <2>1. started[r] \in Nat /\ started'[r] >= started[r]
    BY <1>1 DEF HistoryMoves, CountsOK
  <2>2. started'[r] \in Nat
    BY DEF TypeInv, CountsOK
  <2> QED BY <2>1, <2>2 DEF HistoryMoves
<1>3. CASE Still(r)
  BY <1>1, <1>2, <1>3 DEF Still, RowsOf
<1>4. CASE Created(r)
  BY <1>1, <1>2, <1>4 DEF Created, RowsOf, ClaimedStatus
<1>5. CASE Claimed(r)
  BY <1>1, <1>2, <1>5, NoJobClosed DEF Claimed, RowsOf, ClaimedStatus, Claimable
<1>6. CASE Touched(r)
  BY <1>1, <1>2, <1>6, NoJobClosed DEF Touched, RowsOf, ClaimedStatus
<1>7. CASE Written(r)
  BY <1>1, <1>2, <1>7 DEF Written, RowsOf, ClaimedStatus, Settled
<1>8. CASE Closed(r)
  BY <1>1, <1>2, <1>8, NoJobClosed DEF Closed, RowsOf, ClaimedStatus, TerminalStatus
<1>9. CASE Removed(r)
  BY <1>1, <1>2, <1>9, NoJobClosed DEF Removed, RowsOf, ClaimedStatus, Settled, NoJob
<1> QED BY <1>1, <1>3, <1>4, <1>5, <1>6, <1>7, <1>8, <1>9 DEF RowMove

\* Who owns its claim after a step owned it before, and its job was not closed,
\* not deleted and not claimed by anybody else.
LEMMA KeepsClaim ==
  ASSUME Safe, RowMoves, NEW q \in Procs, GoesOn(q), Owns(q)'
  PROVE  LET r == worker[q].run IN
         /\ Owns(q) /\ Active(r)
         /\ Still(r) \/ Touched(r) \/ Written(r)
<1> DEFINE r == worker[q].run
<1>1. /\ r \in Runs /\ worker[q].token \in Nat /\ worker[q].token > 0
      /\ run[r] # "ABSENT" /\ TokenOf(q) /\ RowMove(r)
  BY AtWork DEF GoesOn, Safe, Tokens, TokenOf, RowMoves
<1>2. job'[r].token = worker[q].token
  BY DEF Owns, GoesOn
<1>3. /\ job[r].attempt \in Nat
      /\ job[r].status = "NONE" => ~Claimed(r)
  BY <1>1, RowFacts
<1>4. ~Created(r)
  BY <1>1 DEF Created
<1>5. ~Claimed(r)
  <2>1. job[r].status # "NONE" => worker[q].token <= job[r].attempt
    BY <1>1 DEF TokenOf, GoesOn
  <2> QED BY <1>1, <1>2, <1>3, <2>1 DEF Claimed
<1>6. ~Closed(r) /\ ~Removed(r)
  BY <1>1, <1>2 DEF Closed, Removed, NoJob
<1>7. Still(r) \/ Touched(r) \/ Written(r)
  BY <1>1, <1>4, <1>5, <1>6 DEF RowMove
<1>8. Owns(q)
  BY <1>2, <1>7 DEF Owns, Still, Touched, Written
<1>9. Active(r)
  BY <1>8, OwnsClaimed DEF GoesOn
<1> QED BY <1>7, <1>8, <1>9

\* Tokens stay unique: a claim draws one that nobody holds.
LEMMA TokensStep ==
  ASSUME Safe, TypeInv', RowMoves, WorkerMoves
  PROVE  Tokens'
<1>1. ASSUME NEW q \in Procs, GoesOn(q)
      PROVE  TokenOf(q)'
  <2> DEFINE r == worker[q].run
  <2>1. /\ r \in Runs /\ worker[q].token \in Nat /\ TokenOf(q) /\ worker[q].pc # "idle"
        /\ worker'[q].run = r /\ worker'[q].token = worker[q].token /\ RowMove(r)
    BY <1>1, AtWork DEF GoesOn, Safe, Tokens, RowMoves
  <2>2. run'[r] # "ABSENT"
    BY <2>1, RowFacts DEF TokenOf
  <2>3. job'[r].status # "NONE" => worker[q].token <= job'[r].attempt
    <3>1. ASSUME job'[r].status # "NONE"
          PROVE  worker[q].token <= job'[r].attempt
      <4>1. job[r].status # "NONE" /\ job[r].attempt \in Nat
            /\ job'[r].attempt >= job[r].attempt
        BY <2>1, <3>1, RowFacts DEF TokenOf, Created
      <4>2. worker[q].token <= job[r].attempt
        BY <2>1, <4>1 DEF TokenOf
      <4>3. job'[r].attempt \in Nat
        BY <2>1, StatusKinds DEF TypeInv, StoreOK, JobRow
      <4> QED BY <2>1, <4>1, <4>2, <4>3
    <3> QED BY <3>1
  <2>4. worker'[q].pc \in {"starting", "running"} => worker[q].token = 1
    BY <1>1, <2>1 DEF GoesOn, TokenOf
  <2> QED BY <2>1, <2>2, <2>3, <2>4 DEF TokenOf
<1>2. ASSUME NEW q \in Procs, Draws(q)
      PROVE  TokenOf(q)'
  <2> DEFINE r == worker'[q].run
  <2>1. /\ r \in Runs /\ Claimed(r) /\ RowMove(r)
        /\ job'[r].attempt = job[r].attempt + 1 /\ worker'[q].token = job'[r].attempt
        /\ worker'[q].pc \in {"starting", "running"} => job[r].attempt = 0
    BY <1>2 DEF Draws, Claimed, RowMoves
  <2>2. job[r].attempt \in Nat /\ run'[r] # "ABSENT"
    <3>1. job[r].attempt \in Nat /\ run'[r] = run[r]
      BY <2>1, RowFacts DEF Claimed
    <3>2. run[r] # "ABSENT"
      BY <2>1, NoJobClosed DEF Claimed, Claimable, ClaimedStatus, Safe, Rows, RowsOf
    <3> QED BY <3>1, <3>2
  <2> QED BY <2>1, <2>2 DEF TokenOf
<1>3. \A q \in Procs : TokenOf(q)'
  BY <1>1, <1>2 DEF WorkerMoves, WorkerMove, TokenOf
<1>4. ASSUME NEW p \in Procs, NEW q \in Procs, GoesOn(p), Draws(q),
             worker'[p].run = worker'[q].run
      PROVE  worker'[p].token # worker'[q].token
  <2> DEFINE r == worker'[q].run
  <2>1. /\ r \in Runs /\ Claimed(r) /\ RowMove(r)
        /\ worker'[q].token = job[r].attempt + 1
    BY <1>4 DEF Draws, Claimed, RowMoves
  <2>2. /\ worker[p].run = r /\ worker[p].pc # "idle" /\ worker'[p].token = worker[p].token
        /\ worker[p].token \in Nat /\ TokenOf(p)
    BY <1>4, AtWork DEF GoesOn, Safe, Tokens
  <2>3. job[r].status # "NONE" /\ job[r].attempt \in Nat
    BY <2>1, <2>2, RowFacts DEF TokenOf
  <2>4. worker[p].token <= job[r].attempt
    BY <2>2, <2>3 DEF TokenOf
  <2> QED BY <2>1, <2>2, <2>3, <2>4
<1>5. ASSUME NEW p \in Procs, NEW q \in Procs,
             worker'[p].pc # "idle", worker'[q].pc # "idle",
             worker'[p].run = worker'[q].run, worker'[p].token = worker'[q].token
      PROVE  p = q
  <2>1. (GoesOn(p) \/ Draws(p)) /\ (GoesOn(q) \/ Draws(q))
    BY <1>5 DEF WorkerMoves, WorkerMove
  <2>2. CASE GoesOn(p) /\ GoesOn(q)
    BY <1>5, <2>2 DEF GoesOn, Safe, Tokens
  <2>3. CASE Draws(p) /\ Draws(q)
    BY <1>5, <2>3 DEF Draws
  <2> QED BY <1>4, <1>5, <2>1, <2>2, <2>3
<1> QED BY <1>3, <1>5 DEF Tokens

\* A claim has one owner.
LEMMA SameOwner ==
  ASSUME Safe, NEW p \in Procs, NEW q \in Procs,
         worker[p].pc # "idle", worker[q].pc # "idle",
         worker[p].run = worker[q].run, Owns(p), Owns(q)
  PROVE  p = q
  BY DEF Safe, Tokens, Owns

\* Whoever owns its claim after a step is the one that wrote its run in it.
LEMMA OwnerWrites ==
  ASSUME Safe, RowMoves, NEW q \in Procs, GoesOn(q), Owns(q)'
  PROVE  LET r == worker[q].run IN
         \/ run'[r] = run[r]
         \/ /\ worker'[q].pc \in {"closing", "finalizing", "cancelled"}
            /\ worker'[q].pc = "closing" => run'[r] \in {"SUMMARY", "COMPLETED"}
<1> DEFINE r == worker[q].run
<1>1. Owns(q) /\ Active(r) /\ (Still(r) \/ Touched(r) \/ Written(r))
  BY KeepsClaim
<1>2. CASE Still(r) \/ Touched(r)
  BY <1>2 DEF Still, Touched
<1>3. CASE Written(r)
  <2>1. PICK p \in Procs :
          /\ worker[p].pc # "idle" /\ worker[p].run = r /\ Owns(p)
          /\ worker'[p].pc \in {"closing", "finalizing", "cancelled"}
          /\ worker'[p].pc = "closing" => run'[r] \in {"SUMMARY", "COMPLETED"}
    BY <1>1, <1>3 DEF Written
  <2>2. p = q
    BY <1>1, <2>1, SameOwner DEF GoesOn
  <2> QED BY <2>1, <2>2
<1> QED BY <1>1, <1>2, <1>3

\* What waits for the render lane keeps waiting, or is settled.
LEMMA RenderingStays ==
  ASSUME Safe, NEW r \in Runs, RowMove(r), HistoryMoves, Rendering(r)
  PROVE  Rendering(r)'
<1>1. /\ r \in parked' /\ StoreOK /\ RowsOf(r)
      /\ job[r].status \in {"COMPLETED", "NONE"} /\ run[r] # "ABSENT"
  BY DEF Safe, Inv, TypeInv, HistoryMoves, Rendering, Rows, RowsOf
<1>2. ~Active(r) /\ ~Created(r) /\ ~Claimed(r) /\ ~Touched(r) /\ ~Closed(r)
  BY <1>1 DEF Active, ActiveStatus, Created, Claimed, Claimable, ClaimedStatus, Touched, Closed
<1>3. CASE Still(r) \/ Written(r)
  BY <1>1, <1>3 DEF Still, Written, Rendering
<1>4. CASE Removed(r)
  BY <1>1, <1>4 DEF Removed, NoJob, Rendering
<1> QED BY <1>2, <1>3, <1>4 DEF RowMove

\* A run that abort_run found without an active job stays so.
LEMMA UnfencedStays ==
  ASSUME Safe, NEW r \in Runs, RowMove(r), HistoryMoves, Unfenced(r)
  PROVE  Unfenced(r)'
<1>1. /\ StoreOK /\ run[r] # "ABSENT" /\ ~Active(r) /\ job[r].status \in ClosedStatus
      /\ r \notin parked' => job[r].status \in {"CANCELLED", "NONE"}
  BY StatusKinds DEF Safe, Inv, TypeInv, HistoryMoves, Unfenced
<1>2. run'[r] # "ABSENT"
  BY <1>1, RowFacts
<1>3. ~Created(r) /\ ~Claimed(r) /\ ~Touched(r) /\ ~Closed(r)
  BY <1>1 DEF Active, ActiveStatus, Created, Claimed, Claimable, ClaimedStatus, Touched, Closed
<1>4. CASE Still(r) \/ Written(r)
  BY <1>1, <1>2, <1>4 DEF Still, Written, Unfenced, Active
<1>5. CASE Removed(r)
  BY <1>1, <1>2, <1>5 DEF Removed, NoJob, Unfenced, Active, ActiveStatus
<1> QED BY <1>3, <1>4, <1>5 DEF RowMove

\* What waits keeps its reason to.
LEMMA WaitingStep ==
  ASSUME Safe, TypeInv', RowMoves, HistoryMoves, WaitMoves
  PROVE  Waiting'
<1> SUFFICES ASSUME NEW p \in Procs
             PROVE  WaitOf(p)'
  BY DEF Waiting
<1>1. /\ \A r \in Runs : Rendering(r) => Rendering(r)'
      /\ \A r \in Runs : Unfenced(r) => Unfenced(r)'
      /\ \A r \in Runs : run[r] # "ABSENT" => run'[r] # "ABSENT"
      /\ parked \subseteq parked'
  BY RenderingStays, UnfencedStays, RowFacts DEF RowMoves, HistoryMoves
<1>2. /\ lane'[p].pc # "idle" => lane'[p].run \in Runs
      /\ queue'[p] \in Seq(Runs)
      /\ aborting'[p] # NoRun => aborting'[p] \in Runs
  BY DEF TypeInv, LaneOK, MemoryOK
<1>3. \A i \in 1 .. Len(queue'[p]) : queue'[p][i] \in Runs
  BY <1>2
<1>4. /\ lane'[p].pc # "idle" => Rendering(lane'[p].run)
      /\ \A i \in 1 .. Len(queue'[p]) : Rendering(queue'[p][i])
      /\ aborting'[p] # NoRun => Unfenced(aborting'[p])
      /\ mode'[p] = "recovering" => Zombie(recovery'[p].run, recovery'[p].seen)
  BY DEF WaitMoves
<1>5. (lane[p].pc # "idle" => Rendering(lane[p].run))'
  BY <1>1, <1>2, <1>4 DEF Rendering
<1>6. (\A i \in 1 .. Len(queue[p]) : Rendering(queue[p][i]))'
  BY <1>1, <1>3, <1>4 DEF Rendering
<1>7. (aborting[p] # NoRun => Unfenced(aborting[p]))'
  BY <1>1, <1>2, <1>4 DEF Unfenced, Active
<1>8. (mode[p] = "recovering" => Zombie(recovery[p].run, recovery[p].seen))'
  BY <1>1, <1>4 DEF Zombie
<1> QED BY <1>5, <1>6, <1>7, <1>8 DEF WaitOf

\* What a worker knows of its run stays true.
LEMMA PhasesStep ==
  ASSUME Safe, TypeInv', RowMoves, WorkerMoves, HistoryMoves
  PROVE  Phases'
<1> SUFFICES ASSUME NEW q \in Procs
             PROVE  PhaseOf(q)'
  BY DEF Phases
<1>1. CASE worker'[q].pc = "idle"
  BY <1>1 DEF PhaseOf
<1>2. CASE Draws(q)
  <2> DEFINE r == worker'[q].run
  <2>1. /\ r \in Runs /\ Claimed(r)
        /\ worker'[q].pc \in {"starting", "finalizing", "cancelling"}
        /\ worker'[q].pc = "starting" => job[r].status = "PENDING"
        /\ worker'[q].pc = "finalizing" => worker'[q].end # "NONE"
    BY <1>2 DEF Draws
  <2>2. worker'[q].pc = "starting" => run'[r] = "RUNNING"
    BY <2>1 DEF Claimed, Safe, Rows, RowsOf
  <2> QED BY <2>1, <2>2 DEF PhaseOf
<1>3. CASE GoesOn(q)
  <2> DEFINE r == worker[q].run
  <2>1. /\ r \in Runs /\ worker[q].pc # "idle" /\ PhaseOf(q) /\ TokenOf(q)
        /\ worker'[q].run = r /\ worker'[q].token = worker[q].token
        /\ RowMove(r)
    BY <1>3, AtWork DEF GoesOn, Safe, Phases, Tokens, RowMoves
  <2>2. Owns(q)' => Owns(q)
    BY <1>3, KeepsClaim
  <2>3. worker'[q].pc \in {"starting", "running"} /\ Owns(q)' => run'[r] = "RUNNING"
    <3>1. worker'[q].pc \in {"starting", "running"} => worker[q].pc \in {"starting", "running"}
      BY <1>3 DEF GoesOn
    <3>2. Owns(q)' /\ worker'[q].pc \in {"starting", "running"} => run'[r] = run[r]
      BY <1>3, OwnerWrites
    <3> QED BY <2>1, <2>2, <3>1, <3>2 DEF PhaseOf
  <2>4. worker'[q].pc = "running" => started'[r] > 0
    <3>1. started[r] \in Nat /\ started'[r] \in Nat /\ started'[r] >= started[r]
      BY <2>1 DEF Safe, Inv, TypeInv, CountsOK, HistoryMoves
    <3> QED BY <1>3, <2>1, <3>1 DEF GoesOn, PhaseOf
  <2>5. worker'[q].pc = "closing" /\ Owns(q)' => run'[r] \in {"SUMMARY", "COMPLETED"}
    <3>1. worker'[q].pc = "closing" =>
            worker[q].pc = "closing" \/ run'[r] \in {"SUMMARY", "COMPLETED"}
      BY <1>3 DEF GoesOn
    <3>2. worker'[q].pc = "closing" /\ Owns(q)' =>
            run'[r] = run[r] \/ run'[r] \in {"SUMMARY", "COMPLETED"}
      BY <1>3, OwnerWrites
    <3> QED BY <2>1, <2>2, <3>1, <3>2 DEF PhaseOf
  <2>6. worker'[q].pc = "handoff" => Rendering(r)'
    <3>1. worker'[q].pc = "handoff" => worker[q].pc = "handoff" \/ Rendering(r)'
      BY <1>3 DEF GoesOn
    <3> QED BY <2>1, <3>1, RenderingStays DEF PhaseOf
  <2>7. worker'[q].pc = "finalizing" => worker'[q].end # "NONE"
    BY <1>3 DEF GoesOn
  <2>8. worker'[q].pc = "cancelled" /\ ~TransientErrors =>
          run'[r] # "RUNNING" \/ ~(Owns(q)' /\ job'[r].live)
    <3> SUFFICES ASSUME worker[q].pc = "cancelled", ~TransientErrors, run'[r] = "RUNNING",
                        Owns(q)', job'[r].live
                 PROVE  FALSE
      BY <1>3, <2>1 DEF GoesOn
    <3>1. run[r] = "RUNNING"
      BY <2>1, RowFacts DEF TokenOf, Created
    <3>2. Owns(q) /\ (Still(r) \/ Touched(r) \/ Written(r))
      BY <1>3, KeepsClaim
    <3>3. job[r].live
      BY <3>2 DEF Still, Touched, Written
    <3> QED BY <2>1, <3>1, <3>2, <3>3 DEF PhaseOf
  <2> QED BY <2>1, <2>3, <2>4, <2>5, <2>6, <2>7, <2>8 DEF PhaseOf
<1> QED BY <1>1, <1>2, <1>3 DEF WorkerMoves, WorkerMove

\* Nobody takes a live lease from the stage that holds it.
LEMMA LeaseStep ==
  ASSUME Safe, TypeInv', RowMoves, WorkerMoves, HistoryMoves
  PROVE  LeaseHeld'
<1> SUFFICES ASSUME stalls' = 0, NEW q \in Procs, worker'[q].pc = "running"
             PROVE  /\ Owns(q)'
                    /\ job'[worker'[q].run].status \in ClaimedStatus
                    /\ job'[worker'[q].run].live
  BY DEF LeaseHeld
<1> DEFINE r == worker[q].run
<1>1. GoesOn(q)
  BY DEF WorkerMoves, WorkerMove, Draws
<1>2. /\ stalls = 0 /\ r \in Runs /\ worker[q].pc # "idle" /\ RowMove(r)
      /\ worker'[q].run = r /\ worker'[q].token = worker[q].token
      /\ worker[q].pc = "running" \/ (Fenced(q, StageFence) /\ job' = job)
  BY <1>1, AtWork DEF GoesOn, RowMoves, HistoryMoves
<1>3. CASE Fenced(q, StageFence) /\ job' = job
  BY <1>2, <1>3 DEF Fenced, StageFence, Owns, ClaimedStatus
<1>4. CASE worker[q].pc = "running"
  <2>1. /\ Owns(q) /\ job[r].status \in ClaimedStatus /\ job[r].live
        /\ run[r] = "RUNNING" /\ Active(r)
    BY <1>2, <1>4, OwnsClaimed DEF Safe, LeaseHeld, Phases, PhaseOf
  <2>2. ~Created(r) /\ ~Claimed(r) /\ ~Removed(r)
    BY <2>1 DEF Created, Claimed, Claimable, Removed, Settled, ClaimedStatus
  <2>3. ~Closed(r)
    <3>1. ASSUME Closed(r)
          PROVE  FALSE
      <4>1. PICK p \in Procs : /\ worker[p].pc # "idle" /\ worker[p].run = r /\ Owns(p)
                               /\ worker'[p].pc # "running"
        BY <2>1, <3>1 DEF Closed, ClaimedStatus
      <4> QED BY <1>2, <2>1, <4>1, SameOwner
    <3> QED BY <3>1
  <2>4. CASE Touched(r)
    <3>1. Owner(r) # {}
      BY <1>2, <2>1 DEF Owner
    <3>2. job'[r].live
      <4>1. job[r].live \in BOOLEAN /\ job'[r].live \in BOOLEAN
        BY <1>2, StatusKinds DEF Safe, Inv, TypeInv, StoreOK, JobRow
      <4>2. ~(stalls' > 0)
        OBVIOUS
      <4>3. job'[r].live = job[r].live
        BY <2>4, <3>1, <4>2 DEF Touched
      <4> QED BY <2>1, <4>1, <4>3
    <3>3. job'[r].status \in ClaimedStatus /\ job'[r].token = job[r].token
      BY <2>1, <2>4 DEF Touched, ClaimedStatus
    <3>4. Owns(q)'
      BY <1>2, <2>1, <3>3 DEF Owns
    <3> QED BY <1>2, <3>2, <3>3, <3>4
  <2>5. CASE Still(r) \/ Written(r)
    BY <1>2, <2>1, <2>5 DEF Still, Written, Owns
  <2> QED BY <1>2, <2>2, <2>3, <2>4, <2>5 DEF RowMove
<1> QED BY <1>2, <1>3, <1>4

\* A run in Run or Watch keeps an active job, unless a write was lost.
LEMMA OrphanStep ==
  ASSUME Safe, RowMoves, ~TransientErrors
  PROVE  NoOrphan'
<1> SUFFICES ASSUME NEW r \in Runs, run'[r] = "RUNNING"
             PROVE  Active(r)'
  BY DEF NoOrphan, AccountBound
<1>1. RowMove(r)
  BY DEF RowMoves
<1>2. run[r] = "RUNNING" \/ Created(r)
  BY <1>1, RowFacts
<1>3. CASE Created(r)
  BY <1>3 DEF Created, Active, ActiveStatus
<1>4. CASE run[r] = "RUNNING"
  <2>1. Active(r)
    BY <1>4 DEF Safe, NoOrphan, AccountBound
  <2>2. CASE Still(r)
    BY <2>1, <2>2 DEF Still, Active
  <2>3. CASE Claimed(r) \/ Touched(r)
    BY <2>3 DEF Claimed, Touched, Active, ActiveStatus, ClaimedStatus
  <2>4. ~Written(r) /\ ~Closed(r) /\ ~Removed(r)
    BY DEF Written, Closed, Removed, Settled
  <2> QED BY <1>1, <1>3, <2>2, <2>3, <2>4 DEF RowMove
<1> QED BY <1>2, <1>3, <1>4

------------------------------------------------------------------------------
(* The invariant holds *)

\* Safe holds initially.
LEMMA SafeInit == Init => Safe
<1> SUFFICES ASSUME Init
             PROVE  Safe
  OBVIOUS
<1>1. Inv
  BY InvInit
<1>2. /\ \A r \in Runs : job[r] = NoJob /\ run[r] = "ABSENT"
      /\ \A p \in Procs : /\ worker[p].pc = "idle" /\ lane[p].pc = "idle"
                          /\ Len(queue[p]) = 0 /\ mode[p] = "down" /\ aborting[p] = NoRun
      /\ parked = {}
  BY DEF Init, IdleWorker, IdleLane
<1>3. Rows
  BY <1>2 DEF Rows, RowsOf, NoJob, ClaimedStatus
<1>4. Tokens /\ Phases /\ LeaseHeld
  BY <1>2 DEF Tokens, TokenOf, Phases, PhaseOf, LeaseHeld
<1>5. Waiting
  BY <1>2 DEF Waiting, WaitOf
<1>6. NoOrphan
  BY <1>2 DEF NoOrphan, AccountBound
<1> QED BY <1>1, <1>3, <1>4, <1>5, <1>6 DEF Safe

\* Every step keeps it.
LEMMA SafeStep == Safe /\ [Next]_vars => Safe'
<1> SUFFICES ASSUME Safe, [Next]_vars
             PROVE  Safe'
  OBVIOUS
<1>1. Inv' /\ TypeInv'
  BY InvStep DEF Safe, Inv
<1>2. RowMoves /\ WorkerMoves /\ HistoryMoves /\ WaitMoves
  BY RowsMove, WorkersMove, HistoryMove, WaitMove
<1> QED
  BY <1>1, <1>2, RowsStep, TokensStep, PhasesStep, WaitingStep, LeaseStep, OrphanStep DEF Safe

\* The rows, the claims and what waits for the render lane are in step in every
\* reachable state.
THEOREM Safety == Spec => []Safe
<1> QED BY SafeInit, SafeStep, PTL DEF Spec

------------------------------------------------------------------------------
(* What the repository promises of it *)

\* While nobody was held up past its lease, at most one worker is in a stage
\* that can trade: whoever is in one owns a live claim on an active job, there
\* is one active job, and its claim has one owner.
THEOREM StagesTradeApart == Spec => []TradesApart
<1>1. Safe => TradesApart
  <2> SUFFICES ASSUME Safe, stalls = 0, NEW p \in Procs, NEW q \in Procs,
                      worker[p].pc = "running", worker[q].pc = "running"
               PROVE  p = q
    BY DEF TradesApart, OneRunTrades
  <2>1. Owns(p) /\ Owns(q)
    BY DEF Safe, LeaseHeld
  <2>2. /\ worker[p].run \in Runs /\ Active(worker[p].run)
        /\ worker[q].run \in Runs /\ Active(worker[q].run)
    BY <2>1, AtWork, OwnsClaimed
  <2>3. worker[p].run = worker[q].run
    BY <2>2 DEF Safe, Inv, OneActiveJob
  <2> QED BY <2>1, <2>3, SameOwner
<1> QED BY <1>1, Safety, PTL

\* As long as no write is lost to the database, no run is left holding the
\* account without a job that will let go of it.  (A lost write is what the
\* code swallows; with one, a cancelled job may leave its run RUNNING.)
THEOREM NoRunOrphaned ==
  ASSUME TransientErrors = FALSE
  PROVE  Spec => []NoOrphan
<1>1. Safe => NoOrphan
  BY DEF Safe
<1> QED BY <1>1, Safety, PTL

\* Once a run's job was reclaimed, nobody completes or parks the run while it
\* holds the account: only the first claim's owner could, and it lost it.
THEOREM ReclaimedFails == Spec => ReclaimedNeverSucceeds
<1>1. Safe /\ [Next]_vars =>
        [\A r \in Runs : run[r] = "RUNNING" /\ job[r].attempt > 1
           => run'[r] \in {"RUNNING", "FAILED", "ABORTED"}]_vars
  <2> SUFFICES ASSUME Safe, [Next]_vars, NEW r \in Runs, run[r] = "RUNNING",
                      job[r].attempt > 1
               PROVE  run'[r] \in {"RUNNING", "FAILED", "ABORTED"}
    OBVIOUS
  <2>1. RowMove(r) /\ job[r].attempt \in Nat
    BY RowsMove, RowFacts DEF RowMoves
  <2> QED BY <2>1 DEF RowMove, Still, Created, Claimed, Touched, Written, Closed, Removed, Settled
<1> QED BY <1>1, Safety, PTL DEF Spec, ReclaimedNeverSucceeds

\* A cancellation that was accepted wins over a stage that returns at the same
\* moment: what a stage writes and what closes its job as COMPLETED are fenced
\* on LEASED.
THEOREM CancellationWins == Spec => CancelWins
<1>1. Safe /\ [Next]_vars =>
        [\A r \in Runs : job[r].status = "CANCEL_REQUESTED" =>
           /\ Running(r) => run'[r] \in {run[r], "FAILED", "ABORTED"}
           /\ job'[r].status = "COMPLETED" => run[r] = "COMPLETED"]_vars
  <2> SUFFICES ASSUME Safe, [Next]_vars, NEW r \in Runs, job[r].status = "CANCEL_REQUESTED"
               PROVE  /\ Running(r) => run'[r] \in {run[r], "FAILED", "ABORTED"}
                      /\ job'[r].status = "COMPLETED" => run[r] = "COMPLETED"
    OBVIOUS
  <2>1. RowMove(r) /\ Active(r)
    BY RowsMove DEF RowMoves, Active, ActiveStatus
  <2>2. Running(r) => run[r] \in {"RUNNING", "SUMMARY"}
    BY DEF Running
  <2>3. CASE Still(r)
    BY <2>3 DEF Still
  <2>4. CASE Claimed(r) \/ Touched(r)
    BY <2>4 DEF Claimed, Touched, ClaimedStatus
  <2>5. CASE Written(r)
    BY <2>1, <2>5 DEF Written, Settled
  <2>6. CASE Closed(r)
    BY <2>6 DEF Closed
  <2>7. CASE Removed(r)
    BY <2>2, <2>7 DEF Removed, Settled, NoJob
  <2>8. ~Created(r)
    BY <2>1 DEF Created
  <2> QED BY <2>1, <2>3, <2>4, <2>5, <2>6, <2>7, <2>8 DEF RowMove
<1> QED BY <1>1, Safety, PTL DEF Spec, CancelWins

------------------------------------------------------------------------------
(* The job table implements the account of AccountLane *)

\* The phase a run is in, row by row.  (The arms of lanePhase exclude each
\* other because a run without rows, or without its rows any more, has no job.)
PhaseOfRow(r) ==
  /\ run[r] = "ABSENT" => lanePhase[r] = "unborn"
  /\ run[r] = "DELETED" => lanePhase[r] = "gone"
  /\ run[r] \notin {"ABSENT", "DELETED"} =>
       /\ Active(r) => lanePhase[r] = "held"
       /\ ~Active(r) /\ Running(r) => lanePhase[r] = "parked"
       /\ ~Active(r) /\ ~Running(r) => lanePhase[r] = "settled"

LEMMA LanePhases == \A r \in Runs : RowsOf(r) => PhaseOfRow(r)
<1> SUFFICES ASSUME NEW r \in Runs, RowsOf(r)
             PROVE  PhaseOfRow(r)
  OBVIOUS
<1>1. lanePhase[r] = CASE run[r] = "ABSENT"  -> "unborn"
                       [] run[r] = "DELETED" -> "gone"
                       [] Active(r)          -> "held"
                       [] ~Active(r) /\ Running(r) -> "parked"
                       [] OTHER              -> "settled"
  BY DEF lanePhase
<1>2. run[r] \in {"ABSENT", "DELETED"} => ~Active(r) /\ ~Running(r)
  BY NoJobClosed DEF RowsOf, Running
<1>3. CASE run[r] = "ABSENT"
  BY <1>1, <1>2, <1>3 DEF PhaseOfRow
<1>4. CASE run[r] = "DELETED"
  BY <1>1, <1>2, <1>4 DEF PhaseOfRow
<1>5. CASE run[r] \notin {"ABSENT", "DELETED"}
  <2>1. CASE Active(r)
    BY <1>1, <1>5, <2>1 DEF PhaseOfRow
  <2>2. CASE ~Active(r) /\ Running(r)
    BY <1>1, <1>5, <2>2 DEF PhaseOfRow
  <2>3. CASE ~Active(r) /\ ~Running(r)
    BY <1>1, <1>5, <2>3 DEF PhaseOfRow
  <2> QED BY <1>5, <2>1, <2>2, <2>3
<1> QED BY <1>3, <1>4, <1>5

\* The same of the next state.
LEMMA LanePhasesNext == (\A r \in Runs : RowsOf(r) => PhaseOfRow(r))'
  BY LanePhases, PTL

\* Where a run's rows stay, its phase does.
LEMMA StillPhase ==
  ASSUME NEW r \in Runs, Still(r)
  PROVE  lanePhase'[r] = lanePhase[r]
  BY DEF lanePhase, Still, Active, Running

\* What a move of a run's rows does to its phase.
LEMMA PhaseMoves ==
  ASSUME Safe, Safe', TransientErrors = FALSE, NEW r \in Runs, RowMove(r)
  PROVE  \/ lanePhase'[r] = lanePhase[r]
         \/ /\ Created(r) /\ lanePhase[r] = "unborn" /\ lanePhase'[r] = "held"
            /\ \A s \in Runs : lanePhase[s] # "held"
         \/ /\ r \in Analyses /\ lanePhase[r] # "unborn" /\ lanePhase'[r] = "parked"
            /\ run'[r] = "SUMMARY"
         \/ lanePhase[r] # "unborn" /\ lanePhase'[r] = "settled"
         \/ lanePhase[r] \in {"held", "settled"} /\ lanePhase'[r] = "gone" /\ Removed(r)
<1>1. /\ StoreOK /\ StoreOK' /\ RowsOf(r) /\ RowsOf(r)'
      /\ run[r] = "RUNNING" => Active(r)
  BY DEF Safe, Inv, TypeInv, Rows, NoOrphan, AccountBound
<1>2. Active(r) => run[r] \notin {"ABSENT", "DELETED"}
  BY <1>1, NoJobClosed DEF RowsOf
<1>3. PhaseOfRow(r)
  BY <1>1, LanePhases
<1>4. PhaseOfRow(r)'
  BY <1>1, LanePhasesNext
<1>5. CASE Still(r)
  BY <1>1, <1>5, StillPhase
<1>6. CASE Created(r)
  <2>1. lanePhase[r] = "unborn" /\ lanePhase'[r] = "held"
    BY <1>1, <1>6, <1>4, <1>3 DEF Created, Active, ActiveStatus, PhaseOfRow
  <2>2. \A s \in Runs : lanePhase[s] # "held"
    <3> SUFFICES ASSUME NEW s \in Runs
                 PROVE  lanePhase[s] # "held"
      OBVIOUS
    <3>1. PhaseOfRow(s) /\ ~Active(s)
      BY <1>6, LanePhases DEF Created, Safe, Rows
    <3> QED BY <3>1 DEF PhaseOfRow
  <2> QED BY <1>6, <2>1, <2>2
<1>7. CASE Claimed(r) \/ Touched(r)
  <2>1. Active(r) /\ Active(r)' /\ run'[r] = run[r]
    BY <1>7 DEF Claimed, Claimable, Touched, Active, ActiveStatus, ClaimedStatus
  <2> QED BY <1>1, <1>2, <2>1, <1>4, <1>3 DEF PhaseOfRow
<1>8. CASE Written(r)
  <2>1. /\ Active(r) <=> Active(r)'
        /\ run[r] # "ABSENT" /\ run'[r] \notin {"ABSENT", "DELETED"}
        /\ run'[r] \in Settled \cup {"SUMMARY"}
    BY <1>8 DEF Written, Active, Settled
  <2>2. CASE Active(r)
    BY <1>1, <1>2, <2>1, <2>2, <1>4, <1>3 DEF PhaseOfRow
  <2>3. CASE ~Active(r)
    <3>1. lanePhase[r] # "unborn"
      BY <1>1, <2>1, <2>3, <1>3 DEF PhaseOfRow, StoreOK, RunRow
    <3>2. CASE run'[r] = "SUMMARY"
      <4>1. r \in Analyses
        BY <1>1, <3>2 DEF RowsOf, Runs
      <4>2. lanePhase'[r] = "parked"
        BY <2>1, <2>3, <3>2, <1>4 DEF Running, PhaseOfRow
      <4> QED BY <3>1, <3>2, <4>1, <4>2
    <3>3. CASE run'[r] # "SUMMARY"
      <4>1. lanePhase'[r] = "settled"
        BY <2>1, <2>3, <3>3, <1>4 DEF Settled, Running, PhaseOfRow
      <4> QED BY <3>1, <4>1
    <3> QED BY <3>2, <3>3
  <2> QED BY <2>2, <2>3
<1>9. CASE Closed(r)
  <2>1. /\ Active(r) /\ ~Active(r)' /\ run'[r] # "RUNNING"
        /\ run'[r] \in {run[r], "FAILED", "ABORTED"}
    BY <1>9 DEF Closed, Active, ActiveStatus, TerminalStatus
  <2>2. lanePhase[r] = "held" /\ run'[r] \notin {"ABSENT", "DELETED"}
    BY <1>1, <1>2, <2>1, <1>3 DEF PhaseOfRow
  <2>3. CASE run'[r] = "SUMMARY"
    <3>1. r \in Analyses
      BY <1>1, <2>3 DEF RowsOf, Runs
    <3> QED BY <2>1, <2>2, <2>3, <3>1, <1>4 DEF Running, PhaseOfRow
  <2>4. CASE run'[r] # "SUMMARY"
    BY <2>1, <2>2, <2>4, <1>4 DEF Running, PhaseOfRow
  <2> QED BY <2>3, <2>4
<1>10. CASE Removed(r)
  <2>1. run[r] \in Settled /\ run'[r] = "DELETED"
    BY <1>10 DEF Removed
  <2>2. ~Running(r) /\ run[r] \notin {"ABSENT", "DELETED"}
    BY <2>1 DEF Settled, Running
  <2>3. lanePhase[r] \in {"held", "settled"}
    BY <1>1, <2>2, <1>3 DEF PhaseOfRow
  <2> QED BY <1>10, <2>1, <2>3, <1>4 DEF PhaseOfRow
<1> QED BY <1>5, <1>6, <1>7, <1>8, <1>9, <1>10 DEF RowMove

\* Initially no run exists.
LEMMA LaneInit == Init => Lane!Init
<1> SUFFICES ASSUME Init
             PROVE  lanePhase = [r \in Runs |-> "unborn"]
  BY DEF Lane!Init, Lane!Runs, Runs
<1>1. \A r \in Runs : lanePhase[r] = "unborn"
  BY SafeInit, LanePhases DEF Init, Safe, Rows, PhaseOfRow
<1> QED BY <1>1 DEF lanePhase

\* A step of one run is a step of its phase.
LEMMA OneRowLane ==
  ASSUME Safe, Safe', TransientErrors = FALSE, OneRow
  PROVE  [Lane!Next]_lanePhase
<1>1. PICK r \in Runs : RowMove(r) /\ \A q \in Runs \ {r} : Still(q)
  BY DEF OneRow
<1>2. \A q \in Runs \ {r} : lanePhase'[q] = lanePhase[q]
  BY <1>1, StillPhase
<1> DEFINE x == lanePhase'[r]
<1>3. /\ lanePhase = [s \in Runs |-> lanePhase[s]]
      /\ lanePhase' = [s \in Runs |-> lanePhase'[s]]
  BY DEF lanePhase
<1>4. lanePhase' = [lanePhase EXCEPT ![r] = x]
  BY <1>2, <1>3
<1>5. Lane!Runs = Runs
  BY DEF Lane!Runs, Runs
<1> HIDE DEF x
<1>6. CASE x = lanePhase[r]
  <2>1. lanePhase' = lanePhase
    BY <1>3, <1>4, <1>6
  <2> QED BY <2>1
<1>7. CASE lanePhase[r] = "unborn" /\ x = "held" /\ \A s \in Runs : lanePhase[s] # "held"
  <2>1. Lane!Acquire(r)
    BY <1>4, <1>5, <1>7 DEF Lane!Acquire
  <2> QED BY <1>5, <2>1 DEF Lane!Next
<1>8. CASE r \in Analyses /\ lanePhase[r] # "unborn" /\ x = "parked"
  <2>1. Lane!Park(r)
    BY <1>4, <1>8 DEF Lane!Park
  <2> QED BY <1>5, <2>1 DEF Lane!Next
<1>9. CASE lanePhase[r] # "unborn" /\ x = "settled"
  <2>1. lanePhase' = [s \in Runs |-> IF s \in {r} THEN "settled" ELSE lanePhase[s]]
    BY <1>3, <1>4, <1>9
  <2>2. Lane!Settle({r})
    BY <1>5, <1>9, <2>1 DEF Lane!Settle
  <2> QED BY <1>5, <2>2 DEF Lane!Next
<1>10. CASE lanePhase[r] \in {"held", "settled"} /\ x = "gone"
  <2>1. Lane!Forget(r)
    BY <1>4, <1>10 DEF Lane!Forget
  <2> QED BY <1>5, <2>1 DEF Lane!Next
<1> QED BY <1>1, <1>6, <1>7, <1>8, <1>9, <1>10, PhaseMoves DEF x

\* Start-up recovery settles several runs in one step.
LEMMA RecoverLane ==
  ASSUME Safe, Safe', TransientErrors = FALSE, NEW p \in Procs, RecoverSettle(p)
  PROVE  [Lane!Next]_lanePhase
<1> DEFINE S == {r \in Runs : lanePhase'[r] # lanePhase[r]}
<1>1. ASSUME NEW r \in S
      PROVE  lanePhase[r] # "unborn" /\ lanePhase'[r] = "settled"
  <2>1. ~Still(r)
    BY <1>1, StillPhase
  <2>2. run'[r] \in Settled /\ (Closed(r) \/ Written(r))
    BY <1>1, <2>1, RecoverMoves DEF Recovering
  <2>3. ~Created(r) /\ ~Removed(r) /\ run'[r] # "SUMMARY"
    BY <2>2 DEF Created, Removed, Settled
  <2>4. RowMove(r)
    BY <2>2 DEF RowMove
  <2> QED BY <1>1, <2>3, <2>4, PhaseMoves
<1>2. /\ lanePhase = [s \in Runs |-> lanePhase[s]]
      /\ lanePhase' = [s \in Runs |-> lanePhase'[s]]
  BY DEF lanePhase
<1>3. Lane!Runs = Runs
  BY DEF Lane!Runs, Runs
<1>4. CASE S = {}
  <2>1. lanePhase' = lanePhase
    BY <1>2, <1>4
  <2> QED BY <2>1
<1>5. CASE S # {}
  <2>1. lanePhase' = [r \in Runs |-> IF r \in S THEN "settled" ELSE lanePhase[r]]
    BY <1>1, <1>2
  <2>2. S \in SUBSET Runs
    OBVIOUS
  <2> HIDE DEF S
  <2>3. Lane!Settle(S)
    BY <1>1, <1>3, <1>5, <2>1 DEF Lane!Settle
  <2> QED BY <1>3, <2>2, <2>3 DEF Lane!Next
<1> QED BY <1>4, <1>5

\* Every step of the job table, its leases, its workers, its render lane and its
\* recovery is a step of the abstract account, or none: no run takes the
\* account while another holds it, and none takes it twice, not even one that an
\* unfenced write puts back after it was deleted.  (A write lost to the database
\* would leave a run that nobody holds the account for and that AccountLane does
\* not know.)
THEOREM LaneImplemented ==
  ASSUME TransientErrors = FALSE
  PROVE  Spec => LaneSpec
<1>1. Safe /\ Safe' /\ [Next]_vars => [Lane!Next]_lanePhase
  <2> SUFFICES ASSUME Safe, Safe', [Next]_vars
               PROVE  [Lane!Next]_lanePhase
    OBVIOUS
  <2>1. CASE UNCHANGED store
    <3>1. \A r \in Runs : lanePhase'[r] = lanePhase[r]
      BY <2>1, StillPhase DEF store, Still
    <3>2. /\ lanePhase = [s \in Runs |-> lanePhase[s]]
          /\ lanePhase' = [s \in Runs |-> lanePhase'[s]]
      BY DEF lanePhase
    <3>3. lanePhase' = lanePhase
      BY <3>1, <3>2
    <3> QED BY <3>3
  <2> QED BY <2>1, StepRows, OneRowLane, RecoverLane
<1> QED BY <1>1, LaneInit, Safety, PTL DEF Spec, LaneSpec, Lane!Spec

------------------------------------------------------------------------------
(* One process *)

\* What holds besides where one process has the database to itself: whatever
\* writes a run without a fence finds the run as it was when it was read.
AloneOf(p) ==
  /\ lane[p].pc = "idle" => lane[p].run = NoRun
  /\ lane[p].pc # "idle" => run[lane[p].run] = "SUMMARY"
  /\ aborting[p] # NoRun /\ aborting[p] \notin parked => run[aborting[p]] = "RUNNING"
  /\ mode[p] # "up" => lane[p].pc = "idle" /\ queue[p] = << >> /\ aborting[p] = NoRun
  /\ mode[p] \in {"down", "recovering"} => worker[p].pc = "idle"
  /\ mode[p] = "recovering" =>
       /\ run[recovery[p].run] = recovery[p].seen
       /\ recovery[p].seen \in {"RUNNING", "SUMMARY"}

Alone == \A p \in Procs : AloneOf(p)

OneProcess == \A p, q \in Procs : p = q

\* A process that is not up renders nothing, queues nothing and aborts nothing.
\* What it renders, aborts or recovers afterwards it had read before, or reads now.
QuietMoves(p) ==
  /\ lane'[p].pc = "idle" => lane'[p].run = NoRun
  /\ lane'[p].pc # "idle" =>
       \/ lane[p].pc # "idle" /\ lane'[p].run = lane[p].run
       \/ run[lane'[p].run] = "SUMMARY" /\ run' = run
  /\ aborting'[p] # NoRun =>
       \/ aborting'[p] = aborting[p]
       \/ Running(aborting'[p]) /\ run' = run
  /\ mode'[p] # "up" => lane'[p].pc = "idle" /\ queue'[p] = << >> /\ aborting'[p] = NoRun
  /\ mode'[p] \in {"down", "recovering"} => worker'[p].pc = "idle"
  /\ mode'[p] = "recovering" =>
       \/ mode[p] = "recovering" /\ recovery'[p] = recovery[p]
       \/ /\ recovery'[p].seen = run[recovery'[p].run]
          /\ Running(recovery'[p].run) /\ run' = run

\* A step in which the process itself touches nothing but its worker.
LEMMA QuietStill ==
  ASSUME Safe, Alone, NEW p \in Procs, UNCHANGED <<lane, queue, mode, recovery, aborting>>,
         WorkerMove(p)
  PROVE  QuietMoves(p)
<1>1. mode[p] \in {"down", "recovering"} => worker'[p].pc = "idle"
  BY DEF WorkerMove, GoesOn, Draws, Alone, AloneOf
<1> QED BY <1>1 DEF QuietMoves, Alone, AloneOf

\* A step in which it leaves its mode and its recovery alone, and is up.
LEMMA QuietUp ==
  ASSUME Safe, Alone, NEW p \in Procs, mode'[p] = "up",
         lane'[p].pc = "idle" => lane'[p].run = NoRun,
         lane'[p].pc # "idle" =>
           \/ lane[p].pc # "idle" /\ lane'[p].run = lane[p].run
           \/ run[lane'[p].run] = "SUMMARY" /\ run' = run,
         aborting'[p] # NoRun =>
           \/ aborting'[p] = aborting[p]
           \/ Running(aborting'[p]) /\ run' = run
  PROVE  QuietMoves(p)
  BY DEF QuietMoves

\* Every step of the only process is one of these.
LEMMA QuietMove ==
  ASSUME Safe, Alone, OneProcess, [Next]_vars, NEW p \in Procs
  PROVE  QuietMoves(p)
<1>0. StoreOK /\ WorkersOK /\ LaneOK /\ MemoryOK /\ AloneOf(p) /\ WorkerMove(p)
  BY WorkersMove DEF Safe, Inv, TypeInv, Alone, WorkerMoves
<1>1. ASSUME UNCHANGED <<lane, queue, mode, recovery, aborting>>
      PROVE  QuietMoves(p)
  BY <1>0, <1>1, QuietStill
<1>2. ASSUME HandOff(p)
      PROVE  QuietMoves(p)
  <2>1. UNCHANGED <<lane, mode, recovery, aborting>> /\ worker'[p].pc = "idle"
    BY <1>0, <1>2 DEF HandOff, WorkersOK, IdleWorker
  <2>2. mode[p] # "up" => queue' = queue
    BY <1>2 DEF HandOff, Fits
  <2> QED BY <1>0, <2>1, <2>2 DEF QuietMoves, AloneOf
<1>3. ASSUME RenderStart(p)
      PROVE  QuietMoves(p)
  <2>1. UNCHANGED <<mode, recovery, aborting, run>> /\ mode[p] = "up"
    BY <1>0, <1>3 DEF RenderStart, store, AloneOf, MemoryOK
  <2>2. lane'[p] = lane[p] \/ (lane'[p].pc = "rendering" /\ run[lane'[p].run] = "SUMMARY")
    BY <1>0, <1>3 DEF RenderStart, LaneOK
  <2> QED BY <1>0, <2>1, <2>2, QuietUp DEF AloneOf
<1>4. ASSUME NEW r \in Runs, AbortSignalled(p, r)
      PROVE  QuietMoves(p)
  <2>1. /\ UNCHANGED <<queue, mode, recovery, aborting>> /\ mode[p] = "up"
        /\ lane' = lane \/ lane' = [lane EXCEPT ![p] = [@ EXCEPT !.sig = TRUE]]
    BY <1>4 DEF AbortSignalled
  <2>2. lane'[p].pc = lane[p].pc /\ lane'[p].run = lane[p].run
    BY <1>0, <2>1 DEF LaneOK, LaneState
  <2> QED BY <1>0, <2>1, <2>2, QuietUp DEF AloneOf
<1>5. ASSUME RenderDone(p)
      PROVE  QuietMoves(p)
  <2>1. /\ UNCHANGED <<queue, mode, recovery, aborting>> /\ lane[p].pc = "rendering"
        /\ lane' = [lane EXCEPT ![p] = [@ EXCEPT !.pc = "closing", !.sig = FALSE]]
    BY <1>0, <1>5 DEF RenderDone, LaneOK, LaneState
  <2>2. lane'[p].pc = "closing" /\ lane'[p].run = lane[p].run
    BY <1>0, <2>1 DEF LaneOK, LaneState
  <2>3. mode[p] = "up"
    BY <1>0, <2>1 DEF AloneOf
  <2> QED BY <1>0, <2>1, <2>2, <2>3, QuietUp DEF AloneOf
<1>6. ASSUME RenderAborted(p) \/ RenderFails(p) \/ RenderCommit(p)
      PROVE  QuietMoves(p)
  <2>1. UNCHANGED <<queue, mode, recovery, aborting>> /\ lane' = [lane EXCEPT ![p] = IdleLane]
        /\ lane[p].pc # "idle"
    BY <1>6 DEF RenderAborted, RenderFails, RenderUnwinds, RenderCommit
  <2>2. lane'[p].pc = "idle" /\ lane'[p].run = NoRun /\ mode[p] = "up"
    BY <1>0, <2>1 DEF LaneOK, IdleLane, AloneOf
  <2> QED BY <1>0, <2>1, <2>2, QuietUp DEF AloneOf
<1>7. ASSUME NEW r \in Runs, AbortRead(p, r)
      PROVE  QuietMoves(p)
  <2>1. /\ UNCHANGED <<lane, mode, run>> /\ aborting' = [aborting EXCEPT ![p] = r]
        /\ mode[p] = "up" /\ Running(r)
    BY <1>7 DEF AbortRead, Abortable, store
  <2>2. aborting'[p] = r
    BY <1>0, <2>1 DEF MemoryOK
  <2> QED BY <1>0, <2>1, <2>2, QuietUp DEF AloneOf
<1>8. ASSUME AbortWrite(p) \/ AbortRaises(p)
      PROVE  QuietMoves(p)
  <2>1. /\ UNCHANGED <<lane, mode>> /\ aborting' = [aborting EXCEPT ![p] = NoRun]
        /\ aborting[p] # NoRun
    BY <1>8 DEF AbortWrite, AbortRaises
  <2>2. aborting'[p] = NoRun /\ mode[p] = "up"
    BY <1>0, <2>1 DEF MemoryOK, AloneOf
  <2> QED BY <1>0, <2>1, <2>2, QuietUp DEF AloneOf
<1>9. ASSUME Exit(p) \/ Crash(p)
      PROVE  QuietMoves(p)
  <2>1. /\ mode' = [mode EXCEPT ![p] = "down"]
        /\ worker' = [worker EXCEPT ![p] = IdleWorker]
        /\ lane' = [lane EXCEPT ![p] = IdleLane]
        /\ queue' = [queue EXCEPT ![p] = << >>]
        /\ aborting' = [aborting EXCEPT ![p] = NoRun]
    BY <1>9 DEF Exit, Crash, Vanish
  <2>2. /\ mode'[p] = "down" /\ worker'[p].pc = "idle" /\ lane'[p].pc = "idle"
        /\ lane'[p].run = NoRun /\ queue'[p] = << >> /\ aborting'[p] = NoRun
    BY <1>0, <2>1 DEF WorkersOK, LaneOK, MemoryOK, IdleLane, IdleWorker
  <2> QED BY <2>2 DEF QuietMoves
<1>10. ASSUME Shutdown(p)
       PROVE  QuietMoves(p)
  <2>1. /\ mode' = [mode EXCEPT ![p] = "stopping"]
        /\ lane' = [lane EXCEPT ![p] = IdleLane]
        /\ queue' = [queue EXCEPT ![p] = << >>]
        /\ aborting' = [aborting EXCEPT ![p] = NoRun]
    BY <1>10 DEF Shutdown
  <2>2. /\ mode'[p] = "stopping" /\ lane'[p].pc = "idle"
        /\ lane'[p].run = NoRun /\ queue'[p] = << >> /\ aborting'[p] = NoRun
    BY <1>0, <2>1 DEF LaneOK, MemoryOK, IdleLane
  <2> QED BY <2>2 DEF QuietMoves
<1>11. ASSUME RecoverLook(p)
       PROVE  QuietMoves(p)
  <2>1. UNCHANGED <<lane, queue, aborting, run, worker>> /\ mode[p] = "down"
    BY <1>11 DEF RecoverLook, store
  <2>2. \/ mode'[p] = "up"
        \/ mode'[p] = "recovering" /\ Running(recovery'[p].run)
             /\ recovery'[p].seen = run[recovery'[p].run]
    <3>1. CASE mode' = [mode EXCEPT ![p] = "up"]
      BY <1>0, <3>1 DEF MemoryOK
    <3>2. ASSUME mode' = [mode EXCEPT ![p] = "recovering"], NEW z \in Runs, Running(z),
                 recovery' = [recovery EXCEPT ![p] = [run |-> z, seen |-> run[z]]]
          PROVE  mode'[p] = "recovering" /\ Running(recovery'[p].run)
                   /\ recovery'[p].seen = run[recovery'[p].run]
      <4>1. recovery'[p] = [run |-> z, seen |-> run[z]] /\ mode'[p] = "recovering"
        BY <1>0, <3>2 DEF MemoryOK
      <4> QED BY <3>2, <4>1
    <3> QED BY <1>11, <3>1, <3>2 DEF RecoverLook
  <2> QED BY <1>0, <2>1, <2>2 DEF QuietMoves, AloneOf
<1>12. ASSUME RecoverSettle(p)
       PROVE  QuietMoves(p)
  <2>1. /\ UNCHANGED <<lane, queue, aborting, worker>> /\ mode[p] = "recovering"
        /\ mode'[p] = "up"
    BY <1>0, <1>12 DEF RecoverSettle, MemoryOK
  <2> QED BY <1>0, <2>1 DEF QuietMoves, AloneOf
<1>13. ASSUME NEW r \in Runs,
             \/ CreateRun(p, r) \/ DeleteRun(p, r) \/ AbortActive(p, r) \/ Claim(p, r)
      PROVE  QuietMoves(p)
  BY <1>13, <1>1 DEF CreateRun, DeleteRun, AbortActive, Claim, local
<1>14. ASSUME \/ Submit(p) \/ RejectSubmission(p) \/ Begin(p) \/ StageEnds(p) \/ Mark(p)
              \/ Finalize(p) \/ CancelRun(p) \/ CancelJob(p) \/ WatchDeadline(p)
              \/ HeartbeatFails(p)
      PROVE  QuietMoves(p)
  BY <1>14, <1>1 DEF Submit, RejectSubmission, Begin, StageEnds, StageDone, StageAborted,
     StageFails, StageUnwinds, Mark, Finalize, CancelRun, CancelJob, WatchDeadline,
     HeartbeatFails, local
<1>15. ASSUME NEW r \in Runs, LeaseRunsOut(r) \/ LeaseOutlivesStall(r)
      PROVE  QuietMoves(p)
  BY <1>15, <1>1 DEF LeaseRunsOut, LeaseOutlivesStall, local
<1>16. ASSUME UNCHANGED vars
      PROVE  QuietMoves(p)
  BY <1>16, <1>1 DEF vars
<1>17. \A q \in Procs : q = p
  BY DEF OneProcess
<1>18. ASSUME RenderProgress(p)
      PROVE  QuietMoves(p)
  BY <1>18, <1>1 DEF RenderProgress
<1> QED
  BY <1>2, <1>3, <1>4, <1>5, <1>6, <1>7, <1>8, <1>9, <1>10, <1>11, <1>12, <1>13, <1>14,
     <1>15, <1>16, <1>17, <1>18
  DEF Next, RequestStep, WorkerStep, LaneStep, RestartStep

\* The outcome of a run is not rewritten.
LEMMA OutcomeKept ==
  ASSUME Safe, Alone, OneProcess, NEW r \in Runs, RowMove(r), run[r] \in Settled
  PROVE  run'[r] \in {run[r], "DELETED"}
<1>1. ~Running(r) /\ run[r] # "ABSENT"
  BY DEF Settled, Running
<1>2. \A p \in Procs : ~Recovers(p, r)
  BY <1>1 DEF Recovers, Alone, AloneOf, Running
<1>3. ASSUME Written(r)
      PROVE  FALSE
  <2>1. PICK p \in Procs :
          \/ aborting[p] = r /\ aborting'[p] # r /\ r \notin parked
          \/ lane[p].pc # "idle" /\ lane[p].run = r
    BY <1>1, <1>2, <1>3 DEF Written
  <2>2. r # NoRun
    BY IdsAssumption DEF Runs, NoRun
  <2>3. run[r] \in {"RUNNING", "SUMMARY"}
    BY <2>1, <2>2 DEF Alone, AloneOf
  <2> QED BY <1>1, <2>3 DEF Running
<1>4. CASE Closed(r)
  BY <1>1, <1>2, <1>4 DEF Closed
<1> QED BY <1>1, <1>3, <1>4 DEF RowMove, Still, Created, Claimed, Touched, Removed

\* What was read to be written later stays as it was read.
LEMMA AloneStep ==
  ASSUME Safe, Alone, OneProcess, [Next]_vars
  PROVE  Alone'
<1> SUFFICES ASSUME NEW p \in Procs
             PROVE  AloneOf(p)'
  BY DEF Alone
<1>1. /\ QuietMoves(p) /\ AloneOf(p) /\ WaitOf(p) /\ HistoryMoves
      /\ LaneOK /\ MemoryOK /\ \A q \in Procs : q = p
  BY QuietMove, HistoryMove DEF Alone, OneProcess, Safe, Waiting, Inv, TypeInv
<1>2. ASSUME lane'[p].pc # "idle"
      PROVE  run'[lane'[p].run] = "SUMMARY"
  <2>1. CASE run[lane'[p].run] = "SUMMARY" /\ run' = run
    BY <2>1
  <2>2. CASE lane[p].pc # "idle" /\ lane'[p].run = lane[p].run
    <3> DEFINE r == lane[p].run
    <3>1. /\ r \in Runs /\ run[r] = "SUMMARY" /\ Rendering(r) /\ RowMove(r)
          /\ mode[p] = "up"
      BY <1>1, <2>2, RowsMove DEF LaneOK, AloneOf, WaitOf, RowMoves
    <3>2. ~Active(r) /\ ~Created(r) /\ ~Closed(r) /\ ~Removed(r)
      BY <3>1 DEF Rendering, Active, ActiveStatus, Created, Closed, Removed, Settled
    <3>3. Written(r) => run'[r] = "SUMMARY"
      BY <1>1, <1>2, <2>2, <3>1, <3>2 DEF Written, Rendering, Recovers
    <3>4. run'[r] = "SUMMARY"
      BY <3>1, <3>2, <3>3 DEF RowMove, Still, Claimed, Touched
    <3> QED BY <2>2, <3>1, <3>4
  <2> QED BY <1>1, <1>2, <2>1, <2>2 DEF QuietMoves
<1>3. ASSUME aborting'[p] # NoRun, aborting'[p] \notin parked'
      PROVE  run'[aborting'[p]] = "RUNNING"
  <2> DEFINE r == aborting'[p]
  <2>1. r \notin parked
    BY <1>1, <1>3 DEF HistoryMoves
  <2>2. r \in Runs /\ RowMove(r)
    BY <1>3, TypeStep, RowsMove DEF Safe, Inv, TypeInv, MemoryOK, RowMoves
  <2>3. CASE Running(r) /\ run' = run
    BY <2>1, <2>2, <2>3 DEF Running, Safe, Rows, RowsOf
  <2>4. CASE aborting[p] = r
    <3>1. run[r] = "RUNNING" /\ ~Active(r) /\ mode[p] = "up"
      BY <1>1, <1>3, <2>1, <2>4 DEF AloneOf, WaitOf, Unfenced
    <3>2. ~Created(r) /\ ~Closed(r) /\ ~Removed(r)
      BY <3>1 DEF Created, Closed, Removed, Settled
    <3>3. ~Written(r)
      BY <1>1, <2>1, <2>4, <3>1 DEF Written, WaitOf, Rendering, Recovers
    <3>4. run'[r] = run[r]
      BY <2>2, <3>2, <3>3 DEF RowMove, Still, Claimed, Touched
    <3> QED BY <3>1, <3>4
  <2> QED BY <1>1, <1>3, <2>3, <2>4 DEF QuietMoves
<1>4. ASSUME mode'[p] = "recovering"
      PROVE  /\ run'[recovery'[p].run] = recovery'[p].seen
             /\ recovery'[p].seen \in {"RUNNING", "SUMMARY"}
  <2>1. CASE recovery'[p].seen = run[recovery'[p].run] /\ Running(recovery'[p].run) /\ run' = run
    BY <2>1 DEF Running
  <2>2. CASE mode[p] = "recovering" /\ recovery'[p] = recovery[p]
    <3> DEFINE z == recovery[p].run
    <3>1. /\ z \in Runs /\ RowMove(z) /\ run[z] = recovery[p].seen
          /\ run[z] \in {"RUNNING", "SUMMARY"} /\ worker[p].pc = "idle"
          /\ lane[p].pc = "idle" /\ aborting[p] = NoRun
      BY <1>1, <2>2, RowsMove DEF WaitOf, Zombie, AloneOf, RowMoves
    <3>2. z # NoRun
      BY <3>1, IdsAssumption DEF Runs, NoRun
    <3>3. ~Created(z) /\ ~Removed(z)
      BY <3>1 DEF Created, Removed, Settled
    <3>4. ~Closed(z)
      BY <1>1, <1>4, <2>2, <3>1 DEF Closed, Recovers
    <3>5. ~Written(z)
      BY <1>1, <1>4, <3>1, <3>2 DEF Written, Recovers
    <3>6. run'[z] = run[z]
      BY <3>1, <3>3, <3>4, <3>5 DEF RowMove, Still, Claimed, Touched
    <3> QED BY <2>2, <3>1, <3>6
  <2> QED BY <1>1, <1>4, <2>1, <2>2 DEF QuietMoves
<1> QED BY <1>1, <1>2, <1>3, <1>4 DEF AloneOf, QuietMoves

\* Initially the process is down and remembers nothing.
LEMMA AloneInit == Init => Alone
  BY DEF Init, Alone, AloneOf, IdleWorker, IdleLane

\* A job and its run end alike.
LEMMA AgreesStep ==
  ASSUME Safe, Safe', Alone, Alone', OneProcess, [Next]_vars, JobAgrees
  PROVE  JobAgrees'
<1>1. ASSUME NEW r \in Runs
      PROVE  (/\ job[r].status = "COMPLETED" => run[r] = "COMPLETED" \/ r \in parked
              /\ job[r].status \in {"FAILED", "INTERRUPTED"} => run[r] = "FAILED"
              /\ job[r].status = "PENDING" => run[r] = "RUNNING")'
  <2>1. RowMove(r) /\ RowsOf(r)' /\ parked \subseteq parked' /\ RowsOf(r)
    BY RowsMove, HistoryMove DEF RowMoves, HistoryMoves, Safe, Rows
  <2>2. /\ job[r].status = "COMPLETED" => run[r] = "COMPLETED" \/ r \in parked
        /\ job[r].status \in {"FAILED", "INTERRUPTED"} => run[r] = "FAILED"
    BY DEF JobAgrees
  <2>3. run[r] \in Settled => run'[r] \in {run[r], "DELETED"}
    BY <2>1, OutcomeKept
  <2>4. CASE Still(r)
    BY <2>1, <2>2, <2>4 DEF Still, RowsOf
  <2>5. CASE Written(r)
    <3>1. run'[r] # "DELETED" /\ job'[r] = job[r]
      BY <2>5 DEF Written, Settled
    <3> QED BY <2>1, <2>2, <2>3, <3>1 DEF RowsOf, Settled
  <2>6. CASE Closed(r)
    BY <2>1, <2>6 DEF Closed, RowsOf, TerminalStatus
  <2>7. CASE Created(r) \/ Claimed(r) \/ Touched(r) \/ Removed(r)
    BY <2>1, <2>7 DEF RowsOf, Created, Claimed, Touched, Removed, ClaimedStatus, NoJob
  <2> QED BY <2>1, <2>4, <2>5, <2>6, <2>7 DEF RowMove
<1>2. ASSUME NEW p \in Procs, NEW r \in Runs,
             lane'[p].run = r \/ (\E i \in 1..Len(queue'[p]) : queue'[p][i] = r)
      PROVE  ~Active(r)'
  <2>1. r # NoRun
    BY IdsAssumption DEF Runs, NoRun
  <2>2. Rendering(r)'
    BY <1>2, <2>1 DEF Safe, Waiting, WaitOf, Alone, AloneOf, Rendering
  <2> QED BY <2>2 DEF Rendering, Active, ActiveStatus
<1> QED BY <1>1, <1>2 DEF JobAgrees

\* Initially there is nothing to agree about.
LEMMA AgreesInit == Init => JobAgrees
<1> SUFFICES ASSUME Init
             PROVE  JobAgrees
  OBVIOUS
<1>1. \A r \in Runs : job[r].status = "NONE" /\ ~Active(r)
  BY DEF Init, NoJob, Active, ActiveStatus
<1> QED BY <1>1 DEF JobAgrees

\* Where one process has the database to itself (compose.yaml starts one), the
\* outcome of a run is written once: whatever writes a run without a fence - a
\* late abort, the render lane, start-up recovery - finds it as it read it, and
\* whatever else does owns its claim.
THEOREM OutcomesFinal ==
  ASSUME OneProcess
  PROVE  Spec => OutcomeIsFinal
<1>1. Safe /\ Alone /\ [Next]_vars => Alone'
  BY AloneStep
<1>2. Safe /\ Alone /\ [Next]_vars =>
        [\A r \in Runs : run[r] \in Settled => run'[r] \in {run[r], "DELETED"}]_vars
  <2> SUFFICES ASSUME Safe, Alone, [Next]_vars, NEW r \in Runs, run[r] \in Settled
               PROVE  run'[r] \in {run[r], "DELETED"}
    OBVIOUS
  <2> QED BY RowsMove, OutcomeKept DEF RowMoves
<1> QED BY <1>1, <1>2, Safety, AloneInit, PTL DEF Spec, OutcomeIsFinal

\* And a job's final status and its run's agree.
THEOREM JobsAgree ==
  ASSUME OneProcess
  PROVE  Spec => []JobAgrees
<1>1. Safe /\ Alone /\ [Next]_vars => Alone'
  BY AloneStep
<1>2. Safe /\ Safe' /\ Alone /\ Alone' /\ [Next]_vars /\ JobAgrees => JobAgrees'
  BY AgreesStep
<1> QED BY <1>1, <1>2, Safety, AloneInit, AgreesInit, PTL DEF Spec

==============================================================================
