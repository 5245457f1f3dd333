------------------------------- MODULE RunJobs -------------------------------
(***************************************************************************)
(* The run core of the backend: durable run jobs (run_job_repo.py), the    *)
(* worker that claims them under a lease (run_worker.py), the executor it  *)
(* drives (executor.py, orchestration.py), the render lane that finishes a *)
(* parked analysis (summary_worker.py), the API operations on runs         *)
(* (runs/service.py) and start-up recovery (app_factory.py).               *)
(*                                                                         *)
(* One action is one committed SQLite transaction, or one in-memory step   *)
(* between two of them.  A transaction's first UPDATE takes the write      *)
(* lock, so what it reads after that is current; what the code read before *)
(* (AbortRead, RecoverLook, Submit) is kept in the state until it is used. *)
(***************************************************************************)
EXTENDS Naturals, Sequences

CONSTANTS Analyses,        \* ids of analysis runs
          Watches,         \* ids of order watch runs
          Procs,           \* application processes sharing the database
          MaxSubmissions,  \* bound: submissions of a process past their checks
          RenderCapacity,  \* SUMMARY_QUEUE_MAXSIZE (0 would mean no bound)
          MaxClaims,       \* bound: claims of one job
          MaxStalls,       \* bound: leases that run out under a live owner
          MaxOutages,      \* bound: crashes and shutdowns, all processes
          TransientErrors  \* whether a database write may fail and be swallowed

Runs == Analyses \cup Watches

\* An id is date, type digit and sequence: a day's watches follow its analyses.
ASSUME IdsAssumption ==
  /\ Analyses \subseteq Nat \ {0}
  /\ Watches \subseteq Nat \ {0}
  /\ \A a \in Analyses, w \in Watches : a < w

ASSUME BoundsAssumption ==
  /\ MaxSubmissions \in Nat
  /\ RenderCapacity \in Nat \ {0}
  /\ MaxClaims \in Nat
  /\ MaxStalls \in Nat
  /\ MaxOutages \in Nat
  /\ TransientErrors \in BOOLEAN

VARIABLES
  job,       \* run_jobs: one row per run
  run,       \* strategy_runs: status and current_state of each run
  worker,    \* per process: what its RunWorker is doing
  lane,      \* per process: what its SummaryWorker is rendering
  queue,     \* per process: the SummaryWorker's queue
  mode,      \* per process: up, down, starting up or shutting down
  recovery,  \* per process: the zombie its start-up recovery has read
  passed,    \* per process: submissions past the checks, not yet committed
  aborting,  \* per process: the run abort_run has read and is about to write
  started,   \* history: how often each run's stage was started
  parked,    \* history: the runs that ever reached Summary
  dropped,   \* history: the runs a full render queue turned away
  stalls,    \* leases that ran out under a live owner so far
  outages    \* crashes and shutdowns so far

vars == <<job, run, worker, lane, queue, mode, recovery, passed, aborting,
          started, parked, dropped, stalls, outages>>

store   == <<job, run>>
local   == <<lane, queue, mode, recovery, passed, aborting>>
history == <<started, parked, dropped>>
faults  == <<stalls, outages>>

NoRun == 0

ActiveStatus   == {"PENDING", "LEASED", "CANCEL_REQUESTED"}
ClaimedStatus  == {"LEASED", "CANCEL_REQUESTED"}
TerminalStatus == {"COMPLETED", "FAILED", "CANCELLED", "INTERRUPTED"}

\* claim_token is drawn anew by every claim: the claim's attempt number stands
\* for it, and for the worker_id it comes with; 0 is NULL.  live says that
\* lease_expires_at is still ahead.
JobRow == [status : ActiveStatus \cup TerminalStatus \cup {"NONE"},
           attempt : Nat, token : Nat, live : BOOLEAN]

NoJob == [status |-> "NONE", attempt |-> 0, token |-> 0, live |-> FALSE]

\* RUNNING is status RUNNING in Run or Watch, SUMMARY is status RUNNING in
\* Summary; in the other three status and current_state move together.
RunRow  == {"ABSENT", "RUNNING", "SUMMARY", "COMPLETED", "FAILED", "ABORTED",
            "DELETED"}
Settled == {"COMPLETED", "FAILED", "ABORTED"}

WorkerPC == {"idle", "starting", "running", "closing", "handoff",
             "finalizing", "cancelling", "cancelled"}

\* lost: heartbeat_failed; sig: the abort signal of the run being executed;
\* end: the job status _finalize_execution was called with.
WorkerState == [pc : WorkerPC, run : Runs \cup {NoRun}, token : Nat,
                lost : BOOLEAN, sig : BOOLEAN,
                end : {"NONE", "CANCELLED", "FAILED", "INTERRUPTED"}]

IdleWorker == [pc |-> "idle", run |-> NoRun, token |-> 0,
               lost |-> FALSE, sig |-> FALSE, end |-> "NONE"]

LaneState == [pc : {"idle", "rendering", "closing"},
              run : Runs \cup {NoRun}, sig : BOOLEAN]

IdleLane == [pc |-> "idle", run |-> NoRun, sig |-> FALSE]

Active(r)       == job[r].status \in ActiveStatus
Running(r)      == run[r] \in {"RUNNING", "SUMMARY"}
AccountBound(r) == run[r] = "RUNNING"

------------------------------------------------------------------------------
(* Submitting, deleting *)

\* create_run / create_watch_run: get_account_bound_run and get_active_job
\* come back empty.
Submit(p) ==
  /\ mode[p] = "up"
  /\ passed[p] < MaxSubmissions
  /\ \A r \in Runs : ~AccountBound(r) /\ ~Active(r)
  /\ passed' = [passed EXCEPT ![p] = @ + 1]
  /\ UNCHANGED <<job, run, worker, lane, queue, mode, recovery, aborting,
                 history, faults>>

\* next_task_id counts each kind of run up on its own.
IsNextId(r) ==
  /\ run[r] = "ABSENT"
  /\ \A s \in Runs : (s < r /\ (s \in Watches <=> r \in Watches))
                       => run[s] # "ABSENT"

\* uq_run_jobs_active_guard: a new job's active_guard finds no other.
NoUniqueGuard == TRUE                                \* mutant: no constraint
UniqueGuard   == \A s \in Runs : ~Active(s)

\* The commit of both rows.
CreateRun(p, r) ==
  /\ passed[p] > 0
  /\ IsNextId(r)
  /\ UniqueGuard
  /\ passed' = [passed EXCEPT ![p] = @ - 1]
  /\ job' = [job EXCEPT ![r] = [status |-> "PENDING", attempt |-> 0,
                                token |-> 0, live |-> FALSE]]
  /\ run' = [run EXCEPT ![r] = "RUNNING"]
  /\ UNCHANGED <<worker, lane, queue, mode, recovery, aborting, history,
                 faults>>

\* The unique constraint, the settings or the schedule's lease refused it.
RejectSubmission(p) ==
  /\ passed[p] > 0
  /\ passed' = [passed EXCEPT ![p] = @ - 1]
  /\ UNCHANGED <<job, run, worker, lane, queue, mode, recovery, aborting,
                 history, faults>>

\* delete_run; the job row goes with it (ON DELETE CASCADE).
DeleteRun(p, r) ==
  /\ mode[p] = "up"
  /\ run[r] \in Settled
  /\ run' = [run EXCEPT ![r] = "DELETED"]
  /\ job' = [job EXCEPT ![r] = NoJob]
  /\ UNCHANGED <<worker, local, history, faults>>

------------------------------------------------------------------------------
(* Claiming and executing *)

ClaimableAny(r)     == Active(r)                     \* mutant: live leases too
ClaimablePending(r) == job[r].status = "PENDING"     \* mutant: no reclaim
ClaimableLeased(r)  ==                               \* mutant: not once cancelled
  \/ job[r].status = "PENDING"
  \/ job[r].status = "LEASED" /\ ~job[r].live

\* claim_next: pending, or claimed under a lease that ran out.
Claimable(r) ==
  \/ job[r].status = "PENDING"
  \/ job[r].status \in ClaimedStatus /\ ~job[r].live

\* Mutant: a reclaimed job is executed again.
DispatchReplays(r) ==
  IF job[r].status = "CANCEL_REQUESTED" THEN {"cancelling"} ELSE {"starting"}

\* Where _claim_and_execute_one sends a claimed job; a watch may also turn
\* out to have waited for WATCH_STALE_AFTER.
Dispatch(r) ==
  IF job[r].status = "CANCEL_REQUESTED" THEN {"cancelling"}
  ELSE IF job[r].attempt > 0 THEN {"finalizing"}
  ELSE IF r \in Watches THEN {"starting", "finalizing"}
  ELSE {"starting"}

Claim(p, r) ==
  /\ mode[p] = "up"
  /\ worker[p].pc = "idle"
  /\ Claimable(r)
  /\ job[r].attempt < MaxClaims
  /\ LET n == job[r].attempt + 1 IN
     /\ job' = [job EXCEPT ![r] =
          [status |-> IF job[r].status = "CANCEL_REQUESTED"
                      THEN "CANCEL_REQUESTED" ELSE "LEASED",
           attempt |-> n, token |-> n, live |-> TRUE]]
     /\ \E pc \in Dispatch(r) :
          worker' = [worker EXCEPT ![p] =
            [pc |-> pc, run |-> r, token |-> n, lost |-> FALSE, sig |-> FALSE,
             end |-> IF pc = "finalizing" THEN "INTERRUPTED" ELSE "NONE"]]
  /\ UNCHANGED <<run, local, history, faults>>

OwnsAny(p) == job[worker[p].run].token # 0           \* mutant: anybody's claim

\* The claim p works under is still the one in its job row.
Owns(p) == job[worker[p].run].token = worker[p].token

\* save_fenced and mark_terminal: the row is p's, in one of the statuses S,
\* and its lease is live.
Fenced(p, S) ==
  /\ Owns(p)
  /\ job[worker[p].run].status \in S
  /\ job[worker[p].run].live

\* require_leased=True of an execution's writes, and without it of the writes
\* that apply a cancellation.
StageFenceAny     == ClaimedStatus                   \* mutant: not require_leased
StageFence        == {"LEASED"}
CancelFenceLeased == {"LEASED"}                      \* mutant: require_leased
CancelFence       == ClaimedStatus

ToFinalize(p, end) ==
  worker' = [worker EXCEPT ![p].pc = "finalizing", ![p].end = end]

Close(r, status) ==
  job' = [job EXCEPT ![r] = [status |-> status, attempt |-> job[r].attempt,
                             token |-> 0, live |-> FALSE]]

SetRun(r, status) == run' = [run EXCEPT ![r] = status]

\* _execute up to the first line of the stage: the claim and the guard are
\* read again before the executor is let go.
Begin(p) ==
  LET r == worker[p].run
      goes == ~worker[p].lost /\ Running(r) /\ Fenced(p, StageFence) IN
  /\ worker[p].pc = "starting"
  /\ IF ~Owns(p) THEN worker' = [worker EXCEPT ![p] = IdleWorker]
     ELSE IF job[r].status = "CANCEL_REQUESTED"
          THEN worker' = [worker EXCEPT ![p].pc = "cancelling"]
     ELSE IF goes
          THEN worker' = [worker EXCEPT ![p].pc = "running", ![p].sig = FALSE]
     ELSE IF Running(r) \/ worker[p].lost THEN ToFinalize(p, "CANCELLED")
     ELSE worker' = [worker EXCEPT ![p].pc = "closing"]
  /\ started' = IF goes THEN [started EXCEPT ![r] = @ + 1] ELSE started
  /\ UNCHANGED <<job, run, local, parked, dropped, faults>>

\* The stage returned.  A watch is COMPLETED by its final status step, an
\* analysis saves its Markdown and enters Summary; both writes are fenced.
StageDone(p) ==
  LET r == worker[p].run IN
  /\ worker[p].pc = "running"
  /\ ~worker[p].sig
  /\ IF Fenced(p, StageFence)
     THEN /\ SetRun(r, IF r \in Watches THEN "COMPLETED" ELSE "SUMMARY")
          /\ parked' = IF r \in Watches THEN parked ELSE parked \cup {r}
          /\ worker' = [worker EXCEPT ![p].pc = "closing"]
     ELSE /\ ToFinalize(p, "CANCELLED")
          /\ UNCHANGED <<run, parked>>
  /\ UNCHANGED <<job, local, started, dropped, faults>>

\* The stage unwound with RunAbortError or with any other exception:
\* _record_aborted_run, _record_failed_run.  Their commit runs the guard,
\* which a failed heartbeat closes.
StageUnwinds(p, status, end) ==
  LET r == worker[p].run IN
  /\ worker[p].pc = "running"
  /\ IF ~worker[p].lost /\ Fenced(p, StageFence)
     THEN SetRun(r, status) ELSE UNCHANGED run
  /\ ToFinalize(p, end)
  /\ UNCHANGED <<job, local, history, faults>>

StageAborted(p) == worker[p].sig /\ StageUnwinds(p, "ABORTED", "CANCELLED")
StageFails(p)   == StageUnwinds(p, "FAILED", "FAILED")

\* _give_up_on_the_watch_at_the_deadline.
WatchDeadline(p) ==
  /\ worker[p].pc = "running"
  /\ worker[p].run \in Watches
  /\ ~worker[p].sig
  /\ worker' = [worker EXCEPT ![p].sig = TRUE]
  /\ UNCHANGED <<store, local, history, faults>>

\* A heartbeat that found the claim gone, a cancellation requested, or the
\* database failing.  One that renews the lease changes nothing here.
HeartbeatFails(p) ==
  /\ worker[p].pc \in {"starting", "running", "closing"}
  /\ ~worker[p].lost
  /\ ~Fenced(p, StageFence) \/ TransientErrors
  /\ worker' = [worker EXCEPT ![p].lost = TRUE, ![p].sig = TRUE]
  /\ UNCHANGED <<store, local, history, faults>>

\* ensure_claim_owned and mark_terminal(COMPLETED) at the end of _execute: the
\* account is free from here on.  Only a parked run has a report to hand over.
Mark(p) ==
  LET r == worker[p].run IN
  /\ worker[p].pc = "closing"
  /\ IF ~worker[p].lost /\ Fenced(p, StageFence)
     THEN \/ /\ Close(r, "COMPLETED")
             /\ worker' = [worker EXCEPT ![p] =
                  IF run[r] = "SUMMARY" THEN [@ EXCEPT !.pc = "handoff"]
                  ELSE IdleWorker]
          \/ /\ TransientErrors
             /\ ToFinalize(p, "FAILED")
             /\ UNCHANGED job
     ELSE /\ ToFinalize(p, "CANCELLED")
          /\ UNCHANGED job
  /\ UNCHANGED <<run, local, history, faults>>

FitsOneLess(p) ==                                    \* mutant: off by one
  mode[p] = "up" /\ Len(queue[p]) + 1 < RenderCapacity
Fits(p) == mode[p] = "up" /\ Len(queue[p]) < RenderCapacity

\* _hand_off_pending_summary: a full queue drops the run, a stopping render
\* lane refuses it; either leaves it parked.
HandOff(p) ==
  /\ worker[p].pc = "handoff"
  /\ queue' = IF Fits(p) THEN [queue EXCEPT ![p] = Append(@, worker[p].run)]
              ELSE queue
  /\ dropped' = IF Len(queue[p]) >= RenderCapacity
                THEN dropped \cup {worker[p].run} ELSE dropped
  /\ worker' = [worker EXCEPT ![p] = IdleWorker]
  /\ UNCHANGED <<store, lane, mode, recovery, passed, aborting, started, parked,
                 faults>>

JobStatusVerbatim == [s \in Settled |-> s]            \* mutant: status copied
JobStatusFor == [COMPLETED |-> "COMPLETED", FAILED |-> "FAILED",
                 ABORTED |-> "CANCELLED"]

\* Mutant: the job is closed without looking at how the run ended.
FinalizeBlindly(p) ==
  LET r == worker[p].run IN
  /\ Fenced(p, ClaimedStatus)
  /\ IF Running(r) THEN SetRun(r, "ABORTED") ELSE UNCHANGED run
  /\ Close(r, worker[p].end)

\* _finalize_execution with its retry as a cancellation: one transaction
\* writes the outcome the run lacks and closes the job, or writes nothing.
FinalizeWrites(p) ==
  LET r == worker[p].run
      end == IF job[r].status = "CANCEL_REQUESTED" THEN "CANCELLED"
             ELSE worker[p].end IN
  /\ Fenced(p, ClaimedStatus)
  /\ IF Running(r)
     THEN /\ SetRun(r, IF end = "CANCELLED" THEN "ABORTED" ELSE "FAILED")
          /\ Close(r, end)
     ELSE /\ run[r] \in Settled
          /\ Close(r, JobStatusFor[run[r]])
          /\ UNCHANGED run

Finalize(p) ==
  /\ worker[p].pc = "finalizing"
  /\ \/ FinalizeWrites(p)
     \/ /\ TransientErrors \/ ~Fenced(p, ClaimedStatus)
        /\ UNCHANGED store
  /\ worker' = [worker EXCEPT ![p] = IdleWorker]
  /\ UNCHANGED <<local, history, faults>>

\* _execute_cancelled: executor.cancel and its commit, whose exceptions are
\* swallowed, then the job's own commit.
CancelRun(p) ==
  LET r == worker[p].run IN
  /\ worker[p].pc = "cancelling"
  /\ IF Owns(p)
     THEN worker' = [worker EXCEPT ![p].pc = "cancelled"]
     ELSE worker' = [worker EXCEPT ![p] = IdleWorker]
  /\ \/ /\ Running(r) /\ Fenced(p, CancelFence)
        /\ SetRun(r, "ABORTED")
     \/ /\ TransientErrors \/ ~Running(r) \/ ~Fenced(p, CancelFence)
        /\ UNCHANGED run
  /\ UNCHANGED <<job, local, history, faults>>

CancelJob(p) ==
  /\ worker[p].pc = "cancelled"
  /\ \/ /\ Fenced(p, ClaimedStatus)
        /\ Close(worker[p].run, "CANCELLED")
     \/ /\ TransientErrors \/ ~Fenced(p, ClaimedStatus)
        /\ UNCHANGED job
  /\ worker' = [worker EXCEPT ![p] = IdleWorker]
  /\ UNCHANGED <<run, local, history, faults>>

------------------------------------------------------------------------------
(* abort_run *)

\* Whether abort_registry of p holds a signal for r.
Executes(p, r) == worker[p].pc = "running" /\ worker[p].run = r
Renders(p, r)  == lane[p].pc = "rendering" /\ lane[p].run = r

\* request_cancel on an active job: a pending one is closed with its run in
\* the same commit, a claimed one is marked and the local signal raised.
AbortActive(p, r) ==
  /\ mode[p] = "up"
  /\ Active(r)
  /\ IF job[r].status = "PENDING"
     THEN /\ Running(r)
          /\ Close(r, "CANCELLED")
          /\ SetRun(r, "ABORTED")
     ELSE /\ job' = [job EXCEPT ![r].status = "CANCEL_REQUESTED"]
          /\ UNCHANGED run
  /\ worker' = IF Executes(p, r) THEN [worker EXCEPT ![p].sig = TRUE] ELSE worker
  /\ UNCHANGED <<local, history, faults>>

\* The rest of abort_run is for a run still RUNNING whose job is closed.
AbortableEnded(r) == ~Active(r) /\ run[r] # "ABSENT" \* mutant: ended runs too
Abortable(r)      == ~Active(r) /\ Running(r)

\* Whoever executes or renders it in this process is signalled.
AbortSignalled(p, r) ==
  /\ mode[p] = "up"
  /\ Abortable(r)
  /\ Executes(p, r) \/ Renders(p, r)
  /\ worker' = IF Executes(p, r) THEN [worker EXCEPT ![p].sig = TRUE] ELSE worker
  /\ lane' = IF Renders(p, r) THEN [lane EXCEPT ![p].sig = TRUE] ELSE lane
  /\ UNCHANGED <<store, queue, mode, recovery, passed, aborting, history,
                 faults>>

\* Nobody here has a signal for it: the run is written as it was read.
AbortRead(p, r) ==
  /\ mode[p] = "up"
  /\ aborting[p] = NoRun
  /\ Abortable(r)
  /\ ~Executes(p, r) /\ ~Renders(p, r)
  /\ aborting' = [aborting EXCEPT ![p] = r]
  /\ UNCHANGED <<store, worker, lane, queue, mode, recovery, passed, history,
                 faults>>

\* save: the whole row is written, and inserted again if it was deleted; one
\* deleted between save's SELECT and its UPDATE makes it raise.
WriteUnfenced(r, status) ==
  SetRun(r, status) \/ (run[r] = "DELETED" /\ UNCHANGED run)

\* Its Summary stage is entered to say how it ended, and only a pending stage
\* can be: that of a parked run has been running since it parked, so the abort
\* raises and its session is rolled back.  (A run whose job is closed parks no
\* more: it was parked when it was read if it ever was.)
AbortRaises(p) ==
  /\ aborting[p] # NoRun
  /\ aborting[p] \in parked
  /\ aborting' = [aborting EXCEPT ![p] = NoRun]
  /\ UNCHANGED <<store, worker, lane, queue, mode, recovery, passed, history,
                 faults>>

\* Otherwise it is written ABORTED, without a fence and without a second look.
AbortWrite(p) ==
  /\ aborting[p] # NoRun
  /\ aborting[p] \notin parked
  /\ WriteUnfenced(aborting[p], "ABORTED")
  /\ aborting' = [aborting EXCEPT ![p] = NoRun]
  /\ UNCHANGED <<job, worker, lane, queue, mode, recovery, passed, history,
                 faults>>

------------------------------------------------------------------------------
(* The render lane *)

\* render_summary leaves a run that is no longer parked alone.
RenderStart(p) ==
  /\ lane[p].pc = "idle" /\ queue[p] # << >>
  /\ queue' = [queue EXCEPT ![p] = Tail(@)]
  /\ lane' = IF run[Head(queue[p])] = "SUMMARY"
             THEN [lane EXCEPT ![p] = [pc |-> "rendering",
                                       run |-> Head(queue[p]), sig |-> FALSE]]
             ELSE lane
  /\ UNCHANGED <<store, worker, mode, recovery, passed, aborting, history,
                 faults>>

\* While it renders, each step of the trace is saved with the whole run, which
\* is RUNNING in Summary there whatever became of the row meanwhile.
RenderProgress(p) ==
  /\ lane[p].pc = "rendering"
  /\ WriteUnfenced(lane[p].run, "SUMMARY")
  /\ UNCHANGED <<job, worker, lane, queue, mode, recovery, passed, aborting,
                 history, faults>>

\* What the lane writes may be lost; the run then stays parked.
LaneWrites(r, status) ==
  WriteUnfenced(r, status) \/ (TransientErrors /\ UNCHANGED run)

\* The render was aborted, or could not even be prepared; an LLM failure is
\* neither, it falls back to Markdown.  No claim is left to fence the write.
RenderUnwinds(p, status) ==
  /\ lane[p].pc = "rendering"
  /\ LaneWrites(lane[p].run, status)
  /\ lane' = [lane EXCEPT ![p] = IdleLane]
  /\ UNCHANGED <<job, worker, queue, mode, recovery, passed, aborting, history,
                 faults>>

RenderAborted(p) == lane[p].sig /\ RenderUnwinds(p, "ABORTED")
RenderFails(p)   == RenderUnwinds(p, "FAILED")

\* HTML, or the Markdown fallback: the signal is cleared, COMPLETED is so far
\* only in memory.
RenderDone(p) ==
  /\ lane[p].pc = "rendering"
  /\ lane' = [lane EXCEPT ![p].pc = "closing", ![p].sig = FALSE]
  /\ UNCHANGED <<store, worker, queue, mode, recovery, passed, aborting,
                 history, faults>>

\* _record_final_status_step on the render lane.
RenderCommit(p) ==
  /\ lane[p].pc = "closing"
  /\ LaneWrites(lane[p].run, "COMPLETED")
  /\ lane' = [lane EXCEPT ![p] = IdleLane]
  /\ UNCHANGED <<job, worker, queue, mode, recovery, passed, aborting, history,
                 faults>>

------------------------------------------------------------------------------
(* Leases, outages, recovery *)

Owner(r) == {p \in Procs : worker[p].run = r /\ Owns(p)}

Expire(r) ==
  /\ job[r].status \in ClaimedStatus
  /\ job[r].live
  /\ job' = [job EXCEPT ![r].live = FALSE]

\* Nobody renews it any more.
LeaseRunsOut(r) ==
  /\ Owner(r) = {}
  /\ Expire(r)
  /\ UNCHANGED <<run, worker, local, history, faults>>

\* Its owner was held up (blocked event loop, suspended host) for the 20
\* seconds of the lease and goes on afterwards.
LeaseOutlivesStall(r) ==
  /\ Owner(r) # {}
  /\ stalls < MaxStalls
  /\ Expire(r)
  /\ stalls' = stalls + 1
  /\ UNCHANGED <<run, worker, local, history, outages>>

\* Everything a process holds in memory.
Vanish(p) ==
  /\ worker' = [worker EXCEPT ![p] = IdleWorker]
  /\ lane' = [lane EXCEPT ![p] = IdleLane]
  /\ queue' = [queue EXCEPT ![p] = << >>]
  /\ recovery' = [recovery EXCEPT ![p] = [run |-> NoRun, seen |-> "ABSENT"]]
  /\ passed' = [passed EXCEPT ![p] = 0]
  /\ aborting' = [aborting EXCEPT ![p] = NoRun]

Crash(p) ==
  /\ mode[p] # "down"
  /\ outages < MaxOutages
  /\ outages' = outages + 1
  /\ mode' = [mode EXCEPT ![p] = "down"]
  /\ Vanish(p)
  /\ UNCHANGED <<store, history, stalls>>

\* _shutdown_runtime stops the render lane first: what it renders is cancelled
\* and its queue is lost.  The run worker gets ten seconds more.
Shutdown(p) ==
  /\ mode[p] = "up"
  /\ outages < MaxOutages
  /\ outages' = outages + 1
  /\ mode' = [mode EXCEPT ![p] = "stopping"]
  /\ lane' = [lane EXCEPT ![p] = IdleLane]
  /\ queue' = [queue EXCEPT ![p] = << >>]
  /\ passed' = [passed EXCEPT ![p] = 0]
  /\ aborting' = [aborting EXCEPT ![p] = NoRun]
  /\ UNCHANGED <<store, worker, recovery, history, stalls>>

\* The worker finished, or its task is cancelled where it stands.
Exit(p) ==
  /\ mode[p] = "stopping"
  /\ mode' = [mode EXCEPT ![p] = "down"]
  /\ Vanish(p)
  /\ UNCHANGED <<store, history, faults>>

\* The process comes up and _recover_stale_run_jobs reads the first zombie.
RecoverLook(p) ==
  /\ mode[p] = "down"
  /\ \/ /\ \A r \in Runs : ~Running(r)
        /\ mode' = [mode EXCEPT ![p] = "up"]
        /\ UNCHANGED recovery
     \/ /\ mode' = [mode EXCEPT ![p] = "recovering"]
        /\ \E r \in Runs :
             /\ Running(r)
             /\ \A s \in Runs : Running(s) => r <= s
             /\ recovery' = [recovery EXCEPT ![p] =
                               [run |-> r, seen |-> run[r]]]
  /\ UNCHANGED <<store, worker, lane, queue, passed, aborting, history, faults>>

\* A pending job, or one under a live lease, ends the recovery loop.
BlocksRecovery(r) ==
  Active(r) /\ (job[r].status = "PENDING" \/ job[r].live)

\* The loop from the zombie z up to the first that blocks it, as one
\* transaction.  Only z is settled by what was read of it before, and put back
\* if it was deleted meanwhile.
Recovered(z) ==
  {z} \cup {r \in Runs : /\ Running(r)
                         /\ \A b \in Runs : Running(b) /\ BlocksRecovery(b)
                                              => r < b}

RecoverSettle(p) ==
  LET z == recovery[p].run
      seen == [run EXCEPT ![z] = recovery[p].seen]
      blocked == BlocksRecovery(z) IN
  /\ mode[p] = "recovering"
  /\ mode' = [mode EXCEPT ![p] = "up"]
  /\ recovery' = [recovery EXCEPT ![p] = [run |-> NoRun, seen |-> "ABSENT"]]
  /\ run' = IF blocked THEN run
            ELSE [r \in Runs |->
                    IF r \notin Recovered(z) THEN run[r]
                    ELSE IF ~Active(r) /\ seen[r] = "SUMMARY" THEN "COMPLETED"
                    ELSE "FAILED"]
  /\ job' = IF blocked THEN job
            ELSE [r \in Runs |->
                    IF r \in Recovered(z) /\ Active(r)
                    THEN [status |-> "INTERRUPTED",
                          attempt |-> job[r].attempt + 1,
                          token |-> 0, live |-> FALSE]
                    ELSE job[r]]
  /\ UNCHANGED <<worker, lane, queue, passed, aborting, history, faults>>

------------------------------------------------------------------------------

Init ==
  /\ job = [r \in Runs |-> NoJob]
  /\ run = [r \in Runs |-> "ABSENT"]
  /\ worker = [p \in Procs |-> IdleWorker]
  /\ lane = [p \in Procs |-> IdleLane]
  /\ queue = [p \in Procs |-> << >>]
  /\ mode = [p \in Procs |-> "down"]
  /\ recovery = [p \in Procs |-> [run |-> NoRun, seen |-> "ABSENT"]]
  /\ passed = [p \in Procs |-> 0]
  /\ aborting = [p \in Procs |-> NoRun]
  /\ started = [r \in Runs |-> 0]
  /\ parked = {}
  /\ dropped = {}
  /\ stalls = 0
  /\ outages = 0

StageEnds(p) == StageDone(p) \/ StageAborted(p) \/ StageFails(p)

WorkerStep(p) ==
  \/ Begin(p) \/ StageEnds(p)
  \/ Mark(p) \/ HandOff(p)
  \/ Finalize(p) \/ CancelRun(p) \/ CancelJob(p)

LaneStep(p) ==
  \/ RenderStart(p) \/ RenderProgress(p) \/ RenderAborted(p) \/ RenderFails(p)
  \/ RenderDone(p) \/ RenderCommit(p)

RequestStep(p) ==
  \/ Submit(p) \/ RejectSubmission(p) \/ AbortWrite(p) \/ AbortRaises(p)
  \/ \E r \in Runs :
       \/ CreateRun(p, r) \/ DeleteRun(p, r)
       \/ AbortActive(p, r) \/ AbortSignalled(p, r) \/ AbortRead(p, r)

RestartStep(p) == Exit(p) \/ RecoverLook(p) \/ RecoverSettle(p)

Next ==
  \/ \E p \in Procs :
       \/ RequestStep(p) \/ WorkerStep(p) \/ LaneStep(p) \/ RestartStep(p)
       \/ \E r \in Runs : Claim(p, r)
       \/ WatchDeadline(p) \/ HeartbeatFails(p)
       \/ Shutdown(p) \/ Crash(p)
  \/ \E r \in Runs : LeaseRunsOut(r) \/ LeaseOutlivesStall(r)

Spec == Init /\ [][Next]_vars

\* The poll loop, the worker and the render lane keep going (every LLM request
\* has a timeout), leases run out, and a process that is down is brought back
\* (compose.yaml: restart: unless-stopped).
Fairness ==
  /\ \A p \in Procs : /\ WF_vars(WorkerStep(p)) /\ WF_vars(LaneStep(p))
                      /\ WF_vars(RestartStep(p))
                      /\ WF_vars(\E r \in Runs : Claim(p, r))
  /\ \A r \in Runs : WF_vars(LeaseRunsOut(r))

FairSpec == Spec /\ Fairness
------------------------------------------------------------------------------
(* Safety *)

TypeOK ==
  /\ job \in [Runs -> JobRow]
  /\ run \in [Runs -> RunRow]
  /\ worker \in [Procs -> WorkerState]
  /\ lane \in [Procs -> LaneState]
  /\ queue \in [Procs -> Seq(Runs)]
  /\ mode \in [Procs -> {"down", "recovering", "up", "stopping"}]
  /\ recovery \in [Procs -> [run : Runs \cup {NoRun}, seen : RunRow]]
  /\ passed \in [Procs -> Nat]
  /\ aborting \in [Procs -> Runs \cup {NoRun}]
  /\ started \in [Runs -> Nat]
  /\ parked \in SUBSET Runs
  /\ dropped \in SUBSET Runs
  /\ stalls \in Nat
  /\ outages \in Nat

\* At most one run holds the trading account, however many submissions passed
\* create_run's checks before the first of them committed (active_guard).
OneActiveJob == \A r, s \in Runs : Active(r) /\ Active(s) => r = s

\* A run's stage is started at most once in its life, so no order is sent
\* twice: not by a worker that reclaims an expired lease, not after a crash,
\* not by a restarted process (_claim_and_execute_one, "not_replayed").
NoReplay == \A r \in Runs : started[r] <= 1

\* Once somebody else took a run's job over, the worker that lost it can no
\* longer finish the run: it ends FAILED or ABORTED (save_fenced).
ReclaimedNeverSucceeds ==
  [][\A r \in Runs :
       run[r] = "RUNNING" /\ job[r].attempt > 1
         => run'[r] \in {"RUNNING", "FAILED", "ABORTED"}]_vars

\* A cancellation that was accepted wins over a stage that returns at the same
\* moment: the run is neither completed nor parked, and a job asked to cancel
\* becomes COMPLETED only for a run that was completed before (request_cancel,
\* require_leased).
CancelWins ==
  [][\A r \in Runs : job[r].status = "CANCEL_REQUESTED" =>
       /\ Running(r) => run'[r] \in {run[r], "FAILED", "ABORTED"}
       /\ job'[r].status = "COMPLETED" => run[r] = "COMPLETED"]_vars

\* The outcome of a run is written once: neither a late abort, nor a stalled
\* worker, nor a render that outlived its run, nor a restart rewrites it
\* (summary_worker.py:112 on the render's unfenced write: nothing else writes
\* the row).
OutcomeIsFinal ==
  [][\A r \in Runs :
       run[r] \in Settled => run'[r] \in {run[r], "DELETED"}]_vars

\* summary_worker.py:24 on what the lease design exists to prevent: two runs
\* trading at once.  At most one worker is inside a stage that can place or
\* cancel orders, also when an owner was held up past its lease.
OneRunTrades ==
  \A p, q \in Procs :
    worker[p].pc = "running" /\ worker[q].pc = "running" => p = q

\* While no owner was held up past its lease, two runs never trade at the same
\* time: the unique guard, the leases and the cancellation keep the stages that
\* can place or cancel orders apart, across processes, crashes and restarts.
TradesApart == stalls = 0 => OneRunTrades

\* A job's final status and its run's agree.  A run that parked may still be
\* on its way to its own outcome, and a cancelled job may close a run that had
\* already ended.  What waits for the render lane, or is being rendered, has
\* let go of the account (_execute hands over only after the job's commit).
JobAgrees ==
  /\ \A r \in Runs :
       /\ job[r].status = "COMPLETED" => run[r] = "COMPLETED" \/ r \in parked
       /\ job[r].status \in {"FAILED", "INTERRUPTED"} => run[r] = "FAILED"
       /\ job[r].status = "PENDING" => run[r] = "RUNNING"
  /\ \A p \in Procs, r \in Runs :
       lane[p].run = r \/ (\E i \in 1..Len(queue[p]) : queue[p][i] = r)
         => ~Active(r)

\* No run is left holding the account without a job that will let go of it:
\* such a run would refuse every submission until somebody aborts it by hand.
NoOrphan == \A r \in Runs : AccountBound(r) => Active(r)

------------------------------------------------------------------------------
(* Liveness, under FairSpec *)

\* The account is always released again: after a crash, a shutdown, a stall or
\* a lost lease, and whatever was requested meanwhile.
AccountReleased == \A r \in Runs : Active(r) ~> ~Active(r)

\* An accepted cancellation ends the run, also when the process that executed
\* it died and another has to apply it.
CancelHonoured ==
  \A r \in Runs : job[r].status = "CANCEL_REQUESTED" ~> ~Running(r)

\* A parked run does not stay "running" forever: it is rendered, falls back to
\* Markdown, or is settled by the next start.  Only a run the full queue turned
\* away stays parked for as long as its process lives, and no longer than that
\* (SummaryWorker.submit: startup recovery will close it out).
ParkedSettles ==
  \A r \in Runs :
    /\ run[r] = "SUMMARY" ~> run[r] # "SUMMARY" \/ r \in dropped
    /\ run[r] = "SUMMARY" /\ (\E p \in Procs : mode[p] = "down")
         ~> run[r] # "SUMMARY"

------------------------------------------------------------------------------
(* What the repository says of the program and the code does not do *)

\* test_run_app_service.py:872 on a run that is still RUNNING though its job is
\* closed and nobody here holds a signal for it: abort_run ends it.
AbortEndsOrphans ==
  [][\A p \in Procs, r \in Runs :
       aborting[p] = r /\ aborting'[p] # r /\ mode'[p] = "up" => ~Running(r)']_vars

\* orchestration.py:87 on a parked run: a crash costs the HTML and nothing
\* else, so a run whose Markdown is saved is not FAILED because the process or
\* the lease was lost before its job was closed.
CrashCostsOnlyHtml ==
  [][\A r \in Runs : run[r] = "SUMMARY" /\ Active(r) => run'[r] # "FAILED"]_vars

\* app_factory.py:131 on start-up recovery: it settles orphan or expired runs,
\* so a run that has ended keeps the status it ended with.
RecoveryLeavesEndedRuns ==
  [][\A p \in Procs, r \in Runs :
       mode[p] = "recovering" /\ mode'[p] = "up" /\ run[r] \in Settled
         => run'[r] = run[r]]_vars

------------------------------------------------------------------------------
(* Refinement *)

\* The phase of a run in AccountLane: who holds the account is read off the
\* job row, what is still owed off the run row.
lanePhase ==
  [r \in Runs |->
     CASE run[r] = "ABSENT"  -> "unborn"
       [] run[r] = "DELETED" -> "gone"
       [] Active(r)          -> "held"
       [] ~Active(r) /\ Running(r) -> "parked"
       [] OTHER              -> "settled"]

Lane == INSTANCE AccountLane WITH phase <- lanePhase

\* The job table, its leases, its workers and its recovery implement the one
\* account that AccountLane describes.
LaneSpec == Lane!Spec
==============================================================================
