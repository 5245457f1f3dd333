---------------------------- MODULE RunJobsProofs ----------------------------
(***************************************************************************)
(* Proofs about RunJobs for every set of runs, every set of processes and  *)
(* every value of the bounds: type correctness, OneActiveJob and NoReplay. *)
(*                                                                         *)
(* TypeOK needs to know besides that whoever is at work is at work on a    *)
(* run (TypeInv).  NoReplay is not inductive either: Inv adds why a stage  *)
(* is started only once.  A job is sent to its stage only at its first     *)
(* claim, a PENDING job was never claimed, and between that claim and the  *)
(* start of the stage exactly one worker is on the way.                    *)
(*                                                                         *)
(* All but three actions are Calm: they start nothing and put no job and   *)
(* no worker back to an earlier phase.  Only CreateRun, Claim and Begin    *)
(* need an argument of their own.                                          *)
(***************************************************************************)
EXTENDS RunJobs, TLAPS

------------------------------------------------------------------------------
(* The invariant *)

\* A status that leaves the job without an owner.
ClosedStatus == TerminalStatus \cup {"NONE"}

StoreOK ==
  /\ job \in [Runs -> JobRow]
  /\ run \in [Runs -> RunRow]

WorkersOK ==
  /\ worker \in [Procs -> WorkerState]
  /\ \A p \in Procs : worker[p].pc # "idle" => worker[p].run \in Runs

LaneOK ==
  /\ lane \in [Procs -> LaneState]
  /\ \A p \in Procs : lane[p].pc # "idle" => lane[p].run \in Runs

MemoryOK ==
  /\ queue \in [Procs -> Seq(Runs)]
  /\ mode \in [Procs -> {"down", "recovering", "up", "stopping"}]
  /\ recovery \in [Procs -> [run : Runs \cup {NoRun}, seen : RunRow]]
  /\ passed \in [Procs -> Nat]
  /\ aborting \in [Procs -> Runs \cup {NoRun}]

CountsOK ==
  /\ started \in [Runs -> Nat]
  /\ parked \in SUBSET Runs
  /\ dropped \in SUBSET Runs
  /\ stalls \in Nat
  /\ outages \in Nat

TypeInv == StoreOK /\ WorkersOK /\ LaneOK /\ MemoryOK /\ CountsOK

\* A run without a row has no job and was never started.
FreshRuns ==
  \A r \in Runs : run[r] = "ABSENT" => ~Active(r) /\ started[r] = 0

\* A pending job was never claimed, a claimed one was.
ClaimsCounted ==
  \A r \in Runs :
    /\ job[r].status = "PENDING" => job[r].attempt = 0 /\ started[r] = 0
    /\ job[r].status \in ClaimedStatus => job[r].attempt > 0

\* A worker on its way to a stage is the only one that will ever get there.
OneStarter ==
  /\ \A p \in Procs : worker[p].pc = "starting" =>
       /\ started[worker[p].run] = 0
       /\ run[worker[p].run] # "ABSENT"
       /\ job[worker[p].run].status # "PENDING"
  /\ \A p, q \in Procs :
       /\ worker[p].pc = "starting" /\ worker[q].pc = "starting"
       /\ worker[p].run = worker[q].run
       => p = q

Inv == /\ TypeInv
       /\ OneActiveJob
       /\ FreshRuns
       /\ ClaimsCounted
       /\ OneStarter
       /\ NoReplay

\* What every step but CreateRun, Claim and Begin does at most.
CalmStore ==
  \A r \in Runs :
    /\ run'[r] = "ABSENT" => run[r] = "ABSENT"
    /\ job'[r].status = "PENDING" => job[r].status = "PENDING"
    /\ job'[r].status \in ClaimedStatus => job[r].status \in ClaimedStatus
    /\ job'[r].status \in ActiveStatus => job'[r].attempt = job[r].attempt

NoneSent ==
  \A p \in Procs : worker'[p].pc = "starting" =>
    worker[p].pc = "starting" /\ worker'[p].run = worker[p].run

Calm == CalmStore /\ NoneSent /\ started' = started

------------------------------------------------------------------------------
(* Writing a worker's state, closing a job *)

\* Putting a well-formed state in place of one worker's keeps them all so.
LEMMA WorkerPut ==
  ASSUME WorkersOK, NEW p \in Procs, NEW w \in WorkerState,
         w.pc # "idle" => w.run \in Runs,
         worker' = [worker EXCEPT ![p] = w]
  PROVE  WorkersOK'
  BY DEF WorkersOK

\* A worker that lets go of its run is idle, and not on its way to a stage.
LEMMA PutIdle ==
  ASSUME WorkersOK, NEW p \in Procs,
         worker' = [worker EXCEPT ![p] = IdleWorker]
  PROVE  WorkersOK' /\ NoneSent
<1>1. IdleWorker \in WorkerState /\ IdleWorker.pc = "idle"
  BY DEF WorkerState, IdleWorker, WorkerPC
<1> QED BY <1>1, WorkerPut DEF WorkersOK, NoneSent

\* A worker that goes on with the same run, to any step but "starting".
LEMMA PutNext ==
  ASSUME WorkersOK, NEW p \in Procs, NEW w \in WorkerState,
         worker[p].pc # "idle",
         w.run = worker[p].run,
         w.pc = "starting" => worker[p].pc = "starting",
         worker' = [worker EXCEPT ![p] = w]
  PROVE  WorkersOK' /\ NoneSent
<1>1. w.pc # "idle" => w.run \in Runs
  BY DEF WorkersOK
<1> QED BY <1>1, WorkerPut DEF WorkersOK, NoneSent

\* The same, when only pc changes.
LEMMA PutPc ==
  ASSUME WorkersOK, NEW p \in Procs, worker[p].pc # "idle",
         NEW c \in WorkerPC, c # "starting",
         worker' = [worker EXCEPT ![p].pc = c]
  PROVE  WorkersOK' /\ NoneSent
<1> DEFINE w == [worker[p] EXCEPT !.pc = c]
<1>1. w \in WorkerState /\ w.run = worker[p].run /\ w.pc = c
  BY DEF WorkersOK, WorkerState
<1>2. worker' = [worker EXCEPT ![p] = w]
  BY DEF WorkersOK
<1> HIDE DEF w
<1> QED BY <1>1, <1>2, PutNext

\* The same, for a worker that turns to _finalize_execution.
LEMMA PutEnd ==
  ASSUME WorkersOK, NEW p \in Procs, worker[p].pc # "idle",
         NEW e \in {"CANCELLED", "FAILED", "INTERRUPTED"},
         ToFinalize(p, e)
  PROVE  WorkersOK' /\ NoneSent
<1> DEFINE w == [worker[p] EXCEPT !.pc = "finalizing", !.end = e]
<1>1. w \in WorkerState /\ w.run = worker[p].run /\ w.pc = "finalizing"
  BY DEF WorkersOK, WorkerState, WorkerPC
<1>2. worker' = [worker EXCEPT ![p] = w]
  BY DEF WorkersOK, ToFinalize
<1> HIDE DEF w
<1> QED BY <1>1, <1>2, PutNext

\* The same, for a worker whose abort signal is raised.
LEMMA PutSig ==
  ASSUME WorkersOK, NEW p \in Procs, worker[p].pc # "idle",
         worker' = [worker EXCEPT ![p].sig = TRUE]
  PROVE  WorkersOK' /\ NoneSent
<1> DEFINE w == [worker[p] EXCEPT !.sig = TRUE]
<1>1. w \in WorkerState /\ w.run = worker[p].run /\ w.pc = worker[p].pc
  BY DEF WorkersOK, WorkerState
<1>2. worker' = [worker EXCEPT ![p] = w]
  BY DEF WorkersOK
<1> HIDE DEF w
<1> QED BY <1>1, <1>2, PutNext

\* Close gives the job a final status and leaves the other jobs alone.
LEMMA CloseOK ==
  ASSUME StoreOK, NEW r \in Runs, NEW s \in ClosedStatus, Close(r, s)
  PROVE  /\ job' \in [Runs -> JobRow]
         /\ job'[r].status \notin ActiveStatus
         /\ \A q \in Runs \ {r} : job'[q] = job[q]
  BY DEF StoreOK, Close, JobRow, ClosedStatus, TerminalStatus, ActiveStatus

\* SetRun writes a well-formed row and makes no row ABSENT.
LEMMA SetRunOK ==
  ASSUME StoreOK, NEW r \in Runs, NEW s \in RunRow \ {"ABSENT"}, SetRun(r, s)
  PROVE  /\ run' \in [Runs -> RunRow]
         /\ \A q \in Runs : run'[q] = "ABSENT" => run[q] = "ABSENT"
  BY DEF StoreOK, SetRun

\* So does WriteUnfenced, which may also write nothing.
LEMMA WriteUnfencedOK ==
  ASSUME StoreOK, NEW r \in Runs, NEW s \in Settled \cup {"SUMMARY"}, WriteUnfenced(r, s)
  PROVE  /\ run' \in [Runs -> RunRow]
         /\ \A q \in Runs : run'[q] = "ABSENT" => run[q] = "ABSENT"
<1>1. s \in RunRow \ {"ABSENT"}
  BY DEF Settled, RunRow
<1> QED BY <1>1, SetRunOK DEF WriteUnfenced, StoreOK

------------------------------------------------------------------------------
(* Workers *)

\* _execute goes on with the stage, gives up, or finalizes.
LEMMA BeginWorkers ==
  ASSUME WorkersOK, NEW p \in Procs, Begin(p)
  PROVE  WorkersOK' /\ NoneSent
<1> DEFINE w == [worker[p] EXCEPT !.pc = "running", !.sig = FALSE]
<1>1. worker[p].pc = "starting"
  BY DEF Begin
<1>2. CASE worker' = [worker EXCEPT ![p].pc = "running", ![p].sig = FALSE]
  <2>1. w \in WorkerState /\ w.run = worker[p].run /\ w.pc = "running"
    BY DEF WorkersOK, WorkerState, WorkerPC
  <2>2. worker' = [worker EXCEPT ![p] = w]
    BY <1>2 DEF WorkersOK
  <2> HIDE DEF w
  <2> QED BY <1>1, <2>1, <2>2, PutNext
<1> QED BY <1>1, <1>2, PutIdle, PutPc, PutEnd DEF Begin, WorkerPC

\* A new claim puts the worker to work on the claimed run.
LEMMA ClaimWorkers ==
  ASSUME WorkersOK, NEW p \in Procs, NEW r \in Runs, Claim(p, r), StoreOK
  PROVE  /\ WorkersOK'
         /\ \A q \in Procs \ {p} : worker'[q] = worker[q]
         /\ worker'[p].run = r /\ worker'[p].pc \in Dispatch(r)
<1>1. PICK pc \in Dispatch(r) :
        worker' = [worker EXCEPT ![p] =
            [pc |-> pc, run |-> r, token |-> job[r].attempt + 1, lost |-> FALSE,
             sig |-> FALSE,
             end |-> IF pc = "finalizing" THEN "INTERRUPTED" ELSE "NONE"]]
  BY DEF Claim
<1> DEFINE w == [pc |-> pc, run |-> r, token |-> job[r].attempt + 1,
                 lost |-> FALSE, sig |-> FALSE,
                 end |-> IF pc = "finalizing" THEN "INTERRUPTED" ELSE "NONE"]
<1>2. w \in WorkerState /\ w.run = r /\ w.pc = pc
  BY DEF WorkerState, WorkerPC, Dispatch, StoreOK, JobRow
<1>3. worker' = [worker EXCEPT ![p] = w]
  BY <1>1
<1> HIDE DEF w
<1>4. WorkersOK'
  BY <1>2, <1>3, WorkerPut
<1> QED BY <1>2, <1>3, <1>4 DEF WorkersOK

\* Every step but a claim leaves well-formed workers and sends none of them to
\* a stage.
LEMMA WorkersStep ==
  ASSUME WorkersOK, [Next]_vars
  PROVE  \/ WorkersOK' /\ NoneSent
         \/ \E p \in Procs, r \in Runs : Claim(p, r)
<1>1. ASSUME UNCHANGED worker
       PROVE  WorkersOK' /\ NoneSent
  BY <1>1 DEF WorkersOK, NoneSent
<1>2. ASSUME NEW p \in Procs, Begin(p)
       PROVE  WorkersOK' /\ NoneSent
  BY <1>2, BeginWorkers
<1>3. ASSUME NEW p \in Procs, StageDone(p)
       PROVE  WorkersOK' /\ NoneSent
  BY <1>3, PutPc, PutEnd DEF StageDone, WorkerPC
<1>4. ASSUME NEW p \in Procs, StageAborted(p) \/ StageFails(p)
       PROVE  WorkersOK' /\ NoneSent
  BY <1>4, PutEnd DEF StageAborted, StageFails, StageUnwinds
<1>5. ASSUME NEW p \in Procs, Mark(p)
       PROVE  WorkersOK' /\ NoneSent
  <2>1. worker[p].pc # "idle"
    BY <1>5 DEF Mark
  <2>2. CASE worker' = [worker EXCEPT ![p] = [@ EXCEPT !.pc = "handoff"]]
    <3>1. worker' = [worker EXCEPT ![p].pc = "handoff"]
      BY <2>2 DEF WorkersOK
    <3> QED BY <2>1, <3>1, PutPc DEF WorkerPC
  <2>3. CASE worker' = [worker EXCEPT ![p] = IdleWorker]
    BY <2>3, PutIdle
  <2>4. CASE ToFinalize(p, "FAILED") \/ ToFinalize(p, "CANCELLED")
    BY <2>1, <2>4, PutEnd
  <2> QED BY <1>5, <2>2, <2>3, <2>4 DEF Mark
<1>6. ASSUME NEW p \in Procs, HandOff(p) \/ Finalize(p) \/ CancelJob(p)
       PROVE  WorkersOK' /\ NoneSent
  BY <1>6, PutIdle DEF HandOff, Finalize, CancelJob
<1>7. ASSUME NEW p \in Procs, CancelRun(p)
       PROVE  WorkersOK' /\ NoneSent
  BY <1>7, PutIdle, PutPc DEF CancelRun, WorkerPC
<1>8. ASSUME NEW p \in Procs, Exit(p) \/ Crash(p)
       PROVE  WorkersOK' /\ NoneSent
  BY <1>8, PutIdle DEF Exit, Crash, Vanish
<1>9. ASSUME NEW p \in Procs, NEW r \in Runs, AbortActive(p, r)
       PROVE  WorkersOK' /\ NoneSent
  BY <1>9, PutSig DEF AbortActive, Executes, WorkersOK, NoneSent
<1>10. ASSUME NEW p \in Procs, NEW r \in Runs, AbortSignalled(p, r)
       PROVE  WorkersOK' /\ NoneSent
  BY <1>10, PutSig DEF AbortSignalled, Executes, WorkersOK, NoneSent
<1>11. ASSUME NEW p \in Procs, WatchDeadline(p)
       PROVE  WorkersOK' /\ NoneSent
  BY <1>11, PutSig DEF WatchDeadline
<1>12. ASSUME NEW p \in Procs, HeartbeatFails(p)
       PROVE  WorkersOK' /\ NoneSent
  <2> DEFINE w == [worker[p] EXCEPT !.lost = TRUE, !.sig = TRUE]
  <2>1. w \in WorkerState /\ w.run = worker[p].run /\ w.pc = worker[p].pc
    BY DEF WorkersOK, WorkerState
  <2>2. worker' = [worker EXCEPT ![p] = w] /\ worker[p].pc # "idle"
    BY <1>12 DEF WorkersOK, HeartbeatFails
  <2> HIDE DEF w
  <2> QED BY <2>1, <2>2, PutNext
<1> QED
  BY ZenonT(30), <1>1, <1>2, <1>3, <1>4, <1>5, <1>6, <1>7, <1>8, <1>9, <1>10, <1>11, <1>12
  DEF Next, RequestStep, WorkerStep, StageEnds, LaneStep, RestartStep,
      Submit, RejectSubmission, AbortWrite, AbortRaises, CreateRun, DeleteRun, AbortRead, RenderStart, RenderProgress, RenderAborted, RenderFails, RenderUnwinds, RenderDone, RenderCommit, RecoverLook, RecoverSettle, Shutdown, LeaseRunsOut, LeaseOutlivesStall, vars

------------------------------------------------------------------------------
(* The two tables *)

\* Closing one job, writing its run's row or leaving it.
LEMMA CloseRunOK ==
  ASSUME StoreOK, NEW r \in Runs, NEW e \in ClosedStatus, Close(r, e),
         \/ UNCHANGED run
         \/ \E s \in RunRow \ {"ABSENT"} : SetRun(r, s)
  PROVE  StoreOK' /\ CalmStore
<1>1. /\ run' \in [Runs -> RunRow]
      /\ \A q \in Runs : run'[q] = "ABSENT" => run[q] = "ABSENT"
  BY SetRunOK DEF StoreOK
<1> QED BY <1>1, CloseOK DEF StoreOK, CalmStore, ActiveStatus, ClaimedStatus

\* Writing one run's row, or nothing.
LEMMA RunOnlyOK ==
  ASSUME StoreOK, NEW r \in Runs, NEW s \in RunRow \ {"ABSENT"}, UNCHANGED job,
         SetRun(r, s) \/ UNCHANGED run
  PROVE  StoreOK' /\ CalmStore
  BY SetRunOK DEF StoreOK, CalmStore

\* Every step but a claim and the creation of a run leaves both tables
\* well-formed and moves no job and no run back.
LEMMA StoreStep ==
  ASSUME StoreOK, WorkersOK, LaneOK, MemoryOK, [Next]_vars
  PROVE  \/ StoreOK' /\ CalmStore
         \/ \E p \in Procs, r \in Runs : CreateRun(p, r) \/ Claim(p, r)
<1>1. ASSUME UNCHANGED store
       PROVE  StoreOK' /\ CalmStore
  BY <1>1 DEF store, StoreOK, CalmStore
<1>2. ASSUME NEW p \in Procs, NEW r \in Runs, DeleteRun(p, r)
       PROVE  StoreOK' /\ CalmStore
  BY <1>2 DEF DeleteRun, StoreOK, CalmStore, NoJob, JobRow, RunRow, ActiveStatus, ClaimedStatus
<1>3. ASSUME NEW p \in Procs, NEW r \in Runs, AbortActive(p, r)
       PROVE  StoreOK' /\ CalmStore
  <2>1. CASE job[r].status = "PENDING"
    <3>1. Close(r, "CANCELLED") /\ (SetRun(r, "ABORTED") \/ UNCHANGED run)
      BY <1>3, <2>1 DEF AbortActive
    <3> QED BY <3>1, CloseRunOK DEF RunRow, ClosedStatus, TerminalStatus
  <2>2. CASE job[r].status # "PENDING"
    BY <1>3, <2>2 DEF AbortActive, Active, ActiveStatus, ClaimedStatus, StoreOK,
                     CalmStore, JobRow
  <2> QED BY <2>1, <2>2
<1>4. ASSUME NEW p \in Procs, StageDone(p)
       PROVE  StoreOK' /\ CalmStore
  <2> DEFINE s == IF worker[p].run \in Watches THEN "COMPLETED" ELSE "SUMMARY"
  <2>1. worker[p].run \in Runs /\ s \in RunRow \ {"ABSENT"}
    BY <1>4 DEF StageDone, WorkersOK, RunRow
  <2>2. UNCHANGED job /\ (SetRun(worker[p].run, s) \/ UNCHANGED run)
    BY <1>4 DEF StageDone
  <2> QED BY <2>1, <2>2, RunOnlyOK
<1>5. ASSUME NEW p \in Procs, StageAborted(p) \/ StageFails(p)
       PROVE  StoreOK' /\ CalmStore
  <2>1. worker[p].run \in Runs
    BY <1>5 DEF StageAborted, StageFails, StageUnwinds, WorkersOK
  <2>2. PICK s \in {"ABORTED", "FAILED"} :
          UNCHANGED job /\ (SetRun(worker[p].run, s) \/ UNCHANGED run)
    BY <1>5 DEF StageAborted, StageFails, StageUnwinds
  <2> QED BY <2>1, <2>2, RunOnlyOK DEF RunRow
<1>6. ASSUME NEW p \in Procs, Mark(p)
       PROVE  StoreOK' /\ CalmStore
  <2>1. worker[p].run \in Runs
    BY <1>6 DEF Mark, WorkersOK
  <2>2. UNCHANGED run /\ (Close(worker[p].run, "COMPLETED") \/ UNCHANGED job)
    BY <1>6 DEF Mark
  <2> QED BY <2>1, <2>2, CloseRunOK DEF ClosedStatus, TerminalStatus, StoreOK, CalmStore
<1>7. ASSUME NEW p \in Procs, Finalize(p)
       PROVE  StoreOK' /\ CalmStore
  <2>1. worker[p].run \in Runs /\ worker[p].end \in ClosedStatus
    BY <1>7 DEF Finalize, WorkersOK, WorkerState, ClosedStatus, TerminalStatus
  <2>2. CASE FinalizeWrites(p)
    <3>1. CASE Running(worker[p].run)
      <4> DEFINE end == IF job[worker[p].run].status = "CANCEL_REQUESTED"
                        THEN "CANCELLED" ELSE worker[p].end
                 s == IF end = "CANCELLED" THEN "ABORTED" ELSE "FAILED"
      <4>1. SetRun(worker[p].run, s) /\ Close(worker[p].run, end)
        BY <2>2, <3>1 DEF FinalizeWrites
      <4>2. s \in RunRow \ {"ABSENT"} /\ end \in ClosedStatus
        BY <2>1 DEF RunRow, ClosedStatus, TerminalStatus
      <4> HIDE DEF end, s
      <4> QED BY <2>1, <4>1, <4>2, CloseRunOK
    <3>2. CASE ~Running(worker[p].run)
      <4>1. PICK e \in ClosedStatus :
              UNCHANGED run /\ Close(worker[p].run, e)
        BY <2>1, <2>2, <3>2
        DEF FinalizeWrites, ClosedStatus, TerminalStatus, JobStatusFor, Settled
      <4> QED BY <2>1, <4>1, CloseRunOK
    <3> QED BY <3>1, <3>2
  <2> QED BY <1>7, <2>2 DEF Finalize, store, StoreOK, CalmStore
<1>8. ASSUME NEW p \in Procs, CancelRun(p)
       PROVE  StoreOK' /\ CalmStore
  <2>1. worker[p].run \in Runs
    BY <1>8 DEF CancelRun, WorkersOK
  <2>2. UNCHANGED job /\ (SetRun(worker[p].run, "ABORTED") \/ UNCHANGED run)
    BY <1>8 DEF CancelRun
  <2> QED BY <2>1, <2>2, RunOnlyOK DEF RunRow
<1>9. ASSUME NEW p \in Procs, CancelJob(p)
       PROVE  StoreOK' /\ CalmStore
  <2>1. worker[p].run \in Runs
    BY <1>9 DEF CancelJob, WorkersOK
  <2>2. UNCHANGED run /\ (Close(worker[p].run, "CANCELLED") \/ UNCHANGED job)
    BY <1>9 DEF CancelJob
  <2> QED BY <2>1, <2>2, CloseRunOK DEF ClosedStatus, TerminalStatus, StoreOK, CalmStore
<1>10. ASSUME NEW p \in Procs, AbortWrite(p)
       PROVE  StoreOK' /\ CalmStore
  <2>1. aborting[p] \in Runs /\ "ABORTED" \in Settled \cup {"SUMMARY"}
    BY <1>10 DEF AbortWrite, MemoryOK, Settled
  <2>2. UNCHANGED job /\ WriteUnfenced(aborting[p], "ABORTED")
    BY <1>10 DEF AbortWrite
  <2> QED BY <2>1, <2>2, WriteUnfencedOK DEF StoreOK, CalmStore
<1>11. ASSUME NEW p \in Procs, \/ RenderAborted(p) \/ RenderFails(p)
                              \/ RenderCommit(p) \/ RenderProgress(p)
       PROVE  StoreOK' /\ CalmStore
  <2>1. lane[p].run \in Runs
    BY <1>11 DEF RenderAborted, RenderFails, RenderUnwinds, RenderCommit,
               RenderProgress, LaneOK
  <2>2. PICK s \in Settled \cup {"SUMMARY"} :
          UNCHANGED job /\ (WriteUnfenced(lane[p].run, s) \/ UNCHANGED run)
    BY <1>11 DEF RenderAborted, RenderFails, RenderUnwinds, RenderCommit,
               RenderProgress, LaneWrites, Settled
  <2> QED BY <2>1, <2>2, WriteUnfencedOK DEF StoreOK, CalmStore
<1>12. ASSUME NEW p \in Procs, RecoverSettle(p)
       PROVE  StoreOK' /\ CalmStore
  <2> DEFINE z == recovery[p].run
             blocked == BlocksRecovery(z)
  <2>1. CASE blocked
    BY <1>12, <2>1 DEF RecoverSettle, StoreOK, CalmStore
  <2>2. CASE ~blocked
    <3>1. \A r \in Runs : run'[r] \in {run[r], "COMPLETED", "FAILED"}
      BY <1>12, <2>2 DEF RecoverSettle
    <3>2. \A r \in Runs :
            job'[r] \in {job[r], [status |-> "INTERRUPTED",
                                  attempt |-> job[r].attempt + 1,
                                  token |-> 0, live |-> FALSE]}
      BY <1>12, <2>2 DEF RecoverSettle
    <3>3. run' = [r \in Runs |-> run'[r]] /\ job' = [r \in Runs |-> job'[r]]
      BY <1>12, <2>2 DEF RecoverSettle
    <3>4. run' \in [Runs -> RunRow]
      BY <3>1, <3>3 DEF StoreOK, RunRow
    <3>5. \A r \in Runs : job'[r] \in JobRow
      <4> TAKE r \in Runs
      <4>1. CASE job'[r] = job[r]
        BY <4>1 DEF StoreOK
      <4>2. CASE job'[r] # job[r]
        <5>1. job[r].attempt + 1 \in Nat
          BY DEF StoreOK, JobRow
        <5>2. job'[r] = [status |-> "INTERRUPTED", attempt |-> job[r].attempt + 1,
                         token |-> 0, live |-> FALSE]
          BY <3>2, <4>2
        <5> QED BY <5>1, <5>2 DEF JobRow, TerminalStatus
      <4> QED BY <4>1, <4>2
    <3>6. CalmStore
      BY <3>1, <3>2 DEF CalmStore, ActiveStatus, ClaimedStatus
    <3> HIDE DEF z, blocked
    <3> QED BY <3>3, <3>4, <3>5, <3>6 DEF StoreOK
  <2> QED BY <2>1, <2>2
<1>13. ASSUME NEW r \in Runs, LeaseRunsOut(r) \/ LeaseOutlivesStall(r)
       PROVE  StoreOK' /\ CalmStore
  <2>1. Expire(r) /\ UNCHANGED run
    BY <1>13 DEF LeaseRunsOut, LeaseOutlivesStall
  <2>2. job' \in [Runs -> JobRow]
    BY <2>1 DEF Expire, StoreOK, JobRow
  <2>3. \A q \in Runs : /\ job'[q].status = job[q].status
                        /\ job'[q].attempt = job[q].attempt
    BY <2>1 DEF Expire, StoreOK, JobRow
  <2> QED BY <2>1, <2>2, <2>3 DEF StoreOK, CalmStore
<1> QED
  BY ZenonT(60), <1>1, <1>2, <1>3, <1>4, <1>5, <1>6, <1>7, <1>8, <1>9, <1>10, <1>11, <1>12, <1>13
  DEF Next, RequestStep, WorkerStep, StageEnds, LaneStep, RestartStep, vars,
      store, Submit, RejectSubmission, AbortSignalled, AbortRead, AbortRaises, Begin, HandOff,
      RenderStart, RenderDone, Exit, RecoverLook, WatchDeadline,
      HeartbeatFails, Shutdown, Crash

------------------------------------------------------------------------------
(* What a process holds in memory, and the counters *)

\* The render lane only ever renders a run.
LEMMA LaneStepOK ==
  ASSUME LaneOK, MemoryOK, [Next]_vars
  PROVE  LaneOK'
<1>1. ASSUME UNCHANGED lane
       PROVE  LaneOK'
  BY <1>1 DEF LaneOK
<1>2. ASSUME NEW p \in Procs, NEW r \in Runs, AbortSignalled(p, r)
       PROVE  LaneOK'
  <2> DEFINE w == [lane[p] EXCEPT !.sig = TRUE]
  <2>1. w \in LaneState /\ w.pc = lane[p].pc /\ w.run = lane[p].run
    BY DEF LaneOK, LaneState
  <2>2. lane' = [lane EXCEPT ![p] = w] \/ UNCHANGED lane
    BY <1>2 DEF LaneOK, AbortSignalled
  <2> HIDE DEF w
  <2> QED BY <2>1, <2>2 DEF LaneOK
<1>3. ASSUME NEW p \in Procs, RenderStart(p)
       PROVE  LaneOK'
  <2>1. ASSUME UNCHANGED lane
        PROVE  LaneOK'
    BY <2>1 DEF LaneOK
  <2> DEFINE w == [pc |-> "rendering", run |-> Head(queue[p]), sig |-> FALSE]
  <2>2. w \in LaneState /\ w.run \in Runs
    BY <1>3 DEF LaneState, MemoryOK, RenderStart
  <2>3. lane' = [lane EXCEPT ![p] = w] \/ UNCHANGED lane
    BY <1>3 DEF RenderStart
  <2> HIDE DEF w
  <2> QED BY <2>1, <2>2, <2>3 DEF LaneOK
<1>4. ASSUME NEW p \in Procs, RenderDone(p)
       PROVE  LaneOK'
  <2> DEFINE w == [lane[p] EXCEPT !.pc = "closing", !.sig = FALSE]
  <2>1. w \in LaneState /\ w.run = lane[p].run /\ lane[p].pc # "idle"
    BY <1>4 DEF LaneOK, LaneState, RenderDone
  <2>2. lane' = [lane EXCEPT ![p] = w]
    BY <1>4 DEF LaneOK, RenderDone
  <2> HIDE DEF w
  <2> QED BY <2>1, <2>2 DEF LaneOK
<1>5. ASSUME NEW p \in Procs, \/ RenderAborted(p) \/ RenderFails(p) \/ RenderCommit(p)
                              \/ Exit(p) \/ Crash(p) \/ Shutdown(p)
       PROVE  LaneOK'
  <2>1. IdleLane \in LaneState /\ IdleLane.pc = "idle"
    BY DEF LaneState, IdleLane
  <2>2. lane' = [lane EXCEPT ![p] = IdleLane]
    BY <1>5 DEF RenderAborted, RenderFails, RenderUnwinds, RenderCommit, Exit,
               Crash, Vanish, Shutdown
  <2> QED BY <2>1, <2>2 DEF LaneOK
<1>6. ASSUME NEW p \in Procs, NEW r \in Runs,
             \/ AbortRead(p, r) \/ CreateRun(p, r) \/ DeleteRun(p, r)
             \/ AbortActive(p, r) \/ Claim(p, r)
       PROVE  LaneOK'
  BY <1>6, <1>1 DEF AbortRead, CreateRun, DeleteRun, AbortActive, Claim, local
<1>7. ASSUME NEW p \in Procs,
             \/ Submit(p) \/ RejectSubmission(p) \/ AbortWrite(p) \/ AbortRaises(p) \/ Begin(p)
             \/ StageDone(p) \/ StageAborted(p) \/ StageFails(p) \/ Mark(p)
             \/ HandOff(p) \/ Finalize(p) \/ CancelRun(p) \/ CancelJob(p)
             \/ RecoverLook(p) \/ RecoverSettle(p) \/ WatchDeadline(p)
             \/ HeartbeatFails(p) \/ RenderProgress(p)
       PROVE  LaneOK'
  BY <1>7, <1>1 DEF Submit, RejectSubmission, AbortWrite, AbortRaises, Begin, StageDone,
     StageAborted, StageFails, Mark, HandOff, Finalize, CancelRun, CancelJob,
     RecoverLook, RecoverSettle, WatchDeadline, HeartbeatFails, StageUnwinds,
     RenderProgress, local
<1>8. ASSUME NEW r \in Runs,
             \/ LeaseRunsOut(r) \/ LeaseOutlivesStall(r)
       PROVE  LaneOK'
  BY <1>8, <1>1 DEF LeaseRunsOut, LeaseOutlivesStall, local
<1>9. ASSUME UNCHANGED vars
       PROVE  LaneOK'
  BY <1>9, <1>1 DEF vars
<1> QED
  BY <1>1, <1>2, <1>3, <1>4, <1>5, <1>6, <1>7, <1>8, <1>9
  DEF Next, RequestStep, WorkerStep, StageEnds, LaneStep, RestartStep

\* Queue, mode, recovery and pending requests keep their types.
LEMMA MemoryStep ==
  ASSUME StoreOK, WorkersOK, MemoryOK, [Next]_vars
  PROVE  MemoryOK'
<1>1. ASSUME UNCHANGED <<queue, mode, recovery, passed, aborting>>
       PROVE  MemoryOK'
  BY <1>1 DEF MemoryOK
<1>2. ASSUME NEW p \in Procs, Submit(p)
       PROVE  MemoryOK'
  BY <1>2 DEF MemoryOK, Submit
<1>3. ASSUME NEW p \in Procs, RejectSubmission(p)
       PROVE  MemoryOK'
  BY <1>3 DEF MemoryOK, RejectSubmission
<1>4. ASSUME NEW p \in Procs, NEW r \in Runs, CreateRun(p, r)
       PROVE  MemoryOK'
  BY <1>4 DEF MemoryOK, CreateRun
<1>5. ASSUME NEW p \in Procs, HandOff(p)
       PROVE  MemoryOK'
  BY <1>5 DEF MemoryOK, HandOff, WorkersOK
<1>6. ASSUME NEW p \in Procs, AbortWrite(p) \/ AbortRaises(p)
       PROVE  MemoryOK'
  BY <1>6 DEF MemoryOK, AbortWrite, AbortRaises
<1>7. ASSUME NEW p \in Procs, NEW r \in Runs, AbortRead(p, r)
       PROVE  MemoryOK'
  BY <1>7 DEF MemoryOK, AbortRead
<1>8. ASSUME NEW p \in Procs, RenderStart(p)
       PROVE  MemoryOK'
  BY <1>8 DEF MemoryOK, RenderStart
<1>9. ASSUME NEW p \in Procs, Exit(p) \/ Crash(p)
       PROVE  MemoryOK'
  <2>1. [run |-> NoRun, seen |-> "ABSENT"] \in
          [run : Runs \cup {NoRun}, seen : RunRow]
    BY DEF RunRow
  <2>2. recovery' \in [Procs -> [run : Runs \cup {NoRun}, seen : RunRow]]
    BY ZenonT(40), <1>9, <2>1 DEF MemoryOK, Exit, Crash, Vanish
  <2>3. queue' \in [Procs -> Seq(Runs)]
    <3>1. << >> \in Seq(Runs)
      OBVIOUS
    <3>2. queue' = [queue EXCEPT ![p] = << >>]
      BY <1>9 DEF Exit, Crash, Vanish
    <3> QED BY <3>1, <3>2 DEF MemoryOK
  <2>4. /\ mode' \in [Procs -> {"down", "recovering", "up", "stopping"}]
        /\ passed' \in [Procs -> Nat]
        /\ aborting' \in [Procs -> Runs \cup {NoRun}]
    <3>1. /\ mode' = [mode EXCEPT ![p] = "down"]
          /\ passed' = [passed EXCEPT ![p] = 0]
          /\ aborting' = [aborting EXCEPT ![p] = NoRun]
      BY <1>9 DEF Exit, Crash, Vanish
    <3> QED BY <3>1 DEF MemoryOK
  <2> QED BY <2>2, <2>3, <2>4 DEF MemoryOK
<1>10. ASSUME NEW p \in Procs, Shutdown(p)
       PROVE  MemoryOK'
  BY <1>10 DEF MemoryOK, Shutdown
<1>11. ASSUME NEW p \in Procs, RecoverLook(p)
       PROVE  MemoryOK'
  <2>1. CASE UNCHANGED recovery
    BY <1>11, <2>1 DEF MemoryOK, RecoverLook
  <2>2. CASE \E r \in Runs : recovery' = [recovery EXCEPT ![p] =
                               [run |-> r, seen |-> run[r]]]
    <3>1. PICK r \in Runs : recovery' = [recovery EXCEPT ![p] =
                               [run |-> r, seen |-> run[r]]]
      BY <2>2
    <3>2. [run |-> r, seen |-> run[r]] \in
            [run : Runs \cup {NoRun}, seen : RunRow]
      BY DEF StoreOK
    <3>3. recovery' \in [Procs -> [run : Runs \cup {NoRun}, seen : RunRow]]
      BY <3>1, <3>2 DEF MemoryOK
    <3> QED BY <1>11, <3>3 DEF MemoryOK, RecoverLook
  <2> QED BY <1>11, <2>1, <2>2 DEF RecoverLook
<1>12. ASSUME NEW p \in Procs, RecoverSettle(p)
       PROVE  MemoryOK'
  BY <1>12 DEF MemoryOK, RecoverSettle, RunRow
<1>13. ASSUME NEW p \in Procs, NEW r \in Runs,
              \/ AbortSignalled(p, r) \/ DeleteRun(p, r) \/ AbortActive(p, r)
              \/ Claim(p, r)
       PROVE  MemoryOK'
  BY <1>13, <1>1 DEF AbortSignalled, DeleteRun, AbortActive, Claim, local
<1>14. ASSUME NEW p \in Procs,
              \/ Begin(p) \/ StageDone(p) \/ StageAborted(p) \/ StageFails(p)
              \/ Mark(p) \/ Finalize(p) \/ CancelRun(p) \/ CancelJob(p)
              \/ RenderAborted(p) \/ RenderFails(p) \/ RenderDone(p)
              \/ RenderCommit(p) \/ WatchDeadline(p) \/ HeartbeatFails(p)
              \/ RenderProgress(p)
       PROVE  MemoryOK'
  BY <1>14, <1>1 DEF Begin, StageDone, StageAborted, StageFails, Mark,
     Finalize, CancelRun, CancelJob, RenderAborted, RenderFails, RenderDone,
     RenderCommit, RenderProgress, WatchDeadline, HeartbeatFails, StageUnwinds,
     RenderUnwinds, local
<1>15. ASSUME NEW r \in Runs,
              \/ LeaseRunsOut(r) \/ LeaseOutlivesStall(r)
       PROVE  MemoryOK'
  BY <1>15, <1>1 DEF LeaseRunsOut, LeaseOutlivesStall, local
<1>16. ASSUME UNCHANGED vars
       PROVE  MemoryOK'
  BY <1>16, <1>1 DEF vars
<1> QED
  BY <1>1, <1>2, <1>3, <1>4, <1>5, <1>6, <1>7, <1>8, <1>9, <1>10, <1>11,
     <1>12, <1>13, <1>14, <1>15, <1>16
  DEF Next, RequestStep, WorkerStep, StageEnds, LaneStep, RestartStep

\* Only Begin starts a stage.
LEMMA CountsStep ==
  ASSUME WorkersOK, CountsOK, [Next]_vars
  PROVE  /\ CountsOK'
         /\ started' = started \/ \E p \in Procs : Begin(p)
<1>1. ASSUME UNCHANGED <<started, parked, dropped, stalls, outages>>
       PROVE  CountsOK' /\ (started' = started \/ \E q \in Procs : Begin(q))
  BY <1>1 DEF CountsOK
<1>2. ASSUME NEW p \in Procs, Begin(p)
       PROVE  CountsOK' /\ (started' = started \/ \E q \in Procs : Begin(q))
  <2>1. started' \in [Runs -> Nat]
    BY <1>2 DEF Begin, CountsOK, WorkersOK
  <2>2. UNCHANGED <<parked, dropped, stalls, outages>>
    BY <1>2 DEF Begin, faults
  <2> QED BY <1>2, <2>1, <2>2 DEF CountsOK
<1>3. ASSUME NEW p \in Procs, StageDone(p)
       PROVE  CountsOK' /\ (started' = started \/ \E q \in Procs : Begin(q))
  BY <1>3 DEF CountsOK, StageDone, WorkersOK, faults
<1>4. ASSUME NEW p \in Procs, Shutdown(p) \/ Crash(p)
       PROVE  CountsOK' /\ (started' = started \/ \E q \in Procs : Begin(q))
  BY <1>4 DEF CountsOK, Shutdown, Crash, history
<1>5. ASSUME NEW r \in Runs, LeaseOutlivesStall(r)
       PROVE  CountsOK' /\ (started' = started \/ \E q \in Procs : Begin(q))
  BY <1>5 DEF CountsOK, LeaseOutlivesStall, history
<1>6. ASSUME NEW p \in Procs, NEW r \in Runs,
             \/ AbortSignalled(p, r) \/ AbortRead(p, r) \/ CreateRun(p, r)
             \/ DeleteRun(p, r) \/ AbortActive(p, r) \/ Claim(p, r)
       PROVE  CountsOK' /\ (started' = started \/ \E q \in Procs : Begin(q))
  BY <1>6, <1>1 DEF AbortSignalled, AbortRead, CreateRun, DeleteRun,
     AbortActive, Claim, history, faults
<1>7. ASSUME NEW p \in Procs,
             \/ Submit(p) \/ RejectSubmission(p) \/ AbortWrite(p) \/ AbortRaises(p)
             \/ StageAborted(p) \/ StageFails(p) \/ Mark(p) \/ RenderProgress(p)
             \/ Finalize(p) \/ CancelRun(p) \/ CancelJob(p) \/ RenderStart(p)
             \/ RenderAborted(p) \/ RenderFails(p) \/ RenderDone(p)
             \/ RenderCommit(p) \/ Exit(p) \/ RecoverLook(p)
             \/ RecoverSettle(p) \/ WatchDeadline(p) \/ HeartbeatFails(p)
       PROVE  CountsOK' /\ (started' = started \/ \E q \in Procs : Begin(q))
  BY <1>7, <1>1 DEF Submit, RejectSubmission, AbortWrite, AbortRaises, StageAborted,
     StageFails, Mark, Finalize, CancelRun, CancelJob, RenderStart, RenderProgress,
     RenderAborted, RenderFails, RenderDone, RenderCommit, Exit, RecoverLook,
     RecoverSettle, WatchDeadline, HeartbeatFails, StageUnwinds,
     RenderUnwinds, history, faults
<1>8. ASSUME NEW r \in Runs,
             \/ LeaseRunsOut(r)
       PROVE  CountsOK' /\ (started' = started \/ \E q \in Procs : Begin(q))
  BY <1>8, <1>1 DEF LeaseRunsOut, history, faults
<1>9. ASSUME UNCHANGED vars
       PROVE  CountsOK' /\ (started' = started \/ \E q \in Procs : Begin(q))
  BY <1>9, <1>1 DEF vars
<1>10. ASSUME NEW p \in Procs, HandOff(p)
       PROVE  CountsOK' /\ (started' = started \/ \E q \in Procs : Begin(q))
  <2>1. worker[p].run \in Runs /\ UNCHANGED <<started, parked, stalls, outages>>
    BY <1>10 DEF HandOff, WorkersOK, faults
  <2>2. dropped' = dropped \cup {worker[p].run} \/ dropped' = dropped
    BY <1>10 DEF HandOff
  <2> QED BY <2>1, <2>2 DEF CountsOK
<1> QED
  BY <1>1, <1>2, <1>3, <1>4, <1>5, <1>6, <1>7, <1>8, <1>9, <1>10
  DEF Next, RequestStep, WorkerStep, StageEnds, LaneStep, RestartStep

------------------------------------------------------------------------------
(* Creating and claiming a run *)

\* What the commit of a new run does to the tables.
LEMMA CreateStore ==
  ASSUME StoreOK, NEW p \in Procs, NEW r \in Runs, CreateRun(p, r)
  PROVE  /\ StoreOK'
         /\ run[r] = "ABSENT" /\ run'[r] = "RUNNING"
         /\ job'[r].status = "PENDING" /\ job'[r].attempt = 0
         /\ \A q \in Runs \ {r} : run'[q] = run[q] /\ job'[q] = job[q]
  BY DEF StoreOK, CreateRun, IsNextId, JobRow, RunRow, ActiveStatus

\* What a claim does to the tables.
LEMMA ClaimStore ==
  ASSUME StoreOK, NEW p \in Procs, NEW r \in Runs, Claim(p, r)
  PROVE  /\ StoreOK'
         /\ job[r].status \in ActiveStatus
         /\ job'[r].status \in ClaimedStatus
         /\ job'[r].attempt = job[r].attempt + 1 /\ job[r].attempt \in Nat
         /\ \A q \in Runs \ {r} : job'[q] = job[q]
         /\ UNCHANGED run
<1> DEFINE row == [status |-> IF job[r].status = "CANCEL_REQUESTED"
                             THEN "CANCEL_REQUESTED" ELSE "LEASED",
                   attempt |-> job[r].attempt + 1, token |-> job[r].attempt + 1,
                   live |-> TRUE]
<1>1. job[r] \in JobRow /\ job[r].attempt \in Nat
  BY DEF StoreOK, JobRow
<1>2. row \in JobRow /\ row.status \in ClaimedStatus
      /\ row.attempt = job[r].attempt + 1
  BY <1>1 DEF JobRow, ActiveStatus, ClaimedStatus
<1>3. job' = [job EXCEPT ![r] = row] /\ UNCHANGED run
  BY DEF Claim
<1>4. job[r].status \in ActiveStatus
  BY DEF Claim, Claimable, ActiveStatus, ClaimedStatus
<1> HIDE DEF row
<1> QED BY <1>1, <1>2, <1>3, <1>4 DEF StoreOK

------------------------------------------------------------------------------
(* Type correctness *)

\* TypeInv is inductive: the four lemmas of the parts, together.
LEMMA TypeStep ==
  ASSUME TypeInv, [Next]_vars
  PROVE  TypeInv'
<1>1. StoreOK'
  BY StoreStep, CreateStore, ClaimStore DEF TypeInv
<1>2. WorkersOK'
  BY WorkersStep, ClaimWorkers DEF TypeInv
<1>3. LaneOK' /\ MemoryOK' /\ CountsOK'
  BY LaneStepOK, MemoryStep, CountsStep DEF TypeInv
<1> QED BY <1>1, <1>2, <1>3 DEF TypeInv

\* TypeInv holds initially.
LEMMA TypeInit == Init => TypeInv
<1> SUFFICES ASSUME Init PROVE TypeInv
  OBVIOUS
<1>1. StoreOK
  BY DEF Init, StoreOK, NoJob, JobRow, RunRow
<1>2. WorkersOK
  BY DEF Init, WorkersOK, IdleWorker, WorkerState, WorkerPC
<1>3. LaneOK /\ MemoryOK
  BY DEF Init, LaneOK, MemoryOK, IdleLane, LaneState, RunRow
<1>4. CountsOK
  BY DEF Init, CountsOK
<1> QED BY <1>1, <1>2, <1>3, <1>4 DEF TypeInv

\* Every variable keeps its type, whatever the runs, the processes and the
\* bounds are.
THEOREM TypeCorrect == Spec => []TypeOK
<1>1. TypeInv => TypeOK
  BY DEF TypeInv, StoreOK, WorkersOK, LaneOK, MemoryOK, CountsOK, TypeOK
<1> QED BY <1>1, TypeInit, TypeStep, PTL DEF Spec

------------------------------------------------------------------------------
(* One active job, one start *)

\* A calm step keeps every part of the invariant.
LEMMA CalmKeeps ==
  ASSUME Inv, TypeInv', Calm
  PROVE  Inv'
<1>1. \A r \in Runs : Active(r)' => Active(r)
  BY DEF Calm, CalmStore, Active, ActiveStatus, ClaimedStatus
<1>2. OneActiveJob'
  BY <1>1 DEF Inv, OneActiveJob
<1>3. FreshRuns'
  BY <1>1 DEF Inv, FreshRuns, Calm, CalmStore
<1>4. ClaimsCounted'
  BY DEF Inv, ClaimsCounted, Calm, CalmStore, ActiveStatus, ClaimedStatus
<1>5. OneStarter'
  <2>1. \A p \in Procs : worker[p].pc = "starting" => worker[p].run \in Runs
    BY DEF Inv, TypeInv, WorkersOK
  <2> QED BY <2>1 DEF Inv, OneStarter, Calm, CalmStore, NoneSent
<1>6. NoReplay'
  BY DEF Inv, NoReplay, Calm
<1> QED BY <1>2, <1>3, <1>4, <1>5, <1>6 DEF Inv

\* A new run has no other active job beside it, and nobody starts it yet.
LEMMA CreateKeeps ==
  ASSUME Inv, TypeInv', NEW p \in Procs, NEW r \in Runs, CreateRun(p, r),
         NoneSent, started' = started
  PROVE  Inv'
<1>1. /\ run[r] = "ABSENT" /\ run'[r] = "RUNNING"
      /\ job'[r].status = "PENDING" /\ job'[r].attempt = 0
      /\ \A q \in Runs \ {r} : run'[q] = run[q] /\ job'[q] = job[q]
  BY CreateStore DEF Inv, TypeInv
<1>2. OneActiveJob'
  <2>1. \A q \in Runs : ~Active(q)
    BY DEF CreateRun, UniqueGuard
  <2> QED BY <1>1, <2>1 DEF OneActiveJob, Active
<1>3. FreshRuns'
  BY <1>1 DEF Inv, FreshRuns, Active
<1>4. ClaimsCounted'
  BY <1>1 DEF Inv, ClaimsCounted, FreshRuns, ClaimedStatus
<1>5. OneStarter'
  <2>1. \A q \in Procs : worker[q].pc = "starting" =>
          worker[q].run \in Runs \ {r}
    BY <1>1 DEF Inv, TypeInv, WorkersOK, OneStarter
  <2> QED BY <1>1, <2>1 DEF Inv, OneStarter, NoneSent
<1>6. NoReplay'
  BY DEF Inv, NoReplay
<1> QED BY <1>2, <1>3, <1>4, <1>5, <1>6 DEF Inv

\* A claim sends a worker to the stage only if the job was PENDING, that is
\* never claimed: nobody else is on the way, and the run was never started.
LEMMA ClaimKeeps ==
  ASSUME Inv, TypeInv', NEW p \in Procs, NEW r \in Runs, Claim(p, r),
         started' = started
  PROVE  Inv'
<1>1. /\ job[r].status \in ActiveStatus
      /\ job'[r].status \in ClaimedStatus
      /\ job'[r].attempt = job[r].attempt + 1 /\ job[r].attempt \in Nat
      /\ \A q \in Runs \ {r} : job'[q] = job[q]
      /\ UNCHANGED run
  BY ClaimStore DEF Inv, TypeInv
<1>2. /\ \A q \in Procs \ {p} : worker'[q] = worker[q]
      /\ worker'[p].run = r /\ worker'[p].pc \in Dispatch(r)
  BY ClaimWorkers DEF Inv, TypeInv
<1>3. OneActiveJob'
  BY <1>1 DEF Inv, OneActiveJob, Active
<1>4. FreshRuns'
  BY <1>1 DEF Inv, FreshRuns, Active
<1>5. ClaimsCounted'
  BY <1>1 DEF Inv, ClaimsCounted, ClaimedStatus
<1>6. OneStarter'
  <2>1. CASE job[r].status = "PENDING"
    <3>1. /\ started'[r] = 0 /\ run'[r] # "ABSENT"
          /\ job'[r].status # "PENDING"
      BY <1>1, <2>1 DEF Inv, ClaimsCounted, FreshRuns, Active, ClaimedStatus
    <3>2. \A q \in Procs : worker[q].pc = "starting" =>
            worker[q].run \in Runs \ {r}
      BY <2>1 DEF Inv, TypeInv, WorkersOK, OneStarter
    <3> QED BY <1>1, <1>2, <3>1, <3>2 DEF Inv, OneStarter
  <2>2. CASE job[r].status # "PENDING"
    <3>1. worker'[p].pc # "starting"
      BY <1>1, <1>2, <2>2 DEF Inv, ClaimsCounted, Dispatch, ActiveStatus,
                              ClaimedStatus
    <3>2. \A q \in Runs : job'[q].status = "PENDING" => job[q].status = "PENDING"
      BY <1>1 DEF ClaimedStatus
    <3>3. \A q \in Procs : worker[q].pc = "starting" => worker[q].run \in Runs
      BY DEF Inv, TypeInv, WorkersOK
    <3> QED BY <1>1, <1>2, <3>1, <3>2, <3>3 DEF Inv, OneStarter
  <2> QED BY <2>1, <2>2
<1>7. NoReplay'
  BY DEF Inv, NoReplay
<1> QED BY <1>3, <1>4, <1>5, <1>6, <1>7 DEF Inv

\* A stage that starts is started for the first time.
LEMMA BeginKeeps ==
  ASSUME Inv, TypeInv', NEW p \in Procs, Begin(p)
  PROVE  Inv'
<1> DEFINE r == worker[p].run
<1>1. /\ r \in Runs /\ worker[p].pc = "starting"
      /\ started[r] = 0 /\ run[r] # "ABSENT" /\ job[r].status # "PENDING"
  BY DEF Inv, TypeInv, WorkersOK, OneStarter, Begin
<1>2. UNCHANGED store
  BY DEF Begin, store
<1>3. CASE started' = started
  <2>1. NoneSent
    BY BeginWorkers DEF Inv, TypeInv
  <2>2. CalmStore
    BY <1>2 DEF store, CalmStore
  <2> QED BY <1>3, <2>1, <2>2, CalmKeeps DEF Calm
<1>4. CASE started' # started
  <2>1. /\ started' = [started EXCEPT ![r] = @ + 1]
        /\ worker' = [worker EXCEPT ![p].pc = "running", ![p].sig = FALSE]
    BY <1>4 DEF Begin, Fenced, StageFence
  <2>2. started'[r] = 1 /\ \A q \in Runs \ {r} : started'[q] = started[q]
    BY <1>1, <2>1 DEF Inv, TypeInv, CountsOK
  <2>3. /\ worker'[p].pc = "running"
        /\ \A q \in Procs \ {p} : worker'[q] = worker[q]
    BY <2>1 DEF Inv, TypeInv, WorkersOK, WorkerState
  <2>4. OneActiveJob'
    BY <1>2 DEF store, Inv, OneActiveJob, Active
  <2>5. FreshRuns'
    BY <1>1, <1>2, <2>2 DEF store, Inv, FreshRuns, Active
  <2>6. ClaimsCounted'
    BY <1>1, <1>2, <2>2 DEF store, Inv, ClaimsCounted
  <2>7. OneStarter'
    <3>1. \A q \in Procs \ {p} : worker[q].pc = "starting" =>
            worker[q].run \in Runs \ {r}
      BY <1>1 DEF Inv, TypeInv, WorkersOK, OneStarter
    <3> HIDE DEF r
    <3> QED BY <1>2, <2>2, <2>3, <3>1 DEF store, Inv, OneStarter
  <2>8. NoReplay'
    BY <2>2 DEF Inv, NoReplay
  <2> QED BY <2>4, <2>5, <2>6, <2>7, <2>8 DEF Inv
<1> QED BY <1>3, <1>4

\* Every step keeps Inv: CreateRun, Claim and Begin by their own lemmas, the
\* rest because it is calm.
LEMMA InvStep ==
  ASSUME Inv, [Next]_vars
  PROVE  Inv'
<1>1. TypeInv'
  BY TypeStep DEF Inv
<1>2. CASE \E p \in Procs : Begin(p)
  BY <1>1, <1>2, BeginKeeps
<1>3. CASE \E p \in Procs, r \in Runs : Claim(p, r)
  <2>1. started' = started
    BY <1>3 DEF Claim, history
  <2> QED BY <1>1, <1>3, <2>1, ClaimKeeps
<1>4. CASE /\ ~ \E p \in Procs : Begin(p)
           /\ ~ \E p \in Procs, r \in Runs : Claim(p, r)
  <2>1. NoneSent
    BY <1>4, WorkersStep DEF Inv, TypeInv
  <2>2. started' = started
    BY <1>4, CountsStep DEF Inv, TypeInv
  <2>3. CASE \E p \in Procs, r \in Runs : CreateRun(p, r)
    BY <1>1, <2>1, <2>2, <2>3, CreateKeeps
  <2>4. CASE ~ \E p \in Procs, r \in Runs : CreateRun(p, r)
    <3>1. CalmStore
      BY <1>4, <2>4, StoreStep DEF Inv, TypeInv
    <3> QED BY <1>1, <2>1, <2>2, <3>1, CalmKeeps DEF Calm
  <2> QED BY <2>3, <2>4
<1> QED BY <1>2, <1>3, <1>4

\* Inv holds initially.
LEMMA InvInit == Init => Inv
<1> SUFFICES ASSUME Init PROVE Inv
  OBVIOUS
<1>1. TypeInv
  BY TypeInit
<1>2. OneActiveJob /\ FreshRuns /\ ClaimsCounted
  BY DEF Init, OneActiveJob, FreshRuns, ClaimsCounted, Active, NoJob,
         ActiveStatus, ClaimedStatus
<1>3. OneStarter /\ NoReplay
  BY DEF Init, OneStarter, NoReplay, IdleWorker
<1> QED BY <1>1, <1>2, <1>3 DEF Inv

\* Inv is inductive.
THEOREM Invariance == Spec => []Inv
  BY InvInit, InvStep, PTL DEF Spec

\* At most one run holds the trading account: active_guard is checked by the
\* commit that creates a job, and no other step makes a job active.
THEOREM AccountExclusive == Spec => []OneActiveJob
<1>1. Inv => OneActiveJob
  BY DEF Inv
<1> QED BY <1>1, Invariance, PTL

\* A run's stage is started at most once, whatever crashes, expired leases and
\* reclaims there are: only a first claim leads to a stage.
THEOREM NeverReplayed == Spec => []NoReplay
<1>1. Inv => NoReplay
  BY DEF Inv
<1> QED BY <1>1, Invariance, PTL
==============================================================================
