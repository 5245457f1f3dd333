---------------------------- MODULE SchedulerTicks ----------------------------
(***************************************************************************)
(* One schedule of the job runner.  Edits change its row under a revision, *)
(* commit, and then re-register the cron jobs of this process; a cron job  *)
(* that fires runs its handler as leader, under a lease, and submits one   *)
(* analysis, waiting a while for a watch that is in its way.               *)
(***************************************************************************)
EXTENDS TaskLeases

CONSTANTS
  TickProcs,       \* processes that run a scheduler
  Editors,         \* requests that edit the schedule, all in the same process
  MaxRevision,     \* bound: revisions of the schedule
  MaxTickFaults    \* bound: stalls past the lease and crashes together

VARIABLES
  tickLease,   \* the schedule's row in task_leases
  tick,        \* per process: its tick of this schedule, under an owner id of its own
  timetable,   \* the row of strategy_schedules
  jobs,        \* per process: the revision its cron jobs were made from
  edit,        \* per editor: the revision it read and how far it is
  account,     \* the run that has the account, by its kind
  tickFaults,  \* stalls and crashes so far
  heldUp       \* history: whether a leader was ever held up past its lease

tickVars == <<tickLease, tick, timetable, jobs, edit, account, tickFaults, heldUp>>

Registrar == CHOOSE p \in TickProcs : \A q \in TickProcs : p <= q

IdleTick == [pc |-> "idle", owner |-> NoOwner, late |-> FALSE]
NoEdit   == [pc |-> "idle", seen |-> 0, enabled |-> FALSE]

\* _run_as_leader: the lease is taken and committed before the handler runs; a
\* tick that does not get it is skipped.
TickFires(p) ==
  /\ tick[p].pc = "idle" /\ jobs[p] > 0
  /\ \E owner \in Drawn({tickLease.owner} \cup {tick[q].owner : q \in TickProcs}) :
       /\ Acquirable(tickLease, owner)
       /\ tickLease' = Acquired(owner)
       /\ tick' = [tick EXCEPT ![p] = [pc |-> "reading", owner |-> owner, late |-> FALSE]]
  /\ UNCHANGED <<timetable, jobs, edit, account, tickFaults, heldUp>>

Goes(p, pc) ==
  /\ tick' = [tick EXCEPT ![p].pc = pc]
  /\ UNCHANGED <<tickLease, timetable, jobs, edit, account, tickFaults, heldUp>>

Leads(p) == Owned(tickLease, tick[p].owner)

\* _trigger_schedule: not on a holiday, and only what the row still says.
TickReads(p) ==
  /\ tick[p].pc = "reading"
  /\ \/ timetable.enabled /\ Goes(p, "submitting")
     \/ Goes(p, "releasing")

GivesUp(p) == tick[p].late

\* What the analysis handler does about the run in its way: only a watch is
\* worth waiting for, and only until the deadline.
TickCollides(p) ==
  IF account = "watch" /\ ~GivesUp(p) THEN Goes(p, "waiting") ELSE Goes(p, "releasing")

\* create_run's look at the account.
TickSubmits(p) ==
  /\ tick[p].pc = "submitting"
  /\ IF account = "free" THEN Goes(p, "creating") ELSE TickCollides(p)

\* lease_check between two polls.
TickWaits(p) ==
  /\ tick[p].pc = "waiting"
  /\ IF Leads(p) THEN Goes(p, "submitting") ELSE Goes(p, "releasing")

\* execution_guard, with the rows flushed and not yet committed.  A lease found
\* lost is reported as the run in the way, should there be one by now.
TickGuards(p) ==
  /\ tick[p].pc = "creating"
  /\ CASE Leads(p) -> Goes(p, "committing")
       [] ~Leads(p) /\ account = "free" -> Goes(p, "releasing")
       [] OTHER -> TickCollides(p)

\* The commit, or what is in its way by now.
TickCommits(p) ==
  /\ tick[p].pc = "committing"
  /\ IF account # "free" THEN TickCollides(p)
     ELSE /\ account' = "analysis"
          /\ tick' = [tick EXCEPT ![p].pc = "enqueueing"]
          /\ UNCHANGED <<tickLease, timetable, jobs, edit, tickFaults, heldUp>>

\* lease_check and the wake-up of the run worker, which polls anyway.
TickEnqueues(p) == tick[p].pc = "enqueueing" /\ Goes(p, "releasing")

\* ANALYSIS_WAITS_FOR_WATCH_SECONDS are over.
TickDeadline(p) ==
  /\ tick[p].pc \notin {"idle", "releasing"} /\ ~tick[p].late
  /\ tick' = [tick EXCEPT ![p].late = TRUE]
  /\ UNCHANGED <<tickLease, timetable, jobs, edit, account, tickFaults, heldUp>>

\* The renewal found the lease gone, or failed: run_while_lease_valid cancels
\* the handler where it stands.
TickLosesLease(p) == tick[p].pc \notin {"idle", "releasing"} /\ Goes(p, "releasing")

\* The release may fail; the lease then runs out.
TickReleases(p) ==
  /\ tick[p].pc = "releasing"
  /\ tickLease' \in {Released(tickLease, tick[p].owner), tickLease}
  /\ tick' = [tick EXCEPT ![p] = IdleTick]
  /\ UNCHANGED <<timetable, jobs, edit, account, tickFaults, heldUp>>

Leaders == {p \in TickProcs : tick[p].pc # "idle" /\ tick[p].owner = tickLease.owner}

TickLeaseEnds ==
  /\ tickLease.live /\ Leaders = {}
  /\ tickLease' = Expired(tickLease)
  /\ UNCHANGED <<tick, timetable, jobs, edit, account, tickFaults, heldUp>>

\* Its owner is held up for the 60 seconds of the lease and goes on afterwards.
TickStalls ==
  /\ tickLease.live /\ Leaders # {} /\ tickFaults < MaxTickFaults
  /\ tickLease' = Expired(tickLease)
  /\ tickFaults' = tickFaults + 1 /\ heldUp' = TRUE
  /\ UNCHANGED <<tick, timetable, jobs, edit, account>>

\* The process dies and comes back: sync_all registers what the row says.
TickCrash(p) ==
  /\ tickFaults < MaxTickFaults /\ tickFaults' = tickFaults + 1
  /\ tick' = [tick EXCEPT ![p] = IdleTick]
  /\ jobs' = [jobs EXCEPT ![p] = IF timetable.enabled THEN timetable.revision ELSE 0]
  /\ edit' = IF p = Registrar THEN [e \in Editors |-> NoEdit] ELSE edit
  /\ UNCHANGED <<tickLease, timetable, account, heldUp>>

\* Other submissions, and the end of a run.
AccountMoves ==
  /\ account' \in IF account = "free" THEN {"watch", "analysis"} ELSE {"free"}
  /\ UNCHANGED <<tickLease, tick, timetable, jobs, edit, tickFaults, heldUp>>

------------------------------------------------------------------------------
\* update_schedule up to its UPDATE: expected_revision is the current one.
EditOpens(e) ==
  /\ edit[e].pc = "idle" /\ timetable.revision < MaxRevision
  /\ edit' = [edit EXCEPT ![e] = [NoEdit EXCEPT !.pc = "opened", !.seen = timetable.revision]]
  /\ UNCHANGED <<tickLease, tick, timetable, jobs, account, tickFaults, heldUp>>

StandsAnyhow(e) == TRUE                              \* mutant: no revision match
StillStands(e) == timetable.revision = edit[e].seen

\* update_if_revision and the commit; else ConfigurationConflictError.
EditCommits(e) ==
  /\ edit[e].pc = "opened"
  /\ IF StillStands(e)
     THEN \E enabled \in BOOLEAN :
            /\ timetable' = [timetable EXCEPT !.revision = edit[e].seen + 1,
                                              !.enabled = enabled, !.editor = e]
            /\ edit' = [edit EXCEPT ![e] = [pc |-> "syncing", seen |-> edit[e].seen + 1,
                                             enabled |-> enabled]]
     ELSE edit' = [edit EXCEPT ![e] = NoEdit] /\ UNCHANGED timetable
  /\ UNCHANGED <<tickLease, tick, jobs, account, tickFaults, heldUp>>

\* sync_schedule replaces this process's jobs by those of the edit; the sync
\* state is saved only while the row still has that revision.
EditSyncs(e) ==
  /\ edit[e].pc = "syncing"
  /\ \/ /\ jobs' = [jobs EXCEPT ![Registrar] = IF edit[e].enabled THEN edit[e].seen ELSE 0]
        /\ edit' = [edit EXCEPT ![e].pc = "synced"]
     \/ UNCHANGED jobs /\ edit' = [edit EXCEPT ![e] = NoEdit]   \* sync_error
  /\ UNCHANGED <<tickLease, tick, timetable, account, tickFaults, heldUp>>

EditSavesSync(e) ==
  /\ edit[e].pc = "synced"
  /\ timetable' = IF timetable.revision = edit[e].seen
                  THEN [timetable EXCEPT !.synced = edit[e].seen] ELSE timetable
  /\ edit' = [edit EXCEPT ![e] = NoEdit]
  /\ UNCHANGED <<tickLease, tick, jobs, account, tickFaults, heldUp>>

------------------------------------------------------------------------------
TickInit ==
  /\ tickLease = NoLease
  /\ tick = [p \in TickProcs |-> IdleTick]
  /\ timetable = [revision |-> 1, enabled |-> TRUE, synced |-> 1, editor |-> 0]
  /\ jobs = [p \in TickProcs |-> 1]
  /\ edit = [e \in Editors |-> NoEdit]
  /\ account = "free"
  /\ tickFaults = 0
  /\ heldUp = FALSE

TickStep(p) ==
  TickReads(p) \/ TickSubmits(p) \/ TickWaits(p) \/ TickGuards(p) \/ TickCommits(p)
    \/ TickEnqueues(p) \/ TickReleases(p)

LeaderNext ==
  \/ \E p \in TickProcs : \/ TickFires(p) \/ TickStep(p) \/ TickDeadline(p)
                          \/ TickLosesLease(p)
  \/ TickLeaseEnds \/ TickStalls \/ AccountMoves

EditNext ==
  \E e \in Editors : EditOpens(e) \/ EditCommits(e) \/ EditSyncs(e) \/ EditSavesSync(e)

TickNext == LeaderNext \/ EditNext \/ \E p \in TickProcs : TickCrash(p)

------------------------------------------------------------------------------
\* Two processes never lead the same schedule at once, so one tick's wait for a
\* watch is not raced by another's, unless a leader was held up past its lease
\* (_run_as_leader, try_acquire, release under the tick's own owner id).
LeaderAlone ==
  ~heldUp => \A p, q \in TickProcs :
               tick[p].pc \notin {"idle", "releasing"}
                 /\ tick[q].pc \notin {"idle", "releasing"} => p = q

\* No edit of the schedule is written over another it never saw: whoever saves
\* second was shown the first's revision or is refused (update_if_revision).
EditsStack ==
  [][timetable'.editor # timetable.editor
       => timetable'.revision = timetable.revision + 1]_tickVars

\* A schedule is never blocked for good: the lease comes free after a crash,
\* and a handler that waits for a watch gives up at its deadline however long
\* the watch runs.
LeaseComesFree == tickLease.live ~> ~tickLease.live
==============================================================================
