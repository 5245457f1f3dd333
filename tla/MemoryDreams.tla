----------------------------- MODULE MemoryDreams -----------------------------
(***************************************************************************)
(* The nightly dream of one day: prepared by the scheduler or by hand,     *)
(* executed by whichever process's worker takes its lease, recovered by    *)
(* the others when its worker is gone.  An execution writes only under its *)
(* lease; preparing and deleting are not fenced.                           *)
(***************************************************************************)
EXTENDS TaskLeases

CONSTANTS
  DreamProcs,      \* processes with a dream worker
  Requests,        \* preparations: a request knows whether it is manual
  Manual,          \* the manual ones
  MaxDreamFaults   \* bound: stalls past the lease and crashes together

ASSUME DreamAssumption == Manual \subseteq Requests

VARIABLES
  dream,        \* status of the row of memory_dreams, or absent
  dreamLease,   \* its row in task_leases
  sleeper,      \* per process: what its worker is doing, under its claim's owner id
  queued,       \* per process: whether the dream is in its queue
  wish,         \* per request: what it has read of the row
  dreamFaults,  \* stalls and crashes so far
  overslept     \* history: whether a worker was ever held up past its lease

dreamVars == <<dream, dreamLease, sleeper, queued, wish, dreamFaults, overslept>>

DreamStatus == {"absent", "pending", "running", "completed", "failed"}
Ended       == {"completed", "failed"}

Awake == [pc |-> "idle", owner |-> NoOwner]

------------------------------------------------------------------------------
\* create_or_get, and the status the preparation will decide on.  A row that
\* another request added first is read instead.
WishReads(q) ==
  /\ wish[q] = "none"
  /\ dream' = IF dream = "absent" THEN "pending" ELSE dream
  /\ wish' = [wish EXCEPT ![q] = dream']
  /\ UNCHANGED <<dreamLease, sleeper, queued, dreamFaults, overslept>>

\* A manual run repeats what has ended, a scheduled one only what has failed.
Retries(q) == wish[q] = "failed" \/ (q \in Manual /\ wish[q] = "completed")

\* retry and the save, whatever the row has become: a deleted one is inserted
\* again, and only one deleted between save's SELECT and its UPDATE makes it
\* raise.  A dream that is pending is queued with a worker of this process, a
\* full queue leaves it to that worker's recovery.
WishWrites(q) ==
  /\ wish[q] # "none"
  /\ dream' \in IF Retries(q) THEN {"pending"} \cup ({"absent"} \cap {dream})
                ELSE {dream}
  /\ IF wish[q] = "pending" \/ (Retries(q) /\ dream' = "pending")
     THEN \E p \in DreamProcs : queued' \in {[queued EXCEPT ![p] = TRUE], queued}
     ELSE UNCHANGED queued
  /\ wish' = [wish EXCEPT ![q] = "none"]
  /\ UNCHANGED <<dreamLease, sleeper, dreamFaults, overslept>>

DeleteDream ==
  /\ dream # "absent"
  /\ dream' = "absent"
  /\ UNCHANGED <<dreamLease, sleeper, queued, wish, dreamFaults, overslept>>

------------------------------------------------------------------------------
NewClaim == Drawn({dreamLease.owner} \cup {sleeper[q].owner : q \in DreamProcs})

\* _execute: the lease is taken and committed, or the task is dropped here and
\* found again by a later recovery.
DreamClaim(p) ==
  /\ sleeper[p].pc = "idle" /\ queued[p]
  /\ queued' = [queued EXCEPT ![p] = FALSE]
  /\ \E owner \in NewClaim :
       IF Acquirable(dreamLease, owner)
       THEN /\ dreamLease' = Acquired(owner)
            /\ sleeper' = [sleeper EXCEPT ![p] = [pc |-> "starting", owner |-> owner]]
       ELSE UNCHANGED <<dreamLease, sleeper>>
  /\ UNCHANGED <<dream, wish, dreamFaults, overslept>>

\* save_fenced: the row has the expected status and the claim's lease is live.
Fenced(p, status) == dream = status /\ Owned(dreamLease, sleeper[p].owner)

Sleeps(p, pc) == sleeper' = [sleeper EXCEPT ![p].pc = pc]

\* Only a pending dream starts; a save the fence rejects ends the execution.
DreamStarts(p) ==
  /\ sleeper[p].pc = "starting"
  /\ IF Fenced(p, "pending")
     THEN dream' = "running" /\ Sleeps(p, "dreaming")
     ELSE UNCHANGED dream /\ Sleeps(p, "releasing")
  /\ UNCHANGED <<dreamLease, queued, wish, dreamFaults, overslept>>

\* The agent answered, answered nothing, failed, or was cancelled because the
\* lease was lost or the worker is stopped.
DreamEnds(p) ==
  /\ sleeper[p].pc = "dreaming"
  /\ \E status \in Ended : dream' = IF Fenced(p, "running") THEN status ELSE dream
  /\ Sleeps(p, "releasing")
  /\ UNCHANGED <<dreamLease, queued, wish, dreamFaults, overslept>>

DreamReleases(p) ==
  /\ sleeper[p].pc = "releasing"
  /\ dreamLease' \in {Released(dreamLease, sleeper[p].owner), dreamLease}
  /\ sleeper' = [sleeper EXCEPT ![p] = Awake]
  /\ UNCHANGED <<dream, queued, wish, dreamFaults, overslept>>

RecoversAnyhow(p) == dream = "running"               \* mutant: no lease needed
RecoversUnowned(p) ==                                \* mutant: only without a lease row
  dream = "running" /\ dreamLease.owner = NoOwner
Recovers(p) ==
  dream = "running" /\ \E owner \in NewClaim : Acquirable(dreamLease, owner)

\* recover_pending, when the queue stayed empty: a running dream whose lease
\* can be taken is failed in the transaction that takes and releases it; a
\* pending one is queued again.
DreamRecovery(p) ==
  /\ sleeper[p].pc = "idle" /\ ~queued[p]
  /\ \/ /\ Recovers(p)
        /\ dream' = "failed"
        /\ dreamLease' = NoLease
        /\ UNCHANGED queued
     \/ /\ dream = "pending"
        /\ queued' = [queued EXCEPT ![p] = TRUE]
        /\ UNCHANGED <<dream, dreamLease>>
  /\ UNCHANGED <<sleeper, wish, dreamFaults, overslept>>

Sleepers == {p \in DreamProcs : sleeper[p].pc # "idle" /\ sleeper[p].owner = dreamLease.owner}

DreamLeaseEnds ==
  /\ dreamLease.live /\ Sleepers = {}
  /\ dreamLease' = Expired(dreamLease)
  /\ UNCHANGED <<dream, sleeper, queued, wish, dreamFaults, overslept>>

\* The owner is held up for the 60 seconds of the lease and goes on afterwards.
DreamStalls ==
  /\ dreamLease.live /\ Sleepers # {} /\ dreamFaults < MaxDreamFaults
  /\ dreamLease' = Expired(dreamLease)
  /\ dreamFaults' = dreamFaults + 1 /\ overslept' = TRUE
  /\ UNCHANGED <<dream, sleeper, queued, wish>>

\* The process dies with its queue, and comes back.
DreamCrash(p) ==
  /\ dreamFaults < MaxDreamFaults /\ dreamFaults' = dreamFaults + 1
  /\ sleeper' = [sleeper EXCEPT ![p] = Awake]
  /\ queued' = [queued EXCEPT ![p] = FALSE]
  /\ UNCHANGED <<dream, dreamLease, wish, overslept>>

------------------------------------------------------------------------------
DreamInit ==
  /\ dream = "absent"
  /\ dreamLease = NoLease
  /\ sleeper = [p \in DreamProcs |-> Awake]
  /\ queued = [p \in DreamProcs |-> FALSE]
  /\ wish = [q \in Requests |-> "none"]
  /\ dreamFaults = 0
  /\ overslept = FALSE

DreamStep(p) == DreamStarts(p) \/ DreamEnds(p) \/ DreamReleases(p)

DreamNext ==
  \/ \E q \in Requests : WishReads(q) \/ WishWrites(q)
  \/ DeleteDream \/ DreamLeaseEnds \/ DreamStalls
  \/ \E p \in DreamProcs :
       DreamClaim(p) \/ DreamStep(p) \/ DreamRecovery(p) \/ DreamCrash(p)

------------------------------------------------------------------------------
\* One agent at a time works on a day's memories: a second preparation, a
\* recovery, a reclaim or a deletion under a worker does not start another
\* beside it, unless its lease ran out under it (try_acquire, release).
OneDreamer ==
  ~overslept => \A p, q \in DreamProcs :
                  sleeper[p].pc = "dreaming" /\ sleeper[q].pc = "dreaming" => p = q

\* A worker that lost its lease cannot end a dream that another is executing,
\* and recovery fails only what nobody executes: while a worker dreams under a
\* live lease, the row leaves "running" by its own hand, by a retry prepared
\* from an older reading of the row, or by deletion.
OthersLeaveItRunning ==
  [][\A p \in DreamProcs :
       sleeper[p].pc = "dreaming" /\ Owned(dreamLease, sleeper[p].owner)
         /\ dream = "running" /\ sleeper'[p] = sleeper[p]
         => dream' \in {"running", "pending", "absent"}]_dreamVars

\* A dream does not stay "running" when its worker has died: the next recovery
\* of any process fails it.
DreamSettles == dream = "running" ~> dream # "running"
==============================================================================
