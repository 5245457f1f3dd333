----------------------------- MODULE Evaluations -----------------------------
(***************************************************************************)
(* The review lane of one process: a request commits its row and then      *)
(* waits for room in the worker's queue; the worker takes one row at a     *)
(* time.  The queue is memory, the rows are not: a restart settles the row *)
(* that was under review.                                                  *)
(***************************************************************************)
EXTENDS Naturals, Sequences

CONSTANTS
  Reviewed,         \* rows of run_evaluations
  ReviewRoom,       \* EVALUATION_QUEUE_MAXSIZE
  MaxReviewOutages  \* bound: crashes and shutdowns

VARIABLES
  evaluation,  \* status of each row
  asking,      \* rows committed by requests that wait for room in the queue
  backlog,     \* the worker's queue
  reviewing,   \* the row the worker has taken, and how far it is
  reviewMode,  \* the process: up or down
  reviewOutages

reviewVars == <<evaluation, asking, backlog, reviewing, reviewMode, reviewOutages>>

Nothing    == 0
NoReview   == [pc |-> "idle", id |-> Nothing]
ReviewEnds == {"completed", "failed"}

\* request: a completed analysis gets a row of its own.
RequestReview(e) ==
  /\ reviewMode = "up" /\ evaluation[e] = "absent"
  /\ evaluation' = [evaluation EXCEPT ![e] = "pending"]
  /\ asking' = asking \cup {e}
  /\ UNCHANGED <<backlog, reviewing, reviewMode, reviewOutages>>

\* submit waits while the queue is full; the client may go away meanwhile.
QueueReview(e) ==
  /\ e \in asking
  /\ asking' = asking \ {e}
  /\ \/ Len(backlog) < ReviewRoom /\ backlog' = Append(backlog, e)
     \/ UNCHANGED backlog
  /\ UNCHANGED <<evaluation, reviewing, reviewMode, reviewOutages>>

\* execute: the row is marked before the evaluator is asked.
StartReview ==
  /\ reviewing.pc = "idle" /\ backlog # << >>
  /\ backlog' = Tail(backlog)
  /\ IF evaluation[Head(backlog)] = "pending"
     THEN /\ evaluation' = [evaluation EXCEPT ![Head(backlog)] = "running"]
          /\ reviewing' = [pc |-> "asked", id |-> Head(backlog)]
     ELSE UNCHANGED <<evaluation, reviewing>>
  /\ UNCHANGED <<asking, reviewMode, reviewOutages>>

\* Its answer, or its failure, is the record.
EndReview ==
  /\ reviewing.pc = "asked"
  /\ \E status \in ReviewEnds :
       evaluation' = [evaluation EXCEPT ![reviewing.id] = status]
  /\ reviewing' = NoReview
  /\ UNCHANGED <<asking, backlog, reviewMode, reviewOutages>>

\* A crash, or stop(): the loop's task is cancelled, which execute does not
\* catch.
ReviewProcessEnds ==
  /\ reviewMode = "up" /\ reviewOutages < MaxReviewOutages
  /\ reviewOutages' = reviewOutages + 1
  /\ reviewMode' = "down"
  /\ asking' = {} /\ backlog' = << >> /\ reviewing' = NoReview
  /\ UNCHANGED evaluation

OrphansKept == evaluation                            \* mutant: no sweep
Orphans == [e \in Reviewed |-> IF evaluation[e] = "running" THEN "failed" ELSE evaluation[e]]

\* Start-up: settle_orphans before anything is queued.
ReviewProcessStarts ==
  /\ reviewMode = "down"
  /\ reviewMode' = "up"
  /\ evaluation' = Orphans
  /\ UNCHANGED <<asking, backlog, reviewing, reviewOutages>>

ReviewInit ==
  /\ evaluation = [e \in Reviewed |-> "absent"]
  /\ asking = {} /\ backlog = << >> /\ reviewing = NoReview
  /\ reviewMode = "up" /\ reviewOutages = 0

ReviewStep == StartReview \/ EndReview \/ ReviewProcessStarts

ReviewNext ==
  \/ ReviewStep \/ ReviewProcessEnds
  \/ \E e \in Reviewed : RequestReview(e) \/ QueueReview(e)

\* No review is shown as under way forever: its evaluator answers, or the
\* restart after whatever stopped it fails the row (settle_orphans).
ReviewSettles ==
  \A e \in Reviewed : evaluation[e] = "running" ~> evaluation[e] # "running"
==============================================================================
