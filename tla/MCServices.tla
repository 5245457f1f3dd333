---------------------------- MODULE MCServices ----------------------------
(***************************************************************************)
(* The services around the runs for TLC: schedules, dreams, reviews, fill  *)
(* notices, the model calls of a stage and the stream a page follows.      *)
(* They share no state, so a behaviour follows one of them and leaves the  *)
(* others as they started.                                                 *)
(***************************************************************************)
EXTENDS SchedulerTicks, MemoryDreams, Evaluations, FillNotices, LlmCalls, RunStream

VARIABLE part
vars == <<tickVars, dreamVars, reviewVars, fillVars, callVars, streamVars, part>>

Init ==
  /\ TickInit /\ DreamInit /\ ReviewInit /\ FillInit /\ CallInit /\ StreamInit
  /\ part \in {"ticks", "edits", "dreams", "reviews", "fills", "calls", "stream"}

Next ==
  /\ \/ /\ \/ part = "ticks" /\ LeaderNext
           \/ part = "edits" /\ EditNext
           \/ part \in {"ticks", "edits"} /\ \E p \in TickProcs : TickCrash(p)
        /\ UNCHANGED <<dreamVars, reviewVars, fillVars, callVars, streamVars>>
     \/ /\ part = "dreams" /\ DreamNext
        /\ UNCHANGED <<tickVars, reviewVars, fillVars, callVars, streamVars>>
     \/ /\ part = "reviews" /\ ReviewNext
        /\ UNCHANGED <<tickVars, dreamVars, fillVars, callVars, streamVars>>
     \/ /\ part = "fills" /\ FillNext
        /\ UNCHANGED <<tickVars, dreamVars, reviewVars, callVars, streamVars>>
     \/ /\ part = "calls" /\ CallNext
        /\ UNCHANGED <<tickVars, dreamVars, reviewVars, fillVars, streamVars>>
     \/ /\ part = "stream" /\ StreamNext
        /\ UNCHANGED <<tickVars, dreamVars, reviewVars, fillVars, callVars>>
  /\ UNCHANGED part

Fairness ==
  /\ \A p \in TickProcs : /\ WF_tickVars(part = "ticks" /\ TickStep(p))
                          /\ WF_tickVars(part = "ticks" /\ TickDeadline(p))
  /\ WF_tickVars(part = "ticks" /\ TickLeaseEnds)
  /\ \A p \in DreamProcs : /\ WF_dreamVars(part = "dreams" /\ DreamStep(p))
                           /\ WF_dreamVars(part = "dreams" /\ DreamRecovery(p))
                           /\ WF_dreamVars(part = "dreams" /\ DreamClaim(p))
  /\ WF_dreamVars(part = "dreams" /\ DreamLeaseEnds)
  /\ WF_reviewVars(part = "reviews" /\ ReviewStep)
  /\ WF_fillVars(part = "fills" /\ \E r \in Refreshers : RefreshFetches(r))
  /\ \A r \in Refreshers : WF_fillVars(part = "fills" /\ RefreshCommits(r))
  /\ \A d \in PushSlots : WF_fillVars(part = "fills" /\ DeliveryStep(d))
  /\ WF_callVars(part = "calls" /\ ProducerStep)
  /\ WF_callVars(part = "calls" /\ CallerStep)
  /\ WF_streamVars(part = "stream" /\ RecorderStep)
  /\ WF_streamVars(part = "stream" /\ ServerStep)
  /\ WF_streamVars(part = "stream" /\ Connects)
  /\ WF_streamVars(part = "stream" /\ PageReceives)

Spec == Init /\ [][Next]_vars /\ Fairness

\* One lease excludes all but one process at a time, for the scheduler's tick
\* and for a dream alike, as long as the holder is not held up past its end.
LeasesExclude == LeaderAlone /\ OneDreamer

\* A dream or a review that runs comes to an end, whoever has to end it; and a
\* schedule is never blocked for good: its lease comes free after a crash, and
\* a handler that waits for a watch gives up at its deadline.
TasksSettle == DreamSettles /\ ReviewSettles /\ LeaseComesFree
===========================================================================
