------------------------------- MODULE MCDesk -------------------------------
(***************************************************************************)
(* The trading desk for TLC: buys and cancellations, order plans, the      *)
(* agent's own loop, the replies it gets, the models it runs on, the       *)
(* public data it reads, the objections it answers, the memories it keeps  *)
(* and the trace it leaves.                                                *)
(* They share no state, so a behaviour follows one of them and leaves the  *)
(* others as they started.                                                 *)
(***************************************************************************)
EXTENDS ValuationCancellation, OrderPlans, AgentTurn, ModelChannels, PublicReads,
        OpenFindings, Memories, ReplyStreams, RunTraces

\* sentiment.hot_list: one source, one request at a time.
MCRoute == <<[lane |-> "ths", reserve |-> FALSE, onEmpty |-> FALSE]>>

VARIABLE part
vars == <<deskVars, planVars, turnVars, modelVars, publicVars,
          findingVars, memoryVars, replyVars, traceVars, part>>

Budget(declare, buy, cancel, cycle, die, limit) ==
  [declare |-> declare, buy |-> buy, cancel |-> cancel, cycle |-> cycle, die |-> die,
   cap |-> limit]

\* Two runs that declare different caps and buy; two that buy and one dies; two
\* buys beside the model's own cancel, and beside a cycle; a cycle beside the
\* model's cancel; two cycles and a crash.
MCBudgets == {Budget(2, 2, 0, 0, 0, 3), Budget(1, 2, 0, 0, 1, 3), Budget(1, 2, 1, 0, 0, 2),
              Budget(1, 2, 0, 1, 0, 2), Budget(1, 1, 1, 1, 0, 2), Budget(1, 1, 0, 2, 1, 2)}

Parts == {"desk", "plans", "turn", "models", "public", "findings", "memories",
          "replies", "trace"}

Init == /\ DeskInit /\ PlanInit /\ TurnInit /\ ModelInit /\ PublicInit
        /\ FindingInit /\ MemoryInit /\ ReplyInit /\ TraceInit
        /\ part \in Parts
        /\ part # "desk" => left = Budget(1, 1, 1, 1, 0, 2)
        /\ part # "replies" => stream.api = "openai"
        /\ part # "trace" => script.watch

\* What the behaviour does not follow stays as it started.
Only(p) ==
  /\ part = p /\ UNCHANGED part
  /\ IF p = "desk"     THEN TRUE ELSE UNCHANGED deskVars
  /\ IF p = "plans"    THEN TRUE ELSE UNCHANGED planVars
  /\ IF p = "turn"     THEN TRUE ELSE UNCHANGED turnVars
  /\ IF p = "models"   THEN TRUE ELSE UNCHANGED modelVars
  /\ IF p = "public"   THEN TRUE ELSE UNCHANGED publicVars
  /\ IF p = "findings" THEN TRUE ELSE UNCHANGED findingVars
  /\ IF p = "memories" THEN TRUE ELSE UNCHANGED memoryVars
  /\ IF p = "replies"  THEN TRUE ELSE UNCHANGED replyVars
  /\ IF p = "trace"    THEN TRUE ELSE UNCHANGED traceVars

Next ==
  \/ Only("desk") /\ DeskNext
  \/ Only("plans") /\ PlanNext
  \/ Only("turn") /\ TurnNext
  \/ Only("models") /\ ModelNext
  \/ Only("public") /\ PublicNext
  \/ Only("findings") /\ FindingNext
  \/ Only("memories") /\ MemoryNext
  \/ Only("replies") /\ ReplyNext
  \/ Only("trace") /\ TraceNext
Spec == Init /\ [][Next]_vars
=============================================================================
