----------------------------- MODULE RunTraces -----------------------------
(***************************************************************************)
(* The trace of a run: its stages and, in each, the steps the run page     *)
(* shows.  Callbacks of the orchestrator and of the agent write it through *)
(* the recorder and the reducer.  An analysis has the stage Run and then,  *)
(* on the render lane, Summary; a watch has one stage, which is written    *)
(* the way Run is.  Titles, summaries, data and times are left out.        *)
(***************************************************************************)
EXTENDS Naturals, Sequences, FiniteSets, FiniteSetsExt

CONSTANTS
  TraceTools,    \* ids of tool calls; a later batch may use one again
  MaxThoughts,   \* bound: segments of thinking
  MaxSummaries   \* MAX_SUMMARY_ATTEMPTS

ASSUME TraceAssumption ==
  TraceTools \subseteq Nat /\ MaxThoughts \in Nat /\ MaxSummaries \in Nat \ {0}

VARIABLES
  stage,     \* trace.stages: status, and steps in the order they are shown
  current,   \* trace.current_stage_id
  script     \* who writes: its stage, where it is, tool calls not answered yet
traceVars == <<stage, current, script>>

TraceStages == {"Run", "Summary"}
ResultId      == <<"result", 0>>
PromptId      == <<"prompt", 0>>
Fallback    == <<"status", 0>>   \* markdown_fallback
Checked     == <<"status", 1>>   \* the system's own steps, before and after the agent
Compacted   == <<"status", 2>>   \* context_compaction:n
FinalStep   == <<"status", 3>>
Tool(c)     == <<"tool", c>>
Thought(n)  == <<"thinking", n>>
Report      == 0                 \* what a stage returned; else the attempt that wrote it

TraceInit ==
  /\ stage = [s \in TraceStages |-> [status |-> "pending", steps |-> <<>>]]
  /\ current = "none"
  /\ \E watch \in BOOLEAN :
       script = [watch |-> watch, in |-> "Run", pc |-> "ready", asked |-> {}, attempt |-> 1]

In(s)    == script.in = s
At(pcs)  == script.pc \in pcs
Goes(pc) == script' = [script EXCEPT !.pc = pc]
Steps    == stage[script.in].steps

------------------------------------------------------------------------------
(* Lists of steps. *)

Holds(steps, id) == \E i \in DOMAIN steps : steps[i].id = id
TextOf(steps, id) == UNION {steps[i].text : i \in {j \in DOMAIN steps : steps[j].id = id}}

\* _ensure_step and what is set on it.
Put(steps, id, status, text) ==
  LET step == [id |-> id, status |-> status, text |-> text]
  IN IF Holds(steps, id)
     THEN [i \in DOMAIN steps |-> IF steps[i].id = id THEN step ELSE steps[i]]
     ELSE Append(steps, step)

\* _move_generated_steps_to_end, _move_result_to_end: popped and appended.
ResultLast(steps) ==
  LET at == CHOOSE i \in DOMAIN steps : steps[i].id = ResultId
  IN IF ~Holds(steps, ResultId) THEN steps
     ELSE [i \in DOMAIN steps |-> IF i < at THEN steps[i]
                                  ELSE IF i < Len(steps) THEN steps[i + 1] ELSE steps[at]]

RunningSteps(steps) == {i \in DOMAIN steps : steps[i].status = "running"}
Thinking(steps) == {i \in RunningSteps(steps) : steps[i].id[1] = "thinking"}

\* _close_running_steps, _close_open_steps
Closed(steps, status) ==
  [i \in DOMAIN steps |-> IF i \in RunningSteps(steps) THEN [steps[i] EXCEPT !.status = status] ELSE steps[i]]

\* close_running_segmented_thinking: the newest one.
ThinkingClosed(steps) ==
  IF Thinking(steps) = {} THEN steps ELSE [steps EXCEPT ![Max(Thinking(steps))].status = "completed"]

\* discard_result_draft
DraftDropped(steps) ==
  IF \E i \in RunningSteps(steps) : steps[i].id = ResultId
  THEN Put(steps, ResultId, "pending", {}) ELSE steps

Shows(s, steps) == stage' = [stage EXCEPT ![s].steps = steps]
EndsAs(s, status, steps) ==
  /\ stage' = [stage EXCEPT ![s] = [status |-> status, steps |-> steps]]
  /\ current' = IF current = s THEN "none" ELSE current

------------------------------------------------------------------------------
(* A stage and its agent. *)

\* on_state_entered.  Summary is entered when the run parks, and then waits.
EnterStage ==
  /\ At({"ready"}) /\ stage[script.in].status = "pending"
  /\ stage' = [stage EXCEPT ![script.in].status = "running"]
  /\ current' = script.in
  /\ Goes("prompting")

\* set_status_step for what the system itself does before and after the agent
\* (also when it has failed), and for a context that was compacted on the way.
SystemStep ==
  /\ \/ In("Run") /\ At({"prompting", "checking"})
          /\ Shows("Run", ResultLast(Put(Steps, Checked, "completed", {})))
     \/ At({"asking"}) /\ Shows(script.in, ResultLast(Put(Steps, Compacted, "completed", {})))
  /\ UNCHANGED <<current, script>>

\* on_stage_prompt_prepared; a summary's result starts anew with every attempt.
SummaryReset(steps) == Put(steps, ResultId, "running", {})
PromptPrepared ==
  LET prompted == ResultLast(Put(Steps, PromptId, "completed", {}))
  IN /\ At({"prompting"})
     /\ Shows(script.in, IF In("Run") THEN prompted ELSE ResultLast(SummaryReset(prompted)))
     /\ Goes("asking")
     /\ UNCHANGED current

\* append_segmented_thinking; a summary thinks in one step.
Thinks ==
  /\ At({"asking"})
  /\ \E n \in 0 .. MaxThoughts :
       /\ IF In("Summary") THEN n = 0
          ELSE IF Thinking(Steps) # {} THEN Thought(n) = Steps[Max(Thinking(Steps))].id
          ELSE n = 1 + Cardinality({i \in DOMAIN Steps : Steps[i].id[1] = "thinking"})
       /\ Shows(script.in, ResultLast(Put(Steps, Thought(n), "running", {})))
  /\ UNCHANGED <<current, script>>

\* start_tool_call_step, for every call of a reply before the first is made.
StartsTool(c) ==
  /\ In("Run") /\ At({"asking", "requesting"}) /\ c \notin script.asked
  /\ Shows("Run", ResultLast(Put(DraftDropped(ThinkingClosed(Steps)), Tool(c), "running", {})))
  /\ current' = "Run"
  /\ script' = [script EXCEPT !.pc = "requesting", !.asked = @ \cup {c}]

\* finish_tool_call_step, also of a call whose siblings have failed the stage:
\* nothing looks at the stage's status.
ShowsAnswer(c) ==
  \E status \in {"completed", "failed"} :    \* or blocked
    Shows("Run", ResultLast(Put(stage["Run"].steps, Tool(c), status, {})))

EndsTool(c) ==
  /\ At({"requesting", "answering"}) /\ c \in script.asked
  /\ ShowsAnswer(c)
  /\ script' = [script EXCEPT !.asked = @ \ {c},
                              !.pc = IF script.asked = {c} THEN "asking" ELSE "answering"]
  /\ UNCHANGED current

\* on_llm_stream_delta of text: only the reply that ends the agent's loop shows
\* any (LlmCalls).
Says ==
  /\ At({"asking", "saying"})
  /\ LET steps == IF In("Run") THEN ThinkingClosed(Steps) ELSE Steps
     IN Shows(script.in, Put(steps, ResultId, "running", TextOf(steps, ResultId) \cup {script.attempt}))
  /\ Goes("saying")
  /\ UNCHANGED current

Replied ==
  /\ At({"saying"})
  /\ Goes("checking")
  /\ UNCHANGED <<stage, current>>

\* on_state_completed.  A watch with nothing to do never asks.
StageCompletes ==
  /\ At({"checking"}) \/ (script.watch /\ At({"prompting"}))
  /\ LET steps == IF In("Run") THEN ThinkingClosed(Steps) ELSE Steps
     IN EndsAs(script.in, "completed",
             Closed(ResultLast(Put(Closed(steps, "completed"), ResultId, "completed", {Report})), "completed"))
  /\ script' = IF In("Run") /\ ~script.watch
               THEN [script EXCEPT !.in = "Summary", !.pc = "ready"]
               ELSE [script EXCEPT !.pc = "ended"]

\* _record_final_status_step, on the stage the run ends with.
FinalStatus ==
  /\ At({"ended"})
  /\ Shows(script.in, ResultLast(Put(Steps, FinalStep, "completed", {})))
  /\ Goes("closed")
  /\ UNCHANGED current

------------------------------------------------------------------------------
(* What goes wrong. *)

\* _generate_summary tries again, then on_state_degraded.
SummaryAgain ==
  /\ In("Summary") /\ At({"prompting", "asking", "saying", "checking"})
  /\ script.attempt < MaxSummaries
  /\ script' = [script EXCEPT !.pc = "prompting", !.attempt = @ + 1]
  /\ UNCHANGED <<stage, current>>

SummaryDegrades ==
  /\ In("Summary") /\ At({"prompting", "asking", "saying", "checking"})
  /\ script.attempt = MaxSummaries
  /\ EndsAs("Summary", "degraded",
          Closed(ResultLast(Put(Steps, Fallback, "completed", {})), "failed"))
  /\ Goes("ended")

\* An abort or an exception, also that of writing one tool's result: the calls
\* beside it go on.
StageBreaks ==
  /\ ~At({"ended", "broken", "failed", "closed"})
  /\ Goes("broken")
  /\ UNCHANGED <<stage, current>>

\* _record_aborted_run and _record_failed_run.
OnlyMarked(steps) == steps \* mutant: the steps are left as they are
Unfinished(steps) == Closed(steps, "failed")

StageFailed ==
  /\ At({"broken"})
  /\ EndsAs(script.in, "failed", Unfinished(Steps))
  /\ Goes("failed")

LateAnswer(c) ==
  /\ At({"broken", "failed"}) /\ c \in script.asked
  /\ ShowsAnswer(c)
  /\ script' = [script EXCEPT !.asked = @ \ {c}]
  /\ UNCHANGED current

\* _reset_runtime: whatever comes later finds no run to write to.
RuntimeReset ==
  /\ At({"failed"})
  /\ script' = [script EXCEPT !.pc = "closed", !.asked = {}]
  /\ UNCHANGED <<stage, current>>

TraceNext ==
  \/ EnterStage \/ SystemStep \/ PromptPrepared \/ Thinks \/ Says \/ Replied
  \/ \E c \in TraceTools : StartsTool(c) \/ EndsTool(c) \/ LateAnswer(c)
  \/ StageCompletes \/ FinalStatus \/ SummaryAgain \/ SummaryDegrades
  \/ StageBreaks \/ StageFailed \/ RuntimeReset

------------------------------------------------------------------------------
\* What the run page reads off the trace is so, whatever was going on when a
\* stage ended and whatever comes after: a stage that has ended has no step
\* still running and is not the current one; a result is the last step, holds
\* the text of one attempt while it is written, and what the stage returned once
\* it is completed; nobody thinks while a tool runs.
TraceTellsTheRun ==
  \A s \in TraceStages :
    LET steps == stage[s].steps
        tools == {i \in RunningSteps(steps) : steps[i].id[1] = "tool"}
    IN /\ stage[s].status \notin {"pending", "running"} => RunningSteps(steps) = {} /\ current # s
       /\ \A i \in DOMAIN steps : steps[i].id = ResultId =>
            /\ i = Len(steps)
            /\ stage[s].status = "completed" => steps[i].text = {Report}
            /\ Cardinality(steps[i].text) <= 1
       /\ tools # {} => Thinking(steps) = {}
=============================================================================
