----------------------------- MODULE AgentTurn -----------------------------
(***************************************************************************)
(* AgentHarness.prompt: one prompt of a session is a loop of model         *)
(* requests and batches of tool calls, whose messages reach the session's  *)
(* journal only when the model gives its final answer.  A conversation     *)
(* that outgrows its budget is compacted in between.  Every message costs  *)
(* one token, a summary two.                                               *)
(***************************************************************************)
EXTENDS Naturals, Sequences, FiniteSets

CONSTANTS
  Keys,            \* the calls a model may ask for: tool and arguments
  SequentialKeys,  \* those of tools with execution_mode "sequential": all that write
  MaxFailures,     \* MAX_IDENTICAL_FAILURES
  Concurrency,     \* max_parallel_tool_calls
  Room,            \* token_budget
  KeepRecent,      \* min(keep_recent_tokens, token_budget // 2)
  MaxPrompts,      \* bound: prompts of the session
  MaxReplies       \* bound: replies of the model before it stops asking for tools

ASSUME TurnAssumption ==
  /\ SequentialKeys \subseteq Keys
  /\ MaxFailures \in Nat \ {0} /\ Concurrency \in Nat \ {0}

VARIABLES
  journal,   \* AgentSession._journal: messages and checkpoints
  turn,      \* locals of AgentLoop.run, and the batch of calls it waits for
  failures,  \* RepeatedFailureLedger of the prompt
  aborted,   \* the prompt's combined abort signal
  answered   \* history: the messages of the last prompt that was answered
turnVars == <<journal, turn, failures, aborted, answered>>

System         == [role |-> "system"]
Summary        == [role |-> "summary"]
User(n)        == [role |-> "user", n |-> n]
Reply(n, k)    == [role |-> "assistant", n |-> n, calls |-> k]
Result(n, i)   == [role |-> "tool", of |-> n, at |-> i]
Checkpoint(ms) == [role |-> "checkpoint", kept |-> ms]

\* What the two at the table say: all but the system message and the summary.
Dialogue == [role : {"user"}, n : Nat] \cup [role : {"assistant"}, n : Nat, calls : Nat]
            \cup [role : {"tool"}, of : Nat, at : Nat]
Message  == {System, Summary} \cup Dialogue

\* The members of S among the entries, in their order.
Among(entries, S) ==
  LET upto[n \in 0 .. Len(entries)] ==
        IF n = 0 THEN <<>>
        ELSE IF entries[n] \in S THEN Append(upto[n - 1], entries[n]) ELSE upto[n - 1]
  IN upto[Len(entries)]

Said(entries) == Among(entries, Message)
Least(S)    == CHOOSE i \in S : \A j \in S : i <= j
Greatest(S) == CHOOSE i \in S : \A j \in S : j <= i

\* AgentSession.messages: what the latest checkpoint left, and what came after it.
Projection(entries) ==
  LET marks == {i \in DOMAIN entries : entries[i].role = "checkpoint"}
      last  == Greatest(marks)
  IN IF marks = {} THEN Said(entries)
     ELSE Among(entries, {System}) \o <<Summary>> \o entries[last].kept
          \o Said(SubSeq(entries, last + 1, Len(entries)))

--------------------------------------------------------------------------
(* Compaction. *)

Weight(ms) == Len(ms) + Len(Among(ms, {Summary}))

\* _split_transcript pins the system message and the last user message.
Pinned(ms)  == ms[Greatest({i \in DOMAIN ms : ms[i].role = "user"})]
History(ms) == Among(ms, Dialogue \ {Pinned(ms)})

AnyStart(h) == DOMAIN h     \* mutant: messages kept one by one, not by turns
\* _history_turns: a turn is an assistant's message with what follows it.
TurnStarts(h) ==
  {i \in DOMAIN h : h[i].role = "assistant" \/ \A j \in 1 .. i : h[j].role # "assistant"}

\* _retained_history_suffix: the whole turns at the end that fit.
Suffix(h) ==
  LET fitting == {i \in TurnStarts(h) : Len(h) - i < KeepRecent}
  IN IF fitting = {} THEN <<>> ELSE SubSeq(h, Least(fitting), Len(h))

Assembled(ms, kept) == <<System, Summary>> \o kept \o <<Pinned(ms)>>

\* compact_context_messages: what may be kept beside the summary.  A suffix that
\* is the whole history, or leaves no room, or whose summary stays too long
\* gives way to a summary of everything.
Keepable(ms, force) ==
  LET h == History(ms)
  IN {kept \in {<<>>} \cup (IF force THEN {} ELSE {Suffix(h)}) :
        /\ h # <<>> /\ (kept # <<>> => Len(kept) < Len(h))
        /\ Weight(Assembled(ms, kept)) <= Room}

KeptWithoutUser(ms, kept) == kept     \* mutant: checkpoint without the pinned prompt
Retained(ms, kept) == Append(kept, Pinned(ms))

Recast(kept) ==
  [turn EXCEPT !.pc = "ask",
               !.messages  = Assembled(@, kept),
               !.mutations = Append(@, Checkpoint(Retained(turn.messages, kept)))]

--------------------------------------------------------------------------
(* The loop. *)

TurnInit ==
  /\ journal = <<>> /\ answered = <<>> /\ aborted = FALSE
  /\ failures = [k \in Keys |-> 0]
  /\ turn = [pc |-> "idle", prompt |-> 0, replies |-> 0, messages |-> <<>>, mutations |-> <<>>,
             recovered |-> FALSE, batch |-> <<>>]

\* prompt and build_initial_turn_messages.  No caller prompts a harness again
\* after a prompt of it failed.
PromptStarts ==
  /\ turn.pc = "idle" /\ turn.prompt < MaxPrompts
  /\ LET history == Projection(journal)
         opening == IF history = <<>> THEN <<System, User(1)>> ELSE <<User(turn.prompt + 1)>>
     IN turn' = [turn EXCEPT !.pc = "top", !.prompt = @ + 1, !.recovered = FALSE,
                             !.messages = history \o opening, !.mutations = opening]
  /\ failures' = [k \in Keys |-> 0]
  /\ aborted' = FALSE
  /\ UNCHANGED <<journal, answered>>

\* abort of the harness, or the run's own signal.
PromptAborted ==
  /\ turn.pc # "idle" /\ ~aborted
  /\ aborted' = TRUE
  /\ UNCHANGED <<journal, turn, failures, answered>>

\* _compact_messages_for_next_turn at the top of an iteration.
Compacts ==
  /\ turn.pc = "top" /\ ~aborted
  /\ IF Weight(turn.messages) <= Room
     THEN turn' = [turn EXCEPT !.pc = "ask"]
     ELSE \E kept \in Keepable(turn.messages, FALSE) : turn' = Recast(kept)
  /\ UNCHANGED <<journal, failures, aborted, answered>>

\* The provider finds the request too long: one forced compaction per turn.
Overflows ==
  /\ turn.pc = "ask" /\ ~turn.recovered
  /\ \E kept \in Keepable(turn.messages, TRUE) :
       turn' = [Recast(kept) EXCEPT !.recovered = TRUE]
  /\ UNCHANGED <<journal, failures, aborted, answered>>

\* A reply without tool calls: the session takes the turn's mutations.
Answers ==
  /\ turn.pc = "ask" /\ ~aborted
  /\ LET reply == Reply(turn.replies + 1, 0)
     IN /\ journal' = journal \o Append(turn.mutations, reply)
        /\ answered' = Append(turn.messages, reply)
  /\ turn' = [turn EXCEPT !.pc = "idle", !.replies = @ + 1, !.messages = <<>>, !.mutations = <<>>]
  /\ UNCHANGED <<failures, aborted>>

\* A reply that asks for a batch of one or two calls.
AsksTools ==
  /\ turn.pc = "ask" /\ ~aborted /\ turn.replies < MaxReplies
  /\ \E keys \in [1 .. 1 -> Keys] \cup [1 .. 2 -> Keys] :
       LET reply == Reply(turn.replies + 1, Len(keys))
       IN turn' = [turn EXCEPT !.pc = "calls", !.replies = @ + 1,
                               !.messages = Append(@, reply), !.mutations = Append(@, reply),
                               !.batch = [i \in DOMAIN keys |-> [key |-> keys[i], state |-> "waiting"]]]
  /\ UNCHANGED <<journal, failures, aborted, answered>>

\* A request that fails or is aborted, a budget that cannot be kept, an event
\* that cannot be written: the turn's mutations are dropped.
PromptFails ==
  /\ turn.pc \in {"top", "ask"}
  /\ turn' = [turn EXCEPT !.pc = "failed", !.messages = <<>>, !.mutations = <<>>]
  /\ UNCHANGED <<journal, failures, aborted, answered>>

--------------------------------------------------------------------------
(* execute_tool_call_batch. *)

With(state) == {i \in DOMAIN turn.batch : turn.batch[i].state = state}
Asked       == {turn.batch[i].key : i \in DOMAIN turn.batch}

AllSequential == Asked # {} /\ Asked \subseteq SequentialKeys   \* mutant: a mixed batch runs in parallel
OneByOne == Asked \cap SequentialKeys # {}
Slots    == IF OneByOne THEN 1 ELSE Concurrency

\* An exception leaves a sequential batch at once.  gather passes it on and
\* leaves the other calls of a parallel batch to themselves.
Torn(batch) ==
  [turn EXCEPT !.pc = "failed", !.messages = <<>>, !.mutations = <<>>,
               !.batch = IF OneByOne
                         THEN [i \in DOMAIN batch |-> [batch[i] EXCEPT !.state = "done"]] ELSE batch]

\* A call has its result; on_result reports it, and may raise.
Settles(i) ==
  LET batch == [turn.batch EXCEPT ![i].state = "done"]
  IN turn' \in {[turn EXCEPT !.batch = batch], Torn(batch)}

RefusesLate(k) == failures[k] > MaxFailures     \* mutant: one failure too many
\* refusal_for
Refuses(k) == failures[k] >= MaxFailures

\* The next call in source order gets the semaphore: it is aborted, not
\* available, refused by policy or by the ledger, or it runs.
CallStarts ==
  /\ With("waiting") # {} /\ Cardinality(With("running")) < Slots
  /\ LET i == Least(With("waiting"))
     IN \/ Settles(i)
        \/ /\ ~aborted /\ ~Refuses(turn.batch[i].key)
           /\ turn' = [turn EXCEPT !.batch[i].state = "running"]
  /\ UNCHANGED <<journal, failures, aborted, answered>>

\* A tool returns, reports an error or raises one; an aborted one raises
\* CancelledError, which the ledger does not count.
CallEnds(i) ==
  /\ turn.batch[i].state = "running"
  /\ \E failed \in BOOLEAN :
       failures' = IF failed THEN [failures EXCEPT ![turn.batch[i].key] = @ + 1] ELSE failures
  /\ Settles(i)
  /\ UNCHANGED <<journal, aborted, answered>>

\* The task of the prompt is cancelled, and every call with it; or the abort is
\* seen while the calls are announced, before any of them starts.
BatchCancelled ==
  /\ turn.pc = "calls"
  /\ turn' = [turn EXCEPT !.pc = "failed", !.messages = <<>>, !.mutations = <<>>, !.batch = <<>>]
  /\ UNCHANGED <<journal, failures, aborted, answered>>

\* All results are there, and enter the conversation in source order.
BatchEnds ==
  /\ turn.pc = "calls" /\ With("done") = DOMAIN turn.batch
  /\ LET results == [i \in DOMAIN turn.batch |-> Result(turn.replies, i)]
     IN turn' = [turn EXCEPT !.pc = "top", !.recovered = FALSE, !.batch = <<>>,
                             !.messages = @ \o results, !.mutations = @ \o results]
  /\ UNCHANGED <<journal, failures, aborted, answered>>

TurnNext ==
  \/ PromptStarts \/ PromptAborted \/ Compacts \/ Overflows \/ Answers \/ AsksTools \/ PromptFails
  \/ CallStarts \/ (\E i \in DOMAIN turn.batch : CallEnds(i)) \/ BatchCancelled \/ BatchEnds

--------------------------------------------------------------------------
\* Every request a provider gets is one it accepts, however often the
\* conversation was compacted: the system message first, the prompt under way
\* once, every reply followed by the results of all its calls, no result alone.
RequestsWellFormed ==
  turn.pc = "ask" =>
    LET ms == turn.messages
    IN /\ ms[1] = System /\ Len(Among(ms, {System})) = 1
       /\ Cardinality({i \in DOMAIN ms : ms[i] = User(turn.prompt)}) = 1
       /\ Len(Among(ms, {Summary})) <= 1
       /\ \A i \in DOMAIN ms : ms[i].role = "assistant" =>
            \A c \in 1 .. ms[i].calls : i + c <= Len(ms) /\ ms[i + c] = Result(ms[i].n, c)
       /\ \A i \in DOMAIN ms : ms[i].role = "tool" =>
            i > ms[i].at /\ ms[i - ms[i].at].role = "assistant" /\ ms[i - ms[i].at].n = ms[i].of

\* What the session projects from its journal is what the model saw last, so
\* the next prompt continues that conversation; a failed prompt leaves nothing.
SessionMirrorsLoop == Projection(journal) = answered

\* An identical call fails at most twice in a prompt, or once more for each
\* other call that may have been under way; a call that writes never more.
RepeatsBounded ==
  \A k \in Keys :
    failures[k] <= MaxFailures + (IF k \in SequentialKeys THEN 0 ELSE Concurrency - 1)

\* A call that writes runs with no other call beside it, and none runs once the
\* prompt that asked for it has failed.
WritesRunAlone ==
  \A i \in With("running") : turn.batch[i].key \in SequentialKeys =>
    turn.pc = "calls" /\ With("running") = {i}
=============================================================================
