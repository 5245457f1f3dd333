------------------------------ MODULE LlmCalls ------------------------------
(***************************************************************************)
(* One call of a language model: generate_tool_loop_response, or           *)
(* generate_text_output for a summary, asks up to MaxAttempts times.  Each *)
(* attempt is a stream: a producer task opens the provider's stream and    *)
(* puts events in a bounded queue, which the caller empties.  Thinking is  *)
(* shown as it arrives, text only once the reply is accepted as the last.  *)
(***************************************************************************)
EXTENDS Naturals, Sequences

CONSTANTS
  MaxAttempts,   \* MAX_LLM_ATTEMPTS
  MaxOpenings,   \* RetryPolicy.max_retries + 1
  Buffered,      \* max_buffered_events
  MaxPieces      \* bound: pieces of thinking, and of text, in a reply

VARIABLES
  call,      \* the caller: locals of the function and what it accepted
  pipe,      \* the AssistantMessageEventStream of the attempt, with its producer
  sink,      \* what the stream sink got: thinking and text
  callCut    \* the abort signal
callVars == <<call, pipe, sink, callCut>>

Piece(kind, a, i) == [kind |-> kind, attempt |-> a, at |-> i]
Note              == [kind |-> "note"]           \* _CUT_OFF_NOTE
Modes             == {"tool_loop", "text"}
NoReply           == [texts |-> <<>>, tools |-> FALSE, whole |-> FALSE]

\* The attempt's stream, when its producer task has just been attached.
FreshPipe ==
  [producer |-> "opening", openings |-> 1, queue |-> <<>>, closed |-> FALSE,
   thought |-> 0, texts |-> <<>>]
NoPipe ==
  [producer |-> "gone", openings |-> 1, queue |-> <<>>, closed |-> TRUE, thought |-> 0, texts |-> <<>>]

CallInit ==
  /\ call = [pc |-> "idle", mode |-> "text", attempt |-> 0, buffer |-> <<>>, reply |-> NoReply]
  /\ pipe = NoPipe
  /\ sink = [thinking |-> <<>>, text |-> <<>>]
  /\ callCut = FALSE

CallBegins ==
  /\ call.pc = "idle"
  /\ \E mode \in Modes : call' = [call EXCEPT !.pc = "reading", !.mode = mode, !.attempt = 1]
  /\ pipe' = FreshPipe
  /\ UNCHANGED <<sink, callCut>>

CallAborted ==
  /\ call.pc \in {"reading", "pausing", "showing"} /\ ~callCut
  /\ callCut' = TRUE
  /\ UNCHANGED <<call, pipe, sink>>

--------------------------------------------------------------------------
(* The producer. *)

HasRoom == Len(pipe.queue) < Buffered
HasOutput == pipe.texts # <<>> \/ pipe.thought > 0

\* has_output
Began == HasOutput

\* emit of a terminal event, the last thing a producer does.
EndsWith(event) ==
  /\ HasRoom
  /\ pipe' = [pipe EXCEPT !.producer = "gone", !.closed = TRUE, !.queue = Append(@, event)]

Failure(usual, override) == [kind |-> "failed", usual |-> usual, override |-> override, cut |-> FALSE]

\* retry_provider_request: the failure of the last opening is final, as is one
\* that is not worth another.
Opens ==
  /\ pipe.producer = "opening"
  /\ \/ pipe' = [pipe EXCEPT !.producer = "streaming"]
     \/ pipe.openings < MaxOpenings /\ pipe' = [pipe EXCEPT !.openings = @ + 1]
     \/ \E usual \in BOOLEAN : EndsWith(Failure(usual, TRUE))
  /\ UNCHANGED <<call, sink, callCut>>

\* stream_message: thinking and text arrive, then the provider's stream ends,
\* with a finish reason (the reply is then complete), without one, or broken.
Streams ==
  /\ pipe.producer = "streaming" /\ HasRoom
  /\ \/ /\ pipe.thought < MaxPieces /\ pipe.texts = <<>>
        /\ pipe' = [pipe EXCEPT !.thought = @ + 1,
                                !.queue = Append(@, Piece("thinking", call.attempt, pipe.thought + 1))]
     \/ /\ Len(pipe.texts) < MaxPieces
        /\ LET piece == Piece("text", call.attempt, Len(pipe.texts) + 1)
           IN pipe' = [pipe EXCEPT !.texts = Append(@, piece), !.queue = Append(@, piece)]
     \/ /\ HasOutput
        /\ \E tools, whole \in BOOLEAN :
             EndsWith([kind |-> "completed",
                       reply |-> [texts |-> pipe.texts, tools |-> tools, whole |-> whole]])
     \/ \E usual \in BOOLEAN : EndsWith([Failure(usual, Began) EXCEPT !.cut = Began])
  /\ UNCHANGED <<call, sink, callCut>>

\* await_with_abort: the signal cancels the producer.
ProducerAborts ==
  /\ callCut /\ pipe.producer \in {"opening", "streaming"}
  /\ pipe' = [pipe EXCEPT !.producer = "cancelled"]
  /\ UNCHANGED <<call, sink, callCut>>

NotNoticed == FALSE     \* mutant: a producer that dies without a terminal event
\* _producer_done finds no terminal event: it drops what is queued and puts one.
Unterminated == pipe.producer = "cancelled" /\ ~pipe.closed
ProducerDone ==
  /\ Unterminated
  /\ pipe' = [pipe EXCEPT !.producer = "gone", !.closed = TRUE, !.queue = <<Failure(FALSE, TRUE)>>]
  /\ UNCHANGED <<call, sink, callCut>>

--------------------------------------------------------------------------
(* The caller. *)

\* A tool loop has shown nothing of a reply cut off midway, the usual rules
\* decide; a text generation may have, and does not ask again.
Retryable(failure) ==
  IF failure.cut THEN call.mode = "tool_loop" /\ failure.usual
  ELSE ~failure.override /\ failure.usual

Takes(event) ==
  CASE event.kind = "text" ->
         /\ call' = [call EXCEPT !.buffer = Append(@, event)]
         /\ UNCHANGED sink
    [] event.kind = "thinking" ->
         /\ sink' = IF call.mode = "tool_loop" THEN [sink EXCEPT !.thinking = Append(@, event)] ELSE sink
         /\ UNCHANGED call
    [] event.kind = "completed" ->
         /\ call' = [call EXCEPT !.reply = event.reply,
                                 !.pc = IF callCut \/ (call.mode = "text" /\ ~event.reply.whole)
                                        THEN "failed"
                                        ELSE IF call.mode = "text" \/ event.reply.tools \/ ~event.reply.whole
                                        THEN "done" ELSE "showing"]
         /\ UNCHANGED sink
    [] event.kind = "failed" ->
         LET again == Retryable(event) /\ call.attempt < MaxAttempts
         IN /\ call' = [call EXCEPT !.pc = IF again THEN "pausing" ELSE "failed"]
            /\ sink' = IF again /\ event.cut THEN [sink EXCEPT !.thinking = Append(@, Note)] ELSE sink

CallReads ==
  /\ call.pc = "reading" /\ pipe.queue # <<>>
  /\ Takes(Head(pipe.queue))
  /\ pipe' = [pipe EXCEPT !.queue = Tail(@)]
  /\ UNCHANGED callCut

Kept(buffer) == buffer     \* mutant: the text of a failed attempt stays
Cleared(buffer) == <<>>

\* _sleep_before_retry and the next attempt.
CallAsksAgain ==
  /\ call.pc = "pausing"
  /\ IF callCut
     THEN call' = [call EXCEPT !.pc = "failed"] /\ UNCHANGED pipe
     ELSE /\ call' = [call EXCEPT !.pc = "reading", !.attempt = @ + 1, !.buffer = Cleared(@)]
          /\ pipe' = FreshPipe
  /\ UNCHANGED <<sink, callCut>>

\* _publish_buffered_report_text, piece by piece.
CallShows ==
  /\ call.pc = "showing"
  /\ IF call.buffer = <<>>
     THEN call' = [call EXCEPT !.pc = "done"] /\ UNCHANGED sink
     ELSE /\ sink' = [sink EXCEPT !.text = Append(@, Head(call.buffer))]
          /\ call' = [call EXCEPT !.buffer = Tail(@)]
  /\ UNCHANGED <<pipe, callCut>>

\* The caller's task is cancelled, or its sink cannot write.
CallCancelled ==
  /\ call.pc \in {"reading", "pausing", "showing"}
  /\ call' = [call EXCEPT !.pc = "failed"]
  /\ UNCHANGED <<pipe, sink, callCut>>

\* aclose, when the caller leaves the stream before its terminal event.
StreamCloses ==
  /\ call.pc = "failed" /\ pipe.producer # "gone"
  /\ pipe' = [pipe EXCEPT !.producer = "gone", !.closed = TRUE, !.queue = <<Failure(FALSE, TRUE)>>]
  /\ UNCHANGED <<call, sink, callCut>>

ProducerStep == Opens \/ Streams \/ ProducerDone
CallerStep   == CallReads \/ CallAsksAgain \/ CallShows \/ StreamCloses
CallNext == CallBegins \/ CallAborted \/ ProducerStep \/ ProducerAborts \/ CallerStep \/ CallCancelled

--------------------------------------------------------------------------
\* The sink shows the text of the one reply that was accepted as the last, in
\* order and in the end all of it, and nothing of one that asks for tools or was
\* cut off; thinking of two attempts is never run together.
ReplyShownOnce ==
  /\ Len(sink.text) <= Len(call.reply.texts)
  /\ sink.text = SubSeq(call.reply.texts, 1, Len(sink.text))
  /\ sink.text # <<>> => call.reply.whole /\ ~call.reply.tools
  /\ call.pc = "done" /\ call.mode = "tool_loop" /\ call.reply.whole /\ ~call.reply.tools =>
       sink.text = call.reply.texts
  /\ \A i \in 1 .. Len(sink.thinking) - 1 :
       LET one == sink.thinking[i]  two == sink.thinking[i + 1]
       IN one # Note /\ two # Note => one.attempt = two.attempt

\* A call ends, and leaves no producer behind: whatever comes first of an
\* abort, a full queue, a broken stream and a cancelled caller.
CallSettles ==
  call.pc = "reading" ~> call.pc \in {"done", "failed"} /\ pipe.producer = "gone"
=============================================================================
