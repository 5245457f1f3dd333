---------------------------- MODULE ReplyStreams ----------------------------
(***************************************************************************)
(* What an accumulator makes of a provider's stream: OpenAI's, where blocks *)
(* open with their first piece and all end when the stream has ended, and   *)
(* Anthropic's, where the provider opens and stops each of them.  It tells  *)
(* events block by block and returns a message, of a reply that broke off   *)
(* the message of what is left of it.  Signatures, usage and the reason a   *)
(* reply stopped are left out.                                             *)
(***************************************************************************)
EXTENDS Naturals, Sequences, FiniteSets, SequencesExt, FiniteSetsExt

CONSTANTS
  MaxBlocks,     \* bound: blocks of a reply
  MaxBlockPieces \* bound: pieces of a block

ASSUME ReplyAssumption == MaxBlocks \in Nat /\ MaxBlockPieces \in Nat

VARIABLES
  stream,    \* which accumulator, what it is doing, and the blocks it has finished
  block,     \* order/tools/text_parts ..., or states: by content index
  told,      \* the events emitted, by content index
  reply      \* the content of the message returned: indices of the blocks in it
replyVars == <<stream, block, told, reply>>

Indices == 1 .. MaxBlocks
NoBlock == [kind |-> "none", pieces |-> 0, name |-> "none", ended |-> FALSE, parsed |-> FALSE]
Opened(kind) == [NoBlock EXCEPT !.kind = kind]
Present == {i \in Indices : block[i].kind # "none"}
IsTool(i) == block[i].kind = "tool"

Start    == [event |-> "started", pieces |-> 0]
Delta(n) == [event |-> "delta", pieces |-> n]
EndOf(i) == [event |-> "ended", pieces |-> block[i].pieces]

ReplyInit ==
  /\ \E api \in {"openai", "anthropic"} :
       stream = [api |-> api, pc |-> "reading", finished |-> {}, refused |-> FALSE]
  /\ block = [i \in Indices |-> NoBlock]
  /\ told = [i \in Indices |-> <<>>]
  /\ reply = {}

Reading(api) == stream.pc = "reading" /\ stream.api = api
Adds(i, b, events) ==
  /\ block' = [block EXCEPT ![i] = b]
  /\ told' = [told EXCEPT ![i] = @ \o events]
  /\ UNCHANGED <<stream, reply>>

------------------------------------------------------------------------------
(* OpenAI's chunks. *)

\* A block that exists already, or the next one.
Where(found) == IF found # {} THEN found ELSE Indices \cap {Cardinality(Present) + 1}

\* _accept_reasoning and _accept_text: one block of each kind. A refusal is text.
OpenAiText ==
  /\ Reading("openai")
  /\ \E kind \in {"text", "thinking"} :
       \E i \in Where({j \in Present : block[j].kind = kind}) :
         LET new == i \notin Present
             b   == IF new THEN Opened(kind) ELSE block[i]
         IN /\ b.pieces < MaxBlockPieces
            /\ Adds(i, [b EXCEPT !.pieces = @ + 1],
                    (IF new THEN <<Start>> ELSE <<>>) \o <<Delta(1)>>)

OpenAiRefuses ==
  /\ Reading("openai") /\ ~stream.refused /\ \E i \in Present : block[i].kind = "text"
  /\ stream' = [stream EXCEPT !.refused = TRUE]
  /\ UNCHANGED <<block, told, reply>>

\* _accept_tool_call: a piece of a name, of the arguments, or neither. Nothing
\* is told before there is a name, then what came until now is told at once.
Joined(name, more) ==
  IF more = "none" THEN name ELSE IF "good" \in {name, more} THEN "good" ELSE "blank"

OpenAiTool ==
  /\ Reading("openai")
  /\ \E i \in {j \in Present : IsTool(j)} \cup Where({}),
        name \in {"none", "blank", "good"}, piece \in {0, 1} :
       LET b      == IF i \in Present THEN block[i] ELSE Opened("tool")
           joined == Joined(b.name, name)
           starts == b.name = "none" /\ joined # "none"
       IN /\ b.pieces + piece <= MaxBlockPieces
          /\ Adds(i, [b EXCEPT !.name = joined, !.pieces = @ + piece],
                  (IF starts THEN <<Start>> ELSE <<>>)
                    \o (IF starts /\ b.pieces > 0 THEN <<Delta(b.pieces)>> ELSE <<>>)
                    \o (IF joined # "none" /\ piece = 1 THEN <<Delta(1)>> ELSE <<>>))

------------------------------------------------------------------------------
(* Anthropic's events. *)

BlockStarts ==
  /\ Reading("anthropic")
  /\ \E i \in Indices \ Present, kind \in {"text", "thinking", "tool"}, name \in {"blank", "good"},
        piece \in {0, 1} :
       /\ kind # "tool" => name = "blank"
       /\ kind = "tool" => piece = 0
       /\ Adds(i, [Opened(kind) EXCEPT !.name = name, !.pieces = piece],
               <<Start>> \o IF piece = 1 THEN <<Delta(1)>> ELSE <<>>)

BlockGrows ==
  /\ Reading("anthropic")
  /\ \E i \in Present : /\ ~block[i].ended /\ block[i].pieces < MaxBlockPieces
                        /\ Adds(i, [block[i] EXCEPT !.pieces = @ + 1], <<Delta(1)>>)

\* _accept_block_stop; a tool's name and arguments may turn out to be no good.
BreaksOff == stream' = [stream EXCEPT !.pc = "failing"] /\ UNCHANGED <<block, told, reply>>

BlockStops ==
  /\ Reading("anthropic")
  /\ \E i \in {j \in Present : ~block[j].ended} :
       \/ IsTool(i) /\ BreaksOff
       \/ /\ IsTool(i) => block[i].name = "good"
          /\ Adds(i, [block[i] EXCEPT !.ended = TRUE, !.parsed = IsTool(i)], <<EndOf(i)>>)

------------------------------------------------------------------------------
(* The end of the stream. *)

\* A transport error, an abort, an event no accumulator accepts.
Breaks == stream.pc = "reading" /\ BreaksOff

Content == {i \in Present : IF IsTool(i) THEN block[i].parsed ELSE block[i].pieces > 0}
ReturnsMessage(pc) ==
  /\ stream' = [stream EXCEPT !.pc = pc]
  /\ reply' = Content
  /\ UNCHANGED <<block, told>>

\* finish, Anthropic: every block must have been stopped; only a context that
\* ran over may leave no content.
FinishAnthropic ==
  /\ Reading("anthropic")
  /\ \/ /\ (\E i \in Present : ~block[i].ended) \/ Content = {}
        /\ BreaksOff
     \/ /\ \A i \in Present : block[i].ended
        /\ ReturnsMessage("done")

FinishOpenAi ==
  /\ Reading("openai")
  /\ stream' = [stream EXCEPT !.pc = "finishing"]
  /\ UNCHANGED <<block, told, reply>>

EndBlockAgain(i) == told' = [told EXCEPT ![i] = Append(@, EndOf(i))] /\ UNCHANGED block \* mutant: text_ended is not kept
EndBlock(i) ==
  /\ told' = [told EXCEPT ![i] = Append(@, EndOf(i))]
  /\ block' = [block EXCEPT ![i].ended = TRUE, ![i].parsed = IsTool(i)]

\* _finish_block, in the order the blocks came; one bad tool call ends it all.
FinishBlock ==
  /\ stream.pc = "finishing" /\ Present \ stream.finished # {}
  /\ LET i == Min(Present \ stream.finished)
     IN \/ IsTool(i) /\ BreaksOff
        \/ /\ IsTool(i) => block[i].name = "good"
           /\ EndBlock(i)
           /\ stream' = [stream EXCEPT !.finished = @ \cup {i}]
           /\ UNCHANGED reply

FinishEnds ==
  /\ stream.pc = "finishing" /\ Present = stream.finished
  /\ IF Present = {} \/ stream.refused THEN BreaksOff ELSE ReturnsMessage("done")

\* failure_message: text and thinking are ended, tool calls only kept.
Unended == {i \in Present : ~IsTool(i) /\ ~block[i].ended}

FailBlock ==
  /\ stream.pc = "failing"
  /\ \E i \in Unended : EndBlock(i)
  /\ UNCHANGED <<stream, reply>>

FailureReturns == stream.pc = "failing" /\ Unended = {} /\ ReturnsMessage("failed")

ReplyNext ==
  \/ OpenAiText \/ OpenAiRefuses \/ OpenAiTool
  \/ BlockStarts \/ BlockGrows \/ BlockStops
  \/ Breaks \/ FinishAnthropic \/ FinishOpenAi \/ FinishBlock \/ FinishEnds
  \/ FailBlock \/ FailureReturns

------------------------------------------------------------------------------
Pieces(events) == SumFunctionOnSet([n \in DOMAIN events |-> events[n].pieces], DOMAIN events)
EndedAt(i) == \E e \in Range(told[i]) : e.event = "ended"

\* Whoever follows the events knows the message: each block starts first, ends
\* once and last, with all that was told of it; the message returned, of a
\* reply that broke off too, holds the blocks that have ended and have
\* something in them, and only a tool call that came to nothing is left open.
EventsMatchReply ==
  /\ \A i \in Indices :
       LET events == told[i]
       IN \A n \in DOMAIN events :
            /\ events[n].event = "started" <=> n = 1
            /\ events[n].event = "ended" =>
                 n = Len(events) /\ events[n].pieces = Pieces(Front(events))
  /\ stream.pc \in {"done", "failed"} =>
       /\ reply = {i \in Indices : EndedAt(i) /\ (IsTool(i) \/ block[i].pieces > 0)}
       /\ \A i \in Present : ~EndedAt(i) => stream.pc = "failed" /\ IsTool(i)
=============================================================================
