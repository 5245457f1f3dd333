----------------------------- MODULE RunStream -----------------------------
(***************************************************************************)
(* How the page follows a running analysis: the recorder keeps the trace   *)
(* in memory, saves it now and then and publishes checkpoints at its       *)
(* boundaries; every piece of text goes out as a delta; the hub fans both  *)
(* out over server-sent events; the page's hook reconnects and resumes.    *)
(*                                                                         *)
(* A run is what the properties tell apart of it: how many pieces of text  *)
(* there are, its trace's event_seq, and whether it has ended.             *)
(***************************************************************************)
EXTENDS Naturals, Sequences

CONSTANTS
  QueueSize,      \* queue_maxsize
  HistorySize,    \* history_maxsize, at least queue_maxsize
  MaxText,        \* bound: pieces of text
  MaxBoundaries,  \* bound: trace boundaries before the last
  MaxStale,       \* bound: connections the page left that the server still holds
  MaxLineFaults   \* bound: broken connections, failed reads and evictions

\* The hub takes the larger of the two sizes for its history.
ASSUME StreamAssumption ==
  QueueSize \in Nat \ {0} /\ HistorySize \in Nat /\ HistorySize >= QueueSize

VARIABLES
  trace,      \* run, as the recorder holds it, and db, as it was last saved
  recorder,   \* where the recorder is, and its pending flush
  hub,        \* the run's entries in the StreamHub
  line,       \* the page's connection and its subscription
  page,       \* the hook: cursor, base snapshot, live deltas, terminal
  trouble     \* [left, stale]: faults still to come, subscriptions left behind
streamVars == <<trace, recorder, hub, line, page, trouble>>

Snapshot(run, from) == [run EXCEPT !.from = from]
Checkpoint(sid, seq, snapshot) ==
  [kind |-> "checkpoint", sid |-> sid, seq |-> seq, snapshot |-> snapshot]
Delta(sid, seq, piece) == [kind |-> "delta", sid |-> sid, seq |-> seq, piece |-> piece]
NoMessage   == [kind |-> "none"]
NewRun    == [text |-> 0, seq |-> 0, ended |-> FALSE, from |-> "db"]
NoStream  == [sid |-> 0, seq |-> 0, tracked |-> FALSE, history |-> <<>>, terminal |-> NoMessage]
NoLine    == [pc |-> "closed", sid |-> 0, from |-> 0, replay |-> <<>>, frames |-> <<>>, queue |-> <<>>]

StreamInit ==
  /\ trace = [run |-> NewRun, db |-> NewRun]
  /\ recorder = [pc |-> "idle", flush |-> FALSE]
  /\ hub = NoStream
  /\ line = NoLine
  /\ page = [sid |-> 0, seq |-> 0, base |-> NewRun, live |-> <<>>, over |-> FALSE]
  /\ trouble = [left |-> MaxLineFaults, stale |-> 0]

--------------------------------------------------------------------------
(* The hub. *)

Subscribed == line.pc # "closed" \/ trouble.stale > 0     \* has_subscribers

\* _clear_replay_locked: the generation goes too when nobody is subscribed.
ReplayCleared(h, subscribed) ==
  IF subscribed THEN [h EXCEPT !.tracked = FALSE, !.history = <<>>] ELSE NoStream

Latest(messages, size) ==
  IF Len(messages) > size THEN SubSeq(messages, Len(messages) - size + 1, Len(messages)) ELSE messages

Newcomer(queue, message) ==     \* mutant: a full queue drops the newest
  IF Len(queue) < QueueSize THEN Append(queue, message) ELSE queue
\* A full queue makes room by dropping its oldest.
Put(queue, message) == Latest(Append(queue, message), QueueSize)

\* _publish_locked, on a line whose request is under way.
Publish(message) ==
  line' = IF line.pc = "closed" THEN line ELSE [line EXCEPT !.queue = Put(@, message)]
Published(h, message) ==
  [h EXCEPT !.seq = message.seq, !.history = Latest(Append(@, message), HistorySize)]

\* publish_snapshot
PublishSnapshot(snapshot) ==
  LET message == Checkpoint(hub.sid, hub.seq + 1, snapshot)
      ended(h) == IF snapshot.ended THEN ReplayCleared(h, Subscribed) ELSE h
  IN IF hub.terminal # NoMessage THEN hub' = ReplayCleared(hub, Subscribed) /\ UNCHANGED line
     ELSE IF ~hub.tracked THEN hub' = ended(hub) /\ UNCHANGED line
     ELSE /\ hub' = ended([Published(hub, message) EXCEPT
                             !.terminal = IF snapshot.ended THEN message ELSE @])
          /\ Publish(message)

\* unsubscribe_run, of a line or of one left behind.
Unsubscribed(left, clearIfEmpty) ==
  IF left THEN hub
  ELSE IF clearIfEmpty \/ ~hub.tracked THEN NoStream ELSE hub

\* _replay_locked: the messages after the cursor, all of them or none.  Those
\* in the history bear consecutive numbers, and the last of them the hub's.
Replay(sid) ==
  LET missed == hub.seq - page.seq
  IN IF page.sid = sid /\ missed > 0 /\ missed <= Len(hub.history)
     THEN Latest(hub.history, missed) ELSE <<>>

\* The run falls out of the hub's window when other runs are followed, once
\* nobody follows it.
Evicted ==
  /\ hub.tracked /\ ~Subscribed /\ trouble.left > 0
  /\ hub' = NoStream
  /\ trouble' = [trouble EXCEPT !.left = @ - 1]
  /\ UNCHANGED <<trace, recorder, line, page>>

--------------------------------------------------------------------------
(* The recorder. *)

\* on_llm_stream_delta: the text is appended and its delta published.
TextArrives ==
  /\ recorder.pc = "idle" /\ ~trace.run.ended /\ trace.run.text < MaxText
  /\ trace' = [trace EXCEPT !.run.text = @ + 1]
  /\ LET message == Delta(hub.sid, hub.seq + 1, trace.run.text + 1)
     IN IF hub.tracked THEN hub' = Published(hub, message) /\ Publish(message)
                       ELSE UNCHANGED <<hub, line>>
  /\ UNCHANGED <<recorder, page, trouble>>

\* _persist_stream_if_due: now and then, and without a checkpoint.
StreamPersists ==
  /\ recorder.pc = "idle" /\ trace.db # trace.run
  /\ trace' = [trace EXCEPT !.db = trace.run]
  /\ UNCHANGED <<recorder, hub, line, page, trouble>>

\* A stage or a tool call begins or ends, or the run does; or the run fails,
\* which is saved before its last stage is closed.
BoundaryOpens ==
  /\ recorder.pc = "idle" /\ ~trace.run.ended
  /\ \/ /\ trace.run.seq < MaxBoundaries
        /\ trace' = [trace EXCEPT !.run.seq = @ + 1]
        /\ recorder' = [recorder EXCEPT !.pc = "saving"]
     \/ /\ trace' = [trace EXCEPT !.run.seq = @ + 1, !.run.ended = TRUE]
        /\ recorder' = [recorder EXCEPT !.pc = "saving"]
     \/ /\ trace' = [trace EXCEPT !.run.ended = TRUE]
        /\ recorder' = [recorder EXCEPT !.pc = "failing"]
  /\ UNCHANGED <<hub, line, page, trouble>>

\* _record_failed_run, _record_aborted_run
FailureSaved ==
  /\ recorder.pc = "failing"
  /\ trace' = LET failed == trace.run IN [run |-> [failed EXCEPT !.seq = @ + 1], db |-> failed]
  /\ recorder' = [recorder EXCEPT !.pc = "saving"]
  /\ UNCHANGED <<hub, line, page, trouble>>

\* publish: saved and committed first
BoundarySaved ==
  /\ recorder.pc = "saving"
  /\ trace' = [trace EXCEPT !.db = trace.run]
  /\ recorder' = [recorder EXCEPT !.pc = "publishing"]
  /\ UNCHANGED <<hub, line, page, trouble>>

\* _publish_snapshot_coalesced: a checkpoint soon after another waits for the
\* flush, the last one never does.
BoundaryPublishes ==
  /\ recorder.pc = "publishing"
  /\ \/ /\ trace.run.ended \/ Subscribed
        /\ PublishSnapshot(Snapshot(trace.run, "recorder"))
        /\ recorder' = [pc |-> "idle", flush |-> recorder.flush /\ ~trace.run.ended]
     \/ /\ ~trace.run.ended /\ Subscribed
        /\ recorder' = [pc |-> "idle", flush |-> TRUE]
        /\ UNCHANGED <<hub, line>>
     \/ /\ ~trace.run.ended /\ ~Subscribed
        /\ recorder' = [recorder EXCEPT !.pc = "idle"]
        /\ UNCHANGED <<hub, line>>
  /\ UNCHANGED <<trace, page, trouble>>

\* _flush_snapshot_later, whatever the recorder awaits.
FlushFires ==
  /\ recorder.flush
  /\ PublishSnapshot(Snapshot(trace.run, "recorder"))
  /\ recorder' = [recorder EXCEPT !.flush = FALSE]
  /\ UNCHANGED <<trace, page, trouble>>

--------------------------------------------------------------------------
(* The connection. *)

\* connect, and subscribe_run: a cursor of another generation replays nothing.
Connects ==
  /\ line.pc = "closed" /\ ~page.over /\ trouble.stale <= MaxStale
  /\ LET sid == IF hub.sid # 0 THEN hub.sid ELSE IF page.sid = 1 THEN 2 ELSE 1
     IN /\ hub' = [hub EXCEPT !.sid = sid, !.tracked = @ \/ hub.terminal = NoMessage]
        /\ line' = [NoLine EXCEPT !.pc = "reading", !.sid = sid, !.from = hub.seq,
                                  !.replay = Replay(sid)]
  /\ UNCHANGED <<trace, recorder, page, trouble>>

\* stream_run_snapshot has read the run; finish_run when it has ended.
ReadsRun ==
  /\ line.pc = "reading"
  /\ LET saved    == Snapshot(trace.db, "db")
         terminal == IF hub.terminal # NoMessage THEN hub.terminal
                     ELSE Checkpoint(hub.sid, hub.seq + 1, saved)
         opening  == IF line.replay # <<>> THEN line.replay
                     ELSE <<Checkpoint(line.sid, line.from, saved)>>
     IN IF saved.ended
        THEN /\ line' = [line EXCEPT !.pc = "finishing", !.frames = Append(line.replay, terminal)]
             /\ hub' = ReplayCleared([hub EXCEPT !.seq = terminal.seq, !.terminal = terminal], TRUE)
        ELSE /\ line' = [line EXCEPT !.pc = "open", !.frames = opening]
             /\ UNCHANGED hub
  /\ UNCHANGED <<trace, recorder, page, trouble>>

ReadFails ==
  /\ line.pc = "reading" /\ trouble.left > 0
  /\ hub' = Unsubscribed(trouble.stale > 0, TRUE)
  /\ line' = NoLine
  /\ trouble' = [trouble EXCEPT !.left = @ - 1]
  /\ UNCHANGED <<trace, recorder, page>>

\* The page leaves a connection the server has yet to notice is gone.
Hangs == line' = NoLine /\ trouble' = [trouble EXCEPT !.stale = @ + 1]

LineBreaks ==
  /\ line.pc # "closed" /\ trouble.left > 0 /\ trouble.stale <= MaxStale
  /\ line' = NoLine
  /\ trouble' = [left |-> trouble.left - 1, stale |-> trouble.stale + 1]
  /\ UNCHANGED <<trace, recorder, hub, page>>

\* event_source ends, or finds its client disconnected.
ServerCloses ==
  /\ \/ /\ line.pc = "finishing" /\ line.frames = <<>>
        /\ line' = NoLine
        /\ hub' = Unsubscribed(trouble.stale > 0, FALSE)
        /\ UNCHANGED trouble
     \/ /\ trouble.stale > 0
        /\ trouble' = [trouble EXCEPT !.stale = @ - 1]
        /\ hub' = Unsubscribed(line.pc # "closed" \/ trouble.stale > 1, FALSE)
        /\ UNCHANGED line
  /\ UNCHANGED <<trace, recorder, page>>

--------------------------------------------------------------------------
(* The page. *)

NoGap(message) == message.sid # page.sid     \* mutant: the sequence is not looked at
Gap(message) == message.sid # page.sid \/ message.seq > page.seq + 1

\* applyCheckpoint
Applied(p, snapshot) ==
  IF snapshot.seq < p.base.seq THEN p
  ELSE [p EXCEPT !.base = snapshot, !.live = <<>>, !.over = snapshot.ended]

\* onmessage
Receives(message) ==
  IF message.kind = "checkpoint"
  THEN IF message.sid = page.sid /\ message.seq < page.seq THEN UNCHANGED page
       ELSE page' = Applied([page EXCEPT !.sid = message.sid, !.seq = message.seq], message.snapshot)
  ELSE IF Gap(message) \/ message.seq <= page.seq THEN UNCHANGED page
       ELSE page' = [page EXCEPT !.seq = message.seq, !.live = Append(@, message.piece)]

Arrived == IF line.frames # <<>> THEN Head(line.frames) ELSE Head(line.queue)
PageReceives ==
  /\ line.frames # <<>> \/ (line.pc = "open" /\ line.queue # <<>>)
  /\ Receives(Arrived)
  /\ IF page'.over \/ (Arrived.kind = "delta" /\ Gap(Arrived))
     THEN Hangs
     ELSE /\ line' = IF line.frames # <<>> THEN [line EXCEPT !.frames = Tail(@)]
                     ELSE [line EXCEPT !.queue = Tail(@)]
          /\ UNCHANGED trouble
  /\ UNCHANGED <<trace, recorder, hub>>

\* The page polls while it shows the run as running; a newer trace wins.
Refetches ==
  /\ trace.db.seq > page.base.seq \/ (trace.db.ended /\ ~page.base.ended)
  /\ page' = [page EXCEPT !.base = Snapshot(trace.db, "db"), !.live = <<>>]
  /\ UNCHANGED <<trace, recorder, hub, line, trouble>>

RecorderStep == FailureSaved \/ BoundarySaved \/ BoundaryPublishes \/ FlushFires
ServerStep   == ReadsRun \/ ServerCloses
StreamNext ==
  \/ TextArrives \/ StreamPersists \/ BoundaryOpens \/ RecorderStep
  \/ Evicted \/ Connects \/ ServerStep \/ ReadFails \/ LineBreaks
  \/ PageReceives \/ Refetches

--------------------------------------------------------------------------
Shown == [i \in 1 .. page.base.text |-> i] \o page.live
InOrder(pieces) == pieces = [i \in 1 .. Len(pieces) |-> i]

\* Once the page has a checkpoint the recorder published, the deltas it adds to
\* it, over reconnections, replays and dropped events, leave no gap and repeat
\* nothing.
LiveBaseShowsTrace == page.base.from = "recorder" => InOrder(Shown)

\* "ordered, resumable": the page always shows a beginning of the run's text.
ShownIsPrefix == InOrder(Shown)

\* A page that never polls still learns that the run has ended, through queues
\* that overflow, connections that break and a hub that forgets the run; unless a
\* flush published the end before it was saved.
PageCatchesUp ==
  [](hub.terminal # NoMessage => trace.db.ended) => (trace.db.ended ~> page.base.ended)
=============================================================================
