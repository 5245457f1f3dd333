---------------------------- MODULE GatewayProofs ----------------------------
(***************************************************************************)
(* The broker's gateway, for all constants: a sheet that is answered from  *)
(* the cache or loaded beside it is current and of the right account.      *)
(***************************************************************************)
EXTENDS MCLive, TLAPS

Pcs    == {"idle", "resolving", "waiting", "keyed", "gated", "sent", "served", "backing", "logging", "done"}
Sheet  == [account : Accounts \cup {"none"}, version : Nat]
Call   == [pc : Pcs, kind : {"none", "sheet", "query", "order"}, sheet : Sheets \cup {"none"},
           key : Accounts \cup {NoKey}, at : Nat, tries : Nat,
           result : {"none", "ok", "failed", "aborted"}, seen : Sheet,
           since : [Accounts -> Nat], keys : SUBSET Accounts]

GateTypeOK ==
  /\ book \in [Accounts -> Nat] /\ cleared \in [Accounts -> Nat]
  /\ configured \in Accounts /\ cacheKey \in Accounts \cup {NoKey} /\ generation \in Nat
  /\ entries \in [Sheets -> Sheet] /\ task \in [GateTasks -> Call]

\* A sheet is being loaded that will be kept if nothing clears the cache: it is
\* of the account the cache is about, and as young as the cache.
Loads(t) ==
  /\ task[t].kind = "sheet" /\ task[t].at = generation
  /\ \/ task[t].pc = "keyed" /\ cacheKey \in {NoKey, task[t].key}
     \/ task[t].pc \in {"gated", "sent", "served", "backing"}
     \/ task[t].pc = "logging" /\ task[t].result = "ok"

\* The upstream's answer is at hand.
Seen(t) ==
  \/ task[t].pc = "served"
  \/ task[t].pc = "logging" /\ task[t].result = "ok"

\* What is true of each call.
CallInv(t) ==
  LET c == task[t]
  IN /\ c.at <= generation
     /\ \A a \in Accounts : c.since[a] <= cleared[a]
     /\ c.pc \notin {"idle", "done"} => (c.kind = "sheet" <=> t \in Readers)
     /\ c.pc \in {"resolving", "waiting"} => c.kind = "sheet"
     /\ c.pc = "resolving" => cacheKey # NoKey /\ c.sheet \in Sheets
     /\ c.pc \notin {"idle", "done"} => c.key \in Accounts
     /\ c.pc \notin {"idle", "done"} /\ c.kind = "sheet" => {configured, c.key} \subseteq c.keys
     /\ c.kind = "sheet" /\ Seen(t) =>
          c.seen.account = c.key /\ c.seen.version >= c.since[c.key]
     /\ Loads(t) /\ c.pc # "keyed" => cacheKey = c.key
     /\ Loads(t) /\ Seen(t) => c.seen.version >= cleared[c.key]

\* What is kept is of the account the cache is about, and as young as the cache.
EntryInv(s) ==
  entries[s] # NoEntry =>
    /\ cacheKey # NoKey /\ entries[s].account = cacheKey
    /\ entries[s].version >= cleared[cacheKey]

\* What a waiting call may find is of an account it may be answered from.
WaitInv(t) ==
  task[t].pc = "waiting" =>
    /\ task[t].sheet \in Sheets
    /\ \A s \in Sheets : entries[s] # NoEntry => cacheKey \in task[t].keys
    /\ \A w \in GateTasks : Loads(w) => task[w].key \in task[t].keys

\* The inductive invariant of the gateway.
GateInv ==
  /\ GateTypeOK
  /\ \A a \in Accounts : cleared[a] <= book[a]
  /\ \A s \in Sheets : EntryInv(s)
  /\ \A t \in GateTasks : CallInv(t) /\ WaitInv(t)

\* A row of the table of calls.
LEMMA RowIn == ASSUME GateInv, NEW t \in GateTasks PROVE task[t] \in Call
BY DEF GateInv, GateTypeOK

LEMMA RowChanged ==
  ASSUME GateInv, NEW t \in GateTasks, NEW c \in Call, task' = [task EXCEPT ![t] = c]
  PROVE  /\ task' \in [GateTasks -> Call] /\ task'[t] = c
         /\ \A u \in GateTasks : u # t => task'[u] = task[u]
BY DEF GateInv, GateTypeOK

\* A step of one call that leaves the cache as it is.
LEMMA RowMoves ==
  ASSUME GateInv, NEW t \in GateTasks, NEW c \in Call, task' = [task EXCEPT ![t] = c],
         CacheKept, book' \in [Accounts -> Nat], \A a \in Accounts : book'[a] >= book[a],
         CallInv(t)',
         Loads(t)' => c.key = configured \/ (Loads(t) /\ c.key = task[t].key),
         c.pc = "waiting" =>
           c.sheet \in Sheets /\ (c.keys = Accounts \/ cacheKey \in c.keys \ {NoKey})
  PROVE  GateInv'
<1>1. /\ task' \in [GateTasks -> Call] /\ task'[t] = c
      /\ \A u \in GateTasks : u # t => task'[u] = task[u]
  BY RowChanged
<1>2. UNCHANGED <<configured, entries, generation, cacheKey, cleared>>
  BY DEF CacheKept
<1>3. GateTypeOK'
  BY <1>1, <1>2 DEF GateInv, GateTypeOK
<1>4. \A a \in Accounts : cleared'[a] <= book'[a]
  <2> TAKE a \in Accounts
  <2>1. cleared[a] <= book[a] /\ cleared[a] \in Nat /\ book[a] \in Nat /\ book'[a] \in Nat
    BY DEF GateInv, GateTypeOK
  <2> QED BY <1>2, <2>1
<1>5. \A s \in Sheets : EntryInv(s)'
  BY <1>2 DEF GateInv, EntryInv
<1>6. \A u \in GateTasks : u # t => CallInv(u)'
  BY <1>1, <1>2 DEF GateInv, CallInv, Loads, Seen
<1>7. \A w \in GateTasks : Loads(w)' =>
        task'[w].key = configured \/ (Loads(w) /\ task'[w].key = task[w].key)
  BY <1>1, <1>2 DEF Loads
<1>8. \A u \in GateTasks : WaitInv(u)'
  <2> SUFFICES ASSUME NEW u \in GateTasks, task'[u].pc = "waiting" PROVE WaitInv(u)'
    BY DEF WaitInv
  <2>1. CASE u = t
    <3>1. /\ task'[u].sheet \in Sheets /\ task'[u].pc = "waiting"
          /\ task'[u].keys = Accounts \/ cacheKey \in task'[u].keys \ {NoKey}
      BY <1>1, <2>1
    <3>2. \A s \in Sheets : entries'[s] # NoEntry => cacheKey' \in Accounts
      BY <1>2 DEF GateInv, GateTypeOK, EntryInv
    <3>3. \A w \in GateTasks : Loads(w)' =>
            task'[w].key \in Accounts /\ (cacheKey # NoKey => task'[w].key = cacheKey)
      <4> SUFFICES ASSUME NEW w \in GateTasks, Loads(w)'
                   PROVE task'[w].key \in Accounts /\ (cacheKey # NoKey => task'[w].key = cacheKey)
        OBVIOUS
      <4>1. w # u
        BY <3>1 DEF Loads
      <4>2. Loads(w) /\ task'[w] = task[w]
        BY <1>1, <1>2, <2>1, <4>1 DEF Loads
      <4> QED BY <4>2 DEF GateInv, CallInv, Loads
    <3> QED BY <1>2, <3>1, <3>2, <3>3 DEF WaitInv
  <2>2. CASE u # t
    <3>1. task'[u] = task[u] /\ WaitInv(u) /\ configured \in task[u].keys
      BY <1>1, <2>2 DEF GateInv, CallInv
    <3> QED BY <1>2, <1>7, <3>1 DEF WaitInv
  <2> QED BY <2>1, <2>2
<1> QED BY <1>3, <1>4, <1>5, <1>6, <1>8, CallInv(t)' DEF GateInv

LEMMA NoEntryIsSheet == NoEntry \in Sheet
BY DEF NoEntry, Sheet

LEMMA IdleRow ==
  /\ Idle \in Call /\ Idle.pc = "idle" /\ Idle.kind = "none" /\ Idle.at = 0
  /\ Idle.since = [a \in Accounts |-> 0]
BY NoEntryIsSheet DEF Idle, Call, Pcs, NoKey

\* A call that is over.
LEMMA DoneRow ==
  ASSUME NEW result \in {"none", "ok", "failed", "aborted"}, NEW seen \in Sheet
  PROVE  /\ Done(result, seen) \in Call
         /\ Done(result, seen).pc = "done" /\ Done(result, seen).kind = "none"
         /\ Done(result, seen).at = 0 /\ Done(result, seen).since = [a \in Accounts |-> 0]
         /\ Done(result, seen).result = result /\ Done(result, seen).seen = seen
<1>1. /\ Idle \in Call /\ Idle.kind = "none" /\ Idle.at = 0
      /\ Idle.since = [a \in Accounts |-> 0]
  BY IdleRow
<1>2. Done(result, seen) = [[[Idle EXCEPT !.pc = "done"] EXCEPT !.result = result] EXCEPT !.seen = seen]
  BY DEF Done
<1>3. "done" \in Pcs
  BY DEF Pcs
<1> QED BY <1>1, <1>2, <1>3 DEF Call

LEMMA DoneCall ==
  ASSUME GateInv, NEW t \in GateTasks, NEW c \in Call, task'[t] = c, c.pc = "done", c.kind = "none",
         c.at = 0, c.since = [a \in Accounts |-> 0], generation' \in Nat, cleared' \in [Accounts -> Nat]
  PROVE  CallInv(t)' /\ ~Loads(t)'
BY DEF CallInv, Loads

\* What a step beside the cache keeps.
LEMMA Kept ==
  ASSUME GateInv, CacheKept
  PROVE  UNCHANGED <<configured, entries, generation, cacheKey, cleared>> /\ book \in [Accounts -> Nat]
         /\ \A a \in Accounts : book[a] >= book[a]
BY DEF CacheKept, GateInv, GateTypeOK

\* A call ends beside the cache.
LEMMA EndKeeps ==
  ASSUME GateInv, NEW t \in GateTasks, NEW result \in {"none", "ok", "failed", "aborted"},
         NEW seen \in Sheet, task' = [task EXCEPT ![t] = Done(result, seen)],
         CacheKept, UNCHANGED book
  PROVE  GateInv'
<1> DEFINE c == Done(result, seen)
<1>1. /\ c \in Call /\ c.pc = "done" /\ c.kind = "none" /\ c.at = 0
      /\ c.since = [a \in Accounts |-> 0]
  BY DoneRow
<1>2. task'[t] = c
  BY <1>1, RowChanged
<1>3. /\ generation' = generation /\ cleared' = cleared
      /\ cleared \in [Accounts -> Nat] /\ generation \in Nat
  BY DEF CacheKept, GateInv, GateTypeOK
<1> HIDE DEF c
<1>4. CallInv(t)' /\ ~Loads(t)'
  BY <1>1, <1>2, <1>3, DoneCall
<1>5. task' = [task EXCEPT ![t] = c]
  BY DEF c
<1> QED BY <1>1, <1>4, <1>5, RowMoves, Kept

\* What a call that moves on with its key and its load keeps.
LEMMA CallMoves ==
  ASSUME GateInv, NEW t \in GateTasks, NEW c \in Call, task' = [task EXCEPT ![t] = c], CacheKept,
         book' \in [Accounts -> Nat], \A a \in Accounts : book'[a] >= book[a],
         task[t].pc \notin {"idle", "done", "resolving", "waiting"},
         c.pc \notin {"idle", "done", "resolving", "waiting"},
         c.kind = task[t].kind, c.key = task[t].key, c.at = task[t].at, c.since = task[t].since,
         c.keys = task[t].keys,
         Loads(t)' => Loads(t) /\ (c.pc # "keyed" => cacheKey = c.key),
         c.kind = "sheet" /\ Seen(t)' =>
           \/ c.seen = task[t].seen /\ Seen(t)
           \/ c.seen.account = c.key /\ c.seen.version = book[c.key]
  PROVE  GateInv'
<1>1. task'[t] = c
  BY RowChanged
<1>2. UNCHANGED <<configured, entries, generation, cacheKey, cleared>>
  BY DEF CacheKept
<1>3. CallInv(t) /\ task[t] \in Call
  BY DEF GateInv, GateTypeOK
<1>4. c.key \in Accounts
  BY <1>3 DEF CallInv
<1>5. /\ cleared[c.key] <= book[c.key] /\ c.since[c.key] <= cleared[c.key]
      /\ cleared[c.key] \in Nat /\ book[c.key] \in Nat /\ c.since[c.key] \in Nat
  BY <1>3, <1>4 DEF GateInv, GateTypeOK, CallInv, Call
<1>6. c.kind = "sheet" /\ Seen(t)' => c.seen.account = c.key /\ c.seen.version >= c.since[c.key]
  BY <1>3, <1>5 DEF CallInv
<1>7. Loads(t)' /\ Seen(t)' => c.seen.version >= cleared[c.key]
  <2> SUFFICES ASSUME Loads(t)', Seen(t)' PROVE c.seen.version >= cleared[c.key]
    OBVIOUS
  <2>1. Loads(t) /\ c.kind = "sheet"
    BY <1>1 DEF Loads
  <2> QED BY <1>3, <1>5, <2>1 DEF CallInv
<1>8. CallInv(t)'
  BY <1>1, <1>2, <1>3, <1>6, <1>7 DEF CallInv
<1> QED BY <1>8, RowMoves

\* The steps of a call that leave the cache as it is.
LEMMA SendsKeeps == ASSUME GateInv, NEW t \in GateTasks, Sends(t) PROVE GateInv'
<1> DEFINE c == [task[t] EXCEPT !.pc = "sent"]
<1>1. task' = [task EXCEPT ![t] = c] /\ CacheKept /\ book' = book /\ task[t].pc = "gated"
  BY DEF Sends, Moves
<1>2. task[t] \in Call /\ c \in Call /\ task'[t] = c
  BY ZenonT(60), <1>1, RowIn, RowChanged DEF Call, Pcs
<1>3. ~Seen(t)' /\ c.pc = "sent" /\ (Loads(t)' => Loads(t) /\ cacheKey = c.key)
  BY <1>1, <1>2 DEF Seen, CacheKept, Loads, Call, GateInv, CallInv
<1>4. /\ c.kind = task[t].kind /\ c.key = task[t].key /\ c.at = task[t].at
      /\ c.since = task[t].since /\ c.keys = task[t].keys
  BY <1>2 DEF Call
<1> HIDE DEF c
<1> QED BY <1>1, <1>2, <1>3, <1>4, CallMoves, Kept

LEMMA BacksOffKeeps == ASSUME GateInv, NEW t \in GateTasks, BacksOff(t) PROVE GateInv'
<1> DEFINE c == [task[t] EXCEPT !.pc = "gated"]
<1>1. task' = [task EXCEPT ![t] = c] /\ CacheKept /\ book' = book /\ task[t].pc = "backing"
  BY DEF BacksOff, Moves
<1>2. task[t] \in Call /\ c \in Call /\ task'[t] = c
  BY ZenonT(60), <1>1, RowIn, RowChanged DEF Call, Pcs
<1>3. ~Seen(t)' /\ c.pc = "gated" /\ (Loads(t)' => Loads(t) /\ cacheKey = c.key)
  BY <1>1, <1>2 DEF Seen, CacheKept, Loads, Call, GateInv, CallInv
<1>4. /\ c.kind = task[t].kind /\ c.key = task[t].key /\ c.at = task[t].at
      /\ c.since = task[t].since /\ c.keys = task[t].keys
  BY <1>2 DEF Call
<1> HIDE DEF c
<1> QED BY <1>1, <1>2, <1>3, <1>4, CallMoves, Kept

LEMMA FailsKeeps == ASSUME GateInv, NEW t \in GateTasks, Fails(t) PROVE GateInv'
<1> DEFINE c == [task[t] EXCEPT !.pc = "logging", !.result = "failed"]
<1>1. task' = [task EXCEPT ![t] = c] /\ CacheKept /\ book' = book /\ task[t].pc \in {"sent", "served"}
  BY DEF Fails, Logs
<1>2. task[t] \in Call /\ c \in Call /\ task'[t] = c
  BY ZenonT(60), <1>1, RowIn, RowChanged DEF Call, Pcs
<1>3. c.pc = "logging" /\ c.result = "failed"
  BY <1>2 DEF Call
<1>4. /\ c.kind = task[t].kind /\ c.key = task[t].key /\ c.at = task[t].at
      /\ c.since = task[t].since /\ c.keys = task[t].keys
  BY <1>2 DEF Call
<1> HIDE DEF c
<1>5. ~Seen(t)' /\ ~Loads(t)'
  BY <1>2, <1>3 DEF Seen, Loads
<1> QED BY <1>1, <1>2, <1>3, <1>4, <1>5, CallMoves, Kept

LEMMA AnswersKeeps == ASSUME GateInv, NEW t \in GateTasks, Answers(t) PROVE GateInv'
<1> DEFINE c == [task[t] EXCEPT !.pc = "logging", !.result = "ok"]
<1>1. task' = [task EXCEPT ![t] = c] /\ CacheKept /\ book' = book /\ task[t].pc = "served"
  BY DEF Answers, Logs
<1>2. task[t] \in Call /\ c \in Call /\ task'[t] = c
  BY ZenonT(60), <1>1, RowIn, RowChanged DEF Call, Pcs
<1>3. Seen(t) /\ c.pc = "logging" /\ c.seen = task[t].seen /\ (Loads(t)' => Loads(t) /\ cacheKey = c.key)
  BY <1>1, <1>2 DEF Seen, CacheKept, Loads, Call, GateInv, CallInv
<1>4. /\ c.kind = task[t].kind /\ c.key = task[t].key /\ c.at = task[t].at
      /\ c.since = task[t].since /\ c.keys = task[t].keys
  BY <1>2 DEF Call
<1> HIDE DEF c
<1> QED BY <1>1, <1>2, <1>3, <1>4, CallMoves, Kept

\* The upstream answers what it has by then.
LEMMA ServesKeeps == ASSUME GateInv, NEW t \in GateTasks, Serves(t) PROVE GateInv'
<1> DEFINE a == task[t].key
           seen == [account |-> a, version |-> book'[a]]
           c == [[task[t] EXCEPT !.pc = "served"] EXCEPT !.seen = seen]
<1>1. /\ task' = [task EXCEPT ![t] = c] /\ CacheKept /\ task[t].pc = "sent"
      /\ book' = IF task[t].kind = "order" THEN [book EXCEPT ![a] = @ + 1] ELSE book
  BY DEF Serves
<1>2. task[t] \in Call /\ CallInv(t) /\ a \in Accounts
  BY <1>1 DEF GateInv, GateTypeOK, CallInv
<1>3. book' \in [Accounts -> Nat] /\ \A x \in Accounts : book'[x] >= book[x]
  BY <1>1, <1>2 DEF GateInv, GateTypeOK
<1>4. seen \in Sheet /\ seen.account = a /\ seen.version = book'[a]
  BY <1>2, <1>3 DEF Sheet
<1>5. c \in Call /\ c.seen = seen /\ c.pc = "served" /\ c.key = a
  BY <1>2, <1>4 DEF Call, Pcs
<1>6. task'[t] = c
  BY <1>1, <1>5, RowChanged
<1>7. /\ c.kind = task[t].kind /\ c.at = task[t].at /\ c.since = task[t].since
      /\ c.keys = task[t].keys
  BY <1>2, <1>5 DEF Call
<1> HIDE DEF c, seen
<1>8. Loads(t)' => Loads(t) /\ cacheKey = c.key
  BY <1>1, <1>2, <1>5, <1>6, <1>7 DEF Loads, CacheKept, CallInv
<1>9. c.kind = "sheet" => c.seen.account = c.key /\ c.seen.version = book[c.key]
  BY <1>1, <1>4, <1>5, <1>7
<1> QED BY <1>1, <1>3, <1>5, <1>7, <1>8, <1>9, CallMoves

\* Refused: again, or for good.
LEMMA RefusedKeeps == ASSUME GateInv, NEW t \in GateTasks, Refused(t) PROVE GateInv'
<1>1. CASE MayRetry(t)
  <2> DEFINE n == task[t].tries + 1
             c == [task[t] EXCEPT !.pc = "backing", !.tries = n]
  <2>1. task' = [task EXCEPT ![t] = c] /\ CacheKept /\ book' = book /\ task[t].pc = "sent"
    BY <1>1 DEF Refused
  <2>5. task[t] \in Call
    BY RowIn
  <2>6. n \in Nat
    BY <2>5 DEF Call
  <2> HIDE DEF n
  <2>2. task[t] \in Call /\ c \in Call /\ task'[t] = c
    BY <2>1, <2>5, <2>6, RowChanged DEF Call, Pcs
  <2>3. ~Seen(t)' /\ c.pc = "backing" /\ (Loads(t)' => Loads(t) /\ cacheKey = c.key)
    BY <2>1, <2>2 DEF Seen, CacheKept, Loads, Call, GateInv, CallInv
  <2>4. /\ c.kind = task[t].kind /\ c.key = task[t].key /\ c.at = task[t].at
        /\ c.since = task[t].since /\ c.keys = task[t].keys
    BY <2>2 DEF Call
  <2> HIDE DEF c
  <2> QED BY <2>1, <2>2, <2>3, <2>4, CallMoves, Kept
<1>2. CASE ~MayRetry(t)
  <2> DEFINE c == [task[t] EXCEPT !.pc = "logging", !.result = "failed"]
  <2>1. task' = [task EXCEPT ![t] = c] /\ CacheKept /\ book' = book /\ task[t].pc = "sent"
    BY <1>2 DEF Refused, Logs
  <2>2. task[t] \in Call /\ c \in Call /\ task'[t] = c
    BY ZenonT(60), <2>1, RowIn, RowChanged DEF Call, Pcs
  <2>3. c.pc = "logging" /\ c.result = "failed"
    BY <2>2 DEF Call
  <2>4. /\ c.kind = task[t].kind /\ c.key = task[t].key /\ c.at = task[t].at
        /\ c.since = task[t].since /\ c.keys = task[t].keys
    BY <2>2 DEF Call
  <2> HIDE DEF c
  <2>5. ~Seen(t)' /\ ~Loads(t)'
    BY <2>2, <2>3 DEF Seen, Loads
  <2> QED BY <2>1, <2>2, <2>3, <2>4, <2>5, CallMoves, Kept
<1> QED BY <1>1, <1>2

\* Calls that end without an answer.
LEMMA AbortKeeps == ASSUME GateInv, NEW t \in GateTasks, TaskAborted(t) PROVE GateInv'
BY EndKeeps, NoEntryIsSheet DEF TaskAborted

LEMMA KeyFailsKeeps == ASSUME GateInv, NEW t \in GateTasks, KeyFails(t) PROVE GateInv'
<1>1. CASE task' = [task EXCEPT ![t] = Done("failed", NoEntry)]
  BY <1>1, EndKeeps, NoEntryIsSheet DEF KeyFails
<1>2. CASE task[t].pc = "keyed" /\ Logs(t, "failed")
  <2> DEFINE c == [task[t] EXCEPT !.pc = "logging", !.result = "failed"]
  <2>1. task' = [task EXCEPT ![t] = c] /\ CacheKept /\ book' = book /\ task[t].pc = "keyed"
    BY <1>2 DEF KeyFails, Logs
  <2>2. task[t] \in Call /\ c \in Call /\ task'[t] = c
    BY ZenonT(60), <2>1, RowIn, RowChanged DEF Call, Pcs
  <2>3. /\ c.pc = "logging" /\ c.result = "failed"
        /\ c.kind = task[t].kind /\ c.key = task[t].key /\ c.at = task[t].at
        /\ c.since = task[t].since /\ c.keys = task[t].keys
    BY <2>2 DEF Call
  <2> HIDE DEF c
  <2>4. ~Seen(t)' /\ ~Loads(t)'
    BY <2>2, <2>3 DEF Seen, Loads
  <2> QED BY <2>1, <2>2, <2>3, <2>4, CallMoves, Kept
<1> QED BY <1>1, <1>2 DEF KeyFails

LEMMA CallAskedKeeps == ASSUME GateInv, NEW t \in GateTasks, CallAsked(t) PROVE GateInv'
<1> DEFINE c == [task[t] EXCEPT !.pc = "gated"]
<1>1. /\ task' = [task EXCEPT ![t] = c] /\ CacheKept /\ book' = book /\ task[t].pc = "keyed"
      /\ task[t].kind # "sheet"
  BY DEF CallAsked, Moves, CacheKept
<1>2. task[t] \in Call /\ c \in Call /\ task'[t] = c
  BY ZenonT(60), <1>1, RowIn, RowChanged DEF Call, Pcs
<1>3. /\ c.pc = "gated" /\ c.kind = task[t].kind /\ c.key = task[t].key /\ c.at = task[t].at
      /\ c.since = task[t].since /\ c.keys = task[t].keys
  BY <1>2 DEF Call
<1> HIDE DEF c
<1>4. ~Seen(t)' /\ ~Loads(t)'
  BY <1>1, <1>2, <1>3 DEF Seen, Loads
<1> QED BY <1>1, <1>2, <1>3, <1>4, CallMoves, Kept

\* The lock of a sheet is taken: an entry answers, or a load begins that is as
\* young as the cache.
LEMMA TakesFlightKeeps == ASSUME GateInv, NEW t \in GateTasks, TakesFlight(t) PROVE GateInv'
<1>1. task[t] \in Call /\ CallInv(t) /\ CacheKept /\ book' = book /\ task[t].pc = "waiting"
  BY RowIn DEF TakesFlight, CacheKept, GateInv
<1>2. CASE entries[task[t].sheet] # NoEntry
  <2>1. task' = [task EXCEPT ![t] = Done("ok", entries[task[t].sheet])]
    BY <1>2 DEF TakesFlight
  <2>2. task[t].sheet \in Sheets
    BY <1>1 DEF GateInv, WaitInv
  <2>3. entries[task[t].sheet] \in Sheet
    BY <2>2 DEF GateInv, GateTypeOK
  <2> QED BY <1>1, <2>1, <2>3, EndKeeps
<1>3. CASE entries[task[t].sheet] = NoEntry
  <2> DEFINE c == [task[t] EXCEPT !.pc = "keyed", !.at = generation, !.key = configured]
  <2>1. task' = [task EXCEPT ![t] = c]
    BY <1>3 DEF TakesFlight
  <2>2. generation \in Nat /\ configured \in Accounts
    BY DEF GateInv, GateTypeOK
  <2>3. c \in Call /\ task'[t] = c
    BY <1>1, <2>1, <2>2, RowChanged DEF Call, Pcs
  <2>4. /\ c.pc = "keyed" /\ c.kind = task[t].kind /\ c.key = configured /\ c.at = generation
        /\ c.since = task[t].since /\ c.keys = task[t].keys
    BY <1>1, <2>3 DEF Call
  <2> HIDE DEF c
  <2>5. UNCHANGED <<configured, generation, cacheKey, cleared>>
    BY <1>1 DEF CacheKept
  <2>6. CallInv(t)'
    BY <1>1, <2>2, <2>3, <2>4, <2>5 DEF CallInv, Seen
  <2> QED BY <1>1, <2>1, <2>3, <2>4, <2>6, RowMoves, Kept
<1> QED BY <1>2, <1>3

\* A query or an order begins.
LEMMA RequestBeginsKeeps ==
  ASSUME GateInv, NEW t \in Callers, NEW kind \in {"query", "order"}, RequestBegins(t, kind)
  PROVE  GateInv'
<1> DEFINE c == [Idle EXCEPT !.kind = kind, !.pc = "keyed", !.key = configured]
<1>1. task' = [task EXCEPT ![t] = c] /\ CacheKept /\ book' = book
  BY DEF RequestBegins
<1>2. /\ generation \in Nat /\ configured \in Accounts /\ cleared \in [Accounts -> Nat]
      /\ t \in GateTasks /\ t \notin Readers
  BY GateAssumption DEF GateInv, GateTypeOK, GateTasks
<1>3. c \in Call
  BY <1>2, IdleRow DEF Call, Pcs
<1>4. task'[t] = c
  BY <1>1, <1>2, <1>3, RowChanged
<1>5. /\ c.pc = "keyed" /\ c.kind = kind /\ c.key = configured /\ c.at = 0
      /\ c.since = [a \in Accounts |-> 0]
  BY <1>3, IdleRow DEF Call
<1> HIDE DEF c
<1>6. UNCHANGED <<configured, generation, cacheKey, cleared>>
  BY <1>1 DEF CacheKept
<1>7. CallInv(t)'
  BY <1>2, <1>4, <1>5, <1>6 DEF CallInv, Loads
<1> QED BY <1>1, <1>2, <1>3, <1>5, <1>7, RowMoves, Kept

\* A sheet is asked for.
LEMMA ReadBeginsKeeps ==
  ASSUME GateInv, NEW t \in Readers, NEW s \in Sheets, ReadBegins(t, s)
  PROVE  GateInv'
<1> DEFINE ks == IF cacheKey = NoKey THEN Accounts ELSE {configured}
           t1 == [Idle EXCEPT !.kind = "sheet", !.sheet = s, !.since = cleared,
                              !.key = configured, !.keys = ks]
           pc == IF cacheKey = NoKey THEN "waiting" ELSE "resolving"
           c == [t1 EXCEPT !.pc = pc]
<1>1. /\ generation \in Nat /\ configured \in Accounts /\ cleared \in [Accounts -> Nat]
      /\ t \in GateTasks /\ ks \in SUBSET Accounts /\ pc \in Pcs /\ configured \in ks
      /\ pc \in {"waiting", "resolving"} /\ (pc = "waiting" => cacheKey = NoKey)
  BY DEF GateInv, GateTypeOK, GateTasks, Pcs
<1>2. CacheKept /\ book' = book
  BY DEF ReadBegins, CacheStays, CacheKept
<1>3. entries' = entries /\ (cacheKey = NoKey => entries[s] = NoEntry)
  BY <1>2 DEF CacheKept, GateInv, EntryInv
<1>4. t1 \in Call /\ t1.sheet = s
  BY <1>1, IdleRow DEF Call
<1>5. task' = [task EXCEPT ![t] = c]
  BY <1>3, <1>4 DEF ReadBegins, LooksUp
<1>6. c \in Call
  BY <1>1, <1>4 DEF Call
<1>7. task'[t] = c
  BY <1>1, <1>5, <1>6, RowChanged
<1>8. /\ c.pc = pc /\ c.kind = "sheet" /\ c.key = configured /\ c.at = 0
      /\ c.since = cleared /\ c.keys = ks /\ c.sheet = s
  BY <1>1, IdleRow DEF Call
<1>9. pc = "waiting" => ks = Accounts
  OBVIOUS
<1>10. pc = "resolving" => cacheKey # NoKey
  OBVIOUS
<1> HIDE DEF c, pc, ks
<1>11. UNCHANGED <<configured, generation, cacheKey, cleared>>
  BY <1>2 DEF CacheKept
<1>12. ~Loads(t)' /\ ~Seen(t)'
  BY <1>1, <1>7, <1>8 DEF Loads, Seen
<1>13. CallInv(t)'
  BY <1>1, <1>7, <1>8, <1>10, <1>11, <1>12 DEF CallInv
<1> QED BY <1>1, <1>2, <1>5, <1>6, <1>8, <1>9, <1>12, <1>13, RowMoves, Kept

------------------------------------------------------------------------------
(* Steps that change the cache. *)

\* A row that stays while the cache is cleared.
LEMMA ClearedRow ==
  ASSUME GateInv, CacheCleared, UNCHANGED configured, NEW u \in GateTasks, task'[u] = task[u],
         cacheKey # NoKey => cacheKey' # NoKey
  PROVE  CallInv(u)' /\ task'[u].at <= generation
<1>1. /\ CallInv(u) /\ task[u] \in Call /\ generation' = generation + 1 /\ cleared' = book
      /\ generation \in Nat
  BY DEF GateInv, GateTypeOK, CacheCleared
<1>2. ~Loads(u)' /\ task[u].at <= generation'
  BY <1>1 DEF CallInv, Loads, Call
<1>3. \A a \in Accounts : task[u].since[a] <= cleared'[a]
  <2> TAKE a \in Accounts
  <2>1. /\ cleared[a] \in Nat /\ book[a] \in Nat /\ cleared[a] <= book[a]
        /\ task[u].since[a] <= cleared[a] /\ task[u].since[a] \in Nat
    BY <1>1 DEF GateInv, GateTypeOK, CallInv, Call
  <2> QED BY <1>1, <2>1
<1> QED BY <1>1, <1>2, <1>3 DEF CallInv, Seen

\* Once the cache is cleared it holds nothing, and nothing under way will be kept.
LEMMA ClearingKeeps ==
  ASSUME GateInv, CacheCleared, UNCHANGED <<book, configured>>, cacheKey' \in Accounts \cup {NoKey},
         cacheKey # NoKey => cacheKey' # NoKey, task' \in [GateTasks -> Call],
         \A u \in GateTasks : CallInv(u)' /\ task'[u].at <= generation,
         \A u \in GateTasks : task'[u].pc = "waiting" => task'[u].sheet \in Sheets
  PROVE  GateInv'
<1>1. /\ generation' = generation + 1 /\ cleared' = book /\ generation \in Nat
      /\ entries' = [s \in Sheets |-> NoEntry] /\ book \in [Accounts -> Nat]
  BY DEF GateInv, GateTypeOK, CacheCleared
<1>2. GateTypeOK'
  BY <1>1, NoEntryIsSheet DEF GateInv, GateTypeOK
<1>3. \A a \in Accounts : cleared'[a] <= book'[a]
  BY <1>1
<1>4. \A s \in Sheets : entries'[s] = NoEntry
  BY <1>1
<1>5. \A s \in Sheets : EntryInv(s)'
  BY <1>4 DEF EntryInv
<1>6. \A w \in GateTasks : ~Loads(w)'
  BY <1>1 DEF Loads, Call
<1>7. \A u \in GateTasks : WaitInv(u)'
  BY <1>4, <1>6 DEF WaitInv
<1> QED BY <1>2, <1>3, <1>5, <1>7 DEF GateInv

LEMMA ToolClearsKeeps == ASSUME GateInv, ToolClears PROVE GateInv'
<1>1. CacheCleared /\ UNCHANGED <<book, configured, cacheKey, task>>
  BY DEF ToolClears
<1>2. cacheKey \in Accounts \cup {NoKey} /\ task \in [GateTasks -> Call]
  BY DEF GateInv, GateTypeOK
<1>3. \A u \in GateTasks : CallInv(u)' /\ task'[u].at <= generation
  BY <1>1, ClearedRow
<1>4. \A u \in GateTasks : task[u].pc = "waiting" => task[u].sheet \in Sheets
  BY DEF GateInv, WaitInv
<1> QED BY <1>1, <1>2, <1>3, <1>4, ClearingKeeps

\* A call's row changes as the cache is cleared.
LEMMA ClearsAsItGoes ==
  ASSUME GateInv, CacheCleared, UNCHANGED <<book, configured>>, cacheKey' \in Accounts \cup {NoKey},
         cacheKey # NoKey => cacheKey' # NoKey,
         NEW t \in GateTasks, NEW c \in Call, task' = [task EXCEPT ![t] = c],
         c.at <= generation, \A a \in Accounts : c.since[a] <= cleared[a],
         c.pc \notin {"idle", "done"} =>
           /\ c.kind = "sheet" /\ t \in Readers /\ c.key \in Accounts
           /\ c.pc # "resolving" /\ {configured, c.key} \subseteq c.keys,
         c.pc = "waiting" => c.sheet \in Sheets,
         ~(c.kind = "sheet" /\ c.pc \in {"served", "logging"})
  PROVE  GateInv'
<1>1. /\ task' \in [GateTasks -> Call] /\ task'[t] = c
      /\ \A u \in GateTasks : u # t => task'[u] = task[u]
  BY RowChanged
<1>2. generation' = generation + 1 /\ cleared' = book /\ generation \in Nat
  BY DEF GateInv, GateTypeOK, CacheCleared
<1>3. ~Loads(t)' /\ c.at <= generation'
  BY <1>1, <1>2 DEF Loads, Call
<1>4. \A a \in Accounts : c.since[a] <= cleared'[a]
  <2> TAKE a \in Accounts
  <2>1. /\ cleared[a] \in Nat /\ book[a] \in Nat /\ cleared[a] <= book[a]
        /\ c.since[a] <= cleared[a] /\ c.since[a] \in Nat
    BY DEF GateInv, GateTypeOK, Call
  <2> QED BY <1>2, <2>1
<1>5. CallInv(t)'
  BY <1>1, <1>3, <1>4 DEF CallInv, Seen
<1>6. \A u \in GateTasks : CallInv(u)' /\ task'[u].at <= generation
  BY <1>1, <1>5, ClearedRow
<1>7. \A u \in GateTasks : task'[u].pc = "waiting" => task'[u].sheet \in Sheets
  BY <1>1 DEF GateInv, WaitInv
<1> QED BY <1>1, <1>6, <1>7, ClearingKeeps

\* The key of a sheet is known when its request goes to the gate.
LEMMA SheetAskedKeeps == ASSUME GateInv, NEW t \in GateTasks, SheetAsked(t) PROVE GateInv'
<1> DEFINE c == [task[t] EXCEPT !.pc = "gated"]
<1>1. /\ task' = [task EXCEPT ![t] = c] /\ book' = book /\ task[t].pc = "keyed"
      /\ configured' = configured /\ cacheKey' = task[t].key /\ task[t].kind = "sheet"
  BY DEF SheetAsked, Moves, SetsCacheKey
<1>2. task[t] \in Call /\ c \in Call /\ task'[t] = c /\ CallInv(t)
  BY ZenonT(60), <1>1, RowIn, RowChanged DEF Call, Pcs, GateInv
<1>3. /\ c.pc = "gated" /\ c.kind = task[t].kind /\ c.key = task[t].key /\ c.at = task[t].at
      /\ c.since = task[t].since /\ c.keys = task[t].keys /\ c.sheet = task[t].sheet
  BY <1>2 DEF Call
<1> HIDE DEF c
<1>4. c.key \in Accounts /\ c.key # NoKey
  BY <1>1, <1>2, <1>3, GateAssumption DEF CallInv, NoKey
<1>5. CASE cacheKey \notin {NoKey, task[t].key}
  <2>1. CacheCleared
    BY <1>5 DEF SheetAsked, SetsCacheKey
  <2>2. c.kind = "sheet" /\ t \in Readers /\ {configured, c.key} \subseteq c.keys /\ c.at <= generation
        /\ \A a \in Accounts : c.since[a] <= cleared[a]
    BY <1>1, <1>2, <1>3 DEF CallInv
  <2> QED BY <1>1, <1>2, <1>3, <1>4, <2>1, <2>2, ClearsAsItGoes
<1>6. CASE cacheKey = task[t].key
  <2>1. CacheKept
    BY <1>1, <1>4, <1>6 DEF SheetAsked, SetsCacheKey, CacheStays, CacheKept
  <2>2. ~Seen(t)' /\ (Loads(t)' => Loads(t) /\ cacheKey = c.key)
    BY <1>1, <1>2, <1>3, <1>6, <2>1 DEF Seen, Loads, CacheKept
  <2> QED BY <1>1, <1>2, <1>3, <2>1, <2>2, CallMoves, Kept
<1>7. CASE cacheKey = NoKey
  <2>1. UNCHANGED <<generation, entries, cleared>>
    BY <1>7 DEF SheetAsked, SetsCacheKey, CacheStays
  <2>2. /\ task' \in [GateTasks -> Call]
        /\ \A u \in GateTasks : u # t => task'[u] = task[u]
    BY <1>1, <1>2, RowChanged
  <2>3. \A s \in Sheets : entries[s] = NoEntry
    BY <1>7 DEF GateInv, EntryInv
  <2>4. \A w \in GateTasks : Loads(w) => task[w].pc = "keyed"
    BY <1>7, GateAssumption DEF GateInv, CallInv, Loads, NoKey
  <2>5. \A w \in GateTasks : Loads(w)' => Loads(w) /\ task'[w].key = task[w].key
    BY <1>1, <1>2, <1>3, <1>7, <2>1, <2>2 DEF Loads
  <2>6. \A w \in GateTasks : Loads(w)' => (w = t \/ task'[w].pc = "keyed")
    BY <2>2, <2>4, <2>5
  <2>7. GateTypeOK'
    BY <1>1, <1>3, <1>4, <2>1, <2>2 DEF GateInv, GateTypeOK
  <2>8. \A s \in Sheets : EntryInv(s)'
    BY <2>1, <2>3 DEF EntryInv
  <2>9. CallInv(t)'
    BY <1>1, <1>2, <1>3, <2>1 DEF CallInv, Seen
  <2>10. \A u \in GateTasks : u # t => CallInv(u)'
    <3> SUFFICES ASSUME NEW u \in GateTasks, u # t PROVE CallInv(u)'
      OBVIOUS
    <3>1. CallInv(u) /\ task'[u] = task[u] /\ (Loads(u)' => task'[u].pc = "keyed")
      BY <2>2, <2>6 DEF GateInv
    <3>2. ~(Loads(u)' /\ Seen(u)')
      BY <3>1 DEF Seen
    <3> QED BY <1>1, <1>3, <1>4, <2>1, <3>1, <3>2 DEF CallInv, Seen
  <2>11. \A u \in GateTasks : WaitInv(u)'
    <3> SUFFICES ASSUME NEW u \in GateTasks, task'[u].pc = "waiting" PROVE WaitInv(u)'
      BY DEF WaitInv
    <3>1. u # t /\ task'[u] = task[u] /\ WaitInv(u)
      BY <1>2, <1>3, <2>2 DEF GateInv
    <3> QED BY <2>1, <2>3, <2>5, <3>1 DEF WaitInv
  <2>12. \A a \in Accounts : cleared'[a] <= book'[a]
    BY <1>1, <2>1 DEF GateInv
  <2> QED BY <2>7, <2>8, <2>9, <2>10, <2>11, <2>12 DEF GateInv
<1> QED BY <1>5, <1>6, <1>7

\* The key has been resolved: another one than the last clears the cache.
LEMMA KeyCheckedKeeps == ASSUME GateInv, NEW t \in GateTasks, KeyChecked(t) PROVE GateInv'
<1> DEFINE c == [task[t] EXCEPT !.pc = "waiting"]
<1>1. /\ book' = book /\ task[t].pc = "resolving" /\ configured' = configured
      /\ cacheKey' = task[t].key /\ task[t] \in Call /\ CallInv(t)
  BY RowIn DEF KeyChecked, SetsCacheKey, GateInv
<1>2. /\ task[t].sheet \in Sheets /\ task[t].kind = "sheet" /\ t \in Readers /\ cacheKey # NoKey
      /\ task[t].key \in Accounts /\ {configured, task[t].key} \subseteq task[t].keys
      /\ task[t].at <= generation /\ \A a \in Accounts : task[t].since[a] <= cleared[a]
  BY <1>1 DEF CallInv
<1>3. task[t].key # NoKey
  BY <1>2, GateAssumption DEF NoKey
<1>4. c \in Call
  BY <1>1 DEF Call, Pcs
<1>5. /\ c.pc = "waiting" /\ c.kind = task[t].kind /\ c.key = task[t].key /\ c.at = task[t].at
      /\ c.since = task[t].since /\ c.keys = task[t].keys /\ c.sheet = task[t].sheet
  BY <1>1 DEF Call
<1>6. IF entries'[task[t].sheet] # NoEntry
      THEN task' = [task EXCEPT ![t] = Done("ok", entries'[task[t].sheet])]
      ELSE task' = [task EXCEPT ![t] = c]
  BY DEF KeyChecked, LooksUp
<1> HIDE DEF c
<1>7. CASE cacheKey # task[t].key
  <2>1. CacheCleared
    BY <1>2, <1>7 DEF KeyChecked, SetsCacheKey
  <2>2. entries'[task[t].sheet] = NoEntry
    BY <1>2, <2>1 DEF CacheCleared
  <2>3. task' = [task EXCEPT ![t] = c]
    BY <1>6, <2>2
  <2> QED BY <1>1, <1>2, <1>3, <1>4, <1>5, <2>1, <2>3, ClearsAsItGoes
<1>8. CASE cacheKey = task[t].key
  <2>1. CacheKept
    BY <1>1, <1>8 DEF KeyChecked, SetsCacheKey, CacheStays, CacheKept
  <2>2. CASE entries'[task[t].sheet] # NoEntry
    <3>1. entries'[task[t].sheet] \in Sheet
      BY <1>2, <2>1 DEF CacheKept, GateInv, GateTypeOK
    <3> QED BY <1>1, <1>6, <2>1, <2>2, <3>1, EndKeeps
  <2>3. CASE entries'[task[t].sheet] = NoEntry
    <3>1. task' = [task EXCEPT ![t] = c]
      BY <1>6, <2>3
    <3>2. task'[t] = c
      BY <1>4, <3>1, RowChanged
    <3>3. UNCHANGED <<configured, generation, cacheKey, cleared>>
      BY <2>1 DEF CacheKept
    <3>4. ~Loads(t)' /\ ~Seen(t)'
      BY <1>5, <3>2 DEF Loads, Seen
    <3>5. CallInv(t)'
      BY <1>2, <1>5, <3>2, <3>3, <3>4 DEF CallInv
    <3>6. cacheKey \in c.keys \ {NoKey}
      BY <1>2, <1>3, <1>5, <1>8
    <3> QED BY <1>1, <1>2, <1>4, <1>5, <2>1, <3>1, <3>4, <3>5, <3>6, RowMoves, Kept
  <2> QED BY <2>2, <2>3
<1> QED BY <1>7, <1>8

\* An answer that is kept is of the account the cache is about.
LEMMA KeptKeeps ==
  ASSUME GateInv, NEW t \in GateTasks, Loads(t), task[t].pc = "logging",
         task' = [task EXCEPT ![t] = Done("ok", task[t].seen)],
         entries' = [entries EXCEPT ![task[t].sheet] = task[t].seen],
         UNCHANGED <<book, configured, cacheKey, generation, cleared>>
  PROVE  GateInv'
<1> DEFINE c == Done("ok", task[t].seen)
<1>1. task[t] \in Call /\ CallInv(t) /\ Seen(t)
  BY RowIn DEF GateInv, Loads, Seen
<1>2. task[t].seen \in Sheet
  BY <1>1 DEF Call
<1>3. /\ task[t].kind = "sheet" /\ task[t].key = cacheKey /\ task[t].key \in Accounts
      /\ task[t].seen.account = cacheKey /\ task[t].seen.version >= cleared[cacheKey]
  BY <1>1 DEF CallInv, Loads
<1>4. cacheKey # NoKey
  BY <1>3, GateAssumption DEF NoKey
<1>5. /\ c \in Call /\ c.pc = "done" /\ c.kind = "none" /\ c.at = 0
      /\ c.since = [a \in Accounts |-> 0]
  BY <1>2, DoneRow
<1> HIDE DEF c
<1>6. task' = [task EXCEPT ![t] = c]
  BY DEF c
<1>7. /\ task' \in [GateTasks -> Call] /\ task'[t] = c
      /\ \A u \in GateTasks : u # t => task'[u] = task[u]
  BY <1>5, <1>6, RowChanged
<1>8. CallInv(t)' /\ ~Loads(t)'
  BY <1>5, <1>7, DoneCall DEF GateInv, GateTypeOK
<1>9. \A s \in Sheets : entries'[s] \in {entries[s], task[t].seen}
  BY DEF GateInv, GateTypeOK
<1>10. GateTypeOK'
  BY <1>2, <1>7 DEF GateInv, GateTypeOK
<1>11. \A s \in Sheets : EntryInv(s)'
  BY <1>3, <1>4, <1>9 DEF GateInv, EntryInv
<1>12. \A u \in GateTasks : CallInv(u)' /\ (Loads(u)' => Loads(u) /\ task'[u] = task[u])
  <2>1. ASSUME NEW u \in GateTasks, u # t
        PROVE  CallInv(u)' /\ (Loads(u)' => Loads(u) /\ task'[u] = task[u])
    <3>1. task'[u] = task[u] /\ CallInv(u)
      BY <1>7, <2>1 DEF GateInv
    <3> QED BY <3>1 DEF CallInv, Loads, Seen
  <2> QED BY <1>8, <2>1
<1>13. \A u \in GateTasks : WaitInv(u)'
  <2> SUFFICES ASSUME NEW u \in GateTasks, task'[u].pc = "waiting" PROVE WaitInv(u)'
    BY DEF WaitInv
  <2>1. task'[u] = task[u] /\ WaitInv(u)
    BY <1>5, <1>7 DEF GateInv
  <2>2. cacheKey \in task[u].keys
    BY <1>3, <2>1 DEF WaitInv
  <2> QED BY <1>12, <2>1, <2>2 DEF WaitInv
<1>14. \A a \in Accounts : cleared'[a] <= book'[a]
  BY DEF GateInv
<1> QED BY <1>10, <1>11, <1>12, <1>13, <1>14 DEF GateInv

\* A call returns.
LEMMA ReturnsKeeps == ASSUME GateInv, NEW t \in GateTasks, Returns(t) PROVE GateInv'
<1>1. /\ task' = [task EXCEPT ![t] = Done(task[t].result, task[t].seen)]
      /\ task[t] \in Call /\ CallInv(t) /\ task[t].pc = "logging"
      /\ UNCHANGED <<book, configured, cacheKey>>
  BY RowIn DEF Returns, GateInv, GateTypeOK
<1>2. task[t].result \in {"none", "ok", "failed", "aborted"} /\ task[t].seen \in Sheet
  BY <1>1 DEF Call
<1>3. CASE UNCHANGED <<entries, generation, cleared>>
  BY <1>1, <1>2, <1>3, EndKeeps DEF CacheKept
<1>4. CASE task[t].kind = "sheet"
  <2>1. CASE task[t].result = "ok" /\ task[t].at = generation
    <3>1. Loads(t)
      BY <1>1, <1>4, <2>1 DEF Loads
    <3> QED BY <1>1, <1>4, <2>1, <3>1, KeptKeeps DEF Returns, Keeps
  <2>2. CASE ~(task[t].result = "ok" /\ task[t].at = generation)
    BY <1>3, <1>4, <2>2 DEF Returns, Keeps
  <2> QED BY <2>1, <2>2
<1>5. CASE task[t].kind = "order" /\ task[t].result = "ok"
  <2>1. CacheCleared
    BY <1>5 DEF Returns
  <2> DEFINE c == Done(task[t].result, task[t].seen)
  <2>2. /\ c \in Call /\ c.pc = "done" /\ c.kind = "none" /\ c.at = 0
        /\ c.since = [a \in Accounts |-> 0]
    BY <1>2, DoneRow
  <2>3. 0 <= generation /\ \A a \in Accounts : 0 <= cleared[a]
    BY DEF GateInv, GateTypeOK
  <2>4. cacheKey' \in Accounts \cup {NoKey}
    BY <1>1 DEF GateInv, GateTypeOK
  <2> HIDE DEF c
  <2>5. task' = [task EXCEPT ![t] = c]
    BY <1>1 DEF c
  <2> QED BY ZenonT(60), <1>1, <2>1, <2>2, <2>3, <2>4, <2>5, ClearsAsItGoes
<1>6. CASE task[t].kind # "sheet" /\ ~(task[t].kind = "order" /\ task[t].result = "ok")
  BY <1>3, <1>6 DEF Returns, CacheStays
<1> QED BY <1>4, <1>5, <1>6

------------------------------------------------------------------------------
(* The surroundings. *)

\* The surroundings: an entry expires.
LEMMA ExpiresKeeps == ASSUME GateInv, NEW s \in Sheets, Expires(s) PROVE GateInv'
<1>1. /\ UNCHANGED <<book, configured, generation, cacheKey, task, cleared>>
      /\ entries' = [entries EXCEPT ![s] = NoEntry]
  BY DEF Expires
<1>2. \A x \in Sheets : entries'[x] \in {NoEntry, entries[x]}
  BY <1>1 DEF GateInv, GateTypeOK
<1>3. GateTypeOK'
  BY <1>1, NoEntryIsSheet DEF GateInv, GateTypeOK
<1>4. \A x \in Sheets : EntryInv(x)'
  BY <1>1, <1>2 DEF GateInv, EntryInv
<1>5. \A u \in GateTasks : CallInv(u)' /\ (Loads(u)' <=> Loads(u))
  BY <1>1 DEF GateInv, CallInv, Loads, Seen
<1>6. \A u \in GateTasks : WaitInv(u)'
  BY <1>1, <1>2, <1>5 DEF GateInv, WaitInv
<1>7. \A a \in Accounts : cleared'[a] <= book'[a]
  BY <1>1 DEF GateInv
<1> QED BY <1>3, <1>4, <1>5, <1>6, <1>7 DEF GateInv

\* Nothing of the calls and the cache changes.
LEMMA BookGrows ==
  ASSUME GateInv, CacheKept, UNCHANGED task, book' \in [Accounts -> Nat],
         \A a \in Accounts : book'[a] >= book[a]
  PROVE  GateInv'
<1>1. UNCHANGED <<configured, entries, generation, cacheKey, cleared>>
  BY DEF CacheKept
<1>2. GateTypeOK'
  BY <1>1 DEF GateInv, GateTypeOK
<1>3. \A a \in Accounts : cleared'[a] <= book'[a]
  <2> TAKE a \in Accounts
  <2>1. cleared[a] <= book[a] /\ cleared[a] \in Nat /\ book[a] \in Nat /\ book'[a] \in Nat
    BY DEF GateInv, GateTypeOK
  <2> QED BY <1>1, <2>1
<1>4. \A u \in GateTasks : CallInv(u)' /\ WaitInv(u)'
  BY <1>1 DEF GateInv, CallInv, WaitInv, Loads, Seen
<1>5. \A s \in Sheets : EntryInv(s)'
  BY <1>1 DEF GateInv, EntryInv
<1> QED BY <1>2, <1>3, <1>4, <1>5 DEF GateInv

\* Calls that are under way may be answered from the new account, too.
LEMMA KeySwitchedKeeps == ASSUME GateInv, NEW a \in Accounts, KeySwitched(a) PROVE GateInv'
<1>1. /\ UNCHANGED <<book, entries, generation, cacheKey, cleared>> /\ configured' = a
      /\ task' = [t \in GateTasks |-> IF task[t].pc \in {"idle", "done"} THEN task[t]
                                       ELSE [task[t] EXCEPT !.keys = task[t].keys \cup {a}]]
  BY DEF KeySwitched
<1>2. \A t \in GateTasks :
        LET c == task'[t] IN
        /\ c \in Call /\ c.pc = task[t].pc /\ c.kind = task[t].kind /\ c.key = task[t].key
        /\ c.at = task[t].at /\ c.result = task[t].result /\ c.seen = task[t].seen
        /\ c.since = task[t].since /\ c.sheet = task[t].sheet
        /\ c.pc \notin {"idle", "done"} => c.keys = task[t].keys \cup {a}
  <2> TAKE t \in GateTasks
  <2>1. task[t] \in Call
    BY RowIn
  <2>2. CASE task[t].pc \in {"idle", "done"}
    BY <1>1, <2>1, <2>2
  <2>3. CASE task[t].pc \notin {"idle", "done"}
    <3> DEFINE ks == task[t].keys \cup {a}
    <3>1. ks \in SUBSET Accounts
      BY <2>1 DEF Call
    <3>2. task'[t] = [task[t] EXCEPT !.keys = ks]
      BY <1>1, <2>3
    <3> HIDE DEF ks
    <3>3. /\ task'[t] \in Call /\ task'[t].keys = ks
          /\ task'[t].pc = task[t].pc /\ task'[t].kind = task[t].kind /\ task'[t].key = task[t].key
          /\ task'[t].at = task[t].at /\ task'[t].result = task[t].result
          /\ task'[t].seen = task[t].seen /\ task'[t].since = task[t].since
          /\ task'[t].sheet = task[t].sheet
      BY <2>1, <3>1, <3>2 DEF Call
    <3> QED BY <3>3 DEF ks
  <2> QED BY <2>2, <2>3
<1>3. task' \in [GateTasks -> Call]
  BY <1>1, <1>2
<1>4. GateTypeOK'
  BY <1>1, <1>3 DEF GateInv, GateTypeOK
<1>5. \A u \in GateTasks : (Loads(u)' <=> Loads(u)) /\ (Seen(u)' <=> Seen(u))
  BY <1>1, <1>2 DEF Loads, Seen
<1>6. \A u \in GateTasks : CallInv(u)'
  <2> TAKE u \in GateTasks
  <2>1. CallInv(u)
    BY DEF GateInv
  <2> QED BY <1>1, <1>2, <1>5, <2>1 DEF CallInv
<1>7. \A u \in GateTasks : WaitInv(u)'
  <2> SUFFICES ASSUME NEW u \in GateTasks, task'[u].pc = "waiting" PROVE WaitInv(u)'
    BY DEF WaitInv
  <2>1. WaitInv(u) /\ task'[u].keys = task[u].keys \cup {a} /\ task'[u].sheet = task[u].sheet
        /\ task[u].pc = "waiting"
    BY <1>2 DEF GateInv
  <2> QED BY <1>1, <1>2, <1>5, <2>1 DEF WaitInv
<1>8. \A s \in Sheets : EntryInv(s)'
  BY <1>1 DEF GateInv, EntryInv
<1>9. \A x \in Accounts : cleared'[x] <= book'[x]
  BY <1>1 DEF GateInv
<1> QED BY <1>4, <1>6, <1>7, <1>8, <1>9 DEF GateInv

\* Nothing has been read yet.
LEMMA GateOpensInv == GateInit => GateInv
<1> SUFFICES ASSUME GateInit PROVE GateInv
  OBVIOUS
<1>1. /\ book = [a \in Accounts |-> 0] /\ cleared = [a \in Accounts |-> 0] /\ configured \in Accounts
      /\ entries = [s \in Sheets |-> NoEntry] /\ generation = 0 /\ cacheKey = NoKey
      /\ task = [t \in GateTasks |-> Idle]
  BY DEF GateInit
<1>2. GateTypeOK
  BY <1>1, IdleRow, NoEntryIsSheet DEF GateTypeOK
<1>3. \A t \in GateTasks : ~Loads(t) /\ ~Seen(t)
  BY <1>1, IdleRow DEF Loads, Seen
<1>4. \A t \in GateTasks : CallInv(t) /\ WaitInv(t)
  BY <1>1, <1>3, IdleRow DEF CallInv, WaitInv
<1> QED BY <1>1, <1>2, <1>4 DEF GateInv, EntryInv

\* Every step of the gateway keeps the invariant.
LEMMA GateSteps == GateInv /\ [GateNext]_gateVars => GateInv'
<1> SUFFICES ASSUME GateInv, [GateNext]_gateVars PROVE GateInv'
  OBVIOUS
<1>1. CASE UNCHANGED gateVars
  BY <1>1, BookGrows, Kept DEF gateVars, CacheKept
<1>2. ASSUME NEW t \in GateTasks, TaskStep(t) \/ Serves(t) \/ TaskAborted(t) PROVE GateInv'
  BY <1>2, KeyCheckedKeeps, KeyFailsKeeps, TakesFlightKeeps, SheetAskedKeeps, CallAskedKeeps, SendsKeeps,
     AnswersKeeps, FailsKeeps, RefusedKeeps, BacksOffKeeps, ReturnsKeeps, ServesKeeps, AbortKeeps
     DEF TaskStep
<1>3. CASE GateOpens
  BY <1>3, BookGrows, Kept DEF GateOpens
<1>4. CASE BookMoves
  <2>1. book' = [book EXCEPT ![configured] = @ + 1] /\ CacheKept /\ task' = task
    BY <1>4 DEF BookMoves
  <2>2. book \in [Accounts -> Nat] /\ configured \in Accounts
    BY DEF GateInv, GateTypeOK
  <2>3. book[configured] + 1 \in Nat /\ \A a \in Accounts : book[a] \in Nat
    BY <2>2
  <2>4. book' \in [Accounts -> Nat] /\ \A a \in Accounts : book'[a] >= book[a]
    BY <2>1, <2>2, <2>3
  <2> QED BY <2>1, <2>4, BookGrows
<1> QED BY <1>1, <1>2, <1>3, <1>4, ReadBeginsKeeps, RequestBeginsKeeps, ToolClearsKeeps, ExpiresKeeps,
           KeySwitchedKeeps DEF GateNext

LEMMA GateIsSafe == LiveSpec => []GateInv
<1>1. LiveInit => GateInv
  BY GateOpensInv DEF LiveInit
<1>2. GateInv /\ [LiveNext]_<<vars, gateVars, publicVars, part>> => GateInv'
  <2>1. [LiveNext]_<<vars, gateVars, publicVars, part>> => [GateNext]_gateVars
    <3>1. LiveNext => GateNext \/ UNCHANGED gateVars
      BY DEF LiveNext
    <3>2. UNCHANGED <<vars, gateVars, publicVars, part>> => UNCHANGED gateVars
      OBVIOUS
    <3> QED BY <3>1, <3>2
  <2> QED BY <2>1, GateSteps
<1> QED BY <1>1, <1>2, PTL DEF LiveSpec

\* What an answer may be, in whichever way a call gets it.
Current(c, seen) == seen.version >= c.since[seen.account] /\ seen.account \in c.keys

\* An entry may answer whoever may be answered from the account the cache is about.
LEMMA EntryIsCurrent ==
  ASSUME GateInv, NEW t \in GateTasks, NEW s \in Sheets, entries[s] # NoEntry, cacheKey \in task[t].keys,
         task[t].pc \notin {"idle", "done"}
  PROVE  Current(task[t], entries[s])
<1>1. EntryInv(s) /\ CallInv(t) /\ task[t] \in Call /\ entries[s] \in Sheet
  BY RowIn DEF GateInv, GateTypeOK
<1>2. cacheKey \in Accounts
  BY <1>1 DEF EntryInv, GateInv, GateTypeOK
<1>3. /\ cleared[cacheKey] \in Nat /\ task[t].since[cacheKey] \in Nat /\ entries[s].version \in Nat
      /\ task[t].since[cacheKey] <= cleared[cacheKey] /\ entries[s].version >= cleared[cacheKey]
  BY <1>1, <1>2 DEF GateInv, GateTypeOK, CallInv, Call, Sheet, EntryInv
<1> QED BY <1>1, <1>3 DEF Current, EntryInv

\* How a reader gets its answer: it has been waiting or resolving and finds the
\* entry, or it returns what it has loaded.
LEMMA AnswersAreCurrent ==
  ASSUME GateInv, NEW t \in Readers, GateNext, task[t].pc # "done", task'[t].pc = "done",
         task'[t].result = "ok"
  PROVE  Current(task[t], task'[t].seen)
<1>1. t \in GateTasks /\ task[t] \in Call /\ CallInv(t) /\ WaitInv(t)
  BY RowIn DEF GateTasks, GateInv
<1>2. task \in [GateTasks -> Call]
  BY DEF GateInv, GateTypeOK
<1>3. ASSUME NEW u \in GateTasks, NEW c, task' = [task EXCEPT ![u] = c] PROVE u = t /\ task'[t] = c
  BY <1>1, <1>2, <1>3
<1>4. CASE UNCHANGED task
  BY <1>4
<1>5. ASSUME NEW u \in GateTasks, KeyChecked(u) PROVE Current(task[t], task'[t].seen)
  <2> DEFINE e == entries'[task[u].sheet]
             c == [task[u] EXCEPT !.pc = "waiting"]
  <2>1. CASE e = NoEntry
    <3>1. task' = [task EXCEPT ![u] = c]
      BY <1>5, <2>1 DEF KeyChecked, LooksUp
    <3>2. u = t /\ task'[t] = c
      BY <1>3, <3>1
    <3> QED BY <1>1, <3>2 DEF Call
  <2>2. CASE e # NoEntry
    <3>1. task' = [task EXCEPT ![u] = Done("ok", e)] /\ task[u].pc = "resolving"
      BY <1>5, <2>2 DEF KeyChecked, LooksUp
    <3>2. u = t /\ task'[t] = Done("ok", e)
      BY <1>3, <3>1
    <3>3. task[t].sheet \in Sheets /\ cacheKey # NoKey /\ task[t].key \in task[t].keys
      BY <1>1, <3>1, <3>2 DEF CallInv
    <3>4. ~CacheCleared
      BY <2>2, <3>2, <3>3 DEF CacheCleared
    <3>5. entries' = entries /\ cacheKey = task[t].key
      BY <1>5, <3>2, <3>3, <3>4 DEF KeyChecked, SetsCacheKey, CacheStays
    <3>6. entries[task[t].sheet] \in Sheet
      BY <3>3 DEF GateInv, GateTypeOK
    <3>7. task'[t].seen = entries[task[t].sheet]
      BY <3>2, <3>5, <3>6, DoneRow
    <3> QED BY <1>1, <2>2, <3>1, <3>2, <3>3, <3>5, <3>7, EntryIsCurrent
  <2> QED BY <2>1, <2>2
<1>6. ASSUME NEW u \in GateTasks, TakesFlight(u) PROVE Current(task[t], task'[t].seen)
  <2> DEFINE e == entries[task[u].sheet]
             c == [task[u] EXCEPT !.pc = "keyed", !.at = generation, !.key = configured]
  <2>1. CASE e = NoEntry
    <3>1. task' = [task EXCEPT ![u] = c]
      BY <1>6, <2>1 DEF TakesFlight
    <3>2. u = t /\ task'[t] = c
      BY <1>3, <3>1
    <3> QED BY <1>1, <3>2 DEF Call
  <2>2. CASE e # NoEntry
    <3>1. task' = [task EXCEPT ![u] = Done("ok", e)] /\ task[u].pc = "waiting"
      BY <1>6, <2>2 DEF TakesFlight
    <3>2. u = t /\ task'[t] = Done("ok", e)
      BY <1>3, <3>1
    <3>3. task[t].sheet \in Sheets /\ cacheKey \in task[t].keys
      BY <1>1, <2>2, <3>1, <3>2 DEF WaitInv
    <3>4. e \in Sheet
      BY <3>2, <3>3 DEF GateInv, GateTypeOK
    <3>5. task'[t].seen = entries[task[t].sheet]
      BY <3>2, <3>4, DoneRow
    <3> QED BY <1>1, <2>2, <3>1, <3>2, <3>3, <3>5, EntryIsCurrent
  <2> QED BY <2>1, <2>2
<1>7. ASSUME NEW u \in GateTasks, Returns(u) PROVE Current(task[t], task'[t].seen)
  <2>1. task' = [task EXCEPT ![u] = Done(task[u].result, task[u].seen)] /\ task[u].pc = "logging"
    BY <1>2, <1>7 DEF Returns
  <2>2. u = t /\ task'[t] = Done(task[t].result, task[t].seen)
    BY <1>3, <2>1
  <2>3. task[t].result \in {"none", "ok", "failed", "aborted"} /\ task[t].seen \in Sheet
    BY <1>1 DEF Call
  <2>4. task'[t].seen = task[t].seen /\ task[t].result = "ok"
    BY <2>2, <2>3, DoneRow
  <2>5. task[t].kind = "sheet" /\ Seen(t) /\ task[t].key \in task[t].keys
    BY <1>1, <2>1, <2>2, <2>4 DEF CallInv, Seen
  <2> QED BY <1>1, <2>4, <2>5 DEF CallInv, Current
<1>8. ASSUME NEW u \in GateTasks, KeyFails(u) \/ TaskAborted(u) PROVE FALSE
  <2>1. CASE task' = [task EXCEPT ![u] = Done("failed", NoEntry)]
    <3>1. task'[t] = Done("failed", NoEntry)
      BY <1>3, <2>1
    <3> QED BY <3>1, DoneRow, NoEntryIsSheet
  <2>2. CASE task' = [task EXCEPT ![u] = Done("aborted", NoEntry)]
    <3>1. task'[t] = Done("aborted", NoEntry)
      BY <1>3, <2>2
    <3> QED BY <3>1, DoneRow, NoEntryIsSheet
  <2>3. CASE Logs(u, "failed")
    BY <1>1, <1>2, <2>3 DEF Logs, Call
  <2> QED BY <1>8, <2>1, <2>2, <2>3 DEF KeyFails, TaskAborted
<1>9. ASSUME NEW u \in GateTasks,
             SheetAsked(u) \/ CallAsked(u) \/ Sends(u) \/ Answers(u) \/ Fails(u) \/ Refused(u)
             \/ BacksOff(u) \/ Serves(u)
      PROVE  FALSE
  <2>1. CASE SheetAsked(u) \/ CallAsked(u) \/ Sends(u)
    BY ZenonT(60), <1>1, <1>2, <2>1 DEF SheetAsked, CallAsked, Sends, Moves, Logs, Call
  <2>2. CASE Answers(u) \/ Fails(u)
    BY <1>1, <1>2, <2>2 DEF Answers, Fails, Logs, Call
  <2>3. CASE Refused(u)
    BY SMTT(60), <1>1, <1>2, <2>3 DEF Refused, Moves, Logs, Call
  <2>4. CASE BacksOff(u)
    BY <1>1, <1>2, <2>4 DEF BacksOff, Moves, Logs, Call
  <2>5. CASE Serves(u)
    BY <1>1, <1>2, <2>5 DEF Serves, Call
  <2> QED BY <1>9, <2>1, <2>2, <2>3, <2>4, <2>5
<1>10. ASSUME NEW u \in Callers, NEW kind \in {"query", "order"}, RequestBegins(u, kind) PROVE FALSE
  <2>1. task' = [task EXCEPT ![u] = [Idle EXCEPT !.kind = kind, !.pc = "keyed", !.key = configured]]
    BY <1>10 DEF RequestBegins
  <2> QED BY <1>1, <1>2, <2>1, IdleRow DEF Call, GateTasks
<1>11. ASSUME NEW u \in Readers, NEW s \in Sheets, ReadBegins(u, s) PROVE FALSE
  <2> DEFINE t1 == [Idle EXCEPT !.kind = "sheet", !.sheet = s, !.since = cleared, !.key = configured,
                                !.keys = IF cacheKey = NoKey THEN Accounts ELSE {configured}]
  <2>1. entries' = entries /\ (cacheKey = NoKey => entries[s] = NoEntry) /\ u \in GateTasks
    BY <1>11 DEF ReadBegins, CacheStays, GateInv, EntryInv, GateTasks
  <2>2. DOMAIN t1 = DOMAIN Idle /\ t1.sheet = s
    BY IdleRow DEF Call
  <2>3. \E pc \in {"waiting", "resolving"} : task' = [task EXCEPT ![u] = [t1 EXCEPT !.pc = pc]]
    BY <1>11, <2>1, <2>2 DEF ReadBegins, LooksUp
  <2>4. PICK pc \in {"waiting", "resolving"} : task'[t] = [t1 EXCEPT !.pc = pc]
    BY <1>3, <2>1, <2>3
  <2> QED BY <2>4, IdleRow DEF Call
<1>12. CASE GateOpens \/ ToolClears \/ BookMoves \/ \E s \in Sheets : Expires(s)
  BY <1>4, <1>12 DEF GateOpens, ToolClears, BookMoves, Expires
<1>13. ASSUME NEW a \in Accounts, KeySwitched(a) PROVE FALSE
  BY <1>1, <1>13 DEF KeySwitched, Call
<1> QED BY <1>5, <1>6, <1>7, <1>8, <1>9, <1>10, <1>11, <1>12, <1>13 DEF GateNext, TaskStep

\* For any number of readers, callers, sheets, accounts and events: a sheet is
\* answered no older than the last clearing before it was asked for, and from an
\* account that was configured since.
THEOREM SheetsAreCurrent == LiveSpec => ReadsAreCurrent
<1>1. GateInv /\ [LiveNext]_<<vars, gateVars, publicVars, part>> =>
        [\A t \in Readers :
           task[t].pc # "done" /\ task'[t].pc = "done" /\ task'[t].result = "ok" =>
             LET seen == task'[t].seen
             IN /\ seen.version >= task[t].since[seen.account]
                /\ seen.account \in task[t].keys]_gateVars
  <2>1. LiveNext => GateNext \/ UNCHANGED gateVars
    BY DEF LiveNext
  <2>2. UNCHANGED <<vars, gateVars, publicVars, part>> => UNCHANGED gateVars
    OBVIOUS
  <2> QED BY <2>1, <2>2, AnswersAreCurrent DEF Current
<1> QED BY <1>1, GateIsSafe, PTL DEF LiveSpec, ReadsAreCurrent

==============================================================================
