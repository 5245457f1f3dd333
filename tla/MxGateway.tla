------------------------------ MODULE MxGateway ------------------------------
(***************************************************************************)
(* The broker's gateway (stock_api/mx): account sheets read through a      *)
(* short-lived cache that loads each sheet once at a time (cache.py), one  *)
(* gate through which every request of the process passes alone (retry.py) *)
(* and the two transports that send them (moni.py for sheets, http.py for  *)
(* research queries and orders).  Each call is one asyncio task; between   *)
(* two awaits of a task the others may run.  The time to live of an entry  *)
(* and the waits of the gate are events; some key is always configured.    *)
(***************************************************************************)
EXTENDS Integers, Sequences

CONSTANTS Readers,       \* tasks that read a sheet, each once
          Callers,       \* tasks that make a query or place an order, each once
          Sheets,        \* cached reads: balance, positions, orders
          Accounts,      \* API keys, one per paper account
          MaxRetries,    \* MX_RATE_LIMIT_RETRIES
          Allowances     \* how often the surroundings may act, one chosen at the start

ASSUME GateAssumption ==
  /\ Readers \cap Callers = {} /\ "none" \notin Accounts
  /\ MaxRetries \in Nat
  /\ Allowances \subseteq [move : Nat, clear : Nat, switch : Nat, abort : Nat, call : Nat]

NoEntry == [account |-> "none", version |-> 0]
NoKey   == "none"
GateTasks == Readers \cup Callers

VARIABLES
  book,        \* the broker's version of each account
  configured,  \* mx_api_key in the settings
  entries,     \* MxReadCache._entries
  generation,  \* MxReadCache._generation
  cacheKey,    \* MxMoniClient._cache_api_key
  flight,      \* per sheet, who holds and awaits its lock
  gate,        \* who holds and awaits MxRequestGate
  deferred,    \* the gate waits out a refusal
  task,        \* the calls
  cleared,     \* history: each account's version when the cache was last cleared
  allowed      \* the allowance that is left

gateVars == <<book, configured, entries, generation, cacheKey, flight, gate,
              deferred, task, cleared, allowed>>

Idle == [pc |-> "idle", kind |-> "none", sheet |-> "none", key |-> NoKey,
         at |-> 0, tries |-> 0, result |-> "none", seen |-> NoEntry,
         since |-> [a \in Accounts |-> 0], keys |-> {}]

GateInit ==
  /\ book = [a \in Accounts |-> 0]
  /\ configured \in Accounts
  /\ entries = [s \in Sheets |-> NoEntry]
  /\ generation = 0 /\ cacheKey = NoKey
  /\ flight = [s \in Sheets |-> <<>>] /\ gate = <<>> /\ deferred = FALSE
  /\ task = [t \in GateTasks |-> Idle]
  /\ cleared = [a \in Accounts |-> 0] /\ allowed \in Allowances

\* What is left of a call that has returned.
Done(result, seen) == [Idle EXCEPT !.pc = "done", !.result = result, !.seen = seen]
Without(q, t) == SelectSeq(q, LAMBDA u : u # t)
Uses(what) == allowed[what] > 0 /\ allowed' = [allowed EXCEPT ![what] = @ - 1]
Moves(t, pc) == task' = [task EXCEPT ![t].pc = pc]
Logs(t, result) == task' = [task EXCEPT ![t].pc = "logging", ![t].result = result]

CacheKept == UNCHANGED <<configured, entries, generation, cacheKey, cleared>>
NoneUsed  == UNCHANGED allowed

\* MxReadCache.clear.
CacheCleared == /\ generation' = generation + 1
           /\ entries' = [s \in Sheets |-> NoEntry]
           /\ cleared' = book
CacheStays == UNCHANGED <<generation, entries, cleared>>

\* _set_cache_api_key: another key than the last one seen clears the cache.
SetsCacheKey(key) ==
  /\ cacheKey' = key
  /\ IF cacheKey \notin {NoKey, key} THEN CacheCleared ELSE CacheStays

\* get_or_load up to the lock of the sheet: a live entry answers at once.
LooksUp(t, t1) ==
  LET entry == entries'[t1.sheet]
  IN IF entry # NoEntry
     THEN /\ task' = [task EXCEPT ![t] = Done("ok", entry)]
          /\ UNCHANGED flight
     ELSE /\ task' = [task EXCEPT ![t] = [t1 EXCEPT !.pc = "waiting"]]
          /\ flight' = [flight EXCEPT ![t1.sheet] = Append(@, t)]

------------------------------------------------------------------------------
(* A sheet, through the cache *)

\* get_account_snapshot, get_positions, get_orders: the key is resolved again
\* before the cache is asked, once a key has been seen.
ReadBegins(t, s) ==
  /\ task[t].pc = "idle"
  /\ LET t1 == [Idle EXCEPT !.kind = "sheet", !.sheet = s, !.since = cleared,
                            !.key = configured,
                            !.keys = IF cacheKey = NoKey THEN Accounts ELSE {configured}]
     IN IF cacheKey = NoKey
        THEN CacheStays /\ LooksUp(t, t1)
        ELSE /\ task' = [task EXCEPT ![t] = [t1 EXCEPT !.pc = "resolving"]]
             /\ UNCHANGED flight /\ CacheStays
  /\ UNCHANGED <<book, configured, cacheKey, gate, deferred, allowed>>

KeyChecked(t) ==
  /\ task[t].pc = "resolving"
  /\ SetsCacheKey(task[t].key) /\ LooksUp(t, task[t])
  /\ UNCHANGED <<book, configured, gate, deferred, allowed>>

\* The lock of the sheet is taken: what its last holder loaded is looked at
\* again, or the generation noted and the loader started, whose transport
\* resolves the key.
TakesFlight(t) ==
  /\ task[t].pc = "waiting" /\ Head(flight[task[t].sheet]) = t
  /\ LET entry == entries[task[t].sheet]
     IN IF entry # NoEntry
        THEN /\ task' = [task EXCEPT ![t] = Done("ok", entry)]
             /\ flight' = [flight EXCEPT ![task[t].sheet] = Tail(@)]
        ELSE /\ task' = [task EXCEPT ![t].pc = "keyed", ![t].at = generation, ![t].key = configured]
             /\ UNCHANGED flight
  /\ UNCHANGED <<book, configured, entries, generation, cacheKey, gate, deferred,
                 cleared, allowed>>

\* _post has its key: it goes to the gate.
SheetAsked(t) ==
  /\ task[t].pc = "keyed" /\ task[t].kind = "sheet"
  /\ SetsCacheKey(task[t].key)
  /\ Moves(t, "gated") /\ gate' = Append(gate, t)
  /\ UNCHANGED <<book, configured, flight, deferred, allowed>>

------------------------------------------------------------------------------
(* A research query or an order *)

\* post_envelope resolves the key; the cache does not hear of it.
RequestBegins(t, kind) ==
  /\ task[t].pc = "idle" /\ Uses("call")
  /\ task' = [task EXCEPT ![t] = [Idle EXCEPT !.kind = kind, !.pc = "keyed",
                                              !.key = configured]]
  /\ UNCHANGED <<book, flight, gate, deferred>> /\ CacheKept

CallAsked(t) ==
  /\ task[t].pc = "keyed" /\ task[t].kind \in {"query", "order"}
  /\ Moves(t, "gated") /\ gate' = Append(gate, t)
  /\ UNCHANGED <<book, configured, entries, generation, cacheKey, flight, deferred,
                 cleared, allowed>>

\* The settings cannot be read: the call fails on its way to the gate.
KeyFails(t) ==
  /\ \/ /\ task[t].pc = "resolving"
        /\ task' = [task EXCEPT ![t] = Done("failed", NoEntry)]
     \/ task[t].pc = "keyed" /\ Logs(t, "failed")
  /\ UNCHANGED <<book, flight, gate, deferred>> /\ CacheKept /\ NoneUsed

------------------------------------------------------------------------------
(* The gate and the wire *)

AtGate(t) == task[t].pc \in {"gated", "sent", "served"} /\ Head(gate) = t
LeavesGate(t) == gate' = Tail(gate)
\* __aenter__ has slept its delay, holding the lock.
Sends(t) ==
  /\ task[t].pc = "gated" /\ AtGate(t) /\ ~deferred
  /\ Moves(t, "sent")
  /\ UNCHANGED <<book, flight, gate, deferred>> /\ CacheKept /\ NoneUsed

\* The upstream reads the account, or books the order.
Serves(t) ==
  /\ task[t].pc = "sent"
  /\ LET a == task[t].key
     IN /\ book' = IF task[t].kind = "order" THEN [book EXCEPT ![a] = @ + 1] ELSE book
        /\ task' = [task EXCEPT ![t].pc = "served",
                                ![t].seen = [account |-> a, version |-> book'[a]]]
  /\ UNCHANGED <<flight, gate, deferred>> /\ CacheKept /\ NoneUsed

\* The answer is in; the gate is left, and the call is logged before it returns.
Answers(t) ==
  /\ task[t].pc = "served"
  /\ Logs(t, "ok") /\ LeavesGate(t)
  /\ UNCHANGED <<book, flight, deferred>> /\ CacheKept /\ NoneUsed

\* An error, a timeout with the outcome unknown, a used-up quota.
Fails(t) ==
  /\ task[t].pc \in {"sent", "served"}
  /\ Logs(t, "failed") /\ LeavesGate(t)
  /\ UNCHANGED <<book, flight, deferred>> /\ CacheKept /\ NoneUsed

\* Refused for the rate of requests: a read defers the gate for everybody and
\* is made again, MaxRetries times; an order is not.
MayRetry(t) == task[t].kind # "order" /\ task[t].tries < MaxRetries
Refused(t) ==
  /\ task[t].pc = "sent" /\ LeavesGate(t)
  /\ IF MayRetry(t)
     THEN /\ task' = [task EXCEPT ![t].pc = "backing", ![t].tries = @ + 1]
          /\ deferred' = TRUE
     ELSE /\ Logs(t, "failed")
          /\ UNCHANGED deferred
  /\ UNCHANGED <<book, flight>> /\ CacheKept /\ NoneUsed

\* The retry's own sleep is over: to the end of the gate's queue.
BacksOff(t) ==
  /\ task[t].pc = "backing"
  /\ Moves(t, "gated") /\ gate' = Append(gate, t)
  /\ UNCHANGED <<book, flight, deferred>> /\ CacheKept /\ NoneUsed

\* The wait of the gate is over.
GateOpens ==
  /\ deferred /\ deferred' = FALSE
  /\ UNCHANGED <<book, flight, gate, task>> /\ CacheKept /\ NoneUsed

\* The log is written and the call returns: a sheet is kept if nothing cleared
\* the cache since its load began, and its lock released either way; an order
\* that was accepted clears the cache.
KeepsAnyhow(t) ==               \* mutant: whatever was cleared meanwhile
  entries' = IF task[t].result = "ok"
             THEN [entries EXCEPT ![task[t].sheet] = task[t].seen] ELSE entries
Keeps(t) == entries' = IF task[t].result = "ok" /\ task[t].at = generation
                       THEN [entries EXCEPT ![task[t].sheet] = task[t].seen]
                       ELSE entries
LeavesOnSuccess(t) ==           \* mutant: the lock is left to a load that failed
  flight' = IF task[t].result = "ok"
            THEN [flight EXCEPT ![task[t].sheet] = Without(@, t)] ELSE flight
LeavesFlight(t) == flight' = [flight EXCEPT ![task[t].sheet] = Without(@, t)]
Returns(t) ==
  /\ task[t].pc = "logging"
  /\ task' = [task EXCEPT ![t] = Done(@.result, @.seen)]
  /\ CASE task[t].kind = "sheet" -> Keeps(t) /\ LeavesFlight(t)
                                   /\ UNCHANGED <<generation, cleared>>
       [] task[t].kind = "order" /\ task[t].result = "ok" -> CacheCleared /\ UNCHANGED flight
       [] OTHER -> CacheStays /\ UNCHANGED flight
  /\ UNCHANGED <<book, configured, cacheKey, gate, deferred, allowed>>

------------------------------------------------------------------------------
(* What happens around the calls *)

\* An abort cancels the task at the await it is in; its locks are released.
TaskAborted(t) ==
  /\ task[t].pc \notin {"idle", "done"}
  /\ task' = [task EXCEPT ![t] = Done("aborted", NoEntry)]
  /\ gate' = Without(gate, t)
  /\ flight' = [s \in Sheets |-> Without(flight[s], t)]
  /\ Uses("abort") /\ UNCHANGED <<book, deferred>> /\ CacheKept

\* clear_read_cache: a preflight, a refresh or a plan about to read.
ToolClears ==
  /\ Uses("clear") /\ CacheCleared
  /\ UNCHANGED <<book, configured, cacheKey, flight, gate, deferred, task>>

\* An entry outlives its three seconds.
Expires(s) ==
  /\ entries[s] # NoEntry /\ entries' = [entries EXCEPT ![s] = NoEntry]
  /\ UNCHANGED <<book, configured, generation, cacheKey, flight, gate, deferred, task,
                 cleared, allowed>>

\* A fill, or an order booked after its request had ended, in the account in use.
BookMoves ==
  /\ Uses("move") /\ book' = [book EXCEPT ![configured] = @ + 1]
  /\ UNCHANGED <<flight, gate, deferred, task>> /\ CacheKept

\* The API key is edited in the settings.
KeySwitched(a) ==
  /\ a # configured /\ configured' = a /\ Uses("switch")
  /\ task' = [t \in GateTasks |-> IF task[t].pc \in {"idle", "done"} THEN task[t]
                                  ELSE [task[t] EXCEPT !.keys = @ \cup {a}]]
  /\ UNCHANGED <<book, entries, generation, cacheKey, flight, gate, deferred, cleared>>

TaskStep(t) ==
  \/ KeyChecked(t) \/ KeyFails(t) \/ TakesFlight(t) \/ SheetAsked(t) \/ CallAsked(t)
  \/ Sends(t) \/ Answers(t) \/ Fails(t) \/ Refused(t) \/ BacksOff(t) \/ Returns(t)

GateNext ==
  \/ \E t \in GateTasks : TaskStep(t) \/ Serves(t) \/ TaskAborted(t)
  \/ \E t \in Readers, s \in Sheets : ReadBegins(t, s)
  \/ \E t \in Callers, kind \in {"query", "order"} : RequestBegins(t, kind)
  \/ GateOpens \/ ToolClears \/ BookMoves
  \/ \E s \in Sheets : Expires(s)
  \/ \E a \in Accounts : KeySwitched(a)

\* Requests time out (15 s), waits are bounded (10 s), the log is written.
GateFairness == /\ \A t \in GateTasks : WF_gateVars(TaskStep(t))
                /\ WF_gateVars(GateOpens)

------------------------------------------------------------------------------
\* A sheet read after the cache was cleared - by an accepted order, a
\* preflight, a refresh - was taken by the broker no earlier than that, and
\* after an edit of the API key it is of the account in the settings, whatever
\* was being loaded at the time ("Preflight must not reuse a three-second
\* portfolio cache", mx_agent_tools.py).
ReadsAreCurrent ==
  [][\A t \in Readers :
       task[t].pc # "done" /\ task'[t].pc = "done" /\ task'[t].result = "ok" =>
         LET seen == task'[t].seen
         IN /\ seen.version >= task[t].since[seen.account]
            /\ seen.account \in task[t].keys]_gateVars

\* Every call returns: neither a refusal that defers the gate nor a loader that
\* fails or is aborted leaves the others at a lock nobody releases.
CallsReturn == \A t \in GateTasks : task[t].pc # "idle" ~> task[t].pc = "done"
=============================================================================
