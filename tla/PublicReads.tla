----------------------------- MODULE PublicReads -----------------------------
(***************************************************************************)
(* Reads of public market data (stock_api/public): a cache that loads each *)
(* key once at a time (cache.py), a router that walks the sources of a     *)
(* request (router.py), and per lane - a host, or a group of its           *)
(* interfaces - a gate with few permits and a rest for hosts that keep     *)
(* hanging up (http.py).  Lifetimes, pacing and budgets are events; what a *)
(* source says is one of the few answers the code tells apart.  The log    *)
(* that each request leaves, and the diagnostic call of one fixed source,  *)
(* are left out.                                                           *)
(***************************************************************************)
EXTENDS Integers, Sequences, FiniteSets

CONSTANTS PublicTasks,   \* tasks that read, each once; numbered
          PublicKeys,    \* requests
          KeptKeys,      \* those whose answers are cached at all: _ttl_seconds > 0
          Route,         \* the sources in order: [lane, reserve, onEmpty]
          Permits,       \* ProviderRequestGate.maximum_concurrency
          RestAfter,     \* LANE_REST_AFTER_FAILURES
          MaxCancels     \* bound: readers that are cancelled

ASSUME PublicAssumption ==
  /\ PublicTasks \subseteq Nat \ {0}
  /\ KeptKeys \subseteq PublicKeys
  /\ Permits \in Nat \ {0} /\ RestAfter \in Nat \ {0} /\ MaxCancels \in Nat

VARIABLES
  kept,      \* keys with a live entry in PublicStockDataCache._entries
  locks,     \* key -> the task whose lock entry is in _locks, or NoReader
  users,     \* per lock entry: who holds and awaits it
  host,      \* lane -> [hangups, resting]: LaneRest; [waiting, lost]: its gate
  read,      \* the calls
  cancels    \* counter of the bound

publicVars == <<kept, locks, users, host, read, cancels>>

NoReader == 0
Lanes == {Route[i].lane : i \in 1 .. Len(Route)}
NotReading == [pc |-> "idle", key |-> "none", entry |-> NoReader, source |-> 1, tries |-> 0]

PublicInit ==
  /\ kept = {}
  /\ locks = [k \in PublicKeys |-> NoReader]
  /\ users = [t \in PublicTasks |-> <<>>]
  /\ host = [l \in Lanes |-> [hangups |-> 0, resting |-> FALSE, waiting |-> <<>>,
                             lost |-> 0]]
  /\ read = [t \in PublicTasks |-> NotReading]
  /\ cancels = 0

LaneOf(t) == Route[read[t].source].lane
Position(q, t) == CHOOSE i \in DOMAIN q : q[i] = t
LeavesQueue(q, t) ==
  IF \E i \in DOMAIN q : q[i] = t
  THEN [i \in 1 .. Len(q) - 1 |-> IF i < Position(q, t) THEN q[i] ELSE q[i + 1]]
  ELSE q
Onward(t, change) ==
  read' = [read EXCEPT ![t] =
             [f \in DOMAIN @ |-> IF f \in DOMAIN change THEN change[f] ELSE @[f]]]

\* The finally of _single_flight: the lock is left, and the entry with its last
\* user.
PopsWithHolder(t) ==             \* mutant: the entry goes with whoever leaves it
  /\ users' = [users EXCEPT ![read[t].entry] = LeavesQueue(@, t)]
  /\ locks' = [locks EXCEPT ![read[t].key] = IF @ = read[t].entry THEN NoReader ELSE @]
LeavesEntry(t) ==
  /\ users' = [users EXCEPT ![read[t].entry] = LeavesQueue(@, t)]
  /\ locks' = [locks EXCEPT ![read[t].key] =
                 IF @ = read[t].entry /\ users'[read[t].entry] = <<>> THEN NoReader ELSE @]

Ends(t) == read' = [read EXCEPT ![t] = [NotReading EXCEPT !.pc = "done"]]
EndsFlight(t) ==
  /\ Ends(t)
  /\ IF read[t].entry = NoReader THEN UNCHANGED <<users, locks>> ELSE LeavesEntry(t)
FailsFlight(t) == EndsFlight(t) /\ UNCHANGED kept

------------------------------------------------------------------------------
(* The cache *)

\* execute: a live entry answers at once, otherwise the lock of the key is
\* awaited.
Reads(t, k) ==
  /\ read[t].pc = "idle"
  /\ IF k \in kept
     THEN Ends(t) /\ UNCHANGED <<locks, users>>
     ELSE LET entry == IF locks[k] = NoReader THEN t ELSE locks[k]
          IN /\ locks' = [locks EXCEPT ![k] = entry]
             /\ users' = [users EXCEPT ![entry] = Append(@, t)]
             /\ Onward(t, [pc |-> "waiting", key |-> k, entry |-> entry])
  /\ UNCHANGED <<kept, host, cancels>>

\* execute_fresh: a preflight reads past the cache.
ReadsFresh(t, k) ==
  /\ read[t].pc = "idle"
  /\ Onward(t, [pc |-> "asking", key |-> k])
  /\ UNCHANGED <<kept, locks, users, host, cancels>>

\* The lock is held: what its last holder loaded is looked at again.
TakesLock(t) ==
  /\ read[t].pc = "waiting" /\ Head(users[read[t].entry]) = t
  /\ IF read[t].key \in kept THEN EndsFlight(t)
     ELSE Onward(t, [pc |-> "asking"]) /\ UNCHANGED <<users, locks>>
  /\ UNCHANGED <<kept, host, cancels>>

------------------------------------------------------------------------------
(* The router and the transport *)

\* A source has failed in a way another may do better.
TriesNext(t) ==
  IF read[t].source < Len(Route)
  THEN Onward(t, [pc |-> "asking", source |-> read[t].source + 1, tries |-> 0])
       /\ UNCHANGED <<kept, locks, users>>
  ELSE FailsFlight(t)

\* request sends each request twice before it gives the source up.
TriesAgain(t) ==
  IF read[t].tries = 0
  THEN Onward(t, [pc |-> "asking", tries |-> 1]) /\ UNCHANGED <<kept, locks, users>>
  ELSE TriesNext(t)

\* A lane that rests refuses without a request; otherwise the gate is awaited.
Asks(t) ==
  /\ read[t].pc = "asking"
  /\ IF host[LaneOf(t)].resting
     THEN TriesAgain(t) /\ UNCHANGED host
     ELSE /\ Onward(t, [pc |-> "gated"])
          /\ host' = [host EXCEPT ![LaneOf(t)].waiting = Append(@, t)]
          /\ UNCHANGED <<kept, locks, users>>
  /\ UNCHANGED cancels

\* t is next at its gate, and a permit is free.
Granted(t) ==
  /\ read[t].pc = "gated" /\ Head(host[LaneOf(t)].waiting) = t
  /\ Cardinality({u \in PublicTasks : read[u].pc = "sent" /\ LaneOf(u) = LaneOf(t)})
       + host[LaneOf(t)].lost < Permits

\* The pace allows a start.
Starts(t) ==
  /\ Granted(t)
  /\ Onward(t, [pc |-> "sent"])
  /\ host' = [host EXCEPT ![LaneOf(t)].waiting = Tail(@)]
  /\ UNCHANGED <<kept, locks, users, cancels>>

Answered(l) == host' = [host EXCEPT ![l].hangups = 0]
HungUp(l) ==
  host' = [host EXCEPT ![l] =
             IF @.hangups + 1 >= RestAfter
             THEN [@ EXCEPT !.hangups = RestAfter - 1, !.resting = TRUE]
             ELSE [@ EXCEPT !.hangups = @ + 1]]

\* Complete data, or data of which a part is missing.
GetsData(t) ==
  /\ read[t].pc = "sent" /\ Answered(LaneOf(t))
  /\ kept' = IF read[t].entry # NoReader /\ read[t].key \in KeptKeys
             THEN kept \cup {read[t].key} ELSE kept
  /\ EndsFlight(t)
  /\ UNCHANGED cancels

\* A body that cannot be used, or a status not worth another try.
GetsRubbish(t) ==
  /\ read[t].pc = "sent" /\ Answered(LaneOf(t)) /\ FailsFlight(t) /\ UNCHANGED cancels

\* No data for the request: the answer, unless the route asks the next source.
GetsNothing(t) ==
  /\ read[t].pc = "sent" /\ Answered(LaneOf(t))
  /\ IF Route[read[t].source].onEmpty THEN TriesNext(t) ELSE FailsFlight(t)
  /\ UNCHANGED cancels

\* 429, 502, 503, 504.
GetsRefusal(t) ==
  /\ read[t].pc = "sent" /\ Answered(LaneOf(t)) /\ TriesAgain(t) /\ UNCHANGED cancels

LosesConnection(t) ==
  /\ read[t].pc = "sent" /\ HungUp(LaneOf(t)) /\ TriesAgain(t) /\ UNCHANGED cancels

TimesOut(t) ==
  /\ read[t].pc = "sent" /\ TriesAgain(t) /\ UNCHANGED <<host, cancels>>

\* A wait is given up.  If the permit was granted in the same turn of the event
\* loop, nobody gives it back: the acquisition has succeeded, its result is
\* dropped (await_with_cancellation) and the try of the gate was not entered.
GivesUpWaiting(t) ==
  host' = [host EXCEPT ![LaneOf(t)] =
             [@ EXCEPT !.waiting = LeavesQueue(@, t),
                       !.lost = IF Granted(t) THEN @ + 1 ELSE @]]

QuitsGate(t) ==
  \/ GivesUpWaiting(t)
  \/ host' = [host EXCEPT ![LaneOf(t)].waiting = LeavesQueue(@, t)]

\* The candidate's budget ends wherever it is.  Only a candidate that kept a
\* reserve has left time for another.
BudgetEnds(t) ==
  /\ read[t].pc \in {"asking", "gated", "sent"}
  /\ QuitsGate(t)
  /\ IF Route[read[t].source].reserve THEN TriesNext(t) ELSE FailsFlight(t)
  /\ UNCHANGED cancels

------------------------------------------------------------------------------
(* What happens around the reads *)

\* A reader is cancelled where it waits.
Cancelled(t) ==
  /\ read[t].pc \notin {"idle", "done"}
  /\ cancels < MaxCancels /\ cancels' = cancels + 1
  /\ QuitsGate(t)
  /\ FailsFlight(t)

LaneRested(l) ==
  /\ host[l].resting
  /\ host' = [host EXCEPT ![l].resting = FALSE]
  /\ UNCHANGED <<kept, locks, users, read, cancels>>

EntryExpires(k) ==
  /\ k \in kept /\ kept' = kept \ {k}
  /\ UNCHANGED <<locks, users, host, read, cancels>>

ReadStep(t) ==
  \/ TakesLock(t) \/ Asks(t) \/ Starts(t) \/ BudgetEnds(t)
  \/ GetsData(t) \/ GetsRubbish(t) \/ GetsNothing(t) \/ GetsRefusal(t)
  \/ LosesConnection(t) \/ TimesOut(t)

PublicNext ==
  \/ \E t \in PublicTasks : ReadStep(t) \/ Cancelled(t)
  \/ \E t \in PublicTasks, k \in PublicKeys : Reads(t, k) \/ ReadsFresh(t, k)
  \/ \E l \in Lanes : LaneRested(l)
  \/ \E k \in PublicKeys : EntryExpires(k)

\* Every wait ends: a request times out, and so does a candidate.
PublicFairness == \A t \in PublicTasks : WF_publicVars(ReadStep(t))

------------------------------------------------------------------------------
\* However readers fail, are cancelled or run out of time, a key is never loaded
\* twice at once: those who wait for it and those who come later queue at one
\* lock (_single_flight).
OneFlight ==
  \A t, u \in PublicTasks :
    /\ {read[t].pc, read[u].pc} \subseteq {"asking", "gated", "sent"}
    /\ read[t].entry # NoReader /\ read[u].entry # NoReader
    /\ read[t].key = read[u].key
    => t = u

\* Every read returns: nobody waits at the lock of a key, or in the queue of a
\* lane, for someone who has given up.
PublicReadsReturn == \A t \in PublicTasks : read[t].pc # "idle" ~> read[t].pc = "done"
=============================================================================
