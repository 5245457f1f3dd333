----------------------------- MODULE FillNotices -----------------------------
(***************************************************************************)
(* From the broker's order list to a push: a refresh fetches the list,     *)
(* commits it and hands it to a delivery of its own task, which compares   *)
(* it with the filled quantities announced so far, publishes what is new   *)
(* and only then saves the new watermarks.                                 *)
(***************************************************************************)
EXTENDS Naturals, FiniteSets

CONSTANTS
  FillOrders,      \* orders the account may place, numbered as they are placed
  OrderSize,       \* quantity of each
  Refreshers,      \* refreshes that may be under way at once, of all processes
  PushSlots,       \* the dispatcher's max_pending
  MaxAged,         \* bound: orders that leave the window
  MaxPushFaults    \* bound: lost leases, failed deliveries and crashes together

VARIABLES
  broker,      \* the broker's list: placed order -> filled quantity
  aged,        \* the orders that have left the list's window
  refresh,     \* per refresh: whether it has fetched, and what
  delivery,    \* per slot: the pending delivery
  marks,       \* rows of notification_fill_watermarks
  level,       \* history: filled quantity announced, or taken as the baseline
  repeated,    \* history: whether a quantity was announced again, nothing being muddled
  pushFaults,
  muddled      \* history: two refreshes or deliveries at once, or one cut off

fillVars == <<broker, aged, refresh, delivery, marks, level, repeated, pushFaults, muddled>>

NoList     == [o \in {} |-> 0]
NoRefresh  == [pc |-> "idle", seen |-> NoList]
NoDelivery == [pc |-> "idle", seen |-> NoList, known |-> NoList, cold |-> FALSE, due |-> {}]

Of(list, o) == IF o \in DOMAIN list THEN list[o] ELSE 0
Higher(a, b) == IF a > b THEN a ELSE b

\* An order is placed, or filled a little more.
BrokerMoves ==
  /\ \E o \in FillOrders \ aged :
       /\ \A x \in FillOrders : x < o => x \in DOMAIN broker \cup aged
       /\ broker' = IF o \in DOMAIN broker
                    THEN [broker EXCEPT ![o] = @ + 1]
                    ELSE [x \in DOMAIN broker \cup {o} |-> Of(broker, x)]
  /\ \A o \in DOMAIN broker' : broker'[o] <= OrderSize
  /\ UNCHANGED <<aged, refresh, delivery, marks, level, repeated, pushFaults, muddled>>

\* The list covers a window of time: the oldest order leaves it for good.
OrderAgesOut ==
  /\ Cardinality(aged) < MaxAged
  /\ \E o \in DOMAIN broker :
       /\ \A x \in DOMAIN broker : o <= x
       /\ broker' = [x \in DOMAIN broker \ {o} |-> broker[x]]
       /\ aged' = aged \cup {o}
  /\ UNCHANGED <<refresh, delivery, marks, level, repeated, pushFaults, muddled>>

UnderWay == {r \in Refreshers : refresh[r].pc # "idle"}
Pending  == {d \in PushSlots : delivery[d].pc # "idle"}

\* _fetch_live_cache.  The gate keeps the starts of one process ten seconds
\* apart, which a slow fetch or a second process outlasts.
RefreshFetches(r) ==
  /\ refresh[r].pc = "idle"
  /\ refresh' = [refresh EXCEPT ![r] = [pc |-> "fetched", seen |-> broker]]
  /\ muddled' = (muddled \/ UnderWay # {} \/ Pending # {})
  /\ UNCHANGED <<broker, aged, delivery, marks, level, repeated, pushFaults>>

\* _spawn: a delivery that finds no room is dropped.
Spawned(job) ==
  IF Pending = PushSlots THEN delivery
  ELSE [delivery EXCEPT ![CHOOSE d \in PushSlots : d \notin Pending] = job]

\* The commit of the cache and announce_fills, which takes no empty list.
RefreshCommits(r) ==
  /\ refresh[r].pc = "fetched"
  /\ refresh' = [refresh EXCEPT ![r] = NoRefresh]
  /\ delivery' = IF refresh[r].seen = NoList THEN delivery
                 ELSE Spawned([pc |-> "spawned", seen |-> refresh[r].seen, known |-> NoList,
                               cold |-> FALSE, due |-> {}])
  /\ UNCHANGED <<broker, aged, marks, level, repeated, pushFaults, muddled>>

\* execution_guard: the scheduler's lease is gone, nothing is committed.
RefreshGuarded(r) ==
  /\ refresh[r].pc = "fetched" /\ pushFaults < MaxPushFaults
  /\ pushFaults' = pushFaults + 1
  /\ refresh' = [refresh EXCEPT ![r] = NoRefresh]
  /\ UNCHANGED <<broker, aged, delivery, marks, level, repeated, muddled>>

NothingAnnounced(list) == [o \in DOMAIN list |-> 0]     \* mutant: watermarks ignored
Announced(list) == [o \in DOMAIN list |-> Of(marks, o)]

\* load and detect_fill_events: what grew is due, a watermark only rises, and an
\* install without any watermark takes the list as its baseline.
DeliveryLoads(d) ==
  LET seen == delivery[d].seen
      known == Announced(seen)
      cold == marks = NoList
  IN /\ delivery[d].pc = "spawned"
     /\ delivery' = [delivery EXCEPT ![d] =
          [pc |-> "publishing", seen |-> seen, known |-> known, cold |-> cold,
           due |-> {o \in DOMAIN seen : ~cold /\ seen[o] > known[o]}]]
     /\ UNCHANGED <<broker, aged, refresh, marks, level, repeated, pushFaults, muddled>>

\* publish tries every channel and commits its history; a broken receiver fails
\* nothing.
DeliveryPublishes(d) ==
  /\ delivery[d].pc = "publishing"
  /\ \E o \in delivery[d].due :
       /\ delivery' = [delivery EXCEPT ![d].due = @ \ {o}]
       /\ level' = [level EXCEPT ![o] = Higher(@, delivery[d].seen[o])]
       /\ repeated' = (repeated \/ (~muddled /\ delivery[d].known[o] < level[o]))
  /\ UNCHANGED <<broker, aged, refresh, marks, pushFaults, muddled>>

SavesAtOnce(d) == delivery[d].pc = "publishing"     \* mutant: saved before it is published
SavesLast(d) == delivery[d].pc = "publishing" /\ delivery[d].due = {}

\* replace and the commit: the rows are those of this list, no others.
DeliverySaves(d) ==
  LET job == delivery[d]
  IN /\ SavesLast(d)
     /\ marks' = [o \in DOMAIN job.seen |-> Higher(job.known[o], job.seen[o])]
     /\ level' = IF job.cold THEN [o \in FillOrders |-> Higher(level[o], Of(job.seen, o))]
                 ELSE level
     /\ delivery' = [delivery EXCEPT ![d] = NoDelivery]
     /\ UNCHANGED <<broker, aged, refresh, repeated, pushFaults, muddled>>

\* A delivery raises, or aclose cancels it after its 15 seconds.
DeliveryCut(d) ==
  /\ delivery[d].pc \in {"spawned", "publishing"} /\ pushFaults < MaxPushFaults
  /\ pushFaults' = pushFaults + 1 /\ muddled' = TRUE
  /\ delivery' = [delivery EXCEPT ![d] = NoDelivery]
  /\ UNCHANGED <<broker, aged, refresh, marks, level, repeated>>

NotifierCrash ==
  /\ pushFaults < MaxPushFaults /\ UnderWay \cup Pending # {}
  /\ pushFaults' = pushFaults + 1 /\ muddled' = TRUE
  /\ refresh' = [r \in Refreshers |-> NoRefresh]
  /\ delivery' = [d \in PushSlots |-> NoDelivery]
  /\ UNCHANGED <<broker, aged, marks, level, repeated>>

------------------------------------------------------------------------------
FillInit ==
  /\ broker = NoList /\ aged = {} /\ marks = NoList
  /\ refresh = [r \in Refreshers |-> NoRefresh]
  /\ delivery = [d \in PushSlots |-> NoDelivery]
  /\ level = [o \in FillOrders |-> 0]
  /\ repeated = FALSE /\ muddled = FALSE
  /\ pushFaults = 0

DeliveryStep(d) ==
  DeliveryLoads(d) \/ DeliveryPublishes(d) \/ DeliverySaves(d)

FillNext ==
  \/ BrokerMoves \/ OrderAgesOut \/ NotifierCrash
  \/ \E r \in Refreshers : RefreshFetches(r) \/ RefreshCommits(r) \/ RefreshGuarded(r)
  \/ \E d \in PushSlots : DeliveryStep(d) \/ DeliveryCut(d)

------------------------------------------------------------------------------
\* "A refresh never re-notifies the same fill" (fill_tracker.py), as long as
\* each refresh begins after the one before it was delivered.
NothingToldTwice == ~repeated

\* An order that has filled, and stays in the broker's list, is announced by a later
\* refresh at the latest: a dropped, failed or overtaken delivery leaves its
\* watermark where it was.
FillsAreTold ==
  \A o \in FillOrders : Of(broker, o) = OrderSize ~> level[o] = OrderSize \/ o \in aged
==============================================================================
