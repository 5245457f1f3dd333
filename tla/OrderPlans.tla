----------------------------- MODULE OrderPlans -----------------------------
(***************************************************************************)
(* The plan an analysis leaves for its resting orders and the authority a  *)
(* watch draws from it.  A run replaces the whole list; a watch skips the  *)
(* model when nothing in it could be acted on, and every cancellation the  *)
(* model asks for is verified against the plan, price and clock again.     *)
(***************************************************************************)
EXTENDS Integers, FiniteSets

CONSTANTS
  PlanRuns,     \* analyses that may declare a plan
  PlanOrders,   \* order ids
  PlanPrices,   \* prices
  PlanClock     \* times of day

None    == 0    \* a condition that was not stated
Bad     == -1   \* a field that cannot be read
Endless == -2   \* Infinity, a number above zero to the parser

ASSUME PlanAssumption ==
  /\ PlanRuns \subseteq Nat \ {0}
  /\ PlanPrices \subseteq Nat \ {0, 1}     \* no price is the lowest there is
  /\ PlanClock \subseteq Nat \ {0} /\ PlanClock # {}

VARIABLES
  plan,       \* order_directives: the current list, one entry per order
  issuer,     \* the run that wrote it
  archived,   \* the run whose list is the latest in order_directive_history
  standing    \* the run whose list stood before the current one, if it had one

planVars == <<plan, issuer, archived, standing>>

Actions  == {"cancel", "hold", "reprice"}
Payloads == [action : Actions \cup {"junk"}, above : PlanPrices \cup {None, Bad, Endless},
             below : PlanPrices \cup {None, Endless}, after : PlanClock \cup {None, Bad}]
Unplanned == [action |-> "none", above |-> None, below |-> None, after |-> None,
              left |-> 0, rejected |-> FALSE, run |-> None]
Nothing  == [o \in PlanOrders |-> Unplanned]

------------------------------------------------------------------------------
\* parse_directive: anything unreadable downgrades the entry to a bare HOLD.
\* (NaN passes too; the column keeps it as NULL, a condition not stated.)
Readable(p) == p.action # "junk" /\ p.above # Bad /\ p.after # Bad

Parsed(p, run) ==
  IF Readable(p)
  THEN [action |-> p.action, above |-> p.above, below |-> p.below, after |-> p.after,
        left |-> IF p.action = "reprice" THEN 1 ELSE 0, rejected |-> FALSE, run |-> run]
  ELSE [Unplanned EXCEPT !.action = "hold", !.rejected = TRUE, !.run = run]

\* Mutant: only price conditions are thought to need watching.
NeedsPrice(d) ==
  \/ d.action = "cancel"
  \/ d.action = "reprice" /\ d.left > 0
  \/ d.action = "hold" /\ \E c \in {d.above, d.below} : c # None

\* Whether a watch could ever act on an entry.
NeedsWatching(d) ==
  \/ d.action = "cancel"
  \/ d.action = "reprice" /\ d.left > 0
  \/ d.action = "hold" /\ \E c \in {d.above, d.below, d.after} : c # None

\* The thresholds can be compared with a price.
Sound(d) == Endless \notin {d.above, d.below}

\* A price that cannot be read (None) meets no condition.
CancelsAt(d, price, moment) ==
  \/ d.action = "cancel"
  \/ /\ d.action = "hold"
     /\ \/ price # None /\ d.above \notin {None, Endless} /\ price > d.above
        \/ price # None /\ d.below # None /\ (d.below = Endless \/ price < d.below)
        \/ d.after # None /\ moment >= d.after

\* A reprice entry's own trigger: its cancel thresholds are not its trigger.
Settle(d, price, moment, triggered) ==
  IF d.action = "none" THEN "uncovered"
  ELSE IF CancelsAt(d, price, moment) THEN "cancel"
  ELSE IF d.action = "reprice" /\ price # None /\ triggered /\ d.left > 0 THEN "reprice"
  ELSE "hold"

\* verify_watch_cancel, the last word before the request: a quote is asked for
\* only when clock and action alone do not settle it, and nothing is withdrawn
\* on a threshold that is no price.
MayWithdraw(d, price, moment) ==
  /\ d.action \notin {"none", "reprice"}
  /\ ~d.rejected
  /\ Sound(d)
  /\ \/ CancelsAt(d, None, moment)
     \/ /\ \E c \in {d.above, d.below} : c # None
        /\ price # None
        /\ CancelsAt(d, price, moment)

\* check_buy_conditions: a bid rests inside the range its thesis is valid in.
BidInside(d, limit) ==
  /\ Sound(d)
  /\ d.below # None => limit > d.below
  /\ d.above # None => limit < d.above

\* Mutant: a reprice plan counts as handed over.
CoveredAnyhow(d, run, isBuy, limit) ==
  /\ d.action # "none" /\ d.run = run
  /\ ~d.rejected
  /\ Sound(d)
  /\ isBuy /\ d.action = "hold" => BidInside(d, limit)

\* check_handoff, for one active order.
Covered(d, run, isBuy, limit) ==
  /\ d.action # "none" /\ d.run = run
  /\ ~d.rejected
  /\ d.action # "reprice"
  /\ Sound(d)
  /\ isBuy /\ d.action = "hold" => BidInside(d, limit)

HandoffStatus(run, active, isBuy, limit) ==
  IF \A o \in active : Covered(plan[o], run, isBuy, limit) THEN "complete" ELSE "incomplete"

------------------------------------------------------------------------------
\* replace_all: the rows that stand are archived, the table cleared, the list
\* written; an empty list leaves no row to archive.
Archived == IF plan = Nothing THEN archived ELSE issuer

Declare(run) ==
  /\ issuer < run
  /\ \E named \in SUBSET PlanOrders, p \in Payloads :
       plan' = [o \in PlanOrders |-> IF o \in named THEN Parsed(p, run) ELSE Unplanned]
  /\ issuer' = run
  /\ archived' = Archived
  /\ standing' = IF plan = Nothing THEN None ELSE issuer

PlanInit ==
  /\ plan = Nothing
  /\ issuer = None
  /\ archived = None
  /\ standing = None

PlanNext == \E run \in PlanRuns : Declare(run)

------------------------------------------------------------------------------
Views == (PlanPrices \cup {None}) \X PlanClock

\* What the market may quote: the prices, and what lies just above and below.
Quotes == PlanPrices \cup {p - 1 : p \in PlanPrices} \cup {p + 1 : p \in PlanPrices}

\* The readings of an entry agree.  Skipping the model loses no authority: when
\* no entry needs watching, there is no price and no time at which the plan
\* would cancel or reprice an order.  The write guard lets a watch withdraw an
\* order only when settling its plan on the same price and clock says cancel;
\* and where it says cancel and the guard refuses, no handoff that names the
\* order was reported complete.
WatchFollowsPlan ==
  /\ (\A o \in PlanOrders : ~NeedsWatching(plan[o])) =>
       \A o \in PlanOrders, v \in Views, t \in BOOLEAN :
         Settle(plan[o], v[1], v[2], t) \notin {"cancel", "reprice"}
  /\ \A o \in PlanOrders, v \in Views :
       LET settled == Settle(plan[o], v[1], v[2], FALSE) = "cancel"
           allowed == MayWithdraw(plan[o], v[1], v[2]) IN
       /\ allowed => settled
       /\ settled /\ ~allowed =>
            \A run \in PlanRuns, isBuy \in BOOLEAN, limit \in PlanPrices :
              ~Covered(plan[o], run, isBuy, limit)

\* A handoff reported complete is one the watch can carry out to the end: what
\* any entry could ever demand of it, the write guard will let it do; and no
\* bid is handed over with a condition that already condemns its own price.
CompleteMeansExecutable ==
  \A run \in PlanRuns, active \in SUBSET PlanOrders, limit \in PlanPrices :
    HandoffStatus(run, active, TRUE, limit) = "complete" =>
      \A o \in active :
        /\ NeedsWatching(plan[o]) =>
             \E v \in Quotes \X PlanClock : MayWithdraw(plan[o], v[1], v[2])
        /\ plan[o].action = "hold" /\ plan[o].after = None =>
             \A m \in PlanClock : ~MayWithdraw(plan[o], limit, m)

\* "The plan that stood immediately before the current one" (list_previous).
PreviousStoodLast == archived = standing
==============================================================================
