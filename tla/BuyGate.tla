------------------------------ MODULE BuyGate ------------------------------
(***************************************************************************)
(* Buying on the simulated account: the exposure cap a run declares, the   *)
(* single-use review that prepare_buy grants, the ledger of write calls,   *)
(* and the lock database that makes "check, then order" one step among     *)
(* processes.  An order is named by the trade call that placed it.  The    *)
(* stock is one and the same: the races are about it.                      *)
(***************************************************************************)
EXTENDS Naturals, FiniteSets, FiniteSetsExt

CONSTANTS
  TradingRuns,    \* runs that may trade today, numbered in the order they start
  Calls,          \* ids of trade calls, and so of the orders they place, numbered
  Reviews,        \* ids of prepare_buy calls, numbered
  Prices,         \* limit prices; a lot costs its price
  Caps,           \* exposure caps a run may declare
  Budgets         \* bounds: how often each costly step may be taken, and how
                  \* high a cap is declared

Nobody == 0

ASSUME TradeAssumption ==
  /\ TradingRuns \subseteq Nat \ {0}
  /\ Prices \subseteq Nat \ {0}
  /\ Caps \subseteq Nat \ {0}
  /\ Calls \subseteq Nat \ {0} /\ IsFiniteSet(Calls)
  /\ Reviews \subseteq Nat \ {0} /\ Calls \cap Reviews = {}
  /\ Budgets \subseteq [{"declare", "buy", "cancel", "cycle", "die", "cap"} -> Nat]

VARIABLES
  order,      \* the broker's orders; late: it was booked after its call had ended
  lock,       \* who holds the trade lock
  cap,        \* exposure_caps: what each run declared, 0 for nothing
  review,     \* the reviews in the ledger
  call,       \* the trade calls in the ledger
  withdrawal, \* the model's latest cancel call in the ledger, one per order
  intent,     \* valuation_cancellations, one row per order
  sent,       \* who sent a cancellation of the order: never read by the code
  undone,     \* per run: prices of the orders it cancelled (in memory)
  prior,      \* per run: the orders that existed when it started
  at,         \* per run: what its process is doing
  left        \* what is left of the bounds

deskVars == <<order, lock, cap, review, call, withdrawal, intent, sent, undone,
              prior, at, left>>

\* An order IN_FLIGHT is not yet booked by the broker: no query shows it.  A
\* withdrawal is OPEN while it runs, and stays so when it fails or never ends,
\* which are alike to every reader.
IntentState == {"NONE", "REQUIRED", "SUBMITTING", "SUBMITTED", "UNKNOWN",
                "PENDING_CANCEL", "CANCELLED", "CLOSED"}
Managed     == IntentState \ {"NONE", "CANCELLED", "CLOSED"}

NoReview == [run |-> Nobody, price |-> 0]
NoCall   == [run |-> Nobody, review |-> Nobody]
NoCancel == [run |-> Nobody, status |-> "NONE"]
NoIntent == [state |-> "NONE", trigger |-> Nobody, request |-> Nobody]
Free     == [pc |-> "free", id |-> Nobody, limit |-> 0, todo |-> {}, touched |-> {}]
Does(pc, id, limit) == [Free EXCEPT !.pc = pc, !.id = id, !.limit = limit]

------------------------------------------------------------------------------
\* What the account shows.

Shown(o)   == order[o].status \notin {"NONE", "IN_FLIGHT"}
Open(o)    == order[o].status \in {"PENDING", "PENDING_CANCEL"}
Counts(o)  == Open(o) \/ order[o].status = "FILLED"
Cost(os)   == SumFunctionOnSet([o \in Calls |-> order[o].price], os)
Exposure   == Cost({o \in Calls : Counts(o)})
Declared   == {cap[r] : r \in TradingRuns} \ {0}

\* The cap of the day is the lowest that any of its runs declared.
DailyLimit == IF Declared = {} THEN 0 ELSE Min(Declared)

\* A buy may not replace a cancelled bid, nor add to what an earlier run bid,
\* at a higher price.
Chases(r, price) ==
  \E o \in Calls : /\ Shown(o)
                   /\ o \in prior[r] \/ order[o].status \in {"CANCELLED", "PENDING_CANCEL"}
                   /\ price > order[o].price

\* An outstanding system cancellation, or any that this run caused or sent.
IsManaged(r, o) == intent[o].state \in Managed \/ r \in {intent[o].trigger, intent[o].request}

------------------------------------------------------------------------------
\* Runs and their declarations.

StartRun(r) ==
  /\ at[r].pc = "unborn"
  /\ \A q \in TradingRuns : q < r => at[q].pc # "unborn"
  /\ at' = [at EXCEPT ![r] = Free]
  /\ prior' = [prior EXCEPT ![r] = {o \in Calls : Shown(o)}]
  /\ UNCHANGED <<order, lock, cap, review, call, withdrawal, intent, sent, undone>>

\* declare_exposure_cap: under the lock, and never above the day's limit.
DeclareCap(r) ==
  /\ at[r].pc = "free"
  /\ lock = Nobody
  /\ \E c \in Caps : /\ DailyLimit = 0 \/ c <= DailyLimit
                     /\ cap' = [cap EXCEPT ![r] = c]
  /\ UNCHANGED <<order, lock, review, call, withdrawal, intent, sent, undone, prior, at>>

\* prepare_buy approves a price on fresh evidence and records the review (a
\* bound: the next one only once the last was named by a buy).
PrepareBuy(r, v) ==
  /\ at[r].pc = "free"
  /\ v \in Reviews /\ review[v] = NoReview
  /\ \A w \in Reviews : w < v => review[w] # NoReview
  /\ \A w \in Reviews : review[w].run = r => \E c \in Calls : call[c].review = w
  /\ \E p \in Prices : review' = [review EXCEPT ![v] = [run |-> r, price |-> p]]
  /\ UNCHANGED <<order, lock, cap, call, withdrawal, intent, sent, undone, prior, at>>

------------------------------------------------------------------------------
\* A buy, from its ledger entry to the broker's answer.

\* A call id that is in the ledger has been answered or is unknown: it is
\* never executed again.
Reservable(c) == call[c] = NoCall

AskBuy(r, c, v) ==
  /\ at[r].pc = "free"
  /\ Reservable(c)
  /\ \A d \in Calls : d < c => call[d] # NoCall
  /\ call' = [call EXCEPT ![c] = [run |-> r, review |-> v]]
  /\ at' = [at EXCEPT ![r] = Does("asked", c, 0)]
  /\ UNCHANGED <<order, lock, cap, review, withdrawal, intent, sent, undone, prior>>

BuyEnds(r) ==
  /\ at' = [at EXCEPT ![r] = Free]
  /\ lock' = IF lock = r THEN Nobody ELSE lock
  /\ UNCHANGED <<order, cap, review, call, withdrawal, intent, sent, undone, prior>>

\* Mutant: the checks are not serialised among processes.
LockBuyShared(r) ==
  /\ at[r].pc = "asked"
  /\ \A o \in Calls : ~IsManaged(r, o)
  /\ cap[r] # 0
  /\ lock' = r
  /\ at' = [at EXCEPT ![r] = Does("locked", at[r].id, DailyLimit)]
  /\ UNCHANGED <<order, cap, review, call, withdrawal, intent, sent, undone, prior>>

LockBuy(r) ==
  /\ at[r].pc = "asked"
  /\ lock = Nobody
  /\ \A o \in Calls : ~IsManaged(r, o)
  /\ cap[r] # 0
  /\ lock' = r
  /\ at' = [at EXCEPT ![r] = Does("locked", at[r].id, DailyLimit)]
  /\ UNCHANGED <<order, cap, review, call, withdrawal, intent, sent, undone, prior>>

\* Mutant: a review is good for as long as it has not expired.
ReviewIsOwn(r, c) == review[call[c].review].run = r

\* load_buy_review: the run's own, not expired, and not named by another call.
ReviewStands(r, c) ==
  LET v == call[c].review IN
  /\ review[v].run = r
  /\ \A d \in Calls \ {c} : call[d].run = r => call[d].review # v

\* Every check on what the account shows now, against the limit read before.
BuyAllowed(r, c) ==
  LET price == review[call[c].review].price IN
  /\ Exposure + price <= at[r].limit
  /\ ~Chases(r, price)
  /\ \A p \in undone[r] : price < p
  /\ ReviewStands(r, c)

CheckBuy(r) ==
  /\ at[r].pc = "locked"
  /\ BuyAllowed(r, at[r].id)
  /\ at' = [at EXCEPT ![r].pc = "checked"]
  /\ UNCHANGED <<order, lock, cap, review, call, withdrawal, intent, sent, undone, prior>>

\* Any check that fails, or an abort, ends the call before anything was sent.
RefuseBuy(r) ==
  /\ at[r].pc \in {"asked", "locked", "checked"}
  /\ BuyEnds(r)

SendBuy(r) ==
  /\ at[r].pc = "checked"
  /\ order' = [order EXCEPT ![at[r].id] =
                 [status |-> "IN_FLIGHT", late |-> FALSE,
                  price |-> review[call[at[r].id].review].price]]
  /\ at' = [at EXCEPT ![r].pc = "sent"]
  /\ UNCHANGED <<lock, cap, review, call, withdrawal, intent, sent, undone, prior>>

\* An answer; or a timeout, and the order may still arrive.
BuyAnswered(r) == at[r].pc = "sent" /\ BuyEnds(r)

------------------------------------------------------------------------------
\* The model cancels an order: ledger first, then the refusal, then the call.

AskCancel(r, o) ==
  /\ at[r].pc = "free"
  /\ Shown(o)
  /\ withdrawal' = [withdrawal EXCEPT ![o] = [run |-> r, status |-> "OPEN"]]
  /\ at' = [at EXCEPT ![r] = Does("cancelling", o, 0)]
  /\ UNCHANGED <<order, lock, cap, review, call, intent, sent, undone, prior>>

CancelEnds(r, status) ==
  /\ withdrawal' = [withdrawal EXCEPT ![at[r].id].status = status]
  /\ at' = [at EXCEPT ![r] = Free]

\* refuse_managed_cancellation: no system cancellation is outstanding.
MayCancel(o) == intent[o].state \notin Managed

CheckCancel(r) ==
  /\ at[r].pc = "cancelling"
  /\ MayCancel(at[r].id)
  /\ at' = [at EXCEPT ![r].pc = "withdrawing"]
  /\ UNCHANGED <<order, lock, cap, review, call, withdrawal, intent, sent, undone, prior>>

Sent(o, who)  == sent' = [sent EXCEPT ![o] = @ \cup {who}]
Withdrawn(o)  == [order EXCEPT ![o].status = "PENDING_CANCEL"]

\* Accepted, and remembered by the run; or an error, whatever the broker did.
SendCancel(r) ==
  /\ at[r].pc = "withdrawing"
  /\ order[at[r].id].status = "PENDING"
  /\ Sent(at[r].id, "model")
  /\ \/ /\ order' = Withdrawn(at[r].id)
        /\ undone' = [undone EXCEPT ![r] = @ \cup {order[at[r].id].price}]
        /\ CancelEnds(r, "COMPLETED")
     \/ /\ order' \in {order, Withdrawn(at[r].id)}
        /\ CancelEnds(r, "OPEN")
        /\ UNCHANGED undone
  /\ UNCHANGED <<lock, cap, review, call, intent, prior>>

RefuseCancel(r) ==
  /\ at[r].pc \in {"cancelling", "withdrawing"}
  /\ CancelEnds(r, "OPEN")
  /\ UNCHANGED <<order, lock, cap, review, call, intent, sent, undone, prior>>

------------------------------------------------------------------------------
\* The broker, and the process that dies.

\* An order or a cancellation may arrive long after its request ended.
BrokerStep(o) ==
  {[from |-> "IN_FLIGHT", to |-> "PENDING"], [from |-> "IN_FLIGHT", to |-> "NONE"],
   [from |-> "PENDING", to |-> "FILLED"], [from |-> "PENDING_CANCEL", to |-> "FILLED"],
   [from |-> "PENDING_CANCEL", to |-> "CANCELLED"]}
  \cup (IF sent[o] # {} THEN {[from |-> "PENDING", to |-> "PENDING_CANCEL"]} ELSE {})

Stray(o) == /\ order[o].status = "IN_FLIGHT"
            /\ \A r \in TradingRuns : at[r].pc # "sent" \/ at[r].id # o

BrokerMoves(o) ==
  /\ \E step \in BrokerStep(o) :
       /\ order[o].status = step.from
       /\ order' = [order EXCEPT ![o].status = step.to, ![o].late = @ \/ Stray(o)]
  /\ UNCHANGED <<lock, cap, review, call, withdrawal, intent, sent, undone, prior, at>>

\* SQLite releases the lock of a dead process; a dead run is not resumed.
Die(r) ==
  /\ at[r].pc \notin {"unborn", "dead"}
  /\ at' = [at EXCEPT ![r] = [Free EXCEPT !.pc = "dead"]]
  /\ lock' = IF lock = r THEN Nobody ELSE lock
  /\ UNCHANGED <<order, cap, review, call, withdrawal, intent, sent, undone, prior>>

DeskInit ==
  /\ order = [o \in Calls |-> [status |-> "NONE", price |-> 0, late |-> FALSE]]
  /\ lock = Nobody
  /\ cap = [r \in TradingRuns |-> 0]
  /\ review = [v \in Reviews |-> NoReview]
  /\ call = [c \in Calls |-> NoCall]
  /\ withdrawal = [o \in Calls |-> NoCancel]
  /\ intent = [o \in Calls |-> NoIntent]
  /\ sent = [o \in Calls |-> {}]
  /\ undone = [r \in TradingRuns |-> {}]
  /\ prior = [r \in TradingRuns |-> {}]
  /\ at = [r \in TradingRuns |-> [Free EXCEPT !.pc = "unborn"]]
  /\ left \in Budgets

Spend(kind) == left[kind] > 0 /\ left' = [left EXCEPT ![kind] = @ - 1]

TradeStep(r) ==
  \/ /\ \/ StartRun(r) \/ LockBuy(r) \/ CheckBuy(r) \/ RefuseBuy(r)
        \/ SendBuy(r) \/ BuyAnswered(r) \/ CheckCancel(r) \/ SendCancel(r)
        \/ RefuseCancel(r)
        \/ \E v \in Reviews : PrepareBuy(r, v)
     /\ UNCHANGED left
  \/ Spend("declare") /\ DeclareCap(r) /\ cap'[r] <= left.cap
  \/ Spend("buy") /\ \E c \in Calls, v \in Reviews : AskBuy(r, c, v)
  \/ Spend("cancel") /\ \E o \in Calls : AskCancel(r, o)
  \/ Spend("die") /\ Die(r)

------------------------------------------------------------------------------
\* What the orders cost that were on the account, or awaited, in good time.
InTime(o) == /\ order[o].status = "IN_FLIGHT" \/ Counts(o)
             /\ ~order[o].late /\ ~Stray(o)
Committed == Cost({o \in Calls : InTime(o)})
Placed(o) == order[o].status = "NONE" /\ order'[o].status = "IN_FLIGHT"

\* Whatever other runs declared, bought or had cancelled meanwhile, no order is
\* sent that takes the day's commitments above the lowest declared cap; orders
\* booked after their request had ended are outside any check's reach
\* (locked_cap_repository).
BuysWithinLimit ==
  [][\A o \in Calls : Placed(o) => Committed' <= DailyLimit']_deskVars

\* A buy never leaves while the system is cancelling an order of the same
\* stock, even one whose cancellation another process has just required.
NoBuyBesideCancellation ==
  [][\A o \in Calls : Placed(o) => \A i \in Calls : intent[i].state \notin Managed]_deskVars

\* One review buys once: a second trade call that names it places nothing,
\* also when the first ended without a known outcome.
OneOrderPerReview ==
  \A c, d \in Calls :
    /\ c # d
    /\ call[c].run = call[d].run
    /\ call[c].review = call[d].review
    => order[c].price = 0 \/ order[d].price = 0
==============================================================================
