---------------------------- MODULE DeskProofs ----------------------------
(***************************************************************************)
(* Orders and cancellations for any runs, calls, reviews, prices, caps and *)
(* bounds: one review buys once, no order has two senders of its           *)
(* cancellation, no buy leaves beside a cancellation of the system, and    *)
(* none takes the day above the lowest declared cap.                       *)
(***************************************************************************)
EXTENDS ValuationCancellation, FiniteSetTheorems, WellFoundedInduction, TLAPS

------------------------------------------------------------------------------
(* Least elements. *)

\* A set of natural numbers has its Min.
LEMMA MinOfNats ==
  ASSUME NEW S \in SUBSET Nat, S # {}
  PROVE  Min(S) \in S
<1> DEFINE NN == {n \in Nat : n \in S}
<1>1. NN = S
  OBVIOUS
<1>2. PICK x \in NN : \A y \in NN : <<y, x>> \notin OpToRel(<, Nat)
  BY <1>1, WFMin, NatLessThanWellFounded, Zenon
<1>3. \A y \in NN : ~(y < x)
  BY <1>2, Zenon DEF OpToRel
<1>4. \A y \in S : x <= y
  BY <1>1, <1>3
<1> QED BY <1>1, <1>4 DEF Min

------------------------------------------------------------------------------
(* Types. *)

DeskPc == {"unborn", "free", "asked", "locked", "checked", "sent", "cancelling",
           "withdrawing", "auditing", "acting", "claiming", "submitting", "submitted",
           "confirming", "dead"}
Run       == TradingRuns \cup {Nobody}
Senders   == {"model", "system", "system again"}
OrderRow  == [status : {"NONE", "IN_FLIGHT", "PENDING", "PENDING_CANCEL", "FILLED",
                        "CANCELLED"},
              price : Nat, late : BOOLEAN]
ReviewRow == [run : Run, price : Nat]
CallRow   == [run : TradingRuns, review : Reviews] \cup {NoCall}
CancelRow == [run : Run, status : {"NONE", "OPEN", "COMPLETED"}]
IntentRow == [state : IntentState, trigger : Run, request : Run]
AtRow     == [pc : DeskPc, id : Calls \cup {Nobody}, limit : Nat, todo : SUBSET Calls,
              touched : SUBSET Calls]

DeskTypeOK ==
  /\ order \in [Calls -> OrderRow]
  /\ lock \in Run
  /\ cap \in [TradingRuns -> Nat]
  /\ review \in [Reviews -> ReviewRow]
  /\ call \in [Calls -> CallRow]
  /\ withdrawal \in [Calls -> CancelRow]
  /\ intent \in [Calls -> IntentRow]
  /\ sent \in [Calls -> SUBSET Senders]
  /\ undone \in [TradingRuns -> SUBSET Nat]
  /\ prior \in [TradingRuns -> SUBSET Calls]
  /\ at \in [TradingRuns -> AtRow]

\* The limit of the day is a number.
LEMMA LimitIsNat == DeskTypeOK => DailyLimit \in Nat
<1> SUFFICES ASSUME DeskTypeOK PROVE DailyLimit \in Nat
  OBVIOUS
<1>1. Declared \in SUBSET Nat
  BY DEF Declared, DeskTypeOK
<1> QED BY <1>1, MinOfNats DEF DailyLimit

\* What a run is about that starts something.
LEMMA RowsOfAt ==
  /\ Free \in AtRow
  /\ \A pc \in DeskPc, id \in Calls, limit \in Nat : Does(pc, id, limit) \in AtRow
  /\ \A row \in AtRow, pc \in DeskPc : [row EXCEPT !.pc = pc] \in AtRow
  /\ \A pc \in DeskPc : [Free EXCEPT !.pc = pc] \in AtRow
BY ZenonT(30) DEF Free, Does, AtRow, DeskPc

\* An order asked to be withdrawn, a withdrawal that has ended.
LEMMA RowsOfOrders ==
  DeskTypeOK =>
    /\ \A o \in Calls : Withdrawn(o) \in [Calls -> OrderRow]
    /\ \A o \in Calls, status \in {"NONE", "OPEN", "COMPLETED"} :
         [withdrawal EXCEPT ![o].status = status] \in [Calls -> CancelRow]
<1> SUFFICES ASSUME DeskTypeOK, NEW o \in Calls
             PROVE  /\ Withdrawn(o) \in [Calls -> OrderRow]
                    /\ \A status \in {"NONE", "OPEN", "COMPLETED"} :
                         [withdrawal EXCEPT ![o].status = status] \in [Calls -> CancelRow]
  OBVIOUS
<1>1. Withdrawn(o) \in [Calls -> OrderRow]
  BY ZenonT(30) DEF DeskTypeOK, Withdrawn, OrderRow
<1>2. ASSUME NEW status \in {"NONE", "OPEN", "COMPLETED"}
      PROVE  [withdrawal EXCEPT ![o].status = status] \in [Calls -> CancelRow]
  BY <1>2 DEF DeskTypeOK, CancelRow
<1> QED BY <1>1, <1>2

\* Who sends a cancellation is one of the senders.
LEMMA SendersKnown ==
  ASSUME DeskTypeOK, NEW o \in Calls, NEW who \in Senders, Sent(o, who)
  PROVE  sent' \in [Calls -> SUBSET Senders]
BY DEF DeskTypeOK, Sent

\* The step of one run leaves what the others do.
LEMMA OneTurns ==
  ASSUME DeskTypeOK, NEW r \in TradingRuns, NEW row \in AtRow, at' = [at EXCEPT ![r] = row]
  PROVE  /\ at' \in [TradingRuns -> AtRow]
         /\ at'[r] = row
         /\ \A q \in TradingRuns \ {r} : at'[q] = at[q]
BY DEF DeskTypeOK

\* A row is settled by what the account shows, and by nothing else; a
\* cancellation is never required anew.
LEMMA ReconciledRow ==
  ASSUME NEW row \in IntentRow, NEW status
  PROVE  /\ Reconciled(row, status) \in IntentRow
         /\ Reconciled(row, status).state = "NONE" <=> row.state = "NONE"
         /\ Reconciled(row, status).state = "REQUIRED" => row.state = "REQUIRED"
         /\ Reconciled(row, status).state \in Terminal =>
              row.state \in Terminal \/ status \in {"CANCELLED", "FILLED"}
         /\ Reconciled(row, status).state \in Managed => row.state \in Managed
<1> DEFINE Set(state) == [row EXCEPT !.state = state]
<1>1. \/ Reconciled(row, status) = row
      \/ /\ row.state \notin Terminal \cup {"NONE"}
         /\ \/ status = "CANCELLED" /\ Reconciled(row, status) = Set("CANCELLED")
            \/ status = "FILLED" /\ Reconciled(row, status) = Set("CLOSED")
            \/ Reconciled(row, status) = Set("PENDING_CANCEL")
            \/ Reconciled(row, status) = Set("UNKNOWN")
  BY DEF Reconciled, Terminal
<1>2. \A state \in IntentState : Set(state) \in IntentRow /\ Set(state).state = state
  BY DEF IntentRow
<1>3. row.state \in IntentState
  BY DEF IntentRow
<1> QED BY <1>1, <1>2, <1>3 DEF IntentState, Managed, Terminal

\* Only a row that was not there becomes required, and only while the model has
\* asked for no cancellation of that order.
LEMMA EnsuredRow ==
  ASSUME DeskTypeOK, NEW r \in TradingRuns, NEW o \in Calls
  PROVE  /\ Ensured(r, o) \in IntentRow
         /\ Ensured(r, o).state \notin {"NONE"} \cup Terminal
         /\ Ensured(r, o).state = "REQUIRED" =>
              \/ intent[o].state = "REQUIRED"
              \/ intent[o].state = "NONE" /\ withdrawal[o].run = Nobody
<1> DEFINE new == [state |-> "REQUIRED", trigger |-> r, request |-> Nobody]
           row == IF intent[o].state = "NONE" THEN new ELSE intent[o]
<1>1. row \in IntentRow /\ row.state # "NONE" /\ withdrawal[o].run \in Run
  BY DEF DeskTypeOK, IntentRow, IntentState, Run, CancelRow
<1>2. CASE row.state \in Terminal
  <2>1. Ensured(r, o) = [row EXCEPT !.state = "UNKNOWN"]
    BY <1>2 DEF Ensured
  <2> QED BY <1>1, <2>1 DEF IntentRow, IntentState, Terminal
<1>3. CASE row.state = "REQUIRED" /\ row.request = Nobody /\ withdrawal[o].run # Nobody
  <2>1. PICK state \in {"SUBMITTED", "UNKNOWN"} :
          Ensured(r, o) = [row EXCEPT !.request = withdrawal[o].run, !.state = state]
    BY <1>3 DEF Ensured, Terminal
  <2> QED BY <1>1, <2>1 DEF IntentRow, IntentState, Terminal
<1>4. CASE /\ row.state \notin Terminal
           /\ ~(row.state = "REQUIRED" /\ row.request = Nobody /\ withdrawal[o].run # Nobody)
  <2>1. Ensured(r, o) = row
    BY <1>4 DEF Ensured
  <2> QED BY <1>1, <1>4, <2>1
<1> QED BY <1>2, <1>3, <1>4

\* The desk opens well typed.
LEMMA DeskStarts == DeskInit => DeskTypeOK
<1> SUFFICES ASSUME DeskInit PROVE DeskTypeOK
  OBVIOUS
<1>1. /\ NoReview \in ReviewRow /\ NoCall \in CallRow /\ NoCancel \in CancelRow
      /\ NoIntent \in IntentRow
      /\ [status |-> "NONE", price |-> 0, late |-> FALSE] \in OrderRow
      /\ [Free EXCEPT !.pc = "unborn"] \in AtRow
  BY RowsOfAt DEF NoReview, ReviewRow, NoCall, CallRow, NoCancel, CancelRow, NoIntent, IntentRow,
         IntentState, OrderRow, Run, DeskPc
<1> QED BY <1>1 DEF DeskInit, DeskTypeOK, Run

\* What the trading runs do keeps the types.
LEMMA TradeTypes ==
  ASSUME DeskTypeOK, NEW r \in TradingRuns, TradeStep(r),
         at[r].pc \in {"asked", "locked", "checked", "sent", "cancelling", "withdrawing"} =>
           at[r].id \in Calls,
         at[r].pc = "checked" => call[at[r].id].review \in Reviews
  PROVE  DeskTypeOK'
<1>0. at[r] \in AtRow /\ r \in Run /\ Nobody \in Run
  BY DEF DeskTypeOK, Run
<1>1. CASE StartRun(r)
  <2>1. at' \in [TradingRuns -> AtRow]
    BY <1>1, OneTurns, RowsOfAt DEF StartRun
  <2>2. prior' \in [TradingRuns -> SUBSET Calls]
    BY <1>1 DEF StartRun, DeskTypeOK
  <2> QED BY <1>1, <2>1, <2>2 DEF StartRun, DeskTypeOK
<1>2. CASE DeclareCap(r)
  <2>1. cap' \in [TradingRuns -> Nat]
    BY <1>2, TradeAssumption DEF DeclareCap, DeskTypeOK
  <2> QED BY <1>2, <2>1 DEF DeclareCap, DeskTypeOK
<1>3. ASSUME NEW v \in Reviews, PrepareBuy(r, v) PROVE DeskTypeOK'
  <2>1. review' \in [Reviews -> ReviewRow]
    <3>1. PICK p \in Prices : review' = [review EXCEPT ![v] = [run |-> r, price |-> p]]
      BY <1>3 DEF PrepareBuy
    <3>2. [run |-> r, price |-> p] \in ReviewRow
      BY <1>0, TradeAssumption DEF ReviewRow
    <3> QED BY <3>1, <3>2 DEF DeskTypeOK
  <2> QED BY <1>3, <2>1 DEF PrepareBuy, DeskTypeOK
<1>4. ASSUME NEW c \in Calls, NEW v \in Reviews, AskBuy(r, c, v) PROVE DeskTypeOK'
  <2>1. call' \in [Calls -> CallRow]
    <3>1. [run |-> r, review |-> v] \in CallRow
      BY DEF CallRow
    <3> QED BY <1>4, <3>1 DEF AskBuy, DeskTypeOK
  <2>2. at' \in [TradingRuns -> AtRow]
    <3>1. Does("asked", c, 0) \in AtRow
      BY RowsOfAt DEF DeskPc
    <3> QED BY <1>4, <3>1, OneTurns DEF AskBuy
  <2> QED BY <1>4, <2>1, <2>2 DEF AskBuy, DeskTypeOK
<1>5. CASE LockBuy(r)
  <2>1. Does("locked", at[r].id, DailyLimit) \in AtRow
    BY <1>5, LimitIsNat, RowsOfAt DEF LockBuy, DeskPc
  <2>2. at' \in [TradingRuns -> AtRow]
    BY <1>5, <2>1, OneTurns DEF LockBuy
  <2> QED BY <1>0, <1>5, <2>2 DEF LockBuy, DeskTypeOK
<1>6. CASE CheckBuy(r)
  <2>1. [at[r] EXCEPT !.pc = "checked"] \in AtRow
    BY <1>0, RowsOfAt DEF DeskPc
  <2>2. at' \in [TradingRuns -> AtRow]
    BY <1>6, <2>1, OneTurns DEF CheckBuy
  <2> QED BY <1>6, <2>2 DEF CheckBuy, DeskTypeOK
<1>7. CASE RefuseBuy(r) \/ BuyAnswered(r)
  <2>1. BuyEnds(r)
    BY <1>7 DEF RefuseBuy, BuyAnswered
  <2>2. at' \in [TradingRuns -> AtRow]
    BY <2>1, RowsOfAt, OneTurns DEF BuyEnds
  <2> QED BY <1>0, <2>1, <2>2 DEF BuyEnds, DeskTypeOK
<1>8. CASE SendBuy(r)
  <2>1. [status |-> "IN_FLIGHT", late |-> FALSE,
         price |-> review[call[at[r].id].review].price] \in OrderRow
    BY <1>8 DEF SendBuy, DeskTypeOK, OrderRow, ReviewRow
  <2>2. order' \in [Calls -> OrderRow]
    BY <1>8, <2>1 DEF SendBuy, DeskTypeOK
  <2>3. [at[r] EXCEPT !.pc = "sent"] \in AtRow
    BY <1>0, RowsOfAt DEF DeskPc
  <2>4. at' \in [TradingRuns -> AtRow]
    BY <1>8, <2>3, OneTurns DEF SendBuy
  <2> QED BY <1>8, <2>2, <2>4 DEF SendBuy, DeskTypeOK
<1>9. ASSUME NEW o \in Calls, AskCancel(r, o) PROVE DeskTypeOK'
  <2>1. withdrawal' \in [Calls -> CancelRow]
    <3>1. [run |-> r, status |-> "OPEN"] \in CancelRow
      BY <1>0 DEF CancelRow
    <3> QED BY <1>9, <3>1 DEF AskCancel, DeskTypeOK
  <2>2. Does("cancelling", o, 0) \in AtRow
    BY RowsOfAt DEF DeskPc
  <2>3. at' \in [TradingRuns -> AtRow]
    BY <1>9, <2>2, OneTurns DEF AskCancel
  <2> QED BY <1>9, <2>1, <2>3 DEF AskCancel, DeskTypeOK
<1>10. CASE CheckCancel(r)
  <2>1. [at[r] EXCEPT !.pc = "withdrawing"] \in AtRow
    BY <1>0, RowsOfAt DEF DeskPc
  <2>2. at' \in [TradingRuns -> AtRow]
    BY <1>10, <2>1, OneTurns DEF CheckCancel
  <2> QED BY <1>10, <2>2 DEF CheckCancel, DeskTypeOK
<1>11. ASSUME NEW status \in {"OPEN", "COMPLETED"}, CancelEnds(r, status), at[r].id \in Calls
       PROVE  at' \in [TradingRuns -> AtRow] /\ withdrawal' \in [Calls -> CancelRow]
  <2>1. withdrawal' \in [Calls -> CancelRow]
    BY <1>11, RowsOfOrders DEF CancelEnds
  <2> QED BY <1>11, <2>1, RowsOfAt, OneTurns DEF CancelEnds
<1>12. CASE SendCancel(r)
  <2>1. at[r].id \in Calls
    BY <1>12 DEF SendCancel
  <2>2. order' \in [Calls -> OrderRow]
    BY ZenonT(30), <1>12, <2>1, RowsOfOrders DEF SendCancel, DeskTypeOK
  <2>3. sent' \in [Calls -> SUBSET Senders]
    <3>1. Sent(at[r].id, "model") /\ "model" \in Senders
      BY <1>12 DEF SendCancel, Senders
    <3> QED BY <2>1, <3>1, SendersKnown
  <2>4. undone' \in [TradingRuns -> SUBSET Nat]
    <3>1. order[at[r].id].price \in Nat
      BY <2>1 DEF DeskTypeOK, OrderRow
    <3>2. undone[r] \cup {order[at[r].id].price} \in SUBSET Nat
      BY <3>1 DEF DeskTypeOK
    <3>3. UNCHANGED undone \/
          undone' = [undone EXCEPT ![r] = undone[r] \cup {order[at[r].id].price}]
      BY <1>12 DEF SendCancel
    <3> QED BY <3>2, <3>3 DEF DeskTypeOK
  <2>5. at' \in [TradingRuns -> AtRow] /\ withdrawal' \in [Calls -> CancelRow]
    BY <1>11, <1>12, <2>1 DEF SendCancel
  <2> QED BY <1>12, <2>2, <2>3, <2>4, <2>5 DEF SendCancel, DeskTypeOK
<1>13. CASE RefuseCancel(r)
  <2>1. at' \in [TradingRuns -> AtRow] /\ withdrawal' \in [Calls -> CancelRow]
    BY <1>11, <1>13 DEF RefuseCancel
  <2> QED BY <1>13, <2>1 DEF RefuseCancel, DeskTypeOK
<1>14. CASE Die(r)
  <2>1. [Free EXCEPT !.pc = "dead"] \in AtRow
    BY RowsOfAt DEF DeskPc
  <2>2. at' \in [TradingRuns -> AtRow]
    BY <1>14, <2>1, OneTurns DEF Die
  <2> QED BY <1>0, <1>14, <2>2 DEF Die, DeskTypeOK
<1> QED BY <1>1, <1>2, <1>3, <1>4, <1>5, <1>6, <1>7, <1>8, <1>9, <1>10, <1>12, <1>13, <1>14
        DEF TradeStep

\* What a cycle does keeps the types.
LEMMA CycleTypes ==
  ASSUME DeskTypeOK, NEW r \in TradingRuns, CycleStep(r),
         at[r].pc \in {"claiming", "submitting", "submitted", "confirming"} => at[r].id \in Calls
  PROVE  DeskTypeOK'
<1>0. at[r] \in AtRow /\ r \in Run /\ at[r].todo \in SUBSET Calls /\ at[r].touched \in SUBSET Calls
  BY DEF DeskTypeOK, Run, AtRow
<1>1. Passed(r) \in AtRow
  BY <1>0 DEF Passed, Free, AtRow, DeskPc
<1>2. \A o \in Calls, state \in IntentState : [intent[o] EXCEPT !.state = state] \in IntentRow
  BY DEF DeskTypeOK, IntentRow
<1>3. ASSUME NEW state \in IntentState, NEW o \in Calls
      PROVE  Finished(o, state) \in [Calls -> IntentRow]
  BY <1>2 DEF Finished, DeskTypeOK
<1>4. \A pc \in DeskPc : [at[r] EXCEPT !.pc = pc] \in AtRow
  BY <1>0, RowsOfAt
<1>5. ASSUME NEW o \in Calls
      PROVE  [intent EXCEPT ![o] = Reconciled(@, order[o].status)] \in [Calls -> IntentRow]
  BY ReconciledRow DEF DeskTypeOK
<1>6. CASE CycleRead(r)
  <2>1. intent' \in [Calls -> IntentRow]
    BY <1>6, ReconciledRow DEF CycleRead, DeskTypeOK
  <2>2. [Free EXCEPT !.pc = "auditing", !.touched = Outstanding,
                     !.todo = {o \in Calls : Open(o)} \ Outstanding] \in AtRow
    BY DEF Free, Outstanding, AtRow, DeskPc
  <2>3. at' \in [TradingRuns -> AtRow]
    BY <1>6, <2>2, OneTurns DEF CycleRead
  <2> QED BY <1>6, <2>1, <2>3 DEF CycleRead, DeskTypeOK
<1>7. CASE CycleEnsure(r)
  <2>1. PICK failed \in SUBSET at[r].todo :
          /\ intent' = [o \in Calls |-> IF o \in failed THEN Ensured(r, o) ELSE intent[o]]
          /\ at' = [at EXCEPT ![r] = [Free EXCEPT !.pc = "acting",
                                                  !.todo = at[r].touched \cup failed]]
    BY <1>7 DEF CycleEnsure
  <2>2. intent' \in [Calls -> IntentRow]
    BY <2>1, EnsuredRow DEF DeskTypeOK
  <2>3. [Free EXCEPT !.pc = "acting", !.todo = at[r].touched \cup failed] \in AtRow
    BY <1>0 DEF Free, AtRow, DeskPc
  <2>4. at' \in [TradingRuns -> AtRow]
    BY <2>1, <2>3, OneTurns
  <2> QED BY <1>7, <2>2, <2>4 DEF CycleEnsure, DeskTypeOK
<1>8. CASE ActCheck(r)
  <2>1. Next1(r) \in Calls
    BY <1>0, <1>8, MinOfNats, TradeAssumption DEF ActCheck, Next1
  <2>2. intent' \in [Calls -> IntentRow]
    BY <1>5, <1>8, <2>1 DEF ActCheck, DeskTypeOK
  <2>3. Acting(r, "claiming") \in AtRow
    BY <1>0, <2>1 DEF Acting, AtRow, DeskPc
  <2>4. at' \in [TradingRuns -> AtRow]
    BY <1>1, <1>8, <2>3, OneTurns DEF ActCheck
  <2> QED BY <1>8, <2>2, <2>4 DEF ActCheck, DeskTypeOK
<1>9. CASE ActTooLate(r)
  BY <1>1, <1>9, OneTurns DEF ActTooLate, DeskTypeOK
<1>10. CASE ActClaim(r)
  <2>1. intent' \in [Calls -> IntentRow]
    <3>1. at[r].id \in Calls
      BY <1>10 DEF ActClaim
    <3>2. [intent[at[r].id] EXCEPT !.state = "SUBMITTING", !.request = r] \in IntentRow
      <4>1. "SUBMITTING" \in IntentState /\ intent[at[r].id] \in IntentRow
        BY <3>1 DEF DeskTypeOK, IntentState
      <4> QED BY <1>0, <4>1 DEF IntentRow
    <3>3. UNCHANGED intent \/
          intent' = [intent EXCEPT ![at[r].id] =
                       [intent[at[r].id] EXCEPT !.state = "SUBMITTING", !.request = r]]
      BY <1>10 DEF ActClaim
    <3> QED BY <3>2, <3>3 DEF DeskTypeOK
  <2>2. at' \in [TradingRuns -> AtRow]
    BY <1>1, <1>4, <1>10, OneTurns DEF ActClaim, DeskPc
  <2> QED BY <1>10, <2>1, <2>2 DEF ActClaim, DeskTypeOK
<1>11. CASE NotSent(r) \/ FinishCancel(r)
  <2>1. intent' \in [Calls -> IntentRow]
    BY <1>3, <1>11 DEF NotSent, FinishCancel, IntentState
  <2>2. at' \in [TradingRuns -> AtRow]
    BY <1>4, <1>11, OneTurns DEF NotSent, FinishCancel, DeskPc
  <2> QED BY <1>11, <2>1, <2>2 DEF NotSent, FinishCancel, DeskTypeOK
<1>12. CASE SystemCancel(r)
  <2>1. order' \in [Calls -> OrderRow]
    <3>1. order' = order \/ order' = Withdrawn(at[r].id)
      BY <1>12 DEF SystemCancel
    <3>2. at[r].id \in Calls
      BY <1>12 DEF SystemCancel
    <3> QED BY ZenonT(60), <3>1, <3>2, RowsOfOrders DEF DeskTypeOK
  <2>2. sent' \in [Calls -> SUBSET Senders]
    <3>1. at[r].id \in Calls
      BY <1>12 DEF SystemCancel
    <3>2. PICK who \in Senders : Sent(at[r].id, who)
      BY <1>12 DEF SystemCancel, Senders
    <3> QED BY <3>1, <3>2, SendersKnown
  <2>3. at' \in [TradingRuns -> AtRow]
    BY <1>4, <1>12, OneTurns DEF SystemCancel, DeskPc
  <2> QED BY <1>12, <2>1, <2>2, <2>3 DEF SystemCancel, DeskTypeOK
<1>13. CASE ConfirmCancel(r)
  <2>1. intent' \in [Calls -> IntentRow]
    <3>1. at[r].id \in Calls
      BY <1>13 DEF ConfirmCancel
    <3>2. \/ UNCHANGED intent
          \/ intent' = [intent EXCEPT ![at[r].id] = Reconciled(@, order[at[r].id].status)]
      BY <1>13 DEF ConfirmCancel
    <3> QED BY <1>5, <3>1, <3>2 DEF DeskTypeOK
  <2>2. at' \in [TradingRuns -> AtRow]
    BY <1>1, <1>13, OneTurns DEF ConfirmCancel
  <2> QED BY <1>13, <2>1, <2>2 DEF ConfirmCancel, DeskTypeOK
<1>14. CASE CycleEnds(r)
  BY <1>14, RowsOfAt, OneTurns DEF CycleEnds, DeskTypeOK
<1> QED BY <1>6, <1>7, <1>8, <1>9, <1>10, <1>11, <1>12, <1>13, <1>14 DEF CycleStep

\* What the broker does keeps the types.
LEMMA BrokerTypes ==
  ASSUME DeskTypeOK, NEW o \in Calls, BrokerMoves(o)
  PROVE  DeskTypeOK'
<1>1. PICK step \in BrokerStep(o) :
        /\ order[o].status = step.from
        /\ order' = [order EXCEPT ![o].status = step.to, ![o].late = @ \/ Stray(o)]
  BY DEF BrokerMoves
<1>2. step.to \in {"NONE", "PENDING", "PENDING_CANCEL", "FILLED", "CANCELLED"}
  BY DEF BrokerStep
<1>3. (order[o].late \/ Stray(o)) \in BOOLEAN
  OBVIOUS
<1>4. order' \in [Calls -> OrderRow]
  <2> DEFINE late == order[o].late \/ Stray(o)
  <2>0. ASSUME NEW row \in OrderRow, NEW status \in {"NONE", "PENDING", "PENDING_CANCEL",
                 "FILLED", "CANCELLED"}, NEW l \in BOOLEAN
        PROVE  [row EXCEPT !.status = status, !.late = l] \in OrderRow
    BY DEF OrderRow
  <2>1. [order[o] EXCEPT !.status = step.to, !.late = late] \in OrderRow
    BY <1>2, <1>3, <2>0 DEF DeskTypeOK
  <2>2. order' = [order EXCEPT ![o] = [order[o] EXCEPT !.status = step.to, !.late = late]]
    BY <1>1 DEF DeskTypeOK, OrderRow
  <2> QED BY <2>1, <2>2 DEF DeskTypeOK
<1> QED BY <1>4 DEF BrokerMoves, DeskTypeOK


------------------------------------------------------------------------------
(* The ledger of buys. *)

Buying == {"asked", "locked", "checked", "sent"}
Drafts == Buying \ {"sent"}

\* A run that buys has its call in the ledger, and no order by it before it is
\* sent; an order has a call.
CallsAreOwn ==
  /\ \A r \in TradingRuns : at[r].pc \in Buying =>
       /\ at[r].id \in Calls /\ call[at[r].id].run = r
       /\ at[r].pc \in Drafts =>
            order[at[r].id].status = "NONE" /\ order[at[r].id].price = 0
  /\ \A c \in Calls : call[c] = NoCall => order[c].status = "NONE" /\ order[c].price = 0

\* What the check has found of the review still stands when the order is sent.
ReviewsStand == \A r \in TradingRuns : at[r].pc = "checked" => ReviewStands(r, at[r].id)

LedgerInv == CallsAreOwn /\ ReviewsStand /\ OneOrderPerReview

\* A call in the ledger is real.
LEMMA CallsReal ==
  DeskTypeOK => \A c \in Calls : call[c] # NoCall =>
    /\ call[c] \in [run : TradingRuns, review : Reviews]
    /\ call[c].run \in TradingRuns /\ call[c].run # Nobody /\ call[c].review \in Reviews
<1> SUFFICES ASSUME DeskTypeOK, NEW c \in Calls, call[c] # NoCall
             PROVE  /\ call[c] \in [run : TradingRuns, review : Reviews]
                    /\ call[c].run \in TradingRuns /\ call[c].run # Nobody
                    /\ call[c].review \in Reviews
  OBVIOUS
<1>1. call[c] \in [run : TradingRuns, review : Reviews]
  BY DEF DeskTypeOK, CallRow
<1>2. Nobody \notin TradingRuns
  BY TradeAssumption DEF Nobody
<1> QED BY <1>1, <1>2

\* A step that starts no buy and books no order leaves the ledger in order.
LEMMA LedgerRests ==
  ASSUME DeskTypeOK, LedgerInv, UNCHANGED <<call, review>>,
         \A r \in TradingRuns : at'[r].pc \in Buying =>
           /\ at[r].pc \in Buying /\ at'[r].id = at[r].id
           /\ at'[r].pc \in Drafts => at[r].pc \in Drafts
           /\ at'[r].pc = "checked" => at[r].pc = "checked",
         \A o \in Calls : /\ order'[o].price = order[o].price
                          /\ order[o].status = "NONE" => order'[o].status = "NONE"
  PROVE  LedgerInv'
<1>1. CallsAreOwn'
  BY DEF LedgerInv, CallsAreOwn
<1>2. ReviewsStand'
  <2> SUFFICES ASSUME NEW r \in TradingRuns, at'[r].pc = "checked"
               PROVE  ReviewStands(r, at[r].id)' /\ at'[r].id = at[r].id
    BY DEF ReviewsStand, ReviewStands
  <2> QED BY DEF LedgerInv, ReviewsStand, ReviewStands, Buying
<1>3. OneOrderPerReview'
  BY DEF LedgerInv, OneOrderPerReview
<1> QED BY <1>1, <1>2, <1>3 DEF LedgerInv

\* A buy enters the ledger under a call id that was never used.
LEMMA AskBuyLedger ==
  ASSUME DeskTypeOK, LedgerInv, NEW r \in TradingRuns, NEW c \in Calls, NEW v \in Reviews,
         AskBuy(r, c, v)
  PROVE  LedgerInv'
<1>1. /\ call[c] = NoCall /\ at[r].pc = "free"
      /\ call'[c] = [run |-> r, review |-> v]
      /\ \A d \in Calls : d # c => call'[d] = call[d]
      /\ at'[r].pc = "asked" /\ at'[r].id = c
      /\ \A q \in TradingRuns : q # r => at'[q] = at[q]
      /\ UNCHANGED <<order, review>>
  BY DEF AskBuy, Reservable, DeskTypeOK, Does, Free
<1>2. order[c].status = "NONE" /\ order[c].price = 0
  BY <1>1 DEF LedgerInv, CallsAreOwn
<1>3. ASSUME NEW q \in TradingRuns, at[q].pc \in Buying
      PROVE  at[q].id # c /\ q # r
  BY <1>1, <1>3, TradeAssumption DEF LedgerInv, CallsAreOwn, Buying, NoCall, Nobody
<1>4. CallsAreOwn'
  <2>1. ASSUME NEW q \in TradingRuns, at'[q].pc \in Buying
        PROVE  /\ at'[q].id \in Calls /\ call'[at'[q].id].run = q
               /\ at'[q].pc \in Drafts =>
                    order'[at'[q].id].status = "NONE" /\ order'[at'[q].id].price = 0
    BY <1>1, <1>2, <1>3, <2>1 DEF LedgerInv, CallsAreOwn
  <2>2. \A d \in Calls : call'[d] = NoCall => order'[d].status = "NONE" /\ order'[d].price = 0
    BY <1>1, <1>2 DEF LedgerInv, CallsAreOwn
  <2> QED BY <2>1, <2>2 DEF CallsAreOwn
<1>5. ReviewsStand'
  <2> SUFFICES ASSUME NEW q \in TradingRuns, at'[q].pc = "checked"
               PROVE  ReviewStands(q, at[q].id)' /\ at'[q] = at[q]
    BY DEF ReviewsStand, ReviewStands
  <2>1. q # r /\ at'[q] = at[q] /\ at[q].pc \in Buying
    BY <1>1 DEF Buying
  <2>2. ReviewStands(q, at[q].id) /\ at[q].id # c /\ at[q].id \in Calls
    BY <1>3, <2>1 DEF LedgerInv, ReviewsStand, CallsAreOwn
  <2> QED BY <1>1, <2>1, <2>2 DEF ReviewStands
<1>6. OneOrderPerReview'
  BY <1>1, <1>2 DEF LedgerInv, OneOrderPerReview
<1> QED BY <1>4, <1>5, <1>6 DEF LedgerInv

\* A new review stands for no call yet; those that were granted stand as they did.
LEMMA PrepareLedger ==
  ASSUME DeskTypeOK, LedgerInv, NEW r \in TradingRuns, NEW v \in Reviews, PrepareBuy(r, v)
  PROVE  LedgerInv'
<1>1. /\ review[v] = NoReview /\ UNCHANGED <<order, call, at>>
      /\ \A w \in Reviews : w # v => review'[w] = review[w]
  BY DEF PrepareBuy, DeskTypeOK
<1>2. ReviewsStand'
  <2> SUFFICES ASSUME NEW q \in TradingRuns, at[q].pc = "checked"
               PROVE  ReviewStands(q, at[q].id)'
    BY <1>1 DEF ReviewsStand, ReviewStands
  <2>1. /\ ReviewStands(q, at[q].id) /\ at[q].id \in Calls /\ call[at[q].id].run = q
        /\ q # Nobody
    BY TradeAssumption DEF LedgerInv, ReviewsStand, CallsAreOwn, Buying, Nobody
  <2>2. call[at[q].id] # NoCall
    BY <2>1 DEF NoCall
  <2>3. call[at[q].id].review \in Reviews /\ call[at[q].id].review # v
    BY <1>1, <2>1, <2>2, CallsReal DEF ReviewStands, NoReview
  <2> QED BY <1>1, <2>1, <2>3 DEF ReviewStands
<1> QED BY <1>1, <1>2 DEF LedgerInv, CallsAreOwn, OneOrderPerReview

\* The checks of a buy.
LEMMA LockLedger ==
  ASSUME DeskTypeOK, LedgerInv, NEW r \in TradingRuns, LockBuy(r) \/ CheckBuy(r)
  PROVE  LedgerInv'
<1>1. /\ at[r].pc \in {"asked", "locked"} /\ at'[r].id = at[r].id
      /\ at'[r].pc \in {"locked", "checked"}
      /\ at'[r].pc = "checked" => ReviewStands(r, at[r].id)
      /\ \A q \in TradingRuns : q # r => at'[q] = at[q]
      /\ UNCHANGED <<order, review, call>>
  <2>1. CASE LockBuy(r)
    BY <2>1 DEF LockBuy, DeskTypeOK, Does, Free
  <2>2. CASE CheckBuy(r)
    BY ZenonT(60), <2>2 DEF CheckBuy, BuyAllowed, DeskTypeOK, AtRow
  <2> QED BY <2>1, <2>2
<1>2. \A q \in TradingRuns :
        /\ at'[q].id = at[q].id
        /\ at'[q].pc \in Buying <=> at[q].pc \in Buying
        /\ at'[q].pc \in Drafts <=> at[q].pc \in Drafts
  BY <1>1 DEF Buying, Drafts
<1>3. CallsAreOwn'
  BY <1>1, <1>2 DEF LedgerInv, CallsAreOwn
<1>4. ReviewsStand'
  BY <1>1 DEF LedgerInv, ReviewsStand, ReviewStands
<1>5. OneOrderPerReview'
  BY <1>1 DEF LedgerInv, OneOrderPerReview
<1> QED BY <1>3, <1>4, <1>5 DEF LedgerInv

\* The order that is sent is the first by its review.
LEMMA SendLedger ==
  ASSUME DeskTypeOK, LedgerInv, NEW r \in TradingRuns, SendBuy(r)
  PROVE  LedgerInv'
<1> DEFINE c == at[r].id
<1>1. /\ c \in Calls /\ call[c].run = r /\ ReviewStands(r, c)
      /\ \A q \in TradingRuns : q # r /\ at[q].pc \in Buying => at[q].id # c
  BY DEF SendBuy, LedgerInv, CallsAreOwn, ReviewsStand, Buying
<1>2. /\ at'[r].pc = "sent" /\ at'[r].id = at[r].id
      /\ \A q \in TradingRuns : q # r => at'[q] = at[q]
      /\ \A o \in Calls : o # c => order'[o] = order[o]
      /\ UNCHANGED <<review, call>>
  BY DEF SendBuy, DeskTypeOK, AtRow
<1>3. r # Nobody
  BY TradeAssumption DEF Nobody
<1>4. CallsAreOwn'
  <2>1. ASSUME NEW q \in TradingRuns, at'[q].pc \in Buying
        PROVE  /\ at'[q].id \in Calls /\ call'[at'[q].id].run = q
               /\ at'[q].pc \in Drafts =>
                    order'[at'[q].id].status = "NONE" /\ order'[at'[q].id].price = 0
    BY <1>1, <1>2, <2>1 DEF LedgerInv, CallsAreOwn, Drafts
  <2>2. ASSUME NEW d \in Calls, call'[d] = NoCall
        PROVE  order'[d].status = "NONE" /\ order'[d].price = 0
    BY <1>1, <1>2, <1>3, <2>2 DEF LedgerInv, CallsAreOwn, NoCall
  <2> QED BY <2>1, <2>2 DEF CallsAreOwn
<1>5. ReviewsStand'
  <2> SUFFICES ASSUME NEW q \in TradingRuns, at'[q].pc = "checked"
               PROVE  ReviewStands(q, at[q].id)' /\ at'[q] = at[q]
    BY DEF ReviewsStand, ReviewStands
  <2> QED BY <1>2 DEF LedgerInv, ReviewsStand, ReviewStands
<1>6. \A d \in Calls \ {c} : ~(call[d].run = r /\ call[d].review = call[c].review)
  BY <1>1 DEF ReviewStands
<1>7. OneOrderPerReview'
  BY <1>1, <1>2, <1>6 DEF LedgerInv, OneOrderPerReview
<1> QED BY <1>4, <1>5, <1>7 DEF LedgerInv


------------------------------------------------------------------------------
(* The cancellations. *)

Cancelling == {"cancelling", "withdrawing"}
Sending    == {"submitting", "submitted"}
Final      == {"CANCELLED", "FILLED"}

\* A run that is at an order names one.
IdsReal ==
  \A r \in TradingRuns :
    at[r].pc \in Cancelling \cup Sending \cup {"claiming", "confirming"} => at[r].id \in Calls

\* A settled row is about an order that is done with.
RowsSettle ==
  \A o \in Calls : intent[o].state \in Terminal => order[o].status \in Final

\* The model's cancel is in the ledger before anything else happens.
WithdrawalsRecorded ==
  /\ \A r \in TradingRuns : at[r].pc \in Cancelling => withdrawal[at[r].id].run # Nobody
  /\ \A o \in Calls : "model" \in sent[o] => withdrawal[o].run # Nobody

\* A claimed row is never free again while its claimant may still send.
ClaimsStand ==
  \A r \in TradingRuns : at[r].pc \in Sending =>
    /\ intent[at[r].id].state # "NONE"
    /\ at[r].pc = "submitting" =>
         /\ intent[at[r].id].state # "REQUIRED" /\ "system" \notin sent[at[r].id]
         /\ \A q \in TradingRuns : at[q].pc = "submitting" /\ at[q].id = at[r].id => q = r

\* What the system has asked for once is not to be claimed again.
SentOnce ==
  \A o \in Calls : /\ "system" \in sent[o] => intent[o].state \notin {"NONE", "REQUIRED"}
                   /\ "system again" \notin sent[o]

\* The system cancels the order, or may yet.
SystemsCase(o) ==
  \/ intent[o].state = "REQUIRED" \/ "system" \in sent[o]
  \/ \E r \in TradingRuns : at[r].pc = "submitting" /\ at[r].id = o

\* The model has sent only where the system never will, and is about to send
\* only there or where the order is done with.
SendersApart ==
  /\ \A o \in Calls : "model" \in sent[o] => ~SystemsCase(o)
  /\ \A r \in TradingRuns, o \in Calls :
       at[r].pc = "withdrawing" /\ at[r].id = o /\ SystemsCase(o) => order[o].status \in Final

CancelInv == /\ IdsReal /\ RowsSettle /\ WithdrawalsRecorded /\ ClaimsStand /\ SentOnce
             /\ SendersApart

\* The invariant says that there is one sender.
LEMMA OneSender == CancelInv => OneCancelSender
BY DEF CancelInv, SendersApart, SentOnce, SystemsCase, OneCancelSender

\* A step that neither sends, claims nor requires a cancellation.
LEMMA CancelsRest ==
  ASSUME DeskTypeOK, CancelInv, UNCHANGED <<withdrawal, sent>>,
         \A r \in TradingRuns :
           at'[r].pc \in Cancelling \cup Sending \cup {"claiming", "confirming"} =>
             \/ at'[r].pc = at[r].pc /\ at'[r].id = at[r].id
             \/ at'[r].pc = "claiming" /\ at'[r].id \in Calls,
         \A o \in Calls :
           /\ intent'[o].state = "NONE" => intent[o].state = "NONE"
           /\ intent'[o].state = "REQUIRED" => intent[o].state = "REQUIRED"
           /\ intent'[o].state \in Terminal =>
                intent[o].state \in Terminal \/ order'[o].status \in Final
           /\ order[o].status \in Final => order'[o].status \in Final
  PROVE  CancelInv'
<1>1. IdsReal'
  BY DEF CancelInv, IdsReal, Cancelling, Sending
<1>2. RowsSettle'
  BY DEF CancelInv, RowsSettle
<1>3. \A r \in TradingRuns :
        at'[r].pc \in Cancelling \cup Sending => at'[r].pc = at[r].pc /\ at'[r].id = at[r].id
                                                /\ at[r].id \in Calls
  BY DEF CancelInv, IdsReal, Cancelling, Sending
<1>4. WithdrawalsRecorded'
  BY <1>3 DEF CancelInv, WithdrawalsRecorded
<1>5. ClaimsStand'
  BY <1>3 DEF CancelInv, ClaimsStand, Sending
<1>6. SentOnce'
  BY DEF CancelInv, SentOnce
<1>7. \A o \in Calls : SystemsCase(o)' => SystemsCase(o)
  BY <1>3 DEF SystemsCase, Sending
<1>8. SendersApart'
  <2>1. \A o \in Calls : "model" \in sent'[o] => ~SystemsCase(o)'
    BY <1>7 DEF CancelInv, SendersApart
  <2>2. ASSUME NEW r \in TradingRuns, NEW o \in Calls, at'[r].pc = "withdrawing",
               at'[r].id = o, SystemsCase(o)'
        PROVE  order'[o].status \in Final
    <3>1. at[r].pc = "withdrawing" /\ at[r].id = o
      BY <1>3, <2>2 DEF Cancelling
    <3> QED BY <1>7, <2>2, <3>1 DEF CancelInv, SendersApart
  <2> QED BY <2>1, <2>2 DEF SendersApart
<1> QED BY <1>1, <1>2, <1>4, <1>5, <1>6, <1>8 DEF CancelInv

\* A step of one run that leaves rows and orders alone.
Alone(r) ==
  /\ \A q \in TradingRuns : q # r => at'[q] = at[q]
  /\ UNCHANGED <<order, intent>>

\* The model asks: from now on its cancel is in the ledger.
LEMMA AskCancelInv ==
  ASSUME DeskTypeOK, CancelInv, NEW r \in TradingRuns, NEW o \in Calls, AskCancel(r, o)
  PROVE  CancelInv'
<1>1. /\ Alone(r) /\ at[r].pc = "free" /\ at'[r].pc = "cancelling" /\ at'[r].id = o
      /\ withdrawal'[o].run = r /\ r # Nobody
      /\ \A p \in Calls : p # o => withdrawal'[p] = withdrawal[p]
      /\ UNCHANGED sent
  BY TradeAssumption DEF AskCancel, Alone, DeskTypeOK, Does, Free, Nobody
<1>2. IdsReal' /\ RowsSettle'
  BY <1>1 DEF CancelInv, IdsReal, RowsSettle, Alone, Cancelling, Sending
<1>3. WithdrawalsRecorded'
  BY <1>1 DEF CancelInv, WithdrawalsRecorded, Alone, IdsReal, Cancelling
<1>4. ClaimsStand' /\ SentOnce'
  <2>1. \A q \in TradingRuns : at'[q].pc \in Sending => q # r /\ at'[q] = at[q]
    BY <1>1 DEF Alone, Sending
  <2>2. intent' = intent /\ sent' = sent
    BY <1>1 DEF Alone
  <2>3. \A q \in TradingRuns : at'[q].pc = "submitting" => at'[q].pc \in Sending
    BY DEF Sending
  <2> QED BY ZenonT(60), <2>1, <2>2, <2>3 DEF CancelInv, ClaimsStand, SentOnce
<1>5. \A p : SystemsCase(p)' <=> SystemsCase(p)
  BY <1>1 DEF SystemsCase, Alone
<1>6. SendersApart'
  BY <1>1, <1>5 DEF CancelInv, SendersApart, Alone
<1> QED BY <1>2, <1>3, <1>4, <1>6 DEF CancelInv

\* The model may go on only where the system has no case, or the order is done.
LEMMA CheckCancelInv ==
  ASSUME DeskTypeOK, CancelInv, NEW r \in TradingRuns, CheckCancel(r)
  PROVE  CancelInv'
<1>1. /\ Alone(r) /\ at[r].pc = "cancelling" /\ at'[r].pc = "withdrawing" /\ at'[r].id = at[r].id
      /\ at[r].id \in Calls
      /\ UNCHANGED <<sent, withdrawal>>
  BY DEF CheckCancel, Alone, DeskTypeOK, AtRow, CancelInv, IdsReal, Cancelling
<1>2. IdsReal' /\ RowsSettle'
  BY <1>1 DEF CancelInv, IdsReal, RowsSettle, Alone, Cancelling, Sending
<1>3. WithdrawalsRecorded'
  BY <1>1 DEF CancelInv, WithdrawalsRecorded, Alone, Cancelling
<1>4. ClaimsStand' /\ SentOnce'
  BY ZenonT(60), <1>1 DEF CancelInv, ClaimsStand, SentOnce, Alone, Sending
<1>5. \A p : SystemsCase(p)' <=> SystemsCase(p)
  BY <1>1 DEF SystemsCase, Alone
<1>6. CASE intent[at[r].id].state \in Terminal
  <2>1. order[at[r].id].status \in Final
    BY <1>1, <1>6 DEF CancelInv, RowsSettle
  <2>2. SendersApart'
    BY <1>1, <1>5, <2>1 DEF CancelInv, SendersApart, Alone
  <2> QED BY <1>2, <1>3, <1>4, <2>2 DEF CancelInv
<1>7. CASE intent[at[r].id].state \notin Terminal
  <2>1. intent[at[r].id].state = "NONE"
    BY <1>1, <1>7 DEF CheckCancel, MayCancel, Managed, Terminal, DeskTypeOK, IntentRow
  <2>2. ~SystemsCase(at[r].id)
    BY <1>1, <2>1 DEF CancelInv, SystemsCase, SentOnce, ClaimsStand, Sending
  <2>3. SendersApart'
    BY <1>1, <1>5, <2>2 DEF CancelInv, SendersApart, Alone
  <2> QED BY <1>2, <1>3, <1>4, <2>3 DEF CancelInv
<1> QED BY <1>6, <1>7

\* A cancel of the model ends, without a request or with one.
LEMMA CancelEndsInv ==
  ASSUME DeskTypeOK, CancelInv, NEW r \in TradingRuns, SendCancel(r) \/ RefuseCancel(r)
  PROVE  CancelInv'
<1> DEFINE o == at[r].id
<1>1. /\ at[r].pc \in Cancelling /\ o \in Calls /\ at'[r].pc = "free"
      /\ \A q \in TradingRuns : q # r => at'[q] = at[q]
      /\ \A p \in Calls : withdrawal'[p].run = withdrawal[p].run
      /\ \A p \in Calls : order[p].status \in Final => order'[p].status = order[p].status
      /\ UNCHANGED intent
  <2>1. o \in Calls /\ at[r].pc \in Cancelling
    BY DEF SendCancel, RefuseCancel, CancelInv, IdsReal, Cancelling
  <2>2. PICK status : CancelEnds(r, status)
    BY DEF SendCancel, RefuseCancel
  <2>3. /\ at'[r].pc = "free"
        /\ \A q \in TradingRuns : q # r => at'[q] = at[q]
        /\ \A p \in Calls : withdrawal'[p].run = withdrawal[p].run
    BY ZenonT(30), <2>2 DEF CancelEnds, DeskTypeOK, Free, CancelRow
  <2>4. CASE RefuseCancel(r)
    BY <2>1, <2>3, <2>4 DEF RefuseCancel
  <2>5. CASE SendCancel(r)
    <3>1. order' \in {order, Withdrawn(o)} /\ order[o].status = "PENDING" /\ UNCHANGED intent
      BY <2>5 DEF SendCancel
    <3> QED BY <2>1, <2>3, <3>1 DEF Withdrawn, Final, DeskTypeOK
  <2> QED BY <2>4, <2>5
<1>2. \A p \in Calls :
        /\ "system" \in sent'[p] <=> "system" \in sent[p]
        /\ "system again" \in sent'[p] <=> "system again" \in sent[p]
        /\ "model" \in sent'[p] => "model" \in sent[p] \/ (p = o /\ ~SystemsCase(o))
  <2>1. CASE RefuseCancel(r)
    BY <2>1 DEF RefuseCancel
  <2>2. CASE SendCancel(r)
    <3>1. ~SystemsCase(o)
      BY <1>1, <2>2 DEF SendCancel, CancelInv, SendersApart, Final
    <3> QED BY <2>2, <3>1 DEF SendCancel, Sent, DeskTypeOK
  <2> QED BY <2>1, <2>2
<1>3. IdsReal' /\ RowsSettle'
  BY <1>1 DEF CancelInv, IdsReal, RowsSettle, Cancelling, Sending
<1>4. WithdrawalsRecorded'
  <2>1. ASSUME NEW q \in TradingRuns, at'[q].pc \in Cancelling
        PROVE  withdrawal'[at'[q].id].run # Nobody
    <3>1. q # r /\ at'[q] = at[q] /\ at[q].id \in Calls
      BY <1>1, <2>1 DEF CancelInv, IdsReal, Cancelling
    <3> QED BY <1>1, <2>1, <3>1 DEF CancelInv, WithdrawalsRecorded
  <2>2. ASSUME NEW p \in Calls, "model" \in sent'[p]
        PROVE  withdrawal'[p].run # Nobody
    <3>1. "model" \in sent[p] \/ p = o
      BY <1>2, <2>2
    <3> QED BY <1>1, <3>1 DEF CancelInv, WithdrawalsRecorded
  <2> QED BY <2>1, <2>2 DEF WithdrawalsRecorded
<1>5. ClaimsStand' /\ SentOnce'
  <2>1. ASSUME NEW q \in TradingRuns, at'[q].pc \in Sending
        PROVE  q # r /\ at'[q] = at[q] /\ at[q].id \in Calls
    BY <1>1, <2>1 DEF CancelInv, IdsReal, Sending
  <2>2. ASSUME NEW q \in TradingRuns, at'[q].pc \in Sending
        PROVE  /\ intent'[at'[q].id].state # "NONE"
               /\ at'[q].pc = "submitting" =>
                    /\ intent'[at'[q].id].state # "REQUIRED" /\ "system" \notin sent'[at'[q].id]
                    /\ \A x \in TradingRuns :
                         at'[x].pc = "submitting" /\ at'[x].id = at'[q].id => x = q
    <3>1. at'[q] = at[q] /\ at[q].id \in Calls /\ at[q].pc \in Sending
      BY <2>1, <2>2
    <3>2. \A x \in TradingRuns : at'[x].pc = "submitting" => at'[x] = at[x]
      BY <2>1 DEF Sending
    <3>3. UNCHANGED intent /\ ("system" \in sent'[at[q].id] <=> "system" \in sent[at[q].id])
      BY <1>1, <1>2, <3>1
    <3> QED BY <3>1, <3>2, <3>3 DEF CancelInv, ClaimsStand
  <2>3. SentOnce'
    BY <1>1, <1>2 DEF CancelInv, SentOnce
  <2> QED BY <2>2, <2>3 DEF ClaimsStand
<1>6. \A p \in Calls : SystemsCase(p)' <=> SystemsCase(p)
  <2>1. \A q \in TradingRuns, p \in Calls :
          at'[q].pc = "submitting" /\ at'[q].id = p <=> at[q].pc = "submitting" /\ at[q].id = p
    BY <1>1 DEF Cancelling
  <2> QED BY ZenonT(60), <1>1, <1>2, <2>1 DEF SystemsCase
<1>7. SendersApart'
  <2>1. \A p \in Calls : "model" \in sent'[p] => ~SystemsCase(p)'
    BY <1>2, <1>6 DEF CancelInv, SendersApart
  <2>2. ASSUME NEW q \in TradingRuns, NEW p \in Calls, at'[q].pc = "withdrawing",
               at'[q].id = p, SystemsCase(p)'
        PROVE  order'[p].status \in Final
    <3>1. q # r /\ at'[q] = at[q]
      BY <1>1, <2>2
    <3>2. SystemsCase(p)
      BY <1>6, <2>2
    <3> QED BY <1>1, <2>2, <3>1, <3>2 DEF CancelInv, SendersApart
  <2> QED BY <2>1, <2>2 DEF SendersApart
<1> QED BY <1>3, <1>4, <1>5, <1>7 DEF CancelInv


\* A cycle requires the cancellation only of an order that neither it nor the
\* model has asked the broker to cancel.
LEMMA EnsureInv ==
  ASSUME DeskTypeOK, CancelInv, NEW r \in TradingRuns, CycleEnsure(r)
  PROVE  CancelInv'
<1>1. PICK failed \in SUBSET at[r].todo :
        /\ intent' = [o \in Calls |-> IF o \in failed THEN Ensured(r, o) ELSE intent[o]]
        /\ at' = [at EXCEPT ![r] = [Free EXCEPT !.pc = "acting",
                                                !.todo = at[r].touched \cup failed]]
  BY DEF CycleEnsure
<1>2. /\ at[r].pc = "auditing" /\ at'[r].pc = "acting"
      /\ \A q \in TradingRuns : q # r => at'[q] = at[q]
      /\ UNCHANGED <<order, sent, withdrawal>>
  BY <1>1 DEF CycleEnsure, DeskTypeOK, Free
<1>3. ASSUME NEW o \in Calls
      PROVE  /\ intent'[o].state = "NONE" => intent[o].state = "NONE"
             /\ intent'[o].state = "REQUIRED" =>
                  \/ intent[o].state = "REQUIRED"
                  \/ intent[o].state = "NONE" /\ withdrawal[o].run = Nobody
             /\ intent'[o].state \in Terminal => intent[o].state \in Terminal
  BY <1>1, EnsuredRow
<1>4. \A q \in TradingRuns :
        at'[q].pc \in Cancelling \cup Sending \cup {"claiming", "confirming"} =>
          at'[q] = at[q] /\ at[q].id \in Calls
  BY <1>2 DEF CancelInv, IdsReal, Cancelling, Sending
<1>5. IdsReal' /\ RowsSettle'
  BY <1>2, <1>3, <1>4 DEF CancelInv, IdsReal, RowsSettle
<1>6. WithdrawalsRecorded'
  BY <1>2, <1>4 DEF CancelInv, WithdrawalsRecorded
<1>7. ASSUME NEW o \in Calls, SystemsCase(o)'
      PROVE  SystemsCase(o) \/ withdrawal[o].run = Nobody
  BY <1>2, <1>3, <1>4, <1>7 DEF SystemsCase, Sending
<1>8. ClaimsStand' /\ SentOnce'
  <2>1. SentOnce'
    BY <1>2, <1>3 DEF CancelInv, SentOnce
  <2>2. ASSUME NEW q \in TradingRuns, at'[q].pc \in Sending
        PROVE  /\ intent'[at'[q].id].state # "NONE"
               /\ at'[q].pc = "submitting" =>
                    /\ intent'[at'[q].id].state # "REQUIRED" /\ "system" \notin sent'[at'[q].id]
                    /\ \A x \in TradingRuns :
                         at'[x].pc = "submitting" /\ at'[x].id = at'[q].id => x = q
    <3>1. at'[q] = at[q] /\ at[q].id \in Calls
      BY <1>4, <2>2
    <3>2. \A x \in TradingRuns : at'[x].pc = "submitting" => at'[x] = at[x]
      BY <1>2
    <3> QED BY <1>2, <1>3, <2>2, <3>1, <3>2 DEF CancelInv, ClaimsStand
  <2> QED BY <2>1, <2>2 DEF ClaimsStand
<1>9. SendersApart'
  <2>1. ASSUME NEW o \in Calls, "model" \in sent'[o] PROVE ~SystemsCase(o)'
    BY <1>2, <1>7, <2>1 DEF CancelInv, SendersApart, WithdrawalsRecorded
  <2>2. ASSUME NEW q \in TradingRuns, NEW o \in Calls, at'[q].pc = "withdrawing",
               at'[q].id = o, SystemsCase(o)'
        PROVE  order'[o].status \in Final
    <3>1. at'[q] = at[q] /\ withdrawal[o].run # Nobody
      BY <1>4, <2>2 DEF CancelInv, WithdrawalsRecorded, Cancelling
    <3>2. SystemsCase(o)
      BY <1>7, <2>2, <3>1
    <3> QED BY <1>2, <2>2, <3>1, <3>2 DEF CancelInv, SendersApart
  <2> QED BY <2>1, <2>2 DEF SendersApart
<1> QED BY <1>5, <1>6, <1>8, <1>9 DEF CancelInv

\* A claim finds the row required, so nobody has claimed it or sent.
LEMMA ClaimInv ==
  ASSUME DeskTypeOK, CancelInv, NEW r \in TradingRuns, at[r].pc = "claiming",
         intent[at[r].id].state = "REQUIRED",
         intent' = [intent EXCEPT ![at[r].id].state = "SUBMITTING", ![at[r].id].request = r],
         at' = [at EXCEPT ![r].pc = "submitting"],
         UNCHANGED <<order, sent, withdrawal>>
  PROVE  CancelInv'
<1> DEFINE o == at[r].id
<1>1. /\ o \in Calls /\ at'[r].pc = "submitting" /\ at'[r].id = o
      /\ \A q \in TradingRuns : q # r => at'[q] = at[q]
      /\ intent'[o].state = "SUBMITTING"
      /\ \A p \in Calls : p # o => intent'[p] = intent[p]
  BY ZenonT(60) DEF CancelInv, IdsReal, DeskTypeOK, AtRow, IntentRow
<1>2. /\ "system" \notin sent[o] /\ SystemsCase(o)
      /\ \A q \in TradingRuns : at[q].pc = "submitting" => at[q].id # o
  BY <1>1 DEF CancelInv, SentOnce, SystemsCase, ClaimsStand, Sending
<1>3. IdsReal' /\ RowsSettle' /\ WithdrawalsRecorded'
  BY <1>1 DEF CancelInv, IdsReal, RowsSettle, WithdrawalsRecorded, Cancelling, Sending, Terminal
<1>4. ClaimsStand'
  <2>1. ASSUME NEW q \in TradingRuns, at'[q].pc \in Sending, q # r
        PROVE  /\ intent'[at'[q].id].state # "NONE"
               /\ at'[q].pc = "submitting" =>
                    /\ intent'[at'[q].id].state # "REQUIRED" /\ "system" \notin sent'[at'[q].id]
                    /\ \A x \in TradingRuns :
                         at'[x].pc = "submitting" /\ at'[x].id = at'[q].id => x = q
    <3>1. at'[q] = at[q] /\ at[q].id \in Calls
      BY <1>1, <2>1 DEF CancelInv, IdsReal
    <3>2. at[q].pc = "submitting" => at[q].id # o
      BY <1>2
    <3>3. intent'[at[q].id].state \in {intent[at[q].id].state, "SUBMITTING"}
      BY <1>1, <3>1
    <3>4. \A x \in TradingRuns : x # r /\ at'[x].pc = "submitting" => at'[x] = at[x]
      BY <1>1
    <3>5. intent[at[q].id].state # "NONE" /\ at[q].pc \in Sending
      BY <2>1, <3>1 DEF CancelInv, ClaimsStand
    <3>6. ASSUME at[q].pc = "submitting"
          PROVE  /\ intent'[at[q].id].state # "REQUIRED" /\ "system" \notin sent'[at[q].id]
                 /\ \A x \in TradingRuns : at'[x].pc = "submitting" /\ at'[x].id = at[q].id => x = q
      <4>1. /\ intent[at[q].id].state # "REQUIRED" /\ "system" \notin sent[at[q].id]
            /\ \A x \in TradingRuns : at[x].pc = "submitting" /\ at[x].id = at[q].id => x = q
        BY <3>5, <3>6 DEF CancelInv, ClaimsStand
      <4>2. \A x \in TradingRuns : at'[x].id = at[q].id /\ at'[x].pc = "submitting" => x # r
        BY <1>1, <3>2, <3>6
      <4> QED BY <3>3, <3>4, <4>1, <4>2
    <3> QED BY <3>1, <3>3, <3>5, <3>6
  <2>2. /\ intent'[at'[r].id].state \notin {"NONE", "REQUIRED"}
        /\ "system" \notin sent'[at'[r].id]
        /\ \A x \in TradingRuns : at'[x].pc = "submitting" /\ at'[x].id = at'[r].id => x = r
    BY <1>1, <1>2
  <2> QED BY <2>1, <2>2 DEF ClaimsStand
<1>5. SentOnce'
  BY <1>1, <1>2 DEF CancelInv, SentOnce
<1>6. \A p \in Calls : SystemsCase(p)' => SystemsCase(p)
  BY <1>1, <1>2 DEF SystemsCase
<1>7. SendersApart'
  BY <1>1, <1>6 DEF CancelInv, SendersApart
<1> QED BY <1>3, <1>4, <1>5, <1>7 DEF CancelInv

\* The end of a claim that was not sent frees the row for another claim.
LEMMA NotSentInv ==
  ASSUME DeskTypeOK, CancelInv, NEW r \in TradingRuns, NotSent(r)
  PROVE  CancelInv'
<1> DEFINE o == at[r].id
<1>1. /\ o \in Calls /\ at[r].pc = "submitting" /\ at'[r].pc = "confirming" /\ at'[r].id = o
      /\ \A q \in TradingRuns : q # r => at'[q] = at[q]
      /\ intent'[o].state \in Terminal => intent[o].state \in Terminal
      /\ intent'[o].state # "NONE"
      /\ \A p \in Calls : p # o => intent'[p] = intent[p]
      /\ UNCHANGED <<order, sent, withdrawal>>
  <2>1. o \in Calls /\ at[r].pc = "submitting" /\ intent[o].state # "NONE"
    BY DEF CancelInv, IdsReal, NotSent, Sending, ClaimsStand
  <2>2. at'[r].pc = "confirming" /\ at'[r].id = o /\ \A q \in TradingRuns : q # r => at'[q] = at[q]
    BY DEF NotSent, DeskTypeOK, AtRow
  <2>3. \/ UNCHANGED intent
        \/ intent' = [intent EXCEPT ![o].state = "REQUIRED"]
    BY DEF NotSent, Finished
  <2>4. /\ intent'[o].state \in {intent[o].state, "REQUIRED"}
        /\ \A p \in Calls : p # o => intent'[p] = intent[p]
    <3>1. intent[o] \in IntentRow
      BY <2>1 DEF DeskTypeOK
    <3>2. CASE intent' = [intent EXCEPT ![o].state = "REQUIRED"]
      BY <2>1, <3>1, <3>2 DEF DeskTypeOK, IntentRow
    <3> QED BY <2>3, <3>2
  <2>5. UNCHANGED <<order, sent, withdrawal>>
    BY DEF NotSent
  <2> QED BY <2>1, <2>2, <2>4, <2>5 DEF Terminal
<1>2. /\ "system" \notin sent[o] /\ SystemsCase(o)
      /\ \A q \in TradingRuns : at[q].pc = "submitting" /\ at[q].id = o => q = r
  BY <1>1 DEF CancelInv, ClaimsStand, SystemsCase, Sending
<1>3. IdsReal' /\ RowsSettle' /\ WithdrawalsRecorded'
  BY <1>1 DEF CancelInv, IdsReal, RowsSettle, WithdrawalsRecorded, Cancelling, Sending
<1>4. ClaimsStand'
  <2>1. ASSUME NEW q \in TradingRuns, at'[q].pc \in Sending
        PROVE  /\ intent'[at'[q].id].state # "NONE"
               /\ at'[q].pc = "submitting" =>
                    /\ intent'[at'[q].id].state # "REQUIRED" /\ "system" \notin sent'[at'[q].id]
                    /\ \A x \in TradingRuns :
                         at'[x].pc = "submitting" /\ at'[x].id = at'[q].id => x = q
    <3>1. q # r /\ at'[q] = at[q] /\ at[q].id \in Calls
      BY <1>1, <2>1 DEF CancelInv, IdsReal, Sending
    <3>2. \A x \in TradingRuns : at'[x].pc = "submitting" => at'[x] = at[x]
      BY <1>1
    <3> QED BY <1>1, <1>2, <2>1, <3>1, <3>2 DEF CancelInv, ClaimsStand
  <2> QED BY <2>1 DEF ClaimsStand
<1>5. SentOnce'
  BY <1>1, <1>2 DEF CancelInv, SentOnce
<1>6. \A p \in Calls : SystemsCase(p)' => SystemsCase(p)
  BY <1>1, <1>2 DEF SystemsCase
<1>7. SendersApart'
  BY <1>1, <1>6 DEF CancelInv, SendersApart
<1> QED BY <1>3, <1>4, <1>5, <1>7 DEF CancelInv

\* The system sends while its claim stands, once.
LEMMA SystemCancelInv ==
  ASSUME DeskTypeOK, CancelInv, NEW r \in TradingRuns, SystemCancel(r)
  PROVE  CancelInv'
<1> DEFINE o == at[r].id
<1>1. /\ o \in Calls /\ at[r].pc = "submitting"
      /\ "system" \notin sent[o] /\ SystemsCase(o)
      /\ intent[o].state \notin {"NONE", "REQUIRED"}
      /\ \A q \in TradingRuns : at[q].pc = "submitting" /\ at[q].id = o => q = r
  <2>1. o \in Calls /\ at[r].pc = "submitting"
    BY DEF SystemCancel, CancelInv, IdsReal, Sending
  <2> QED BY <2>1 DEF CancelInv, ClaimsStand, SystemsCase, Sending
<1>2. /\ at'[r].pc = "submitted" /\ at'[r].id = o
      /\ \A q \in TradingRuns : q # r => at'[q] = at[q]
      /\ UNCHANGED <<intent, withdrawal>>
  BY DEF SystemCancel, DeskTypeOK, AtRow
<1>3. sent'[o] = sent[o] \cup {"system"} /\ \A p \in Calls : p # o => sent'[p] = sent[p]
  BY <1>1 DEF SystemCancel, Sent, DeskTypeOK
<1>4. \A p \in Calls : order[p].status \in Final => order'[p].status \in Final
  <2>1. order' = order \/ (order' = Withdrawn(o) /\ order[o].status = "PENDING")
    BY DEF SystemCancel
  <2> QED BY <2>1 DEF Withdrawn, DeskTypeOK, Final
<1>5. IdsReal' /\ RowsSettle'
  BY <1>1, <1>2, <1>4 DEF CancelInv, IdsReal, RowsSettle, Cancelling, Sending
<1>6. WithdrawalsRecorded'
  <2>1. \A p \in Calls : "model" \in sent'[p] <=> "model" \in sent[p]
    BY <1>3
  <2> QED BY <1>2, <2>1 DEF CancelInv, WithdrawalsRecorded, Cancelling
<1>7. ClaimsStand'
  <2>1. ASSUME NEW q \in TradingRuns, at'[q].pc \in Sending, q # r
        PROVE  /\ intent'[at'[q].id].state # "NONE"
               /\ at'[q].pc = "submitting" =>
                    /\ intent'[at'[q].id].state # "REQUIRED" /\ "system" \notin sent'[at'[q].id]
                    /\ \A x \in TradingRuns :
                         at'[x].pc = "submitting" /\ at'[x].id = at'[q].id => x = q
    <3>1. at'[q] = at[q] /\ at[q].id \in Calls
      BY <1>2, <2>1 DEF CancelInv, IdsReal
    <3>2. \A x \in TradingRuns : at'[x].pc = "submitting" => at'[x] = at[x]
      BY <1>2
    <3>3. at[q].pc = "submitting" => at[q].id # o
      BY <1>1, <2>1
    <3> QED BY <1>2, <1>3, <2>1, <3>1, <3>2, <3>3 DEF CancelInv, ClaimsStand
  <2>2. at'[r].pc # "submitting" /\ intent'[at'[r].id].state # "NONE"
    BY <1>1, <1>2
  <2> QED BY <2>1, <2>2 DEF ClaimsStand
<1>8. SentOnce'
  <2>1. "system again" \notin sent'[o]
    BY <1>1, <1>3 DEF CancelInv, SentOnce
  <2>2. ASSUME NEW p \in Calls, p # o
        PROVE  /\ "system" \in sent'[p] => intent'[p].state \notin {"NONE", "REQUIRED"}
               /\ "system again" \notin sent'[p]
    BY <1>2, <1>3, <2>2 DEF CancelInv, SentOnce
  <2> QED BY <1>1, <1>2, <2>1, <2>2 DEF SentOnce
<1>9. \A p \in Calls : SystemsCase(p)' => SystemsCase(p)
  BY <1>1, <1>2, <1>3 DEF SystemsCase
<1>10. SendersApart'
  <2>1. \A p \in Calls : "model" \in sent'[p] => ~SystemsCase(p)'
    BY <1>3, <1>9 DEF CancelInv, SendersApart
  <2> QED BY <1>2, <1>4, <1>9, <2>1 DEF CancelInv, SendersApart
<1> QED BY <1>5, <1>6, <1>7, <1>8, <1>10 DEF CancelInv

\* The answer is noted; a row settled meanwhile stays settled.
LEMMA FinishCancelInv ==
  ASSUME DeskTypeOK, CancelInv, NEW r \in TradingRuns, FinishCancel(r)
  PROVE  CancelInv'
<1> DEFINE o == at[r].id
<1>1. o \in Calls /\ at[r].pc = "submitted" /\ intent[o].state # "NONE"
  BY DEF CancelInv, IdsReal, FinishCancel, Sending, ClaimsStand
<1>2. at'[r].pc = "confirming" /\ at'[r].id = o /\ \A q \in TradingRuns : q # r => at'[q] = at[q]
  BY DEF FinishCancel, DeskTypeOK, AtRow
<1>3. \/ UNCHANGED intent
      \/ intent' = [intent EXCEPT ![o].state = "SUBMITTED"]
      \/ intent' = [intent EXCEPT ![o].state = "UNKNOWN"]
  BY DEF FinishCancel, Finished
<1>4. ASSUME NEW p \in Calls
      PROVE  \/ intent'[p] = intent[p]
             \/ p = o /\ intent'[p].state \in {"SUBMITTED", "UNKNOWN"}
  <2>1. intent[o] \in IntentRow
    BY <1>1 DEF DeskTypeOK
  <2>2. ASSUME NEW state \in {"SUBMITTED", "UNKNOWN"}, intent' = [intent EXCEPT ![o].state = state]
        PROVE  intent'[p] = intent[p] \/ (p = o /\ intent'[p].state = state)
    BY <2>1, <2>2 DEF DeskTypeOK, IntentRow
  <2> QED BY <1>3, <2>2
<1>5. UNCHANGED <<order, sent, withdrawal>>
  BY DEF FinishCancel
<1>6. IdsReal' /\ RowsSettle' /\ WithdrawalsRecorded'
  BY <1>1, <1>2, <1>4, <1>5 DEF CancelInv, IdsReal, RowsSettle, WithdrawalsRecorded, Cancelling,
     Sending, Terminal
<1>7. ClaimsStand'
  <2>1. ASSUME NEW q \in TradingRuns, at'[q].pc \in Sending
        PROVE  /\ intent'[at'[q].id].state # "NONE"
               /\ at'[q].pc = "submitting" =>
                    /\ intent'[at'[q].id].state # "REQUIRED" /\ "system" \notin sent'[at'[q].id]
                    /\ \A x \in TradingRuns :
                         at'[x].pc = "submitting" /\ at'[x].id = at'[q].id => x = q
    <3>1. q # r /\ at'[q] = at[q] /\ at[q].id \in Calls
      BY <1>2, <2>1 DEF CancelInv, IdsReal, Sending
    <3>2. \A x \in TradingRuns : at'[x].pc = "submitting" => at'[x] = at[x]
      BY <1>2
    <3>3. intent'[at[q].id].state \in {intent[at[q].id].state, "SUBMITTED", "UNKNOWN"}
      BY <1>4, <3>1
    <3> QED BY <1>5, <2>1, <3>1, <3>2, <3>3 DEF CancelInv, ClaimsStand
  <2> QED BY <2>1 DEF ClaimsStand
<1>8. SentOnce'
  BY <1>4, <1>5 DEF CancelInv, SentOnce
<1>9. \A p \in Calls : SystemsCase(p)' => SystemsCase(p)
  BY <1>2, <1>4, <1>5 DEF SystemsCase
<1>10. SendersApart'
  BY <1>2, <1>5, <1>9 DEF CancelInv, SendersApart
<1> QED BY <1>6, <1>7, <1>8, <1>10 DEF CancelInv


\* What a run that starts, declares, gives up, is answered or dies leaves alone.
LEMMA QuietTurns ==
  ASSUME DeskTypeOK, NEW r \in TradingRuns,
         StartRun(r) \/ DeclareCap(r) \/ RefuseBuy(r) \/ BuyAnswered(r) \/ Die(r)
  PROVE  /\ at'[r] = at[r] \/ at'[r].pc \in {"free", "dead"}
         /\ \A q \in TradingRuns : q # r => at'[q] = at[q]
         /\ lock' = lock \/ (lock = r /\ at'[r].pc \in {"free", "dead"})
         /\ UNCHANGED <<order, review, call, withdrawal, intent, sent>>
<1>1. CASE StartRun(r)
  BY <1>1 DEF StartRun, DeskTypeOK, Free
<1>2. CASE DeclareCap(r)
  BY <1>2 DEF DeclareCap
<1>3. CASE RefuseBuy(r) \/ BuyAnswered(r)
  <2>1. BuyEnds(r)
    BY <1>3 DEF RefuseBuy, BuyAnswered
  <2>2. at'[r].pc = "free" /\ \A q \in TradingRuns : q # r => at'[q] = at[q]
    BY <2>1 DEF BuyEnds, DeskTypeOK, Free
  <2> QED BY <2>1, <2>2 DEF BuyEnds
<1>4. CASE Die(r)
  BY <1>4 DEF Die, DeskTypeOK, Free
<1> QED BY <1>1, <1>2, <1>3, <1>4

\* A cycle that reads, looks, or is done with an order.
LooksOn(r) ==
  CycleRead(r) \/ ActCheck(r) \/ ActTooLate(r) \/ ConfirmCancel(r) \/ CycleEnds(r)

\* What a cycle that reads, looks, or is done with an order leaves alone.
LEMMA LookingTurns ==
  ASSUME DeskTypeOK, NEW r \in TradingRuns, LooksOn(r),
         at[r].pc = "confirming" => at[r].id \in Calls
  PROVE  /\ \/ at'[r].pc \in {"auditing", "acting", "free"}
            \/ at'[r].pc = "claiming" /\ at'[r].id \in Calls
         /\ at[r].pc \in {"free", "acting", "claiming", "confirming"}
         /\ \A q \in TradingRuns : q # r => at'[q] = at[q]
         /\ \A o \in Calls : \/ intent'[o] = intent[o]
                             \/ intent'[o] = Reconciled(intent[o], order[o].status)
         /\ UNCHANGED <<order, lock, review, call, withdrawal, sent>>
<1>1. at[r].todo \in SUBSET Calls
  BY DEF DeskTypeOK, AtRow
<1>2. CASE CycleRead(r)
  BY <1>2 DEF CycleRead, DeskTypeOK, Free
<1>3. CASE ActCheck(r)
  <2>1. Next1(r) \in Calls
    BY <1>1, <1>3, MinOfNats, TradeAssumption DEF ActCheck, Next1
  <2>2. /\ Passed(r).pc = "acting"
        /\ Acting(r, "claiming").pc = "claiming" /\ Acting(r, "claiming").id = Next1(r)
    BY DEF Passed, Acting, Free, DeskTypeOK, AtRow
  <2>3. at'[r] \in {Passed(r), Acting(r, "claiming")}
        /\ \A q \in TradingRuns : q # r => at'[q] = at[q]
    BY <1>3 DEF ActCheck, DeskTypeOK
  <2>4. \A o \in Calls : \/ intent'[o] = intent[o]
                         \/ intent'[o] = Reconciled(intent[o], order[o].status)
    BY <1>3, <2>1 DEF ActCheck, DeskTypeOK
  <2> QED BY <1>3, <2>1, <2>2, <2>3, <2>4 DEF ActCheck
<1>4. CASE ActTooLate(r)
  BY <1>4 DEF ActTooLate, DeskTypeOK, Passed, Free
<1>5. CASE ConfirmCancel(r)
  <2>1. \A o \in Calls : \/ intent'[o] = intent[o]
                         \/ intent'[o] = Reconciled(intent[o], order[o].status)
    BY <1>5 DEF ConfirmCancel, DeskTypeOK
  <2> QED BY <1>5, <2>1 DEF ConfirmCancel, DeskTypeOK, Passed, Free
<1>6. CASE CycleEnds(r)
  BY <1>6 DEF CycleEnds, DeskTypeOK, Free
<1> QED BY <1>2, <1>3, <1>4, <1>5, <1>6 DEF LooksOn

\* What the other steps of a cycle and of the model's cancel leave alone.
LEMMA ActingTurns ==
  ASSUME DeskTypeOK, IdsReal, NEW r \in TradingRuns,
         \/ CycleEnsure(r) \/ ActClaim(r) \/ NotSent(r) \/ SystemCancel(r) \/ FinishCancel(r)
         \/ CheckCancel(r) \/ SendCancel(r) \/ RefuseCancel(r)
         \/ \E o \in Calls : AskCancel(r, o)
  PROVE  /\ at[r].pc \notin Buying /\ at'[r].pc \notin Buying
         /\ \A q \in TradingRuns : q # r => at'[q] = at[q]
         /\ \A o \in Calls : /\ order'[o].price = order[o].price
                             /\ order[o].status = "NONE" => order'[o].status = "NONE"
         /\ UNCHANGED <<lock, review, call>>
<1>1. \A o \in Calls, p \in Calls :
        order[o].status = "PENDING" =>
          /\ Withdrawn(o)[p].price = order[p].price
          /\ order[p].status = "NONE" => Withdrawn(o)[p].status = "NONE"
  BY DEF Withdrawn, DeskTypeOK, OrderRow
<1>2. CASE CycleEnsure(r)
  <2>1. PICK failed \in SUBSET at[r].todo :
          at' = [at EXCEPT ![r] = [Free EXCEPT !.pc = "acting",
                                               !.todo = at[r].touched \cup failed]]
    BY <1>2 DEF CycleEnsure
  <2>2. at'[r].pc = "acting" /\ \A q \in TradingRuns : q # r => at'[q] = at[q]
    BY <2>1 DEF DeskTypeOK, Free
  <2> QED BY <1>2, <2>2 DEF CycleEnsure, Buying
<1>3. CASE ActClaim(r)
  <2>1. Passed(r).pc = "acting"
    BY DEF Passed, Free
  <2>2. /\ at'[r].pc \in {"submitting", "acting"}
        /\ \A q \in TradingRuns : q # r => at'[q] = at[q]
    <3>1. CASE at' = [at EXCEPT ![r].pc = "submitting"]
      BY <3>1 DEF DeskTypeOK, AtRow
    <3>2. CASE at' = [at EXCEPT ![r] = Passed(r)]
      BY <2>1, <3>2 DEF DeskTypeOK
    <3> QED BY <1>3, <3>1, <3>2 DEF ActClaim
  <2> QED BY <1>3, <2>2 DEF ActClaim, Buying
<1>4. CASE NotSent(r) \/ FinishCancel(r)
  <2>1. at' = [at EXCEPT ![r].pc = "confirming"]
    BY <1>4 DEF NotSent, FinishCancel
  <2>2. /\ at'[r].pc = "confirming"
        /\ \A q \in TradingRuns : q # r => at'[q] = at[q]
    BY <2>1 DEF DeskTypeOK, AtRow
  <2> QED BY <1>4, <2>2 DEF NotSent, FinishCancel, Buying
<1>5. CASE SystemCancel(r)
  <2>1. order' = order \/ (order' = Withdrawn(at[r].id) /\ order[at[r].id].status = "PENDING")
    BY <1>5 DEF SystemCancel
  <2>2. at[r].id \in Calls
    BY <1>5 DEF SystemCancel, IdsReal, Sending
  <2>3. at'[r].pc = "submitted" /\ \A q \in TradingRuns : q # r => at'[q] = at[q]
    BY <1>5 DEF SystemCancel, DeskTypeOK, AtRow
  <2>4. at[r].pc = "submitting" /\ UNCHANGED <<lock, review, call>>
    BY <1>5 DEF SystemCancel
  <2> QED BY <1>1, <2>1, <2>2, <2>3, <2>4 DEF Buying
<1>6. CASE CheckCancel(r)
  BY <1>6 DEF CheckCancel, DeskTypeOK, AtRow, Buying
<1>7. CASE SendCancel(r)
  <2>1. order' \in {order, Withdrawn(at[r].id)} /\ order[at[r].id].status = "PENDING"
    BY <1>7 DEF SendCancel
  <2>2. at[r].id \in Calls
    BY <1>7 DEF SendCancel, IdsReal, Cancelling
  <2>3. at' = [at EXCEPT ![r] = Free]
    BY <1>7 DEF SendCancel, CancelEnds
  <2>4. at'[r].pc = "free" /\ \A q \in TradingRuns : q # r => at'[q] = at[q]
    BY <2>3 DEF DeskTypeOK, Free
  <2> QED BY <1>1, <1>7, <2>1, <2>2, <2>4 DEF SendCancel, Buying
<1>8. CASE RefuseCancel(r)
  BY <1>8 DEF RefuseCancel, CancelEnds, DeskTypeOK, Free, Buying
<1>9. ASSUME NEW o \in Calls, AskCancel(r, o)
      PROVE  /\ at[r].pc \notin Buying /\ at'[r].pc \notin Buying
             /\ \A q \in TradingRuns : q # r => at'[q] = at[q]
             /\ UNCHANGED <<order, lock, review, call>>
  BY <1>9 DEF AskCancel, DeskTypeOK, Does, Free, Buying
<1> QED BY <1>2, <1>3, <1>4, <1>5, <1>6, <1>7, <1>8, <1>9

\* The broker moves what was placed, to where nothing is placed or done again.
LEMMA BrokerTurns ==
  ASSUME DeskTypeOK, NEW o \in Calls, BrokerMoves(o)
  PROVE  /\ \A p \in Calls : /\ order'[p].price = order[p].price
                             /\ order[p].status = "NONE" => order'[p].status = "NONE"
                             /\ order[p].status \in Final => order'[p].status \in Final
         /\ \A p \in Calls : order'[p].status # "IN_FLIGHT" \/ order[p].status = "IN_FLIGHT"
         /\ UNCHANGED <<lock, review, call, withdrawal, intent, sent, at>>
<1>1. PICK step \in BrokerStep(o) :
        /\ order[o].status = step.from
        /\ order' = [order EXCEPT ![o].status = step.to, ![o].late = @ \/ Stray(o)]
  BY DEF BrokerMoves
<1>2. /\ step.from \in {"IN_FLIGHT", "PENDING", "PENDING_CANCEL"}
      /\ step.to \in {"NONE", "PENDING", "PENDING_CANCEL", "FILLED", "CANCELLED"}
  BY DEF BrokerStep
<1>3. /\ order'[o].status = step.to /\ order'[o].price = order[o].price
      /\ \A p \in Calls : p # o => order'[p] = order[p]
  BY ZenonT(30), <1>1 DEF DeskTypeOK, OrderRow
<1> QED BY <1>1, <1>2, <1>3 DEF BrokerMoves, Final


------------------------------------------------------------------------------
(* The lock between the checks of a buy and the audits. *)

Checking == {"locked", "checked"}

\* Who checks a buy holds the lock, and from then on no cancellation of the
\* system can come up.
Guarded == \A r \in TradingRuns : at[r].pc \in Checking =>
             lock = r /\ \A o \in Calls : intent[o].state \notin Managed

DeskInv == DeskTypeOK /\ LedgerInv /\ CancelInv /\ Guarded

\* A step that takes no lock and requires no cancellation.
LEMMA GuardRests ==
  ASSUME Guarded,
         \A q \in TradingRuns : at'[q].pc \in Checking =>
           at[q].pc \in Checking /\ (lock = q => lock' = q),
         \A o \in Calls : intent'[o].state \in Managed => intent[o].state \in Managed
  PROVE  Guarded'
BY DEF Guarded

\* Runs that start, declare, give up, are answered or die.
LEMMA QuietInv ==
  ASSUME DeskInv, NEW r \in TradingRuns,
         StartRun(r) \/ DeclareCap(r) \/ RefuseBuy(r) \/ BuyAnswered(r) \/ Die(r)
  PROVE  LedgerInv' /\ CancelInv' /\ Guarded'
<1>1. /\ at'[r] = at[r] \/ at'[r].pc \in {"free", "dead"}
      /\ \A q \in TradingRuns : q # r => at'[q] = at[q]
      /\ lock' = lock \/ (lock = r /\ at'[r].pc \in {"free", "dead"})
      /\ UNCHANGED <<order, review, call, withdrawal, intent, sent>>
  BY QuietTurns DEF DeskInv
<1>2. LedgerInv'
  BY <1>1, LedgerRests DEF DeskInv, Buying
<1>3. CancelInv'
  <2>1. ASSUME NEW q \in TradingRuns,
               at'[q].pc \in Cancelling \cup Sending \cup {"claiming", "confirming"}
        PROVE  at'[q] = at[q]
    BY <1>1, <2>1 DEF Cancelling, Sending
  <2> QED BY <1>1, <2>1, CancelsRest DEF DeskInv
<1>4. Guarded'
  <2>1. ASSUME NEW q \in TradingRuns, at'[q].pc \in Checking
        PROVE  at[q].pc \in Checking /\ (lock = q => lock' = q)
    BY <1>1, <2>1 DEF Checking
  <2> QED BY <1>1, <2>1, GuardRests DEF DeskInv
<1> QED BY <1>2, <1>3, <1>4

\* Cycles that read, look, or are done with an order.
LEMMA LookingInv ==
  ASSUME DeskInv, NEW r \in TradingRuns, LooksOn(r)
  PROVE  LedgerInv' /\ CancelInv' /\ Guarded'
<1>0. at[r].pc = "confirming" => at[r].id \in Calls
  BY DEF DeskInv, CancelInv, IdsReal
<1>1. /\ \/ at'[r].pc \in {"auditing", "acting", "free"}
         \/ at'[r].pc = "claiming" /\ at'[r].id \in Calls
      /\ at[r].pc \in {"free", "acting", "claiming", "confirming"}
      /\ \A q \in TradingRuns : q # r => at'[q] = at[q]
      /\ \A o \in Calls : \/ intent'[o] = intent[o]
                          \/ intent'[o] = Reconciled(intent[o], order[o].status)
      /\ UNCHANGED <<order, lock, review, call, withdrawal, sent>>
  BY <1>0, LookingTurns DEF DeskInv
<1>2. ASSUME NEW o \in Calls
      PROVE  /\ intent'[o].state = "NONE" => intent[o].state = "NONE"
             /\ intent'[o].state = "REQUIRED" => intent[o].state = "REQUIRED"
             /\ intent'[o].state \in Terminal =>
                  intent[o].state \in Terminal \/ order[o].status \in Final
             /\ intent'[o].state \in Managed => intent[o].state \in Managed
  <2>1. intent[o] \in IntentRow
    BY DEF DeskInv, DeskTypeOK
  <2>2. CASE intent'[o] = intent[o]
    BY <2>2
  <2>3. CASE intent'[o] = Reconciled(intent[o], order[o].status)
    BY <2>1, <2>3, ReconciledRow DEF Final
  <2> QED BY <1>1, <2>2, <2>3
<1>3. LedgerInv'
  BY <1>1, LedgerRests DEF DeskInv, Buying
<1>4. CancelInv'
  <2>1. ASSUME NEW q \in TradingRuns,
               at'[q].pc \in Cancelling \cup Sending \cup {"claiming", "confirming"}
        PROVE  \/ at'[q].pc = at[q].pc /\ at'[q].id = at[q].id
               \/ at'[q].pc = "claiming" /\ at'[q].id \in Calls
    BY <1>1, <2>1 DEF Cancelling, Sending
  <2> QED BY <1>1, <1>2, <2>1, CancelsRest DEF DeskInv
<1>5. Guarded'
  <2>1. ASSUME NEW q \in TradingRuns, at'[q].pc \in Checking
        PROVE  at[q].pc \in Checking /\ (lock = q => lock' = q)
    BY <1>1, <2>1 DEF Checking
  <2> QED BY <1>2, <2>1, GuardRests DEF DeskInv
<1> QED BY <1>3, <1>4, <1>5

\* Cancellations, by the system and by the model.
LEMMA ActingInv ==
  ASSUME DeskInv, NEW r \in TradingRuns,
         \/ CycleEnsure(r) \/ ActClaim(r) \/ NotSent(r) \/ SystemCancel(r) \/ FinishCancel(r)
         \/ CheckCancel(r) \/ SendCancel(r) \/ RefuseCancel(r)
         \/ \E o \in Calls : AskCancel(r, o)
  PROVE  LedgerInv' /\ CancelInv' /\ Guarded'
<1>1. /\ at[r].pc \notin Buying /\ at'[r].pc \notin Buying
      /\ \A q \in TradingRuns : q # r => at'[q] = at[q]
      /\ \A o \in Calls : /\ order'[o].price = order[o].price
                          /\ order[o].status = "NONE" => order'[o].status = "NONE"
      /\ UNCHANGED <<lock, review, call>>
  BY ActingTurns DEF DeskInv, CancelInv
<1>2. LedgerInv'
  <2>1. \A q \in TradingRuns : at'[q].pc \in Buying => at'[q] = at[q]
    BY <1>1
  <2> QED BY <1>1, <2>1, LedgerRests DEF DeskInv
<1>3. CancelInv'
  <2>1. CASE ActClaim(r)
    <3>1. CASE intent[at[r].id].state = "REQUIRED"
      BY <2>1, <3>1, ClaimInv DEF ActClaim, DeskInv
    <3>2. CASE intent[at[r].id].state # "REQUIRED"
      <4>1. ActTooLate(r)
        BY <2>1, <3>2 DEF ActClaim, ActTooLate
      <4> QED BY <4>1, LookingInv DEF LooksOn
    <3> QED BY <3>1, <3>2
  <2>2. CASE \E o \in Calls : AskCancel(r, o)
    BY <2>2, AskCancelInv DEF DeskInv
  <2> QED BY <2>1, <2>2, EnsureInv, NotSentInv, SystemCancelInv, FinishCancelInv,
             CheckCancelInv, CancelEndsInv DEF DeskInv
<1>4. \A q \in TradingRuns : at'[q].pc \in Checking => at'[q] = at[q] /\ at[q].pc \in Checking
  BY <1>1 DEF Checking, Buying
<1>7. \A q \in TradingRuns :
        at'[q].pc \in Checking => at[q].pc \in Checking /\ (lock = q => lock' = q)
  BY <1>1, <1>4
<1>5. CASE CycleEnsure(r)
  <2>1. \A q \in TradingRuns : at[q].pc \notin Checking
    BY <1>5, TradeAssumption DEF CycleEnsure, DeskInv, Guarded, Nobody
  <2> QED BY <1>2, <1>3, <1>4, <2>1 DEF Guarded
<1>6. CASE ~CycleEnsure(r)
  <2>1. CASE \/ SystemCancel(r) \/ CheckCancel(r) \/ SendCancel(r) \/ RefuseCancel(r)
             \/ \E o \in Calls : AskCancel(r, o)
    <3>1. UNCHANGED intent
      BY <2>1 DEF SystemCancel, CheckCancel, SendCancel, RefuseCancel, AskCancel
    <3>2. \A p \in Calls : intent'[p].state \in Managed => intent[p].state \in Managed
      BY <3>1
    <3> QED BY <1>2, <1>3, <1>7, <3>2, GuardRests DEF DeskInv
  <2>2. CASE ActClaim(r) \/ NotSent(r) \/ FinishCancel(r)
    <3> DEFINE o == at[r].id
    <3>1. o \in Calls /\ (NotSent(r) \/ FinishCancel(r) => intent[o].state # "NONE")
      BY <2>2 DEF ActClaim, NotSent, FinishCancel, DeskInv, CancelInv, IdsReal, ClaimsStand,
                  Sending
    <3>2. intent'[o].state = intent[o].state \/ intent[o].state \in Managed
      <4>1. intent[o].state \in IntentState
        BY <3>1 DEF DeskInv, DeskTypeOK, IntentRow
      <4>2. CASE ActClaim(r)
        BY <4>2 DEF ActClaim, Managed, IntentState
      <4>3. CASE NotSent(r) \/ FinishCancel(r)
        <5>1. CASE intent[o].state \in Terminal
          BY <4>3, <5>1 DEF NotSent, FinishCancel, Finished
        <5>2. CASE intent[o].state \notin Terminal
          BY <3>1, <4>1, <4>3, <5>2 DEF Managed, Terminal
        <5> QED BY <5>1, <5>2
      <4> QED BY <2>2, <4>2, <4>3
    <3>3. \A p \in Calls : p # o => intent'[p] = intent[p]
      <4>1. CASE ActClaim(r)
        <5>1. \/ UNCHANGED intent
              \/ intent' = [intent EXCEPT ![o].state = "SUBMITTING", ![o].request = r]
          BY <4>1 DEF ActClaim
        <5> QED BY <5>1 DEF DeskInv, DeskTypeOK
      <4>2. CASE NotSent(r) \/ FinishCancel(r)
        <5>1. \/ UNCHANGED intent
              \/ intent' = [intent EXCEPT ![o].state = "REQUIRED"]
              \/ intent' = [intent EXCEPT ![o].state = "SUBMITTED"]
              \/ intent' = [intent EXCEPT ![o].state = "UNKNOWN"]
          BY <4>2 DEF NotSent, FinishCancel, Finished
        <5> QED BY <5>1 DEF DeskInv, DeskTypeOK
      <4> QED BY <2>2, <4>1, <4>2
    <3>4. \A p \in Calls : intent'[p].state \in Managed => intent[p].state \in Managed
      BY <3>2, <3>3
    <3> QED BY <1>2, <1>3, <1>7, <3>4, GuardRests DEF DeskInv
  <2> QED BY <1>6, <2>1, <2>2
<1> QED BY <1>5, <1>6

\* The broker's moves.
LEMMA BrokerInv ==
  ASSUME DeskInv, NEW o \in Calls, BrokerMoves(o)
  PROVE  LedgerInv' /\ CancelInv' /\ Guarded'
<1>1. /\ \A p \in Calls : /\ order'[p].price = order[p].price
                          /\ order[p].status = "NONE" => order'[p].status = "NONE"
                          /\ order[p].status \in Final => order'[p].status \in Final
      /\ UNCHANGED <<lock, review, call, withdrawal, intent, sent, at>>
  BY BrokerTurns DEF DeskInv
<1>2. LedgerInv'
  BY <1>1, LedgerRests DEF DeskInv
<1>3. CancelInv'
  BY <1>1, CancelsRest DEF DeskInv
<1> QED BY <1>1, <1>2, <1>3 DEF DeskInv, Guarded

\* A buy, from its review to the order.
LEMMA BuyingInv ==
  ASSUME DeskInv, NEW r \in TradingRuns,
         \/ \E v \in Reviews : PrepareBuy(r, v)
         \/ \E c \in Calls, v \in Reviews : AskBuy(r, c, v)
         \/ LockBuy(r) \/ CheckBuy(r) \/ SendBuy(r)
  PROVE  LedgerInv' /\ CancelInv' /\ Guarded'
<1>1. LedgerInv'
  BY PrepareLedger, AskBuyLedger, LockLedger, SendLedger DEF DeskInv
<1>2. /\ \A q \in TradingRuns : q # r => at'[q] = at[q]
      /\ at'[r] = at[r] \/ at'[r].pc \in Buying
      /\ UNCHANGED <<withdrawal, intent, sent>>
  <2>1. CASE \E v \in Reviews : PrepareBuy(r, v)
    BY <2>1 DEF PrepareBuy
  <2>2. CASE \E c \in Calls, v \in Reviews : AskBuy(r, c, v)
    <3>1. PICK c \in Calls, v \in Reviews : AskBuy(r, c, v)
      BY <2>2
    <3> QED BY <3>1 DEF AskBuy, DeskInv, DeskTypeOK, Does, Free, Buying
  <2>3. CASE LockBuy(r)
    BY <2>3 DEF LockBuy, DeskInv, DeskTypeOK, Does, Free, Buying
  <2>4. CASE CheckBuy(r)
    BY <2>4 DEF CheckBuy, DeskInv, DeskTypeOK, AtRow, Buying
  <2>5. CASE SendBuy(r)
    <3>1. at' = [at EXCEPT ![r].pc = "sent"] /\ UNCHANGED <<withdrawal, intent, sent>>
      BY <2>5 DEF SendBuy
    <3> QED BY <3>1 DEF DeskInv, DeskTypeOK, AtRow, Buying
  <2> QED BY <2>1, <2>2, <2>3, <2>4, <2>5
<1>3. \A o \in Calls : order[o].status \in Final => order'[o].status \in Final
  <2>1. CASE SendBuy(r)
    <3>1. at[r].id \in Calls /\ order[at[r].id].status = "NONE"
      BY <2>1 DEF SendBuy, DeskInv, LedgerInv, CallsAreOwn, Buying, Drafts
    <3> QED BY <2>1, <3>1 DEF SendBuy, DeskInv, DeskTypeOK, Final
  <2>2. CASE ~SendBuy(r)
    <3>1. UNCHANGED order
      BY <2>2 DEF PrepareBuy, AskBuy, LockBuy, CheckBuy
    <3> QED BY <3>1
  <2> QED BY <2>1, <2>2
<1>4. CancelInv'
  <2>1. ASSUME NEW q \in TradingRuns,
               at'[q].pc \in Cancelling \cup Sending \cup {"claiming", "confirming"}
        PROVE  at'[q] = at[q]
    BY <1>2, <2>1 DEF Cancelling, Sending, Buying
  <2> QED BY <1>2, <1>3, <2>1, CancelsRest DEF DeskInv
<1>5. CASE LockBuy(r)
  <2>1. \A q \in TradingRuns : at[q].pc \notin Checking
    BY <1>5, TradeAssumption DEF LockBuy, DeskInv, Guarded, Nobody
  <2>2. lock' = r /\ \A o \in Calls : intent'[o].state \notin Managed
    BY <1>2, <1>5 DEF LockBuy, IsManaged
  <2>3. Guarded'
    BY <1>2, <2>1, <2>2 DEF Guarded
  <2> QED BY <1>1, <1>4, <2>3
<1>6. CASE ~LockBuy(r)
  <2>1. ASSUME NEW q \in TradingRuns, at'[q].pc \in Checking PROVE at[q].pc \in Checking
    <3>1. CASE \E c \in Calls, v \in Reviews : AskBuy(r, c, v)
      <4>1. PICK c \in Calls, v \in Reviews : AskBuy(r, c, v)
        BY <3>1
      <4>2. at'[r].pc = "asked"
        BY <4>1 DEF AskBuy, DeskInv, DeskTypeOK, Does, Free
      <4> QED BY <1>2, <2>1, <4>2 DEF Checking
    <3>2. CASE SendBuy(r)
      <4>1. at' = [at EXCEPT ![r].pc = "sent"]
        BY <3>2 DEF SendBuy
      <4>2. at'[r].pc = "sent"
        BY <4>1 DEF DeskInv, DeskTypeOK, AtRow
      <4> QED BY <1>2, <2>1, <4>2 DEF Checking
    <3>3. CASE CheckBuy(r)
      BY <1>2, <2>1, <3>3 DEF CheckBuy, Checking
    <3>4. CASE \E v \in Reviews : PrepareBuy(r, v)
      BY <2>1, <3>4 DEF PrepareBuy
    <3> QED BY <1>6, <3>1, <3>2, <3>3, <3>4
  <2>2. UNCHANGED lock
    BY <1>6 DEF PrepareBuy, AskBuy, CheckBuy, SendBuy
  <2>3. Guarded'
    BY <1>2, <2>1, <2>2, GuardRests DEF DeskInv
  <2> QED BY <1>1, <1>4, <2>3
<1> QED BY <1>5, <1>6

------------------------------------------------------------------------------
(* The whole desk. *)

\* The desk opens in order.
LEMMA DeskOpens == DeskInit => DeskInv
<1> SUFFICES ASSUME DeskInit PROVE DeskInv
  OBVIOUS
<1>1. /\ \A r \in TradingRuns : at[r].pc = "unborn"
      /\ \A o \in Calls : /\ order[o].status = "NONE" /\ order[o].price = 0
                          /\ intent[o].state = "NONE" /\ sent[o] = {}
      /\ \A c \in Calls : call[c] = NoCall
  BY DEF DeskInit, Free, NoIntent
<1>2. LedgerInv
  BY <1>1 DEF LedgerInv, CallsAreOwn, ReviewsStand, OneOrderPerReview, Buying
<1>3. CancelInv
  BY <1>1 DEF CancelInv, IdsReal, RowsSettle, WithdrawalsRecorded, ClaimsStand, SentOnce,
              SendersApart, Cancelling, Sending, Terminal
<1>4. Guarded
  BY <1>1 DEF Guarded, Checking
<1> QED BY <1>2, <1>3, <1>4, DeskStarts DEF DeskInv

\* A run about an order names it, and one that sends has its review.
LEMMA NamesReal ==
  ASSUME DeskInv, NEW r \in TradingRuns
  PROVE  /\ at[r].pc \in {"asked", "locked", "checked", "sent", "cancelling", "withdrawing",
                          "claiming", "submitting", "submitted", "confirming"} =>
              at[r].id \in Calls
         /\ at[r].pc = "checked" => call[at[r].id].review \in Reviews
<1>1. /\ at[r].pc \in Buying => at[r].id \in Calls /\ call[at[r].id].run = r
      /\ at[r].pc \in Cancelling \cup Sending \cup {"claiming", "confirming"} =>
           at[r].id \in Calls
  BY DEF DeskInv, LedgerInv, CallsAreOwn, CancelInv, IdsReal
<1>2. \A c \in Calls : call[c].run = r => call[c].review \in Reviews
  <2> SUFFICES ASSUME NEW c \in Calls, call[c].run = r PROVE call[c].review \in Reviews
    OBVIOUS
  <2>1. call[c] # NoCall
    BY TradeAssumption DEF NoCall, Nobody
  <2> QED BY <2>1, CallsReal DEF DeskInv
<1> QED BY <1>1, <1>2 DEF Buying, Cancelling, Sending

\* Every step keeps the desk in order.
LEMMA DeskSteps == DeskInv /\ [DeskNext]_deskVars => DeskInv'
<1> SUFFICES ASSUME DeskInv, [DeskNext]_deskVars PROVE DeskInv'
  OBVIOUS
<1>1. ASSUME NEW r \in TradingRuns, TradeStep(r) PROVE DeskInv'
  <2>1. DeskTypeOK'
    BY <1>1, NamesReal, TradeTypes DEF DeskInv
  <2>2. LedgerInv' /\ CancelInv' /\ Guarded'
    BY <1>1, QuietInv, BuyingInv, ActingInv DEF TradeStep
  <2> QED BY <2>1, <2>2 DEF DeskInv
<1>2. ASSUME NEW r \in TradingRuns, CycleStep(r) PROVE DeskInv'
  <2>1. DeskTypeOK'
    BY <1>2, NamesReal, CycleTypes DEF DeskInv
  <2>2. LedgerInv' /\ CancelInv' /\ Guarded'
    BY <1>2, LookingInv, ActingInv DEF CycleStep, LooksOn
  <2> QED BY <2>1, <2>2 DEF DeskInv
<1>3. ASSUME NEW o \in Calls, BrokerMoves(o) PROVE DeskInv'
  BY <1>3, BrokerTypes, BrokerInv DEF DeskInv
<1>4. CASE UNCHANGED deskVars
  <2>1. DeskTypeOK'
    BY <1>4 DEF deskVars, DeskInv, DeskTypeOK
  <2>2. UNCHANGED <<order, lock, review, call, withdrawal, intent, sent, at>>
    BY <1>4 DEF deskVars
  <2>3. LedgerInv'
    BY <2>2, LedgerRests DEF DeskInv
  <2>4. CancelInv'
    BY <2>2, CancelsRest DEF DeskInv
  <2> QED BY <2>1, <2>2, <2>3, <2>4 DEF DeskInv, Guarded
<1> QED BY <1>1, <1>2, <1>3, <1>4 DEF DeskNext

\* Only a buy that has been checked places an order.
LEMMA PlacedBySending ==
  ASSUME DeskInv, DeskNext, NEW o \in Calls, Placed(o)
  PROVE  \E r \in TradingRuns : SendBuy(r)
<1>1. order[o].status = "NONE" /\ order'[o].status # "NONE"
  BY DEF Placed
<1>2. ASSUME NEW r \in TradingRuns, TradeStep(r), ~SendBuy(r) PROVE FALSE
  <2>1. CASE \/ CheckCancel(r) \/ SendCancel(r) \/ RefuseCancel(r)
             \/ \E p \in Calls : AskCancel(r, p)
    BY <1>1, <2>1, ActingTurns DEF DeskInv, CancelInv
  <2>2. CASE \/ StartRun(r) \/ DeclareCap(r) \/ RefuseBuy(r) \/ BuyAnswered(r) \/ Die(r)
             \/ LockBuy(r) \/ CheckBuy(r)
             \/ \E v \in Reviews : PrepareBuy(r, v)
             \/ \E c \in Calls, v \in Reviews : AskBuy(r, c, v)
    <3>1. UNCHANGED order
      BY <2>2, QuietTurns DEF LockBuy, CheckBuy, PrepareBuy, AskBuy, DeskInv
    <3> QED BY <1>1, <3>1
  <2> QED BY <1>2, <2>1, <2>2 DEF TradeStep
<1>3. ASSUME NEW r \in TradingRuns, CycleStep(r) PROVE FALSE
  <2>1. CASE LooksOn(r)
    <3>1. UNCHANGED order
      BY <2>1, NamesReal, LookingTurns DEF DeskInv
    <3> QED BY <1>1, <3>1
  <2>2. CASE CycleEnsure(r) \/ ActClaim(r) \/ NotSent(r) \/ SystemCancel(r) \/ FinishCancel(r)
    BY <1>1, <2>2, ActingTurns DEF DeskInv, CancelInv
  <2> QED BY <1>3, <2>1, <2>2 DEF CycleStep, LooksOn
<1>4. ASSUME NEW p \in Calls, BrokerMoves(p) PROVE FALSE
  BY <1>1, <1>4, BrokerTurns DEF DeskInv
<1> QED BY <1>2, <1>3, <1>4 DEF DeskNext

\* Only the buy that has been checked, under the lock, places an order.
LEMMA PlacedUnderLock ==
  ASSUME DeskInv, [DeskNext]_deskVars, NEW o \in Calls, Placed(o)
  PROVE  \A i \in Calls : intent[i].state \notin Managed
<1>1. CASE DeskNext
  <2>1. PICK r \in TradingRuns : SendBuy(r)
    BY <1>1, PlacedBySending
  <2> QED BY <2>1 DEF SendBuy, DeskInv, Guarded, Checking
<1>2. CASE UNCHANGED deskVars
  BY <1>2 DEF deskVars, Placed
<1> QED BY <1>1, <1>2

\* The desk is always in order: what every other theorem here rests on.
THEOREM DeskInOrder == DeskSpec => []DeskInv
BY DeskOpens, DeskSteps, PTL DEF DeskSpec

\* However many runs and calls there are, and whoever dies when: one review of
\* prepare_buy lets one order through.
THEOREM ReviewsBuyOnce == DeskSpec => []OneOrderPerReview
<1>1. DeskInv => OneOrderPerReview
  BY DEF DeskInv, LedgerInv
<1> QED BY <1>1, DeskInOrder, PTL

\* No order's cancellation is ever asked for by both the model and the system,
\* and the system never asks twice.
THEOREM CancellationsHaveOneSender == DeskSpec => []OneCancelSender
<1>1. DeskInv => OneCancelSender
  BY OneSender DEF DeskInv
<1> QED BY <1>1, DeskInOrder, PTL

\* From the check under the trade lock to the order, no cancellation of the
\* system can come up: no buy leaves beside one.
THEOREM BuysLeaveAlone == DeskSpec => NoBuyBesideCancellation
<1>1. DeskInv /\ [DeskNext]_deskVars
      => [\A o \in Calls : Placed(o) => \A i \in Calls : intent[i].state \notin Managed]_deskVars
  BY PlacedUnderLock
<1> QED BY <1>1, DeskInOrder, PTL DEF DeskSpec, NoBuyBesideCancellation

------------------------------------------------------------------------------
(* Sums over finite sets: the library's definition picks one element after *)
(* the other, and what it picks does not matter.                           *)

\* A set of natural numbers has a least one.
LEMMA LeastOf == ASSUME NEW T, T \subseteq Nat, T # {} PROVE \E x \in T : \A y \in T : x <= y
<1>1. IsWellFoundedOn(OpToRel(<, Nat), Nat)
  BY NatLessThanWellFounded
<1> DEFINE R == OpToRel(<, Nat)
<1>2. \A x, y \in Nat : x < y => <<x, y>> \in R
  BY DEF OpToRel
<1> HIDE DEF R
<1>3. IsWellFoundedOn(R, Nat)
  BY <1>1 DEF R
<1>4. PICK x \in T : \A y \in T : ~ (<<y, x>> \in R)
  BY <1>3, WFMin
<1>5. \A y \in T : ~ (y < x)
  BY <1>2, <1>4
<1>6. \A y \in T : x <= y
  BY <1>5
<1> QED BY <1>6

Pick(s) == CHOOSE x \in s : TRUE

\* A function that adds up f over the set s, one element after the other.
AddsUp(g, f, s) == g[s] = IF s = {} THEN 0 ELSE f[Pick(s)] + g[s \ {Pick(s)}]

\* What is left of a set without the element that is picked.
LEMMA PickFacts ==
  ASSUME NEW T, IsFiniteSet(T), NEW s \in SUBSET T
  PROVE  /\ IsFiniteSet(s) /\ Cardinality(s) \in Nat /\ Cardinality(s) <= Cardinality(T)
         /\ Cardinality(T) \in Nat
         /\ Cardinality(s) = 0 <=> s = {}
         /\ s # {} => Pick(s) \in s
         /\ \A x \in s : s \ {x} \in SUBSET T /\ Cardinality(s \ {x}) = Cardinality(s) - 1
<1>1. IsFiniteSet(s) /\ Cardinality(s) <= Cardinality(T)
  BY FS_Subset
<1>2. Cardinality(s) \in Nat /\ Cardinality(T) \in Nat
  BY <1>1, FS_CardinalityType
<1>3. Cardinality(s) = 0 <=> s = {}
  BY <1>1, FS_EmptySet
<1>4. s # {} => Pick(s) \in s
  BY DEF Pick
<1>5. \A x \in s : Cardinality(s \ {x}) = Cardinality(s) - 1
  BY <1>1, FS_RemoveElement
<1> QED BY <1>1, <1>2, <1>3, <1>4, <1>5

\* There is a function that adds up over all subsets of a finite set.
LEMMA SumExists ==
  ASSUME NEW T, IsFiniteSet(T), NEW f, \A x \in T : f[x] \in Nat
  PROVE  \E g \in [SUBSET T -> Nat] : \A s \in SUBSET T : AddsUp(g, f, s)
<1> DEFINE Upto(n) == \E g \in [SUBSET T -> Nat] :
                        \A s \in SUBSET T : Cardinality(s) <= n => AddsUp(g, f, s)
           Bad == {n \in Nat : ~Upto(n)}
<1>1. Upto(0)
  <2> DEFINE g == [s \in SUBSET T |-> 0]
  <2>1. g \in [SUBSET T -> Nat]
    OBVIOUS
  <2>2. ASSUME NEW s \in SUBSET T, Cardinality(s) <= 0 PROVE AddsUp(g, f, s)
    <3>1. s = {}
      BY <2>2, PickFacts
    <3> QED BY <3>1 DEF AddsUp
  <2> HIDE DEF g
  <2> QED BY <2>1, <2>2
<1>2. ASSUME NEW n \in Nat, Upto(n) PROVE Upto(n + 1)
  <2>1. PICK g \in [SUBSET T -> Nat] : \A s \in SUBSET T : Cardinality(s) <= n => AddsUp(g, f, s)
    BY <1>2
  <2> DEFINE h == [s \in SUBSET T |-> IF s = {} THEN 0 ELSE f[Pick(s)] + g[s \ {Pick(s)}]]
  <2>2. \A s \in SUBSET T : s # {} => Pick(s) \in T /\ s \ {Pick(s)} \in SUBSET T
    BY PickFacts
  <2>3. \A s \in SUBSET T : s # {} => f[Pick(s)] + g[s \ {Pick(s)}] \in Nat
    BY <2>2
  <2>4. h \in [SUBSET T -> Nat]
    BY <2>3
  <2>5. \A s \in SUBSET T : Cardinality(s) <= n => h[s] = g[s]
    BY <2>1 DEF AddsUp
  <2>6. ASSUME NEW s \in SUBSET T, Cardinality(s) <= n + 1 PROVE AddsUp(h, f, s)
    <3>1. CASE s = {}
      BY <3>1 DEF AddsUp
    <3>2. CASE s # {}
      <4>1. Pick(s) \in s
        BY <3>2, PickFacts
      <4>2. s \ {Pick(s)} \in SUBSET T /\ Cardinality(s \ {Pick(s)}) <= n
        <5>1. Cardinality(s \ {Pick(s)}) = Cardinality(s) - 1 /\ Cardinality(s) \in Nat
          BY <4>1, PickFacts
        <5> QED BY <2>6, <5>1
      <4>3. h[s \ {Pick(s)}] = g[s \ {Pick(s)}]
        BY <2>5, <4>2
      <4> QED BY <3>2, <4>3 DEF AddsUp
    <3> QED BY <3>1, <3>2
  <2> HIDE DEF h
  <2> QED BY <2>4, <2>6
<1> HIDE DEF Upto
<1>3. Bad = {}
  <2> SUFFICES ASSUME Bad # {} PROVE FALSE
    OBVIOUS
  <2>1. Bad \subseteq Nat
    OBVIOUS
  <2>2. PICK n \in Bad : \A m \in Bad : n <= m
    BY <2>1, LeastOf
  <2>3. n \in Nat /\ ~Upto(n) /\ n # 0
    BY <1>1
  <2>4. n - 1 \in Nat /\ n - 1 \notin Bad
    BY <2>1, <2>2, <2>3
  <2>5. Upto(n - 1)
    BY <2>4
  <2>6. Upto((n - 1) + 1)
    BY <1>2, <2>4, <2>5
  <2>7. (n - 1) + 1 = n
    BY <2>3
  <2> QED BY <2>3, <2>6, <2>7
<1>4. Cardinality(T) \in Nat
  BY FS_CardinalityType
<1>5. Upto(Cardinality(T))
  BY <1>3, <1>4
<1>6. PICK g \in [SUBSET T -> Nat] : \A s \in SUBSET T : Cardinality(s) <= Cardinality(T) => AddsUp(g, f, s)
  BY <1>5 DEF Upto
<1> QED BY <1>6, PickFacts

\* Two functions that add up over f agree on the sets they both know.
LEMMA SumsAgree ==
  ASSUME NEW T, IsFiniteSet(T), NEW g, NEW h, NEW f, NEW e,
         \A x \in T : f[x] = e[x],
         \A s \in SUBSET T : AddsUp(g, f, s) /\ AddsUp(h, e, s)
  PROVE  \A s \in SUBSET T : g[s] = h[s]
<1> DEFINE Off(s) == g[s] # h[s]
           Bad == {n \in Nat : \E s \in SUBSET T : Off(s) /\ Cardinality(s) = n}
<1>1. ASSUME Bad # {} PROVE FALSE
  <2>1. Bad \subseteq Nat
    OBVIOUS
  <2>2. PICK n \in Bad : \A m \in Bad : n <= m
    BY <1>1, <2>1, LeastOf
  <2>3. PICK s \in SUBSET T : Off(s) /\ Cardinality(s) = n
    BY <2>2
  <2>4. AddsUp(g, f, s) /\ AddsUp(h, e, s)
    OBVIOUS
  <2>5. s # {}
    BY <2>3, <2>4 DEF AddsUp
  <2>6. /\ Pick(s) \in s /\ s \ {Pick(s)} \in SUBSET T
        /\ Cardinality(s \ {Pick(s)}) = n - 1 /\ Cardinality(s \ {Pick(s)}) \in Nat
    <3>1. Pick(s) \in s /\ s \ {Pick(s)} \in SUBSET T /\ Cardinality(s \ {Pick(s)}) = Cardinality(s) - 1
      BY <2>5, PickFacts
    <3>2. s \ {Pick(s)} \in SUBSET T
      BY <3>1
    <3>3. Cardinality(s \ {Pick(s)}) \in Nat
      BY <3>2, PickFacts
    <3> QED BY <2>3, <3>1, <3>3
  <2>7. n \in Nat /\ ~(n <= n - 1)
    BY <2>1, <2>2
  <2>8. n - 1 \notin Bad
    BY <2>2, <2>7
  <2>9. ~Off(s \ {Pick(s)})
    BY <2>6, <2>8
  <2>10. f[Pick(s)] = e[Pick(s)]
    BY <2>6
  <2> QED BY <2>3, <2>4, <2>5, <2>9, <2>10 DEF AddsUp
<1>2. ASSUME NEW s \in SUBSET T PROVE g[s] = h[s]
  <2>1. Cardinality(s) \in Nat
    BY PickFacts
  <2> QED BY <1>1, <2>1
<1> QED BY <1>2

\* What the library's sum is: the value of any function that adds up.
LEMMA SumIs ==
  ASSUME NEW T, IsFiniteSet(T), NEW f, \A x \in T : f[x] \in Nat, NEW S \in SUBSET T,
         NEW g, \A s \in SUBSET T : AddsUp(g, f, s)
  PROVE  SumFunctionOnSet(f, S) = g[S]
<1> DEFINE Step(h) == [s \in SUBSET S |-> IF s = {} THEN 0
                                         ELSE LET x == CHOOSE x \in s : TRUE IN f[x] + h[s \ {x}]]
           iter == CHOOSE h : h = Step(h)
<1>1. IsFiniteSet(S) /\ \A x \in S : f[x] \in Nat
  BY FS_Subset
<1>2. SumFunctionOnSet(f, S) = iter[S]
  BY DEF SumFunctionOnSet, FoldFunctionOnSet, MapThenFoldSet
<1>3. \E h : h = Step(h)
  <2>1. PICK h \in [SUBSET S -> Nat] : \A s \in SUBSET S : AddsUp(h, f, s)
    BY <1>1, SumExists
  <2>2. \A s \in SUBSET S : h[s] = Step(h)[s]
    BY <2>1 DEF AddsUp, Pick
  <2>3. h = Step(h)
    BY <2>2
  <2> HIDE DEF Step
  <2> QED BY <2>3
<1> HIDE DEF Step
<1>4. iter = Step(iter)
  BY <1>3
<1> HIDE DEF iter
<1>5. \A s \in SUBSET S : AddsUp(iter, f, s)
  BY <1>4 DEF AddsUp, Pick, Step
<1>6. \A s \in SUBSET S : AddsUp(g, f, s)
  OBVIOUS
<1>7. iter[S] = g[S]
  BY <1>1, <1>5, <1>6, SumsAgree
<1> QED BY <1>2, <1>7

\* A sum is one of its terms and the sum of the others, whichever it is.
LEMMA SumTakes ==
  ASSUME NEW T, IsFiniteSet(T), NEW f, \A x \in T : f[x] \in Nat
  PROVE  /\ SumFunctionOnSet(f, T) \in Nat
         /\ \A x \in T : SumFunctionOnSet(f, T) = f[x] + SumFunctionOnSet(f, T \ {x})
<1>1. PICK g \in [SUBSET T -> Nat] : \A s \in SUBSET T : AddsUp(g, f, s)
  BY SumExists
<1>2. \A s \in SUBSET T : SumFunctionOnSet(f, s) = g[s]
  BY <1>1, SumIs
<1> DEFINE Off(s) == \E x \in s : g[s] # f[x] + g[s \ {x}]
           Bad == {n \in Nat : \E s \in SUBSET T : Off(s) /\ Cardinality(s) = n}
<1>3. ASSUME Bad # {} PROVE FALSE
  <2>1. Bad \subseteq Nat
    OBVIOUS
  <2>2. PICK n \in Bad : \A m \in Bad : n <= m
    BY <1>3, <2>1, LeastOf
  <2>3. PICK s \in SUBSET T : Off(s) /\ Cardinality(s) = n
    BY <2>2
  <2>4. PICK x \in s : g[s] # f[x] + g[s \ {x}]
    BY <2>3
  <2>5. PICK y : y = Pick(s)
    OBVIOUS
  <2>6. y \in s /\ g[s] = f[y] + g[s \ {y}]
    BY <1>1, <2>4, <2>5, PickFacts DEF AddsUp
  <2>7. x # y
    BY <2>4, <2>6
  <2>8. /\ s \ {x} \in SUBSET T /\ s \ {y} \in SUBSET T
        /\ Cardinality(s \ {x}) = n - 1 /\ Cardinality(s \ {y}) = n - 1
    BY <2>3, <2>6, PickFacts
  <2>9. n - 1 \in Nat /\ ~(n <= n - 1)
    <3>1. Cardinality(s \ {x}) \in Nat
      BY <2>8, PickFacts
    <3> QED BY <2>1, <2>2, <2>8, <3>1
  <2>10. n - 1 \notin Bad
    BY <2>2, <2>9
  <2>11. ~Off(s \ {x}) /\ ~Off(s \ {y})
    BY <2>8, <2>9, <2>10
  <2>12. g[s \ {x}] = f[y] + g[(s \ {x}) \ {y}] /\ g[s \ {y}] = f[x] + g[(s \ {y}) \ {x}]
    BY <2>6, <2>7, <2>11
  <2>13. (s \ {x}) \ {y} = (s \ {y}) \ {x} /\ (s \ {x}) \ {y} \in SUBSET T
    BY <2>8
  <2>14. f[x] \in Nat /\ f[y] \in Nat /\ g[(s \ {x}) \ {y}] \in Nat
    BY <2>6, <2>13
  <2>15. g[s] = f[y] + (f[x] + g[(s \ {x}) \ {y}]) /\ g[s \ {x}] = f[y] + g[(s \ {x}) \ {y}]
    BY <2>6, <2>12, <2>13
  <2> QED BY <2>4, <2>14, <2>15
<1>4. Cardinality(T) \in Nat
  BY FS_CardinalityType
<1>5. \A x \in T : g[T] = f[x] + g[T \ {x}]
  BY <1>3, <1>4
<1>6. \A x \in T : T \ {x} \in SUBSET T
  OBVIOUS
<1> QED BY <1>1, <1>2, <1>5, <1>6

\* A sum does not depend on anything but its terms.
LEMMA SumSame ==
  ASSUME NEW S, IsFiniteSet(S), NEW f, NEW e, \A x \in S : f[x] \in Nat, \A x \in S : f[x] = e[x]
  PROVE  SumFunctionOnSet(f, S) = SumFunctionOnSet(e, S)
<1>1. PICK g \in [SUBSET S -> Nat] : \A s \in SUBSET S : AddsUp(g, f, s)
  BY SumExists
<1>2. PICK h \in [SUBSET S -> Nat] : \A s \in SUBSET S : AddsUp(h, e, s)
  BY SumExists
<1>3. SumFunctionOnSet(f, S) = g[S]
  BY <1>1, SumIs
<1>4. SumFunctionOnSet(e, S) = h[S]
  BY <1>2, SumIs
<1>5. g[S] = h[S]
  BY <1>1, <1>2, SumsAgree
<1> QED BY <1>3, <1>4, <1>5

\* A sum over more, of which what was there has not changed, is no smaller.
LEMMA SumGrows ==
  ASSUME NEW T, IsFiniteSet(T), NEW S \in SUBSET T, NEW f, NEW e,
         \A x \in T : e[x] \in Nat, \A x \in S : f[x] = e[x]
  PROVE  SumFunctionOnSet(f, S) <= SumFunctionOnSet(e, T)
<1>1. IsFiniteSet(S) /\ \A x \in S : f[x] \in Nat
  BY FS_Subset
<1>2. SumFunctionOnSet(f, S) = SumFunctionOnSet(e, S)
  BY <1>1, SumSame
<1> DEFINE Off(u) == ~(SumFunctionOnSet(e, S) <= SumFunctionOnSet(e, u))
           Bad == {n \in Nat : \E u \in SUBSET T : S \subseteq u /\ Off(u) /\ Cardinality(u) = n}
<1>3. ASSUME Bad # {} PROVE FALSE
  <2>1. Bad \subseteq Nat
    OBVIOUS
  <2>2. PICK n \in Bad : \A m \in Bad : n <= m
    BY <1>3, <2>1, LeastOf
  <2>3. PICK u \in SUBSET T : S \subseteq u /\ Off(u) /\ Cardinality(u) = n
    BY <2>2
  <2>4. IsFiniteSet(u) /\ \A x \in u : e[x] \in Nat
    BY <2>3, FS_Subset
  <2>5. SumFunctionOnSet(e, S) \in Nat
    BY <1>1, SumTakes
  <2>6. u # S
    BY <2>3, <2>5
  <2>7. PICK x \in u : x \notin S
    BY <2>3, <2>6
  <2>8. SumFunctionOnSet(e, u) = e[x] + SumFunctionOnSet(e, u \ {x})
    BY <2>4, SumTakes
  <2>9. u \ {x} \in SUBSET T /\ S \subseteq u \ {x} /\ Cardinality(u \ {x}) = n - 1
    BY <2>3, <2>7, PickFacts
  <2>10. n - 1 \in Nat /\ ~(n <= n - 1)
    <3>1. Cardinality(u \ {x}) \in Nat
      BY <2>9, PickFacts
    <3> QED BY <2>1, <2>2, <2>9, <3>1
  <2>11. n - 1 \notin Bad
    BY <2>2, <2>10
  <2>12. ~Off(u \ {x})
    BY <2>9, <2>10, <2>11
  <2>13. IsFiniteSet(u \ {x}) /\ \A y \in u \ {x} : e[y] \in Nat
    BY <2>9, FS_Subset
  <2>14. SumFunctionOnSet(e, u \ {x}) \in Nat /\ e[x] \in Nat
    BY <2>4, <2>13, SumTakes
  <2> QED BY <2>3, <2>5, <2>8, <2>12, <2>14
<1>4. Cardinality(T) \in Nat
  BY FS_CardinalityType
<1>5. ~Off(T)
  BY <1>3, <1>4
<1> QED BY <1>2, <1>5

------------------------------------------------------------------------------
(* The limit of the day. *)

\* Who has sent an order holds the lock until the answer; who checks has read
\* the limit that still holds, and once the checks have passed the order fits.
SendersLock  == \A r \in TradingRuns : at[r].pc = "sent" => lock = r
LimitsStand  == \A r \in TradingRuns : at[r].pc \in Checking => at[r].limit = DailyLimit
CheckedFits(r) == Committed + review[call[at[r].id].review].price <= at[r].limit
LimitInv ==
  /\ SendersLock
  /\ LimitsStand
  /\ \A r \in TradingRuns : at[r].pc = "checked" => CheckedFits(r)

\* A price is a number.
LEMMA PricesAreNats == \A row \in OrderRow : row.price \in Nat
BY DEF OrderRow

\* Costs are numbers.
LEMMA CostsAreNats ==
  ASSUME DeskTypeOK, NEW os \in SUBSET Calls
  PROVE  Cost(os) \in Nat
<1> DEFINE f == [o \in Calls |-> order[o].price]
<1>1. \A x \in os : f[x] \in Nat
  <2>1. order \in [Calls -> OrderRow]
    BY DEF DeskTypeOK
  <2> QED BY <2>1, PricesAreNats
<1>2. IsFiniteSet(os)
  BY TradeAssumption, FS_Subset
<1> HIDE DEF f
<1>3. SumFunctionOnSet(f, os) \in Nat
  BY <1>1, <1>2, SumTakes
<1> QED BY <1>3 DEF Cost, f

\* More orders cost no less.
LEMMA CostGrows ==
  ASSUME DeskTypeOK, NEW os \in SUBSET Calls, NEW more \in SUBSET Calls, os \subseteq more
  PROVE  Cost(os) <= Cost(more)
<1> DEFINE f == [o \in Calls |-> order[o].price]
<1>1. \A x \in more : f[x] \in Nat
  <2>1. order \in [Calls -> OrderRow]
    BY DEF DeskTypeOK
  <2> QED BY <2>1, PricesAreNats
<1>2. IsFiniteSet(more)
  BY TradeAssumption, FS_Subset
<1> HIDE DEF f
<1>3. SumFunctionOnSet(f, os) <= SumFunctionOnSet(f, more)
  BY <1>1, <1>2, SumGrows
<1> QED BY <1>3 DEF Cost, f

\* When no order comes in time that was not, and prices stay, the day is
\* committed to no more than before.
LEMMA CommittedFalls ==
  ASSUME DeskTypeOK, DeskTypeOK',
         \A o \in Calls : InTime(o)' => InTime(o) /\ order'[o].price = order[o].price
  PROVE  Committed' <= Committed /\ Committed \in Nat /\ Committed' \in Nat
<1> DEFINE e == [o \in Calls |-> order[o].price]
           f == [o \in Calls |-> order'[o].price]
           T == {o \in Calls : InTime(o)}
           S == {o \in Calls : InTime(o)'}
<1>1. S \in SUBSET T /\ IsFiniteSet(T) /\ IsFiniteSet(S)
  <2>1. T \subseteq Calls /\ S \subseteq Calls
    OBVIOUS
  <2> QED BY <2>1, TradeAssumption, FS_Subset
<1>2. (\A x \in T : e[x] \in Nat) /\ (\A x \in S : f[x] \in Nat)
  <2>1. order \in [Calls -> OrderRow] /\ order' \in [Calls -> OrderRow]
    BY DEF DeskTypeOK
  <2> QED BY <2>1, PricesAreNats
<1>3. \A x \in S : f[x] = e[x]
  OBVIOUS
<1>4. Committed = SumFunctionOnSet(e, T) /\ Committed' = SumFunctionOnSet(f, S)
  BY DEF Committed, Cost
<1> HIDE DEF e, f, S, T
<1>5. SumFunctionOnSet(f, S) <= SumFunctionOnSet(e, T)
  BY <1>1, <1>2, <1>3, SumGrows
<1>6. SumFunctionOnSet(f, S) \in Nat /\ SumFunctionOnSet(e, T) \in Nat
  BY <1>1, <1>2, SumTakes
<1> QED BY <1>4, <1>5, <1>6

\* What is in time was so before, when no order is booked or awaited anew.
LEMMA InTimeRests ==
  ASSUME \A q \in TradingRuns : at'[q].pc = "sent" => at'[q] = at[q],
         \A o \in Calls : \/ order'[o] = order[o]
                          \/ /\ order[o].status = "PENDING"
                             /\ order'[o].status = "PENDING_CANCEL"
                             /\ order'[o].late = order[o].late
                             /\ order'[o].price = order[o].price
  PROVE  \A o \in Calls : InTime(o)' => InTime(o) /\ order'[o].price = order[o].price
<1> SUFFICES ASSUME NEW o \in Calls, InTime(o)'
             PROVE  InTime(o) /\ order'[o].price = order[o].price
  OBVIOUS
<1>1. Stray(o) => Stray(o)' \/ order'[o] # order[o]
  BY DEF Stray
<1>2. CASE order'[o] = order[o]
  BY <1>1, <1>2 DEF InTime, Counts, Open
<1>3. CASE order'[o] # order[o]
  BY <1>3 DEF InTime, Counts, Open, Stray
<1> QED BY <1>2, <1>3

\* What the broker books too late is not in time, and nothing else comes in.
LEMMA InTimeMoves ==
  ASSUME DeskTypeOK, NEW p \in Calls, BrokerMoves(p)
  PROVE  \A o \in Calls : InTime(o)' => InTime(o) /\ order'[o].price = order[o].price
<1>1. PICK step \in BrokerStep(p) :
        /\ order[p].status = step.from
        /\ order' = [order EXCEPT ![p].status = step.to, ![p].late = @ \/ Stray(p)]
  BY DEF BrokerMoves
<1>2. /\ step.from \in {"IN_FLIGHT", "PENDING", "PENDING_CANCEL"}
      /\ step.from = "PENDING" \/ step.from = "PENDING_CANCEL" \/ step.from = "IN_FLIGHT"
  BY DEF BrokerStep
<1>3. /\ order'[p].price = order[p].price /\ order'[p].status = step.to
      /\ order'[p].late = (order[p].late \/ Stray(p))
      /\ \A o \in Calls : o # p => order'[o] = order[o]
  BY ZenonT(30), <1>1 DEF DeskTypeOK, OrderRow
<1>4. UNCHANGED at
  BY DEF BrokerMoves
<1>5. InTime(p)' => InTime(p)
  BY <1>1, <1>2, <1>3 DEF InTime, Counts, Open
<1>6. \A o \in Calls : o # p => (InTime(o)' => InTime(o))
  BY <1>3, <1>4 DEF InTime, Counts, Open, Stray
<1> QED BY <1>3, <1>5, <1>6

\* The limit of the day is as it was, when nothing is declared.
LEMMA LimitRests == UNCHANGED cap => DailyLimit' = DailyLimit
BY DEF DailyLimit, Declared

\* A step that takes no lock, checks and books nothing.
LEMMA LimitKeeps ==
  ASSUME DeskTypeOK, DeskTypeOK', LimitInv,
         UNCHANGED cap \/ \A q \in TradingRuns : at[q].pc \notin Checking,
         \A q \in TradingRuns : at'[q].pc \in Checking \cup {"sent"} =>
           at'[q] = at[q] /\ (lock = q => lock' = q),
         \A q \in TradingRuns : at[q].pc = "checked" =>
           review'[call'[at[q].id].review].price = review[call[at[q].id].review].price,
         \A q \in TradingRuns : at[q].pc = "checked" =>
           review[call[at[q].id].review].price \in Nat,
         \A o \in Calls : InTime(o)' => InTime(o) /\ order'[o].price = order[o].price
  PROVE  LimitInv'
<1>1. Committed' <= Committed /\ Committed \in Nat /\ Committed' \in Nat
  BY CommittedFalls
<1>2. SendersLock'
  BY DEF SendersLock, LimitInv
<1>3. LimitsStand'
  <2>1. ASSUME NEW q \in TradingRuns, at'[q].pc \in Checking PROVE at'[q].limit = DailyLimit'
    <3>1. at'[q] = at[q] /\ DailyLimit' = DailyLimit
      BY <2>1, LimitRests
    <3> QED BY <2>1, <3>1 DEF LimitInv, LimitsStand
  <2> QED BY <2>1 DEF LimitsStand
<1>4. ASSUME NEW q \in TradingRuns, at'[q].pc = "checked" PROVE CheckedFits(q)'
  <2>1. at'[q] = at[q]
    BY <1>4 DEF Checking
  <2>2. at[q].pc = "checked" /\ CheckedFits(q)
    BY <1>4, <2>1 DEF LimitInv
  <2> DEFINE price == review[call[at[q].id].review].price
  <2>3. price \in Nat /\ review'[call'[at'[q].id].review].price = price /\ at[q].limit \in Nat
    <3>1. at[q] \in AtRow
      BY DEF DeskTypeOK
    <3> QED BY <2>1, <2>2, <3>1 DEF AtRow
  <2>4. Committed + price <= at[q].limit
    BY <2>2 DEF CheckedFits
  <2> HIDE DEF price
  <2>5. Committed' + price <= at[q].limit
    BY <1>1, <2>3, <2>4
  <2> QED BY <2>1, <2>3, <2>5 DEF CheckedFits
<1> QED BY <1>2, <1>3, <1>4 DEF LimitInv

\* The price a checked buy bids is a number, and nothing takes its review away.
LEMMA CheckedPrice ==
  ASSUME DeskInv, NEW q \in TradingRuns, at[q].pc = "checked"
  PROVE  /\ review[call[at[q].id].review].price \in Nat
         /\ at[q].id \in Calls /\ call[at[q].id] # NoCall
         /\ call[at[q].id].review \in Reviews /\ review[call[at[q].id].review] # NoReview
<1>1. q # Nobody
  BY TradeAssumption DEF Nobody
<1>2. at[q].id \in Calls /\ call[at[q].id].run = q /\ review[call[at[q].id].review].run = q
  BY DEF DeskInv, LedgerInv, CallsAreOwn, ReviewsStand, ReviewStands, Buying
<1>3. call[at[q].id].review \in Reviews
  BY NamesReal
<1>4. review[call[at[q].id].review] \in ReviewRow
  BY <1>3 DEF DeskInv, DeskTypeOK
<1>5. review[call[at[q].id].review].price \in Nat
  BY <1>4 DEF ReviewRow
<1> QED BY <1>1, <1>2, <1>3, <1>5 DEF NoCall, NoReview

\* Nobody checks and nobody waits for an answer while the lock is free.
LEMMA LockFree ==
  ASSUME DeskInv, LimitInv, lock = Nobody, NEW q \in TradingRuns
  PROVE  at[q].pc \notin Checking \cup {"sent"}
<1>1. q # Nobody
  BY TradeAssumption DEF Nobody
<1> QED BY <1>1 DEF DeskInv, Guarded, LimitInv, SendersLock

\* Runs that start, declare, give up, are answered or die.
LEMMA QuietLimit ==
  ASSUME DeskInv, DeskTypeOK', LimitInv, NEW r \in TradingRuns,
         StartRun(r) \/ DeclareCap(r) \/ RefuseBuy(r) \/ BuyAnswered(r) \/ Die(r)
  PROVE  LimitInv'
<1>0. DeskTypeOK
  BY DEF DeskInv
<1>1. /\ at'[r] = at[r] \/ at'[r].pc \in {"free", "dead"}
      /\ \A q \in TradingRuns : q # r => at'[q] = at[q]
      /\ lock' = lock \/ (lock = r /\ at'[r].pc \in {"free", "dead"})
      /\ UNCHANGED <<order, review, call>>
  BY <1>0, QuietTurns
<1>2. UNCHANGED cap \/ \A q \in TradingRuns : at[q].pc \notin Checking
  <2>1. CASE DeclareCap(r)
    BY <2>1, LockFree DEF DeclareCap
  <2>2. CASE ~DeclareCap(r)
    BY <2>2 DEF StartRun, RefuseBuy, BuyAnswered, BuyEnds, Die
  <2> QED BY <2>1, <2>2
<1>3. \A q \in TradingRuns : at'[q].pc \in Checking \cup {"sent"} =>
        at'[q] = at[q] /\ (lock = q => lock' = q)
  BY <1>1 DEF Checking
<1>4. \A o \in Calls : InTime(o)' => InTime(o) /\ order'[o].price = order[o].price
  <2>1. \A q \in TradingRuns : at'[q].pc = "sent" => at'[q] = at[q]
    BY <1>3
  <2> QED BY <1>1, <2>1, InTimeRests
<1>5. \A q \in TradingRuns : at[q].pc = "checked" =>
        review[call[at[q].id].review].price \in Nat
  BY CheckedPrice
<1>6. \A q \in TradingRuns : at[q].pc = "checked" =>
        review'[call'[at[q].id].review].price = review[call[at[q].id].review].price
  BY <1>1
<1> QED BY <1>0, <1>2, <1>3, <1>4, <1>5, <1>6, LimitKeeps

\* Cycles that read, look, or are done with an order.
LEMMA LookingLimit ==
  ASSUME DeskInv, DeskTypeOK', LimitInv, NEW r \in TradingRuns, LooksOn(r)
  PROVE  LimitInv'
<1>0. DeskTypeOK
  BY DEF DeskInv
<1>1. /\ at'[r].pc \in {"auditing", "acting", "free", "claiming"}
      /\ \A q \in TradingRuns : q # r => at'[q] = at[q]
      /\ UNCHANGED <<order, lock, review, call>>
  <2>1. at[r].pc = "confirming" => at[r].id \in Calls
    BY NamesReal
  <2> QED BY <1>0, <2>1, LookingTurns
<1>2. UNCHANGED cap
  BY DEF LooksOn, CycleRead, ActCheck, ActTooLate, ConfirmCancel, CycleEnds
<1>3. \A q \in TradingRuns : at'[q].pc \in Checking \cup {"sent"} =>
        at'[q] = at[q] /\ (lock = q => lock' = q)
  BY <1>1 DEF Checking
<1>4. \A o \in Calls : InTime(o)' => InTime(o) /\ order'[o].price = order[o].price
  <2>1. \A q \in TradingRuns : at'[q].pc = "sent" => at'[q] = at[q]
    BY <1>3
  <2> QED BY <1>1, <2>1, InTimeRests
<1>5. \A q \in TradingRuns : at[q].pc = "checked" =>
        review[call[at[q].id].review].price \in Nat
  BY CheckedPrice
<1>6. \A q \in TradingRuns : at[q].pc = "checked" =>
        review'[call'[at[q].id].review].price = review[call[at[q].id].review].price
  BY <1>1
<1> QED BY <1>0, <1>2, <1>3, <1>4, <1>5, <1>6, LimitKeeps

\* What a withdrawal does to the orders, and what it does not.
LEMMA WithdrawnRows ==
  ASSUME DeskTypeOK, NEW o \in Calls, order[o].status = "PENDING"
  PROVE  \A p \in Calls : \/ Withdrawn(o)[p] = order[p]
                          \/ /\ order[p].status = "PENDING"
                             /\ Withdrawn(o)[p].status = "PENDING_CANCEL"
                             /\ Withdrawn(o)[p].late = order[p].late
                             /\ Withdrawn(o)[p].price = order[p].price
BY DEF DeskTypeOK, Withdrawn, OrderRow

\* Cancellations, by the system and by the model.
LEMMA ActingLimit ==
  ASSUME DeskInv, DeskTypeOK', LimitInv, NEW r \in TradingRuns,
         \/ CycleEnsure(r) \/ ActClaim(r) \/ NotSent(r) \/ SystemCancel(r) \/ FinishCancel(r)
         \/ CheckCancel(r) \/ SendCancel(r) \/ RefuseCancel(r)
         \/ \E o \in Calls : AskCancel(r, o)
  PROVE  LimitInv'
<1>0. DeskTypeOK
  BY DEF DeskInv
<1>1. /\ at'[r].pc \notin Buying
      /\ \A q \in TradingRuns : q # r => at'[q] = at[q]
      /\ UNCHANGED <<lock, review, call>>
  BY <1>0, ActingTurns DEF DeskInv, CancelInv
<1>2. UNCHANGED cap
  BY DEF CycleEnsure, ActClaim, NotSent, SystemCancel, FinishCancel, CheckCancel, SendCancel,
         RefuseCancel, AskCancel
<1>3. \A q \in TradingRuns : at'[q].pc \in Checking \cup {"sent"} =>
        at'[q] = at[q] /\ (lock = q => lock' = q)
  BY <1>1 DEF Checking, Buying
<1>4. \A o \in Calls : InTime(o)' => InTime(o) /\ order'[o].price = order[o].price
  <2>1. \A q \in TradingRuns : at'[q].pc = "sent" => at'[q] = at[q]
    BY <1>3
  <2>2. \/ order' = order
        \/ /\ at[r].id \in Calls /\ order[at[r].id].status = "PENDING"
           /\ order' = Withdrawn(at[r].id)
    <3>1. SystemCancel(r) \/ SendCancel(r) => at[r].id \in Calls
      BY NamesReal DEF SystemCancel, SendCancel
    <3>2. CASE SystemCancel(r)
      BY <3>1, <3>2 DEF SystemCancel
    <3>3. CASE SendCancel(r)
      BY <3>1, <3>3 DEF SendCancel
    <3>4. CASE ~SystemCancel(r) /\ ~SendCancel(r)
      BY <3>4 DEF CycleEnsure, ActClaim, NotSent, FinishCancel, CheckCancel, RefuseCancel,
                  AskCancel
    <3> QED BY <3>2, <3>3, <3>4
  <2>3. \A p \in Calls : \/ order'[p] = order[p]
                         \/ /\ order[p].status = "PENDING"
                            /\ order'[p].status = "PENDING_CANCEL"
                            /\ order'[p].late = order[p].late
                            /\ order'[p].price = order[p].price
    <3>1. CASE order' = order
      BY <3>1
    <3>2. CASE order' # order
      BY <1>0, <2>2, <3>2, WithdrawnRows
    <3> QED BY <3>1, <3>2
  <2> QED BY <2>1, <2>3, InTimeRests
<1>5. \A q \in TradingRuns : at[q].pc = "checked" =>
        review[call[at[q].id].review].price \in Nat
  BY CheckedPrice
<1>6. \A q \in TradingRuns : at[q].pc = "checked" =>
        review'[call'[at[q].id].review].price = review[call[at[q].id].review].price
  BY <1>1
<1> QED BY <1>0, <1>2, <1>3, <1>4, <1>5, <1>6, LimitKeeps

\* The broker's moves.
LEMMA BrokerLimit ==
  ASSUME DeskInv, DeskTypeOK', LimitInv, NEW p \in Calls, BrokerMoves(p)
  PROVE  LimitInv'
<1>0. DeskTypeOK
  BY DEF DeskInv
<1>1. UNCHANGED <<lock, cap, review, call, at>>
  BY DEF BrokerMoves
<1>2. \A o \in Calls : InTime(o)' => InTime(o) /\ order'[o].price = order[o].price
  BY <1>0, InTimeMoves
<1>3. \A q \in TradingRuns : at[q].pc = "checked" =>
        review[call[at[q].id].review].price \in Nat
  BY CheckedPrice
<1> QED BY <1>0, <1>1, <1>2, <1>3, LimitKeeps

\* A review is granted, or a call enters the ledger: not those of a checked buy.
LEMMA LedgerLimit ==
  ASSUME DeskInv, DeskTypeOK', LimitInv, NEW r \in TradingRuns,
         \/ \E v \in Reviews : PrepareBuy(r, v)
         \/ \E c \in Calls, v \in Reviews : AskBuy(r, c, v)
  PROVE  LimitInv'
<1>0. DeskTypeOK
  BY DEF DeskInv
<1>1. /\ UNCHANGED <<order, lock, cap>>
      /\ at'[r] = at[r] \/ at'[r].pc = "asked"
      /\ \A q \in TradingRuns : q # r => at'[q] = at[q]
      /\ \A c \in Calls : call[c] # NoCall => call'[c] = call[c]
      /\ \A v \in Reviews : review[v] # NoReview => review'[v] = review[v]
  <2>1. CASE \E v \in Reviews : PrepareBuy(r, v)
    BY <1>0, <2>1 DEF PrepareBuy, DeskTypeOK
  <2>2. CASE \E c \in Calls, v \in Reviews : AskBuy(r, c, v)
    <3>1. PICK c \in Calls, v \in Reviews : AskBuy(r, c, v)
      BY <2>2
    <3>2. UNCHANGED <<order, lock, cap, review>> /\ call[c] = NoCall
      BY <3>1 DEF AskBuy, Reservable
    <3>3. \A d \in Calls : d # c => call'[d] = call[d]
      BY <1>0, <3>1 DEF AskBuy, DeskTypeOK
    <3>4. at'[r].pc = "asked" /\ \A q \in TradingRuns : q # r => at'[q] = at[q]
      BY <1>0, <3>1 DEF AskBuy, DeskTypeOK, Does, Free
    <3> QED BY <3>2, <3>3, <3>4
  <2> QED BY <2>1, <2>2
<1>2. \A q \in TradingRuns : at'[q].pc \in Checking \cup {"sent"} =>
        at'[q] = at[q] /\ (lock = q => lock' = q)
  BY <1>1 DEF Checking
<1>3. \A o \in Calls : InTime(o)' => InTime(o) /\ order'[o].price = order[o].price
  <2>1. \A q \in TradingRuns : at'[q].pc = "sent" => at'[q] = at[q]
    BY <1>2
  <2> QED BY <1>1, <2>1, InTimeRests
<1>4. ASSUME NEW q \in TradingRuns, at[q].pc = "checked"
      PROVE  /\ review[call[at[q].id].review].price \in Nat
             /\ review'[call'[at[q].id].review].price = review[call[at[q].id].review].price
  BY <1>1, <1>4, CheckedPrice
<1> QED BY <1>0, <1>1, <1>2, <1>3, <1>4, LimitKeeps

\* Under the lock, what is in time is what the account shows: no other run has
\* an order in flight.
LEMMA AllIsShown ==
  ASSUME DeskInv, LimitInv, NEW r \in TradingRuns, at[r].pc \in Checking, NEW o \in Calls,
         InTime(o)
  PROVE  Counts(o)
<1>1. lock = r
  BY DEF DeskInv, Guarded
<1>2. \A q \in TradingRuns : at[q].pc # "sent"
  BY <1>1 DEF LimitInv, SendersLock, Checking
<1> QED BY <1>2 DEF InTime, Stray

\* The checks of a buy.
LEMMA CheckLimit ==
  ASSUME DeskInv, DeskTypeOK', LimitInv, NEW r \in TradingRuns, LockBuy(r) \/ CheckBuy(r)
  PROVE  LimitInv'
<1>0. DeskTypeOK /\ at[r] \in AtRow
  BY DEF DeskInv, DeskTypeOK
<1>1. /\ \A q \in TradingRuns : q # r => at'[q] = at[q]
      /\ at'[r].pc \in Checking /\ at'[r].id = at[r].id
      /\ UNCHANGED <<order, cap, review, call>>
      /\ lock' = r
  <2>1. CASE LockBuy(r)
    BY <1>0, <2>1 DEF LockBuy, DeskTypeOK, Does, Free, Checking
  <2>2. CASE CheckBuy(r)
    BY <1>0, <2>2 DEF CheckBuy, DeskTypeOK, AtRow, Checking, DeskInv, Guarded
  <2> QED BY <2>1, <2>2
<1>2. \A q \in TradingRuns : q # r => at[q].pc \notin Checking \cup {"sent"}
  <2>1. CASE LockBuy(r)
    BY <2>1, LockFree DEF LockBuy
  <2>2. CASE CheckBuy(r)
    BY <2>2 DEF CheckBuy, DeskInv, Guarded, Checking, LimitInv, SendersLock
  <2> QED BY <2>1, <2>2
<1>3. DailyLimit' = DailyLimit
  BY <1>1, LimitRests
<1>4. SendersLock'
  BY <1>1, <1>2 DEF SendersLock, Checking
<1>5. at'[r].limit = DailyLimit
  <2>1. CASE LockBuy(r)
    BY <1>0, <2>1 DEF LockBuy, DeskTypeOK, Does, Free
  <2>2. CASE CheckBuy(r)
    BY <1>0, <2>2 DEF CheckBuy, DeskTypeOK, AtRow, Checking, LimitInv, LimitsStand
  <2> QED BY <2>1, <2>2
<1>6. LimitsStand'
  BY <1>1, <1>2, <1>3, <1>5 DEF LimitsStand
<1>7. CASE LockBuy(r)
  <2>1. at'[r].pc = "locked"
    BY <1>0, <1>7 DEF LockBuy, DeskTypeOK, Does, Free
  <2>2. \A q \in TradingRuns : at'[q].pc # "checked"
    BY <1>1, <1>2, <2>1 DEF Checking
  <2> QED BY <1>4, <1>6, <2>2 DEF LimitInv
<1>8. CASE CheckBuy(r)
  <2> DEFINE price == review[call[at[r].id].review].price
  <2>1. Exposure + price <= at[r].limit /\ at[r].pc = "locked"
    BY <1>8 DEF CheckBuy, BuyAllowed
  <2>2. Committed <= Exposure /\ Committed \in Nat /\ Exposure \in Nat
    <3> DEFINE T == {o \in Calls : InTime(o)}
               E == {o \in Calls : Counts(o)}
    <3>1. T \subseteq E /\ T \in SUBSET Calls /\ E \in SUBSET Calls
      BY <2>1, AllIsShown DEF Checking
    <3>2. Committed = Cost(T) /\ Exposure = Cost(E)
      BY DEF Committed, Exposure
    <3> HIDE DEF T, E
    <3> QED BY <1>0, <3>1, <3>2, CostGrows, CostsAreNats
  <2>3. Committed' <= Committed /\ Committed' \in Nat
    <3>1. \A q \in TradingRuns : at'[q].pc = "sent" => at'[q] = at[q]
      BY <1>1 DEF Checking
    <3>2. \A o \in Calls : InTime(o)' => InTime(o) /\ order'[o].price = order[o].price
      BY <1>1, <3>1, InTimeRests
    <3> QED BY <1>0, <3>2, CommittedFalls
  <2>4. price \in Nat /\ at[r].limit \in Nat /\ at'[r].limit = at[r].limit
    <3>1. at'[r].limit = at[r].limit /\ at'[r].pc = "checked"
      BY <1>0, <1>8 DEF CheckBuy, DeskTypeOK, AtRow
    <3>2. review'[call'[at'[r].id].review].price = price
      BY <1>1
    <3>3. at[r].id \in Calls /\ call[at[r].id].run = r
      BY <2>1 DEF DeskInv, LedgerInv, CallsAreOwn, Buying
    <3>4. call[at[r].id] # NoCall
      BY <3>3, TradeAssumption DEF NoCall, Nobody
    <3>5. call[at[r].id].review \in Reviews
      BY <1>0, <3>3, <3>4, CallsReal
    <3>6. review[call[at[r].id].review] \in ReviewRow
      BY <1>0, <3>5 DEF DeskTypeOK
    <3> QED BY <1>0, <3>1, <3>6 DEF AtRow, ReviewRow
  <2> HIDE DEF price
  <2>5. Committed' + price <= at'[r].limit
    BY <2>1, <2>2, <2>3, <2>4
  <2>6. CheckedFits(r)'
    BY <1>1, <2>5 DEF CheckedFits, price
  <2>7. \A q \in TradingRuns : at'[q].pc = "checked" => q = r
    BY <1>1, <1>2 DEF Checking
  <2> QED BY <1>4, <1>6, <2>6, <2>7 DEF LimitInv
<1> QED BY <1>7, <1>8

\* An order that is sent adds its price to what the day is committed to.
LEMMA CommittedRises ==
  ASSUME DeskTypeOK, DeskTypeOK', NEW c \in Calls, InTime(c)',
         \A o \in Calls : o # c /\ InTime(o)' => InTime(o) /\ order'[o].price = order[o].price,
         ~InTime(c)
  PROVE  /\ Committed' <= Committed + order'[c].price
         /\ Committed \in Nat /\ Committed' \in Nat
<1> DEFINE e == [o \in Calls |-> order[o].price]
           f == [o \in Calls |-> order'[o].price]
           T == {o \in Calls : InTime(o)}
           S == {o \in Calls : InTime(o)'}
<1>1. /\ c \in S /\ S \ {c} \in SUBSET T
      /\ IsFiniteSet(T) /\ IsFiniteSet(S) /\ IsFiniteSet(S \ {c})
  <2>1. T \subseteq Calls /\ S \subseteq Calls /\ S \ {c} \subseteq Calls
    OBVIOUS
  <2> QED BY <2>1, TradeAssumption, FS_Subset
<1>2. (\A x \in T : e[x] \in Nat) /\ (\A x \in S : f[x] \in Nat) /\ f[c] = order'[c].price
  <2>1. order \in [Calls -> OrderRow] /\ order' \in [Calls -> OrderRow]
    BY DEF DeskTypeOK
  <2> QED BY <2>1, PricesAreNats
<1>3. \A x \in S \ {c} : f[x] = e[x]
  OBVIOUS
<1>4. Committed = SumFunctionOnSet(e, T) /\ Committed' = SumFunctionOnSet(f, S)
  BY DEF Committed, Cost
<1> HIDE DEF e, f, S, T
<1>5. SumFunctionOnSet(f, S \ {c}) <= SumFunctionOnSet(e, T)
  BY <1>1, <1>2, <1>3, SumGrows
<1>6. SumFunctionOnSet(f, S) = f[c] + SumFunctionOnSet(f, S \ {c})
  BY <1>1, <1>2, SumTakes
<1>7. /\ SumFunctionOnSet(f, S \ {c}) \in Nat /\ SumFunctionOnSet(e, T) \in Nat
      /\ SumFunctionOnSet(f, S) \in Nat /\ f[c] \in Nat
  BY <1>1, <1>2, SumTakes
<1> QED BY <1>2, <1>4, <1>5, <1>6, <1>7

\* The order of a checked buy fits below the limit of the day.
LEMMA SendLimit ==
  ASSUME DeskInv, DeskTypeOK', LimitInv, NEW r \in TradingRuns, SendBuy(r)
  PROVE  LimitInv' /\ Committed' <= DailyLimit'
<1>1. DeskTypeOK /\ at[r] \in AtRow /\ at[r].pc = "checked"
  BY DEF DeskInv, DeskTypeOK, SendBuy
<1>2. PICK c : c = at[r].id
  OBVIOUS
<1>3. PICK price : price = review[call[c].review].price
  OBVIOUS
<1>4. /\ c \in Calls /\ price \in Nat /\ order[c].status = "NONE"
      /\ lock = r /\ CheckedFits(r) /\ at[r].limit = DailyLimit
  <2>1. c \in Calls /\ order[c].status = "NONE"
    BY <1>1, <1>2 DEF DeskInv, LedgerInv, CallsAreOwn, Buying, Drafts
  <2>2. lock = r
    BY <1>1 DEF DeskInv, Guarded, Checking
  <2>3. CheckedFits(r) /\ at[r].limit = DailyLimit
    BY <1>1 DEF LimitInv, LimitsStand, Checking
  <2>4. price \in Nat
    BY <1>1, <1>2, <1>3, CheckedPrice
  <2> QED BY <2>1, <2>2, <2>3, <2>4
<1>5. /\ at'[r].pc = "sent" /\ at'[r].id = c
      /\ \A q \in TradingRuns : q # r => at'[q] = at[q]
      /\ UNCHANGED <<lock, cap, review, call>>
  BY <1>1, <1>2 DEF SendBuy, DeskTypeOK, AtRow
<1>6. /\ order'[c].status = "IN_FLIGHT" /\ ~order'[c].late /\ order'[c].price = price
      /\ \A o \in Calls : o # c => order'[o] = order[o]
  BY <1>1, <1>2, <1>3, <1>4 DEF SendBuy, DeskTypeOK
<1>7. \A q \in TradingRuns : q # r => at[q].pc \notin Checking \cup {"sent"}
  BY <1>4 DEF DeskInv, Guarded, LimitInv, SendersLock
<1>8. InTime(c)' /\ ~InTime(c)
  <2>1. ~Stray(c)'
    BY <1>5 DEF Stray
  <2> QED BY <1>4, <1>6, <2>1 DEF InTime, Counts, Open
<1>9. \A o \in Calls : o # c /\ InTime(o)' => InTime(o) /\ order'[o].price = order[o].price
  <2> SUFFICES ASSUME NEW o \in Calls, o # c, InTime(o)' PROVE InTime(o)
    BY <1>6
  <2>1. ~Stray(o)
    <3>1. ~Stray(o)' /\ order'[o] = order[o]
      BY <1>6 DEF InTime
    <3> QED BY <1>5, <3>1 DEF Stray
  <2> QED BY <1>6, <2>1 DEF InTime, Counts, Open
<1>10. Committed' <= Committed + price /\ Committed \in Nat /\ Committed' \in Nat
  BY <1>1, <1>4, <1>6, <1>8, <1>9, CommittedRises
<1>11. DailyLimit \in Nat
  BY <1>1, LimitIsNat
<1>12. Committed + price <= DailyLimit
  BY <1>2, <1>3, <1>4 DEF CheckedFits
<1>13. DailyLimit' = DailyLimit
  BY <1>5, LimitRests
<1>14. SendersLock'
  BY <1>4, <1>5, <1>7 DEF SendersLock
<1>15. LimitsStand' /\ \A q \in TradingRuns : at'[q].pc # "checked"
  BY <1>5, <1>7 DEF LimitsStand, Checking
<1> QED BY <1>4, <1>10, <1>11, <1>12, <1>13, <1>14, <1>15 DEF LimitInv

\* Nobody has sent or checked anything when the desk opens.
LEMMA LimitOpens == DeskInit => LimitInv
<1> SUFFICES ASSUME DeskInit PROVE LimitInv
  OBVIOUS
<1>1. \A r \in TradingRuns : at[r].pc = "unborn"
  BY DEF DeskInit, Free
<1> QED BY <1>1 DEF LimitInv, SendersLock, LimitsStand, Checking

\* Every step keeps what the checks have found.
LEMMA LimitSteps == DeskInv /\ DeskInv' /\ LimitInv /\ [DeskNext]_deskVars => LimitInv'
<1> SUFFICES ASSUME DeskInv, DeskTypeOK', LimitInv, [DeskNext]_deskVars PROVE LimitInv'
  BY DEF DeskInv
<1>1. ASSUME NEW r \in TradingRuns, TradeStep(r) PROVE LimitInv'
  <2>1. CASE StartRun(r) \/ DeclareCap(r) \/ RefuseBuy(r) \/ BuyAnswered(r) \/ Die(r)
    BY <2>1, QuietLimit
  <2>2. CASE \/ \E v \in Reviews : PrepareBuy(r, v)
             \/ \E c \in Calls, v \in Reviews : AskBuy(r, c, v)
    BY <2>2, LedgerLimit
  <2>3. CASE LockBuy(r) \/ CheckBuy(r)
    BY <2>3, CheckLimit
  <2>4. CASE SendBuy(r)
    BY <2>4, SendLimit
  <2>5. CASE \/ CheckCancel(r) \/ SendCancel(r) \/ RefuseCancel(r)
             \/ \E o \in Calls : AskCancel(r, o)
    BY <2>5, ActingLimit
  <2> QED BY <1>1, <2>1, <2>2, <2>3, <2>4, <2>5 DEF TradeStep
<1>2. ASSUME NEW r \in TradingRuns, CycleStep(r) PROVE LimitInv'
  <2>1. CASE LooksOn(r)
    BY <2>1, LookingLimit
  <2>2. CASE CycleEnsure(r) \/ ActClaim(r) \/ NotSent(r) \/ SystemCancel(r) \/ FinishCancel(r)
    BY <2>2, ActingLimit
  <2> QED BY <1>2, <2>1, <2>2 DEF CycleStep, LooksOn
<1>3. ASSUME NEW o \in Calls, BrokerMoves(o) PROVE LimitInv'
  BY <1>3, BrokerLimit
<1>4. CASE UNCHANGED deskVars
  <2>1. UNCHANGED <<order, lock, cap, review, call, at>>
    BY <1>4 DEF deskVars
  <2>2. \A q \in TradingRuns : at[q].pc = "checked" =>
          review[call[at[q].id].review].price \in Nat
    BY CheckedPrice
  <2>3. \A o \in Calls : InTime(o)' => InTime(o) /\ order'[o].price = order[o].price
    BY <2>1, InTimeRests
  <2>4. DeskTypeOK
    BY DEF DeskInv
  <2> QED BY <2>1, <2>2, <2>3, <2>4, LimitKeeps
<1> QED BY <1>1, <1>2, <1>3, <1>4 DEF DeskNext

\* Whatever other runs declare, buy or have cancelled meanwhile, and whoever
\* dies when: no order is sent that takes the day's commitments above the
\* lowest declared cap.
THEOREM BuysStayWithinLimit == DeskSpec => BuysWithinLimit
<1>1. DeskInv /\ DeskInv' /\ LimitInv /\ [DeskNext]_deskVars
      => [\A o \in Calls : Placed(o) => Committed' <= DailyLimit']_deskVars
  <2> SUFFICES ASSUME DeskInv, DeskTypeOK', LimitInv, DeskNext, NEW o \in Calls, Placed(o)
               PROVE  Committed' <= DailyLimit'
    BY DEF DeskInv
  <2> QED BY PlacedBySending, SendLimit
<1>2. DeskSpec => []LimitInv
  BY LimitOpens, LimitSteps, DeskInOrder, PTL DEF DeskSpec
<1> QED BY <1>1, <1>2, DeskInOrder, PTL DEF DeskSpec, BuysWithinLimit

==============================================================================
