----------------------- MODULE ValuationCancellation -----------------------
(***************************************************************************)
(* The system's own cancellations: every watch and every analysis runs a   *)
(* cycle that audits the open bids and cancels those whose valuation is    *)
(* gone, beside the runs that buy and cancel by the model's choice.  The   *)
(* row of an order is its authority: REQUIRED may be claimed once, and a   *)
(* request that may have been received is never sent again.                *)
(***************************************************************************)
EXTENDS BuyGate

Terminal == {"CANCELLED", "CLOSED"}
Outstanding == {o \in Calls : intent[o].state \in Managed}

\* What a query of the account says about an outstanding row.
Reconciled(row, status) ==
  CASE row.state \in Terminal \cup {"NONE"} -> row
    [] row.state \notin Terminal \cup {"NONE"} /\ status = "CANCELLED" ->
         [row EXCEPT !.state = "CANCELLED"]
    [] row.state \notin Terminal \cup {"NONE"} /\ status = "FILLED" ->
         [row EXCEPT !.state = "CLOSED"]
    [] row.state \notin Terminal \cup {"NONE"} /\ status = "PENDING_CANCEL" ->
         [row EXCEPT !.state = "PENDING_CANCEL"]
    [] row.state = "SUBMITTING" /\ status = "PENDING" ->
         [row EXCEPT !.state = "UNKNOWN"]
    [] OTHER -> row

\* The cycle reads the account and settles every outstanding row on it; the
\* other open bids go to the audit.
CycleRead(r) ==
  /\ at[r].pc = "free"
  /\ intent' = [o \in Calls |-> Reconciled(intent[o], order[o].status)]
  /\ at' = [at EXCEPT ![r] = [Free EXCEPT !.pc = "auditing",
                                          !.touched = Outstanding,
                                          !.todo = {o \in Calls : Open(o)} \ Outstanding]]
  /\ UNCHANGED <<order, lock, cap, review, call, withdrawal, sent, undone, prior>>

\* Mutant: the model's own cancel calls are not looked up.
EnsuredAlone(r, o) ==
  IF intent[o].state = "NONE"
  THEN [state |-> "REQUIRED", trigger |-> r, request |-> Nobody]
  ELSE intent[o]

\* ensure: a row of its own, or a contradiction, or the model's earlier call.
Ensured(r, o) ==
  LET row == IF intent[o].state = "NONE"
             THEN [state |-> "REQUIRED", trigger |-> r, request |-> Nobody]
             ELSE intent[o]
  IN IF row.state \in Terminal THEN [row EXCEPT !.state = "UNKNOWN"]
     ELSE IF row.state = "REQUIRED" /\ row.request = Nobody /\ withdrawal[o].run # Nobody
     THEN [row EXCEPT !.request = withdrawal[o].run,
                      !.state = IF withdrawal[o].status = "COMPLETED"
                                THEN "SUBMITTED" ELSE "UNKNOWN"]
     ELSE row

\* Mutant: intents are written without waiting for a buy under way.
CycleEnsureAtOnce(r) ==
  /\ at[r].pc = "auditing"
  /\ \E failed \in SUBSET at[r].todo :
       /\ intent' = [o \in Calls |-> IF o \in failed THEN Ensured(r, o) ELSE intent[o]]
       /\ at' = [at EXCEPT ![r] = [Free EXCEPT !.pc = "acting",
                                               !.todo = at[r].touched \cup failed]]
  /\ UNCHANGED <<order, lock, cap, review, call, withdrawal, sent, undone, prior>>

\* Under the trade lock, one transaction for all bids that failed the audit.
CycleEnsure(r) ==
  /\ at[r].pc = "auditing"
  /\ lock = Nobody
  /\ \E failed \in SUBSET at[r].todo :
       /\ intent' = [o \in Calls |-> IF o \in failed THEN Ensured(r, o) ELSE intent[o]]
       /\ at' = [at EXCEPT ![r] = [Free EXCEPT !.pc = "acting",
                                               !.todo = at[r].touched \cup failed]]
  /\ UNCHANGED <<order, lock, cap, review, call, withdrawal, sent, undone, prior>>

Next1(r) == Min(at[r].todo)
Passed(r) == [Free EXCEPT !.pc = "acting", !.todo = at[r].todo \ {Next1(r)}]
Acting(r, pc) == [at[r] EXCEPT !.pc = pc, !.id = Next1(r)]

\* A fresh query just before the claim; a row that is not REQUIRED is done
\* with, an order that cannot be cancelled now waits for a later cycle.
ActCheck(r) ==
  /\ at[r].pc = "acting" /\ at[r].todo # {}
  /\ LET o == Next1(r) IN
       \/ /\ intent[o].state # "REQUIRED"
          /\ at' = [at EXCEPT ![r] = Passed(r)]
          /\ UNCHANGED intent
       \/ /\ intent[o].state = "REQUIRED"
          /\ intent' = [intent EXCEPT ![o] = Reconciled(@, order[o].status)]
          /\ at' = [at EXCEPT ![r] =
                     IF order[o].status = "PENDING" THEN Acting(r, "claiming") ELSE Passed(r)]
  /\ UNCHANGED <<order, lock, cap, review, call, withdrawal, sent, undone, prior>>

\* The trading session has ended for cancellations: nothing is claimed.
ActTooLate(r) ==
  /\ at[r].pc = "claiming"
  /\ at' = [at EXCEPT ![r] = Passed(r)]
  /\ UNCHANGED <<order, lock, cap, review, call, withdrawal, intent, sent, undone, prior>>

\* claim: the row is taken in a commit of its own before any byte is sent.
ActClaim(r) ==
  /\ at[r].pc = "claiming"
  /\ \/ /\ intent[at[r].id].state = "REQUIRED"
        /\ intent' = [intent EXCEPT ![at[r].id].state = "SUBMITTING",
                                    ![at[r].id].request = r]
        /\ at' = [at EXCEPT ![r].pc = "submitting"]
     \/ /\ intent[at[r].id].state # "REQUIRED"
        /\ at' = [at EXCEPT ![r] = Passed(r)]
        /\ UNCHANGED intent
  /\ UNCHANGED <<order, lock, cap, review, call, withdrawal, sent, undone, prior>>

\* _finish leaves a row alone that was settled meanwhile.
Finished(o, state) ==
  IF intent[o].state \in Terminal THEN intent ELSE [intent EXCEPT ![o].state = state]

\* The last guard refuses before a byte is sent: the row is free again.
NotSent(r) ==
  /\ at[r].pc = "submitting"
  /\ intent' = Finished(at[r].id, "REQUIRED")
  /\ at' = [at EXCEPT ![r].pc = "confirming"]
  /\ UNCHANGED <<order, lock, cap, review, call, withdrawal, sent, undone, prior>>

SystemCancel(r) ==
  /\ at[r].pc = "submitting"
  /\ Sent(at[r].id, IF "system" \in sent[at[r].id] THEN "system again" ELSE "system")
  /\ order' \in {order} \cup
       (IF order[at[r].id].status = "PENDING" THEN {Withdrawn(at[r].id)} ELSE {})
  /\ at' = [at EXCEPT ![r].pc = "submitted"]
  /\ UNCHANGED <<lock, cap, review, call, withdrawal, intent, undone, prior>>

FinishCancel(r) ==
  /\ at[r].pc = "submitted"
  /\ \/ /\ order[at[r].id].status # "PENDING"
        /\ intent' = Finished(at[r].id, "SUBMITTED")
     \/ intent' = Finished(at[r].id, "UNKNOWN")
  /\ at' = [at EXCEPT ![r].pc = "confirming"]
  /\ UNCHANGED <<order, lock, cap, review, call, withdrawal, sent, undone, prior>>

\* A new query settles the row, unless that query fails.
ConfirmCancel(r) ==
  /\ at[r].pc = "confirming"
  /\ \/ intent' = [intent EXCEPT ![at[r].id] = Reconciled(@, order[at[r].id].status)]
     \/ UNCHANGED intent
  /\ at' = [at EXCEPT ![r] = Passed(r)]
  /\ UNCHANGED <<order, lock, cap, review, call, withdrawal, sent, undone, prior>>

CycleEnds(r) ==
  /\ at[r].pc = "acting" /\ at[r].todo = {}
  /\ at' = [at EXCEPT ![r] = Free]
  /\ UNCHANGED <<order, lock, cap, review, call, withdrawal, intent, sent, undone, prior>>

CycleStep(r) ==
  \/ /\ \/ CycleEnsure(r) \/ ActCheck(r) \/ ActTooLate(r) \/ ActClaim(r)
        \/ NotSent(r) \/ SystemCancel(r) \/ FinishCancel(r) \/ ConfirmCancel(r)
        \/ CycleEnds(r)
     /\ UNCHANGED left
  \/ Spend("cycle") /\ CycleRead(r)

DeskNext ==
  \/ \E r \in TradingRuns : TradeStep(r) \/ CycleStep(r)
  \/ \E o \in Calls : BrokerMoves(o) /\ UNCHANGED left

DeskSpec == DeskInit /\ [][DeskNext]_deskVars

------------------------------------------------------------------------------
\* The system and the model never both ask the broker to cancel one order, and
\* the system never asks twice, whatever was lost, answered late or left
\* behind by a process that died between the claim and the answer.
OneCancelSender ==
  \A o \in Calls : ~({"model", "system"} \subseteq sent[o]) /\ "system again" \notin sent[o]
==============================================================================
