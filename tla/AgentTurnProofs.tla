-------------------------- MODULE AgentTurnProofs --------------------------
(***************************************************************************)
(* For any calls a model may ask for and any limits: a call that writes    *)
(* runs alone, none is repeated beyond its bound, every request is one a   *)
(* provider accepts, and the session shows the conversation of its loop.   *)
(***************************************************************************)
EXTENDS AgentTurn, FiniteSetTheorems, SequenceTheorems, WellFoundedInduction, TLAPS

\* One prompt of a session: what the theorems are about.
TurnSpec == TurnInit /\ [][TurnNext]_turnVars

------------------------------------------------------------------------------
(* Data. *)

\* A set of natural numbers has its Least.
LEMMA LeastOfNats ==
  ASSUME NEW S \in SUBSET Nat, S # {}
  PROVE  Least(S) \in S /\ \A y \in S : Least(S) <= y
<1> DEFINE NN == {n \in Nat : n \in S}
<1>1. NN = S
  OBVIOUS
<1>2. PICK x \in NN : \A y \in NN : <<y, x>> \notin OpToRel(<, Nat)
  BY <1>1, WFMin, NatLessThanWellFounded, Zenon
<1>3. \A y \in NN : ~(y < x)
  BY <1>2, Zenon DEF OpToRel
<1>4. \A y \in S : x <= y
  BY <1>1, <1>3
<1> QED BY <1>1, <1>4 DEF Least

CallState == {"waiting", "running", "done"}
CallRow   == [key : Keys, state : CallState]
Batches   == UNION {[1 .. n -> CallRow] : n \in 0 .. 2}

\* What is a prompt's own: where it is, and the calls it waits for.
TurnTypeOK ==
  /\ {"pc", "batch", "messages", "mutations", "prompt", "replies", "recovered"} = DOMAIN turn
  /\ turn.pc \in {"idle", "top", "ask", "calls", "failed"}
  /\ turn.batch \in Batches
  /\ failures \in [Keys -> Nat]

\* Who waits for no calls has none.
Idling == turn.pc \notin {"calls", "failed"} => turn.batch = <<>>

Running(k) == {i \in With("running") : turn.batch[i].key = k}

\* No more calls are under way than the batch has slots; and of a batch with a
\* call that writes nothing is left once its prompt has failed.
SlotsKept ==
  /\ Cardinality(With("running")) <= Slots
  /\ OneByOne /\ turn.pc # "calls" => With("done") = DOMAIN turn.batch

\* A call under way counts as a failure that may yet be reported.
FailuresBounded ==
  \A k \in Keys : failures[k] + Cardinality(Running(k)) <=
    MaxFailures + (IF k \in SequentialKeys THEN 0 ELSE Concurrency - 1)

TurnInv == TurnTypeOK /\ Idling /\ SlotsKept /\ FailuresBounded

\* The calls of a batch are few, and so are those in any state.
LEMMA BatchesAreFinite ==
  ASSUME TurnTypeOK
  PROVE  /\ DOMAIN turn.batch \in SUBSET Nat
         /\ \A i \in DOMAIN turn.batch : turn.batch[i] \in CallRow
         /\ \A S \in SUBSET DOMAIN turn.batch : IsFiniteSet(S) /\ Cardinality(S) \in Nat
         /\ Slots \in {1, Concurrency}
<1>1. PICK n \in 0 .. 2 : turn.batch \in [1 .. n -> CallRow]
  BY DEF TurnTypeOK, Batches
<1>2. IsFiniteSet(1 .. n)
  BY FS_Interval
<1>3. ASSUME NEW S \in SUBSET DOMAIN turn.batch PROVE IsFiniteSet(S) /\ Cardinality(S) \in Nat
  <2>1. S \in SUBSET (1 .. n)
    BY <1>1
  <2> QED BY <1>2, <2>1, FS_Subset, FS_CardinalityType
<1> QED BY <1>1, <1>3 DEF Slots

\* A step after which no call is under way.
LEMMA NoneRuns ==
  ASSUME TurnInv, TurnTypeOK', Idling',
         turn'.batch = <<>> \/ turn'.pc = "calls",
         \A i \in DOMAIN turn'.batch : turn'.batch[i].state = "waiting",
         \A k \in Keys : failures'[k] \in {0, failures[k]}
  PROVE  TurnInv'
<1>1. With("running")' = {} /\ \A k \in Keys : Running(k)' = {}
  BY DEF With, Running
<1>2. Cardinality({}) = 0
  BY FS_EmptySet
<1>3. SlotsKept'
  <2>1. turn'.pc # "calls" => With("done")' = DOMAIN turn'.batch
    <3> SUFFICES ASSUME turn'.batch = <<>> PROVE With("done")' = DOMAIN turn'.batch
      OBVIOUS
    <3> QED BY DEF With
  <2>2. Slots' \in Nat
    BY TurnAssumption DEF Slots
  <2> QED BY SMTT(20), <1>1, <1>2, <2>1, <2>2 DEF SlotsKept
<1>4. FailuresBounded'
  <2> SUFFICES ASSUME NEW k \in Keys
               PROVE  failures'[k] + 0 <=
                        MaxFailures + (IF k \in SequentialKeys THEN 0 ELSE Concurrency - 1)
    BY <1>1, <1>2 DEF FailuresBounded
  <2>1. Cardinality(Running(k)) \in Nat
    BY BatchesAreFinite DEF TurnInv, Running, With
  <2>2. failures[k] + Cardinality(Running(k)) <=
          MaxFailures + (IF k \in SequentialKeys THEN 0 ELSE Concurrency - 1)
    BY DEF TurnInv, FailuresBounded
  <2>3. failures[k] \in Nat
    BY DEF TurnInv, TurnTypeOK
  <2> QED BY <2>1, <2>2, <2>3, TurnAssumption
<1> QED BY <1>3, <1>4 DEF TurnInv

\* A batch in which nobody has started.
LEMMA NewBatch ==
  /\ <<>> \in Batches
  /\ \A keys \in [1 .. 1 -> Keys] \cup [1 .. 2 -> Keys] :
       [i \in DOMAIN keys |-> [key |-> keys[i], state |-> "waiting"]] \in Batches
<1>1. <<>> \in [1 .. 0 -> CallRow]
  OBVIOUS
<1>2. ASSUME NEW n \in {1, 2}, NEW keys \in [1 .. n -> Keys]
      PROVE  [i \in DOMAIN keys |-> [key |-> keys[i], state |-> "waiting"]] \in Batches
  <2>1. [i \in DOMAIN keys |-> [key |-> keys[i], state |-> "waiting"]] \in [1 .. n -> CallRow]
    BY DEF CallRow, CallState
  <2> QED BY <2>1 DEF Batches
<1> QED BY <1>1, <1>2 DEF Batches

\* The steps of a prompt outside its batches.
LEMMA LoopSteps ==
  ASSUME TurnInv,
         \/ PromptStarts \/ Compacts \/ Overflows \/ Answers \/ AsksTools \/ PromptFails
         \/ BatchCancelled \/ BatchEnds
  PROVE  TurnInv'
<1>0. DOMAIN turn = {"pc", "batch", "messages", "mutations", "prompt", "replies", "recovered"}
  BY DEF TurnInv, TurnTypeOK
<1>1. ASSUME \/ PromptStarts \/ Compacts \/ Overflows \/ Answers \/ PromptFails
      PROVE  /\ DOMAIN turn' = DOMAIN turn /\ turn'.batch = <<>>
             /\ turn'.pc \in {"idle", "top", "ask", "failed"}
             /\ failures' \in {failures, [k \in Keys |-> 0]}
  <2>1. turn.batch = <<>>
    BY <1>1 DEF TurnInv, Idling, PromptStarts, Compacts, Overflows, Answers, PromptFails
  <2>2. CASE PromptStarts
    BY <1>0, <2>1, <2>2 DEF PromptStarts
  <2>3. CASE Compacts
    BY <1>0, <2>1, <2>3 DEF Compacts, Recast
  <2>4. CASE Overflows
    BY <1>0, <2>1, <2>4 DEF Overflows, Recast
  <2>5. CASE Answers
    BY <1>0, <2>1, <2>5 DEF Answers
  <2>6. CASE PromptFails
    BY <1>0, <2>1, <2>6 DEF PromptFails
  <2> QED BY <1>1, <2>2, <2>3, <2>4, <2>5, <2>6
<1>2. ASSUME BatchCancelled \/ BatchEnds
      PROVE  /\ DOMAIN turn' = DOMAIN turn /\ turn'.batch = <<>>
             /\ turn'.pc \in {"idle", "top", "ask", "failed"}
             /\ failures' \in {failures, [k \in Keys |-> 0]}
  <2>1. CASE BatchCancelled
    BY <1>0, <2>1 DEF BatchCancelled
  <2>2. CASE BatchEnds
    BY <1>0, <2>2 DEF BatchEnds
  <2> QED BY <1>2, <2>1, <2>2
<1>3. CASE AsksTools
  <2>1. PICK keys \in [1 .. 1 -> Keys] \cup [1 .. 2 -> Keys] :
          LET reply == Reply(turn.replies + 1, Len(keys))
          IN turn' = [turn EXCEPT !.pc = "calls", !.replies = @ + 1,
                                  !.messages = Append(@, reply), !.mutations = Append(@, reply),
                                  !.batch = [i \in DOMAIN keys |->
                                               [key |-> keys[i], state |-> "waiting"]]]
    BY <1>3 DEF AsksTools
  <2>2. /\ DOMAIN turn' = DOMAIN turn /\ turn'.pc = "calls"
        /\ turn'.batch = [i \in DOMAIN keys |-> [key |-> keys[i], state |-> "waiting"]]
    BY <1>0, <2>1
  <2>3. failures' = failures
    BY <1>3 DEF AsksTools
  <2>4. TurnTypeOK' /\ Idling'
    BY <1>0, <2>2, <2>3, NewBatch DEF TurnInv, TurnTypeOK, Idling
  <2> QED BY <2>2, <2>3, <2>4, NoneRuns
<1>4. CASE ~AsksTools
  <2>1. /\ DOMAIN turn' = DOMAIN turn /\ turn'.batch = <<>>
        /\ turn'.pc \in {"idle", "top", "ask", "failed"}
        /\ failures' \in {failures, [k \in Keys |-> 0]}
    BY <1>1, <1>2, <1>4
  <2>2. TurnTypeOK' /\ Idling'
    BY <1>0, <2>1, NewBatch DEF TurnInv, TurnTypeOK, Idling
  <2>3. \A i \in DOMAIN turn'.batch : turn'.batch[i].state = "waiting"
    BY <2>1
  <2>4. \A k \in Keys : failures'[k] \in {0, failures[k]}
    BY <2>1
  <2> QED BY <2>1, <2>2, <2>3, <2>4, NoneRuns
<1> QED BY <1>3, <1>4

\* What the end of a call leaves of the batch.
LEMMA Settled ==
  ASSUME TurnInv, NEW i \in DOMAIN turn.batch, Settles(i)
  PROVE  /\ DOMAIN turn' = DOMAIN turn /\ turn'.batch \in Batches
         /\ DOMAIN turn'.batch = DOMAIN turn.batch
         /\ \A j \in DOMAIN turn.batch :
              /\ turn'.batch[j].key = turn.batch[j].key
              /\ turn'.batch[j].state # "done" =>
                   turn'.batch[j].state = turn.batch[j].state /\ j # i
         /\ \/ turn'.pc = turn.pc
            \/ turn'.pc = "failed" /\ (OneByOne => \A j \in DOMAIN turn.batch :
                                                     turn'.batch[j].state = "done")
<1> DEFINE batch == [turn.batch EXCEPT ![i].state = "done"]
           done  == [j \in DOMAIN batch |-> [batch[j] EXCEPT !.state = "done"]]
<1>0. DOMAIN turn = {"pc", "batch", "messages", "mutations", "prompt", "replies", "recovered"}
  BY DEF TurnInv, TurnTypeOK
<1>1. PICK n \in 0 .. 2 : turn.batch \in [1 .. n -> CallRow]
  BY DEF TurnInv, TurnTypeOK, Batches
<1>2. /\ batch \in [1 .. n -> CallRow]
      /\ \A j \in DOMAIN turn.batch :
           /\ batch[j].key = turn.batch[j].key
           /\ j # i => batch[j].state = turn.batch[j].state
           /\ j = i => batch[j].state = "done"
  BY <1>1 DEF CallRow, CallState
<1>3. /\ done \in [1 .. n -> CallRow]
      /\ \A j \in DOMAIN turn.batch : done[j].key = turn.batch[j].key /\ done[j].state = "done"
  BY <1>1, <1>2 DEF CallRow, CallState
<1>4. CASE turn' = [turn EXCEPT !.batch = batch]
  <2>1. turn'.batch = batch /\ turn'.pc = turn.pc /\ DOMAIN turn' = DOMAIN turn
    BY <1>0, <1>4
  <2> QED BY <1>1, <1>2, <2>1 DEF Batches
<1>5. CASE turn' = Torn(batch)
  <2>1. /\ turn'.batch = IF OneByOne THEN done ELSE batch
        /\ turn'.pc = "failed" /\ DOMAIN turn' = DOMAIN turn
    BY <1>0, <1>5 DEF Torn
  <2>2. CASE OneByOne
    BY <1>1, <1>3, <2>1, <2>2 DEF Batches
  <2>3. CASE ~OneByOne
    BY <1>1, <1>2, <2>1, <2>3 DEF Batches
  <2> QED BY <2>2, <2>3
<1> QED BY <1>4, <1>5 DEF Settles

\* The end of a call gives its slot back, and a failure it reports takes the
\* place of the call.
LEMMA EndOfCall ==
  ASSUME TurnInv, NEW i \in DOMAIN turn.batch, Settles(i), failures' \in [Keys -> Nat],
         \A k \in Keys : \/ failures'[k] = failures[k]
                         \/ i \in Running(k) /\ failures'[k] = failures[k] + 1
  PROVE  TurnInv'
<1>1. /\ DOMAIN turn' = DOMAIN turn /\ turn'.batch \in Batches
      /\ DOMAIN turn'.batch = DOMAIN turn.batch
      /\ \A j \in DOMAIN turn.batch :
           /\ turn'.batch[j].key = turn.batch[j].key
           /\ turn'.batch[j].state # "done" =>
                turn'.batch[j].state = turn.batch[j].state /\ j # i
      /\ \/ turn'.pc = turn.pc
         \/ turn'.pc = "failed" /\ (OneByOne => \A j \in DOMAIN turn.batch :
                                                  turn'.batch[j].state = "done")
  BY Settled
<1>2. TurnTypeOK'
  BY <1>1 DEF TurnInv, TurnTypeOK
<1>3. turn.pc \in {"calls", "failed"}
  <2> SUFFICES ASSUME turn.batch = <<>> PROVE FALSE
    BY DEF TurnInv, Idling
  <2> QED OBVIOUS
<1>4. Idling'
  BY <1>1, <1>3 DEF Idling
<1>5. Asked' = Asked
  BY <1>1 DEF Asked
<1>6. Slots' = Slots /\ OneByOne' = OneByOne
  BY <1>5 DEF Slots, OneByOne
<1>7. With("running")' \subseteq With("running")
  BY <1>1 DEF With
<1>8. IsFiniteSet(With("running")) /\ Slots \in Nat
  BY BatchesAreFinite, TurnAssumption DEF TurnInv, With
<1>9. SlotsKept'
  <2>1. /\ Cardinality(With("running")') <= Cardinality(With("running"))
        /\ Cardinality(With("running")) \in Nat /\ Cardinality(With("running")') \in Nat
    BY <1>7, <1>8, FS_Subset, FS_CardinalityType
  <2>2. Cardinality(With("running")') <= Slots'
    BY <1>6, <1>8, <2>1 DEF TurnInv, SlotsKept
  <2>3. ASSUME OneByOne', turn'.pc # "calls" PROVE With("done")' = DOMAIN turn'.batch
    <3>1. CASE turn'.pc = turn.pc
      <4>1. With("done") = DOMAIN turn.batch
        BY <1>6, <2>3, <3>1 DEF TurnInv, SlotsKept
      <4>2. \A j \in DOMAIN turn.batch : turn'.batch[j].state = "done"
        BY <1>1, <4>1 DEF With
      <4> QED BY <1>1, <4>2 DEF With
    <3>2. CASE turn'.pc # turn.pc
      BY <1>1, <1>6, <2>3, <3>2 DEF With
    <3> QED BY <3>1, <3>2
  <2> QED BY <2>2, <2>3 DEF SlotsKept
<1>10. FailuresBounded'
  <2> SUFFICES ASSUME NEW k \in Keys
               PROVE  failures'[k] + Cardinality(Running(k)') <=
                        MaxFailures + (IF k \in SequentialKeys THEN 0 ELSE Concurrency - 1)
    BY DEF FailuresBounded
  <2>1. /\ failures[k] + Cardinality(Running(k)) <=
             MaxFailures + (IF k \in SequentialKeys THEN 0 ELSE Concurrency - 1)
        /\ failures[k] \in Nat
    BY DEF TurnInv, FailuresBounded, TurnTypeOK
  <2>2. IsFiniteSet(Running(k)) /\ Cardinality(Running(k)) \in Nat
    BY BatchesAreFinite DEF TurnInv, Running, With
  <2>3. Running(k)' \subseteq Running(k) \ {i}
    BY <1>1 DEF Running, With
  <2>4. /\ IsFiniteSet(Running(k) \ {i})
        /\ Cardinality(Running(k) \ {i}) =
             IF i \in Running(k) THEN Cardinality(Running(k)) - 1 ELSE Cardinality(Running(k))
    BY <2>2, FS_RemoveElement
  <2>5. /\ Cardinality(Running(k)') <= Cardinality(Running(k) \ {i})
        /\ Cardinality(Running(k)') \in Nat /\ Cardinality(Running(k) \ {i}) \in Nat
    BY <2>3, <2>4, FS_Subset, FS_CardinalityType
  <2> QED BY <2>1, <2>2, <2>4, <2>5, TurnAssumption
<1> QED BY <1>2, <1>4, <1>9, <1>10 DEF TurnInv

\* A call takes a slot only while one is free, and only if it has not yet failed
\* too often.
LEMMA StartOfCall ==
  ASSUME TurnInv, NEW i \in With("waiting"), Cardinality(With("running")) < Slots,
         ~Refuses(turn.batch[i].key), turn' = [turn EXCEPT !.batch[i].state = "running"],
         UNCHANGED failures
  PROVE  TurnInv'
<1> DEFINE key == turn.batch[i].key
<1>0. DOMAIN turn = {"pc", "batch", "messages", "mutations", "prompt", "replies", "recovered"}
  BY DEF TurnInv, TurnTypeOK
<1>1. PICK n \in 0 .. 2 : turn.batch \in [1 .. n -> CallRow]
  BY DEF TurnInv, TurnTypeOK, Batches
<1>2. i \in DOMAIN turn.batch /\ turn.batch[i].state = "waiting" /\ turn.batch[i] \in CallRow
  BY <1>1 DEF With
<1>3. [turn.batch[i] EXCEPT !.state = "running"] \in CallRow
      /\ [turn.batch[i] EXCEPT !.state = "running"].key = key
      /\ [turn.batch[i] EXCEPT !.state = "running"].state = "running"
  BY <1>2 DEF CallRow, CallState
<1>4. /\ turn'.batch = [turn.batch EXCEPT ![i] = [turn.batch[i] EXCEPT !.state = "running"]]
      /\ turn'.pc = turn.pc /\ DOMAIN turn' = DOMAIN turn
  BY <1>0
<1>5. /\ turn'.batch \in [1 .. n -> CallRow]
      /\ DOMAIN turn'.batch = DOMAIN turn.batch
      /\ \A j \in DOMAIN turn.batch : /\ turn'.batch[j].key = turn.batch[j].key
                                      /\ j # i => turn'.batch[j] = turn.batch[j]
      /\ turn'.batch[i].state = "running"
  BY <1>1, <1>2, <1>3, <1>4
<1>6. TurnTypeOK'
  BY <1>4, <1>5 DEF TurnInv, TurnTypeOK, Batches
<1>7. turn.pc \in {"calls", "failed"}
  <2> SUFFICES ASSUME turn.batch = <<>> PROVE FALSE
    BY DEF TurnInv, Idling
  <2> QED BY <1>2
<1>8. Idling'
  BY <1>4, <1>7 DEF Idling
<1>9. Asked' = Asked
  BY <1>5 DEF Asked
<1>10. Slots' = Slots /\ OneByOne' = OneByOne
  BY <1>9 DEF Slots, OneByOne
<1>11. With("running")' = With("running") \cup {i} /\ i \notin With("running")
  BY <1>2, <1>5 DEF With
<1>12. /\ IsFiniteSet(With("running")) /\ Cardinality(With("running")) \in Nat
       /\ Slots \in {1, Concurrency}
  BY BatchesAreFinite DEF TurnInv, With
<1>13. /\ IsFiniteSet(With("running")')
       /\ Cardinality(With("running")') = Cardinality(With("running")) + 1
  BY <1>11, <1>12, FS_AddElement
<1>14. SlotsKept'
  <2>1. Cardinality(With("running")') <= Slots'
    BY <1>10, <1>12, <1>13, TurnAssumption
  <2>2. ~(OneByOne /\ turn.pc # "calls")
    BY <1>2 DEF TurnInv, SlotsKept, With
  <2> QED BY <1>4, <1>10, <2>1, <2>2 DEF SlotsKept
<1>15. FailuresBounded'
  <2> SUFFICES ASSUME NEW k \in Keys
               PROVE  failures[k] + Cardinality(Running(k)') <=
                        MaxFailures + (IF k \in SequentialKeys THEN 0 ELSE Concurrency - 1)
    BY DEF FailuresBounded
  <2>1. CASE k # key
    <3>1. Running(k)' = Running(k)
      BY <1>2, <1>5, <2>1 DEF Running, With
    <3> QED BY <3>1 DEF TurnInv, FailuresBounded
  <2>2. CASE k = key
    <3>1. Running(k)' \subseteq With("running")'
      BY DEF Running
    <3>2. Cardinality(Running(k)') <= Cardinality(With("running")')
          /\ Cardinality(Running(k)') \in Nat
      BY <1>13, <3>1, FS_Subset, FS_CardinalityType
    <3>3. Cardinality(Running(k)') <= Slots
      BY <1>12, <1>13, <3>2, TurnAssumption
    <3>4. k \in SequentialKeys => Slots = 1
      BY <1>2, <2>2 DEF Slots, OneByOne, Asked
    <3>5. failures[k] \in Nat /\ failures[k] < MaxFailures
      BY <2>2, TurnAssumption DEF Refuses, TurnInv, TurnTypeOK
    <3> QED BY <1>12, <3>2, <3>3, <3>4, <3>5, TurnAssumption
  <2> QED BY <2>1, <2>2
<1> QED BY <1>6, <1>8, <1>14, <1>15 DEF TurnInv

\* Every step keeps the batches in order.
LEMMA TurnSteps == TurnInv /\ [TurnNext]_turnVars => TurnInv'
<1> SUFFICES ASSUME TurnInv, [TurnNext]_turnVars PROVE TurnInv'
  OBVIOUS
<1>1. CASE CallStarts
  <2>1. With("waiting") \in SUBSET Nat
    BY BatchesAreFinite DEF TurnInv, With
  <2>2. Least(With("waiting")) \in With("waiting")
    BY <1>1, <2>1, LeastOfNats DEF CallStarts
  <2>3. CASE Settles(Least(With("waiting")))
    <3>1. Least(With("waiting")) \in DOMAIN turn.batch
      BY <2>2 DEF With
    <3>2. failures' = failures /\ failures \in [Keys -> Nat]
      BY <1>1 DEF CallStarts, TurnInv, TurnTypeOK
    <3> QED BY <2>3, <3>1, <3>2, EndOfCall
  <2>4. CASE ~Settles(Least(With("waiting")))
    BY <1>1, <2>2, <2>4, StartOfCall DEF CallStarts
  <2> QED BY <2>3, <2>4
<1>2. ASSUME NEW i \in DOMAIN turn.batch, CallEnds(i) PROVE TurnInv'
  <2>1. i \in With("running") /\ Settles(i)
    BY <1>2 DEF CallEnds, With
  <2>2. turn.batch[i].key \in Keys
    BY BatchesAreFinite DEF TurnInv, CallRow
  <2>3. failures' \in [Keys -> Nat]
    BY <1>2, <2>2 DEF CallEnds, TurnInv, TurnTypeOK
  <2>4. \A k \in Keys : \/ failures'[k] = failures[k]
                        \/ i \in Running(k) /\ failures'[k] = failures[k] + 1
    BY <1>2, <2>1, <2>2 DEF CallEnds, Running, TurnInv, TurnTypeOK
  <2> QED BY <2>1, <2>3, <2>4, EndOfCall
<1>3. CASE PromptAborted \/ UNCHANGED turnVars
  BY <1>3 DEF PromptAborted, turnVars, TurnInv, TurnTypeOK, Idling, SlotsKept, FailuresBounded,
     Running, With, Slots, OneByOne, Asked
<1> QED BY <1>1, <1>2, <1>3, LoopSteps DEF TurnNext

\* The session opens without a batch.
LEMMA TurnOpens == TurnInit => TurnInv
<1> SUFFICES ASSUME TurnInit PROVE TurnInv
  OBVIOUS
<1>1. turn.batch = <<>> /\ failures = [k \in Keys |-> 0] /\ TurnTypeOK /\ Idling
  BY NewBatch DEF TurnInit, TurnTypeOK, Idling
<1>2. /\ With("running") = {} /\ With("done") = DOMAIN turn.batch
      /\ \A k \in Keys : Running(k) = {}
  BY <1>1 DEF With, Running
<1>3. Cardinality({}) = 0 /\ Slots \in Nat
  BY FS_EmptySet, TurnAssumption DEF Slots
<1>4. SlotsKept
  BY <1>2, <1>3 DEF SlotsKept
<1>5. FailuresBounded
  <2> SUFFICES ASSUME NEW k \in Keys
               PROVE  0 + 0 <= MaxFailures + (IF k \in SequentialKeys THEN 0 ELSE Concurrency - 1)
    BY <1>1, <1>2, <1>3 DEF FailuresBounded
  <2> QED BY TurnAssumption
<1> QED BY <1>1, <1>4, <1>5 DEF TurnInv

\* What the theorems of this module rest on.
LEMMA BatchesInOrder == TurnSpec => []TurnInv
BY TurnOpens, TurnSteps, PTL DEF TurnSpec

\* For every limit of parallel calls: a call that writes has no other beside it,
\* and none writes once its prompt has failed.
THEOREM WritersRunAlone == TurnSpec => []WritesRunAlone
<1>1. TurnInv => WritesRunAlone
  <2> SUFFICES ASSUME TurnInv, NEW i \in With("running"), turn.batch[i].key \in SequentialKeys
               PROVE  turn.pc = "calls" /\ With("running") = {i}
    BY DEF WritesRunAlone
  <2>1. i \in DOMAIN turn.batch /\ turn.batch[i].state = "running"
    BY DEF With
  <2>2. OneByOne /\ Slots = 1
    BY <2>1 DEF OneByOne, Slots, Asked
  <2>3. turn.pc = "calls"
    BY <2>1, <2>2 DEF TurnInv, SlotsKept, With
  <2>4. IsFiniteSet(With("running")) /\ Cardinality(With("running")) \in Nat
    BY BatchesAreFinite DEF TurnInv, With
  <2>5. Cardinality(With("running")) <= 1
    BY <2>2 DEF TurnInv, SlotsKept
  <2>6. Cardinality(With("running")) # 0
    BY <2>4, FS_EmptySet
  <2>7. \E x : With("running") = {x}
    BY <2>4, <2>5, <2>6, FS_Singleton
  <2> QED BY <2>3, <2>7
<1> QED BY <1>1, BatchesInOrder, PTL

\* For every limit of failures: an identical call fails no more often than that,
\* but for the calls that were under way beside it.
THEOREM RepetitionBounded == TurnSpec => []RepeatsBounded
<1>1. TurnInv => RepeatsBounded
  <2> SUFFICES ASSUME TurnInv, NEW k \in Keys
               PROVE  failures[k] <=
                        MaxFailures + (IF k \in SequentialKeys THEN 0 ELSE Concurrency - 1)
    BY DEF RepeatsBounded
  <2>1. Cardinality(Running(k)) \in Nat /\ failures[k] \in Nat
    BY BatchesAreFinite DEF TurnInv, TurnTypeOK, Running, With
  <2>2. failures[k] + Cardinality(Running(k)) <=
          MaxFailures + (IF k \in SequentialKeys THEN 0 ELSE Concurrency - 1)
    BY DEF TurnInv, FailuresBounded
  <2> QED BY <2>1, <2>2, TurnAssumption
<1> QED BY <1>1, BatchesInOrder, PTL

------------------------------------------------------------------------------
(* Sequences: induction by sets, and what the filter of the model does. *)

\* What holds of 0, and of n + 1 if of n, holds of every number.
LEMMA NatSets == ASSUME NEW P \in SUBSET Nat, 0 \in P, \A n \in P : n + 1 \in P PROVE P = Nat
<1> DEFINE Bad == Nat \ P
<1>1. ASSUME Bad # {} PROVE FALSE
  <2>1. Bad \in SUBSET Nat
    OBVIOUS
  <2>2. PICK n \in Bad : \A m \in Bad : n <= m
    BY <1>1, <2>1, LeastOfNats
  <2>4. n # 0 /\ n - 1 \in Nat
    OBVIOUS
  <2>5. n - 1 \in P
    BY <2>2, <2>4
  <2>6. (n - 1) + 1 \in P
    BY <2>5
  <2>7. (n - 1) + 1 = n
    BY <2>4
  <2> QED BY <2>6, <2>7
<1> QED BY <1>1

\* What holds of the empty sequence, and of one with an element more, holds of
\* every sequence.
LEMMA SeqSets ==
  ASSUME NEW M, NEW P \in SUBSET Seq(M), <<>> \in P, \A s \in P, e \in M : Append(s, e) \in P
  PROVE  P = Seq(M)
<1> DEFINE N == {n \in Nat : \A s \in Seq(M) : Len(s) = n => s \in P}
<1>1. 0 \in N
  BY EmptySeq
<1>2. ASSUME NEW n \in N PROVE n + 1 \in N
  <2> SUFFICES ASSUME NEW s \in Seq(M), Len(s) = n + 1 PROVE s \in P
    OBVIOUS
  <2>1. s # <<>>
    OBVIOUS
  <2>2. PICK t \in Seq(M), e \in M : s = Append(t, e)
    BY <2>1, SequenceEmptyOrAppend
  <2>3. Len(t) = n
    BY <2>2
  <2> QED BY <2>2, <2>3
<1> HIDE DEF N
<1>3. N \in SUBSET Nat
  BY DEF N
<1>4. N = Nat
  BY <1>1, <1>2, <1>3, NatSets
<1>5. \A s \in Seq(M) : Len(s) \in Nat
  OBVIOUS
<1> QED BY <1>4, <1>5 DEF N

\* One step of the filter.
FilterAt(g, s, S, n) ==
  IF n = 0 THEN <<>> ELSE IF s[n] \in S THEN Append(g[n - 1], s[n]) ELSE g[n - 1]

\* A function that filters so, up to the k-th element.
Filters(g, s, S, k) == \A n \in 0 .. k : g[n] = FilterAt(g, s, S, n)

\* There is a function that filters step by step, of any length.
LEMMA FilterExists ==
  ASSUME NEW M, NEW s \in Seq(M), NEW S
  PROVE  \E g \in [0 .. Len(s) -> Seq(M)] : Filters(g, s, S, Len(s))
<1> DEFINE N == {k \in Nat : k <= Len(s) => \E g \in [0 .. Len(s) -> Seq(M)] :
                               Filters(g, s, S, k)}
<1>1. 0 \in N
  <2> DEFINE g == [n \in 0 .. Len(s) |-> <<>>]
  <2>1. g \in [0 .. Len(s) -> Seq(M)]
    BY EmptySeq
  <2>2. Filters(g, s, S, 0)
    BY DEF Filters, FilterAt
  <2> QED BY <2>1, <2>2
<1>2. ASSUME NEW k \in N PROVE k + 1 \in N
  <2> SUFFICES ASSUME k + 1 <= Len(s)
               PROVE  \E g \in [0 .. Len(s) -> Seq(M)] :
                        Filters(g, s, S, k + 1)
    OBVIOUS
  <2>1. k \in Nat /\ k <= Len(s) /\ k + 1 \in 0 .. Len(s) /\ k \in 0 .. Len(s)
    OBVIOUS
  <2>2. PICK g \in [0 .. Len(s) -> Seq(M)] : Filters(g, s, S, k)
    BY <2>1
  <2> DEFINE x == IF s[k + 1] \in S THEN Append(g[k], s[k + 1]) ELSE g[k]
             h == [g EXCEPT ![k + 1] = x]
  <2>3. s[k + 1] \in M /\ g[k] \in Seq(M)
    BY <2>1, ElementOfSeq
  <2>4. x \in Seq(M)
    BY <2>3, AppendProperties
  <2>5. h \in [0 .. Len(s) -> Seq(M)] /\ h[k + 1] = x /\ \A n \in 0 .. k : h[n] = g[n]
    BY <2>1, <2>4
  <2>6. ASSUME NEW n \in 0 .. k + 1 PROVE h[n] = FilterAt(h, s, S, n)
    <3>1. CASE n = k + 1
      <4>1. n # 0 /\ n - 1 = k /\ h[k] = g[k]
        BY <2>1, <2>5, <3>1
      <4> QED BY <2>5, <3>1, <4>1 DEF FilterAt
    <3>2. CASE n # k + 1
      <4>1. n \in 0 .. k /\ (n # 0 => n - 1 \in 0 .. k)
        BY <2>1, <3>2
      <4> QED BY <2>2, <2>5, <4>1 DEF Filters, FilterAt
    <3> QED BY <3>1, <3>2
  <2> HIDE DEF h
  <2>7. Filters(h, s, S, k + 1)
    BY <2>6 DEF Filters
  <2> QED BY <2>5, <2>7
<1> HIDE DEF N
<1>3. N \in SUBSET Nat
  BY DEF N
<1>4. N = Nat
  BY <1>1, <1>2, <1>3, NatSets
<1>5. Len(s) \in N
  BY <1>4
<1> QED BY <1>5 DEF N

\* Such functions agree, as far as their sequences do.
LEMMA FiltersAgree ==
  ASSUME NEW k \in Nat, NEW g, NEW h, NEW s, NEW t, NEW S,
         Filters(g, s, S, k),
         Filters(h, t, S, k),
         \A n \in 1 .. k : s[n] = t[n]
  PROVE  g[k] = h[k]
<1> DEFINE N == {n \in Nat : n <= k => g[n] = h[n]}
<1>1. 0 \in N
  BY DEF Filters, FilterAt
<1>2. ASSUME NEW n \in N PROVE n + 1 \in N
  <2> SUFFICES ASSUME n + 1 <= k PROVE g[n + 1] = h[n + 1]
    OBVIOUS
  <2>1. n + 1 \in 0 .. k /\ n + 1 \in 1 .. k /\ n <= k /\ (n + 1) - 1 = n /\ n + 1 # 0
    OBVIOUS
  <2>2. g[n] = h[n] /\ s[n + 1] = t[n + 1]
    BY <2>1
  <2>3. g[n + 1] = FilterAt(g, s, S, n + 1) /\ h[n + 1] = FilterAt(h, t, S, n + 1)
    BY <2>1 DEF Filters
  <2> QED BY <2>1, <2>2, <2>3 DEF Filters, FilterAt
<1> HIDE DEF N
<1>3. N \in SUBSET Nat
  BY DEF N
<1>4. k \in N
  BY <1>1, <1>2, <1>3, NatSets
<1> QED BY <1>4 DEF N

\* What the model's filter gives is what such a function gives.
LEMMA AmongIs ==
  ASSUME NEW M, NEW s \in Seq(M), NEW S
  PROVE  /\ Among(s, S) \in Seq(M)
         /\ \E g : /\ Filters(g, s, S, Len(s))
                  /\ Among(s, S) = g[Len(s)]
<1> DEFINE Step(h) == [n \in 0 .. Len(s) |->
                         IF n = 0 THEN <<>>
                         ELSE IF s[n] \in S THEN Append(h[n - 1], s[n]) ELSE h[n - 1]]
           iter == CHOOSE h : h = Step(h)
<1>1. Among(s, S) = iter[Len(s)]
  BY DEF Among
<1>2. PICK g \in [0 .. Len(s) -> Seq(M)] : Filters(g, s, S, Len(s))
  BY FilterExists
<1>3. \A n \in 0 .. Len(s) : g[n] = Step(g)[n]
  BY <1>2 DEF Filters, FilterAt
<1>4. g = Step(g)
  BY <1>3
<1> HIDE DEF Step
<1>5. iter = Step(iter)
  BY <1>4
<1> HIDE DEF iter
<1>6. Filters(iter, s, S, Len(s))
  BY <1>5 DEF Filters, Step, FilterAt
<1>7. Len(s) \in Nat /\ Len(s) \in 0 .. Len(s)
  OBVIOUS
<1>8. iter[Len(s)] = g[Len(s)]
  <2>1. PICK k \in Nat : k = Len(s)
    BY <1>7
  <2>2. /\ Filters(iter, s, S, k)
        /\ Filters(g, s, S, k)
    BY <1>2, <1>6, <2>1
  <2>3. iter[k] = g[k]
    BY <2>2, FiltersAgree
  <2> QED BY <2>1, <2>3
<1>9. g[Len(s)] \in Seq(M)
  BY <1>7
<1> QED BY <1>1, <1>6, <1>8, <1>9

\* It takes the last element or leaves it, and what came before is as it was.
LEMMA AmongAppend ==
  ASSUME NEW M, NEW s \in Seq(M), NEW e \in M, NEW S
  PROVE  Among(Append(s, e), S) = IF e \in S THEN Append(Among(s, S), e) ELSE Among(s, S)
<1>1. PICK t : t = Append(s, e)
  OBVIOUS
<1>2. t \in Seq(M) /\ Len(t) = Len(s) + 1 /\ t[Len(s) + 1] = e /\ \A n \in 1 .. Len(s) : t[n] = s[n]
  BY <1>1, AppendProperties
<1>3. PICK g : Filters(g, s, S, Len(s)) /\ Among(s, S) = g[Len(s)]
  BY AmongIs
<1>4. PICK h : Filters(h, t, S, Len(t)) /\ Among(t, S) = h[Len(t)]
  BY <1>2, AmongIs
<1>5. Len(s) \in Nat /\ Filters(h, t, S, Len(s))
  BY <1>2, <1>4 DEF Filters
<1>6. g[Len(s)] = h[Len(s)]
  <2>1. PICK k \in Nat : k = Len(s)
    BY <1>5
  <2>2. /\ Filters(g, s, S, k)
        /\ Filters(h, t, S, k)
        /\ \A n \in 1 .. k : s[n] = t[n]
    BY <1>2, <1>3, <1>5, <2>1
  <2>3. g[k] = h[k]
    BY <2>2, FiltersAgree
  <2> QED BY <2>1, <2>3
<1>7. h[Len(t)] = FilterAt(h, t, S, Len(t)) /\ Len(t) # 0 /\ Len(t) - 1 = Len(s)
  BY <1>2, <1>4, <1>5 DEF Filters
<1> QED BY <1>1, <1>2, <1>3, <1>4, <1>6, <1>7 DEF Filters, FilterAt

\* Of nothing it gives nothing.
LEMMA AmongNothing == \A S : Among(<<>>, S) = <<>>
<1> TAKE S
<1>1. PICK M : M = {}
  OBVIOUS
<1>2. PICK none : none = <<>>
  OBVIOUS
<1>3. none \in Seq(M) /\ Len(none) = 0
  BY <1>2, EmptySeq
<1>4. PICK g : Filters(g, none, S, Len(none)) /\ Among(none, S) = g[Len(none)]
  BY <1>3, AmongIs
<1> QED BY <1>2, <1>3, <1>4 DEF Filters, FilterAt

\* It takes one sequence after the other.
LEMMA AmongConcat ==
  ASSUME NEW M, NEW s \in Seq(M), NEW t \in Seq(M), NEW S
  PROVE  Among(s \o t, S) = Among(s, S) \o Among(t, S)
<1> DEFINE P == {u \in Seq(M) : Among(s \o u, S) = Among(s, S) \o Among(u, S)}
<1>1. <<>> \in P
  <2>1. <<>> \in Seq(M) /\ s \o <<>> = s
    BY EmptySeq, ConcatEmptySeq
  <2>2. Among(s, S) \in Seq(M)
    BY AmongIs
  <2>3. Among(s, S) \o <<>> = Among(s, S)
    BY <2>2, ConcatEmptySeq
  <2> QED BY <2>1, <2>3, AmongNothing
<1>2. ASSUME NEW u \in P, NEW e \in M PROVE Append(u, e) \in P
  <2>1. u \in Seq(M) /\ s \o u \in Seq(M) /\ Append(u, e) \in Seq(M)
    OBVIOUS
  <2>2. s \o Append(u, e) = Append(s \o u, e)
    BY <2>1
  <2>3. Among(Append(s \o u, e), S) = IF e \in S THEN Append(Among(s \o u, S), e) ELSE Among(s \o u, S)
    <3>1. PICK v \in Seq(M) : v = s \o u
      BY <2>1
    <3>2. Among(Append(v, e), S) = IF e \in S THEN Append(Among(v, S), e) ELSE Among(v, S)
      BY AmongAppend
    <3> QED BY <3>1, <3>2
  <2>4. Among(Append(u, e), S) = IF e \in S THEN Append(Among(u, S), e) ELSE Among(u, S)
    BY <2>1, AmongAppend
  <2>5. PICK a \in Seq(M) : a = Among(s, S)
    BY AmongIs
  <2>6. PICK b \in Seq(M) : b = Among(u, S)
    BY <2>1, AmongIs
  <2>7. a \o Append(b, e) = Append(a \o b, e)
    OBVIOUS
  <2>8. Among(s \o u, S) = a \o b
    BY <2>5, <2>6
  <2>9. Among(s \o Append(u, e), S) = a \o Among(Append(u, e), S)
    BY <2>2, <2>3, <2>4, <2>6, <2>7, <2>8
  <2> QED BY <2>1, <2>5, <2>9
<1> HIDE DEF P
<1>3. P \in SUBSET Seq(M)
  BY DEF P
<1>4. P = Seq(M)
  BY <1>1, <1>2, <1>3, SeqSets
<1> QED BY <1>4 DEF P

\* It leaves everything out, or nothing.
LEMMA AmongAll ==
  ASSUME NEW M, NEW S
  PROVE  /\ M \subseteq S => \A s \in Seq(M) : Among(s, S) = s
         /\ M \cap S = {} => \A s \in Seq(M) : Among(s, S) = <<>>
<1>1. ASSUME M \subseteq S PROVE \A s \in Seq(M) : Among(s, S) = s
  <2> DEFINE P == {s \in Seq(M) : Among(s, S) = s}
  <2>1. <<>> \in P
    BY AmongNothing, EmptySeq
  <2>2. ASSUME NEW s \in P, NEW e \in M PROVE Append(s, e) \in P
    <3>1. s \in Seq(M) /\ Append(s, e) \in Seq(M) /\ e \in S
      BY <1>1
    <3> QED BY <3>1, AmongAppend
  <2> HIDE DEF P
  <2>3. P \in SUBSET Seq(M)
    BY DEF P
  <2>4. P = Seq(M)
    BY <2>1, <2>2, <2>3, SeqSets
  <2> QED BY <2>4 DEF P
<1>2. ASSUME M \cap S = {} PROVE \A s \in Seq(M) : Among(s, S) = <<>>
  <2> DEFINE P == {s \in Seq(M) : Among(s, S) = <<>>}
  <2>1. <<>> \in P
    BY AmongNothing, EmptySeq
  <2>2. ASSUME NEW s \in P, NEW e \in M PROVE Append(s, e) \in P
    <3>1. s \in Seq(M) /\ Append(s, e) \in Seq(M) /\ e \notin S
      BY <1>2
    <3> QED BY <3>1, AmongAppend
  <2> HIDE DEF P
  <2>3. P \in SUBSET Seq(M)
    BY DEF P
  <2>4. P = Seq(M)
    BY <2>1, <2>2, <2>3, SeqSets
  <2> QED BY <2>4 DEF P
<1> QED BY <1>1, <1>2

------------------------------------------------------------------------------
(* Conversations. *)

\* The entries of a journal; what is said before the p-th prompt.
Entries    == Message \cup [role : {"checkpoint"}, kept : Seq(Message)]
Earlier(p) == {m \in Dialogue : m.role = "user" => m.n < p}

\* Every reply is followed by the results of all its calls, no result stands alone.
Closed(s) ==
  /\ \A i \in DOMAIN s : s[i].role = "assistant" =>
       \A c \in 1 .. s[i].calls : i + c <= Len(s) /\ s[i + c] = Result(s[i].n, c)
  /\ \A i \in DOMAIN s : s[i].role = "tool" =>
       /\ s[i].at \in 1 .. i - 1 /\ s[i - s[i].at].role = "assistant"
       /\ s[i - s[i].at].n = s[i].of /\ s[i].at <= s[i - s[i].at].calls

Talk(p) == {s \in Seq(Earlier(p)) : Closed(s)}
Opening == {<<System>>, <<System, Summary>>}

\* What a request holds: the p-th prompt stands between what was said before it
\* and what the loop has done about it.
Between(h, a, p, b)  == (h \o a) \o (<<User(p)>> \o b)
Conversation(ms, p) ==
  \E h \in Opening, a \in Talk(p), b \in Talk(0) : ms = Between(h, a, p, b)

\* What messages are.
LEMMA MessageFacts ==
  /\ \A m \in Dialogue : /\ m.role \in {"user", "assistant", "tool"}
                         /\ m.role = "user" => m = User(m.n) /\ m.n \in Nat
                         /\ m.role = "assistant" => m.n \in Nat /\ m.calls \in Nat
                         /\ m.role = "tool" => m.of \in Nat /\ m.at \in Nat
  /\ System.role = "system" /\ Summary.role = "summary" /\ System # Summary
  /\ System \notin Dialogue /\ Summary \notin Dialogue
  /\ \A p \in Nat : Earlier(p) \in SUBSET Dialogue /\ Earlier(p) \in SUBSET Earlier(p + 1)
                    /\ Earlier(0) \in SUBSET Earlier(p)
  /\ Dialogue \in SUBSET Message /\ Message \in SUBSET Entries
  /\ \A n \in Nat : User(n) \in Dialogue /\ User(n).role = "user" /\ User(n).n = n
  /\ \A m \in Entries : m.role = "checkpoint" <=> m \notin Message
  /\ System \in Message /\ Summary \in Message
<1>1. \A m \in Dialogue : /\ m.role \in {"user", "assistant", "tool"}
                          /\ m.role = "user" => m = User(m.n) /\ m.n \in Nat
                          /\ m.role = "assistant" => m.n \in Nat /\ m.calls \in Nat
                          /\ m.role = "tool" => m.of \in Nat /\ m.at \in Nat
  BY DEF Dialogue, User
<1>2. /\ System.role = "system" /\ Summary.role = "summary" /\ System # Summary
      /\ System \notin Dialogue /\ Summary \notin Dialogue
  <2>1. System.role = "system" /\ Summary.role = "summary"
    BY DEF System, Summary
  <2> QED BY <1>1, <2>1
<1>3. \A p \in Nat : Earlier(p) \in SUBSET Dialogue /\ Earlier(p) \in SUBSET Earlier(p + 1)
                     /\ Earlier(0) \in SUBSET Earlier(p)
  <2> SUFFICES ASSUME NEW p \in Nat, NEW m \in Dialogue
               PROVE  /\ (m.role = "user" => m.n < p) => (m.role = "user" => m.n < p + 1)
                      /\ (m.role = "user" => m.n < 0) => (m.role = "user" => m.n < p)
    BY DEF Earlier
  <2> QED BY <1>1
<1>4. Dialogue \in SUBSET Message /\ Message \in SUBSET Entries
  BY DEF Message, Entries
<1>5. \A n \in Nat : User(n) \in Dialogue /\ User(n).role = "user" /\ User(n).n = n
  BY DEF User, Dialogue
<1>6. \A m \in Entries : m.role = "checkpoint" <=> m \notin Message
  BY <1>1, <1>2 DEF Entries, Message
<1>7. System \in Message /\ Summary \in Message
  BY DEF Message
<1> QED BY <1>1, <1>2, <1>3, <1>4, <1>5, <1>6, <1>7

\* A sequence over fewer things is one over more.
LEMMA SeqWidens == \A A : \A B : A \in SUBSET B => Seq(A) \in SUBSET Seq(B)
BY SeqMonotonic

\* Talk may follow talk.
LEMMA ClosedConcat ==
  ASSUME NEW s \in Seq(Message), NEW t \in Seq(Message), Closed(s), Closed(t)
  PROVE  Closed(s \o t)
<1>1. PICK u : u = s \o t
  OBVIOUS
<1>2. /\ Len(u) = Len(s) + Len(t) /\ Len(s) \in Nat /\ Len(t) \in Nat
      /\ \A i \in 1 .. Len(s) : u[i] = s[i]
      /\ \A i \in 1 .. Len(t) : u[Len(s) + i] = t[i]
      /\ DOMAIN s = 1 .. Len(s) /\ DOMAIN t = 1 .. Len(t) /\ DOMAIN u = 1 .. Len(u)
      /\ u \in Seq(Message)
  BY <1>1, ConcatProperties
<1>3. \A i \in 1 .. Len(u) :
        i \in 1 .. Len(s) \/ (i - Len(s) \in 1 .. Len(t) /\ Len(s) + (i - Len(s)) = i)
  BY <1>2
<1>4. \A m \in Message : /\ m.role = "assistant" => m.calls \in Nat
                         /\ m.role = "tool" => m.at \in Nat
  BY MessageFacts DEF Message
<1>5. ASSUME NEW i \in 1 .. Len(u), u[i].role = "assistant", NEW c \in 1 .. u[i].calls
      PROVE  i + c <= Len(u) /\ u[i + c] = Result(u[i].n, c)
  <2>0. u[i].calls \in Nat /\ c \in Nat
    <3>1. u[i] \in Message
      BY <1>2, ElementOfSeq
    <3> QED BY <1>4, <1>5, <3>1
  <2>1. CASE i \in 1 .. Len(s)
    <3>1. u[i] = s[i] /\ i \in DOMAIN s
      BY <1>2, <2>1
    <3>2. i + c <= Len(s) /\ s[i + c] = Result(u[i].n, c)
      BY <1>5, <3>1 DEF Closed
    <3>3. i + c \in 1 .. Len(s)
      BY <1>2, <2>0, <2>1, <3>2
    <3> QED BY <1>2, <3>2, <3>3
  <2>2. CASE i \notin 1 .. Len(s)
    <3>1. PICK j \in 1 .. Len(t) : i = Len(s) + j
      BY <1>3, <2>2
    <3>2. u[i] = t[j] /\ j \in DOMAIN t
      BY <1>2, <3>1
    <3>3. j + c <= Len(t) /\ t[j + c] = Result(u[i].n, c)
      BY <1>5, <3>2 DEF Closed
    <3>4. j + c \in 1 .. Len(t) /\ i + c = Len(s) + (j + c)
      BY <1>2, <2>0, <3>1, <3>3
    <3> QED BY <1>2, <3>3, <3>4
  <2> QED BY <2>1, <2>2
<1>6. ASSUME NEW i \in 1 .. Len(u), u[i].role = "tool"
      PROVE  /\ u[i].at \in 1 .. i - 1 /\ u[i - u[i].at].role = "assistant"
             /\ u[i - u[i].at].n = u[i].of /\ u[i].at <= u[i - u[i].at].calls
  <2>1. CASE i \in 1 .. Len(s)
    <3>1. u[i] = s[i] /\ i \in DOMAIN s
      BY <1>2, <2>1
    <3>2. /\ u[i].at \in 1 .. i - 1 /\ s[i - u[i].at].role = "assistant"
          /\ s[i - u[i].at].n = u[i].of /\ u[i].at <= s[i - u[i].at].calls
      BY <1>6, <3>1 DEF Closed
    <3>3. i - u[i].at \in 1 .. Len(s)
      BY <1>2, <2>1, <3>2
    <3> QED BY <1>2, <3>2, <3>3
  <2>2. CASE i \notin 1 .. Len(s)
    <3>1. PICK j \in 1 .. Len(t) : i = Len(s) + j
      BY <1>3, <2>2
    <3>2. u[i] = t[j] /\ j \in DOMAIN t
      BY <1>2, <3>1
    <3>3. /\ u[i].at \in 1 .. j - 1 /\ t[j - u[i].at].role = "assistant"
          /\ t[j - u[i].at].n = u[i].of /\ u[i].at <= t[j - u[i].at].calls
      BY <1>6, <3>2 DEF Closed
    <3>4. j - u[i].at \in 1 .. Len(t) /\ i - u[i].at = Len(s) + (j - u[i].at) /\ u[i].at \in 1 .. i - 1
      <4>1. PICK d : d = u[i].at
        OBVIOUS
      <4>2. d \in 1 .. j - 1 /\ j \in 1 .. Len(t) /\ Len(s) \in Nat /\ Len(t) \in Nat
            /\ i = Len(s) + j
        BY <1>2, <3>1, <3>3, <4>1
      <4>3. \A x, y \in Nat : \A k \in 1 .. y : \A e \in 1 .. k - 1 :
              k - e \in 1 .. y /\ (x + k) - e = x + (k - e) /\ e \in 1 .. (x + k) - 1
        OBVIOUS
      <4>4. j - d \in 1 .. Len(t) /\ (Len(s) + j) - d = Len(s) + (j - d) /\ d \in 1 .. (Len(s) + j) - 1
        BY <4>2, <4>3
      <4> QED BY <4>1, <4>2, <4>4
    <3>5. u[i - u[i].at] = t[j - u[i].at]
      BY <1>2, <3>4
    <3> QED BY <3>3, <3>4, <3>5
  <2> QED BY <2>1, <2>2
<1>7. Closed(u)
  BY <1>2, <1>5, <1>6 DEF Closed
<1> QED BY <1>1, <1>7

LEMMA TalkConcat ==
  ASSUME NEW p \in Nat, NEW a \in Talk(p), NEW b \in Talk(p)
  PROVE  a \o b \in Talk(p)
<1>1. a \in Seq(Earlier(p)) /\ b \in Seq(Earlier(p)) /\ Closed(a) /\ Closed(b)
  BY DEF Talk
<1>2. a \in Seq(Message) /\ b \in Seq(Message)
  <2>1. Earlier(p) \in SUBSET Message
    BY MessageFacts
  <2>2. Seq(Earlier(p)) \in SUBSET Seq(Message)
    BY <2>1, SeqWidens
  <2> QED BY <1>1, <2>2
<1>3. Closed(a \o b)
  BY <1>1, <1>2, ClosedConcat
<1>4. a \o b \in Seq(Earlier(p))
  BY <1>1
<1> QED BY <1>3, <1>4 DEF Talk

\* What was said before a prompt was said before the next.
LEMMA TalkGrows ==
  ASSUME NEW p \in Nat
  PROVE  Talk(p) \in SUBSET Talk(p + 1) /\ Talk(0) \in SUBSET Talk(p) /\ <<>> \in Talk(p)
         /\ <<User(p)>> \in Talk(p + 1)
<1>1. Seq(Earlier(p)) \in SUBSET Seq(Earlier(p + 1)) /\ Seq(Earlier(0)) \in SUBSET Seq(Earlier(p))
  BY MessageFacts, SeqWidens
<1>2. <<>> \in Talk(p)
  BY EmptySeq DEF Talk, Closed
<1>3. User(p) \in Earlier(p + 1) /\ User(p).role = "user"
  BY MessageFacts DEF Earlier
<1>4. <<User(p)>> \in Talk(p + 1)
  <2>1. PICK u : u = User(p)
    OBVIOUS
  <2>2. <<u>> \in Seq(Earlier(p + 1)) /\ DOMAIN <<u>> = {1} /\ <<u>>[1] = u
    BY <1>3, <2>1
  <2>3. Closed(<<u>>)
    BY <1>3, <2>1, <2>2 DEF Closed
  <2> QED BY <2>1, <2>2, <2>3 DEF Talk
<1> QED BY <1>1, <1>2, <1>4 DEF Talk

\* A reply with the results of its calls is talk.
LEMMA BatchIsTalk ==
  ASSUME NEW n \in Nat, NEW k \in Nat
  PROVE  <<Reply(n, k)>> \o [i \in 1 .. k |-> Result(n, i)] \in Talk(0)
<1>1. PICK r : r = Reply(n, k)
  OBVIOUS
<1>2. r.role = "assistant" /\ r.n = n /\ r.calls = k /\ r \in Earlier(0)
  BY <1>1 DEF Reply, Earlier, Dialogue
<1>3. \A i \in 1 .. k : /\ Result(n, i) \in Earlier(0) /\ Result(n, i).role = "tool"
                        /\ Result(n, i).of = n /\ Result(n, i).at = i
  BY DEF Result, Earlier, Dialogue
<1>4. PICK t : t = [i \in 1 .. k |-> Result(n, i)]
  OBVIOUS
<1>5. t \in Seq(Earlier(0)) /\ Len(t) = k /\ \A i \in 1 .. k : t[i] = Result(n, i)
  BY <1>3, <1>4
<1>6. PICK s : s = <<r>> \o t
  OBVIOUS
<1>7. /\ s \in Seq(Earlier(0)) /\ Len(s) = k + 1 /\ s[1] = r
      /\ \A i \in 1 .. k : s[i + 1] = t[i]
  BY <1>2, <1>5, <1>6
<1>8. \A i \in 1 .. k + 1 : i = 1 \/ (i - 1 \in 1 .. k /\ (i - 1) + 1 = i)
  OBVIOUS
<1>9. \A i \in 1 .. k + 1 : i # 1 => s[i] = Result(n, i - 1)
  BY <1>5, <1>7, <1>8
<1>10. Closed(s)
  <2>1. ASSUME NEW i \in 1 .. k + 1, s[i].role = "assistant", NEW c \in 1 .. s[i].calls
        PROVE  i + c <= Len(s) /\ s[i + c] = Result(s[i].n, c)
    <3>1. i = 1
      BY <1>3, <1>8, <1>9, <2>1
    <3>2. c \in 1 .. k
      BY <1>2, <1>7, <2>1, <3>1
    <3> QED BY <1>2, <1>5, <1>7, <3>1, <3>2
  <2>2. ASSUME NEW i \in 1 .. k + 1, s[i].role = "tool"
        PROVE  /\ s[i].at \in 1 .. i - 1 /\ s[i - s[i].at].role = "assistant"
               /\ s[i - s[i].at].n = s[i].of /\ s[i].at <= s[i - s[i].at].calls
    <3>1. i # 1
      BY <1>2, <1>7, <2>2
    <3>2. i - 1 \in 1 .. k /\ s[i] = Result(n, i - 1)
      BY <1>8, <1>9, <3>1
    <3>3. s[i].at = i - 1 /\ s[i].of = n
      BY <1>3, <3>2
    <3> QED BY <1>2, <1>7, <3>2, <3>3
  <2>3. DOMAIN s = 1 .. k + 1
    BY <1>7
  <2> QED BY <2>1, <2>2, <2>3 DEF Closed
<1> QED BY <1>1, <1>4, <1>6, <1>7, <1>10 DEF Talk

\* The whole turns at the end of talk are talk.
LEMMA SuffixIsTalk ==
  ASSUME NEW p \in Nat, NEW h \in Talk(p)
  PROVE  Suffix(h) \in Talk(p)
<1> DEFINE fitting == {i \in TurnStarts(h) : Len(h) - i < KeepRecent}
<1>1. h \in Seq(Earlier(p)) /\ Closed(h) /\ DOMAIN h = 1 .. Len(h) /\ Len(h) \in Nat
  BY DEF Talk
<1>2. CASE fitting = {}
  <2>1. Suffix(h) = <<>>
    BY <1>2 DEF Suffix
  <2> QED BY <2>1, TalkGrows
<1>3. CASE fitting # {}
  <2>1. fitting \in SUBSET Nat /\ fitting \in SUBSET TurnStarts(h)
    BY <1>1 DEF TurnStarts
  <2>2. PICK f \in TurnStarts(h) : f = Least(fitting)
    <3> HIDE DEF fitting
    <3> QED BY <1>3, <2>1, LeastOfNats
  <2>3. PICK s : s = SubSeq(h, f, Len(h))
    OBVIOUS
  <2>4. Suffix(h) = s
    BY <1>3, <2>2, <2>3 DEF Suffix
  <2>5. f \in 1 .. Len(h)
    BY <1>1, <2>2 DEF TurnStarts
  <2>6. /\ s \in Seq(Earlier(p)) /\ Len(s) = Len(h) - f + 1 /\ DOMAIN s = 1 .. Len(s)
        /\ \A i \in 1 .. Len(s) : s[i] = h[f + i - 1]
    <3>1. \A i \in f .. Len(h) : h[i] \in Earlier(p)
      BY <1>1, <2>5
    <3> QED BY <1>1, <2>3, <2>5, <3>1, SubSeqProperties
  <2>7. \A i \in 1 .. Len(s) : f + i - 1 \in DOMAIN h
    BY <1>1, <2>5, <2>6
  <2>8. h[f].role = "tool" => FALSE
    <3> SUFFICES ASSUME h[f].role = "tool" PROVE FALSE
      OBVIOUS
    <3>1. h[f].at \in 1 .. f - 1 /\ h[f - h[f].at].role = "assistant"
      BY <1>1, <2>5 DEF Closed
    <3>2. h[f].role = "assistant" \/ \A j \in 1 .. f : h[j].role # "assistant"
      BY <2>2 DEF TurnStarts
    <3>3. f - h[f].at \in 1 .. f
      BY <2>5, <3>1
    <3> QED BY <3>1, <3>2, <3>3
  <2>9. ASSUME NEW i \in 1 .. Len(s), s[i].role = "assistant", NEW c \in 1 .. s[i].calls
        PROVE  i + c <= Len(s) /\ s[i + c] = Result(s[i].n, c)
    <3>1. s[i] \in Dialogue
      BY <2>6, MessageFacts
    <3>2. s[i].calls \in Nat
      BY <2>9, <3>1, MessageFacts
    <3>3. (f + i - 1) + c <= Len(h) /\ h[(f + i - 1) + c] = Result(s[i].n, c)
      BY <1>1, <2>6, <2>7, <2>9 DEF Closed
    <3>4. i + c <= Len(s) /\ i + c \in 1 .. Len(s) /\ f + (i + c) - 1 = (f + i - 1) + c
      BY <1>1, <2>5, <2>6, <3>2, <3>3
    <3> QED BY <2>6, <3>3, <3>4
  <2>10. ASSUME NEW i \in 1 .. Len(s), s[i].role = "tool"
         PROVE  /\ s[i].at \in 1 .. i - 1 /\ s[i - s[i].at].role = "assistant"
                /\ s[i - s[i].at].n = s[i].of /\ s[i].at <= s[i - s[i].at].calls
    <3>1. PICK j \in DOMAIN h : j = f + i - 1 /\ s[i] = h[j] /\ i \in Nat
      BY <2>6, <2>7
    <3>2. /\ h[j].at \in 1 .. j - 1 /\ h[j - h[j].at].role = "assistant"
          /\ h[j - h[j].at].n = h[j].of /\ h[j].at <= h[j - h[j].at].calls
      BY <1>1, <2>10, <3>1 DEF Closed
    <3>3. PICK d \in Nat : d = h[j].at
      BY <3>1, <3>2
    \* Otherwise the suffix would begin with a result.
    <3>4. j - d >= f
      <4> SUFFICES ASSUME j - d < f PROVE FALSE
        BY <1>1, <2>5, <3>1, <3>3
      <4>1. f - (j - d) \in 1 .. d /\ f = (j - d) + (f - (j - d))
        <5>1. \A x, y, z \in Nat : y >= 1 /\ (x + y - 1) - z < x =>
                x - ((x + y - 1) - z) \in 1 .. z
                /\ x = ((x + y - 1) - z) + (x - ((x + y - 1) - z))
          OBVIOUS
        <5>2. f \in Nat /\ i \in Nat /\ i >= 1 /\ d \in Nat /\ j = f + i - 1
          BY <1>1, <2>5, <2>6, <3>1, <3>3
        <5> QED BY <5>1, <5>2
      <4>2. j - d \in DOMAIN h
        BY <1>1, <3>1, <3>2, <3>3
      <4>3. h[j - d].calls \in Nat
        BY <1>1, <3>2, <3>3, <4>2, MessageFacts
      <4>4. f - (j - d) \in 1 .. h[j - d].calls
        BY <3>2, <3>3, <4>1, <4>3
      <4>5. h[f] = Result(h[j - d].n, f - (j - d))
        BY <1>1, <3>2, <3>3, <4>1, <4>2, <4>4 DEF Closed
      <4>6. h[f].role = "tool"
        BY <4>5 DEF Result
      <4> QED BY <2>8, <4>6
    <3>5. i - d \in 1 .. Len(s) /\ f + (i - d) - 1 = j - d /\ d \in 1 .. i - 1
      <4>1. \A x, y, z \in Nat : \A k \in 1 .. z :
              y >= 1 /\ (x + k - 1) - y >= x =>
                k - y \in 1 .. z /\ x + (k - y) - 1 = (x + k - 1) - y /\ y \in 1 .. k - 1
        OBVIOUS
      <4>2. f \in Nat /\ d \in Nat /\ d >= 1 /\ Len(s) \in Nat /\ j = f + i - 1
        BY <1>1, <2>5, <2>6, <3>1, <3>2, <3>3
      <4> QED BY <3>4, <4>1, <4>2
    <3>6. s[i - d] = h[j - d]
      BY <2>6, <3>5
    <3> QED BY <3>1, <3>2, <3>3, <3>5, <3>6
  <2>11. Closed(s)
    BY <2>6, <2>9, <2>10 DEF Closed
  <2> QED BY <2>4, <2>6, <2>11 DEF Talk
<1> QED BY <1>2, <1>3

\* The prompt's place among the messages.
PromptAt(ms, p, at) ==
  /\ ms[at] = User(p)
  /\ \A i \in DOMAIN ms : i < at => ms[i] # User(p)
  /\ \A i \in DOMAIN ms : i > at => ms[i].role # "user"

\* Where the messages of a conversation are.
LEMMA Places ==
  ASSUME NEW p \in Nat, NEW h \in Opening, NEW a \in Talk(p), NEW b \in Talk(0),
         NEW ms, ms = Between(h, a, p, b)
  PROVE  /\ h \in Seq({System, Summary}) /\ a \in Seq(Earlier(p)) /\ b \in Seq(Earlier(0))
         /\ ms \in Seq(Message) /\ DOMAIN ms = 1 .. Len(ms) /\ ms[1] = System
         /\ \E at \in DOMAIN ms : PromptAt(ms, p, at)
<1>1. PICK u : u = User(p)
  OBVIOUS
<1>2. /\ a \in Seq(Earlier(p)) /\ b \in Seq(Earlier(0)) /\ Earlier(p) \in SUBSET Message
      /\ Earlier(0) \in SUBSET Message /\ u \in Message /\ u.role = "user" /\ u.n = p
  BY <1>1, MessageFacts DEF Talk
<1>3. /\ h \in Seq({System, Summary}) /\ h \in Seq(Message) /\ Len(h) \in {1, 2} /\ h[1] = System
      /\ \A i \in 1 .. Len(h) : h[i] \in {System, Summary}
  <2>1. System \in Message /\ Summary \in Message
    BY MessageFacts
  <2>2. CASE h = <<System>>
    BY <2>1, <2>2
  <2>3. CASE h = <<System, Summary>>
    BY <2>1, <2>3
  <2> QED BY <2>2, <2>3 DEF Opening
<1>4. a \in Seq(Message) /\ b \in Seq(Message)
  <2>1. Seq(Earlier(p)) \in SUBSET Seq(Message) /\ Seq(Earlier(0)) \in SUBSET Seq(Message)
    BY <1>2, SeqWidens
  <2> QED BY <1>2, <2>1
<1>5. PICK f : f = h \o a
  OBVIOUS
<1>6. /\ f \in Seq(Message) /\ Len(f) = Len(h) + Len(a)
      /\ \A i \in 1 .. Len(h) : f[i] = h[i]
      /\ \A i \in 1 .. Len(f) : i > Len(h) => f[i] = a[i - Len(h)] /\ i - Len(h) \in 1 .. Len(a)
  BY <1>3, <1>4, <1>5
<1>7. PICK r : r = <<u>> \o b
  OBVIOUS
<1>8. /\ r \in Seq(Message) /\ Len(r) = 1 + Len(b) /\ r[1] = u
      /\ \A i \in 2 .. Len(r) : r[i] = b[i - 1] /\ i - 1 \in 1 .. Len(b)
  BY <1>2, <1>4, <1>7
<1>9. ms = f \o r
  BY <1>1, <1>5, <1>7 DEF Between
<1>10. /\ ms \in Seq(Message) /\ Len(ms) = Len(f) + Len(r) /\ DOMAIN ms = 1 .. Len(ms)
       /\ \A i \in 1 .. Len(f) : ms[i] = f[i]
       /\ \A i \in 1 .. Len(ms) : i > Len(f) => ms[i] = r[i - Len(f)] /\ i - Len(f) \in 1 .. Len(r)
  <2>1. f \in Seq(Message) /\ r \in Seq(Message)
    BY <1>6, <1>8
  <2> QED BY <1>9, <2>1, ConcatProperties
<1>11. Len(a) \in Nat /\ Len(b) \in Nat
  BY <1>4
<1>12. PICK at \in Nat : at = Len(h) + Len(a) + 1
  BY <1>3, <1>11
<1>13. at = Len(f) + 1 /\ at \in DOMAIN ms /\ ms[at] = u /\ Len(ms) = at + Len(b) /\ ms[1] = System
  <2>1. at = Len(f) + 1 /\ Len(ms) = at + Len(b) /\ at \in 1 .. Len(ms)
    BY <1>3, <1>6, <1>8, <1>10, <1>11, <1>12
  <2>2. ms[at] = r[at - Len(f)] /\ at - Len(f) = 1
    <3>1. Len(f) \in Nat /\ at > Len(f) /\ at - Len(f) = 1
      BY <1>6, <2>1
    <3> QED BY <1>10, <2>1, <3>1
  <2>3. 1 \in 1 .. Len(f) /\ 1 \in 1 .. Len(h)
    BY <1>3, <1>6, <1>11
  <2> QED BY <1>3, <1>6, <1>8, <1>10, <2>1, <2>2, <2>3
<1>14. ASSUME NEW i \in DOMAIN ms, i < at PROVE ms[i] # u
  <2>1. i \in 1 .. Len(f) /\ ms[i] = f[i]
    BY <1>10, <1>13, <1>14
  <2>2. CASE i \in 1 .. Len(h)
    <3>1. ms[i] \in {System, Summary}
      BY <1>3, <1>6, <2>1, <2>2
    <3>2. u \in Dialogue
      BY <1>1, MessageFacts
    <3> QED BY <3>1, <3>2, MessageFacts
  <2>3. CASE i \notin 1 .. Len(h)
    <3>1. ms[i] = a[i - Len(h)] /\ i - Len(h) \in 1 .. Len(a)
      BY <1>3, <1>6, <2>1, <2>3
    <3>2. ms[i] \in Earlier(p)
      BY <1>2, <3>1
    <3>3. u \notin Earlier(p)
      BY <1>2 DEF Earlier
    <3> QED BY <3>2, <3>3
  <2> QED BY <2>2, <2>3
<1>15. ASSUME NEW i \in DOMAIN ms, i > at PROVE ms[i].role # "user"
  <2>1. ms[i] = r[i - Len(f)] /\ i - Len(f) \in 2 .. Len(r)
    BY <1>10, <1>13, <1>15
  <2>2. ms[i] = b[(i - Len(f)) - 1] /\ (i - Len(f)) - 1 \in 1 .. Len(b)
    BY <1>8, <2>1
  <2>3. ms[i] \in Earlier(0)
    BY <1>2, <2>2
  <2>4. ms[i] \in Dialogue /\ (ms[i].role = "user" => ms[i].n < 0)
    BY <2>3 DEF Earlier
  <2>5. ms[i].role = "user" => ms[i].n \in Nat
    BY <2>4, MessageFacts
  <2> QED BY <2>4, <2>5
<1>16. PromptAt(ms, p, at)
  BY <1>1, <1>13, <1>14, <1>15 DEF PromptAt
<1> QED BY <1>2, <1>3, <1>10, <1>13, <1>16

\* The filter and messages one after the other.
LEMMA MessagesAmong ==
  \A s, t \in Seq(Message) : \A S : Among(s \o t, S) = Among(s, S) \o Among(t, S)
BY AmongConcat

LEMMA MessagesConcat == \A s, t, u \in Seq(Message) : (s \o t) \o u = s \o (t \o u)
BY ConcatAssociative

\* The pinned message is the prompt, and history what was said before and since.
LEMMA HistoryIsTalk ==
  ASSUME NEW p \in Nat, NEW ms, Conversation(ms, p)
  PROVE  Pinned(ms) = User(p) /\ History(ms) \in Talk(p)
<1>1. PICK h \in Opening, a \in Talk(p), b \in Talk(0) : ms = Between(h, a, p, b)
  BY DEF Conversation
<1>2. PICK at \in DOMAIN ms : PromptAt(ms, p, at)
  BY <1>1, Places
<1>2a. /\ h \in Seq({System, Summary}) /\ a \in Seq(Earlier(p)) /\ b \in Seq(Earlier(0))
       /\ DOMAIN ms = 1 .. Len(ms) /\ ms \in Seq(Message)
  BY <1>1, Places
<1>3. /\ h \in Seq({System, Summary}) /\ a \in Seq(Earlier(p)) /\ b \in Seq(Earlier(0))
      /\ at \in DOMAIN ms /\ ms[at] = User(p) /\ DOMAIN ms = 1 .. Len(ms) /\ ms \in Seq(Message)
      /\ \A i \in DOMAIN ms : i > at => ms[i].role # "user"
  BY <1>2, <1>2a DEF PromptAt
<1>4. Pinned(ms) = User(p)
  <2> DEFINE users == {i \in DOMAIN ms : ms[i].role = "user"}
  <2>1. at \in users /\ \A i \in users : i <= at
    <3>1. ms[at].role = "user"
      BY <1>3, MessageFacts
    <3> QED BY <1>3, <3>1
  <2>2. users \in SUBSET Nat
    BY <1>3
  <2>3. Greatest(users) = at
    <3> HIDE DEF users
    <3>1. \A i \in users : (\A j \in users : j <= i) => i = at
      BY <2>1, <2>2
    <3> QED BY <2>1, <3>1 DEF Greatest
  <2> QED BY <1>3, <2>3 DEF Pinned
<1>5. PICK S : S = Dialogue \ {User(p)}
  OBVIOUS
<1>6. PICK u : u = User(p)
  OBVIOUS
<1>7. /\ {System, Summary} \cap S = {} /\ {u} \cap S = {} /\ Earlier(p) \in SUBSET S
      /\ Earlier(0) \in SUBSET S
  BY <1>5, <1>6, MessageFacts DEF Earlier
<1>8. Among(h, S) = <<>> /\ Among(a, S) = a /\ Among(b, S) = b /\ Among(<<u>>, S) = <<>>
  <2>1. <<u>> \in Seq({u})
    OBVIOUS
  <2>2. Among(h, S) = <<>>
    BY <1>3, <1>7, AmongAll
  <2>3. Among(a, S) = a
    BY <1>3, <1>7, AmongAll
  <2>4. Among(b, S) = b
    BY <1>3, <1>7, AmongAll
  <2>5. Among(<<u>>, S) = <<>>
    BY <1>7, <2>1, AmongAll
  <2> QED BY <2>2, <2>3, <2>4, <2>5
<1>9. /\ h \in Seq(Message) /\ a \in Seq(Message) /\ b \in Seq(Message) /\ <<u>> \in Seq(Message)
  <2>1. /\ {System, Summary} \in SUBSET Message /\ Earlier(p) \in SUBSET Message
        /\ Earlier(0) \in SUBSET Message /\ u \in Message
    BY <1>6, MessageFacts
  <2>2. /\ Seq({System, Summary}) \in SUBSET Seq(Message) /\ Seq(Earlier(p)) \in SUBSET Seq(Message)
        /\ Seq(Earlier(0)) \in SUBSET Seq(Message)
    BY <2>1, SeqWidens
  <2> QED BY <1>3, <2>1, <2>2
<1>10. PICK f : f = h \o a
  OBVIOUS
<1>11. PICK r : r = <<u>> \o b
  OBVIOUS
<1>12. Among(f, S) = a
  <2>1. Among(h \o a, S) = Among(h, S) \o Among(a, S)
    BY <1>9, AmongConcat
  <2> QED BY <1>8, <1>9, <1>10, <2>1, ConcatEmptySeq
<1>13. Among(r, S) = b
  <2>1. PICK v : v = <<u>>
    OBVIOUS
  <2>2. Among(v \o b, S) = Among(v, S) \o Among(b, S)
    <3>1. v \in Seq(Message) /\ b \in Seq(Message)
      BY <1>9, <2>1
    <3> QED BY <3>1, MessagesAmong
  <2> QED BY <1>8, <1>9, <1>11, <2>1, <2>2, ConcatEmptySeq
<1>14. ms = f \o r /\ f \in Seq(Message) /\ r \in Seq(Message)
  BY <1>1, <1>6, <1>9, <1>10, <1>11, ConcatProperties DEF Between
<1>15. Among(ms, S) = a \o b
  <2>1. Among(f \o r, S) = Among(f, S) \o Among(r, S)
    BY <1>14, AmongConcat
  <2> QED BY <1>12, <1>13, <1>14, <2>1
<1>16. a \o b \in Talk(p)
  BY TalkGrows, TalkConcat
<1> QED BY <1>4, <1>5, <1>15, <1>16 DEF History

\* What compaction makes of a conversation is one of the same prompt.
LEMMA AssembledIsConversation ==
  ASSUME NEW p \in Nat, NEW ms, Conversation(ms, p), NEW force, NEW kept \in Keepable(ms, force)
  PROVE  /\ kept \in Talk(p) /\ Pinned(ms) = User(p)
         /\ Conversation(Assembled(ms, kept), p)
<1>1. Pinned(ms) = User(p) /\ History(ms) \in Talk(p)
  BY HistoryIsTalk
<1>2. kept \in {<<>>, Suffix(History(ms))}
  BY DEF Keepable
<1>3. kept \in Talk(p)
  BY <1>1, <1>2, SuffixIsTalk, TalkGrows
<1>4. PICK h : h = <<System, Summary>>
  OBVIOUS
<1>5. PICK b : b = <<>>
  OBVIOUS
<1>6. PICK u : u = User(p)
  OBVIOUS
<1>7. h \in Opening /\ b \in Talk(0)
  BY <1>4, <1>5, TalkGrows DEF Opening
<1>8. u \in Message /\ <<u>> \in Seq(Message)
  BY <1>6, MessageFacts
<1>9. <<u>> \o b = <<u>>
  BY <1>5, <1>8, ConcatEmptySeq
<1>10. Assembled(ms, kept) = Between(h, kept, p, b)
  BY <1>1, <1>4, <1>6, <1>9 DEF Assembled, Between
<1> QED BY <1>1, <1>3, <1>7, <1>10 DEF Conversation

\* How often the filter finds the message of a set.
LEMMA FiltersOfConversation ==
  ASSUME NEW p \in Nat, NEW ms, Conversation(ms, p)
  PROVE  Among(ms, {System}) = <<System>> /\ Len(Among(ms, {Summary})) <= 1
<1>1. PICK h \in Opening, a \in Talk(p), b \in Talk(0) : ms = Between(h, a, p, b)
  BY DEF Conversation
<1>2. PICK c : c = a \o (<<User(p)>> \o b)
  OBVIOUS
<1>3. c \in Seq(Dialogue)
  <2>1. Seq(Earlier(p)) \in SUBSET Seq(Dialogue) /\ Seq(Earlier(0)) \in SUBSET Seq(Dialogue)
    BY MessageFacts, SeqWidens
  <2>2. a \in Seq(Dialogue) /\ b \in Seq(Dialogue)
    BY <2>1 DEF Talk
  <2>3. PICK u \in Dialogue : u = User(p)
    BY MessageFacts
  <2>4. <<u>> \in Seq(Dialogue)
    OBVIOUS
  <2>5. <<u>> \o b \in Seq(Dialogue)
    BY <2>2, <2>4, ConcatProperties
  <2>6. PICK r \in Seq(Dialogue) : r = <<u>> \o b
    BY <2>5
  <2> QED BY <1>2, <2>2, <2>3, <2>6, ConcatProperties
<1>4. Dialogue \cap {System} = {} /\ Dialogue \cap {Summary} = {}
  BY MessageFacts
<1>5. Among(c, {System}) = <<>> /\ Among(c, {Summary}) = <<>>
  BY <1>3, <1>4, AmongAll
<1>6. PICK y \in Message : y = System /\ y # Summary
  BY MessageFacts
<1>7. PICK z \in Message : z = Summary
  BY MessageFacts
<1>7a. PICK Y : Y = {y}
  OBVIOUS
<1>7b. PICK Z : Z = {z}
  OBVIOUS
<1>8. PICK one : one = <<y>>
  OBVIOUS
<1>9. one \in Seq(Message) /\ Len(one) = 1 /\ Append(<<>>, y) = one /\ <<>> \in Seq(Message)
      /\ <<>> \o <<>> = <<>> /\ one \o <<>> = one
  BY <1>8
<1>10. /\ Among(one, Y) = one /\ Among(one, Z) = <<>>
  <2>1. y \in Y /\ y \notin Z
    BY <1>6, <1>7, <1>7a, <1>7b
  <2>2. PICK none \in Seq(Message) : none = <<>>
    BY <1>9
  <2>3. Among(Append(none, y), Y) = IF y \in Y THEN Append(Among(none, Y), y) ELSE Among(none, Y)
    BY AmongAppend
  <2>4. Among(Append(none, y), Z) = IF y \in Z THEN Append(Among(none, Z), y) ELSE Among(none, Z)
    BY AmongAppend
  <2> QED BY <1>9, <2>1, <2>2, <2>3, <2>4, AmongNothing
<1>11. PICK two : two = Append(one, z)
  OBVIOUS
<1>12. Among(two, Y) = one /\ Len(Among(two, Z)) = 1 /\ two \in Seq(Message)
       /\ Among(two, Z) \in Seq(Message)
  <2>1. z \in Z /\ z \notin Y
    BY <1>6, <1>7, <1>7a, <1>7b
  <2>2. Among(Append(one, z), Y) = IF z \in Y THEN Append(Among(one, Y), z) ELSE Among(one, Y)
    BY <1>9, AmongAppend
  <2>3. Among(Append(one, z), Z) = IF z \in Z THEN Append(Among(one, Z), z) ELSE Among(one, Z)
    BY <1>9, AmongAppend
  <2>4. Among(two, Y) = one /\ Among(two, Z) = Append(<<>>, z)
    BY <1>10, <1>11, <2>1, <2>2, <2>3
  <2>5. two \in Seq(Message)
    BY <1>9, <1>11, AppendProperties
  <2>6. Append(<<>>, z) \in Seq(Message) /\ Len(Append(<<>>, z)) = 1
    OBVIOUS
  <2> QED BY <2>4, <2>5, <2>6
<1>13. h = one \/ h = two
  BY <1>6, <1>7, <1>8, <1>11 DEF Opening
<1>14. /\ h \in Seq(Message) /\ Among(h, Y) = one /\ Len(Among(h, Z)) <= 1
       /\ Among(h, Z) \in Seq(Message)
  <2>1. CASE h = one
    <3>1. Len(<<>>) = 0
      OBVIOUS
    <3> QED BY <1>9, <1>10, <2>1, <3>1
  <2>2. CASE h = two
    <3>1. PICK k \in Nat : k = Len(Among(two, Z)) /\ k = 1
      BY <1>12
    <3>2. Len(Among(h, Z)) = k /\ k <= 1
      BY <2>2, <3>1
    <3> QED BY <1>12, <2>2, <3>2
  <2> QED BY <1>13, <2>1, <2>2
<1>15. c \in Seq(Message)
  <2>1. Seq(Dialogue) \in SUBSET Seq(Message)
    BY MessageFacts, SeqWidens
  <2> QED BY <1>3, <2>1
<1>16. ms = h \o c
  <2>1. PICK u : u = User(p)
    OBVIOUS
  <2>2. PICK r : r = <<u>> \o b
    OBVIOUS
  <2>3. a \in Seq(Message) /\ r \in Seq(Message)
    <3>1. /\ Seq(Earlier(p)) \in SUBSET Seq(Message) /\ Seq(Earlier(0)) \in SUBSET Seq(Message)
      BY MessageFacts, SeqWidens
    <3>2. a \in Seq(Message) /\ b \in Seq(Message) /\ <<u>> \in Seq(Message)
      BY <2>1, <3>1, MessageFacts DEF Talk
    <3> QED BY <2>2, <3>2, ConcatProperties
  <2>4. (h \o a) \o r = h \o (a \o r)
    <3>1. h \in Seq(Message)
      BY <1>14
    <3> QED BY <2>3, <3>1, MessagesConcat
  <2> QED BY <1>1, <1>2, <2>1, <2>2, <2>4 DEF Between
<1>17. Among(ms, Y) = one \o <<>>
  <2>1. Among(h \o c, Y) = Among(h, Y) \o Among(c, Y)
    <3>1. h \in Seq(Message)
      BY <1>14
    <3> QED BY <1>15, <3>1, MessagesAmong
  <2> QED BY <1>5, <1>6, <1>7a, <1>14, <1>16, <2>1
<1>18. Among(ms, Z) = Among(h, Z) \o <<>>
  <2>1. Among(h \o c, Z) = Among(h, Z) \o Among(c, Z)
    <3>1. h \in Seq(Message)
      BY <1>14
    <3> QED BY <1>15, <3>1, MessagesAmong
  <2> QED BY <1>5, <1>7, <1>7b, <1>16, <2>1
<1>19. Among(ms, Z) = Among(h, Z)
  BY <1>14, <1>18, ConcatEmptySeq
<1> QED BY <1>6, <1>7, <1>7a, <1>7b, <1>8, <1>9, <1>14, <1>17, <1>19

\* A conversation is a request that a provider accepts.
LEMMA ConversationWellFormed ==
  ASSUME NEW p \in Nat, NEW ms, Conversation(ms, p)
  PROVE  /\ ms[1] = System /\ Len(Among(ms, {System})) = 1
         /\ Cardinality({i \in DOMAIN ms : ms[i] = User(p)}) = 1
         /\ Len(Among(ms, {Summary})) <= 1
         /\ Closed(ms)
<1>1. PICK h \in Opening, a \in Talk(p), b \in Talk(0) : ms = Between(h, a, p, b)
  BY DEF Conversation
<1>2. PICK at \in DOMAIN ms : PromptAt(ms, p, at)
  BY <1>1, Places
<1>2a. /\ h \in Seq({System, Summary}) /\ a \in Seq(Earlier(p)) /\ b \in Seq(Earlier(0))
       /\ DOMAIN ms = 1 .. Len(ms) /\ ms \in Seq(Message) /\ ms[1] = System
  BY <1>1, Places
<1>3. /\ ms[1] = System /\ ms \in Seq(Message) /\ DOMAIN ms = 1 .. Len(ms)
      /\ at \in DOMAIN ms /\ ms[at] = User(p)
      /\ \A i \in DOMAIN ms : i < at => ms[i] # User(p)
      /\ \A i \in DOMAIN ms : i > at => ms[i].role # "user"
      /\ h \in Seq({System, Summary}) /\ a \in Seq(Earlier(p)) /\ b \in Seq(Earlier(0))
  BY <1>2, <1>2a DEF PromptAt
<1>4. {i \in DOMAIN ms : ms[i] = User(p)} = {at}
  <2>1. User(p).role = "user"
    BY MessageFacts
  <2>2. \A i \in DOMAIN ms : i < at \/ i = at \/ i > at
    BY <1>3
  <2> QED BY <1>3, <2>1, <2>2
<1>5. Cardinality({at}) = 1
  BY FS_Singleton
<1>6. Len(<<System>>) = 1
  OBVIOUS
<1>7. Closed(ms)
  <2>1. PICK u : u = User(p)
    OBVIOUS
  <2>2. /\ Seq({System, Summary}) \in SUBSET Seq(Message) /\ Seq(Earlier(p)) \in SUBSET Seq(Message)
        /\ Seq(Earlier(0)) \in SUBSET Seq(Message)
    <3>1. {System, Summary} \in SUBSET Message
      BY MessageFacts
    <3> QED BY <3>1, MessageFacts, SeqWidens
  <2>3. a \in Seq(Message) /\ b \in Seq(Message) /\ h \in Seq(Message) /\ <<u>> \in Seq(Message)
    BY <1>3, <2>1, <2>2, MessageFacts
  <2>4. Closed(h)
    <3>1. \A i \in DOMAIN h : h[i] \in {System, Summary}
      BY <1>3, ElementOfSeq
    <3>2. \A i \in DOMAIN h : h[i].role \in {"system", "summary"}
      BY <3>1, MessageFacts
    <3> QED BY <3>2 DEF Closed
  <2>5. Closed(a) /\ Closed(b) /\ Closed(<<u>>)
    BY <2>1, TalkGrows DEF Talk
  <2>6. PICK f : f = h \o a
    OBVIOUS
  <2>7. PICK r : r = <<u>> \o b
    OBVIOUS
  <2>8. Closed(f) /\ f \in Seq(Message)
    BY <2>3, <2>4, <2>5, <2>6, ClosedConcat, ConcatProperties
  <2>9. Closed(r) /\ r \in Seq(Message)
    BY <2>3, <2>5, <2>7, ClosedConcat, ConcatProperties
  <2>10. ms = f \o r
    BY <1>1, <2>1, <2>6, <2>7 DEF Between
  <2> QED BY <2>8, <2>9, <2>10, ClosedConcat
<1> QED BY <1>3, <1>4, <1>5, <1>6, <1>7, FiltersOfConversation

------------------------------------------------------------------------------
(* The journal. *)

Marks(entries) == {i \in DOMAIN entries : entries[i].role = "checkpoint"}

\* A set of positions has its Greatest.
LEMMA GreatestOfMarks ==
  ASSUME NEW n \in Nat, NEW S \in SUBSET (1 .. n), S # {}
  PROVE  Greatest(S) \in S /\ \A x \in S : (\A y \in S : y <= x) => Greatest(S) = x
<1> DEFINE N == {m \in Nat : \E x \in S : m = n - x}
<1>1. N \in SUBSET Nat /\ N # {}
  <2>1. PICK x \in S : TRUE
    OBVIOUS
  <2>2. n - x \in N
    BY <2>1
  <2> QED BY <2>2
<1>2. PICK m \in N : \A k \in N : m <= k
  <2> HIDE DEF N
  <2> QED BY <1>1, LeastOfNats
<1>3. PICK x \in S : m = n - x
  OBVIOUS
<1>4. ASSUME NEW y \in S PROVE y <= x
  <2>1. n - y \in N
    BY DEF N
  <2>2. m <= n - y
    BY <1>2, <2>1
  <2> QED BY <1>3, <2>2
<1>5. \A y, z \in S : y <= z /\ z <= y => y = z
  OBVIOUS
<1> HIDE DEF N
<1>6. Greatest(S) \in S /\ \A y \in S : y <= Greatest(S)
  BY <1>3, <1>4 DEF Greatest
<1> QED BY <1>5, <1>6

\* What the latest checkpoint left of the entries, and what came after it.
Recalled(E) == Among(E, {System}) \o <<Summary>> \o E[Greatest(Marks(E))].kept
Since(E)    == Said(SubSeq(E, Greatest(Marks(E)) + 1, Len(E)))

LEMMA ProjectionIs ==
  \A E : Projection(E) = IF Marks(E) = {} THEN Said(E) ELSE Recalled(E) \o Since(E)
BY DEF Projection, Marks, Recalled, Since

\* What the session shows is messages.
LEMMA PartsTyped ==
  ASSUME NEW E \in Seq(Entries)
  PROVE  /\ \A F \in Seq(Entries) : Said(F) \in Seq(Message)
         /\ Among(E, {System}) \in Seq(Message)
         /\ Marks(E) # {} => /\ Recalled(E) \in Seq(Message) /\ Since(E) \in Seq(Message)
                            /\ Greatest(Marks(E)) \in 1 .. Len(E)
         /\ Projection(E) \in Seq(Message)
<1>1. \A F \in Seq(Entries) : Said(F) \in Seq(Message)
  <2> DEFINE P == {F \in Seq(Entries) : Said(F) \in Seq(Message)}
  <2>1. <<>> \in P
    BY AmongNothing, EmptySeq DEF Said
  <2>2. ASSUME NEW F \in P, NEW e \in Entries PROVE Append(F, e) \in P
    <3>1. F \in Seq(Entries) /\ Said(F) \in Seq(Message) /\ Append(F, e) \in Seq(Entries)
      OBVIOUS
    <3>2. Said(Append(F, e)) = IF e \in Message THEN Append(Said(F), e) ELSE Said(F)
      BY <3>1, AmongAppend DEF Said
    <3>3. PICK q \in Seq(Message) : q = Said(F)
      BY <3>1
    <3>4. e \in Message => Append(q, e) \in Seq(Message)
      BY AppendProperties
    <3> QED BY <3>1, <3>2, <3>3, <3>4
  <2> HIDE DEF P
  <2>3. P \in SUBSET Seq(Entries)
    BY DEF P
  <2>4. P = Seq(Entries)
    BY <2>1, <2>2, <2>3, SeqSets
  <2> QED BY <2>4 DEF P
<1>2. Among(E, {System}) \in Seq(Message)
  <2> DEFINE P == {F \in Seq(Entries) : Among(F, {System}) \in Seq(Message)}
  <2>1. <<>> \in P
    BY AmongNothing, EmptySeq
  <2>2. ASSUME NEW F \in P, NEW e \in Entries PROVE Append(F, e) \in P
    <3>1. PICK S : S = {System}
      OBVIOUS
    <3>2. F \in Seq(Entries) /\ Append(F, e) \in Seq(Entries) /\ Among(F, S) \in Seq(Message)
      BY <3>1
    <3>3. Among(Append(F, e), S) = IF e \in S THEN Append(Among(F, S), e) ELSE Among(F, S)
      BY <3>2, AmongAppend
    <3>4. e \in S => e \in Message
      BY <3>1, MessageFacts
    <3>5. Among(Append(F, e), S) \in Seq(Message)
      BY <3>2, <3>3, <3>4, AppendProperties
    <3> QED BY <3>1, <3>2, <3>5
  <2> HIDE DEF P
  <2>3. P \in SUBSET Seq(Entries)
    BY DEF P
  <2>4. P = Seq(Entries)
    BY <2>1, <2>2, <2>3, SeqSets
  <2> QED BY <2>4 DEF P
<1>3. ASSUME Marks(E) # {}
      PROVE  /\ Recalled(E) \in Seq(Message) /\ Since(E) \in Seq(Message)
             /\ Greatest(Marks(E)) \in 1 .. Len(E)
  <2>1. PICK last : last = Greatest(Marks(E))
    OBVIOUS
  <2>3. Len(E) \in Nat /\ Marks(E) \in SUBSET (1 .. Len(E))
    BY DEF Marks
  <2>4. last \in Marks(E)
    BY <1>3, <2>1, <2>3, GreatestOfMarks
  <2>5. E[last].kept \in Seq(Message)
    <3>1. E[last] \in Entries /\ E[last].role = "checkpoint"
      BY <2>4 DEF Marks
    <3>2. E[last] \notin Message
      BY <3>1, MessageFacts
    <3> QED BY <3>1, <3>2 DEF Entries
  <2>6. Said(SubSeq(E, last + 1, Len(E))) \in Seq(Message)
    <3>1. last \in 1 .. Len(E)
      BY <2>3, <2>4
    <3>2. \A i \in last + 1 .. Len(E) : E[i] \in Entries
      BY <2>3, <3>1
    <3>3. SubSeq(E, last + 1, Len(E)) \in Seq(Entries)
      BY <2>3, <3>1, <3>2, SubSeqProperties
    <3> QED BY <1>1, <3>3
  <2>7. <<Summary>> \in Seq(Message)
    BY MessageFacts
  <2>8. PICK one \in Seq(Message) : one = <<Summary>>
    BY <2>7
  <2>9. PICK sys \in Seq(Message) : sys = Among(E, {System})
    BY <1>2
  <2>10. Recalled(E) = (sys \o one) \o E[last].kept
    BY <2>1, <2>8, <2>9 DEF Recalled
  <2>11. Recalled(E) \in Seq(Message)
    BY <2>5, <2>10, ConcatProperties
  <2> QED BY <2>1, <2>3, <2>4, <2>6, <2>11 DEF Since
<1>4. Projection(E) \in Seq(Message)
  BY <1>1, <1>3, ProjectionIs, ConcatProperties
<1> QED BY <1>1, <1>2, <1>3, <1>4

\* The entries after one of them.
LEMMA RestOf ==
  ASSUME NEW E \in Seq(Entries), NEW m \in 1 .. Len(E), NEW R, R = SubSeq(E, m + 1, Len(E))
  PROVE  R \in Seq(Entries) /\ Len(R) = Len(E) - m /\ \A i \in 1 .. Len(R) : R[i] = E[m + i]
<1>1. Len(E) \in Nat /\ m \in Nat /\ m <= Len(E)
  OBVIOUS
<1>2. \A i \in m + 1 .. Len(E) : E[i] \in Entries
  BY <1>1
<1>3. PICK n \in Nat : n = m + 1
  BY <1>1
<1>4. /\ R \in Seq(Entries)
      /\ Len(R) = IF n <= Len(E) THEN Len(E) - n + 1 ELSE 0
      /\ \A i \in 1 .. Len(E) - n + 1 : R[i] = E[n + i - 1]
  BY <1>1, <1>2, <1>3, SubSeqProperties
<1>5. Len(R) = Len(E) - m
  BY <1>1, <1>3, <1>4
<1>6. ASSUME NEW i \in 1 .. Len(R) PROVE R[i] = E[m + i]
  <2>1. i \in 1 .. Len(E) - n + 1 /\ n + i - 1 = m + i
    BY <1>1, <1>3, <1>5
  <2> QED BY <1>4, <2>1
<1> QED BY <1>4, <1>5, <1>6

\* What is said after the last checkpoint is shown after it.
LEMMA ProjectionAppend ==
  ASSUME NEW E \in Seq(Entries), NEW m \in Dialogue
  PROVE  Projection(Append(E, m)) = Append(Projection(E), m)
<1>1. PICK F : F = Append(E, m)
  OBVIOUS
<1>2. m \in Message /\ m \in Entries /\ m.role # "checkpoint" /\ m \notin {System}
  BY MessageFacts
<1>3. /\ F \in Seq(Entries) /\ Len(F) = Len(E) + 1 /\ F[Len(F)] = m /\ Len(E) \in Nat
      /\ \A i \in 1 .. Len(E) : F[i] = E[i]
      /\ DOMAIN F = 1 .. Len(F) /\ DOMAIN E = 1 .. Len(E)
  BY <1>1, <1>2, AppendProperties
<1>4. Marks(F) = Marks(E) /\ Marks(E) \in SUBSET (1 .. Len(E))
  <2>1. \A i \in 1 .. Len(F) : i \in 1 .. Len(E) \/ i = Len(F)
    BY <1>3
  <2>2. 1 .. Len(E) \in SUBSET (1 .. Len(F))
    BY <1>3
  <2> QED BY <1>2, <1>3, <2>1, <2>2 DEF Marks
<1>5. Among(F, {System}) = Among(E, {System})
  BY <1>1, <1>2, AmongAppend
<1>6. \A G \in Seq(Entries) : Said(Append(G, m)) = Append(Said(G), m)
  BY <1>2, AmongAppend DEF Said
<1>7. CASE Marks(E) = {}
  <2>1. Projection(E) = Said(E) /\ Projection(F) = Said(F)
    BY <1>4, <1>7, ProjectionIs
  <2> QED BY <1>1, <1>6, <2>1
<1>8. CASE Marks(E) # {}
  <2>1. PICK last : last = Greatest(Marks(E))
    OBVIOUS
  <2>2. last \in 1 .. Len(E) /\ F[last] = E[last] /\ last = Greatest(Marks(F))
    BY <1>3, <1>4, <1>8, <2>1, PartsTyped
  <2>3. Projection(E) = Recalled(E) \o Since(E)
    BY <1>8, ProjectionIs
  <2>4. Projection(F) = Recalled(E) \o Since(F)
    <3>1. Recalled(F) = Recalled(E)
      BY <1>5, <2>1, <2>2 DEF Recalled
    <3> QED BY <1>4, <1>8, <3>1, ProjectionIs
  <2>5. PICK G : G = SubSeq(E, last + 1, Len(E))
    OBVIOUS
  <2>6. G \in Seq(Entries) /\ Len(G) = Len(E) - last /\ \A i \in 1 .. Len(G) : G[i] = E[last + i]
    BY <2>2, <2>5, RestOf
  <2>7. SubSeq(F, last + 1, Len(F)) = Append(G, m)
    <3>1. PICK H : H = SubSeq(F, last + 1, Len(F))
      OBVIOUS
    <3>2. PICK K : K = Append(G, m)
      OBVIOUS
    <3>4. H \in Seq(Entries) /\ Len(H) = Len(F) - last /\ \A i \in 1 .. Len(H) : H[i] = F[last + i]
      <4>1. last \in 1 .. Len(F)
        BY <1>3, <2>2
      <4> QED BY <1>3, <3>1, <4>1, RestOf
    <3>5. /\ K \in Seq(Entries) /\ Len(K) = Len(G) + 1 /\ K[Len(G) + 1] = m
          /\ \A i \in 1 .. Len(G) : K[i] = G[i]
      BY <1>2, <2>6, <3>2, AppendProperties
    <3>6. Len(H) = Len(K)
      <4>1. \A x, y \in Nat : (x + 1) - y = (x - y) + 1
        OBVIOUS
      <4>2. Len(E) \in Nat /\ last \in Nat
        BY <1>3, <2>2
      <4> QED BY <1>3, <2>6, <3>4, <3>5, <4>1, <4>2
    <3>7. ASSUME NEW i \in 1 .. Len(K) PROVE H[i] = K[i]
      <4>1. H[i] = F[last + i]
        BY <3>4, <3>6
      <4>2. CASE i = Len(G) + 1
        <5>1. last + i = Len(F)
          BY <1>3, <2>2, <2>6, <4>2
        <5> QED BY <1>3, <3>5, <4>1, <4>2, <5>1
      <4>3. CASE i # Len(G) + 1
        <5>1. i \in 1 .. Len(G) /\ last + i \in 1 .. Len(E)
          <6>1. \A x, y \in Nat : \A j \in 1 .. (x - y) + 1 : y \in 1 .. x /\ j # (x - y) + 1 =>
                  j \in 1 .. (x - y) /\ y + j \in 1 .. x
            OBVIOUS
          <6>2. i \in 1 .. (Len(E) - last) + 1 /\ last \in Nat /\ i # (Len(E) - last) + 1
            BY <1>3, <2>2, <2>6, <3>5, <4>3
          <6> QED BY <1>3, <2>2, <2>6, <6>1, <6>2
        <5> QED BY <1>3, <2>6, <3>5, <4>1, <5>1
      <4> QED BY <4>2, <4>3
    <3>8. H = K
      BY <3>4, <3>5, <3>6, <3>7, SeqEqual
    <3> QED BY <3>1, <3>2, <3>8
  <2>8. Since(F) = Append(Since(E), m)
    BY <1>6, <2>1, <2>2, <2>5, <2>6, <2>7 DEF Since
  <2>9. PICK x \in Seq(Message) : x = Since(E)
    BY <1>8, PartsTyped
  <2>10. PICK y \in Seq(Message) : y = Recalled(E)
    BY <1>8, PartsTyped
  <2>11. y \o Append(x, m) = Append(y \o x, m)
    BY <1>2
  <2> QED BY <1>1, <2>3, <2>4, <2>8, <2>9, <2>10, <2>11
<1> QED BY <1>7, <1>8

\* Entries one after the other.
LEMMA EntriesAppend ==
  \A x, y \in Seq(Entries) : \A e \in Entries :
    x \o Append(y, e) = Append(x \o y, e) /\ Append(y, e) \in Seq(Entries)
BY ConcatProperties, AppendProperties

LEMMA EntriesConcat ==
  \A x, y, z \in Seq(Entries) : x \o (y \o z) = (x \o y) \o z /\ y \o z \in Seq(Entries)
<1>1. \A x, y, z \in Seq(Entries) : (x \o y) \o z = x \o (y \o z)
  BY ConcatAssociative
<1>2. \A y, z \in Seq(Entries) : y \o z \in Seq(Entries)
  BY ConcatProperties
<1> QED BY <1>1, <1>2

\* What is said one after the other is shown one after the other.
LEMMA ProjectionConcat ==
  ASSUME NEW E \in Seq(Entries), NEW R \in Seq(Dialogue)
  PROVE  Projection(E \o R) = Projection(E) \o R
<1> DEFINE P == {Q \in Seq(Dialogue) : Projection(E \o Q) = Projection(E) \o Q}
<1>1. PICK x \in Seq(Message) : x = Projection(E)
  BY PartsTyped
<1>2. <<>> \in P
  BY <1>1, EmptySeq, ConcatEmptySeq
<1>3. ASSUME NEW Q \in P, NEW m \in Dialogue PROVE Append(Q, m) \in P
  <2>1. Q \in Seq(Dialogue) /\ Append(Q, m) \in Seq(Dialogue) /\ Projection(E \o Q) = x \o Q
    BY <1>1
  <2>2. Q \in Seq(Entries) /\ Q \in Seq(Message) /\ m \in Message /\ m \in Entries
    <3>1. Seq(Dialogue) \in SUBSET Seq(Entries) /\ Seq(Dialogue) \in SUBSET Seq(Message)
      BY MessageFacts, SeqWidens
    <3> QED BY <2>1, <3>1, MessageFacts
  <2>3. PICK F \in Seq(Entries) : F = E \o Q
    BY <2>2, ConcatProperties
  <2>4. Projection(Append(F, m)) = Append(x \o Q, m)
    BY <2>1, <2>3, ProjectionAppend
  <2>5. E \o Append(Q, m) = Append(F, m)
    BY <2>2, <2>3, EntriesAppend
  <2>6. x \o Append(Q, m) = Append(x \o Q, m)
    BY <2>2
  <2> QED BY <1>1, <2>1, <2>4, <2>5, <2>6
<1> HIDE DEF P
<1>4. P \in SUBSET Seq(Dialogue)
  BY DEF P
<1>5. P = Seq(Dialogue)
  BY <1>2, <1>3, <1>4, SeqSets
<1> QED BY <1>5 DEF P

\* A checkpoint leaves the system message, a summary and what it kept.
LEMMA ProjectionCheckpoint ==
  ASSUME NEW E \in Seq(Entries), NEW k \in Seq(Message)
  PROVE  /\ Checkpoint(k) \in Entries
         /\ Projection(Append(E, Checkpoint(k))) = (Among(E, {System}) \o <<Summary>>) \o k
         /\ Among(Append(E, Checkpoint(k)), {System}) = Among(E, {System})
<1>1. PICK c : c = Checkpoint(k)
  OBVIOUS
<1>2. c \in Entries /\ c.role = "checkpoint" /\ c.kept = k
  BY <1>1 DEF Checkpoint, Entries
<1>3. PICK F : F = Append(E, c)
  OBVIOUS
<1>4. /\ F \in Seq(Entries) /\ Len(F) = Len(E) + 1 /\ F[Len(F)] = c /\ Len(F) \in Nat
      /\ DOMAIN F = 1 .. Len(F)
  BY <1>2, <1>3, AppendProperties
<1>5. Len(F) \in Marks(F) /\ Marks(F) \in SUBSET (1 .. Len(F)) /\ \A i \in Marks(F) : i <= Len(F)
  BY <1>2, <1>4 DEF Marks
<1>6. Greatest(Marks(F)) = Len(F)
  BY <1>4, <1>5, GreatestOfMarks
<1>7. PICK S : S = {System}
  OBVIOUS
<1>8. Among(F, S) = Among(E, S)
  <2>1. c \notin S
    BY <1>2, <1>7, MessageFacts
  <2> QED BY <1>2, <1>3, <2>1, AmongAppend
<1>9. Recalled(F) = (Among(E, {System}) \o <<Summary>>) \o k
  BY <1>2, <1>4, <1>6, <1>7, <1>8 DEF Recalled
<1>10. Since(F) = <<>>
  <2>1. SubSeq(F, Len(F) + 1, Len(F)) = <<>>
    BY <1>4, SubSeqEmpty
  <2> QED BY <1>6, <2>1, AmongNothing DEF Since, Said
<1>11. Projection(F) = Recalled(F) \o <<>>
  BY <1>5, <1>10, ProjectionIs
<1>12. Recalled(F) \in Seq(Message)
  BY <1>4, <1>5, PartsTyped
<1>13. Projection(F) = Recalled(F)
  BY <1>11, <1>12, ConcatEmptySeq
<1> QED BY <1>1, <1>2, <1>3, <1>7, <1>8, <1>9, <1>13

------------------------------------------------------------------------------
(* The invariant: the conversation of the loop is what the session would show *)
(* of its journal with the mutations the turn has not handed in yet.          *)

Pending == journal \o turn.mutations

TalkTypeOK ==
  /\ turn.prompt \in Nat /\ turn.replies \in Nat /\ (turn.pc # "idle" => turn.prompt # 0)
  /\ journal \in Seq(Entries) /\ turn.mutations \in Seq(Entries)

\* Nothing was ever asked, or the last prompt that was answered is a conversation.
HandedIn ==
  /\ Projection(journal) = answered
  /\ turn.pc = "idle" =>
       IF turn.prompt = 0 THEN journal = <<>> /\ answered = <<>>
       ELSE Among(journal, {System}) = <<System>> /\ Conversation(answered, turn.prompt)

\* What the loop would hand in shows the conversation it has.
Shown ==
  turn.pc \in {"top", "ask", "calls"} =>
    Among(Pending, {System}) = <<System>> /\ Projection(Pending) = turn.messages

\* A request is a conversation; while calls are under way only their results are
\* missing.
Spoken ==
  /\ turn.pc \in {"top", "ask"} => Conversation(turn.messages, turn.prompt)
  /\ turn.pc = "calls" =>
       \E ms, k : /\ Conversation(ms, turn.prompt) /\ k \in Nat /\ DOMAIN turn.batch = 1 .. k
                  /\ turn.messages = Append(ms, Reply(turn.replies, k))

TalkInv == TalkTypeOK /\ HandedIn /\ Shown /\ Spoken

\* A conversation with what follows in talk is one.
LEMMA ConversationGrows ==
  ASSUME NEW p \in Nat, NEW ms, Conversation(ms, p), NEW t \in Talk(0)
  PROVE  Conversation(ms \o t, p) /\ ms \in Seq(Message) /\ t \in Seq(Dialogue) /\ ms # <<>>
<1>1. PICK h \in Opening, a \in Talk(p), b \in Talk(0) : ms = Between(h, a, p, b)
  BY DEF Conversation
<1>2. /\ ms \in Seq(Message) /\ h \in Seq({System, Summary}) /\ a \in Seq(Earlier(p))
      /\ b \in Seq(Earlier(0)) /\ ms # <<>>
  <2>1. PICK at \in DOMAIN ms : PromptAt(ms, p, at)
    BY <1>1, Places
  <2>3. DOMAIN <<>> = {}
    OBVIOUS
  <2>4. ms # <<>>
    BY <2>3
  <2>5. /\ ms \in Seq(Message) /\ h \in Seq({System, Summary}) /\ a \in Seq(Earlier(p))
        /\ b \in Seq(Earlier(0))
    BY <1>1, Places
  <2> QED BY <2>4, <2>5
<1>3. PICK u : u = User(p)
  OBVIOUS
<1>4. PICK c \in Talk(0) : c = b \o t
  BY TalkConcat
<1>5. /\ Seq({System, Summary}) \in SUBSET Seq(Message) /\ Seq(Earlier(p)) \in SUBSET Seq(Message)
      /\ Seq(Earlier(0)) \in SUBSET Seq(Message) /\ Seq(Earlier(0)) \in SUBSET Seq(Dialogue)
  <2>1. {System, Summary} \in SUBSET Message
    BY MessageFacts
  <2> QED BY <2>1, MessageFacts, SeqWidens
<1>6. /\ h \in Seq(Message) /\ a \in Seq(Message) /\ b \in Seq(Message) /\ t \in Seq(Message)
      /\ <<u>> \in Seq(Message) /\ t \in Seq(Dialogue)
  BY <1>2, <1>3, <1>5, MessageFacts DEF Talk
<1>7. PICK f \in Seq(Message) : f = h \o a
  BY <1>6, ConcatProperties
<1>8. PICK one \in Seq(Message) : one = <<u>>
  BY <1>6
<1>9. PICK r \in Seq(Message) : r = one \o b
  BY <1>6, ConcatProperties
<1>10. ms \o t = f \o (one \o c)
  <2>1. t \in Seq(Message) /\ b \in Seq(Message)
    BY <1>6
  <2>2. (f \o r) \o t = f \o (r \o t)
    <3>1. \A y, z \in Seq(Message) : (f \o y) \o z = f \o (y \o z)
      BY MessagesConcat, Zenon
    <3>2. \A z \in Seq(Message) : (f \o r) \o z = f \o (r \o z)
      BY <3>1, Zenon
    <3> QED BY <2>1, <3>2, Zenon
  <2>3. (one \o b) \o t = one \o (b \o t)
    <3>1. \A y, z \in Seq(Message) : (one \o y) \o z = one \o (y \o z)
      BY MessagesConcat, Zenon
    <3>2. \A z \in Seq(Message) : (one \o b) \o z = one \o (b \o z)
      BY <2>1, <3>1, Zenon
    <3> QED BY <2>1, <3>2, Zenon
  <2> QED BY <1>1, <1>3, <1>4, <1>7, <1>8, <1>9, <2>2, <2>3 DEF Between
<1>11. ms \o t = Between(h, a, p, c)
  BY <1>3, <1>7, <1>8, <1>10 DEF Between
<1>12. ms # <<>>
  BY <1>2
<1> QED BY <1>2, <1>6, <1>11, <1>12 DEF Conversation

\* The next prompt of a conversation makes it one of that prompt.
LEMMA ConversationGoesOn ==
  ASSUME NEW p \in Nat, NEW ms, Conversation(ms, p)
  PROVE  Conversation(ms \o <<User(p + 1)>>, p + 1)
<1>1. PICK h \in Opening, a \in Talk(p), b \in Talk(0) : ms = Between(h, a, p, b)
  BY DEF Conversation
<1>2. PICK u : u = User(p)
  OBVIOUS
<1>3. PICK v : v = User(p + 1)
  OBVIOUS
<1>4. PICK q \in Nat : q = p + 1
  OBVIOUS
<1>5. a \in Talk(q) /\ b \in Talk(q) /\ <<u>> \in Talk(q) /\ <<>> \in Talk(0)
  BY <1>2, <1>4, TalkGrows
<1>6. PICK one \in Talk(q) : one = <<u>>
  BY <1>5
<1>7. PICK r \in Talk(q) : r = one \o b
  BY <1>5, TalkConcat
<1>8. PICK c \in Talk(q) : c = a \o r
  BY <1>5, TalkConcat
<1>9. h \in Seq(Message) /\ a \in Seq(Message) /\ r \in Seq(Message) /\ <<v>> \in Seq(Message)
  <2>1. {System, Summary} \in SUBSET Message
    BY MessageFacts
  <2>2. h \in Seq({System, Summary})
    BY <1>1, Places
  <2>3. /\ Seq({System, Summary}) \in SUBSET Seq(Message) /\ Seq(Earlier(p)) \in SUBSET Seq(Message)
        /\ Seq(Earlier(q)) \in SUBSET Seq(Message)
    BY <2>1, MessageFacts, SeqWidens
  <2> QED BY <1>3, <1>4, <2>2, <2>3, MessageFacts DEF Talk
<1>10. PICK w \in Seq(Message) : w = <<v>>
  BY <1>9
<1>11. ms = h \o c
  <2>1. (h \o a) \o r = h \o (a \o r)
    <3>1. h \in Seq(Message) /\ a \in Seq(Message) /\ r \in Seq(Message)
      BY <1>9
    <3>2. \A y, z \in Seq(Message) : (h \o y) \o z = h \o (y \o z)
      BY <3>1, MessagesConcat, Zenon
    <3>3. \A z \in Seq(Message) : (h \o a) \o z = h \o (a \o z)
      BY <3>1, <3>2, Zenon
    <3> QED BY <3>1, <3>3, Zenon
  <2> QED BY <1>1, <1>2, <1>6, <1>7, <1>8, <2>1 DEF Between
<1>12. PICK none \in Talk(0) : none = <<>>
  BY <1>5
<1>13. w \o none = w
  BY <1>12, ConcatEmptySeq
<1>14. ms \o w = Between(h, c, q, none)
  BY <1>3, <1>4, <1>10, <1>11, <1>13 DEF Between
<1> QED BY <1>3, <1>4, <1>10, <1>14 DEF Conversation

\* One message and another.
LEMMA PairConcat ==
  ASSUME NEW S, NEW x \in S, NEW y \in S
  PROVE  <<x>> \o <<y>> = <<x, y>>
<1>1. PICK s \in Seq(S) : s = <<x>>
  <2>1. <<x>> \in Seq(S)
    OBVIOUS
  <2> QED BY <2>1
<1>2. PICK t \in Seq(S) : t = <<y>>
  <2>1. <<y>> \in Seq(S)
    OBVIOUS
  <2> QED BY <2>1
<1>3. PICK v \in Seq(S) : v = <<x, y>>
  <2>1. <<x, y>> \in Seq(S)
    OBVIOUS
  <2> QED BY <2>1
<1>4. PICK u \in Seq(S) : u = s \o t
  BY ConcatProperties
<1>5. Len(s) = 1 /\ s[1] = x /\ Len(t) = 1 /\ t[1] = y
  BY <1>1, <1>2
<1>6. Len(v) = 2 /\ v[1] = x /\ v[2] = y
  BY <1>3
<1>7. Len(u) = 2 /\ u[1] = x /\ u[2] = y
  BY <1>4, <1>5, ConcatProperties
<1>8. \A i \in 1 .. Len(u) : u[i] = v[i]
  BY <1>6, <1>7
<1> QED BY <1>1, <1>2, <1>3, <1>4, <1>6, <1>7, <1>8, SeqEqual

\* Messages that follow what is pending are shown, and leave the system message
\* alone.
LEMMA PendingGrows ==
  ASSUME NEW E \in Seq(Entries), NEW R \in Seq(Dialogue)
  PROVE  /\ R \in Seq(Entries) /\ E \o R \in Seq(Entries)
         /\ Among(E \o R, {System}) = Among(E, {System})
         /\ Projection(E \o R) = Projection(E) \o R
<1>1. R \in Seq(Entries)
  BY MessageFacts, SeqWidens
<1>2. PICK S : S = {System}
  OBVIOUS
<1>3. Among(E \o R, S) = Among(E, S) \o Among(R, S)
  BY <1>1, AmongConcat
<1>4. Among(R, S) = <<>>
  <2>1. Dialogue \cap S = {}
    BY <1>2, MessageFacts
  <2> QED BY <2>1, AmongAll
<1>5. PICK x \in Seq(Entries) : x = Among(E, S)
  BY AmongIs
<1>6. x \o <<>> = x
  BY ConcatEmptySeq
<1> QED BY <1>1, <1>2, <1>3, <1>4, <1>5, <1>6, ProjectionConcat, ConcatProperties

\* A message at the end, as a sequence of its own.
LEMMA AppendsOne ==
  ASSUME NEW E, NEW m, E \in Seq(Message) \/ E \in Seq(Entries), m \in Dialogue
  PROVE  Append(E, m) = E \o <<m>> /\ <<m>> \in Seq(Dialogue)
<1>1. m \in Message /\ m \in Entries
  BY MessageFacts
<1> QED BY <1>1, AppendIsConcat

LEMMA RepliesAreTalk ==
  ASSUME NEW n \in Nat
  PROVE  Reply(n, 0) \in Dialogue /\ <<Reply(n, 0)>> \in Talk(0)
<1>1. PICK r : r = Reply(n, 0)
  OBVIOUS
<1>2. r \in Dialogue
  BY <1>1 DEF Reply, Dialogue
<1>3. PICK none : none = [i \in 1 .. 0 |-> Result(n, i)]
  OBVIOUS
<1>4. none = <<>>
  BY <1>3
<1>5. <<r>> \o none = <<r>>
  BY <1>2, <1>4, ConcatEmptySeq
<1>6. <<r>> \o none \in Talk(0)
  BY <1>1, <1>3, BatchIsTalk
<1> QED BY <1>1, <1>2, <1>5, <1>6

\* A prompt takes the session's messages and puts its own after them.
LEMMA PromptTalks ==
  ASSUME TalkInv, TurnTypeOK, PromptStarts
  PROVE  TalkInv'
<1> DEFINE opening == IF Projection(journal) = <<>> THEN <<System, User(1)>>
                      ELSE <<User(turn.prompt + 1)>>
<1>1. /\ turn.pc = "idle" /\ journal' = journal /\ answered' = answered
      /\ turn' = [turn EXCEPT !.pc = "top", !.prompt = @ + 1, !.recovered = FALSE,
                              !.messages = Projection(journal) \o opening, !.mutations = opening]
  BY DEF PromptStarts
<1>2. DOMAIN turn = {"pc", "batch", "messages", "mutations", "prompt", "replies", "recovered"}
  BY DEF TurnTypeOK
<1> HIDE DEF opening
<1>3. /\ turn'.pc = "top" /\ turn'.prompt = turn.prompt + 1 /\ turn'.replies = turn.replies
      /\ turn'.messages = Projection(journal) \o opening /\ turn'.mutations = opening
  BY <1>1, <1>2
<1>4. PICK p \in Nat : p = turn.prompt
  BY DEF TalkInv, TalkTypeOK
<1>5. turn.replies \in Nat /\ journal \in Seq(Entries) /\ Projection(journal) = answered
  BY DEF TalkInv, TalkTypeOK, HandedIn
<1>6. PICK u \in Dialogue : u = User(p + 1)
  BY <1>4, MessageFacts
<1>7. <<u>> \in Seq(Dialogue) /\ u \in Message
  BY MessageFacts
\* The journal as it will be handed in.
<1>8. /\ opening \in Seq(Entries)
      /\ Among(journal \o opening, {System}) = <<System>>
      /\ Projection(journal \o opening) = answered \o opening
      /\ Conversation(answered \o opening, p + 1)
  <2>1. CASE p = 0
    <3>1. journal = <<>> /\ answered = <<>>
      BY <1>1, <1>4, <2>1 DEF TalkInv, HandedIn
    <3>2. u = User(1) /\ p + 1 = 1
      BY <1>6, <2>1
    <3>3. opening = <<System, u>>
      BY <1>5, <3>1, <3>2 DEF opening
    <3>4. PICK s \in Message : s = System
      BY MessageFacts
    <3>5. PICK one \in Seq(Message) : one = <<s>>
      <4>1. <<s>> \in Seq(Message)
        OBVIOUS
      <4> QED BY <4>1
    <3>6. PICK two \in Seq(Dialogue) : two = <<u>>
      BY <1>7
    <3>7. PICK both : both = one \o two
      OBVIOUS
    <3>8. opening = both /\ both \in Seq(Message) /\ two \in Seq(Message) /\ two \in Seq(Entries)
          /\ one \in Seq(Entries)
      <4>1. Seq(Dialogue) \in SUBSET Seq(Message) /\ Seq(Message) \in SUBSET Seq(Entries)
        BY MessageFacts, SeqWidens
      <4>2. two \in Seq(Message) /\ two \in Seq(Entries) /\ one \in Seq(Entries)
        BY <4>1
      <4>3. both = <<s, u>>
        <5>1. <<s>> \o <<u>> = <<s, u>>
          BY <1>7, PairConcat
        <5> QED BY <3>5, <3>6, <3>7, <5>1
      <4> QED BY <3>3, <3>4, <3>7, <4>2, <4>3, ConcatProperties
    <3>9. both \in Seq(Entries)
      BY <3>8, MessageFacts, SeqWidens
    <3>10. journal \o opening = both /\ answered \o opening = both
      BY <3>1, <3>8, ConcatEmptySeq
    <3>11. Among(both, {System}) = <<System>>
      <4>1. PICK S : S = {s}
        OBVIOUS
      <4>2. Among(one \o two, S) = Among(one, S)
        BY <3>4, <3>8, <4>1, PendingGrows
      <4>3. Among(one, S) = one
        <5>1. {s} \subseteq S /\ one \in Seq({s})
          BY <3>5, <4>1
        <5> QED BY <5>1, AmongAll
      <4> QED BY <3>4, <3>5, <3>7, <4>1, <4>2, <4>3
    <3>12. Projection(both) = both
      <4>1. Marks(both) = {}
        <5>1. \A i \in DOMAIN both : both[i] \in Message
          BY <3>8, ElementOfSeq
        <5> QED BY <5>1, MessageFacts DEF Marks
      <4>2. Projection(both) = Said(both)
        BY <4>1, ProjectionIs
      <4>3. Said(both) = both
        BY <3>8, AmongAll DEF Said
      <4> QED BY <4>2, <4>3
    <3>13. Conversation(both, 1)
      <4>1. PICK none : none = <<>>
        OBVIOUS
      <4>2. none \in Talk(1) /\ none \in Talk(0) /\ one \in Opening
        BY <3>4, <3>5, <4>1, TalkGrows DEF Opening
      <4>3. one \o none = one /\ two \o none = two
        BY <4>1, ConcatEmptySeq
      <4>4. both = Between(one, none, 1, none)
        BY <3>2, <3>6, <3>7, <4>3 DEF Between
      <4> QED BY <4>2, <4>4 DEF Conversation
    <3> QED BY <3>2, <3>8, <3>9, <3>10, <3>11, <3>12, <3>13
  <2>2. CASE p # 0
    <3>1. Among(journal, {System}) = <<System>> /\ Conversation(answered, p)
      BY <1>1, <1>4, <2>2 DEF TalkInv, HandedIn
    <3>2. answered # <<>>
      BY <3>1, ConversationGrows, TalkGrows
    <3>3. PICK two \in Seq(Dialogue) : two = <<u>>
      BY <1>7
    <3>4. opening = two
      BY <1>4, <1>5, <1>6, <3>2, <3>3 DEF opening
    <3>5. Conversation(answered \o two, p + 1)
      BY <1>6, <3>1, <3>3, ConversationGoesOn
    <3> QED BY <1>5, <3>1, <3>4, <3>5, PendingGrows
  <2> QED BY <2>1, <2>2
<1>9. TalkTypeOK'
  BY <1>1, <1>3, <1>4, <1>5, <1>8 DEF TalkTypeOK
<1>10. HandedIn'
  BY <1>1, <1>3, <1>5 DEF HandedIn
<1>11. Shown'
  BY <1>1, <1>3, <1>5, <1>8 DEF Shown, Pending
<1>12. Spoken'
  BY <1>3, <1>4, <1>5, <1>8 DEF Spoken
<1> QED BY <1>9, <1>10, <1>11, <1>12 DEF TalkInv

\* A compaction leaves the session with what it leaves the loop.
LEMMA CompactionTalks ==
  ASSUME TalkInv, TurnTypeOK, turn.pc \in {"top", "ask"}, UNCHANGED <<journal, answered>>,
         NEW force, NEW kept \in Keepable(turn.messages, force),
         turn'.pc = "ask", turn'.prompt = turn.prompt, turn'.replies = turn.replies,
         turn'.messages = Assembled(turn.messages, kept),
         turn'.mutations = Append(turn.mutations, Checkpoint(Retained(turn.messages, kept)))
  PROVE  TalkInv'
<1>1. /\ turn.prompt \in Nat /\ turn.replies \in Nat /\ turn.mutations \in Seq(Entries)
      /\ journal \in Seq(Entries) /\ Projection(journal) = answered
  BY DEF TalkInv, TalkTypeOK, HandedIn
<1>2. PICK p \in Nat : p = turn.prompt
  BY <1>1
<1>3. PICK ms : ms = turn.messages
  OBVIOUS
<1>4. Conversation(ms, p)
  BY <1>2, <1>3 DEF TalkInv, Spoken
<1>5. kept \in Talk(p) /\ Pinned(ms) = User(p) /\ Conversation(Assembled(ms, kept), p)
  BY <1>3, <1>4, AssembledIsConversation
<1>6. PICK u \in Message : u = User(p)
  BY MessageFacts
<1>7. kept \in Seq(Message)
  <2>1. Seq(Earlier(p)) \in SUBSET Seq(Message)
    BY MessageFacts, SeqWidens
  <2> QED BY <1>5, <2>1 DEF Talk
<1>8. PICK k \in Seq(Message) : k = Append(kept, u)
  BY <1>7, AppendProperties
<1>9. Retained(ms, kept) = k
  BY <1>5, <1>6, <1>8 DEF Retained
<1>10. PICK E \in Seq(Entries) : E = Pending
  BY <1>1, ConcatProperties DEF Pending
<1>11. Among(E, {System}) = <<System>>
  BY <1>10 DEF TalkInv, Shown
<1>12. PICK c \in Entries : c = Checkpoint(k)
  BY <1>8, <1>10, ProjectionCheckpoint
<1>13. turn'.mutations = Append(turn.mutations, c)
  BY <1>3, <1>9, <1>12
<1>14. Pending' = Append(E, c)
  <2>1. journal \o Append(turn.mutations, c) = Append(journal \o turn.mutations, c)
    BY <1>1, EntriesAppend
  <2> QED BY <1>10, <1>13, <2>1 DEF Pending
<1>15. PICK s \in Message : s = System
  BY MessageFacts
<1>16. PICK z \in Message : z = Summary
  BY MessageFacts
<1>17. PICK head \in Seq(Message) : head = <<s, z>>
  <2>1. <<s, z>> \in Seq(Message)
    OBVIOUS
  <2> QED BY <2>1
<1>18. <<s>> \o <<z>> = head
  BY <1>17, PairConcat
<1>19. Among(Append(E, c), {System}) = <<System>> /\ Projection(Append(E, c)) = head \o k
  BY <1>8, <1>10, <1>11, <1>12, <1>15, <1>16, <1>18, ProjectionCheckpoint
<1>20. head \o k = Assembled(ms, kept)
  <2>1. PICK one \in Seq(Message) : one = <<u>>
    <3>1. <<u>> \in Seq(Message)
      OBVIOUS
    <3> QED BY <3>1
  <2>2. k = kept \o one
    BY <1>7, <1>8, <2>1, AppendIsConcat
  <2>3. (head \o kept) \o one = head \o (kept \o one)
    BY <1>7, <1>17, <2>1, MessagesConcat
  <2> QED BY <1>5, <1>6, <1>15, <1>16, <1>17, <2>1, <2>2, <2>3 DEF Assembled
<1>21. TalkTypeOK'
  <2>1. Append(turn.mutations, c) \in Seq(Entries)
    BY <1>1, EntriesAppend
  <2>2. turn.prompt # 0
    BY DEF TalkInv, TalkTypeOK
  <2> QED BY <1>1, <1>13, <2>1, <2>2 DEF TalkTypeOK
<1>22. HandedIn'
  BY <1>1 DEF HandedIn
<1>23. Shown'
  BY <1>3, <1>14, <1>19, <1>20 DEF Shown
<1>24. Spoken'
  BY <1>2, <1>3, <1>5 DEF Spoken
<1> QED BY <1>21, <1>22, <1>23, <1>24 DEF TalkInv

\* The final answer is handed in with the mutations of its turn.
LEMMA AnswerTalks ==
  ASSUME TalkInv, TurnTypeOK, Answers
  PROVE  TalkInv'
<1>1. PICK r : r = Reply(turn.replies + 1, 0)
  OBVIOUS
<1>2. /\ turn.pc = "ask" /\ journal' = journal \o Append(turn.mutations, r)
      /\ answered' = Append(turn.messages, r)
      /\ turn' = [turn EXCEPT !.pc = "idle", !.replies = @ + 1, !.messages = <<>>, !.mutations = <<>>]
  BY <1>1 DEF Answers
<1>3. DOMAIN turn = {"pc", "batch", "messages", "mutations", "prompt", "replies", "recovered"}
  BY DEF TurnTypeOK
<1>4. /\ turn'.pc = "idle" /\ turn'.replies = turn.replies + 1 /\ turn'.prompt = turn.prompt
      /\ turn'.mutations = <<>>
  BY <1>2, <1>3
<1>5. /\ turn.prompt \in Nat /\ turn.replies \in Nat /\ turn.mutations \in Seq(Entries)
      /\ journal \in Seq(Entries)
  BY DEF TalkInv, TalkTypeOK
<1>6. PICK p \in Nat : p = turn.prompt
  BY <1>5
<1>7. PICK ms : ms = turn.messages
  OBVIOUS
<1>8. Conversation(ms, p)
  BY <1>2, <1>6, <1>7 DEF TalkInv, Spoken
<1>9. PICK E \in Seq(Entries) : E = journal \o turn.mutations
  BY <1>5, ConcatProperties
<1>10. Among(E, {System}) = <<System>> /\ Projection(E) = ms
  BY <1>2, <1>7, <1>9 DEF TalkInv, Shown, Pending
<1>11. r \in Dialogue /\ <<r>> \in Talk(0)
  BY <1>1, <1>5, RepliesAreTalk
<1>12. PICK one \in Talk(0) : one = <<r>>
  BY <1>11
<1>13. Conversation(ms \o one, p) /\ ms \in Seq(Message) /\ one \in Seq(Dialogue) /\ ms # <<>>
  BY <1>8, ConversationGrows
<1>14. journal' = E \o one
  <2>1. r \in Entries
    BY <1>11, MessageFacts
  <2>2. journal \o Append(turn.mutations, r) = Append(journal \o turn.mutations, r)
    BY <1>5, <2>1, EntriesAppend
  <2>3. Append(E, r) = E \o <<r>>
    BY <1>11, AppendsOne
  <2> QED BY <1>2, <1>9, <1>12, <2>2, <2>3
<1>15. answered' = ms \o one
  BY <1>2, <1>7, <1>11, <1>12, <1>13, AppendsOne
<1>16. /\ E \o one \in Seq(Entries) /\ Among(E \o one, {System}) = <<System>>
       /\ Projection(E \o one) = ms \o one
  BY <1>10, <1>13, PendingGrows
<1>17. p # 0
  BY <1>2, <1>6 DEF TalkInv, TalkTypeOK
<1>18. TalkTypeOK'
  BY <1>4, <1>5, <1>14, <1>16, EmptySeq DEF TalkTypeOK
<1>19. HandedIn'
  BY <1>4, <1>6, <1>13, <1>14, <1>15, <1>16, <1>17 DEF HandedIn
<1>20. Shown' /\ Spoken'
  BY <1>4 DEF Shown, Spoken
<1> QED BY <1>18, <1>19, <1>20 DEF TalkInv

\* A step that leaves the messages alone, and one that drops them.
LEMMA NoTalk ==
  ASSUME TalkInv, UNCHANGED <<journal, answered>>, turn'.prompt = turn.prompt,
         turn'.replies = turn.replies, turn'.messages = turn.messages,
         turn'.mutations = turn.mutations, DOMAIN turn'.batch = DOMAIN turn.batch,
         turn'.pc = turn.pc \/ (turn.pc = "top" /\ turn'.pc = "ask")
  PROVE  TalkInv'
<1>1. TalkTypeOK'
  BY DEF TalkInv, TalkTypeOK
<1>2. HandedIn'
  BY DEF TalkInv, HandedIn
<1>3. Shown'
  BY DEF TalkInv, Shown, Pending
<1>4. Spoken'
  BY DEF TalkInv, Spoken
<1> QED BY <1>1, <1>2, <1>3, <1>4 DEF TalkInv

LEMMA FailedTalk ==
  ASSUME TalkInv, UNCHANGED <<journal, answered>>, turn'.prompt = turn.prompt,
         turn'.replies = turn.replies, turn'.mutations \in {<<>>, turn.mutations},
         turn.pc # "idle", turn'.pc = "failed"
  PROVE  TalkInv'
<1>1. TalkTypeOK'
  BY EmptySeq DEF TalkInv, TalkTypeOK
<1>2. HandedIn' /\ Shown' /\ Spoken'
  BY DEF TalkInv, HandedIn, Shown, Spoken
<1> QED BY <1>1, <1>2 DEF TalkInv

\* A reply that asks for calls.
LEMMA AskTalks ==
  ASSUME TalkInv, TurnTypeOK, AsksTools
  PROVE  TalkInv'
<1>1. PICK keys \in [1 .. 1 -> Keys] \cup [1 .. 2 -> Keys] :
        LET reply == Reply(turn.replies + 1, Len(keys))
        IN turn' = [turn EXCEPT !.pc = "calls", !.replies = @ + 1,
                                !.messages = Append(@, reply), !.mutations = Append(@, reply),
                                !.batch = [i \in DOMAIN keys |->
                                             [key |-> keys[i], state |-> "waiting"]]]
  BY DEF AsksTools
<1>2. PICK k \in {1, 2} : keys \in [1 .. k -> Keys]
  OBVIOUS
<1>3. Len(keys) = k /\ DOMAIN keys = 1 .. k
  BY <1>2
<1>4. PICK r : r = Reply(turn.replies + 1, k)
  OBVIOUS
<1>5. DOMAIN turn = {"pc", "batch", "messages", "mutations", "prompt", "replies", "recovered"}
  BY DEF TurnTypeOK
<1>6. PICK batch : batch = [i \in DOMAIN keys |-> [key |-> keys[i], state |-> "waiting"]]
  OBVIOUS
<1>7. /\ turn'.pc = "calls" /\ turn'.replies = turn.replies + 1 /\ turn'.prompt = turn.prompt
      /\ turn'.messages = Append(turn.messages, r) /\ turn'.mutations = Append(turn.mutations, r)
      /\ turn'.batch = batch
  BY <1>1, <1>3, <1>4, <1>5, <1>6
<1>8. turn.pc = "ask" /\ journal' = journal /\ answered' = answered /\ DOMAIN batch = 1 .. k
  BY <1>3, <1>6 DEF AsksTools
<1>9. /\ turn.prompt \in Nat /\ turn.replies \in Nat /\ turn.mutations \in Seq(Entries)
      /\ journal \in Seq(Entries) /\ turn.prompt # 0
  BY <1>8 DEF TalkInv, TalkTypeOK
<1>10. PICK ms : ms = turn.messages
  OBVIOUS
<1>11. Conversation(ms, turn.prompt)
  BY <1>8, <1>10 DEF TalkInv, Spoken
<1>12. PICK E \in Seq(Entries) : E = journal \o turn.mutations
  BY <1>9, ConcatProperties
<1>13. Among(E, {System}) = <<System>> /\ Projection(E) = ms
  BY <1>8, <1>10, <1>12 DEF TalkInv, Shown, Pending
<1>14. r \in Dialogue /\ r \in Entries
  <2>1. r \in Dialogue
    BY <1>2, <1>4, <1>9 DEF Reply, Dialogue
  <2> QED BY <2>1, MessageFacts
<1>15. PICK one \in Seq(Dialogue) : one = <<r>>
  <2>1. <<r>> \in Seq(Dialogue)
    BY <1>14
  <2> QED BY <2>1
<1>16. Append(E, r) = E \o one
  BY <1>14, <1>15, AppendsOne
<1>17. Append(ms, r) = ms \o one
  <2>1. ms \in Seq(Message)
    BY <1>9, <1>11, ConversationGrows, TalkGrows
  <2> QED BY <1>14, <1>15, <2>1, AppendsOne
<1>18. Pending' = E \o one /\ turn'.mutations \in Seq(Entries)
  <2>1. /\ journal \o Append(turn.mutations, r) = Append(journal \o turn.mutations, r)
        /\ Append(turn.mutations, r) \in Seq(Entries)
    BY <1>9, <1>14, EntriesAppend
  <2> QED BY <1>7, <1>8, <1>12, <1>16, <2>1 DEF Pending
<1>19. TalkTypeOK' /\ HandedIn'
  BY <1>7, <1>8, <1>9, <1>18 DEF TalkInv, TalkTypeOK, HandedIn
<1>20. Shown'
  BY <1>7, <1>10, <1>13, <1>17, <1>18, PendingGrows DEF Shown
<1>21. Spoken'
  BY <1>2, <1>4, <1>7, <1>8, <1>10, <1>11 DEF Spoken
<1> QED BY <1>19, <1>20, <1>21 DEF TalkInv

\* The results of a batch close its reply.
LEMMA BatchTalks ==
  ASSUME TalkInv, TurnTypeOK, BatchEnds
  PROVE  TalkInv'
<1>1. PICK ms, k : /\ Conversation(ms, turn.prompt) /\ k \in Nat /\ DOMAIN turn.batch = 1 .. k
                   /\ turn.messages = Append(ms, Reply(turn.replies, k))
  BY DEF BatchEnds, TalkInv, Spoken
<1>2. PICK results : results = [i \in 1 .. k |-> Result(turn.replies, i)]
  OBVIOUS
<1>3. DOMAIN turn = {"pc", "batch", "messages", "mutations", "prompt", "replies", "recovered"}
  BY DEF TurnTypeOK
<1>4. /\ turn.pc = "calls" /\ journal' = journal /\ answered' = answered
      /\ turn' = [turn EXCEPT !.pc = "top", !.recovered = FALSE, !.batch = <<>>,
                              !.messages = @ \o results, !.mutations = @ \o results]
  BY <1>1, <1>2 DEF BatchEnds
<1>5. /\ turn'.pc = "top" /\ turn'.replies = turn.replies /\ turn'.prompt = turn.prompt
      /\ turn'.messages = turn.messages \o results /\ turn'.mutations = turn.mutations \o results
  BY <1>3, <1>4
<1>6. /\ turn.prompt \in Nat /\ turn.replies \in Nat /\ turn.mutations \in Seq(Entries)
      /\ journal \in Seq(Entries) /\ turn.prompt # 0
  BY <1>4 DEF TalkInv, TalkTypeOK
<1>7. PICK r : r = Reply(turn.replies, k)
  OBVIOUS
<1>8. r \in Dialogue /\ results \in Seq(Dialogue)
  <2>1. r \in Dialogue
    BY <1>1, <1>6, <1>7 DEF Reply, Dialogue
  <2>2. \A i \in 1 .. k : Result(turn.replies, i) \in Dialogue
    BY <1>1, <1>6 DEF Result, Dialogue
  <2> QED BY <1>1, <1>2, <2>1, <2>2
<1>9. PICK t \in Talk(0) : t = <<r>> \o results
  BY <1>1, <1>2, <1>6, <1>7, BatchIsTalk
<1>10. Conversation(ms \o t, turn.prompt) /\ ms \in Seq(Message)
  BY <1>1, <1>6, ConversationGrows
<1>11. PICK one \in Seq(Dialogue) : one = <<r>>
  <2>1. <<r>> \in Seq(Dialogue)
    BY <1>8
  <2> QED BY <2>1
<1>12. /\ one \in Seq(Message) /\ results \in Seq(Message) /\ results \in Seq(Entries)
  BY <1>8, MessageFacts, SeqWidens
<1>13. turn.messages = ms \o one
  BY <1>1, <1>7, <1>8, <1>10, <1>11, AppendsOne
<1>14. turn'.messages = ms \o t
  <2>1. (ms \o one) \o results = ms \o (one \o results)
    BY <1>10, <1>12, MessagesConcat
  <2> QED BY <1>5, <1>9, <1>11, <1>13, <2>1
<1>15. PICK E \in Seq(Entries) : E = journal \o turn.mutations
  BY <1>6, ConcatProperties
<1>16. Among(E, {System}) = <<System>> /\ Projection(E) = turn.messages
  BY <1>4, <1>15 DEF TalkInv, Shown, Pending
<1>17. Pending' = E \o results /\ turn'.mutations \in Seq(Entries)
  <2>1. /\ journal \o (turn.mutations \o results) = (journal \o turn.mutations) \o results
        /\ turn.mutations \o results \in Seq(Entries)
    <3>1. journal \in Seq(Entries) /\ turn.mutations \in Seq(Entries) /\ results \in Seq(Entries)
      BY <1>6, <1>12
    <3>2. \A y, z \in Seq(Entries) : /\ journal \o (y \o z) = (journal \o y) \o z
                                      /\ y \o z \in Seq(Entries)
      BY <3>1, EntriesConcat, Zenon
    <3>3. \A z \in Seq(Entries) :
            /\ journal \o (turn.mutations \o z) = (journal \o turn.mutations) \o z
            /\ turn.mutations \o z \in Seq(Entries)
      BY <3>1, <3>2, Zenon
    <3> QED BY <3>1, <3>3, Zenon
  <2> QED BY <1>4, <1>5, <1>15, <2>1 DEF Pending
<1>18. TalkTypeOK' /\ HandedIn'
  BY <1>4, <1>5, <1>6, <1>17 DEF TalkInv, TalkTypeOK, HandedIn
<1>19. Shown'
  BY <1>5, <1>8, <1>16, <1>17, PendingGrows DEF Shown
<1>20. Spoken'
  BY <1>5, <1>10, <1>14 DEF Spoken
<1> QED BY <1>18, <1>19, <1>20 DEF TalkInv

\* The end of a call, and its start, leave the messages alone.
LEMMA SettlingTalks ==
  ASSUME TalkInv, TurnInv, NEW i \in DOMAIN turn.batch, Settles(i), UNCHANGED <<journal, answered>>
  PROVE  TalkInv'
<1>1. PICK batch : batch = [turn.batch EXCEPT ![i].state = "done"]
  OBVIOUS
<1>2. DOMAIN turn = {"pc", "batch", "messages", "mutations", "prompt", "replies", "recovered"}
  BY DEF TurnInv, TurnTypeOK
<1>3. turn' = [turn EXCEPT !.batch = batch] \/ turn' = Torn(batch)
  BY <1>1 DEF Settles
<1>4. turn.pc # "idle"
  <2> SUFFICES ASSUME turn.batch = <<>> PROVE FALSE
    BY DEF TurnInv, Idling
  <2> QED OBVIOUS
<1>5. CASE turn' = [turn EXCEPT !.batch = batch]
  <2>1. /\ turn'.pc = turn.pc /\ turn'.prompt = turn.prompt /\ turn'.replies = turn.replies
        /\ turn'.messages = turn.messages /\ turn'.mutations = turn.mutations /\ turn'.batch = batch
    BY <1>2, <1>5
  <2> QED BY <1>1, <2>1, NoTalk
<1>6. CASE turn' = Torn(batch)
  <2>1. /\ turn'.pc = "failed" /\ turn'.prompt = turn.prompt /\ turn'.replies = turn.replies
        /\ turn'.mutations = <<>>
    BY <1>2, <1>6 DEF Torn
  <2> QED BY <1>4, <2>1, FailedTalk
<1> QED BY <1>3, <1>5, <1>6

LEMMA StartTalks ==
  ASSUME TalkInv, TurnInv, CallStarts
  PROVE  TalkInv'
<1>1. With("waiting") \in SUBSET Nat /\ With("waiting") # {}
  BY BatchesAreFinite DEF TurnInv, With, CallStarts
<1>2. PICK i \in DOMAIN turn.batch : i = Least(With("waiting"))
  <2>1. Least(With("waiting")) \in With("waiting")
    BY <1>1, LeastOfNats
  <2> QED BY <2>1 DEF With
<1>3. journal' = journal /\ answered' = answered
  BY DEF CallStarts
<1>4. CASE Settles(i)
  BY <1>3, <1>4, SettlingTalks
<1>5. CASE ~Settles(i)
  <2>1. turn' = [turn EXCEPT !.batch[i].state = "running"]
    BY <1>2, <1>5 DEF CallStarts
  <2>2. DOMAIN turn = {"pc", "batch", "messages", "mutations", "prompt", "replies", "recovered"}
    BY DEF TurnInv, TurnTypeOK
  <2>3. /\ turn'.pc = turn.pc /\ turn'.prompt = turn.prompt /\ turn'.replies = turn.replies
        /\ turn'.messages = turn.messages /\ turn'.mutations = turn.mutations
        /\ DOMAIN turn'.batch = DOMAIN turn.batch
    BY <2>1, <2>2
  <2> QED BY <1>3, <2>3, NoTalk
<1> QED BY <1>4, <1>5

LEMMA TalkOpens == TurnInit => TalkInv
<1> SUFFICES ASSUME TurnInit PROVE TalkInv
  OBVIOUS
<1>1. /\ journal = <<>> /\ answered = <<>> /\ turn.pc = "idle" /\ turn.prompt = 0
      /\ turn.replies = 0 /\ turn.mutations = <<>>
  BY DEF TurnInit
<1>2. Projection(<<>>) = <<>>
  <2>1. PICK none : none = <<>>
    OBVIOUS
  <2>2. Marks(none) = {}
    BY <2>1 DEF Marks
  <2>3. Said(none) = <<>>
    BY <2>1, AmongNothing DEF Said
  <2> QED BY <2>1, <2>2, <2>3, ProjectionIs
<1> QED BY <1>1, <1>2, EmptySeq DEF TalkInv, TalkTypeOK, HandedIn, Shown, Spoken

\* Every step keeps the session and the loop at one.
LEMMA TalkSteps == TalkInv /\ TurnInv /\ [TurnNext]_turnVars => TalkInv'
<1> SUFFICES ASSUME TalkInv, TurnInv, [TurnNext]_turnVars PROVE TalkInv'
  OBVIOUS
<1>0. /\ TurnTypeOK
      /\ DOMAIN turn = {"pc", "batch", "messages", "mutations", "prompt", "replies", "recovered"}
  BY DEF TurnInv, TurnTypeOK
<1>1. CASE PromptStarts
  BY <1>0, <1>1, PromptTalks
<1>2. CASE PromptAborted \/ UNCHANGED turnVars
  BY <1>2, NoTalk DEF PromptAborted, turnVars
<1>3. CASE Compacts
  <2>1. turn.pc = "top" /\ journal' = journal /\ answered' = answered
    BY <1>3 DEF Compacts
  <2>2. CASE turn' = [turn EXCEPT !.pc = "ask"]
    <3>1. /\ turn'.pc = "ask" /\ turn'.prompt = turn.prompt /\ turn'.replies = turn.replies
          /\ turn'.messages = turn.messages /\ turn'.mutations = turn.mutations
          /\ turn'.batch = turn.batch
      BY <1>0, <2>2
    <3> QED BY <2>1, <3>1, NoTalk
  <2>3. CASE turn' # [turn EXCEPT !.pc = "ask"]
    <3>1. PICK kept \in Keepable(turn.messages, FALSE) : turn' = Recast(kept)
      BY <1>3, <2>3 DEF Compacts
    <3>2. /\ turn'.pc = "ask" /\ turn'.prompt = turn.prompt /\ turn'.replies = turn.replies
          /\ turn'.messages = Assembled(turn.messages, kept)
          /\ turn'.mutations = Append(turn.mutations, Checkpoint(Retained(turn.messages, kept)))
      BY <1>0, <3>1 DEF Recast
    <3> QED BY <1>0, <2>1, <3>1, <3>2, CompactionTalks
  <2> QED BY <2>2, <2>3
<1>4. CASE Overflows
  <2>1. turn.pc = "ask" /\ journal' = journal /\ answered' = answered
    BY <1>4 DEF Overflows
  <2>2. PICK kept \in Keepable(turn.messages, TRUE) : turn' = [Recast(kept) EXCEPT !.recovered = TRUE]
    BY <1>4 DEF Overflows
  <2>3. PICK recast : recast = Recast(kept)
    OBVIOUS
  <2>4. /\ recast.pc = "ask" /\ recast.prompt = turn.prompt /\ recast.replies = turn.replies
        /\ recast.messages = Assembled(turn.messages, kept)
        /\ recast.mutations = Append(turn.mutations, Checkpoint(Retained(turn.messages, kept)))
        /\ DOMAIN recast = DOMAIN turn
    BY <1>0, <2>3 DEF Recast
  <2>5. turn' = [recast EXCEPT !.recovered = TRUE]
    BY <2>2, <2>3
  <2>6. /\ turn'.pc = "ask" /\ turn'.prompt = turn.prompt /\ turn'.replies = turn.replies
        /\ turn'.messages = Assembled(turn.messages, kept)
        /\ turn'.mutations = Append(turn.mutations, Checkpoint(Retained(turn.messages, kept)))
    BY <1>0, <2>4, <2>5
  <2> QED BY <1>0, <2>1, <2>2, <2>6, CompactionTalks
<1>5. CASE Answers
  BY <1>0, <1>5, AnswerTalks
<1>6. CASE AsksTools
  BY <1>0, <1>6, AskTalks
<1>7. CASE PromptFails
  <2>1. /\ turn.pc # "idle" /\ journal' = journal /\ answered' = answered
        /\ turn'.pc = "failed" /\ turn'.prompt = turn.prompt /\ turn'.replies = turn.replies
        /\ turn'.mutations = <<>>
    BY <1>0, <1>7 DEF PromptFails
  <2> QED BY <2>1, FailedTalk
<1>8. CASE CallStarts
  BY <1>8, StartTalks
<1>9. ASSUME NEW i \in DOMAIN turn.batch, CallEnds(i) PROVE TalkInv'
  BY <1>9, SettlingTalks DEF CallEnds
<1>10. CASE BatchCancelled
  <2>1. /\ turn.pc # "idle" /\ journal' = journal /\ answered' = answered
        /\ turn'.pc = "failed" /\ turn'.prompt = turn.prompt /\ turn'.replies = turn.replies
        /\ turn'.mutations = <<>>
    BY <1>0, <1>10 DEF BatchCancelled
  <2> QED BY <2>1, FailedTalk
<1>11. CASE BatchEnds
  BY <1>0, <1>11, BatchTalks
<1> QED BY <1>1, <1>2, <1>3, <1>4, <1>5, <1>6, <1>7, <1>8, <1>9, <1>10, <1>11 DEF TurnNext

LEMMA SessionAndLoop == TurnSpec => []TalkInv
BY TalkOpens, TalkSteps, BatchesInOrder, PTL DEF TurnSpec

\* However often the loop compacts what it has, and the session projects it from
\* its journal's checkpoints: the next prompt continues the conversation that the
\* model saw last.
THEOREM SessionFollowsLoop == TurnSpec => []SessionMirrorsLoop
<1>1. TalkInv => SessionMirrorsLoop
  BY DEF TalkInv, HandedIn, SessionMirrorsLoop
<1> QED BY <1>1, SessionAndLoop, PTL

\* For every budget, number of prompts and length of a batch: a request has the
\* system message once and first, the prompt under way once, and every call with
\* its result, in their order.
THEOREM RequestsStayWellFormed == TurnSpec => []RequestsWellFormed
<1>1. TalkInv => RequestsWellFormed
  <2> SUFFICES ASSUME TalkInv, turn.pc = "ask" PROVE RequestsWellFormed
    BY DEF RequestsWellFormed
  <2>1. turn.prompt \in Nat /\ Conversation(turn.messages, turn.prompt)
    BY DEF TalkInv, TalkTypeOK, Spoken
  <2>2. PICK ms : ms = turn.messages
    OBVIOUS
  <2>3. ms \in Seq(Message) /\ Closed(ms)
    BY <2>1, <2>2, ConversationWellFormed, ConversationGrows, TalkGrows
  <2>4. ASSUME NEW i \in DOMAIN ms, ms[i].role = "tool"
        PROVE  i > ms[i].at /\ ms[i - ms[i].at].role = "assistant" /\ ms[i - ms[i].at].n = ms[i].of
    <3>1. i \in Nat /\ ms[i].at \in 1 .. i - 1
      BY <2>3, <2>4 DEF Closed
    <3> QED BY <2>3, <2>4, <3>1 DEF Closed
  <2>5. \A i \in DOMAIN ms : ms[i].role = "assistant" =>
          \A c \in 1 .. ms[i].calls : i + c <= Len(ms) /\ ms[i + c] = Result(ms[i].n, c)
    BY <2>3 DEF Closed
  <2> QED BY <2>1, <2>2, <2>4, <2>5, ConversationWellFormed, Zenon DEF RequestsWellFormed
<1> QED BY <1>1, SessionAndLoop, PTL

==============================================================================
