------------------------- MODULE ServicePartsProofs -------------------------
(***************************************************************************)
(* The services beside the leases, for all constants: the fills a push     *)
(* tells of, the replies a call of a model shows, and what a page that     *)
(* follows a run shows of it.                                              *)
(***************************************************************************)
EXTENDS MCServices, TLAPS

------------------------------------------------------------------------------
(* Fill notices. *)

Lists == UNION {[S -> Nat] : S \in SUBSET FillOrders}
Job   == [pc : {"idle", "spawned", "publishing"}, seen : Lists, known : Lists,
          cold : BOOLEAN, due : SUBSET FillOrders]

FillTypeOK ==
  /\ broker \in Lists /\ marks \in Lists
  /\ refresh \in [Refreshers -> [pc : {"idle", "fetched"}, seen : Lists]]
  /\ delivery \in [PushSlots -> Job]
  /\ \A d \in PushSlots : /\ delivery[d].pc = "publishing" =>
                               DOMAIN delivery[d].known = DOMAIN delivery[d].seen
                          /\ delivery[d].due \subseteq DOMAIN delivery[d].seen
  /\ level \in [FillOrders -> Nat]

Busy(pc) == pc # "idle"

\* Nobody fetches while another fetches or delivers.
OneAfterAnother ==
  /\ \A r, s \in Refreshers : Busy(refresh[r].pc) /\ Busy(refresh[s].pc) => r = s
  /\ \A d, e \in PushSlots : Busy(delivery[d].pc) /\ Busy(delivery[e].pc) => d = e
  /\ \A r \in Refreshers, d \in PushSlots : ~(Busy(refresh[r].pc) /\ Busy(delivery[d].pc))

Placed == DOMAIN broker \cup aged

\* A list that is under way names every order that has a watermark and is still
\* in the broker's list.
ListsCover ==
  /\ DOMAIN broker \cap aged = {} /\ DOMAIN marks \subseteq Placed
  /\ \A r \in Refreshers : Busy(refresh[r].pc) =>
       DOMAIN marks \subseteq DOMAIN refresh[r].seen \cup aged /\ DOMAIN refresh[r].seen \subseteq Placed
  /\ \A d \in PushSlots : Busy(delivery[d].pc) =>
       DOMAIN marks \subseteq DOMAIN delivery[d].seen \cup aged /\ DOMAIN delivery[d].seen \subseteq Placed

\* Orders that can still be told of: in the broker's list, yet to be placed, or in
\* a list that is under way.
InView(o) ==
  \/ o \notin aged
  \/ \E r \in Refreshers : Busy(refresh[r].pc) /\ o \in DOMAIN refresh[r].seen
  \/ \E d \in PushSlots : Busy(delivery[d].pc) /\ o \in DOMAIN delivery[d].seen

\* Half way through a delivery: what is still due has not been told past the
\* watermark the delivery knows, and nothing has been told past what it will save.
HalfWay(d) ==
  LET job == delivery[d]
  IN /\ \A o \in job.due : level[o] <= job.known[o]
     /\ \A o \in DOMAIN job.seen : level[o] <= Higher(job.known[o], job.seen[o])
     /\ \A o \in FillOrders : o \notin DOMAIN job.seen \cup aged => level[o] = 0

NothingAhead ==
  /\ \A d \in PushSlots : delivery[d].pc = "publishing" => HalfWay(d)
  /\ (\A d \in PushSlots : delivery[d].pc # "publishing") =>
       \A o \in FillOrders : InView(o) => level[o] <= Of(marks, o)

FillInv ==
  /\ FillTypeOK
  /\ ~repeated
  /\ ~muddled => OneAfterAnother /\ ListsCover /\ NothingAhead

LEMMA ListFacts ==
  /\ \A list \in Lists : DOMAIN list \subseteq FillOrders /\ \A o \in DOMAIN list : list[o] \in Nat
  /\ \A S \in SUBSET FillOrders : \A list \in [S -> Nat] : list \in Lists
  /\ NoList \in Lists /\ DOMAIN NoList = {}
<1>1. ASSUME NEW list \in Lists
      PROVE  DOMAIN list \subseteq FillOrders /\ \A o \in DOMAIN list : list[o] \in Nat
  <2>1. PICK S \in SUBSET FillOrders : list \in [S -> Nat]
    BY DEF Lists
  <2> QED BY <2>1
<1>2. ASSUME NEW S \in SUBSET FillOrders, NEW list \in [S -> Nat] PROVE list \in Lists
  BY DEF Lists
<1>3. NoList \in [{} -> Nat] /\ DOMAIN NoList = {}
  BY DEF NoList
<1>4. NoList \in Lists
  BY <1>2, <1>3
<1> QED BY <1>1, <1>2, <1>3, <1>4

LEMMA OfFacts ==
  ASSUME NEW list \in Lists, NEW o
  PROVE  Of(list, o) \in Nat
BY ListFacts DEF Of

LEMMA HigherFacts ==
  ASSUME NEW a \in Nat, NEW b \in Nat
  PROVE  Higher(a, b) \in Nat /\ a <= Higher(a, b) /\ b <= Higher(a, b)
         /\ \A c \in Nat : c <= a \/ c <= b => c <= Higher(a, b)
BY DEF Higher

LEMMA IdleFacts == NoDelivery \in Job /\ NoDelivery.pc = "idle" /\ NoDelivery.due = {}
                   /\ DOMAIN NoDelivery.seen = {} /\ DOMAIN NoDelivery.known = {}
                   /\ NoRefresh \in [pc : {"idle", "fetched"}, seen : Lists] /\ NoRefresh.pc = "idle"
BY ListFacts DEF NoDelivery, NoRefresh, Job

\* The broker moves beside everything.
LEMMA BrokerKeepsFills ==
  ASSUME FillInv, BrokerMoves
  PROVE  FillInv'
<1>1. UNCHANGED <<aged, refresh, delivery, marks, level, repeated, pushFaults, muddled>>
  BY DEF BrokerMoves
<1>2. PICK o \in FillOrders \ aged :
        broker' = IF o \in DOMAIN broker
                  THEN [broker EXCEPT ![o] = @ + 1]
                  ELSE [x \in DOMAIN broker \cup {o} |-> Of(broker, x)]
  BY DEF BrokerMoves
<1>3. broker \in Lists
  BY DEF FillInv, FillTypeOK
<1>4. /\ broker' \in Lists /\ DOMAIN broker \subseteq DOMAIN broker'
      /\ DOMAIN broker' \subseteq DOMAIN broker \cup {o}
  <2>1. PICK S \in SUBSET FillOrders : broker \in [S -> Nat]
    BY <1>3 DEF Lists
  <2>2. CASE o \in DOMAIN broker
    <3>1. broker' \in [S -> Nat]
      BY <1>2, <2>1, <2>2
    <3> QED BY <2>1, <3>1, ListFacts
  <2>3. CASE o \notin DOMAIN broker
    <3>1. \A x : Of(broker, x) \in Nat
      BY <1>3, OfFacts
    <3>2. broker' \in [S \cup {o} -> Nat]
      BY <1>2, <2>1, <2>3, <3>1
    <3> QED BY <2>1, <3>2, ListFacts
  <2> QED BY <2>2, <2>3
<1>5. FillTypeOK'
  BY <1>1, <1>4 DEF FillInv, FillTypeOK
<1>6. ASSUME ~muddled PROVE (OneAfterAnother /\ ListsCover /\ NothingAhead)'
  <2>1. OneAfterAnother /\ ListsCover /\ NothingAhead
    BY <1>6 DEF FillInv
  <2>2. OneAfterAnother'
    BY <1>1, <2>1 DEF OneAfterAnother
  <2>3. ListsCover'
    BY <1>1, <1>2, <1>4, <2>1 DEF ListsCover, Placed
  <2>4. NothingAhead'
    BY <1>1, <2>1 DEF NothingAhead, HalfWay, InView
  <2> QED BY <2>2, <2>3, <2>4
<1> QED BY <1>1, <1>5, <1>6 DEF FillInv

LEMMA AgeingKeepsFills ==
  ASSUME FillInv, OrderAgesOut
  PROVE  FillInv'
<1>1. UNCHANGED <<refresh, delivery, marks, level, repeated, pushFaults, muddled>>
  BY DEF OrderAgesOut
<1>2. PICK o \in DOMAIN broker : /\ broker' = [x \in DOMAIN broker \ {o} |-> broker[x]]
                                /\ aged' = aged \cup {o}
  BY DEF OrderAgesOut
<1>3. /\ broker' \in Lists /\ DOMAIN broker' = DOMAIN broker \ {o} /\ Placed' = Placed
  <2>1. PICK S \in SUBSET FillOrders : broker \in [S -> Nat]
    BY DEF FillInv, FillTypeOK, Lists
  <2>2. broker' \in [S \ {o} -> Nat]
    BY <1>2, <2>1
  <2> QED BY <1>2, <2>1, <2>2, ListFacts DEF Placed
<1>4. FillTypeOK'
  BY <1>1, <1>3 DEF FillInv, FillTypeOK
<1>5. ASSUME ~muddled PROVE (OneAfterAnother /\ ListsCover /\ NothingAhead)'
  <2>1. OneAfterAnother /\ ListsCover /\ NothingAhead
    BY <1>5 DEF FillInv
  <2>2. OneAfterAnother'
    BY <1>1, <2>1 DEF OneAfterAnother
  <2>3. ListsCover'
    BY <1>1, <1>2, <1>3, <2>1 DEF ListsCover
  <2>4. NothingAhead'
    BY <1>1, <1>2, <2>1 DEF NothingAhead, HalfWay, InView
  <2> QED BY <2>2, <2>3, <2>4
<1> QED BY <1>1, <1>4, <1>5 DEF FillInv

LEMMA FetchesKeepFills ==
  ASSUME FillInv, NEW r \in Refreshers, RefreshFetches(r)
  PROVE  FillInv'
<1> DEFINE row == [pc |-> "fetched", seen |-> broker]
<1>1. /\ UNCHANGED <<broker, aged, delivery, marks, level, repeated, pushFaults>>
      /\ refresh' = [refresh EXCEPT ![r] = row]
      /\ muddled' = (muddled \/ UnderWay # {} \/ Pending # {})
  BY DEF RefreshFetches
<1>2. row \in [pc : {"idle", "fetched"}, seen : Lists]
  BY DEF FillInv, FillTypeOK
<1>3. /\ refresh' \in [Refreshers -> [pc : {"idle", "fetched"}, seen : Lists]]
      /\ refresh'[r] = row
      /\ \A s \in Refreshers : s # r => refresh'[s] = refresh[s]
  BY <1>1, <1>2 DEF FillInv, FillTypeOK
<1>4. FillTypeOK'
  BY <1>1, <1>3 DEF FillInv, FillTypeOK
<1>5. ASSUME ~muddled' PROVE (OneAfterAnother /\ ListsCover /\ NothingAhead)'
  <2>1. ~muddled /\ UnderWay = {} /\ Pending = {}
    BY <1>1, <1>5
  <2>2. OneAfterAnother /\ ListsCover /\ NothingAhead
    BY <2>1 DEF FillInv
  <2>3. /\ \A s \in Refreshers : refresh[s].pc = "idle"
        /\ \A d \in PushSlots : delivery[d].pc = "idle"
    BY <2>1 DEF UnderWay, Pending
  <2>4. OneAfterAnother'
    BY <1>1, <1>3, <2>3 DEF OneAfterAnother, Busy
  <2>5. ListsCover'
    BY <1>1, <1>3, <2>2, <2>3 DEF ListsCover, Placed, Busy
  <2>6. \A o : InView(o)' => InView(o)
    BY <1>1, <1>3, <2>2 DEF InView, ListsCover
  <2>7. NothingAhead'
    BY <1>1, <2>2, <2>6 DEF NothingAhead, HalfWay
  <2> QED BY <2>4, <2>5, <2>7
<1> QED BY <1>1, <1>4, <1>5 DEF FillInv

\* A refresh that ends, with or without a list to deliver.
LEMMA RefreshesEndSafely ==
  ASSUME FillInv, NEW r \in Refreshers, refresh[r].pc = "fetched",
         refresh' = [refresh EXCEPT ![r] = NoRefresh],
         UNCHANGED <<broker, aged, delivery, marks, level, repeated, muddled>>
  PROVE  FillInv'
<1>1. /\ refresh' \in [Refreshers -> [pc : {"idle", "fetched"}, seen : Lists]]
      /\ refresh'[r] = NoRefresh /\ ~Busy(refresh'[r].pc)
      /\ \A s \in Refreshers : s # r => refresh'[s] = refresh[s]
  BY IdleFacts DEF FillInv, FillTypeOK, Busy
<1>2. FillTypeOK'
  BY <1>1 DEF FillInv, FillTypeOK
<1>3. ASSUME ~muddled PROVE (OneAfterAnother /\ ListsCover /\ NothingAhead)'
  <2>1. OneAfterAnother /\ ListsCover /\ NothingAhead
    BY <1>3 DEF FillInv
  <2>2. OneAfterAnother'
    BY <1>1, <2>1 DEF OneAfterAnother
  <2>3. ListsCover'
    BY <1>1, <2>1 DEF ListsCover, Placed
  <2>4. \A o : InView(o)' => InView(o)
    BY <1>1 DEF InView
  <2>5. NothingAhead'
    BY <2>1, <2>4 DEF NothingAhead, HalfWay
  <2> QED BY <2>2, <2>3, <2>5
<1> QED BY <1>2, <1>3 DEF FillInv

LEMMA CommitsKeepFills ==
  ASSUME FillInv, NEW r \in Refreshers, RefreshCommits(r)
  PROVE  FillInv'
<1> DEFINE job == [pc |-> "spawned", seen |-> refresh[r].seen, known |-> NoList,
                   cold |-> FALSE, due |-> {}]
<1>1. /\ UNCHANGED <<broker, aged, marks, level, repeated, muddled>>
      /\ refresh[r].pc = "fetched" /\ refresh' = [refresh EXCEPT ![r] = NoRefresh]
      /\ delivery' = delivery \/ (Pending # PushSlots /\ delivery' = Spawned(job))
  BY DEF RefreshCommits, Spawned
<1>2. CASE delivery' = delivery
  BY <1>1, <1>2, RefreshesEndSafely
<1>3. CASE Pending # PushSlots /\ delivery' = Spawned(job)
  <2>1. PICK s \in PushSlots : s \notin Pending /\ delivery' = [delivery EXCEPT ![s] = job]
    <3>1. \E d \in PushSlots : d \notin Pending
      BY <1>3 DEF Pending
    <3> HIDE DEF job
    <3> QED BY <1>3, <3>1 DEF Spawned
  <2>2. refresh[r].seen \in Lists
    BY DEF FillInv, FillTypeOK
  <2>3. job \in Job /\ job.due = {} /\ job.pc = "spawned" /\ job.seen = refresh[r].seen
    BY <2>2, ListFacts DEF Job
  <2> HIDE DEF job
  <2>4. /\ refresh' \in [Refreshers -> [pc : {"idle", "fetched"}, seen : Lists]]
        /\ refresh'[r] = NoRefresh /\ ~Busy(refresh'[r].pc)
        /\ \A u \in Refreshers : u # r => refresh'[u] = refresh[u]
    BY <1>1, IdleFacts DEF FillInv, FillTypeOK, Busy
  <2>5. /\ delivery' \in [PushSlots -> Job] /\ delivery'[s] = job
        /\ \A d \in PushSlots : d # s => delivery'[d] = delivery[d]
    BY <2>1, <2>3 DEF FillInv, FillTypeOK
  <2>6. FillTypeOK'
    BY <1>1, <2>3, <2>4, <2>5 DEF FillInv, FillTypeOK
  <2>7. ASSUME ~muddled PROVE (OneAfterAnother /\ ListsCover /\ NothingAhead)'
    <3>1. OneAfterAnother /\ ListsCover /\ NothingAhead
      BY <2>7 DEF FillInv
    <3>2. Busy(refresh[r].pc)
      BY <1>1 DEF Busy
    <3>3. /\ \A u \in Refreshers : ~Busy(refresh'[u].pc)
          /\ \A d \in PushSlots : ~Busy(delivery[d].pc)
      BY <2>4, <3>1, <3>2 DEF OneAfterAnother
    <3>4. OneAfterAnother'
      BY <2>5, <3>3 DEF OneAfterAnother
    <3>5. ListsCover'
      BY <1>1, <2>3, <2>5, <3>1, <3>2, <3>3 DEF ListsCover, Placed
    <3>6. /\ \A d \in PushSlots : delivery[d].pc # "publishing"
          /\ \A d \in PushSlots : delivery'[d].pc # "publishing"
      BY <2>3, <2>5, <3>3 DEF Busy
    <3>7. \A o : InView(o)' => InView(o)
      BY <1>1, <2>3, <2>5, <3>2, <3>3 DEF InView
    <3>8. NothingAhead'
      BY <1>1, <3>1, <3>6, <3>7 DEF NothingAhead
    <3> QED BY <3>4, <3>5, <3>8
  <2> QED BY <1>1, <2>6, <2>7 DEF FillInv
<1> QED BY <1>1, <1>2, <1>3

\* What a step muddles is bound by the types alone.
LEMMA MuddledStepsKeepFills ==
  ASSUME FillInv, muddled' = TRUE,
         refresh' = refresh \/ refresh' = [r \in Refreshers |-> NoRefresh],
         delivery' = [d \in PushSlots |-> NoDelivery]
           \/ (\E d \in PushSlots : delivery' = [delivery EXCEPT ![d] = NoDelivery]),
         UNCHANGED <<broker, aged, marks, level, repeated>>
  PROVE  FillInv'
<1>1. refresh' \in [Refreshers -> [pc : {"idle", "fetched"}, seen : Lists]]
  BY IdleFacts DEF FillInv, FillTypeOK
<1>2. \A d \in PushSlots : delivery'[d] = delivery[d] \/ delivery'[d] = NoDelivery
  BY DEF FillInv, FillTypeOK
<1>3. delivery' \in [PushSlots -> Job]
  BY IdleFacts DEF FillInv, FillTypeOK
<1>4. FillTypeOK'
  BY <1>1, <1>2, <1>3, IdleFacts DEF FillInv, FillTypeOK
<1> QED BY <1>4 DEF FillInv

\* One delivery is at work: no other is, and no refresh.
LEMMA AloneAtWork ==
  ASSUME FillInv, ~muddled, NEW d \in PushSlots, Busy(delivery[d].pc)
  PROVE  /\ \A e \in PushSlots : e # d => ~Busy(delivery[e].pc)
         /\ \A r \in Refreshers : ~Busy(refresh[r].pc)
BY DEF FillInv, OneAfterAnother

LEMMA LoadsKeepFills ==
  ASSUME FillInv, NEW d \in PushSlots, DeliveryLoads(d)
  PROVE  FillInv'
<1> DEFINE seen0 == delivery[d].seen
           known0 == Announced(seen0)
           cold0 == marks = NoList
           due0 == {o \in DOMAIN seen0 : ~cold0 /\ seen0[o] > known0[o]}
           job == [pc |-> "publishing", seen |-> seen0, known |-> known0, cold |-> cold0,
                   due |-> due0]
<1>1. /\ delivery[d].pc = "spawned"
      /\ delivery' = [delivery EXCEPT ![d] = job]
      /\ UNCHANGED <<broker, aged, refresh, marks, level, repeated, pushFaults, muddled>>
  BY DEF DeliveryLoads
<1>2. seen0 \in Lists /\ marks \in Lists /\ DOMAIN seen0 \subseteq FillOrders
      /\ \A o \in DOMAIN seen0 : seen0[o] \in Nat
  BY ListFacts DEF FillInv, FillTypeOK, Job
<1>3. /\ DOMAIN known0 = DOMAIN seen0 /\ known0 \in [DOMAIN seen0 -> Nat]
      /\ \A o \in DOMAIN seen0 : known0[o] = Of(marks, o)
  BY <1>2, OfFacts DEF Announced
<1>4. known0 \in Lists
  BY <1>2, <1>3, ListFacts
<1>5. due0 \subseteq DOMAIN seen0 /\ cold0 \in BOOLEAN
  OBVIOUS
<1> HIDE DEF seen0, known0, cold0, due0
<1>6. job \in Job
  BY <1>2, <1>4, <1>5 DEF Job
<1>7. job.pc = "publishing" /\ job.seen = seen0 /\ job.known = known0 /\ job.due = due0
  OBVIOUS
<1> HIDE DEF job
<1>8. /\ delivery' \in [PushSlots -> Job] /\ delivery'[d] = job
      /\ \A e \in PushSlots : e # d => delivery'[e] = delivery[e]
  BY <1>1, <1>6 DEF FillInv, FillTypeOK
<1>9. FillTypeOK'
  BY <1>1, <1>3, <1>5, <1>7, <1>8 DEF FillInv, FillTypeOK
<1>10. ASSUME ~muddled PROVE (OneAfterAnother /\ ListsCover /\ NothingAhead)'
  <2>1. OneAfterAnother /\ ListsCover /\ NothingAhead /\ Busy(delivery[d].pc)
    BY <1>1, <1>10 DEF FillInv, Busy
  <2>2. /\ \A e \in PushSlots : e # d => ~Busy(delivery[e].pc)
        /\ \A r \in Refreshers : ~Busy(refresh[r].pc)
    BY <1>10, <2>1, AloneAtWork
  <2>3. OneAfterAnother'
    BY <1>1, <1>8, <2>2 DEF OneAfterAnother
  <2>4. ListsCover'
    BY <1>1, <1>7, <1>8, <2>1, <2>2 DEF ListsCover, Placed, seen0
  <2>5. /\ \A o \in DOMAIN seen0 : level[o] <= Of(marks, o)
        /\ \A o \in FillOrders : o \notin aged => level[o] <= Of(marks, o)
    <3>1. \A o \in FillOrders : InView(o) => level[o] <= Of(marks, o)
      BY <1>1, <2>1, <2>2 DEF NothingAhead, Busy
    <3>2. \A o \in DOMAIN seen0 : InView(o)
      BY <2>1 DEF InView, seen0
    <3> QED BY <1>2, <3>1, <3>2 DEF InView
  <2>6. DOMAIN marks \subseteq DOMAIN seen0 \cup aged
    BY <2>1 DEF ListsCover, seen0
  <2>7. \A o \in due0 : level[o] <= known0[o]
    BY <1>2, <1>3, <1>5, <2>5
  <2>8. ASSUME NEW o \in DOMAIN seen0
        PROVE  level[o] <= Higher(known0[o], seen0[o])
    <3>1. level[o] \in Nat /\ level[o] <= Of(marks, o)
      BY <1>2, <2>5 DEF FillInv, FillTypeOK
    <3> QED BY <1>2, <1>3, <3>1, HigherFacts
  <2>9. ASSUME NEW o \in FillOrders, o \notin DOMAIN seen0 \cup aged
        PROVE  level[o] = 0
    <3>1. level[o] \in Nat /\ level[o] <= Of(marks, o)
      BY <2>5, <2>9 DEF FillInv, FillTypeOK
    <3>2. Of(marks, o) = 0
      BY <2>6, <2>9 DEF Of
    <3> QED BY <3>1, <3>2
  <2>10. HalfWay(d)'
    BY <1>1, <1>7, <1>8, <2>7, <2>8, <2>9 DEF HalfWay
  <2>11. NothingAhead'
    BY <1>7, <1>8, <2>2, <2>10 DEF NothingAhead, Busy
  <2> QED BY <2>3, <2>4, <2>11
<1> QED BY <1>1, <1>9, <1>10 DEF FillInv

LEMMA PublishingKeepsFills ==
  ASSUME FillInv, NEW d \in PushSlots, DeliveryPublishes(d)
  PROVE  FillInv'
<1> DEFINE job == delivery[d]
<1>1. PICK o \in job.due :
        /\ delivery' = [delivery EXCEPT ![d].due = @ \ {o}]
        /\ level' = [level EXCEPT ![o] = Higher(@, job.seen[o])]
        /\ repeated' = (repeated \/ (~muddled /\ job.known[o] < level[o]))
  BY DEF DeliveryPublishes
<1>2. job.pc = "publishing" /\ UNCHANGED <<broker, aged, refresh, marks, pushFaults, muddled>>
  BY DEF DeliveryPublishes
<1>3. /\ job \in Job /\ DOMAIN job.known = DOMAIN job.seen /\ job.due \subseteq DOMAIN job.seen
      /\ level \in [FillOrders -> Nat]
  BY <1>2 DEF FillInv, FillTypeOK
<1>4. /\ o \in DOMAIN job.seen /\ o \in FillOrders
      /\ \A x \in DOMAIN job.seen : job.seen[x] \in Nat /\ job.known[x] \in Nat
  BY <1>1, <1>3, ListFacts DEF Job
<1> DEFINE new == [job EXCEPT !.due = @ \ {o}]
<1>5. /\ new \in Job /\ new.pc = "publishing" /\ new.seen = job.seen /\ new.known = job.known
      /\ new.due = job.due \ {o}
  BY <1>2, <1>3 DEF Job
<1>6. delivery' = [delivery EXCEPT ![d] = new]
  BY <1>1 DEF FillInv, FillTypeOK
<1> HIDE DEF new, job
<1>7. /\ delivery' \in [PushSlots -> Job] /\ delivery'[d] = new
      /\ \A e \in PushSlots : e # d => delivery'[e] = delivery[e]
  BY <1>5, <1>6 DEF FillInv, FillTypeOK
<1>8. /\ Higher(level[o], job.seen[o]) \in Nat
      /\ level'[o] = Higher(level[o], job.seen[o])
      /\ \A x \in FillOrders : x # o => level'[x] = level[x]
      /\ level' \in [FillOrders -> Nat]
  BY <1>1, <1>3, <1>4, HigherFacts
<1>9. FillTypeOK'
  BY <1>2, <1>3, <1>5, <1>7, <1>8 DEF FillInv, FillTypeOK
<1>10. ~muddled => HalfWay(d)
  BY <1>2 DEF FillInv, NothingAhead, job
<1>11. ~muddled => ~(job.known[o] < level[o])
  BY <1>1, <1>3, <1>4, <1>10 DEF HalfWay, job
<1>12. ~repeated'
  BY <1>1, <1>11 DEF FillInv
<1>13. ASSUME ~muddled PROVE (OneAfterAnother /\ ListsCover /\ NothingAhead)'
  <2>1. OneAfterAnother /\ ListsCover /\ NothingAhead /\ Busy(delivery[d].pc)
    BY <1>2, <1>13 DEF FillInv, Busy, job
  <2>2. /\ \A e \in PushSlots : e # d => ~Busy(delivery[e].pc)
        /\ \A r \in Refreshers : ~Busy(refresh[r].pc)
    BY <1>13, <2>1, AloneAtWork
  <2>3. OneAfterAnother'
    BY <1>2, <1>7, <2>2 DEF OneAfterAnother
  <2>4. ListsCover'
    BY <1>2, <1>5, <1>7, <2>1, <2>2 DEF ListsCover, Placed, job
  <2>5. /\ \A x \in job.due : level[x] <= job.known[x]
        /\ \A x \in DOMAIN job.seen : level[x] <= Higher(job.known[x], job.seen[x])
        /\ \A x \in FillOrders : x \notin DOMAIN job.seen \cup aged => level[x] = 0
    BY <1>10, <1>13 DEF HalfWay, job
  <2>6. \A x \in new.due : level'[x] <= new.known[x]
    <3> SUFFICES ASSUME NEW x \in new.due PROVE level'[x] <= new.known[x]
      OBVIOUS
    <3>1. x \in job.due /\ x # o /\ x \in FillOrders
      BY <1>3, <1>5 DEF Job
    <3> QED BY <1>5, <1>8, <2>5, <3>1
  <2>7. ASSUME NEW x \in DOMAIN new.seen
        PROVE  level'[x] <= Higher(new.known[x], new.seen[x])
    <3>0. x \in FillOrders /\ x \in DOMAIN job.seen
      BY <1>3, <1>5, ListFacts DEF Job
    <3>1. CASE x # o
      BY <1>5, <1>8, <2>5, <3>0, <3>1
    <3>2. CASE x = o
      <4>1. level[o] <= job.known[o] /\ level[o] \in Nat
        BY <1>1, <1>3, <1>4, <2>5
      <4>2. Higher(level[o], job.seen[o]) <= Higher(job.known[o], job.seen[o])
        BY <1>4, <4>1 DEF Higher
      <4> QED BY <1>4, <1>5, <1>8, <3>2, <4>2
    <3> QED BY <3>1, <3>2
  <2>8. \A x \in FillOrders : x \notin DOMAIN new.seen \cup aged => level'[x] = 0
    BY <1>4, <1>5, <1>8, <2>5
  <2>9. HalfWay(d)'
    BY <1>2, <1>7, <2>6, <2>7, <2>8 DEF HalfWay
  <2>10. NothingAhead'
    BY <1>5, <1>7, <2>2, <2>9 DEF NothingAhead, Busy
  <2> QED BY <2>3, <2>4, <2>10
<1> QED BY <1>2, <1>9, <1>12, <1>13 DEF FillInv

LEMMA SavesKeepFills ==
  ASSUME FillInv, NEW d \in PushSlots, DeliverySaves(d)
  PROVE  FillInv'
<1> DEFINE job == delivery[d]
           saved == [o \in DOMAIN job.seen |-> Higher(job.known[o], job.seen[o])]
<1>1. /\ job.pc = "publishing" /\ job.due = {}
      /\ marks' = saved
      /\ level' = IF job.cold THEN [o \in FillOrders |-> Higher(level[o], Of(job.seen, o))]
                  ELSE level
      /\ delivery' = [delivery EXCEPT ![d] = NoDelivery]
      /\ UNCHANGED <<broker, aged, refresh, repeated, pushFaults, muddled>>
  BY DEF DeliverySaves, SavesLast
<1>2. /\ job \in Job /\ DOMAIN job.known = DOMAIN job.seen /\ level \in [FillOrders -> Nat]
      /\ DOMAIN job.seen \subseteq FillOrders /\ job.seen \in Lists
      /\ \A x \in DOMAIN job.seen : job.seen[x] \in Nat /\ job.known[x] \in Nat
  <2>1. /\ job \in Job /\ DOMAIN job.known = DOMAIN job.seen /\ level \in [FillOrders -> Nat]
    BY <1>1 DEF FillInv, FillTypeOK
  <2> QED BY <2>1, ListFacts DEF Job
<1>3. saved \in [DOMAIN job.seen -> Nat]
  BY <1>2, HigherFacts
<1>4. saved \in Lists /\ DOMAIN saved = DOMAIN job.seen
  BY <1>2, <1>3, ListFacts
<1>5. \A o \in DOMAIN job.seen : saved[o] = Higher(job.known[o], job.seen[o])
  OBVIOUS
<1>6. \A o : Of(saved, o) = IF o \in DOMAIN job.seen
                            THEN Higher(job.known[o], job.seen[o]) ELSE 0
  BY <1>4, <1>5 DEF Of
<1> HIDE DEF saved, job
<1>7. /\ delivery' \in [PushSlots -> Job] /\ delivery'[d] = NoDelivery
      /\ \A e \in PushSlots : e # d => delivery'[e] = delivery[e]
  BY <1>1, IdleFacts DEF FillInv, FillTypeOK
<1>8. level' \in [FillOrders -> Nat]
  <2>1. \A o \in FillOrders : Higher(level[o], Of(job.seen, o)) \in Nat
    BY <1>2, OfFacts, HigherFacts
  <2> QED BY <1>1, <1>2, <2>1
<1>9. FillTypeOK'
  BY <1>1, <1>4, <1>7, <1>8, IdleFacts DEF FillInv, FillTypeOK
<1>10. ASSUME ~muddled PROVE (OneAfterAnother /\ ListsCover /\ NothingAhead)'
  <2>1. OneAfterAnother /\ ListsCover /\ NothingAhead /\ Busy(delivery[d].pc)
    BY <1>1, <1>10 DEF FillInv, Busy, job
  <2>2. /\ \A e \in PushSlots : e # d => ~Busy(delivery[e].pc)
        /\ \A r \in Refreshers : ~Busy(refresh[r].pc)
    BY <1>10, <2>1, AloneAtWork
  <2>3. \A e \in PushSlots : ~Busy(delivery'[e].pc)
    BY <1>7, <2>2, IdleFacts DEF Busy
  <2>4. OneAfterAnother'
    BY <1>1, <2>2, <2>3 DEF OneAfterAnother
  <2>5. ListsCover'
    BY <1>1, <1>4, <2>1, <2>2, <2>3 DEF ListsCover, Placed, job
  <2>6. /\ \A x \in DOMAIN job.seen : level[x] <= Higher(job.known[x], job.seen[x])
        /\ \A x \in FillOrders : x \notin DOMAIN job.seen \cup aged => level[x] = 0
    BY <1>1, <2>1 DEF NothingAhead, HalfWay, job
  <2>7. ASSUME NEW o \in FillOrders, o \notin aged PROVE level'[o] <= Of(marks', o)
    <3>1. level[o] <= Of(marks', o) /\ level[o] \in Nat /\ Of(marks', o) \in Nat
      <4>1. Of(marks', o) \in Nat /\ level[o] \in Nat
        BY <1>1, <1>2, <1>4, OfFacts
      <4>2. CASE o \in DOMAIN job.seen
        BY <1>1, <1>6, <2>6, <4>1, <4>2
      <4>3. CASE o \notin DOMAIN job.seen
        BY <1>1, <1>6, <2>6, <2>7, <4>1, <4>3
      <4> QED BY <4>1, <4>2, <4>3
    <3>2. Of(job.seen, o) <= Of(marks', o) /\ Of(job.seen, o) \in Nat
      <4>1. CASE o \in DOMAIN job.seen
        <5>1. Of(job.seen, o) = job.seen[o] /\ job.seen[o] \in Nat /\ job.known[o] \in Nat
          BY <1>2, <4>1 DEF Of
        <5>2. Of(marks', o) = Higher(job.known[o], job.seen[o])
          BY <1>1, <1>6, <4>1
        <5> QED BY <5>1, <5>2, HigherFacts
      <4>2. CASE o \notin DOMAIN job.seen
        <5>1. Of(job.seen, o) = 0
          BY <4>2 DEF Of
        <5> QED BY <3>1, <5>1
      <4> QED BY <4>1, <4>2
    <3>3. Higher(level[o], Of(job.seen, o)) <= Of(marks', o)
      BY <3>1, <3>2 DEF Higher
    <3>4. level'[o] = level[o] \/ level'[o] = Higher(level[o], Of(job.seen, o))
      BY <1>1
    <3> QED BY <3>1, <3>3, <3>4
  <2>8. \A o : InView(o)' => o \notin aged
    BY <1>1, <2>2, <2>3 DEF InView
  <2>9. NothingAhead'
    BY <2>3, <2>7, <2>8 DEF NothingAhead, Busy
  <2> QED BY <2>4, <2>5, <2>9
<1> QED BY <1>1, <1>9, <1>10 DEF FillInv

LEMMA FillsInOrder == Spec => []FillInv
<1>1. Init => FillInv
  <2> SUFFICES ASSUME Init PROVE FillInv
    OBVIOUS
  <2>1. FillInit
    BY DEF Init
  <2>2. /\ refresh = [r \in Refreshers |-> NoRefresh]
        /\ delivery = [d \in PushSlots |-> NoDelivery]
        /\ broker = NoList /\ aged = {} /\ marks = NoList /\ level = [o \in FillOrders |-> 0]
        /\ ~repeated
    BY <2>1 DEF FillInit
  <2>3. FillTypeOK
    BY <2>2, ListFacts, IdleFacts DEF FillTypeOK
  <2>4. \A r \in Refreshers : ~Busy(refresh[r].pc)
    BY <2>2, IdleFacts DEF Busy
  <2>5. \A d \in PushSlots : ~Busy(delivery[d].pc)
    BY <2>2, IdleFacts DEF Busy
  <2>6. OneAfterAnother /\ ListsCover
    BY <2>2, <2>4, <2>5 DEF OneAfterAnother, ListsCover, Placed
  <2>7. \A o \in FillOrders : level[o] = 0 /\ Of(marks, o) \in Nat
    BY <2>2, ListFacts, OfFacts
  <2>8. NothingAhead
    BY <2>5, <2>7 DEF NothingAhead, Busy
  <2> QED BY <2>2, <2>3, <2>6, <2>8 DEF FillInv
<1>2. FillInv /\ [Next]_vars => FillInv'
  <2> SUFFICES ASSUME FillInv, [Next]_vars PROVE FillInv'
    OBVIOUS
  <2>1. UNCHANGED fillVars \/ FillNext
    BY DEF Next, vars
  <2>2. CASE UNCHANGED fillVars
    <3>1. UNCHANGED <<broker, aged, refresh, delivery, marks, level, repeated, muddled>>
      BY <2>2 DEF fillVars
    <3> QED BY <3>1 DEF FillInv, FillTypeOK, OneAfterAnother, ListsCover, Placed, NothingAhead,
                        HalfWay, InView
  <2>3. CASE BrokerMoves
    BY <2>3, BrokerKeepsFills
  <2>4. CASE NotifierCrash
    BY <2>4, MuddledStepsKeepFills DEF NotifierCrash
  <2>5. ASSUME NEW r \in Refreshers, RefreshFetches(r) \/ RefreshCommits(r) \/ RefreshGuarded(r)
        PROVE  FillInv'
    <3>1. CASE RefreshFetches(r)
      BY <3>1, FetchesKeepFills
    <3>2. CASE RefreshCommits(r)
      BY <3>2, CommitsKeepFills
    <3>3. CASE RefreshGuarded(r)
      BY <3>3, RefreshesEndSafely DEF RefreshGuarded
    <3> QED BY <2>5, <3>1, <3>2, <3>3
  <2>6. ASSUME NEW d \in PushSlots, DeliveryStep(d) PROVE FillInv'
    BY <2>6, LoadsKeepFills, PublishingKeepsFills, SavesKeepFills DEF DeliveryStep
  <2>7. ASSUME NEW d \in PushSlots, DeliveryCut(d) PROVE FillInv'
    BY <2>7, MuddledStepsKeepFills DEF DeliveryCut
  <2>8. CASE OrderAgesOut
    BY <2>8, AgeingKeepsFills
  <2> QED BY <2>1, <2>2, <2>3, <2>4, <2>5, <2>6, <2>7, <2>8 DEF FillNext
<1> QED BY <1>1, <1>2, PTL DEF Spec

\* For any orders, sizes and slots, and whatever is dropped or fails: as long as
\* each refresh begins after the one before it was delivered, no fill is told of
\* twice.
THEOREM FillsAreToldOnce == Spec => []NothingToldTwice
<1>1. FillInv => NothingToldTwice
  BY DEF FillInv, NothingToldTwice
<1> QED BY <1>1, FillsInOrder, PTL

------------------------------------------------------------------------------
(* Model calls. *)

Pieces    == [kind : {"text", "thinking"}, attempt : Nat, at : Nat]
Replies   == [texts : Seq(Pieces), tools : BOOLEAN, whole : BOOLEAN]
Completed == [kind : {"completed"}, reply : Replies]
Failed    == [kind : {"failed"}, usual : BOOLEAN, override : BOOLEAN, cut : BOOLEAN]

CallRow   == [pc : {"idle", "reading", "pausing", "showing", "done", "failed"}, mode : Modes,
              attempt : Nat, buffer : Seq(Pieces), reply : Replies]
PipeRow   == [producer : {"opening", "streaming", "cancelled", "gone"}, openings : Nat,
              queue : Seq(Pieces \cup Completed \cup Failed), closed : BOOLEAN,
              thought : Nat, texts : Seq(Pieces)]
SinkRow   == [thinking : Seq(Pieces \cup {Note}), text : Seq(Pieces)]
CallTypeOK == call \in CallRow /\ pipe \in PipeRow /\ sink \in SinkRow

Ending(event, p) ==
  \/ event \in Completed /\ event.reply.texts = p.texts
  \/ event \in Failed /\ (~event.cut /\ ~event.override => p.thought = 0)

\* The queue of an attempt that is read: k pieces of thinking, then the n texts
\* the caller has not got yet, then what ended the stream if it has.
QueueOf(c, p, k, n) ==
  /\ Len(c.buffer) + n = Len(p.texts)
  /\ Len(p.queue) = k + n + (IF p.closed THEN 1 ELSE 0)
  /\ k <= p.thought
  /\ \A i \in 1 .. Len(c.buffer) : c.buffer[i] = p.texts[i]
  /\ \A i \in 1 .. k :
       p.queue[i] \in Pieces /\ p.queue[i].kind = "thinking" /\ p.queue[i].attempt = c.attempt
  /\ \A i \in k + 1 .. k + n : p.queue[i] = p.texts[Len(c.buffer) + (i - k)]
  /\ p.closed => Ending(p.queue[Len(p.queue)], p)
  /\ \A i \in 1 .. Len(p.texts) : p.texts[i].kind = "text"
QueueInOrder == \E k, n \in Nat : QueueOf(call, pipe, k, n)
\* Or what was queued is lost, and an error stands in its place.
Lost == pipe.closed /\ pipe.queue = <<Failure(FALSE, TRUE)>>

PipeInv ==
  /\ pipe.producer \in {"opening", "streaming"} => ~pipe.closed
  /\ call.pc = "reading" => QueueInOrder \/ Lost

\* What is shown is the beginning of the reply, and the rest is at hand.
TextInv ==
  /\ call.pc = "idle" => call.buffer = <<>>
  /\ call.pc \in {"idle", "reading", "pausing"} => sink.text = <<>>
  /\ call.pc = "showing" =>
       /\ call.reply.whole /\ ~call.reply.tools
       /\ Len(sink.text) + Len(call.buffer) = Len(call.reply.texts)
       /\ \A i \in 1 .. Len(call.buffer) :
            call.buffer[i] = call.reply.texts[Len(sink.text) + i]
  /\ Len(sink.text) <= Len(call.reply.texts)
  /\ \A i \in 1 .. Len(sink.text) : sink.text[i] = call.reply.texts[i]
  /\ sink.text # <<>> => call.reply.whole /\ ~call.reply.tools
  /\ call.pc = "done" /\ call.mode = "tool_loop" /\ call.reply.whole /\ ~call.reply.tools =>
       Len(sink.text) = Len(call.reply.texts)

\* The thinking shown last is of this attempt, or is closed by a note; an attempt
\* that will be repeated has closed its own.
Apart(one, two) == one # Note /\ two # Note => one.attempt = two.attempt
ThinkingInv ==
  /\ call.pc = "idle" => sink.thinking = <<>>
  /\ \A i \in 1 .. Len(sink.thinking) - 1 : Apart(sink.thinking[i], sink.thinking[i + 1])
  /\ sink.thinking # <<>> =>
       LET last == sink.thinking[Len(sink.thinking)]
       IN \/ last = Note
          \/ /\ last.attempt = call.attempt /\ call.pc # "pausing"
             /\ call.pc = "reading" => pipe.thought > 0

CallInv == CallTypeOK /\ PipeInv /\ TextInv /\ ThinkingInv

LEMMA CallStarts == CallInit => CallInv
<1> SUFFICES ASSUME CallInit PROVE CallInv
  OBVIOUS
<1>1. /\ call = [pc |-> "idle", mode |-> "text", attempt |-> 0, buffer |-> <<>>, reply |-> NoReply]
      /\ pipe = NoPipe /\ sink = [thinking |-> <<>>, text |-> <<>>]
  BY DEF CallInit
<1>2. NoReply \in Replies /\ Len(NoReply.texts) = 0
  BY DEF NoReply, Replies
<1>3. CallTypeOK
  BY <1>1, <1>2 DEF CallTypeOK, CallRow, PipeRow, SinkRow, NoPipe, Modes
<1>4. PipeInv /\ TextInv /\ ThinkingInv
  BY <1>1, <1>2 DEF PipeInv, TextInv, ThinkingInv, NoPipe
<1> QED BY <1>3, <1>4 DEF CallInv

\* A new attempt with an empty pipe and an empty buffer.
LEMMA FreshPipeInOrder ==
  ASSUME CallTypeOK', pipe' = FreshPipe, call'.buffer = <<>>
  PROVE  QueueInOrder' /\ PipeInv'
<1>1. /\ pipe'.queue = <<>> /\ ~pipe'.closed /\ pipe'.texts = <<>> /\ pipe'.thought = 0
  BY DEF FreshPipe
<1>2. QueueOf(call', pipe', 0, 0)
  BY <1>1 DEF QueueOf
<1>3. QueueInOrder'
  BY <1>2 DEF QueueInOrder
<1> QED BY <1>1, <1>3 DEF PipeInv

LEMMA BeginsRight ==
  ASSUME CallInv, CallBegins
  PROVE  CallInv'
<1>1. PICK mode \in Modes : call' = [call EXCEPT !.pc = "reading", !.mode = mode, !.attempt = 1]
  BY DEF CallBegins
<1>2. /\ call.pc = "idle" /\ pipe' = FreshPipe /\ sink' = sink
  BY DEF CallBegins
<1>3. /\ call'.pc = "reading" /\ call'.buffer = call.buffer /\ call'.reply = call.reply
      /\ call'.attempt = 1
  BY <1>1 DEF CallInv, CallTypeOK, CallRow
<1>4. CallTypeOK'
  <2>1. pipe' \in PipeRow
    BY <1>2 DEF FreshPipe, PipeRow
  <2>2. call' \in CallRow
    BY <1>1 DEF CallInv, CallTypeOK, CallRow
  <2> QED BY <1>2, <2>1, <2>2 DEF CallInv, CallTypeOK
<1>5. PipeInv'
  BY <1>2, <1>3, <1>4, FreshPipeInOrder DEF CallInv, TextInv
<1>6. TextInv'
  BY <1>2, <1>3 DEF CallInv, TextInv
<1>7. ThinkingInv'
  BY <1>2, <1>3 DEF CallInv, ThinkingInv
<1> QED BY <1>4, <1>5, <1>6, <1>7 DEF CallInv

LEMMA AsksAgainRight ==
  ASSUME CallInv, CallAsksAgain
  PROVE  CallInv'
<1>1. call.pc = "pausing" /\ sink' = sink
  BY DEF CallAsksAgain
<1>2. CASE call' = [call EXCEPT !.pc = "failed"] /\ pipe' = pipe
  <2>1. /\ call'.pc = "failed" /\ call'.buffer = call.buffer /\ call'.reply = call.reply
        /\ call'.attempt = call.attempt
    BY <1>2 DEF CallInv, CallTypeOK, CallRow
  <2>2. CallTypeOK'
    BY <1>1, <1>2 DEF CallInv, CallTypeOK, CallRow
  <2>3. PipeInv' /\ TextInv' /\ ThinkingInv'
    BY <1>1, <1>2, <2>1 DEF CallInv, PipeInv, TextInv, ThinkingInv
  <2> QED BY <2>2, <2>3 DEF CallInv
<1>3. CASE /\ call' = [call EXCEPT !.pc = "reading", !.attempt = @ + 1, !.buffer = Cleared(@)]
           /\ pipe' = FreshPipe
  <2>1. call'.pc = "reading" /\ call'.buffer = <<>> /\ call'.reply = call.reply
    BY <1>3 DEF CallInv, CallTypeOK, CallRow, Cleared
  <2>2. CallTypeOK'
    <3>1. pipe' \in PipeRow
      BY <1>3 DEF FreshPipe, PipeRow
    <3>2. call' \in CallRow
      <4>1. call' = [call EXCEPT !.pc = "reading", !.attempt = call.attempt + 1, !.buffer = <<>>]
        BY <1>3 DEF CallInv, CallTypeOK, CallRow, Cleared
      <4>2. call \in CallRow /\ call.attempt + 1 \in Nat /\ <<>> \in Seq(Pieces)
        BY DEF CallInv, CallTypeOK, CallRow
      <4> QED BY <4>1, <4>2 DEF CallRow
    <3> QED BY <1>1, <3>1, <3>2 DEF CallInv, CallTypeOK
  <2>3. PipeInv'
    BY <1>3, <2>1, <2>2, FreshPipeInOrder
  <2>4. TextInv'
    BY <1>1, <2>1 DEF CallInv, TextInv
  <2>5. ThinkingInv'
    BY <1>1, <2>1 DEF CallInv, ThinkingInv
  <2> QED BY <2>2, <2>3, <2>4, <2>5 DEF CallInv
<1> QED BY <1>2, <1>3 DEF CallAsksAgain

\* A step of the producer shows nothing.
LEMMA PipeStepsRight ==
  ASSUME CallInv, call' = call, sink' = sink, pipe' \in PipeRow, PipeInv',
         pipe'.thought >= pipe.thought
  PROVE  CallInv'
<1>1. pipe.thought \in Nat /\ pipe'.thought \in Nat
  BY DEF CallInv, CallTypeOK, PipeRow
<1>2. CallTypeOK'
  BY DEF CallInv, CallTypeOK
<1>3. TextInv'
  BY DEF CallInv, TextInv
<1>4. ThinkingInv'
  BY <1>1 DEF CallInv, ThinkingInv
<1> QED BY <1>2, <1>3, <1>4 DEF CallInv

\* A step that changes nothing of what the caller reads.
LEMMA SameQueueRight ==
  ASSUME CallInv, call' = call, sink' = sink, pipe' \in PipeRow,
         pipe'.queue = pipe.queue, pipe'.closed = pipe.closed, pipe'.thought = pipe.thought,
         pipe'.texts = pipe.texts,
         pipe'.producer \in {"opening", "streaming"} => pipe.producer \in {"opening", "streaming"}
  PROVE  CallInv'
<1>1. QueueInOrder => QueueInOrder'
  <2>1. \A k, n \in Nat : QueueOf(call, pipe, k, n) => QueueOf(call', pipe', k, n)
    BY DEF QueueOf, Ending
  <2> QED BY <2>1 DEF QueueInOrder
<1>2. Lost => Lost'
  BY DEF Lost, Failure
<1>3. PipeInv'
  BY <1>1, <1>2 DEF CallInv, PipeInv
<1>4. pipe'.thought >= pipe.thought
  BY DEF CallInv, CallTypeOK, PipeRow
<1> QED BY <1>3, <1>4, PipeStepsRight

\* A stream that ends.
LEMMA EndsRight ==
  ASSUME CallInv, NEW event \in Completed \cup Failed, Ending(event, pipe), ~pipe.closed,
         pipe' = [pipe EXCEPT !.producer = "gone", !.closed = TRUE, !.queue = Append(@, event)],
         call' = call, sink' = sink
  PROVE  CallInv'
<1> DEFINE q == pipe.queue
           item == Pieces \cup Completed \cup Failed
<1>1. pipe \in PipeRow /\ q \in Seq(item)
  BY DEF CallInv, CallTypeOK, PipeRow
<1>2. /\ pipe'.queue = Append(q, event) /\ pipe'.closed /\ pipe'.producer = "gone"
      /\ pipe'.texts = pipe.texts /\ pipe'.thought = pipe.thought
  BY <1>1 DEF PipeRow
<1>3. Append(q, event) \in Seq(item)
  BY <1>1
<1>4. pipe' \in PipeRow
  BY <1>1, <1>3 DEF PipeRow
<1>5. /\ Len(pipe'.queue) = Len(q) + 1 /\ Len(q) \in Nat
      /\ pipe'.queue[Len(q) + 1] = event
      /\ \A i \in 1 .. Len(q) : pipe'.queue[i] = q[i]
  BY <1>1, <1>2
<1>6. QueueInOrder => QueueInOrder'
  <2> SUFFICES ASSUME NEW k \in Nat, NEW n \in Nat, QueueOf(call, pipe, k, n)
               PROVE  QueueOf(call', pipe', k, n)
    BY DEF QueueInOrder
  <2>1. Len(q) = k + n /\ Len(pipe'.queue) = k + n + 1
    BY <1>5 DEF QueueOf
  <2>2. \A i \in 1 .. k : pipe'.queue[i] = q[i]
    BY <1>5, <2>1
  <2>3. \A i \in k + 1 .. k + n : pipe'.queue[i] = q[i]
    BY <1>5, <2>1
  <2>4. Ending(pipe'.queue[Len(pipe'.queue)], pipe')
    BY <1>2, <1>5 DEF Ending
  <2> QED BY SMTT(20), <1>2, <2>1, <2>2, <2>3, <2>4 DEF QueueOf
<1>7. PipeInv'
  BY <1>2, <1>6 DEF CallInv, PipeInv, Lost
<1>8. pipe'.thought >= pipe.thought
  BY <1>1, <1>2 DEF PipeRow
<1> QED BY <1>4, <1>7, <1>8, PipeStepsRight

LEMMA OneItem ==
  ASSUME NEW S, NEW x \in S
  PROVE  <<x>> \in Seq(S)
OBVIOUS

\* A queue that is lost to an error.
LEMMA LosingRight ==
  ASSUME CallInv, call' = call, sink' = sink,
         pipe' = [pipe EXCEPT !.producer = "gone", !.closed = TRUE,
                              !.queue = <<Failure(FALSE, TRUE)>>]
  PROVE  CallInv'
<1>1. pipe \in PipeRow
  BY DEF CallInv, CallTypeOK
<1>2. Failure(FALSE, TRUE) \in Failed
  BY DEF Failure, Failed
<1>3. <<Failure(FALSE, TRUE)>> \in Seq(Pieces \cup Completed \cup Failed)
  BY <1>2, OneItem
<1>4. pipe' \in PipeRow
  BY <1>1, <1>3 DEF PipeRow
<1>5. /\ pipe'.queue = <<Failure(FALSE, TRUE)>> /\ pipe'.closed /\ pipe'.producer = "gone"
      /\ pipe'.thought = pipe.thought
  BY <1>1 DEF PipeRow
<1>6. PipeInv'
  BY <1>5 DEF PipeInv, Lost, Failure
<1>7. pipe'.thought >= pipe.thought
  BY <1>1, <1>5 DEF PipeRow
<1> QED BY <1>4, <1>6, <1>7, PipeStepsRight

LEMMA OpensRight ==
  ASSUME CallInv, Opens
  PROVE  CallInv'
<1>1. /\ pipe.producer = "opening" /\ ~pipe.closed /\ call' = call /\ sink' = sink
      /\ pipe \in PipeRow
  BY DEF Opens, CallInv, CallTypeOK, PipeInv
<1>2. CASE pipe' = [pipe EXCEPT !.producer = "streaming"]
  BY <1>1, <1>2, SameQueueRight DEF PipeRow
<1>3. CASE pipe' = [pipe EXCEPT !.openings = @ + 1]
  BY <1>1, <1>3, SameQueueRight DEF PipeRow
<1>4. ASSUME NEW usual \in BOOLEAN, EndsWith(Failure(usual, TRUE)) PROVE CallInv'
  <2>1. Failure(usual, TRUE) \in Failed /\ Failure(usual, TRUE).override
    BY DEF Failure, Failed
  <2>2. Ending(Failure(usual, TRUE), pipe)
    BY <2>1 DEF Ending
  <2> QED BY <1>1, <1>4, <2>1, <2>2, EndsRight DEF EndsWith
<1> QED BY <1>2, <1>3, <1>4 DEF Opens

LEMMA AppendFacts ==
  ASSUME NEW S, NEW q \in Seq(S), NEW x \in S
  PROVE  /\ Append(q, x) \in Seq(S) /\ Len(q) \in Nat /\ Len(Append(q, x)) = Len(q) + 1
         /\ Append(q, x)[Len(q) + 1] = x
         /\ \A i \in 1 .. Len(q) : Append(q, x)[i] = q[i]
OBVIOUS

LEMMA TailFacts ==
  ASSUME NEW S, NEW q \in Seq(S), q # <<>>
  PROVE  /\ Tail(q) \in Seq(S) /\ Len(q) \in Nat /\ Len(q) > 0 /\ Len(Tail(q)) = Len(q) - 1
         /\ Head(q) = q[1] /\ q[1] \in S
         /\ \A i \in 1 .. Len(q) - 1 : Tail(q)[i] = q[i + 1]
OBVIOUS

\* A piece of thinking, or of text, arrives.
LEMMA PieceArrives ==
  ASSUME CallInv, call' = call, sink' = sink, ~pipe.closed, NEW piece \in Pieces,
         \/ /\ piece.kind = "thinking" /\ pipe.texts = <<>> /\ piece.attempt = call.attempt
            /\ pipe' = [pipe EXCEPT !.thought = @ + 1, !.queue = Append(@, piece)]
         \/ /\ piece.kind = "text"
            /\ pipe' = [pipe EXCEPT !.texts = Append(@, piece), !.queue = Append(@, piece)]
  PROVE  CallInv'
<1> DEFINE q == pipe.queue
           item == Pieces \cup Completed \cup Failed
<1>1. /\ pipe \in PipeRow /\ q \in Seq(item) /\ pipe.texts \in Seq(Pieces) /\ pipe.thought \in Nat
      /\ piece \in item /\ call.buffer \in Seq(Pieces)
  BY DEF CallInv, CallTypeOK, PipeRow, CallRow
<1>2. /\ Append(q, piece) \in Seq(item) /\ Len(q) \in Nat
      /\ Len(Append(q, piece)) = Len(q) + 1 /\ Append(q, piece)[Len(q) + 1] = piece
      /\ \A i \in 1 .. Len(q) : Append(q, piece)[i] = q[i]
  <2> HIDE DEF q, item
  <2> QED BY <1>1, AppendFacts
<1>3. /\ pipe'.queue = Append(q, piece) /\ ~pipe'.closed
      /\ pipe'.producer = pipe.producer
  BY <1>1 DEF PipeRow
<1>4. CASE /\ piece.kind = "thinking" /\ pipe.texts = <<>> /\ piece.attempt = call.attempt
           /\ pipe' = [pipe EXCEPT !.thought = @ + 1, !.queue = Append(@, piece)]
  <2>1. pipe'.thought = pipe.thought + 1 /\ pipe'.texts = pipe.texts
    BY <1>1, <1>4 DEF PipeRow
  <2>2. pipe' \in PipeRow
    <3>1. pipe' = [pipe EXCEPT !.thought = pipe.thought + 1, !.queue = Append(q, piece)]
      BY <1>1, <1>4 DEF PipeRow
    <3>2. pipe.thought + 1 \in Nat
      BY <1>1
    <3> QED BY <1>1, <1>2, <3>1, <3>2 DEF PipeRow
  <2>3. ASSUME NEW k \in Nat, NEW n \in Nat, QueueOf(call, pipe, k, n)
        PROVE  QueueOf(call', pipe', k + 1, 0)
    <3>1. n = 0 /\ Len(call.buffer) = 0 /\ Len(q) = k
      BY <1>1, <1>4, <2>3 DEF QueueOf
    <3>2. \A i \in 1 .. k + 1 :
            /\ pipe'.queue[i] \in Pieces /\ pipe'.queue[i].kind = "thinking"
            /\ pipe'.queue[i].attempt = call'.attempt
      <4> SUFFICES ASSUME NEW i \in 1 .. k + 1
                   PROVE  /\ pipe'.queue[i] \in Pieces /\ pipe'.queue[i].kind = "thinking"
                          /\ pipe'.queue[i].attempt = call'.attempt
        OBVIOUS
      <4>1. CASE i = k + 1
        BY <1>2, <1>3, <1>4, <3>1, <4>1
      <4>2. CASE i \in 1 .. k
        <5>1. pipe'.queue[i] = q[i]
          BY <1>2, <1>3, <3>1, <4>2
        <5> QED BY <2>3, <4>2, <5>1 DEF QueueOf
      <4> QED BY <4>1, <4>2
    <3>3. k + 1 <= pipe'.thought
      BY <1>1, <2>1, <2>3 DEF QueueOf
    <3>4. Len(pipe'.queue) = k + 1
      BY <1>2, <1>3, <3>1
    <3> QED BY <1>3, <1>4, <2>1, <3>1, <3>2, <3>3, <3>4 DEF QueueOf
  <2>4. QueueInOrder => QueueInOrder'
    BY <2>3 DEF QueueInOrder
  <2>5. PipeInv'
    BY <1>3, <2>4 DEF CallInv, PipeInv, Lost
  <2> QED BY <1>1, <2>1, <2>2, <2>5, PipeStepsRight
<1>5. CASE /\ piece.kind = "text"
           /\ pipe' = [pipe EXCEPT !.texts = Append(@, piece), !.queue = Append(@, piece)]
  <2> DEFINE t == pipe.texts
  <2>1. pipe'.thought = pipe.thought /\ pipe'.texts = Append(t, piece)
    BY <1>1, <1>5 DEF PipeRow
  <2>2. /\ Append(t, piece) \in Seq(Pieces) /\ Len(t) \in Nat
        /\ Len(Append(t, piece)) = Len(t) + 1 /\ Append(t, piece)[Len(t) + 1] = piece
        /\ \A i \in 1 .. Len(t) : Append(t, piece)[i] = t[i]
    <3> HIDE DEF t
    <3> QED BY <1>1, AppendFacts DEF t
  <2>3. pipe' \in PipeRow
    BY <1>1, <1>2, <1>5, <2>2 DEF PipeRow
  <2>4. ASSUME NEW k \in Nat, NEW n \in Nat, QueueOf(call, pipe, k, n)
        PROVE  QueueOf(call', pipe', k, n + 1)
    <3>1. /\ Len(q) = k + n /\ Len(call.buffer) + n = Len(t) /\ Len(call.buffer) \in Nat
          /\ k <= pipe.thought
      BY <1>1, <2>4 DEF QueueOf
    <3>2. \A i \in 1 .. k : pipe'.queue[i] = q[i]
      BY <1>2, <1>3, <3>1
    <3>3. ASSUME NEW i \in k + 1 .. k + (n + 1)
          PROVE  pipe'.queue[i] = pipe'.texts[Len(call'.buffer) + (i - k)]
      <4>1. CASE i = k + (n + 1)
        <5>1. i = Len(q) + 1 /\ Len(call.buffer) + (i - k) = Len(t) + 1
          <6> HIDE DEF q, t
          <6> QED BY SMTT(20), <3>1, <4>1
        <5> QED BY <1>2, <1>3, <2>1, <2>2, <5>1
      <4>2. CASE i \in k + 1 .. k + n
        <5>1. i \in 1 .. Len(q) /\ Len(call.buffer) + (i - k) \in 1 .. Len(t)
          BY SMTT(20), <3>1, <4>2
        <5>2. q[i] = t[Len(call.buffer) + (i - k)]
          BY <2>4, <4>2 DEF QueueOf
        <5> QED BY <1>2, <1>3, <2>1, <2>2, <5>1, <5>2
      <4> QED BY <4>1, <4>2
    <3>4. \A i \in 1 .. Len(call'.buffer) : call'.buffer[i] = pipe'.texts[i]
      <4>1. \A i \in 1 .. Len(call.buffer) : call.buffer[i] = t[i] /\ i \in 1 .. Len(t)
        BY <2>4, <3>1 DEF QueueOf
      <4> QED BY <2>1, <2>2, <4>1
    <3>5. \A i \in 1 .. Len(pipe'.texts) : pipe'.texts[i].kind = "text"
      <4>1. \A i \in 1 .. Len(t) : t[i].kind = "text"
        BY <2>4 DEF QueueOf
      <4>2. \A i \in 1 .. Len(t) + 1 : i \in 1 .. Len(t) \/ i = Len(t) + 1
        BY <2>2
      <4> QED BY <1>5, <2>1, <2>2, <4>1, <4>2
    <3>6. Len(call'.buffer) + (n + 1) = Len(pipe'.texts) /\ Len(pipe'.queue) = k + (n + 1)
      <4>1. Len(pipe'.texts) = Len(t) + 1 /\ Len(pipe'.queue) = Len(q) + 1
        BY <1>2, <1>3, <2>1, <2>2
      <4>2. Len(call'.buffer) = Len(call.buffer)
        OBVIOUS
      <4>3. Len(q) = k + n /\ Len(call.buffer) + n = Len(t) /\ Len(call.buffer) \in Nat
        BY <3>1
      <4> HIDE DEF q, t
      <4>4. Len(pipe'.queue) = k + (n + 1)
        BY <4>1, <4>3
      <4>5. Len(call'.buffer) + (n + 1) = Len(pipe'.texts)
        BY <4>1, <4>2, <4>3
      <4> QED BY <4>4, <4>5
    <3>7. \A i \in 1 .. k :
            /\ pipe'.queue[i] \in Pieces /\ pipe'.queue[i].kind = "thinking"
            /\ pipe'.queue[i].attempt = call'.attempt
      BY <2>4, <3>2 DEF QueueOf
    <3>8. Len(pipe'.queue) = k + (n + 1) + (IF pipe'.closed THEN 1 ELSE 0)
      BY <1>3, <3>6
    <3>9. k <= pipe'.thought
      BY <2>1, <3>1
    <3>10. n + 1 \in Nat
      OBVIOUS
    <3> HIDE DEF q, t
    <3> QED BY <1>3, <3>3, <3>4, <3>5, <3>6, <3>7, <3>8, <3>9 DEF QueueOf
  <2>5. QueueInOrder => QueueInOrder'
    BY <2>4 DEF QueueInOrder
  <2>6. PipeInv'
    BY <1>3, <2>5 DEF CallInv, PipeInv, Lost
  <2> QED BY <1>1, <2>1, <2>3, <2>6, PipeStepsRight
<1> QED BY <1>4, <1>5

LEMMA StreamsRight ==
  ASSUME CallInv, Streams
  PROVE  CallInv'
<1>1. /\ pipe.producer = "streaming" /\ ~pipe.closed /\ call' = call /\ sink' = sink
      /\ pipe \in PipeRow /\ call.attempt \in Nat /\ pipe.thought \in Nat
      /\ pipe.texts \in Seq(Pieces) /\ Len(pipe.texts) \in Nat
  BY DEF Streams, CallInv, CallTypeOK, PipeInv, PipeRow, CallRow
<1>2. CASE /\ pipe.thought < MaxPieces /\ pipe.texts = <<>>
           /\ pipe' = [pipe EXCEPT !.thought = @ + 1,
                  !.queue = Append(@, Piece("thinking", call.attempt, pipe.thought + 1))]
  <2> DEFINE piece == Piece("thinking", call.attempt, pipe.thought + 1)
  <2>1. piece \in Pieces /\ piece.kind = "thinking" /\ piece.attempt = call.attempt
    BY <1>1 DEF Piece, Pieces
  <2> HIDE DEF piece
  <2>2. pipe' = [pipe EXCEPT !.thought = @ + 1, !.queue = Append(@, piece)]
    BY <1>2 DEF piece
  <2> QED BY <1>1, <1>2, <2>1, <2>2, PieceArrives
<1>3. CASE LET piece == Piece("text", call.attempt, Len(pipe.texts) + 1)
           IN pipe' = [pipe EXCEPT !.texts = Append(@, piece), !.queue = Append(@, piece)]
  <2> DEFINE piece == Piece("text", call.attempt, Len(pipe.texts) + 1)
  <2>1. piece \in Pieces /\ piece.kind = "text"
    BY <1>1 DEF Piece, Pieces
  <2>2. pipe' = [pipe EXCEPT !.texts = Append(@, piece), !.queue = Append(@, piece)]
    BY <1>3
  <2> HIDE DEF piece
  <2> QED BY <1>1, <2>1, <2>2, PieceArrives
<1>4. ASSUME NEW tools \in BOOLEAN, NEW whole \in BOOLEAN,
             EndsWith([kind |-> "completed",
                       reply |-> [texts |-> pipe.texts, tools |-> tools, whole |-> whole]])
      PROVE  CallInv'
  <2> DEFINE event == [kind |-> "completed",
                       reply |-> [texts |-> pipe.texts, tools |-> tools, whole |-> whole]]
  <2>1. event \in Completed /\ event.reply.texts = pipe.texts
    BY <1>1 DEF Completed, Replies
  <2>2. EndsWith(event)
    BY <1>4
  <2> HIDE DEF event
  <2>3. Ending(event, pipe)
    BY <2>1 DEF Ending
  <2> QED BY <1>1, <2>1, <2>2, <2>3, EndsRight DEF EndsWith
<1>5. ASSUME NEW usual \in BOOLEAN, EndsWith([Failure(usual, Began) EXCEPT !.cut = Began])
      PROVE  CallInv'
  <2> DEFINE event == [Failure(usual, Began) EXCEPT !.cut = Began]
  <2>1. Began \in BOOLEAN /\ (~Began => pipe.thought = 0)
    BY <1>1 DEF Began, HasOutput
  <2>2. event = [kind |-> "failed", usual |-> usual, override |-> Began, cut |-> Began]
    BY DEF Failure
  <2>3. EndsWith(event)
    BY <1>5
  <2> HIDE DEF event
  <2>4. event \in Failed /\ (~event.cut => pipe.thought = 0)
    BY <2>1, <2>2 DEF Failed
  <2>5. Ending(event, pipe)
    BY <2>4 DEF Ending
  <2> QED BY <1>1, <2>3, <2>4, <2>5, EndsRight DEF EndsWith
<1> QED BY <1>2, <1>3, <1>4, <1>5 DEF Streams

\* The four kinds of event a caller takes.
LEMMA TakesCases ==
  ASSUME NEW event, Takes(event)
  PROVE  /\ event.kind = "text" =>
              call' = [call EXCEPT !.buffer = Append(@, event)] /\ UNCHANGED sink
         /\ event.kind = "thinking" =>
              /\ sink' = IF call.mode = "tool_loop"
                         THEN [sink EXCEPT !.thinking = Append(@, event)] ELSE sink
              /\ UNCHANGED call
         /\ event.kind = "completed" =>
              /\ call' = [call EXCEPT !.reply = event.reply,
                            !.pc = IF callCut \/ (call.mode = "text" /\ ~event.reply.whole)
                                   THEN "failed"
                                   ELSE IF call.mode = "text" \/ event.reply.tools \/ ~event.reply.whole
                                   THEN "done" ELSE "showing"]
              /\ UNCHANGED sink
         /\ event.kind = "failed" =>
              LET again == Retryable(event) /\ call.attempt < MaxAttempts
              IN /\ call' = [call EXCEPT !.pc = IF again THEN "pausing" ELSE "failed"]
                 /\ sink' = IF again /\ event.cut
                            THEN [sink EXCEPT !.thinking = Append(@, Note)] ELSE sink
BY DEF Takes

\* Thinking is taken: of this attempt, as what was shown before it or after a note.
LEMMA TakesThinkingRight ==
  ASSUME CallInv, call.pc = "reading", NEW event \in Pieces, event.attempt = call.attempt,
         pipe.thought > 0, call' = call, pipe'.thought = pipe.thought,
         sink' = IF call.mode = "tool_loop"
                 THEN [sink EXCEPT !.thinking = Append(@, event)] ELSE sink
  PROVE  sink' \in SinkRow /\ sink'.text = sink.text /\ ThinkingInv'
<1>1. sink \in SinkRow /\ sink.thinking \in Seq(Pieces \cup {Note}) /\ event \in Pieces \cup {Note}
  BY DEF CallInv, CallTypeOK, SinkRow
<1>2. CASE sink' = sink
  BY <1>1, <1>2 DEF CallInv, ThinkingInv
<1>3. CASE sink' = [sink EXCEPT !.thinking = Append(@, event)]
  <2> DEFINE s == sink.thinking
  <2>1. /\ Append(s, event) \in Seq(Pieces \cup {Note}) /\ Len(s) \in Nat
        /\ Len(Append(s, event)) = Len(s) + 1 /\ Append(s, event)[Len(s) + 1] = event
        /\ \A i \in 1 .. Len(s) : Append(s, event)[i] = s[i]
    <3> HIDE DEF s
    <3> QED BY <1>1, AppendFacts DEF s
  <2>2. /\ sink'.thinking = Append(s, event) /\ sink'.text = sink.text /\ sink' \in SinkRow
    BY <1>1, <1>3, <2>1 DEF SinkRow
  <2>3. ASSUME NEW i \in 1 .. Len(sink'.thinking) - 1
        PROVE  Apart(sink'.thinking[i], sink'.thinking[i + 1])
    <3>0. i \in 1 .. Len(s)
      BY <2>1, <2>2
    <3>1. CASE i = Len(s)
      <4>1. s # <<>> /\ sink'.thinking[i] = s[Len(s)] /\ sink'.thinking[i + 1] = event
        BY <2>1, <2>2, <3>0, <3>1
      <4>2. s[Len(s)] = Note \/ s[Len(s)].attempt = call.attempt
        BY <4>1 DEF CallInv, ThinkingInv
      <4> QED BY <4>1, <4>2 DEF Apart
    <3>2. CASE i \in 1 .. Len(s) - 1
      <4>1. sink'.thinking[i] = s[i] /\ sink'.thinking[i + 1] = s[i + 1]
        BY <2>1, <2>2, <3>2
      <4> QED BY <3>2, <4>1 DEF CallInv, ThinkingInv
    <3> QED BY <2>1, <3>0, <3>1, <3>2
  <2>4. sink'.thinking[Len(sink'.thinking)] = event
    BY <2>1, <2>2
  <2>5. ThinkingInv'
    BY <2>3, <2>4 DEF ThinkingInv
  <2> QED BY <2>2, <2>5
<1> QED BY <1>2, <1>3

\* A failure is taken: an attempt that showed thinking and will be repeated
\* leaves a note.
LEMMA TakesFailureRight ==
  ASSUME CallInv, call.pc = "reading", NEW event \in Failed,
         ~event.cut /\ ~event.override => pipe.thought = 0,
         NEW again \in BOOLEAN, again => Retryable(event),
         call' = [call EXCEPT !.pc = IF again THEN "pausing" ELSE "failed"],
         sink' = IF again /\ event.cut THEN [sink EXCEPT !.thinking = Append(@, Note)] ELSE sink
  PROVE  sink' \in SinkRow /\ sink'.text = sink.text /\ ThinkingInv'
<1>1. sink \in SinkRow /\ sink.thinking \in Seq(Pieces \cup {Note}) /\ Note \in Pieces \cup {Note}
  BY DEF CallInv, CallTypeOK, SinkRow
<1>2. /\ call'.attempt = call.attempt /\ call'.pc = IF again THEN "pausing" ELSE "failed"
  BY DEF CallInv, CallTypeOK, CallRow
<1>3. CASE ~(again /\ event.cut)
  <2>1. sink' = sink
    BY <1>3
  <2>2. again => pipe.thought = 0
    BY <1>3 DEF Retryable, Failed
  <2>3. ThinkingInv'
    <3>1. call'.pc \notin {"idle", "reading"} /\ (~again => call'.pc = "failed")
      BY <1>2
    <3>2. sink.thinking # <<>> =>
            \/ sink.thinking[Len(sink.thinking)] = Note
            \/ sink.thinking[Len(sink.thinking)].attempt = call.attempt /\ ~again
      BY <2>2 DEF CallInv, ThinkingInv
    <3>3. \A i \in 1 .. Len(sink.thinking) - 1 :
            Apart(sink.thinking[i], sink.thinking[i + 1])
      BY DEF CallInv, ThinkingInv
    <3> QED BY <1>2, <2>1, <3>1, <3>2, <3>3 DEF ThinkingInv
  <2> QED BY <1>1, <2>1, <2>3
<1>4. CASE again /\ event.cut
  <2> DEFINE s == sink.thinking
  <2>1. /\ Append(s, Note) \in Seq(Pieces \cup {Note}) /\ Len(s) \in Nat
        /\ Len(Append(s, Note)) = Len(s) + 1 /\ Append(s, Note)[Len(s) + 1] = Note
        /\ \A i \in 1 .. Len(s) : Append(s, Note)[i] = s[i]
    <3> HIDE DEF s
    <3> QED BY <1>1, AppendFacts DEF s
  <2>2. /\ sink'.thinking = Append(s, Note) /\ sink'.text = sink.text /\ sink' \in SinkRow
    BY <1>1, <1>4, <2>1 DEF SinkRow
  <2>3. ASSUME NEW i \in 1 .. Len(sink'.thinking) - 1
        PROVE  Apart(sink'.thinking[i], sink'.thinking[i + 1])
    <3>0. i \in 1 .. Len(s)
      BY <2>1, <2>2
    <3>1. CASE i = Len(s)
      <4>1. sink'.thinking[i + 1] = Note
        BY <2>1, <2>2, <3>1
      <4> QED BY <4>1 DEF Apart
    <3>2. CASE i \in 1 .. Len(s) - 1
      <4>1. sink'.thinking[i] = s[i] /\ sink'.thinking[i + 1] = s[i + 1]
        BY <2>1, <2>2, <3>2
      <4> QED BY <3>2, <4>1 DEF CallInv, ThinkingInv
    <3> QED BY <2>1, <3>0, <3>1, <3>2
  <2>4. sink'.thinking[Len(sink'.thinking)] = Note
    BY <2>1, <2>2
  <2>5. ThinkingInv'
    <3>1. call'.pc # "idle"
      BY <1>2, <1>4
    <3>2. \A i \in 1 .. Len(sink'.thinking) - 1 :
            Apart(sink'.thinking[i], sink'.thinking[i + 1])
      BY <2>3
    <3> HIDE DEF s
    <3> QED BY ONLY <2>4, <3>1, <3>2 DEF ThinkingInv
  <2> QED BY <2>2, <2>5
<1> QED BY <1>3, <1>4

\* The caller takes the head of the queue.
LEMMA ReadsRight ==
  ASSUME CallInv, CallReads
  PROVE  CallInv'
<1> DEFINE q == pipe.queue
           item == Pieces \cup Completed \cup Failed
           event == Head(q)
<1>1. /\ call.pc = "reading" /\ q # <<>> /\ Takes(event)
      /\ pipe' = [pipe EXCEPT !.queue = Tail(@)]
      /\ pipe \in PipeRow /\ q \in Seq(item) /\ call \in CallRow /\ sink \in SinkRow
      /\ call.buffer \in Seq(Pieces) /\ pipe.texts \in Seq(Pieces) /\ pipe.thought \in Nat
      /\ sink.text = <<>>
  BY DEF CallReads, CallInv, CallTypeOK, PipeRow, CallRow, TextInv
<1>2. /\ Tail(q) \in Seq(item) /\ Len(q) \in Nat /\ Len(q) > 0 /\ Len(Tail(q)) = Len(q) - 1
      /\ event = q[1] /\ event \in item
      /\ \A i \in 1 .. Len(q) - 1 : Tail(q)[i] = q[i + 1]
  <2> HIDE DEF q, item
  <2> QED BY <1>1, TailFacts DEF event
<1>3. /\ pipe' \in PipeRow /\ pipe'.queue = Tail(q) /\ pipe'.closed = pipe.closed
      /\ pipe'.texts = pipe.texts /\ pipe'.thought = pipe.thought
      /\ pipe'.producer = pipe.producer
  BY <1>1, <1>2 DEF PipeRow
<1> HIDE DEF event
<1>4. ASSUME call'.pc # "reading" PROVE PipeInv'
  BY <1>3, <1>4 DEF CallInv, PipeInv
\* An end of the stream that failed.
<1>5. ASSUME event \in Failed, ~event.cut /\ ~event.override => pipe.thought = 0
      PROVE  CallInv'
  <2> DEFINE again == Retryable(event) /\ call.attempt < MaxAttempts
  <2>1. event.kind = "failed" /\ again \in BOOLEAN /\ (again => Retryable(event))
    BY <1>5 DEF Failed, Retryable
  <2>2. /\ call' = [call EXCEPT !.pc = IF again THEN "pausing" ELSE "failed"]
        /\ sink' = IF again /\ event.cut THEN [sink EXCEPT !.thinking = Append(@, Note)] ELSE sink
    BY <1>1, <2>1, TakesCases
  <2> HIDE DEF again
  <2>3. sink' \in SinkRow /\ sink'.text = sink.text /\ ThinkingInv'
    BY <1>1, <1>5, <2>1, <2>2, TakesFailureRight
  <2>4. /\ call' \in CallRow /\ call'.pc \in {"pausing", "failed"}
        /\ call'.reply = call.reply
    BY <1>1, <2>2 DEF CallRow
  <2>5. TextInv'
    BY <1>1, <2>3, <2>4 DEF CallInv, TextInv
  <2> QED BY <1>3, <1>4, <2>3, <2>4, <2>5 DEF CallInv, CallTypeOK
<1>6. CASE Lost
  <2>1. event = Failure(FALSE, TRUE)
    BY <1>2, <1>6 DEF Lost
  <2>2. event \in Failed /\ event.override
    BY <2>1 DEF Failure, Failed
  <2> QED BY <1>5, <2>2
<1>7. ASSUME NEW k \in Nat, NEW n \in Nat, QueueOf(call, pipe, k, n)
      PROVE  CallInv'
  <2>1. /\ Len(call.buffer) + n = Len(pipe.texts) /\ Len(call.buffer) \in Nat
        /\ Len(q) = k + n + (IF pipe.closed THEN 1 ELSE 0) /\ k <= pipe.thought
    BY <1>1, <1>7 DEF QueueOf
  <2>2. CASE k > 0
    <3>1. event \in Pieces /\ event.kind = "thinking" /\ event.attempt = call.attempt
      <4>1. 1 \in 1 .. k
        BY <2>2
      <4>2. q[1] \in Pieces /\ q[1].kind = "thinking" /\ q[1].attempt = call.attempt
        BY <1>7, <4>1 DEF QueueOf
      <4> QED BY <1>2, <4>2
    <3>2. /\ call' = call
          /\ sink' = IF call.mode = "tool_loop"
                     THEN [sink EXCEPT !.thinking = Append(@, event)] ELSE sink
      BY <1>1, <3>1, TakesCases
    <3>3. pipe.thought > 0
      BY <1>1, <2>1, <2>2
    <3>4. sink' \in SinkRow /\ sink'.text = sink.text /\ ThinkingInv'
      BY <1>1, <1>3, <3>1, <3>2, <3>3, TakesThinkingRight
    <3>5. TextInv'
      BY ZenonT(30), <3>2, <3>4 DEF CallInv, TextInv
    <3>6. QueueOf(call', pipe', k - 1, n)
      <4>1. /\ k - 1 \in Nat /\ k - 1 <= pipe.thought
            /\ Len(Tail(q)) = (k - 1) + n + (IF pipe.closed THEN 1 ELSE 0)
        <5> DEFINE e == IF pipe.closed THEN 1 ELSE 0
        <5>1. e \in Nat /\ Len(q) = k + n + e /\ k <= pipe.thought /\ pipe.thought \in Nat
              /\ Len(Tail(q)) = Len(q) - 1
          BY <1>1, <1>2, <2>1
        <5> HIDE DEF e, q
        <5>2. k - 1 \in Nat /\ k - 1 <= pipe.thought
          BY <2>2, <5>1
        <5>3. Len(Tail(q)) = (k - 1) + n + e
          BY <5>1
        <5> QED BY <5>2, <5>3 DEF e
      <4>2. \A i \in 1 .. k - 1 : i + 1 \in 1 .. k /\ Tail(q)[i] = q[i + 1]
        <5>1. \A i \in 1 .. k - 1 : i + 1 \in 1 .. k /\ i \in 1 .. Len(q) - 1
          BY <1>2, <2>1
        <5> QED BY <1>2, <5>1
      <4>3. ASSUME NEW i \in (k - 1) + 1 .. (k - 1) + n
            PROVE  Tail(q)[i] = pipe.texts[Len(call.buffer) + (i - (k - 1))]
        <5>1. i + 1 \in k + 1 .. k + n /\ i \in 1 .. Len(q) - 1
              /\ (i + 1) - k = i - (k - 1)
          BY <1>2, <2>1, <2>2
        <5>2. q[i + 1] = pipe.texts[Len(call.buffer) + ((i + 1) - k)]
          BY <1>7, <5>1 DEF QueueOf
        <5> QED BY <1>2, <5>1, <5>2
      <4>4. pipe.closed => Ending(Tail(q)[Len(Tail(q))], pipe')
        <5> SUFFICES ASSUME pipe.closed PROVE Ending(Tail(q)[Len(Tail(q))], pipe')
          OBVIOUS
        <5>1. Len(q) - 1 \in 1 .. Len(q) - 1
          BY <1>2, <2>1, <2>2
        <5>2. Tail(q)[Len(Tail(q))] = q[Len(q)]
          BY <1>2, <5>1
        <5>3. Ending(q[Len(q)], pipe)
          BY <1>7 DEF QueueOf
        <5> QED BY <1>3, <5>2, <5>3 DEF Ending
      <4>5. \A i \in 1 .. k - 1 :
              /\ Tail(q)[i] \in Pieces /\ Tail(q)[i].kind = "thinking"
              /\ Tail(q)[i].attempt = call.attempt
        BY <1>7, <4>2 DEF QueueOf
      <4>6. /\ \A i \in 1 .. Len(call.buffer) : call.buffer[i] = pipe.texts[i]
            /\ \A i \in 1 .. Len(pipe.texts) : pipe.texts[i].kind = "text"
        BY <1>7 DEF QueueOf
      <4> HIDE DEF q
      <4> QED BY ZenonT(30), <1>3, <2>1, <3>2, <4>1, <4>3, <4>4, <4>5, <4>6 DEF QueueOf
    <3>7. PipeInv'
      <4>1. QueueInOrder'
        BY <2>2, <3>6 DEF QueueInOrder
      <4> QED BY <1>3, <4>1 DEF CallInv, PipeInv
    <3> QED BY <1>1, <1>3, <3>2, <3>4, <3>5, <3>7 DEF CallInv, CallTypeOK
  <2>3. CASE k = 0 /\ n > 0
    <3> DEFINE b == call.buffer
    <3>1. /\ event = pipe.texts[Len(b) + 1] /\ Len(b) + 1 \in 1 .. Len(pipe.texts)
      <4>1. 1 \in k + 1 .. k + n /\ 1 - k = 1 /\ Len(b) + 1 \in 1 .. Len(pipe.texts)
        BY <2>1, <2>3
      <4>2. q[1] = pipe.texts[Len(b) + (1 - k)]
        BY <1>7, <4>1 DEF QueueOf
      <4> QED BY <1>2, <4>1, <4>2
    <3>2. event \in Pieces /\ event.kind = "text"
      <4>1. PICK texts \in Seq(Pieces) : texts = pipe.texts
        BY <1>1
      <4>2. PICK j \in 1 .. Len(texts) : j = Len(b) + 1
        BY <3>1, <4>1
      <4>3. \A i \in 1 .. Len(texts) : texts[i].kind = "text"
        BY <1>7, <4>1 DEF QueueOf
      <4>4. texts[j] \in Pieces /\ texts[j].kind = "text"
        BY <4>3
      <4> QED BY <3>1, <4>1, <4>2, <4>4
    <3>3. call' = [call EXCEPT !.buffer = Append(@, event)] /\ sink' = sink
      BY <1>1, <3>2, TakesCases
    <3>4. /\ Append(b, event) \in Seq(Pieces) /\ Len(Append(b, event)) = Len(b) + 1
          /\ Append(b, event)[Len(b) + 1] = event
          /\ \A i \in 1 .. Len(b) : Append(b, event)[i] = b[i]
      <4> HIDE DEF b
      <4> QED BY <1>1, <3>2, AppendFacts DEF b
    <3>5. /\ call' \in CallRow /\ call'.buffer = Append(b, event) /\ call'.pc = "reading"
          /\ call'.attempt = call.attempt /\ call'.reply = call.reply
      BY <1>1, <3>3, <3>4 DEF CallRow
    <3>6. TextInv'
      BY <1>1, <3>3, <3>5 DEF CallInv, TextInv
    <3>7. ThinkingInv'
      BY <1>1, <1>3, <3>3, <3>5 DEF CallInv, ThinkingInv
    <3>8. QueueOf(call', pipe', 0, n - 1)
      <4> HIDE DEF b
      <4>1. /\ (Len(b) + 1) + (n - 1) = Len(pipe.texts) /\ 0 <= pipe.thought
            /\ Len(Tail(q)) = 0 + (n - 1) + (IF pipe.closed THEN 1 ELSE 0)
        BY SMTT(60), <1>1, <1>2, <2>1, <2>3 DEF b
      <4>2. ASSUME NEW i \in 0 + 1 .. 0 + (n - 1)
            PROVE  Tail(q)[i] = pipe.texts[(Len(b) + 1) + (i - 0)]
        <5>1. /\ i + 1 \in k + 1 .. k + n /\ i \in 1 .. Len(q) - 1
              /\ Len(b) + ((i + 1) - k) = (Len(b) + 1) + (i - 0)
          <6>1. Len(b) \in Nat /\ k = 0 /\ n \in Nat /\ i \in 1 .. n - 1
                /\ Len(q) \in Nat /\ n <= Len(q)
            BY <1>2, <2>1, <2>3 DEF b
          <6> HIDE DEF q
          <6>2. i + 1 \in k + 1 .. k + n /\ i \in 1 .. Len(q) - 1
            BY <6>1
          <6>3. Len(b) + ((i + 1) - k) = (Len(b) + 1) + (i - 0)
            BY <6>1
          <6> QED BY <6>2, <6>3
        <5>2. q[i + 1] = pipe.texts[Len(b) + ((i + 1) - k)]
          BY <1>7, <5>1 DEF QueueOf, b
        <5> QED BY <1>2, <5>1, <5>2
      <4>3. pipe.closed => Ending(Tail(q)[Len(Tail(q))], pipe')
        <5> SUFFICES ASSUME pipe.closed PROVE Ending(Tail(q)[Len(Tail(q))], pipe')
          OBVIOUS
        <5>1. Len(q) - 1 \in 1 .. Len(q) - 1
          BY <1>2, <2>1, <2>3
        <5>2. Tail(q)[Len(Tail(q))] = q[Len(q)]
          BY <1>2, <5>1
        <5>3. Ending(q[Len(q)], pipe)
          BY <1>7 DEF QueueOf
        <5> QED BY <1>3, <5>2, <5>3 DEF Ending
      <4>4. \A i \in 1 .. Len(b) + 1 : Append(b, event)[i] = pipe.texts[i]
        <5>1. \A i \in 1 .. Len(b) : b[i] = pipe.texts[i]
          BY <1>7 DEF QueueOf, b
        <5>2. \A i \in 1 .. Len(b) + 1 : i \in 1 .. Len(b) \/ i = Len(b) + 1
          BY <2>1 DEF b
        <5> QED BY <3>1, <3>4, <5>1, <5>2
      <4>5. \A i \in 1 .. Len(pipe.texts) : pipe.texts[i].kind = "text"
        BY <1>7 DEF QueueOf
      <4>6. Len(call'.buffer) = Len(b) + 1
        BY <3>4, <3>5
      <4>7. \A i \in 1 .. 0 :
              /\ pipe'.queue[i] \in Pieces /\ pipe'.queue[i].kind = "thinking"
              /\ pipe'.queue[i].attempt = call'.attempt
        OBVIOUS
      <4> HIDE DEF q
      <4>8. \A i \in 1 .. Len(call'.buffer) : call'.buffer[i] = pipe'.texts[i]
        BY <1>3, <3>5, <4>4, <4>6
      <4>9. \A i \in 0 + 1 .. 0 + (n - 1) :
              pipe'.queue[i] = pipe'.texts[Len(call'.buffer) + (i - 0)]
        BY <1>3, <4>2, <4>6
      <4> QED BY <1>3, <4>1, <4>3, <4>5, <4>6, <4>7, <4>8, <4>9 DEF QueueOf
    <3>9. PipeInv'
      <4>1. QueueInOrder'
        BY <2>3, <3>8 DEF QueueInOrder
      <4> QED BY <1>3, <4>1 DEF CallInv, PipeInv
    <3> QED BY <1>1, <1>3, <3>3, <3>5, <3>6, <3>7, <3>9 DEF CallInv, CallTypeOK
  <2>4. CASE k = 0 /\ n = 0
    <3>1. pipe.closed /\ Len(q) = 1
      BY <1>2, <2>1, <2>4
    <3>2. Ending(event, pipe)
      BY <1>2, <1>7, <3>1 DEF QueueOf
    <3>3. CASE event \in Completed /\ event.reply.texts = pipe.texts
      <4>1. event.kind = "completed" /\ event.reply \in Replies
        BY <3>3 DEF Completed
      <4> DEFINE pc == IF callCut \/ (call.mode = "text" /\ ~event.reply.whole)
                       THEN "failed"
                       ELSE IF call.mode = "text" \/ event.reply.tools \/ ~event.reply.whole
                       THEN "done" ELSE "showing"
      <4>2. call' = [call EXCEPT !.reply = event.reply, !.pc = pc] /\ sink' = sink
        BY <1>1, <4>1, TakesCases
      <4>3. /\ pc \in {"failed", "done", "showing"}
            /\ pc = "showing" => event.reply.whole /\ ~event.reply.tools
            /\ pc = "done" => call.mode = "text" \/ event.reply.tools \/ ~event.reply.whole
        OBVIOUS
      <4> HIDE DEF pc
      <4>4. /\ call' \in CallRow /\ call'.pc = pc /\ call'.reply = event.reply
            /\ call'.buffer = call.buffer /\ call'.attempt = call.attempt
            /\ call'.mode = call.mode
        BY <1>1, <4>1, <4>2, <4>3 DEF CallRow
      <4>5. /\ Len(call.buffer) = Len(event.reply.texts) /\ Len(call.buffer) \in Nat
            /\ \A i \in 1 .. Len(call.buffer) : call.buffer[i] = event.reply.texts[0 + i]
        BY <1>1, <1>7, <2>1, <2>4, <3>3 DEF QueueOf
      <4>6. sink'.text = <<>> /\ Len(sink'.text) = 0
        BY <1>1, <4>2
      <4>7. TextInv'
        <5>1. call'.pc = "showing" =>
                /\ call'.reply.whole /\ ~call'.reply.tools
                /\ Len(sink'.text) + Len(call'.buffer) = Len(call'.reply.texts)
                /\ \A i \in 1 .. Len(call'.buffer) :
                     call'.buffer[i] = call'.reply.texts[Len(sink'.text) + i]
          BY <4>3, <4>4, <4>5, <4>6
        <5>2. ~(call'.pc = "done" /\ call'.mode = "tool_loop" /\ call'.reply.whole
                  /\ ~call'.reply.tools)
          BY <4>3, <4>4
        <5>3. Len(sink'.text) <= Len(call'.reply.texts)
          BY <4>4, <4>5, <4>6
        <5> QED BY <4>3, <4>4, <4>6, <5>1, <5>2, <5>3 DEF TextInv
      <4>8. ThinkingInv'
        BY <1>1, <1>3, <4>2, <4>3, <4>4 DEF CallInv, ThinkingInv
      <4> QED BY <1>1, <1>3, <1>4, <4>2, <4>3, <4>4, <4>7, <4>8 DEF CallInv, CallTypeOK
    <3>4. CASE event \in Failed /\ (~event.cut /\ ~event.override => pipe.thought = 0)
      BY <1>5, <3>4
    <3> QED BY <3>2, <3>3, <3>4 DEF Ending
  <2> QED BY <2>2, <2>3, <2>4
<1> QED BY <1>1, <1>6, <1>7 DEF CallInv, PipeInv, QueueInOrder

\* The accepted reply is shown piece by piece.
LEMMA ShowsRight ==
  ASSUME CallInv, CallShows
  PROVE  CallInv'
<1> DEFINE b == call.buffer
           t == call.reply.texts
           s == sink.text
<1>1. /\ call.pc = "showing" /\ pipe' = pipe /\ call \in CallRow /\ sink \in SinkRow
      /\ b \in Seq(Pieces) /\ s \in Seq(Pieces) /\ t \in Seq(Pieces)
      /\ call.reply.whole /\ ~call.reply.tools
      /\ Len(s) + Len(b) = Len(t) /\ Len(s) \in Nat /\ Len(b) \in Nat
      /\ \A i \in 1 .. Len(b) : b[i] = t[Len(s) + i]
      /\ \A i \in 1 .. Len(s) : s[i] = t[i]
  BY DEF CallShows, CallInv, CallTypeOK, CallRow, SinkRow, Replies, TextInv
<1>2. CASE call.buffer = <<>> /\ call' = [call EXCEPT !.pc = "done"] /\ sink' = sink
  <2>1. call' \in CallRow /\ call'.pc = "done" /\ call'.reply = call.reply
        /\ call'.attempt = call.attempt
    BY <1>1, <1>2 DEF CallRow
  <2>2. Len(s) = Len(t)
    BY <1>1, <1>2
  <2>3. TextInv'
    BY <1>1, <1>2, <2>1, <2>2 DEF CallInv, TextInv
  <2>4. ThinkingInv'
    BY <1>1, <1>2, <2>1 DEF CallInv, ThinkingInv
  <2>5. PipeInv'
    BY <1>1, <2>1 DEF CallInv, PipeInv
  <2> QED BY <1>1, <1>2, <2>1, <2>3, <2>4, <2>5 DEF CallInv, CallTypeOK
<1>3. CASE /\ call.buffer # <<>>
           /\ sink' = [sink EXCEPT !.text = Append(@, Head(call.buffer))]
           /\ call' = [call EXCEPT !.buffer = Tail(@)]
  <2>1. /\ Tail(b) \in Seq(Pieces) /\ Len(b) > 0 /\ Len(Tail(b)) = Len(b) - 1
        /\ Head(b) = b[1] /\ b[1] \in Pieces
        /\ \A i \in 1 .. Len(b) - 1 : Tail(b)[i] = b[i + 1]
    <3> HIDE DEF b
    <3> QED BY <1>1, <1>3, TailFacts DEF b
  <2> DEFINE x == Head(b)
  <2>2. /\ Append(s, x) \in Seq(Pieces) /\ Len(Append(s, x)) = Len(s) + 1
        /\ Append(s, x)[Len(s) + 1] = x
        /\ \A i \in 1 .. Len(s) : Append(s, x)[i] = s[i]
    <3>1. x \in Pieces
      BY <2>1
    <3> HIDE DEF s, x
    <3> QED BY <1>1, <3>1, AppendFacts
  <2>3. /\ call' \in CallRow /\ call'.pc = "showing" /\ call'.reply = call.reply
        /\ call'.attempt = call.attempt /\ call'.buffer = Tail(b)
    BY <1>1, <1>3, <2>1 DEF CallRow
  <2>4. sink' \in SinkRow /\ sink'.text = Append(s, x) /\ sink'.thinking = sink.thinking
    BY <1>1, <1>3, <2>2 DEF SinkRow
  <2> HIDE DEF b, t, s, x
  <2>5. Len(Append(s, x)) + Len(Tail(b)) = Len(t) /\ Len(Append(s, x)) <= Len(t)
    BY <1>1, <2>1, <2>2
  <2>6. x = t[Len(s) + 1]
    <3>1. 1 \in 1 .. Len(b)
      BY <1>1, <2>1
    <3>2. b[1] = t[Len(s) + 1]
      BY <1>1, <3>1
    <3> QED BY <2>1, <3>2 DEF x
  <2>7. ASSUME NEW i \in 1 .. Len(Tail(b)) PROVE Tail(b)[i] = t[Len(Append(s, x)) + i]
    <3>1. /\ i \in 1 .. Len(b) - 1 /\ i + 1 \in 1 .. Len(b)
          /\ Len(s) + (i + 1) = Len(Append(s, x)) + i
      BY <1>1, <2>1, <2>2
    <3>2. b[i + 1] = t[Len(s) + (i + 1)]
      BY <1>1, <3>1
    <3> QED BY <2>1, <3>1, <3>2
  <2>8. ASSUME NEW i \in 1 .. Len(Append(s, x)) PROVE Append(s, x)[i] = t[i]
    <3>1. i \in 1 .. Len(s) \/ i = Len(s) + 1
      BY <1>1, <2>2
    <3> QED BY <1>1, <2>2, <2>6, <3>1
  <2>9. call'.reply.texts = t /\ call'.reply.whole /\ ~call'.reply.tools
    BY <1>1, <2>3 DEF t
  <2>10. TextInv'
    BY <2>3, <2>4, <2>5, <2>7, <2>8, <2>9 DEF TextInv
  <2>11. ThinkingInv'
    BY <1>1, <2>3, <2>4 DEF CallInv, ThinkingInv
  <2>12. PipeInv'
    BY <1>1, <2>3 DEF CallInv, PipeInv
  <2> QED BY <1>1, <2>3, <2>4, <2>10, <2>11, <2>12 DEF CallInv, CallTypeOK
<1> QED BY <1>2, <1>3 DEF CallShows

LEMMA CancelledRight ==
  ASSUME CallInv, CallCancelled
  PROVE  CallInv'
<1>1. /\ call \in CallRow /\ call' = [call EXCEPT !.pc = "failed"] /\ pipe' = pipe /\ sink' = sink
  BY DEF CallCancelled, CallInv, CallTypeOK
<1>2. call' \in CallRow /\ call'.pc = "failed" /\ call'.reply = call.reply
      /\ call'.attempt = call.attempt
  BY <1>1 DEF CallRow
<1>3. PipeInv' /\ TextInv' /\ ThinkingInv'
  BY <1>1, <1>2 DEF CallInv, PipeInv, TextInv, ThinkingInv
<1> QED BY <1>1, <1>2, <1>3 DEF CallInv, CallTypeOK

LEMMA CallsInOrder == Spec => []CallInv
<1>1. Init => CallInv
  BY CallStarts DEF Init
<1>2. CallInv /\ [Next]_vars => CallInv'
  <2> SUFFICES ASSUME CallInv, [Next]_vars PROVE CallInv'
    OBVIOUS
  <2>1. UNCHANGED callVars \/ CallNext
    BY DEF Next, vars
  <2>2. ASSUME call' = call, pipe' = pipe, sink' = sink PROVE CallInv'
    BY <2>2, SameQueueRight DEF CallInv, CallTypeOK
  <2>3. CASE UNCHANGED callVars
    BY <2>2, <2>3 DEF callVars
  <2>4. CASE CallBegins
    BY <2>4, BeginsRight
  <2>5. CASE CallAborted
    BY <2>2, <2>5 DEF CallAborted
  <2>6. CASE ProducerStep
    BY <2>6, OpensRight, StreamsRight, LosingRight DEF ProducerStep, ProducerDone
  <2>7. CASE ProducerAborts
    <3>1. /\ pipe \in PipeRow /\ pipe' = [pipe EXCEPT !.producer = "cancelled"]
          /\ call' = call /\ sink' = sink
      BY <2>7 DEF ProducerAborts, CallInv, CallTypeOK
    <3>2. /\ pipe' \in PipeRow /\ pipe'.producer = "cancelled"
          /\ pipe'.queue = pipe.queue /\ pipe'.closed = pipe.closed
          /\ pipe'.thought = pipe.thought /\ pipe'.texts = pipe.texts
      BY <3>1 DEF PipeRow
    <3> QED BY <3>1, <3>2, SameQueueRight
  <2>8. CASE CallerStep
    BY <2>8, ReadsRight, AsksAgainRight, ShowsRight, LosingRight DEF CallerStep, StreamCloses
  <2>9. CASE CallCancelled
    BY <2>9, CancelledRight
  <2> QED BY <2>1, <2>3, <2>4, <2>5, <2>6, <2>7, <2>8, <2>9 DEF CallNext
<1> QED BY <1>1, <1>2, PTL DEF Spec

\* For any number of attempts, openings, pieces and any room in the queue: what
\* is shown is the accepted reply from its first piece on, all of it if the call
\* ends well, and thinking of two attempts is never run together.
THEOREM RepliesAreShownOnce == Spec => []ReplyShownOnce
<1>1. CallInv => ReplyShownOnce
  <2> SUFFICES ASSUME CallInv PROVE ReplyShownOnce
    OBVIOUS
  <2> DEFINE s == sink.text
             t == call.reply.texts
  <2>1. /\ s \in Seq(Pieces) /\ t \in Seq(Pieces) /\ Len(s) \in Nat /\ Len(t) \in Nat
        /\ Len(s) <= Len(t)
        /\ \A i \in 1 .. Len(s) : s[i] = t[i]
    BY DEF CallInv, CallTypeOK, CallRow, SinkRow, Replies, TextInv
  <2>2. ASSUME NEW m \in Nat, m <= Len(t), m = Len(s) PROVE s = SubSeq(t, 1, m)
    <3> HIDE DEF s, t
    <3>1. SubSeq(t, 1, m) \in Seq(Pieces) /\ Len(SubSeq(t, 1, m)) = m
      BY <2>1, <2>2
    <3>2. \A i \in 1 .. m : SubSeq(t, 1, m)[i] = t[i]
      BY <2>1, <2>2
    <3> QED BY <2>1, <2>2, <3>1, <3>2
  <2>3. s = SubSeq(t, 1, Len(s))
    BY <2>1, <2>2
  <2>4. ASSUME Len(s) = Len(t) PROVE s = t
    <3> HIDE DEF s, t
    <3> QED BY <2>1, <2>4
  <2>5. /\ s # <<>> => call.reply.whole /\ ~call.reply.tools
        /\ call.pc = "done" /\ call.mode = "tool_loop" /\ call.reply.whole /\ ~call.reply.tools =>
             s = t
    BY <2>4 DEF CallInv, TextInv
  <2>6. \A i \in 1 .. Len(sink.thinking) - 1 :
          LET one == sink.thinking[i]  two == sink.thinking[i + 1]
          IN one # Note /\ two # Note => one.attempt = two.attempt
    BY DEF CallInv, ThinkingInv, Apart
  <2> QED BY <2>1, <2>3, <2>5, <2>6 DEF ReplyShownOnce
<1> QED BY <1>1, CallsInOrder, PTL

------------------------------------------------------------------------------
(* The stream. *)

Runs        == [text : Nat, seq : Nat, ended : BOOLEAN, from : {"db", "recorder"}]
Checkpoints == [kind : {"checkpoint"}, sid : Nat, seq : Nat, snapshot : Runs]
Deltas      == [kind : {"delta"}, sid : Nat, seq : Nat, piece : Nat]
Messages    == Checkpoints \cup Deltas

TraceRow == [run : Runs, db : Runs]
HubRow   == [sid : Nat, seq : Nat, tracked : BOOLEAN, history : Seq(Messages),
             terminal : Checkpoints \cup {NoMessage}]
LineRow  == [pc : {"closed", "reading", "open", "finishing"}, sid : Nat, from : Nat,
             replay : Seq(Messages), frames : Seq(Messages), queue : Seq(Messages)]
PageRow  == [sid : Nat, seq : Nat, base : Runs, live : Seq(Nat), over : BOOLEAN]
RecorderRow == [pc : {"idle", "saving", "failing", "publishing"}, flush : BOOLEAN]

StreamTypeOK ==
  /\ trace \in TraceRow /\ hub \in HubRow /\ line \in LineRow /\ page \in PageRow
  /\ recorder \in RecorderRow

\* The chain of a generation is the run as it was at each of its messages.  What
\* the recorder publishes says so.
Own(chain, top, sid) ==
  {m \in Messages :
     /\ m.sid = sid /\ m.seq <= top
     /\ m.kind = "checkpoint" => /\ m.snapshot.from = "recorder"
                                 /\ m.snapshot.text = chain[m.seq].text
                                 /\ m.snapshot.seq = chain[m.seq].seq
                                 /\ m.snapshot.ended = chain[m.seq].ended
     /\ m.kind = "delta" => /\ m.seq # 0
                            /\ chain[m.seq].text = chain[m.seq - 1].text + 1
                            /\ chain[m.seq].text = m.piece}

\* What was read from the database instead: nothing in the chain that its seq
\* does not cover has another text.
Reads(chain, top, sid) ==
  {m \in Checkpoints :
     /\ m.sid = sid /\ m.seq <= top /\ m.snapshot.from = "db"
     /\ \A k \in 0 .. m.seq : m.snapshot.seq < chain[k].seq => chain[k].text = chain[m.seq].text}

\* An end that was read, of a run that has ended: who is past it knows the end.
Ends(chain, top, sid, base, ended) ==
  {m \in Reads(chain, top, sid) :
     /\ m.snapshot.ended /\ ended
     /\ \A k \in 0 .. top : m.snapshot.seq < chain[k].seq => chain[k].ended
     /\ base.from = "recorder" /\ m.snapshot.seq < base.seq => base.ended}

\* The frame that opens a connection: a page of another generation that is past
\* it has all there was.
Have(p) == p.base.text + Len(p.live)
Opening(chain, top, sid, p) ==
  {m \in Reads(chain, top, sid) :
     /\ ~m.snapshot.ended
     /\ p.base.from = "recorder" /\ m.snapshot.seq < p.base.seq /\ p.sid # sid =>
          Have(p) = chain[m.seq].text}

\* The recorder saves before it publishes, and while text may come every
\* boundary is saved.
SavedFirst(t, pc) ==
  /\ pc \in {"idle", "publishing"} => t.db.seq = t.run.seq
  /\ t.db.seq <= t.run.seq
  /\ t.db.ended => t.run.ended /\ t.db.text = t.run.text

\* What the chain says of the run, and of what is saved of it.
ChainGrows(chain, top) ==
  \A j, k \in 0 .. top : j <= k => chain[j].seq <= chain[k].seq
ChainMeets(chain, top, t) ==
  /\ \A k \in 0 .. top :
       /\ chain[k].seq <= t.run.seq
       /\ t.db.seq < chain[k].seq => chain[k].text = t.run.text
       /\ t.db.seq < chain[k].seq /\ t.db.ended => chain[k].ended
  /\ chain[top].text = t.run.text

HubTells(chain, h, t, base) ==
  /\ h.sid = 0 => h = NoStream
  /\ h.sid # 0 => /\ ChainGrows(chain, h.seq) /\ ChainMeets(chain, h.seq, t)
                  /\ h.tracked \/ t.run.ended
                  /\ h.history \in Seq(Own(chain, h.seq, h.sid))
  /\ h.terminal # NoMessage =>
       /\ ~h.tracked /\ t.run.ended
       /\ h.terminal.seq = h.seq /\ h.terminal.snapshot.ended
       /\ h.terminal \in Own(chain, h.seq, h.sid)
                         \cup Ends(chain, h.seq, h.sid, base, t.run.ended)

LineTells(chain, h, l, p, ended) ==
  IF l.pc = "closed" THEN l = NoLine
  ELSE /\ h.sid # 0 /\ l.sid = h.sid /\ l.from <= h.seq
       /\ l.queue \in Seq(Own(chain, h.seq, h.sid))
       /\ l.replay \in Seq(Own(chain, h.seq, h.sid))
       /\ \/ l.frames \in Seq(Own(chain, h.seq, h.sid) \cup Ends(chain, h.seq, h.sid, p.base, ended))
          \/ Len(l.frames) = 1 /\ l.frames[1] \in Opening(chain, h.seq, h.sid, p)

\* What a page shows on a recorder's base, whatever it is connected to.
PageHas(p, t) ==
  p.base.from = "recorder" =>
    /\ p.base.seq <= t.run.seq
    /\ t.db.seq < p.base.seq => Have(p) = t.run.text
    /\ t.db.seq < p.base.seq /\ t.db.ended => p.base.ended
    /\ p.base.ended => p.over
    /\ \A j \in 1 .. Len(p.live) : p.live[j] = p.base.text + j

\* Where it stands in the chain, if it follows this generation.
PageAt(chain, h, p) ==
  h.sid # 0 /\ p.base.from = "recorder" =>
    IF p.sid = h.sid
    THEN p.seq <= h.seq /\ p.base.seq <= chain[p.seq].seq /\ Have(p) = chain[p.seq].text
    ELSE p.base.seq <= chain[0].seq

Life(chain) ==
  /\ StreamTypeOK /\ chain \in [Nat -> Runs]
  /\ SavedFirst(trace, recorder.pc)
  /\ HubTells(chain, hub, trace, page.base)
  /\ LineTells(chain, hub, line, page, trace.run.ended)
  /\ page.over => line.pc = "closed"
  /\ PageHas(page, trace) /\ PageAt(chain, hub, page)
StreamInv == \E chain : Life(chain)

LEMMA MessageFacts ==
  /\ \A m \in Messages : m.sid \in Nat /\ m.seq \in Nat
  /\ \A m \in Messages : m.kind \in {"checkpoint", "delta"}
  /\ \A m \in Messages : m.kind = "checkpoint" => m \in Checkpoints /\ m.snapshot \in Runs
  /\ \A m \in Messages : m.kind = "delta" => m.piece \in Nat
  /\ \A m \in Checkpoints : m \in Messages /\ m.kind = "checkpoint" /\ m.snapshot \in Runs
  /\ NoMessage \notin Checkpoints /\ NoMessage.kind = "none"
BY DEF Messages, Checkpoints, Deltas, NoMessage

LEMMA CheckpointFacts ==
  ASSUME NEW sid \in Nat, NEW seq \in Nat, NEW r \in Runs, NEW m, m = Checkpoint(sid, seq, r)
  PROVE  /\ m \in Checkpoints /\ m \in Messages /\ m.kind = "checkpoint"
         /\ m.sid = sid /\ m.seq = seq /\ m.snapshot = r
BY DEF Messages, Checkpoints, Checkpoint

LEMMA DeltaFacts ==
  ASSUME NEW sid \in Nat, NEW seq \in Nat, NEW piece \in Nat, NEW m, m = Delta(sid, seq, piece)
  PROVE  m \in Messages /\ m.kind = "delta" /\ m.sid = sid /\ m.seq = seq /\ m.piece = piece
BY DEF Messages, Deltas, Delta

LEMMA RunFacts ==
  /\ \A r \in Runs : r.text \in Nat /\ r.seq \in Nat /\ r.ended \in BOOLEAN /\ r.from \in {"db", "recorder"}
  /\ \A r \in Runs, from \in {"db", "recorder"} :
       LET s == Snapshot(r, from)
       IN s \in Runs /\ s.text = r.text /\ s.seq = r.seq /\ s.ended = r.ended /\ s.from = from
  /\ NewRun \in Runs
BY DEF Runs, Snapshot, NewRun

LEMMA EmptyRows ==
  /\ NoStream \in HubRow /\ NoStream.sid = 0 /\ NoStream.seq = 0 /\ ~NoStream.tracked
  /\ NoStream.history = <<>> /\ NoStream.terminal = NoMessage
  /\ NoLine \in LineRow /\ NoLine.pc = "closed"
  /\ NoLine.queue = <<>> /\ NoLine.frames = <<>> /\ NoLine.replay = <<>>
BY DEF NoStream, NoLine, HubRow, LineRow

LEMMA SeqWider ==
  ASSUME NEW S, NEW T, S \subseteq T, NEW q \in Seq(S)
  PROVE  q \in Seq(T)
OBVIOUS

LEMMA LatestFacts ==
  ASSUME NEW S, NEW q \in Seq(S), NEW size \in Nat
  PROVE  Latest(q, size) \in Seq(S)
<1>1. CASE Len(q) > size
  <2>1. SubSeq(q, Len(q) - size + 1, Len(q)) \in Seq(S)
    BY <1>1
  <2> QED BY <1>1, <2>1 DEF Latest
<1>2. CASE ~(Len(q) > size)
  BY <1>2 DEF Latest
<1> QED BY <1>1, <1>2

\* A generation goes on: its chain grows by one.
Longer(chain, next, top) ==
  /\ chain \in [Nat -> Runs] /\ next \in [Nat -> Runs] /\ top \in Nat
  /\ \A k \in 0 .. top : next[k] = chain[k]

LEMMA OwnGrows ==
  ASSUME NEW chain, NEW next, NEW top, NEW sid, NEW more \in Nat,
         Longer(chain, next, top), top <= more
  PROVE  Own(chain, top, sid) \subseteq Own(next, more, sid)
<1> SUFFICES ASSUME NEW m \in Own(chain, top, sid) PROVE m \in Own(next, more, sid)
  OBVIOUS
<1>1. m \in Messages /\ m.seq \in Nat /\ m.seq <= top /\ top \in Nat
  BY MessageFacts DEF Own, Longer
<1>2. next[m.seq] = chain[m.seq] /\ (m.seq # 0 => next[m.seq - 1] = chain[m.seq - 1])
  BY <1>1 DEF Longer
<1>3. m.seq <= more
  BY <1>1
<1> QED BY <1>1, <1>2, <1>3 DEF Own

LEMMA ReadsGrow ==
  ASSUME NEW chain, NEW next, NEW top, NEW sid, NEW more \in Nat,
         Longer(chain, next, top), top <= more
  PROVE  Reads(chain, top, sid) \subseteq Reads(next, more, sid)
<1> SUFFICES ASSUME NEW m \in Reads(chain, top, sid) PROVE m \in Reads(next, more, sid)
  OBVIOUS
<1>1. m \in Checkpoints /\ m.seq \in Nat /\ m.seq <= top /\ top \in Nat
  BY MessageFacts DEF Reads, Longer
<1>2. next[m.seq] = chain[m.seq] /\ \A k \in 0 .. m.seq : next[k] = chain[k]
  BY <1>1 DEF Longer
<1>3. m.seq <= more
  BY <1>1
<1> QED BY <1>1, <1>2, <1>3 DEF Reads

LEMMA EndsGrow ==
  ASSUME NEW chain, NEW next, NEW top \in Nat, NEW sid, NEW base, NEW ended,
         Longer(chain, next, top), next[top + 1].ended
  PROVE  Ends(chain, top, sid, base, ended) \subseteq Ends(next, top + 1, sid, base, ended)
<1> SUFFICES ASSUME NEW m \in Ends(chain, top, sid, base, ended)
             PROVE  m \in Ends(next, top + 1, sid, base, ended)
  OBVIOUS
<1>1. m \in Reads(next, top + 1, sid)
  BY ReadsGrow DEF Ends
<1>2. ASSUME NEW k \in 0 .. top + 1, m.snapshot.seq < next[k].seq PROVE next[k].ended
  <2>1. CASE k = top + 1
    BY <2>1
  <2>2. CASE k # top + 1
    <3>1. k \in 0 .. top /\ next[k] = chain[k]
      BY <2>2 DEF Longer
    <3> QED BY <1>2, <3>1 DEF Ends
  <2> QED BY <2>1, <2>2
<1> QED BY <1>1, <1>2 DEF Ends

LEMMA OpeningGrows ==
  ASSUME NEW chain, NEW next, NEW top \in Nat, NEW sid, NEW p,
         Longer(chain, next, top)
  PROVE  Opening(chain, top, sid, p) \subseteq Opening(next, top + 1, sid, p)
<1> SUFFICES ASSUME NEW m \in Opening(chain, top, sid, p)
             PROVE  m \in Opening(next, top + 1, sid, p)
  OBVIOUS
<1>1. m \in Reads(next, top + 1, sid)
  BY ReadsGrow DEF Opening
<1>2. m \in Checkpoints /\ m.seq \in Nat /\ m.seq <= top
  BY MessageFacts DEF Opening, Reads
<1>3. next[m.seq] = chain[m.seq]
  BY <1>2 DEF Longer
<1> QED BY <1>1, <1>3 DEF Opening

LEMMA PageGoesOn ==
  ASSUME NEW chain, NEW next, NEW h \in HubRow, NEW more \in HubRow, NEW p \in PageRow,
         Longer(chain, next, h.seq), h.sid = more.sid, h.seq <= more.seq, PageAt(chain, h, p)
  PROVE  PageAt(next, more, p)
<1>1. h.seq \in Nat /\ more.seq \in Nat /\ p.seq \in Nat
  BY DEF HubRow, PageRow
<1>2. next[0] = chain[0] /\ (p.seq <= h.seq => p.seq <= more.seq /\ next[p.seq] = chain[p.seq])
  BY <1>1 DEF Longer
<1> QED BY <1>2 DEF PageAt

LEMMA ChainGoesOn ==
  ASSUME NEW chain, NEW next, NEW top \in Nat, NEW t \in TraceRow,
         Longer(chain, next, top), ChainGrows(chain, top),
         next[top + 1].seq = t.run.seq, next[top + 1].text = t.run.text,
         next[top + 1].ended = t.run.ended, t.db.ended => t.run.ended,
         \A k \in 0 .. top : /\ chain[k].seq <= t.run.seq
                             /\ t.db.seq < chain[k].seq => chain[k].text = t.run.text
                             /\ t.db.seq < chain[k].seq /\ t.db.ended => chain[k].ended
  PROVE  ChainGrows(next, top + 1) /\ ChainMeets(next, top + 1, t)
<1>1. \A k \in 0 .. top + 1 : k \in 0 .. top \/ k = top + 1
  OBVIOUS
<1>2. \A k \in 0 .. top : next[k] = chain[k]
  BY DEF Longer
<1>3. ASSUME NEW j \in 0 .. top + 1, NEW k \in 0 .. top + 1, j <= k
      PROVE  next[j].seq <= next[k].seq
  <2>1. CASE k = top + 1
    <3>1. t.run.seq <= t.run.seq
      BY DEF TraceRow, Runs
    <3> QED BY <1>1, <1>2, <2>1, <3>1
  <2>2. CASE k # top + 1
    <3>1. k \in 0 .. top /\ j \in 0 .. top
      BY <1>3, <2>2
    <3> QED BY <1>2, <1>3, <3>1 DEF ChainGrows
  <2> QED BY <2>1, <2>2
<1>4. ChainGrows(next, top + 1)
  BY <1>3 DEF ChainGrows
<1>5. t.run.seq <= t.run.seq
  BY DEF TraceRow, Runs
<1>6. ASSUME NEW k \in 0 .. top + 1
      PROVE  /\ next[k].seq <= t.run.seq
             /\ t.db.seq < next[k].seq => next[k].text = t.run.text
             /\ t.db.seq < next[k].seq /\ t.db.ended => next[k].ended
  BY <1>1, <1>2, <1>5
<1> QED BY <1>4, <1>6 DEF ChainMeets

LEMMA EndsStand ==
  ASSUME NEW chain, NEW top, NEW sid, NEW base, NEW ended, NEW later, ended => later
  PROVE  Ends(chain, top, sid, base, ended) \subseteq Ends(chain, top, sid, base, later)
BY DEF Ends

\* A line that stays keeps what it holds when that still tells the run.
LEMMA LineWider ==
  ASSUME NEW chain, NEW next, NEW h \in HubRow, NEW more \in HubRow, NEW p, NEW q,
         NEW l \in LineRow, NEW m \in LineRow, NEW ended, NEW later,
         LineTells(chain, h, l, p, ended), l.pc # "closed",
         more.sid = h.sid, h.seq <= more.seq,
         Own(chain, h.seq, h.sid) \subseteq Own(next, more.seq, more.sid),
         Ends(chain, h.seq, h.sid, p.base, ended) \subseteq Ends(next, more.seq, more.sid, q.base, later),
         Opening(chain, h.seq, h.sid, p) \subseteq Opening(next, more.seq, more.sid, q),
         m.pc = l.pc, m.sid = l.sid, m.from = l.from, m.frames = l.frames, m.replay = l.replay,
         m.queue \in Seq(Own(next, more.seq, more.sid))
  PROVE  LineTells(next, more, m, q, later)
<1> DEFINE O == Own(chain, h.seq, h.sid)
           P == Own(next, more.seq, more.sid)
           E == Ends(chain, h.seq, h.sid, p.base, ended)
           F == Ends(next, more.seq, more.sid, q.base, later)
<1>1. /\ h.sid # 0 /\ l.sid = h.sid /\ l.from <= h.seq
      /\ l.replay \in Seq(O)
      /\ \/ l.frames \in Seq(O \cup E)
         \/ Len(l.frames) = 1 /\ l.frames[1] \in Opening(chain, h.seq, h.sid, p)
  BY DEF LineTells
<1>2. O \subseteq P /\ E \subseteq F /\ O \cup E \subseteq P \cup F
  OBVIOUS
<1>3. m.from <= more.seq
  <2>1. l.from \in Nat /\ h.seq \in Nat /\ more.seq \in Nat
    BY DEF HubRow, LineRow
  <2> QED BY <1>1, <2>1
<1> HIDE DEF O, P, E, F
<1>4. l.replay \in Seq(P)
  BY <1>1, <1>2, SeqWider
<1>5. l.frames \in Seq(O \cup E) => l.frames \in Seq(P \cup F)
  BY <1>2, SeqWider
<1>6. /\ m.pc # "closed" /\ more.sid # 0 /\ m.sid = more.sid
      /\ m.replay \in Seq(P)
      /\ \/ m.frames \in Seq(P \cup F)
         \/ Len(m.frames) = 1 /\ m.frames[1] \in Opening(next, more.seq, more.sid, q)
  BY <1>1, <1>4, <1>5
<1> QED BY <1>3, <1>6 DEF LineTells, P, F

\* The run goes on or ends, what is saved of it catches up, and nothing is told.
LEMMA TraceMoves ==
  ASSUME NEW chain, Life(chain), UNCHANGED <<hub, line, page>>,
         trace' \in TraceRow, recorder' \in RecorderRow, SavedFirst(trace, recorder.pc)',
         trace'.run.text = trace.run.text, trace.run.ended => trace'.run.ended,
         trace.run.seq <= trace'.run.seq, trace.run.seq <= trace'.db.seq
  PROVE  Life(chain)'
<1>1. /\ StreamTypeOK /\ HubTells(chain, hub, trace, page.base)
      /\ LineTells(chain, hub, line, page, trace.run.ended)
      /\ PageHas(page, trace) /\ PageAt(chain, hub, page) /\ chain \in [Nat -> Runs]
      /\ page.over => line.pc = "closed"
  BY DEF Life
<1>2. StreamTypeOK'
  BY <1>1 DEF StreamTypeOK
<1>3. /\ trace.run \in Runs /\ trace.db \in Runs /\ trace'.run \in Runs /\ trace'.db \in Runs
      /\ page.base \in Runs /\ hub \in HubRow /\ line \in LineRow /\ hub.seq \in Nat
  BY <1>1 DEF StreamTypeOK, TraceRow, PageRow, HubRow
<1>4. \A n \in Nat : n <= trace.run.seq => n <= trace'.run.seq /\ ~(trace'.db.seq < n)
  BY <1>3, RunFacts
<1>5. ASSUME hub.sid # 0 PROVE ChainMeets(chain, hub.seq, trace')
  <2>1. ChainMeets(chain, hub.seq, trace)
    BY <1>1, <1>5 DEF HubTells
  <2>2. ASSUME NEW k \in 0 .. hub.seq
        PROVE  chain[k].seq <= trace'.run.seq /\ ~(trace'.db.seq < chain[k].seq)
    <3>1. chain[k].seq \in Nat
      <4>1. k \in Nat
        BY <1>3
      <4>2. chain[k] \in Runs
        BY <1>1, <4>1
      <4> QED BY <4>2, RunFacts
    <3>2. chain[k].seq <= trace.run.seq
      BY <2>1 DEF ChainMeets
    <3> QED BY <1>4, <3>1, <3>2
  <2> QED BY <2>1, <2>2 DEF ChainMeets
<1>6. HubTells(chain, hub, trace, page.base)'
  <2>1. ASSUME hub.terminal # NoMessage
        PROVE  /\ trace.run.ended /\ trace'.run.ended
               /\ hub.terminal \in Own(chain, hub.seq, hub.sid)
                    \cup Ends(chain, hub.seq, hub.sid, page.base, trace'.run.ended)
    BY <1>1, <2>1, EndsStand DEF HubTells
  <2> QED BY <1>1, <1>5, <2>1 DEF HubTells
<1>7. LineTells(chain, hub, line, page, trace.run.ended)'
  <2>1. CASE line.pc = "closed"
    BY <1>1, <2>1 DEF LineTells
  <2>2. CASE line.pc # "closed"
    <3>1. Ends(chain, hub.seq, hub.sid, page.base, trace.run.ended)
            \subseteq Ends(chain, hub.seq, hub.sid, page.base, trace'.run.ended)
      BY EndsStand
    <3>2. line.queue \in Seq(Own(chain, hub.seq, hub.sid)) /\ hub.seq <= hub.seq
      BY <1>1, <1>3, <2>2 DEF LineTells
    <3>3. LineTells(chain, hub, line, page, trace'.run.ended)
      BY <1>1, <1>3, <2>2, <3>1, <3>2, LineWider
    <3> QED BY <3>3
  <2> QED BY <2>1, <2>2
<1>8. PageHas(page, trace')
  <2>1. ASSUME page.base.from = "recorder"
        PROVE  page.base.seq <= trace'.run.seq /\ ~(trace'.db.seq < page.base.seq)
    <3>1. page.base.seq \in Nat /\ page.base.seq <= trace.run.seq
      BY <1>1, <1>3, <2>1, RunFacts DEF PageHas
    <3> QED BY <1>4, <3>1
  <2> QED BY <1>1, <2>1 DEF PageHas
<1> QED BY <1>1, <1>2, <1>6, <1>7, <1>8 DEF Life

LEMMA TraceTyped ==
  ASSUME NEW t \in TraceRow
  PROVE  /\ t.run \in Runs /\ t.db \in Runs
         /\ t.run.text \in Nat /\ t.run.seq \in Nat /\ t.db.seq \in Nat
         /\ t.run.ended \in BOOLEAN /\ t.db.ended \in BOOLEAN
BY DEF TraceRow, Runs

LEMMA SavesKeep ==
  ASSUME NEW chain, Life(chain), StreamPersists \/ BoundarySaved
  PROVE  Life(chain)'
<1>1. /\ trace \in TraceRow /\ recorder \in RecorderRow
  BY DEF Life, StreamTypeOK
<1>2. /\ UNCHANGED <<hub, line, page>>
      /\ trace' = [trace EXCEPT !.db = trace.run]
      /\ recorder' = recorder \/ recorder' = [recorder EXCEPT !.pc = "publishing"]
  BY DEF StreamPersists, BoundarySaved
<1>3. /\ trace' \in TraceRow /\ trace'.run = trace.run /\ trace'.db = trace.run
  BY <1>1, <1>2 DEF TraceRow
<1>4. recorder' \in RecorderRow
  BY <1>1, <1>2 DEF RecorderRow
<1>5. trace.run.seq <= trace.run.seq
  BY <1>1, TraceTyped
<1>6. SavedFirst(trace, recorder.pc)'
  BY <1>3, <1>5 DEF SavedFirst
<1> QED BY <1>2, <1>3, <1>4, <1>5, <1>6, TraceMoves

LEMMA OpensKeep ==
  ASSUME NEW chain, Life(chain), BoundaryOpens
  PROVE  Life(chain)'
<1>1. /\ trace \in TraceRow /\ recorder \in RecorderRow /\ SavedFirst(trace, recorder.pc)
  BY DEF Life, StreamTypeOK
<1>2. /\ recorder.pc = "idle" /\ ~trace.run.ended /\ UNCHANGED <<hub, line, page>>
      /\ \/ trace' = [trace EXCEPT !.run.seq = @ + 1]
         \/ trace' = [trace EXCEPT !.run.seq = @ + 1, !.run.ended = TRUE]
         \/ trace' = [trace EXCEPT !.run.ended = TRUE]
      /\ recorder' = [recorder EXCEPT !.pc = "saving"] \/ recorder' = [recorder EXCEPT !.pc = "failing"]
  BY DEF BoundaryOpens
<1>3. recorder' \in RecorderRow /\ recorder'.pc \notin {"idle", "publishing"}
  BY <1>1, <1>2 DEF RecorderRow
<1>4. /\ trace' \in TraceRow /\ trace'.db = trace.db /\ trace'.run.text = trace.run.text
      /\ trace'.run.seq \in {trace.run.seq, trace.run.seq + 1}
  <2>1. CASE trace' = [trace EXCEPT !.run.seq = @ + 1]
    BY <1>1, <2>1 DEF TraceRow, Runs
  <2>2. CASE trace' = [trace EXCEPT !.run.seq = @ + 1, !.run.ended = TRUE]
    <3>1. PICK t : t = [trace EXCEPT !.run.seq = @ + 1]
      OBVIOUS
    <3>2. t \in TraceRow /\ t.db = trace.db /\ t.run.text = trace.run.text
          /\ t.run.seq = trace.run.seq + 1
      BY <1>1, <3>1 DEF TraceRow, Runs
    <3>3. trace' = [t EXCEPT !.run.ended = TRUE]
      BY <2>2, <3>1
    <3> QED BY <3>2, <3>3 DEF TraceRow, Runs
  <2>3. CASE trace' = [trace EXCEPT !.run.ended = TRUE]
    BY <1>1, <2>3 DEF TraceRow, Runs
  <2> QED BY <1>2, <2>1, <2>2, <2>3
<1>5. /\ trace.db.seq = trace.run.seq /\ ~trace.db.ended
  BY <1>1, <1>2 DEF SavedFirst
<1>6. trace.run.seq <= trace'.run.seq /\ trace.run.seq <= trace.run.seq
  BY <1>1, <1>4, TraceTyped
<1>7. SavedFirst(trace, recorder.pc)'
  BY <1>3, <1>4, <1>5, <1>6 DEF SavedFirst
<1> QED BY <1>2, <1>3, <1>4, <1>5, <1>6, <1>7, TraceMoves

LEMMA FailureKeeps ==
  ASSUME NEW chain, Life(chain), FailureSaved
  PROVE  Life(chain)'
<1>1. /\ trace \in TraceRow /\ recorder \in RecorderRow
  BY DEF Life, StreamTypeOK
<1> DEFINE failed == trace.run
<1>2. /\ UNCHANGED <<hub, line, page>>
      /\ trace' = [run |-> [failed EXCEPT !.seq = @ + 1], db |-> failed]
      /\ recorder' = [recorder EXCEPT !.pc = "saving"]
  BY DEF FailureSaved
<1>3. recorder' \in RecorderRow /\ recorder'.pc \notin {"idle", "publishing"}
  BY <1>1, <1>2 DEF RecorderRow
<1>4. failed \in Runs
  BY <1>1, TraceTyped
<1> HIDE DEF failed
<1>5. PICK r : r = [failed EXCEPT !.seq = @ + 1]
  OBVIOUS
<1>6. r \in Runs /\ r.text = failed.text /\ r.ended = failed.ended /\ r.seq = failed.seq + 1
  BY <1>4, <1>5 DEF Runs
<1>7. trace' = [run |-> r, db |-> failed]
  BY <1>2, <1>5
<1>8. trace' \in TraceRow /\ trace'.run = r /\ trace'.db = failed
  BY <1>4, <1>6, <1>7 DEF TraceRow
<1>9. failed.seq <= r.seq /\ failed.seq <= failed.seq
  BY <1>4, <1>6, RunFacts
<1>10. SavedFirst(trace, recorder.pc)'
  BY <1>3, <1>6, <1>8, <1>9 DEF SavedFirst
<1>11. /\ trace'.run.text = trace.run.text /\ (trace.run.ended => trace'.run.ended)
       /\ trace.run.seq <= trace'.run.seq /\ trace.run.seq <= trace'.db.seq
  BY <1>6, <1>8, <1>9 DEF failed
<1> QED BY <1>2, <1>3, <1>8, <1>10, <1>11, TraceMoves

\* The generation is forgotten, or nobody holds its line any more.
LEMMA HubGoes ==
  ASSUME NEW chain, Life(chain), UNCHANGED <<trace, page>>,
         recorder' \in RecorderRow, SavedFirst(trace, recorder.pc)',
         hub' \in {hub, NoStream}, line' = NoLine
  PROVE  Life(chain)'
<1>1. /\ StreamTypeOK /\ HubTells(chain, hub, trace, page.base)
      /\ PageHas(page, trace) /\ PageAt(chain, hub, page) /\ chain \in [Nat -> Runs]
  BY DEF Life
<1>2. StreamTypeOK'
  BY <1>1, EmptyRows DEF StreamTypeOK
<1>3. HubTells(chain, hub', trace, page.base) /\ PageAt(chain, hub', page)
  <2>1. CASE hub' = hub
    BY <1>1, <2>1
  <2>2. CASE hub' = NoStream
    BY <2>2, EmptyRows DEF HubTells, PageAt
  <2> QED BY <2>1, <2>2
<1>4. LineTells(chain, hub', NoLine, page, trace.run.ended) /\ NoLine.pc = "closed"
  BY EmptyRows DEF LineTells
<1> QED BY <1>1, <1>2, <1>3, <1>4 DEF Life

LEMMA ClosedLine ==
  ASSUME NEW chain, Life(chain), line.pc = "closed"
  PROVE  line = NoLine
BY DEF Life, LineTells

LEMMA SameHub ==
  ASSUME NEW g \in HubRow, NEW h \in HubRow,
         g.sid = h.sid, g.seq = h.seq, g.tracked = h.tracked, g.history = h.history,
         g.terminal = h.terminal
  PROVE  g = h
BY DEF HubRow

\* The run has ended and what was kept for a replay goes.
LEMMA ClearsKeep ==
  ASSUME NEW chain, Life(chain), UNCHANGED <<trace, line, page>>, trace.run.ended,
         recorder' \in RecorderRow, SavedFirst(trace, recorder.pc)',
         hub' = ReplayCleared(hub, Subscribed)
  PROVE  Life(chain)'
<1>1. CASE ~Subscribed
  <2>1. line.pc = "closed" /\ hub' = NoStream
    BY <1>1 DEF Subscribed, ReplayCleared
  <2> QED BY <2>1, ClosedLine, HubGoes
<1>2. CASE Subscribed
  <2>1. /\ StreamTypeOK /\ HubTells(chain, hub, trace, page.base)
        /\ LineTells(chain, hub, line, page, trace.run.ended) /\ (page.over => line.pc = "closed")
        /\ PageHas(page, trace) /\ PageAt(chain, hub, page) /\ chain \in [Nat -> Runs]
    BY DEF Life
  <2>2. hub \in HubRow /\ hub' = [hub EXCEPT !.tracked = FALSE, !.history = <<>>]
    BY <1>2, <2>1 DEF ReplayCleared, StreamTypeOK
  <2>3. /\ hub' \in HubRow /\ hub'.sid = hub.sid /\ hub'.seq = hub.seq /\ ~hub'.tracked
        /\ hub'.history = <<>> /\ hub'.terminal = hub.terminal
    <3>1. PICK none : none = <<>>
      OBVIOUS
    <3>2. none \in Seq(Messages)
      BY <3>1
    <3>3. hub' = [hub EXCEPT !.tracked = FALSE, !.history = none]
      BY <2>2, <3>1
    <3> QED BY <2>2, <3>1, <3>2, <3>3 DEF HubRow
  <2>4. StreamTypeOK'
    <3>1. trace' \in TraceRow /\ line' \in LineRow /\ page' \in PageRow
      BY <2>1 DEF StreamTypeOK
    <3> QED BY <2>3, <3>1 DEF StreamTypeOK
  <2>5. HubTells(chain, hub', trace, page.base)
    <3>1. ASSUME hub.sid = 0 PROVE hub' = NoStream
      <4>1. hub = NoStream
        BY <2>1, <3>1 DEF HubTells
      <4>2. /\ hub'.sid = NoStream.sid /\ hub'.seq = NoStream.seq
            /\ hub'.tracked = NoStream.tracked /\ hub'.history = NoStream.history
            /\ hub'.terminal = NoStream.terminal
        BY <2>2, <4>1, EmptyRows DEF HubRow
      <4> QED BY <2>3, <4>2, EmptyRows, SameHub
    <3>2. <<>> \in Seq(Own(chain, hub.seq, hub.sid))
      OBVIOUS
    <3> QED BY <2>1, <2>3, <3>1, <3>2 DEF HubTells
  <2>6. LineTells(chain, hub', line, page, trace.run.ended) /\ PageAt(chain, hub', page)
    BY <2>1, <2>3 DEF LineTells, PageAt
  <2> QED BY <2>1, <2>4, <2>5, <2>6 DEF Life
<1> QED BY <1>1, <1>2

\* A message goes out: to the replay, unless it is the last, and to the line.
LEMMA MessageGoes ==
  ASSUME NEW chain, Life(chain), hub.sid # 0, NEW next, Longer(chain, next, hub.seq),
         NEW m \in Own(next, hub.seq + 1, hub.sid), Publish(m), page' = page,
         trace' \in TraceRow, recorder' \in RecorderRow, SavedFirst(trace, recorder.pc)',
         next[hub.seq + 1].ended = trace.run.ended, trace'.run.ended = trace.run.ended,
         ChainGrows(next, hub.seq + 1), ChainMeets(next, hub.seq + 1, trace'), PageHas(page, trace'),
         hub' \in HubRow, hub'.sid = hub.sid, hub'.seq = hub.seq + 1,
         hub'.history \in {<<>>, Latest(Append(hub.history, m), HistorySize)},
         hub'.tracked \/ trace.run.ended,
         hub'.terminal # NoMessage => /\ hub'.terminal = m /\ m.seq = hub.seq + 1 /\ m.snapshot.ended
                                      /\ ~hub'.tracked /\ trace.run.ended
  PROVE  Life(next)'
<1>1. /\ StreamTypeOK /\ HubTells(chain, hub, trace, page.base)
      /\ LineTells(chain, hub, line, page, trace.run.ended) /\ (page.over => line.pc = "closed")
      /\ PageAt(chain, hub, page) /\ next \in [Nat -> Runs]
  BY DEF Life, Longer
<1>2. /\ hub \in HubRow /\ line \in LineRow /\ page \in PageRow /\ hub.seq \in Nat
      /\ hub.seq + 1 \in Nat /\ hub.seq <= hub.seq + 1
  BY <1>1 DEF StreamTypeOK, HubRow
<1> DEFINE P == Own(next, hub.seq + 1, hub.sid)
<1>3. Own(chain, hub.seq, hub.sid) \subseteq P
  BY <1>2, OwnGrows
<1>4. Ends(chain, hub.seq, hub.sid, page.base, trace.run.ended)
        \subseteq Ends(next, hub.seq + 1, hub.sid, page.base, trace.run.ended)
  <2>1. CASE trace.run.ended
    BY <1>2, <2>1, EndsGrow
  <2>2. CASE ~trace.run.ended
    BY <2>2 DEF Ends
  <2> QED BY <2>1, <2>2
<1>5. Opening(chain, hub.seq, hub.sid, page) \subseteq Opening(next, hub.seq + 1, hub.sid, page)
  BY <1>2, OpeningGrows
<1>6. ASSUME NEW q \in Seq(Own(chain, hub.seq, hub.sid)), NEW size \in Nat
      PROVE  Latest(Append(q, m), size) \in Seq(P)
  <2>1. m \in P
    OBVIOUS
  <2> HIDE DEF P
  <2>2. q \in Seq(P)
    BY <1>3, SeqWider
  <2>3. Append(q, m) \in Seq(P)
    BY <2>1, <2>2, AppendFacts
  <2> QED BY <2>3, LatestFacts
<1>7. m \in Messages /\ P \subseteq Messages
  BY DEF Own
<1>8. HubTells(next, hub', trace', page.base)
  <2>1. hub.history \in Seq(Own(chain, hub.seq, hub.sid)) /\ HistorySize \in Nat
    BY <1>1, StreamAssumption DEF HubTells
  <2>2. hub'.history \in Seq(P)
    <3>1. <<>> \in Seq(P)
      OBVIOUS
    <3>2. Latest(Append(hub.history, m), HistorySize) \in Seq(P)
      BY <1>6, <2>1
    <3> HIDE DEF P
    <3> QED BY <3>1, <3>2
  <2>3. hub'.sid # 0 /\ hub'.history \in Seq(Own(next, hub'.seq, hub'.sid))
    BY <2>2
  <2>4. hub'.tracked \/ trace'.run.ended
    OBVIOUS
  <2>5. ASSUME hub'.terminal # NoMessage
        PROVE  /\ ~hub'.tracked /\ trace'.run.ended
               /\ hub'.terminal.seq = hub'.seq /\ hub'.terminal.snapshot.ended
               /\ hub'.terminal \in Own(next, hub'.seq, hub'.sid)
    BY <2>5
  <2>6. ChainGrows(next, hub'.seq) /\ ChainMeets(next, hub'.seq, trace')
    OBVIOUS
  <2> HIDE DEF P
  <2> QED BY <2>3, <2>4, <2>5, <2>6 DEF HubTells
<1>9. line' \in LineRow /\ LineTells(next, hub', line', page, trace'.run.ended)
      /\ (page.over => line'.pc = "closed")
  <2>1. CASE line.pc = "closed"
    <3>1. line' = line
      BY <2>1 DEF Publish
    <3> QED BY <1>1, <1>2, <2>1, <3>1 DEF LineTells
  <2>2. CASE line.pc # "closed"
    <3> DEFINE q == Put(line.queue, m)
    <3>1. line.queue \in Seq(Own(chain, hub.seq, hub.sid)) /\ QueueSize \in Nat
      BY <1>1, <2>2, StreamAssumption DEF LineTells
    <3>2. q \in Seq(P)
      BY <1>6, <3>1 DEF Put
    <3>3. q \in Seq(Messages)
      <4> HIDE DEF P, q
      <4> QED BY <1>7, <3>2, SeqWider
    <3> HIDE DEF q
    <3>4. line' = [line EXCEPT !.queue = q]
      BY <2>2 DEF Publish, q
    <3>5. /\ line' \in LineRow /\ line'.pc = line.pc /\ line'.sid = line.sid /\ line'.from = line.from
          /\ line'.frames = line.frames /\ line'.replay = line.replay /\ line'.queue = q
      BY <1>2, <3>3, <3>4 DEF LineRow
    <3>6. LineTells(next, hub', line', page, trace'.run.ended)
      BY <1>1, <1>2, <1>3, <1>4, <1>5, <2>2, <3>2, <3>5, LineWider
    <3> QED BY <1>1, <2>2, <3>5, <3>6
  <2> QED BY <2>1, <2>2
<1>10. PageAt(next, hub', page)
  BY <1>1, <1>2, PageGoesOn
<1>11. StreamTypeOK'
  BY <1>1, <1>9 DEF StreamTypeOK
<1> QED BY <1>1, <1>8, <1>9, <1>10, <1>11 DEF Life

LEMMA PublishedRow ==
  ASSUME NEW h \in HubRow, NEW m \in Messages, NEW g, g = Published(h, m)
  PROVE  /\ g \in HubRow /\ g.sid = h.sid /\ g.seq = m.seq /\ g.tracked = h.tracked
         /\ g.history = Latest(Append(h.history, m), HistorySize) /\ g.terminal = h.terminal
<1>1. PICK q : q = Latest(Append(h.history, m), HistorySize)
  OBVIOUS
<1>2. q \in Seq(Messages)
  <2>1. h.history \in Seq(Messages)
    BY DEF HubRow
  <2>2. Append(h.history, m) \in Seq(Messages)
    BY <2>1, AppendFacts
  <2> QED BY <1>1, <2>2, LatestFacts, StreamAssumption
<1>3. m.seq \in Nat
  BY MessageFacts
<1>4. g = [h EXCEPT !.seq = m.seq, !.history = q]
  BY <1>1 DEF Published
<1> QED BY <1>1, <1>2, <1>3, <1>4 DEF HubRow

\* Whoever is told of a tracked run has not been told its end.
LEMMA TrackedFacts ==
  ASSUME NEW chain, Life(chain), hub.tracked
  PROVE  hub.sid # 0 /\ hub.terminal = NoMessage
BY EmptyRows DEF Life, HubTells

\* What the chain bounds once more, as ChainGoesOn wants it.
LEMMA ChainStands ==
  ASSUME NEW chain, Life(chain), hub.sid # 0
  PROVE  /\ ChainGrows(chain, hub.seq) /\ hub.seq \in Nat /\ chain[hub.seq].text = trace.run.text
         /\ \A k \in 0 .. hub.seq :
              /\ chain[k] \in Runs /\ chain[k].seq \in Nat
              /\ chain[k].seq <= trace.run.seq
              /\ trace.db.seq < chain[k].seq => chain[k].text = trace.run.text
              /\ trace.db.seq < chain[k].seq /\ trace.db.ended => chain[k].ended
<1>1. ChainGrows(chain, hub.seq) /\ ChainMeets(chain, hub.seq, trace) /\ chain \in [Nat -> Runs]
  BY DEF Life, HubTells
<1>2. hub.seq \in Nat
  BY DEF Life, StreamTypeOK, HubRow
<1>3. ASSUME NEW k \in 0 .. hub.seq PROVE chain[k] \in Runs /\ chain[k].seq \in Nat
  <2>1. k \in Nat
    BY <1>2
  <2>2. chain[k] \in Runs
    BY <1>1, <2>1
  <2> QED BY <2>2, RunFacts
<1> QED BY <1>1, <1>2, <1>3 DEF ChainMeets

\* publish_snapshot, by the recorder.
LEMMA SnapshotKeeps ==
  ASSUME NEW chain, Life(chain), PublishSnapshot(Snapshot(trace.run, "recorder")),
         UNCHANGED <<trace, page>>, recorder' \in RecorderRow, SavedFirst(trace, recorder.pc)'
  PROVE  StreamInv'
<1> DEFINE s == Snapshot(trace.run, "recorder")
           m == Checkpoint(hub.sid, hub.seq + 1, s)
<1>1. /\ trace \in TraceRow /\ hub \in HubRow /\ hub.sid \in Nat /\ hub.seq \in Nat /\ hub.seq + 1 \in Nat
      /\ hub.seq <= hub.seq + 1 /\ chain \in [Nat -> Runs]
  BY DEF Life, StreamTypeOK, HubRow
<1>2. /\ s \in Runs /\ s.text = trace.run.text /\ s.seq = trace.run.seq /\ s.ended = trace.run.ended
      /\ s.from = "recorder"
  BY <1>1, TraceTyped, RunFacts
<1>3. m \in Checkpoints /\ m \in Messages /\ m.kind = "checkpoint" /\ m.sid = hub.sid
      /\ m.seq = hub.seq + 1 /\ m.snapshot = s
  <2>1. PICK sid \in Nat : sid = hub.sid
    BY <1>1
  <2>2. PICK seq \in Nat : seq = hub.seq + 1
    BY <1>1
  <2>3. PICK r \in Runs : r = s
    BY <1>2
  <2>4. PICK n : n = Checkpoint(sid, seq, r)
    OBVIOUS
  <2>5. /\ n \in Checkpoints /\ n \in Messages /\ n.kind = "checkpoint"
        /\ n.sid = sid /\ n.seq = seq /\ n.snapshot = r
    BY <2>4, CheckpointFacts
  <2>6. m = n
    BY <2>1, <2>2, <2>3, <2>4
  <2> QED BY <2>1, <2>2, <2>3, <2>5, <2>6
<1>4. CASE hub.terminal # NoMessage \/ (~hub.tracked /\ s.ended)
  <2>1. trace.run.ended
    BY <1>2, <1>4 DEF Life, HubTells
  <2>2. hub' = ReplayCleared(hub, Subscribed) /\ line' = line
    BY <1>4 DEF PublishSnapshot
  <2>3. Life(chain)'
    BY <2>1, <2>2, ClearsKeep
  <2> QED BY <2>3 DEF StreamInv
<1>5. CASE hub.terminal = NoMessage /\ ~hub.tracked /\ ~s.ended
  <2>1. hub' = hub /\ line' = line
    BY <1>5 DEF PublishSnapshot
  <2>2. Life(chain)'
    BY <2>1 DEF Life, StreamTypeOK
  <2> QED BY <2>2 DEF StreamInv
<1>6. CASE hub.terminal = NoMessage /\ hub.tracked
  <2> DEFINE e == [Published(hub, m) EXCEPT !.terminal = IF s.ended THEN m ELSE @]
  <2>1. hub.sid # 0
    BY <1>6, TrackedFacts
  <2>2. /\ hub' = IF s.ended THEN ReplayCleared(e, Subscribed) ELSE e
        /\ Publish(m)
    BY <1>6 DEF PublishSnapshot
  <2>3. PICK g : g = Published(hub, m)
    OBVIOUS
  <2>4. /\ g \in HubRow /\ g.sid = hub.sid /\ g.seq = hub.seq + 1 /\ g.tracked = hub.tracked
        /\ g.history = Latest(Append(hub.history, m), HistorySize) /\ g.terminal = hub.terminal
    <3> HIDE DEF m
    <3> QED BY <1>1, <1>3, <2>3, PublishedRow
  <2>5. PICK f : f = e
    OBVIOUS
  <2>6. /\ f \in HubRow /\ f.sid = hub.sid /\ f.seq = hub.seq + 1 /\ f.tracked
        /\ f.history = Latest(Append(hub.history, m), HistorySize)
        /\ f.terminal = IF s.ended THEN m ELSE NoMessage
    <3>1. f = [g EXCEPT !.terminal = IF s.ended THEN m ELSE @]
      BY <2>3, <2>5
    <3> HIDE DEF m, s
    <3> QED BY <1>3, <1>6, <2>4, <3>1 DEF HubRow
  <2>7. PICK next : next = [chain EXCEPT ![hub.seq + 1] = s]
    OBVIOUS
  <2>8. Longer(chain, next, hub.seq) /\ next[hub.seq + 1] = s
    <3> HIDE DEF s
    <3> QED BY <1>1, <1>2, <2>7 DEF Longer
  <2> HIDE DEF m, s
  <2>9. m \in Own(next, hub.seq + 1, hub.sid)
    BY <1>1, <1>2, <1>3, <2>8 DEF Own
  <2>10. ChainGrows(next, hub.seq + 1) /\ ChainMeets(next, hub.seq + 1, trace)
    <3>1. trace.db.ended => trace.run.ended
      BY DEF Life, SavedFirst
    <3> QED BY <1>1, <1>2, <2>1, <2>8, <3>1, ChainStands, ChainGoesOn
  <2>11. CASE s.ended /\ ~Subscribed
    <3>1. hub' = NoStream /\ line' = line /\ line.pc = "closed"
      BY <2>2, <2>11 DEF ReplayCleared, Subscribed, Publish
    <3>2. Life(chain)'
      BY <3>1, ClosedLine, HubGoes
    <3> QED BY <3>2 DEF StreamInv
  <2>12. CASE ~(s.ended /\ ~Subscribed)
    <3>1. /\ hub' \in HubRow /\ hub'.sid = hub.sid /\ hub'.seq = hub.seq + 1
          /\ hub'.history \in {<<>>, Latest(Append(hub.history, m), HistorySize)}
          /\ hub'.tracked \/ s.ended
          /\ hub'.terminal # NoMessage => hub'.terminal = m /\ ~hub'.tracked /\ s.ended
      <4>1. CASE ~s.ended
        <5>1. hub' = f
          BY <2>2, <2>5, <4>1
        <5> QED BY <2>6, <4>1, <5>1
      <4>2. CASE s.ended
        <5>1. PICK none : none = <<>>
          OBVIOUS
        <5>2. none \in Seq(Messages)
          BY <5>1
        <5>3. hub' = [f EXCEPT !.tracked = FALSE, !.history = none]
          BY <2>2, <2>5, <2>12, <4>2, <5>1 DEF ReplayCleared
        <5>4. /\ hub' \in HubRow /\ hub'.sid = f.sid /\ hub'.seq = f.seq /\ ~hub'.tracked
              /\ hub'.history = none /\ hub'.terminal = f.terminal
          BY <2>6, <5>2, <5>3 DEF HubRow
        <5> QED BY <2>6, <4>2, <5>1, <5>4
      <4> QED BY <4>1, <4>2
    <3>2. PageHas(page, trace)
      BY DEF Life
    <3>3. Life(next)'
      BY <1>1, <1>2, <1>3, <2>1, <2>2, <2>8, <2>9, <2>10, <3>1, <3>2, MessageGoes
    <3> QED BY <3>3 DEF StreamInv
  <2> QED BY <2>11, <2>12
<1> QED BY <1>4, <1>5, <1>6

LEMMA TextKeeps ==
  ASSUME NEW chain, Life(chain), TextArrives
  PROVE  StreamInv'
<1>1. /\ recorder.pc = "idle" /\ ~trace.run.ended /\ UNCHANGED <<recorder, page>>
      /\ trace' = [trace EXCEPT !.run.text = @ + 1]
  BY DEF TextArrives
<1>2. /\ trace \in TraceRow /\ hub \in HubRow /\ hub.sid \in Nat /\ hub.seq \in Nat /\ hub.seq + 1 \in Nat
      /\ hub.seq <= hub.seq + 1 /\ chain \in [Nat -> Runs] /\ page \in PageRow
      /\ SavedFirst(trace, recorder.pc) /\ PageHas(page, trace) /\ recorder \in RecorderRow
  BY DEF Life, StreamTypeOK, HubRow, RecorderRow
<1>3. /\ trace' \in TraceRow /\ trace'.db = trace.db /\ trace'.run.text = trace.run.text + 1
      /\ trace'.run.seq = trace.run.seq /\ trace'.run.ended = trace.run.ended
  <2>1. PICK r : r = [trace.run EXCEPT !.text = @ + 1]
    OBVIOUS
  <2>2. trace.run \in Runs
    BY <1>2, TraceTyped
  <2>3. r \in Runs /\ r.text = trace.run.text + 1 /\ r.seq = trace.run.seq /\ r.ended = trace.run.ended
    BY <2>1, <2>2 DEF Runs
  <2>4. trace' = [trace EXCEPT !.run = r]
    BY <1>1, <2>1
  <2> QED BY <1>2, <2>3, <2>4 DEF TraceRow
<1>4. trace.db.seq = trace.run.seq /\ ~trace.db.ended
  BY <1>1, <1>2 DEF SavedFirst
<1>5. \A n \in Nat : n <= trace.run.seq => ~(trace.db.seq < n)
  BY <1>2, <1>4, TraceTyped
<1>6. SavedFirst(trace, recorder.pc)'
  <2>1. trace.run.seq <= trace.run.seq
    BY <1>2, TraceTyped
  <2> QED BY <1>3, <1>4, <2>1 DEF SavedFirst
<1>7. PageHas(page, trace')
  <2>1. page.base.seq \in Nat
    BY <1>2, RunFacts DEF PageRow
  <2> QED BY <1>2, <1>3, <1>5, <2>1 DEF PageHas
<1>8. CASE ~hub.tracked
  <2>1. hub' = hub /\ line' = line
    BY <1>8 DEF TextArrives
  <2>2. hub.sid = 0 /\ hub = NoStream /\ line.pc = "closed"
    BY <1>1, <1>8 DEF Life, HubTells, LineTells
  <2>3. StreamTypeOK'
    BY <1>1, <1>2, <1>3, <2>1 DEF Life, StreamTypeOK
  <2>4. HubTells(chain, hub, trace', page.base) /\ PageAt(chain, hub, page)
    BY <2>2, EmptyRows DEF HubTells, PageAt
  <2>5. LineTells(chain, hub, line, page, trace'.run.ended)
    BY <2>2, ClosedLine DEF LineTells
  <2>6. Life(chain)'
    BY <1>1, <1>2, <1>6, <1>7, <2>1, <2>2, <2>3, <2>4, <2>5 DEF Life
  <2> QED BY <2>6 DEF StreamInv
<1>9. CASE hub.tracked
  <2> DEFINE m == Delta(hub.sid, hub.seq + 1, trace.run.text + 1)
  <2>1. hub' = Published(hub, m) /\ Publish(m)
    BY <1>9 DEF TextArrives
  <2>2. hub.sid # 0 /\ hub.terminal = NoMessage
    BY <1>9, TrackedFacts
  <2>3. m \in Messages /\ m.kind = "delta" /\ m.sid = hub.sid /\ m.seq = hub.seq + 1
        /\ m.piece = trace.run.text + 1
    <3>1. trace.run.text + 1 \in Nat
      BY <1>2, TraceTyped
    <3>2. m = Delta(hub.sid, hub.seq + 1, trace.run.text + 1)
      OBVIOUS
    <3>3. hub.sid \in Nat /\ hub.seq + 1 \in Nat
      BY <1>2
    <3> HIDE DEF m
    <3>4. PICK i : i = hub.sid
      OBVIOUS
    <3>5. PICK j : j = hub.seq + 1
      OBVIOUS
    <3>6. PICK k : k = trace.run.text + 1
      OBVIOUS
    <3>7. i \in Nat /\ j \in Nat /\ k \in Nat /\ m = Delta(i, j, k)
      BY <3>1, <3>2, <3>3, <3>4, <3>5, <3>6
    <3>8. m \in Messages /\ m.kind = "delta" /\ m.sid = i /\ m.seq = j /\ m.piece = k
      BY <3>7, DeltaFacts
    <3> QED BY <3>4, <3>5, <3>6, <3>8
  <2> HIDE DEF m
  <2>4. PICK r : r = trace'.run
    OBVIOUS
  <2>5. r \in Runs
    BY <1>3, <2>4, TraceTyped
  <2>6. PICK next : next = [chain EXCEPT ![hub.seq + 1] = r]
    OBVIOUS
  <2>7. Longer(chain, next, hub.seq) /\ next[hub.seq + 1] = r
    BY <1>2, <2>5, <2>6 DEF Longer
  <2>8. m \in Own(next, hub.seq + 1, hub.sid)
    <3>1. next[m.seq].text = trace.run.text + 1
      BY <1>3, <2>3, <2>4, <2>7
    <3>2. m.seq # 0 /\ m.seq - 1 = hub.seq
      BY <1>2, <2>3
    <3>3. next[m.seq - 1].text = trace.run.text
      BY <1>2, <2>2, <2>7, <3>2, ChainStands DEF Longer
    <3> QED BY <1>2, <2>3, <3>1, <3>2, <3>3 DEF Own
  <2>9. ChainGrows(next, hub.seq + 1) /\ ChainMeets(next, hub.seq + 1, trace')
    <3>1. ASSUME NEW k \in 0 .. hub.seq
          PROVE  chain[k].seq <= trace'.run.seq /\ ~(trace'.db.seq < chain[k].seq)
      BY <1>3, <1>5, <2>2, ChainStands
    <3>2. trace'.db.ended => trace'.run.ended
      BY <1>3, <1>4
    <3>3. ChainGrows(chain, hub.seq)
      BY <2>2, ChainStands
    <3>4. /\ next[hub.seq + 1].seq = trace'.run.seq /\ next[hub.seq + 1].text = trace'.run.text
          /\ next[hub.seq + 1].ended = trace'.run.ended
      BY <2>4, <2>7
    <3> QED BY <1>2, <1>3, <2>7, <3>1, <3>2, <3>3, <3>4, ChainGoesOn
  <2>10. PICK g : g = Published(hub, m)
    OBVIOUS
  <2>11. /\ g \in HubRow /\ g.sid = hub.sid /\ g.seq = hub.seq + 1 /\ g.tracked
         /\ g.history = Latest(Append(hub.history, m), HistorySize) /\ g.terminal = NoMessage
    BY <1>2, <1>9, <2>2, <2>3, <2>10, PublishedRow
  <2>12. /\ hub' \in HubRow /\ hub'.sid = hub.sid /\ hub'.seq = hub.seq + 1 /\ hub'.tracked
         /\ hub'.history \in {<<>>, Latest(Append(hub.history, m), HistorySize)}
         /\ hub'.terminal = NoMessage
    BY <2>1, <2>10, <2>11
  <2>13. next[hub.seq + 1].ended = trace.run.ended /\ recorder' \in RecorderRow
    BY <1>1, <1>2, <1>3, <2>4, <2>7
  <2>14. Life(next)'
    BY <1>1, <1>3, <1>6, <1>7, <2>1, <2>2, <2>7, <2>8, <2>9, <2>12, <2>13, MessageGoes
  <2> QED BY <2>14 DEF StreamInv
<1> QED BY <1>8, <1>9

LEMMA RecorderRests ==
  ASSUME NEW chain, Life(chain)
  PROVE  recorder \in RecorderRow /\ SavedFirst(trace, recorder.pc)
BY DEF Life, StreamTypeOK

LEMMA NothingMoves ==
  ASSUME NEW chain, Life(chain), UNCHANGED <<trace, hub, line, page>>,
         recorder' \in RecorderRow, SavedFirst(trace, recorder.pc)'
  PROVE  Life(chain)'
BY DEF Life, StreamTypeOK

LEMMA RecorderKeeps ==
  ASSUME NEW chain, Life(chain), BoundaryPublishes \/ FlushFires
  PROVE  StreamInv'
<1>1. recorder \in RecorderRow /\ SavedFirst(trace, recorder.pc)
  BY RecorderRests
<1>2. trace' = trace /\ page' = page
  BY DEF BoundaryPublishes, FlushFires
<1>3. \/ recorder.pc = "publishing" /\ \E f \in BOOLEAN : recorder' = [pc |-> "idle", flush |-> f]
      \/ recorder.pc = "publishing" /\ recorder' = [recorder EXCEPT !.pc = "idle"]
      \/ recorder' = [recorder EXCEPT !.flush = FALSE]
  <2>1. CASE FlushFires
    BY <2>1 DEF FlushFires
  <2>2. CASE BoundaryPublishes
    <3>1. (recorder.flush /\ ~trace.run.ended) \in BOOLEAN /\ TRUE \in BOOLEAN
      OBVIOUS
    <3> QED BY <2>2, <3>1 DEF BoundaryPublishes
  <2> QED BY <2>1, <2>2
<1>4. recorder' \in RecorderRow /\ recorder.pc \in {recorder'.pc, "publishing"}
      /\ (recorder'.pc = recorder.pc \/ recorder'.pc = "idle")
  <2>1. CASE recorder.pc = "publishing" /\ \E f \in BOOLEAN : recorder' = [pc |-> "idle", flush |-> f]
    BY <2>1 DEF RecorderRow
  <2>2. CASE recorder.pc = "publishing" /\ recorder' = [recorder EXCEPT !.pc = "idle"]
    BY <1>1, <2>2 DEF RecorderRow
  <2>3. CASE recorder' = [recorder EXCEPT !.flush = FALSE]
    BY <1>1, <2>3 DEF RecorderRow
  <2> QED BY <1>3, <2>1, <2>2, <2>3
<1>5. SavedFirst(trace, recorder.pc)'
  BY <1>1, <1>2, <1>4 DEF SavedFirst
<1>6. CASE PublishSnapshot(Snapshot(trace.run, "recorder"))
  BY <1>2, <1>4, <1>5, <1>6, SnapshotKeeps
<1>7. CASE hub' = hub /\ line' = line
  <2>1. Life(chain)'
    BY <1>2, <1>4, <1>5, <1>7, NothingMoves
  <2> QED BY <2>1 DEF StreamInv
<1> QED BY <1>6, <1>7 DEF BoundaryPublishes, FlushFires

\* Lines end, and subscriptions; with the last of them the generation may go.
LEMMA LinesEnd ==
  ASSUME NEW chain, Life(chain), Evicted \/ LineBreaks \/ ReadFails \/ ServerCloses
  PROVE  Life(chain)'
<1>1. UNCHANGED <<trace, recorder, page>>
  BY DEF Evicted, LineBreaks, ReadFails, ServerCloses
<1>2. recorder' \in RecorderRow /\ SavedFirst(trace, recorder.pc)'
  BY <1>1, RecorderRests
<1>3. ASSUME NEW left, NEW clear, hub' = Unsubscribed(left, clear)
      PROVE  hub' \in {hub, NoStream} /\ (left => hub' = hub)
  BY <1>3 DEF Unsubscribed
<1>4. CASE Evicted
  <2>1. hub' = NoStream /\ line' = line /\ line.pc = "closed"
    BY <1>4 DEF Evicted, Subscribed
  <2> QED BY <1>1, <1>2, <2>1, ClosedLine, HubGoes
<1>5. CASE LineBreaks
  BY <1>1, <1>2, <1>5, HubGoes DEF LineBreaks
<1>6. CASE ReadFails
  <2>1. hub' \in {hub, NoStream} /\ line' = NoLine
    BY <1>3, <1>6 DEF ReadFails
  <2> QED BY <1>1, <1>2, <2>1, HubGoes
<1>7. CASE ServerCloses
  <2>1. CASE line' = NoLine /\ hub' = Unsubscribed(trouble.stale > 0, FALSE)
    BY <1>1, <1>2, <1>3, <2>1, HubGoes
  <2>2. CASE line' = line /\ hub' = Unsubscribed(line.pc # "closed" \/ trouble.stale > 1, FALSE)
    <3>1. CASE line.pc = "closed"
      <4>1. line' = NoLine
        BY <2>2, <3>1, ClosedLine
      <4> QED BY <1>1, <1>2, <1>3, <2>2, <4>1, HubGoes
    <3>2. CASE line.pc # "closed"
      <4>1. hub' = hub
        BY <1>3, <2>2, <3>2
      <4> QED BY <1>1, <1>2, <2>2, <4>1, NothingMoves
    <3> QED BY <3>1, <3>2
  <2> QED BY <1>7, <2>1, <2>2 DEF ServerCloses
<1> QED BY <1>4, <1>5, <1>6, <1>7

LEMMA ReplayFacts ==
  ASSUME NEW S, hub.history \in Seq(S), hub.seq \in Nat, page.seq \in Nat, NEW sid
  PROVE  Replay(sid) \in Seq(S)
<1> DEFINE missed == hub.seq - page.seq
<1>1. CASE missed > 0
  <2>1. missed \in Nat
    BY <1>1
  <2> HIDE DEF missed
  <2>2. Latest(hub.history, missed) \in Seq(S)
    BY <2>1, LatestFacts
  <2>3. <<>> \in Seq(S)
    OBVIOUS
  <2> QED BY <2>2, <2>3 DEF Replay, missed
<1>2. CASE ~(missed > 0)
  BY <1>2 DEF Replay
<1> QED BY <1>1, <1>2

LEMMA ConnectsKeeps ==
  ASSUME NEW chain, Life(chain), Connects
  PROVE  StreamInv'
<1>1. /\ StreamTypeOK /\ HubTells(chain, hub, trace, page.base)
      /\ PageHas(page, trace) /\ PageAt(chain, hub, page) /\ chain \in [Nat -> Runs]
  BY DEF Life
<1>2. /\ trace \in TraceRow /\ hub \in HubRow /\ hub.sid \in Nat /\ hub.seq \in Nat /\ hub.seq <= hub.seq
      /\ page \in PageRow /\ page.seq \in Nat /\ page.sid \in Nat
      /\ hub.history \in Seq(Messages)
  BY <1>1 DEF StreamTypeOK, HubRow, PageRow
<1>3. PICK sid : sid = IF hub.sid # 0 THEN hub.sid ELSE IF page.sid = 1 THEN 2 ELSE 1
  OBVIOUS
<1>4. sid \in Nat /\ sid # 0 /\ (hub.sid # 0 => sid = hub.sid) /\ (hub.sid = 0 => sid # page.sid)
  BY <1>2, <1>3
<1>5. /\ line.pc = "closed" /\ ~page.over /\ UNCHANGED <<trace, recorder, page>>
      /\ hub' = [hub EXCEPT !.sid = sid, !.tracked = @ \/ hub.terminal = NoMessage]
      /\ line' = [NoLine EXCEPT !.pc = "reading", !.sid = sid, !.from = hub.seq, !.replay = Replay(sid)]
  BY <1>3 DEF Connects
<1>6. recorder' \in RecorderRow /\ SavedFirst(trace, recorder.pc)'
  BY <1>5, RecorderRests
<1>7. /\ hub' \in HubRow /\ hub'.sid = sid /\ hub'.seq = hub.seq /\ hub'.history = hub.history
      /\ hub'.terminal = hub.terminal /\ (hub'.tracked <=> hub.tracked \/ hub.terminal = NoMessage)
  <2>1. (hub.tracked \/ hub.terminal = NoMessage) \in BOOLEAN
    OBVIOUS
  <2>2. PICK tracked \in BOOLEAN : tracked <=> hub.tracked \/ hub.terminal = NoMessage
    BY <2>1
  <2>3. hub.tracked \in BOOLEAN
    BY <1>2 DEF HubRow
  <2>4. tracked = (hub.tracked \/ hub.terminal = NoMessage)
    BY <2>2, <2>3
  <2>5. hub' = [hub EXCEPT !.sid = sid, !.tracked = tracked]
    BY <1>5, <2>4
  <2> QED BY <1>2, <1>4, <2>2, <2>5 DEF HubRow
<1>8. /\ line' \in LineRow /\ line'.pc = "reading" /\ line'.sid = sid /\ line'.from = hub.seq
      /\ line'.replay = Replay(sid) /\ line'.queue = <<>> /\ line'.frames = <<>>
  <2>1. Replay(sid) \in Seq(Messages)
    BY <1>2, ReplayFacts
  <2>2. PICK r : r = Replay(sid)
    OBVIOUS
  <2>3. PICK from : from = hub.seq
    OBVIOUS
  <2>4. line' = [NoLine EXCEPT !.pc = "reading", !.sid = sid, !.from = from, !.replay = r]
    BY <1>5, <2>2, <2>3
  <2>5. PICK l : l = line'
    OBVIOUS
  <2>6. /\ l \in LineRow /\ l.pc = "reading" /\ l.sid = sid /\ l.from = from /\ l.replay = r
        /\ l.queue = <<>> /\ l.frames = <<>>
    <3>1. from \in Nat /\ r \in Seq(Messages) /\ sid \in Nat
      BY <1>2, <1>4, <2>1, <2>2, <2>3
    <3>2. PICK n : n = NoLine
      OBVIOUS
    <3>3. n \in LineRow /\ n.queue = <<>> /\ n.frames = <<>>
      BY <3>2, EmptyRows
    <3>4. l = [n EXCEPT !.pc = "reading", !.sid = sid, !.from = from, !.replay = r]
      BY <2>4, <2>5, <3>2
    <3> QED BY <3>1, <3>3, <3>4 DEF LineRow
  <2> QED BY <2>2, <2>3, <2>5, <2>6
<1>9. StreamTypeOK'
  <2>1. trace' \in TraceRow /\ page' \in PageRow
    BY <1>1, <1>5 DEF StreamTypeOK
  <2> QED BY <1>6, <1>7, <1>8, <2>1 DEF StreamTypeOK
<1>10. ASSUME NEW next, hub'.history \in Seq(Own(next, hub'.seq, hub'.sid)),
              line'.replay \in Seq(Own(next, hub'.seq, hub'.sid))
       PROVE  LineTells(next, hub', line', page, trace.run.ended)
  <2> DEFINE O == Own(next, hub'.seq, hub'.sid)
             E == Ends(next, hub'.seq, hub'.sid, page.base, trace.run.ended)
  <2>1. <<>> \in Seq(O) /\ <<>> \in Seq(O \cup E)
    OBVIOUS
  <2>2. line'.queue \in Seq(O) /\ line'.frames \in Seq(O \cup E) /\ line'.replay \in Seq(O)
    BY <1>8, <1>10, <2>1
  <2>3. line'.pc # "closed" /\ hub'.sid # 0 /\ line'.sid = hub'.sid /\ line'.from <= hub'.seq
    BY <1>2, <1>4, <1>7, <1>8
  <2> QED BY <2>2, <2>3 DEF LineTells
<1>11. CASE hub.sid # 0
  <2>1. hub'.sid = hub.sid
    BY <1>4, <1>7, <1>11
  <2>2. hub.history \in Seq(Own(chain, hub.seq, hub.sid))
    BY <1>1, <1>11 DEF HubTells
  <2>3. Replay(sid) \in Seq(Own(chain, hub.seq, hub.sid))
    BY <1>2, <2>2, ReplayFacts
  <2>4. LineTells(chain, hub', line', page, trace.run.ended)
    BY <1>7, <1>8, <1>10, <2>1, <2>2, <2>3
  <2>5. HubTells(chain, hub', trace, page.base) /\ PageAt(chain, hub', page)
    BY <1>1, <1>7, <1>11, <2>1 DEF HubTells, PageAt
  <2>6. Life(chain)'
    BY <1>1, <1>5, <1>6, <1>9, <2>4, <2>5 DEF Life
  <2> QED BY <2>6 DEF StreamInv
<1>12. CASE hub.sid = 0
  <2>1. hub = NoStream
    BY <1>1, <1>12 DEF HubTells
  <2>2. /\ hub'.seq = 0 /\ hub'.tracked /\ hub'.history = <<>> /\ hub'.terminal = NoMessage
        /\ hub'.sid # 0 /\ hub'.sid # page.sid
    BY <1>4, <1>7, <1>12, <2>1, EmptyRows
  <2>3. PICK r : r = trace.run
    OBVIOUS
  <2>4. PICK next : next = [n \in Nat |-> r]
    OBVIOUS
  <2>5. next \in [Nat -> Runs] /\ next[0] = r /\ r \in Runs /\ r.seq \in Nat /\ r.seq <= r.seq
        /\ trace.run.text \in Nat
    <3>1. r \in Runs
      BY <1>2, <2>3, TraceTyped
    <3> QED BY <1>2, <2>4, <3>1, RunFacts, TraceTyped
  <2>6. ChainGrows(next, 0) /\ ChainMeets(next, 0, trace)
    <3>1. \A k \in 0 .. 0 : next[k] = r
      BY <2>5
    <3>2. (trace.db.ended => trace.run.ended)
      BY RecorderRests DEF SavedFirst
    <3> QED BY <2>3, <2>5, <3>1, <3>2 DEF ChainGrows, ChainMeets
  <2>7. <<>> \in Seq(Own(next, hub'.seq, hub'.sid))
    OBVIOUS
  <2>8. line'.replay \in Seq(Own(next, hub'.seq, hub'.sid))
    <3>1. hub.history \in Seq(Own(next, hub'.seq, hub'.sid))
      BY <1>7, <2>2, <2>7
    <3>2. PICK S : S = Own(next, hub'.seq, hub'.sid)
      OBVIOUS
    <3>3. Replay(sid) \in Seq(S)
      BY <1>2, <3>1, <3>2, ReplayFacts
    <3> QED BY <1>8, <3>2, <3>3
  <2>9. LineTells(next, hub', line', page, trace.run.ended)
    BY <1>10, <2>2, <2>7, <2>8
  <2>10. HubTells(next, hub', trace, page.base)
    BY <2>2, <2>6, <2>7 DEF HubTells
  <2>11. PageAt(next, hub', page)
    BY <1>1, <2>2, <2>3, <2>5 DEF PageAt, PageHas
  <2>12. Life(next)'
    BY <1>1, <1>5, <1>6, <1>9, <2>5, <2>9, <2>10, <2>11 DEF Life
  <2> QED BY <2>12 DEF StreamInv
<1> QED BY <1>11, <1>12

\* The end of the run is told and kept, whoever told it first.
LEMMA FinishKeeps ==
  ASSUME NEW chain, Life(chain), line.pc = "reading", trace.run.ended,
         UNCHANGED <<trace, recorder, page>>,
         NEW terminal \in Checkpoints, terminal.snapshot.ended, hub.seq <= terminal.seq,
         line' = [line EXCEPT !.pc = "finishing", !.frames = Append(line.replay, terminal)],
         hub' = ReplayCleared([hub EXCEPT !.seq = terminal.seq, !.terminal = terminal], TRUE),
         NEW next \in [Nat -> Runs],
         Own(chain, hub.seq, hub.sid) \subseteq Own(next, terminal.seq, hub.sid),
         terminal \in Own(next, terminal.seq, hub.sid)
                      \cup Ends(next, terminal.seq, hub.sid, page.base, trace.run.ended),
         ChainGrows(next, terminal.seq), ChainMeets(next, terminal.seq, trace),
         \A h \in HubRow : h.sid = hub.sid /\ h.seq = terminal.seq => PageAt(next, h, page)
  PROVE  Life(next)'
<1>1. /\ StreamTypeOK /\ HubTells(chain, hub, trace, page.base)
      /\ LineTells(chain, hub, line, page, trace.run.ended) /\ (page.over => line.pc = "closed")
      /\ PageHas(page, trace)
  BY DEF Life
<1>2. /\ hub \in HubRow /\ line \in LineRow /\ hub.seq \in Nat /\ line.from \in Nat
      /\ hub.sid # 0 /\ line.sid = hub.sid /\ line.from <= hub.seq
      /\ line.queue \in Seq(Own(chain, hub.seq, hub.sid))
      /\ line.replay \in Seq(Own(chain, hub.seq, hub.sid))
  BY <1>1 DEF StreamTypeOK, HubRow, LineRow, LineTells
<1>3. terminal \in Messages /\ terminal.seq \in Nat /\ terminal # NoMessage
  BY MessageFacts
<1>4. /\ hub' \in HubRow /\ hub'.sid = hub.sid /\ hub'.seq = terminal.seq /\ ~hub'.tracked
      /\ hub'.history = <<>> /\ hub'.terminal = terminal
  <2>1. PICK none : none = <<>>
    OBVIOUS
  <2>2. none \in Seq(Messages)
    BY <2>1
  <2>3. PICK g : g = [hub EXCEPT !.seq = terminal.seq, !.terminal = terminal]
    OBVIOUS
  <2>4. /\ g \in HubRow /\ g.sid = hub.sid /\ g.seq = terminal.seq /\ g.terminal = terminal
    BY <1>2, <1>3, <2>3 DEF HubRow
  <2>5. hub' = [g EXCEPT !.tracked = FALSE, !.history = none]
    BY <2>1, <2>3 DEF ReplayCleared
  <2> QED BY <2>1, <2>2, <2>4, <2>5 DEF HubRow
<1> DEFINE O == Own(next, terminal.seq, hub.sid)
           E == Ends(next, terminal.seq, hub.sid, page.base, trace.run.ended)
           frames == Append(line.replay, terminal)
<1>5. line.queue \in Seq(O) /\ line.replay \in Seq(O) /\ frames \in Seq(O \cup E)
  <2>1. terminal \in O \cup E /\ Own(chain, hub.seq, hub.sid) \subseteq O /\ O \subseteq O \cup E
    OBVIOUS
  <2> HIDE DEF O, E
  <2>2. line.queue \in Seq(O) /\ line.replay \in Seq(O)
    BY <1>2, <2>1, SeqWider
  <2>3. line.replay \in Seq(O \cup E)
    BY <2>1, <2>2, SeqWider
  <2> QED BY <2>1, <2>2, <2>3, AppendFacts
<1>6. frames \in Seq(Messages)
  <2>1. PICK replay : replay = line.replay
    OBVIOUS
  <2>2. replay \in Seq(Messages)
    BY <1>2, <2>1 DEF LineRow
  <2>3. Append(replay, terminal) \in Seq(Messages)
    BY <1>3, <2>2, AppendFacts
  <2> QED BY <2>1, <2>3
<1>7. /\ line' \in LineRow /\ line'.pc = "finishing" /\ line'.sid = line.sid /\ line'.from = line.from
      /\ line'.queue = line.queue /\ line'.replay = line.replay /\ line'.frames = frames
  <2> HIDE DEF frames
  <2>1. line' = [line EXCEPT !.pc = "finishing", !.frames = frames]
    BY DEF frames
  <2> QED BY <1>2, <1>6, <2>1 DEF LineRow
<1>8. LineTells(next, hub', line', page, trace.run.ended)
  <2>1. /\ hub'.sid # 0 /\ line'.sid = hub'.sid /\ line'.from <= hub'.seq
    <3>1. line.from <= terminal.seq
      BY <1>2, <1>3
    <3>2. hub'.sid = hub.sid /\ hub'.seq = terminal.seq /\ line'.sid = line.sid /\ line'.from = line.from
      BY <1>4, <1>7
    <3> HIDE DEF frames, O, E
    <3> QED BY <1>2, <3>1, <3>2
  <2>2. /\ line'.queue \in Seq(Own(next, hub'.seq, hub'.sid))
        /\ line'.replay \in Seq(Own(next, hub'.seq, hub'.sid))
        /\ line'.frames \in Seq(Own(next, hub'.seq, hub'.sid)
                                \cup Ends(next, hub'.seq, hub'.sid, page.base, trace.run.ended))
    BY <1>4, <1>5, <1>7
  <2> QED BY <1>7, <2>1, <2>2 DEF LineTells
<1>9. HubTells(next, hub', trace, page.base)
  <2>1. <<>> \in Seq(Own(next, hub'.seq, hub'.sid))
    OBVIOUS
  <2>2. hub'.terminal \in Own(next, hub'.seq, hub'.sid)
                          \cup Ends(next, hub'.seq, hub'.sid, page.base, trace.run.ended)
    BY <1>4
  <2>3. ChainGrows(next, hub'.seq) /\ ChainMeets(next, hub'.seq, trace)
    BY <1>4
  <2> QED BY <1>2, <1>4, <2>1, <2>2, <2>3 DEF HubTells
<1>10. StreamTypeOK'
  <2>1. trace' \in TraceRow /\ page' \in PageRow
    BY <1>1 DEF StreamTypeOK
  <2>2. recorder' \in RecorderRow
    BY RecorderRests
  <2> QED BY <1>4, <1>7, <2>1, <2>2 DEF StreamTypeOK
<1>11. PageAt(next, hub', page)
  BY <1>4
<1>12. SavedFirst(trace, recorder.pc)'
  BY RecorderRests
<1>13. page.over => FALSE
  BY <1>1
<1> QED BY <1>1, <1>8, <1>9, <1>10, <1>11, <1>12, <1>13 DEF Life

LEMMA ReadsRunKeeps ==
  ASSUME NEW chain, Life(chain), ReadsRun
  PROVE  StreamInv'
<1>1. /\ StreamTypeOK /\ HubTells(chain, hub, trace, page.base)
      /\ LineTells(chain, hub, line, page, trace.run.ended) /\ (page.over => line.pc = "closed")
      /\ PageHas(page, trace) /\ PageAt(chain, hub, page) /\ chain \in [Nat -> Runs]
      /\ SavedFirst(trace, recorder.pc)
  BY DEF Life
<1>2. /\ trace \in TraceRow /\ hub \in HubRow /\ line \in LineRow /\ page \in PageRow
      /\ hub.seq \in Nat /\ hub.sid \in Nat /\ line.from \in Nat
      /\ hub.seq + 1 \in Nat /\ hub.seq <= hub.seq + 1 /\ hub.seq <= hub.seq
  BY <1>1 DEF StreamTypeOK, HubRow, LineRow
<1>3. PICK s : s = Snapshot(trace.db, "db")
  OBVIOUS
<1>4. /\ s \in Runs /\ s.text = trace.db.text /\ s.seq = trace.db.seq /\ s.ended = trace.db.ended
      /\ s.from = "db"
  BY <1>2, <1>3, TraceTyped, RunFacts
<1>5. /\ line.pc = "reading" /\ UNCHANGED <<trace, recorder, page>>
  BY DEF ReadsRun
<1>6. /\ hub.sid # 0 /\ line.sid = hub.sid /\ line.from <= hub.seq
      /\ line.replay \in Seq(Own(chain, hub.seq, hub.sid)) /\ line.queue \in Seq(Own(chain, hub.seq, hub.sid))
  BY <1>1, <1>5 DEF LineTells
<1>7. CASE s.ended
  <2>1. trace.run.ended /\ trace.db.text = trace.run.text
    BY <1>1, <1>4, <1>7 DEF SavedFirst
  <2>2. PICK terminal : terminal = IF hub.terminal # NoMessage THEN hub.terminal
                                   ELSE Checkpoint(hub.sid, hub.seq + 1, s)
    OBVIOUS
  <2>3. /\ line' = [line EXCEPT !.pc = "finishing", !.frames = Append(line.replay, terminal)]
        /\ hub' = ReplayCleared([hub EXCEPT !.seq = terminal.seq, !.terminal = terminal], TRUE)
    BY <1>3, <1>7, <2>2 DEF ReadsRun
  <2>4. CASE hub.terminal # NoMessage
    <3>1. /\ terminal \in Checkpoints /\ terminal.snapshot.ended /\ terminal.seq = hub.seq
          /\ terminal \in Own(chain, hub.seq, hub.sid)
                          \cup Ends(chain, hub.seq, hub.sid, page.base, trace.run.ended)
      BY <1>1, <1>2, <2>2, <2>4 DEF HubTells, HubRow
    <3>2. ChainGrows(chain, hub.seq) /\ ChainMeets(chain, hub.seq, trace)
      BY <1>1, <1>6 DEF HubTells
    <3>3. \A h \in HubRow : h.sid = hub.sid /\ h.seq = hub.seq => PageAt(chain, h, page)
      BY <1>1 DEF PageAt
    <3>4. Life(chain)'
      BY <1>1, <1>2, <1>5, <2>1, <2>3, <3>1, <3>2, <3>3, FinishKeeps
    <3> QED BY <3>4 DEF StreamInv
  <2>5. CASE hub.terminal = NoMessage
    <3>1. PICK top : top = hub.seq + 1
      OBVIOUS
    <3>2. top \in Nat /\ hub.seq <= top
      BY <1>2, <3>1
    <3>3. terminal = Checkpoint(hub.sid, top, s)
      BY <2>2, <2>5, <3>1
    <3>4. /\ terminal \in Checkpoints /\ terminal.sid = hub.sid /\ terminal.seq = top
          /\ terminal.snapshot = s
      BY <1>2, <1>4, <3>2, <3>3, CheckpointFacts
    <3>5. PICK r : r = trace.run
      OBVIOUS
    <3>6. PICK next : next = [chain EXCEPT ![top] = r]
      OBVIOUS
    <3>7. next \in [Nat -> Runs] /\ Longer(chain, next, hub.seq) /\ next[top] = r /\ r \in Runs
      <4>1. r \in Runs
        BY <1>2, <3>5, TraceTyped
      <4> QED BY <1>1, <1>2, <3>1, <3>2, <3>6, <4>1 DEF Longer
    <3>8. ChainGrows(next, top) /\ ChainMeets(next, top, trace)
      BY <1>2, <1>6, <2>1, <3>1, <3>5, <3>7, ChainStands, ChainGoesOn
    <3>9. Own(chain, hub.seq, hub.sid) \subseteq Own(next, top, hub.sid)
      BY <3>2, <3>7, OwnGrows
    <3>10. terminal \in Ends(next, top, hub.sid, page.base, trace.run.ended)
      <4>1. \A k \in 0 .. top : /\ s.seq < next[k].seq => next[k].text = next[top].text
                                /\ s.seq < next[k].seq => next[k].ended
        BY <1>4, <1>7, <3>8 DEF ChainMeets
      <4>2. top <= top
        BY <3>2
      <4>3. terminal \in Reads(next, top, hub.sid)
        BY <1>4, <3>4, <4>1, <4>2 DEF Reads
      <4>4. page.base.from = "recorder" /\ s.seq < page.base.seq => page.base.ended
        BY <1>1, <1>4, <1>7 DEF PageHas
      <4> QED BY <1>7, <2>1, <3>4, <4>1, <4>3, <4>4 DEF Ends
    <3>11. \A h \in HubRow : h.sid = hub.sid /\ h.seq = top => PageAt(next, h, page)
      BY <1>1, <1>2, <3>2, <3>7, PageGoesOn
    <3>12. Life(next)'
      BY <1>4, <1>5, <1>7, <2>1, <2>3, <3>2, <3>4, <3>7, <3>8, <3>9, <3>10, <3>11, FinishKeeps
    <3> QED BY <3>12 DEF StreamInv
  <2> QED BY <2>4, <2>5
<1>8. CASE ~s.ended
  <2>1. PICK m : m = Checkpoint(line.sid, line.from, s)
    OBVIOUS
  <2>2. PICK frames : frames = IF line.replay # <<>> THEN line.replay ELSE <<m>>
    OBVIOUS
  <2>3. hub' = hub /\ line' = [line EXCEPT !.pc = "open", !.frames = frames]
    BY <1>3, <1>8, <2>1, <2>2 DEF ReadsRun
  <2>4. /\ m \in Checkpoints /\ m \in Messages /\ m.sid = hub.sid /\ m.seq = line.from /\ m.snapshot = s
    BY <1>2, <1>4, <1>6, <2>1, CheckpointFacts
  <2>5. m \in Opening(chain, hub.seq, hub.sid, page)
    <3>1. /\ ChainGrows(chain, hub.seq) /\ ChainMeets(chain, hub.seq, trace)
      BY <1>1, <1>6 DEF HubTells
    <3>2. ASSUME NEW k \in 0 .. line.from, s.seq < chain[k].seq
          PROVE  chain[k].text = trace.run.text /\ chain[line.from].text = trace.run.text
      <4>1. k \in 0 .. hub.seq /\ line.from \in 0 .. hub.seq /\ k <= line.from
        BY <1>2, <1>6
      <4>2. chain[k].seq \in Nat /\ chain[line.from].seq \in Nat /\ s.seq \in Nat
        BY <1>4, <1>6, <4>1, ChainStands, RunFacts
      <4>3. s.seq < chain[line.from].seq
        <5>1. chain[k].seq <= chain[line.from].seq
          BY <3>1, <4>1 DEF ChainGrows
        <5> QED BY <3>2, <4>2, <5>1
      <4> QED BY <1>4, <3>1, <3>2, <4>1, <4>3 DEF ChainMeets
    <3>3. m \in Reads(chain, hub.seq, hub.sid)
      <4>1. \A k \in 0 .. m.seq : m.snapshot.seq < chain[k].seq => chain[k].text = chain[m.seq].text
        BY <2>4, <3>2
      <4> QED BY <1>4, <1>6, <2>4, <4>1 DEF Reads
    <3>4. ASSUME page.base.from = "recorder", s.seq < page.base.seq, page.sid # hub.sid
          PROVE  Have(page) = chain[m.seq].text
      <4>1. Have(page) = trace.run.text
        BY <1>1, <1>4, <3>4 DEF PageHas
      <4>2. page.base.seq <= chain[0].seq
        BY <1>1, <1>6, <3>4 DEF PageAt
      <4>3. 0 \in 0 .. line.from /\ 0 \in 0 .. hub.seq
        BY <1>2
      <4>4. s.seq < chain[0].seq
        <5>1. chain[0].seq \in Nat /\ s.seq \in Nat /\ page.base.seq \in Nat
          <6>1. chain[0].seq \in Nat
            BY <1>6, <4>3, ChainStands
          <6>2. page.base \in Runs
            BY <1>2 DEF PageRow
          <6> QED BY <1>4, <6>1, <6>2, RunFacts
        <5> QED BY <3>4, <4>2, <5>1
      <4> QED BY <2>4, <3>2, <4>1, <4>3, <4>4
    <3> QED BY <1>8, <2>4, <3>3, <3>4 DEF Opening
  <2>6. frames \in Seq(Messages)
    <3>1. line.replay \in Seq(Messages)
      BY <1>2 DEF LineRow
    <3> QED BY <2>2, <2>4, <3>1
  <2>7. /\ line' \in LineRow /\ line'.pc = "open" /\ line'.sid = line.sid /\ line'.from = line.from
        /\ line'.queue = line.queue /\ line'.replay = line.replay /\ line'.frames = frames
    BY <1>2, <2>3, <2>6 DEF LineRow
  <2>8. \/ frames \in Seq(Own(chain, hub.seq, hub.sid)
                          \cup Ends(chain, hub.seq, hub.sid, page.base, trace.run.ended))
        \/ Len(frames) = 1 /\ frames[1] \in Opening(chain, hub.seq, hub.sid, page)
    <3>1. CASE line.replay # <<>>
      BY <1>6, <2>2, <3>1, SeqWider
    <3>2. CASE line.replay = <<>>
      BY <2>2, <2>5, <3>2
    <3> QED BY <3>1, <3>2
  <2>9. LineTells(chain, hub, line', page, trace.run.ended)
    BY <1>6, <2>7, <2>8 DEF LineTells
  <2>10. StreamTypeOK'
    BY <1>1, <1>5, <2>3, <2>7 DEF StreamTypeOK
  <2>11. ~page.over
    BY <1>1, <1>5
  <2>12. Life(chain)'
    BY <1>1, <1>5, <2>3, <2>9, <2>10, <2>11 DEF Life
  <2> QED BY <2>12 DEF StreamInv
<1> QED BY <1>7, <1>8

\* The page's base changes: an end that was read still finds who is past it told.
LEMMA EndsMeet ==
  ASSUME NEW chain, NEW top, NEW sid, NEW base, NEW more, NEW ended,
         \/ more.from = "db"
         \/ more = base
         \/ \E k \in 0 .. top : more.seq = chain[k].seq /\ more.ended = chain[k].ended
  PROVE  Ends(chain, top, sid, base, ended) \subseteq Ends(chain, top, sid, more, ended)
<1> SUFFICES ASSUME NEW m \in Ends(chain, top, sid, base, ended)
             PROVE  m \in Ends(chain, top, sid, more, ended)
  OBVIOUS
<1>1. /\ m \in Reads(chain, top, sid) /\ m.snapshot.ended /\ ended
      /\ \A k \in 0 .. top : m.snapshot.seq < chain[k].seq => chain[k].ended
      /\ base.from = "recorder" /\ m.snapshot.seq < base.seq => base.ended
  BY DEF Ends
<1>2. more.from = "recorder" /\ m.snapshot.seq < more.seq => more.ended
  BY <1>1
<1> QED BY <1>1, <1>2 DEF Ends

LEMMA PageMoves ==
  ASSUME NEW chain, Life(chain), UNCHANGED <<trace, recorder, hub>>,
         page' \in PageRow, line' \in LineRow,
         LineTells(chain, hub, line', page', trace.run.ended), page'.over => line'.pc = "closed",
         PageHas(page', trace), PageAt(chain, hub, page'),
         Ends(chain, hub.seq, hub.sid, page.base, trace.run.ended)
           \subseteq Ends(chain, hub.seq, hub.sid, page'.base, trace.run.ended)
  PROVE  Life(chain)'
<1>1. HubTells(chain, hub, trace, page'.base)
  BY DEF Life, HubTells
<1>2. StreamTypeOK'
  BY DEF Life, StreamTypeOK
<1>3. SavedFirst(trace, recorder.pc)' /\ chain \in [Nat -> Runs]
  BY DEF Life
<1> QED BY <1>1, <1>2, <1>3 DEF Life

LEMMA RefetchKeeps ==
  ASSUME NEW chain, Life(chain), Refetches
  PROVE  Life(chain)'
<1>1. /\ trace \in TraceRow /\ page \in PageRow /\ line \in LineRow /\ hub \in HubRow
      /\ LineTells(chain, hub, line, page, trace.run.ended) /\ (page.over => line.pc = "closed")
      /\ hub.seq \in Nat /\ hub.seq <= hub.seq
  BY DEF Life, StreamTypeOK, HubRow
<1>2. PICK s : s = Snapshot(trace.db, "db")
  OBVIOUS
<1>3. s \in Runs /\ s.from = "db"
  BY <1>1, <1>2, TraceTyped, RunFacts
<1>4. PICK none : none = <<>>
  OBVIOUS
<1>5. none \in Seq(Nat)
  BY <1>4
<1>6. UNCHANGED <<trace, recorder, hub, line>> /\ page' = [page EXCEPT !.base = s, !.live = none]
  BY <1>2, <1>4 DEF Refetches
<1>7. page' \in PageRow /\ page'.base = s /\ page'.over = page.over /\ page'.sid = page.sid
  BY <1>1, <1>3, <1>5, <1>6 DEF PageRow
<1>8. Ends(chain, hub.seq, hub.sid, page.base, trace.run.ended)
        \subseteq Ends(chain, hub.seq, hub.sid, page'.base, trace.run.ended)
  BY <1>3, <1>7, EndsMeet
<1>9. Opening(chain, hub.seq, hub.sid, page) \subseteq Opening(chain, hub.seq, hub.sid, page')
  BY <1>3, <1>7 DEF Opening
<1>10. LineTells(chain, hub, line, page', trace.run.ended)
  <2>1. CASE line.pc = "closed"
    BY <1>1, <2>1 DEF LineTells
  <2>2. CASE line.pc # "closed"
    <3>1. line.queue \in Seq(Own(chain, hub.seq, hub.sid))
      BY <1>1, <2>2 DEF LineTells
    <3> QED BY <1>1, <1>8, <1>9, <2>2, <3>1, LineWider
  <2> QED BY <2>1, <2>2
<1>11. PageHas(page', trace) /\ PageAt(chain, hub, page')
  BY <1>3, <1>7 DEF PageHas, PageAt
<1> QED BY <1>1, <1>6, <1>7, <1>8, <1>10, <1>11, PageMoves

\* What a page becomes.
Becomes(chain, p) ==
  /\ p \in PageRow /\ PageHas(p, trace) /\ PageAt(chain, hub, p)
  /\ Ends(chain, hub.seq, hub.sid, page.base, trace.run.ended)
       \subseteq Ends(chain, hub.seq, hub.sid, p.base, trace.run.ended)

LEMMA BecomesStale ==
  ASSUME NEW chain, NEW p \in PageRow, p.base.from = "db"
  PROVE  Becomes(chain, p)
<1>1. PageHas(p, trace) /\ PageAt(chain, hub, p)
  BY DEF PageHas, PageAt
<1>2. Ends(chain, hub.seq, hub.sid, page.base, trace.run.ended)
        \subseteq Ends(chain, hub.seq, hub.sid, p.base, trace.run.ended)
  BY EndsMeet
<1> QED BY <1>1, <1>2 DEF Becomes

LEMMA LineFacts ==
  ASSUME NEW chain, Life(chain), line.pc # "closed"
  PROVE  /\ trace \in TraceRow /\ page \in PageRow /\ page.base \in Runs /\ page.live \in Seq(Nat)
         /\ page.sid \in Nat /\ page.seq \in Nat
         /\ hub.seq \in Nat /\ hub.sid # 0 /\ ~page.over /\ hub \in HubRow /\ line \in LineRow
         /\ PageHas(page, trace) /\ PageAt(chain, hub, page)
         /\ page.base.from = "recorder" => ~page.base.ended
         /\ ChainGrows(chain, hub.seq) /\ ChainMeets(chain, hub.seq, trace)
         /\ \A k \in 0 .. hub.seq : chain[k] \in Runs /\ chain[k].seq \in Nat
<1>1. /\ StreamTypeOK /\ HubTells(chain, hub, trace, page.base)
      /\ LineTells(chain, hub, line, page, trace.run.ended) /\ (page.over => line.pc = "closed")
      /\ PageHas(page, trace) /\ PageAt(chain, hub, page)
  BY DEF Life
<1>2. hub.sid # 0 /\ ~page.over
  BY <1>1 DEF LineTells
<1>3. /\ trace \in TraceRow /\ page \in PageRow /\ page.base \in Runs /\ page.live \in Seq(Nat)
      /\ page.sid \in Nat /\ page.seq \in Nat /\ hub.seq \in Nat /\ hub \in HubRow /\ line \in LineRow
  BY <1>1 DEF StreamTypeOK, PageRow, HubRow
<1>4. page.base.from = "recorder" => ~page.base.ended
  BY <1>1, <1>2 DEF PageHas
<1>5. ChainGrows(chain, hub.seq) /\ ChainMeets(chain, hub.seq, trace)
  BY <1>1, <1>2 DEF HubTells
<1> QED BY <1>1, <1>2, <1>3, <1>4, <1>5, ChainStands

\* The next piece of text.
LEMMA DeltaBecomes ==
  ASSUME NEW chain, Life(chain), line.pc # "closed", NEW m \in Own(chain, hub.seq, hub.sid),
         m.kind = "delta", m.sid = page.sid, m.seq = page.seq + 1,
         NEW live, live = Append(page.live, m.piece),
         page' = [page EXCEPT !.seq = m.seq, !.live = live]
  PROVE  Becomes(chain, page') /\ page'.over = page.over
<1>1. /\ m \in Messages /\ m.sid = hub.sid /\ m.seq \in Nat /\ m.piece \in Nat /\ m.seq <= hub.seq
      /\ chain[m.seq].text = chain[m.seq - 1].text + 1 /\ chain[m.seq].text = m.piece
  BY MessageFacts DEF Own
<1>2. /\ page \in PageRow /\ page.live \in Seq(Nat) /\ page.seq \in Nat /\ page.base \in Runs
      /\ hub.seq \in Nat /\ hub.sid # 0 /\ trace \in TraceRow
      /\ PageHas(page, trace) /\ PageAt(chain, hub, page)
      /\ ChainGrows(chain, hub.seq) /\ ChainMeets(chain, hub.seq, trace)
  BY LineFacts
<1>4. /\ live \in Seq(Nat) /\ Len(live) = Len(page.live) + 1 /\ live[Len(page.live) + 1] = m.piece
      /\ \A j \in 1 .. Len(page.live) : live[j] = page.live[j]
      /\ Len(page.live) \in Nat
  BY <1>1, <1>2, AppendFacts
<1>6. /\ page' \in PageRow /\ page'.base = page.base /\ page'.sid = page.sid /\ page'.seq = m.seq
      /\ page'.live = live /\ page'.over = page.over
  BY <1>1, <1>2, <1>4 DEF PageRow
<1>7. CASE page.base.from = "recorder"
  <2>1. /\ page.base.seq <= chain[page.seq].seq /\ Have(page) = chain[page.seq].text
    BY <1>1, <1>2, <1>7 DEF PageAt
  <2>2. page.seq \in 0 .. hub.seq /\ m.seq \in 0 .. hub.seq /\ page.seq <= m.seq /\ m.seq - 1 = page.seq
    BY <1>1, <1>2
  <2>3. chain[page.seq].seq <= chain[m.seq].seq
    BY <1>2, <2>2 DEF ChainGrows
  <2>4. chain[page.seq].seq \in Nat /\ chain[m.seq].seq \in Nat /\ page.base.seq \in Nat
        /\ page.base.text \in Nat /\ trace.db.seq \in Nat
    BY <1>2, <2>2, LineFacts, RunFacts, TraceTyped
  <2>5. page.base.seq <= chain[m.seq].seq
    BY <2>1, <2>3, <2>4
  <2>6. /\ Have(page') = chain[m.seq].text
        /\ m.piece = page.base.text + (Len(page.live) + 1)
    <3>1. page.base.text + Len(page.live) = chain[page.seq].text
      BY <2>1 DEF Have
    <3>2. chain[m.seq].text = chain[page.seq].text + 1
      BY <1>1, <2>2
    <3>3. (page.base.text + Len(page.live)) + 1 = page.base.text + (Len(page.live) + 1)
      <4>1. \A b, n \in Nat : (b + n) + 1 = b + (n + 1)
        OBVIOUS
      <4>2. page.base.text \in Nat /\ Len(page.live) \in Nat
        BY <1>4, <2>4
      <4> QED BY <4>1, <4>2
    <3>4. chain[m.seq].text = page.base.text + (Len(page.live) + 1)
      BY <3>1, <3>2, <3>3
    <3>5. Have(page') = page.base.text + (Len(page.live) + 1)
      BY <1>4, <1>6 DEF Have
    <3> QED BY <1>1, <3>4, <3>5
  <2>7. trace.db.seq < page.base.seq => trace.db.seq < chain[m.seq].seq
    BY <2>4, <2>5
  <2>8. trace.db.seq < chain[m.seq].seq => chain[m.seq].text = trace.run.text
    BY <1>2, <2>2 DEF ChainMeets
  <2>9. ASSUME NEW j \in 1 .. Len(live) PROVE live[j] = page.base.text + j
    <3>1. CASE j = Len(page.live) + 1
      BY <1>4, <2>6, <3>1
    <3>2. CASE j # Len(page.live) + 1
      <4>1. j \in 1 .. Len(page.live)
        BY <1>4, <3>2
      <4> QED BY <1>2, <1>4, <1>7, <4>1 DEF PageHas
    <3> QED BY <3>1, <3>2
  <2>10. PageHas(page', trace)
    BY <1>2, <1>6, <1>7, <2>6, <2>7, <2>8, <2>9 DEF PageHas
  <2>11. PageAt(chain, hub, page')
    BY <1>1, <1>6, <1>7, <2>5, <2>6 DEF PageAt
  <2> QED BY <1>6, <2>10, <2>11 DEF Becomes
<1>8. CASE page.base.from # "recorder"
  <2>1. page'.base.from = "db"
    BY <1>2, <1>6, <1>8, RunFacts
  <2> QED BY <1>6, <2>1, BecomesStale
<1> QED BY <1>7, <1>8

\* A checkpoint of the recorder's, not behind the cursor.
LEMMA CheckpointBecomes ==
  ASSUME NEW chain, Life(chain), line.pc # "closed", NEW m \in Own(chain, hub.seq, hub.sid),
         m.kind = "checkpoint", ~(m.sid = page.sid /\ m.seq < page.seq),
         page' = Applied([page EXCEPT !.sid = m.sid, !.seq = m.seq], m.snapshot)
  PROVE  Becomes(chain, page')
<1> DEFINE s == m.snapshot
<1>1. /\ m \in Messages /\ m.sid = hub.sid /\ m.sid \in Nat /\ m.seq \in Nat /\ m.seq <= hub.seq
      /\ s \in Runs /\ s.from = "recorder" /\ s.text = chain[m.seq].text
      /\ s.seq = chain[m.seq].seq /\ s.ended = chain[m.seq].ended
  BY MessageFacts DEF Own
<1> HIDE DEF s
<1>2. /\ page \in PageRow /\ page.live \in Seq(Nat) /\ page.seq \in Nat /\ page.base \in Runs
      /\ hub.seq \in Nat /\ hub.sid # 0 /\ trace \in TraceRow
      /\ PageHas(page, trace) /\ PageAt(chain, hub, page)
      /\ ChainGrows(chain, hub.seq) /\ ChainMeets(chain, hub.seq, trace)
  BY LineFacts
<1>3. PICK p : p = [page EXCEPT !.sid = m.sid, !.seq = m.seq]
  OBVIOUS
<1>4. p \in PageRow /\ p.sid = m.sid /\ p.seq = m.seq /\ p.base = page.base
  BY <1>1, <1>2, <1>3 DEF PageRow
<1>5. page' = Applied(p, s)
  BY <1>3 DEF s
<1>6. CASE s.seq < page.base.seq
  <2>1. page' = p
    BY <1>4, <1>5, <1>6 DEF Applied
  <2>2. page.base.from # "recorder"
    <3> SUFFICES ASSUME page.base.from = "recorder" PROVE FALSE
      OBVIOUS
    <3>1. 0 \in 0 .. hub.seq /\ m.seq \in 0 .. hub.seq /\ 0 <= m.seq
      BY <1>1, <1>2
    <3>2. \E k \in 0 .. hub.seq : k <= m.seq /\ page.base.seq <= chain[k].seq
      <4>1. CASE page.sid = hub.sid
        <5>1. page.seq <= m.seq /\ page.seq \in 0 .. hub.seq
          BY <1>1, <1>2, <4>1
        <5> QED BY <1>2, <4>1, <5>1 DEF PageAt
      <4>2. CASE page.sid # hub.sid
        BY <1>2, <3>1, <4>2 DEF PageAt
      <4> QED BY <4>1, <4>2
    <3>3. PICK k \in 0 .. hub.seq : k <= m.seq /\ page.base.seq <= chain[k].seq
      BY <3>2
    <3>4. chain[k].seq <= chain[m.seq].seq
      BY <1>2, <3>1, <3>3 DEF ChainGrows
    <3>5. chain[k].seq \in Nat /\ chain[m.seq].seq \in Nat /\ page.base.seq \in Nat /\ s.seq \in Nat
      BY <1>1, <1>2, <3>1, LineFacts, RunFacts
    <3> QED BY <1>1, <1>6, <3>3, <3>4, <3>5
  <2>3. page'.base.from = "db"
    BY <1>2, <1>4, <2>1, <2>2, RunFacts
  <2> QED BY <1>4, <2>1, <2>3, BecomesStale
<1>7. CASE ~(s.seq < page.base.seq)
  <2>1. PICK none : none = <<>>
    OBVIOUS
  <2>2. none \in Seq(Nat) /\ Len(none) = 0
    BY <2>1
  <2>3. page' = [p EXCEPT !.base = s, !.live = none, !.over = s.ended]
    BY <1>4, <1>5, <1>7, <2>1 DEF Applied
  <2>4. s.ended \in BOOLEAN /\ s.text \in Nat /\ s.seq \in Nat /\ s.seq <= s.seq
    BY <1>1, RunFacts
  <2>5. /\ page' \in PageRow /\ page'.base = s /\ page'.live = none /\ page'.over = s.ended
        /\ page'.sid = m.sid /\ page'.seq = m.seq
    BY <1>1, <1>4, <2>2, <2>3, <2>4 DEF PageRow
  <2>6. Have(page') = chain[m.seq].text
    BY <1>1, <2>2, <2>4, <2>5 DEF Have
  <2>7. m.seq \in 0 .. hub.seq
    BY <1>1, <1>2
  <2>8. /\ s.seq <= trace.run.seq
        /\ trace.db.seq < s.seq => Have(page') = trace.run.text
        /\ trace.db.seq < s.seq /\ trace.db.ended => s.ended
    BY <1>1, <1>2, <2>6, <2>7 DEF ChainMeets
  <2>9. PageHas(page', trace)
    BY <2>2, <2>5, <2>8 DEF PageHas
  <2>10. PageAt(chain, hub, page')
    BY <1>1, <2>4, <2>5, <2>6 DEF PageAt
  <2>11. Ends(chain, hub.seq, hub.sid, page.base, trace.run.ended)
          \subseteq Ends(chain, hub.seq, hub.sid, page'.base, trace.run.ended)
    BY <1>1, <2>5, <2>7, EndsMeet
  <2> QED BY <2>5, <2>9, <2>10, <2>11 DEF Becomes
<1> QED BY <1>6, <1>7

\* A checkpoint that was read, at the opening of a connection or as its end.
LEMMA ReadBecomes ==
  ASSUME NEW chain, Life(chain), line.pc # "closed",
         NEW m \in Ends(chain, hub.seq, hub.sid, page.base, trace.run.ended)
                   \cup Opening(chain, hub.seq, hub.sid, page),
         ~(m.sid = page.sid /\ m.seq < page.seq),
         page' = Applied([page EXCEPT !.sid = m.sid, !.seq = m.seq], m.snapshot)
  PROVE  Becomes(chain, page')
<1> DEFINE s == m.snapshot
<1>1. /\ m \in Reads(chain, hub.seq, hub.sid)
      /\ page.base.from = "recorder" /\ s.seq < page.base.seq =>
           \/ page.base.ended
           \/ page.sid # hub.sid => Have(page) = chain[m.seq].text
  BY DEF Ends, Opening
<1>2. /\ m \in Checkpoints /\ m.sid = hub.sid /\ m.sid \in Nat /\ m.seq \in Nat /\ m.seq <= hub.seq
      /\ s \in Runs /\ s.from = "db"
      /\ \A k \in 0 .. m.seq : s.seq < chain[k].seq => chain[k].text = chain[m.seq].text
  BY <1>1, MessageFacts DEF Reads
<1> HIDE DEF s
<1>3. /\ page \in PageRow /\ page.live \in Seq(Nat) /\ page.seq \in Nat /\ page.base \in Runs
      /\ hub.seq \in Nat /\ hub.sid # 0 /\ trace \in TraceRow
      /\ PageHas(page, trace) /\ PageAt(chain, hub, page)
      /\ page.base.from = "recorder" => ~page.base.ended
      /\ ChainGrows(chain, hub.seq) /\ ChainMeets(chain, hub.seq, trace)
  BY LineFacts
<1>4. PICK p : p = [page EXCEPT !.sid = m.sid, !.seq = m.seq]
  OBVIOUS
<1>5. /\ p \in PageRow /\ p.sid = m.sid /\ p.seq = m.seq /\ p.base = page.base /\ p.live = page.live
      /\ p.over = page.over
  BY <1>2, <1>3, <1>4 DEF PageRow
<1>6. page' = Applied(p, s)
  BY <1>4 DEF s
<1>7. CASE ~(s.seq < page.base.seq)
  <2>1. PICK none : none = <<>>
    OBVIOUS
  <2>2. none \in Seq(Nat) /\ s.ended \in BOOLEAN
    BY <1>2, <2>1, RunFacts
  <2>3. page' = [p EXCEPT !.base = s, !.live = none, !.over = s.ended]
    BY <1>5, <1>6, <1>7, <2>1 DEF Applied
  <2>4. page' \in PageRow /\ page'.base = s
    BY <1>2, <1>5, <2>2, <2>3 DEF PageRow
  <2> QED BY <1>2, <2>4, BecomesStale
<1>8. CASE s.seq < page.base.seq
  <2>1. page' = p
    BY <1>5, <1>6, <1>8 DEF Applied
  <2>2. CASE page.base.from # "recorder"
    <3>1. page'.base.from = "db"
      BY <1>3, <1>5, <2>1, <2>2, RunFacts
    <3> QED BY <1>5, <2>1, <3>1, BecomesStale
  <2>3. CASE page.base.from = "recorder"
    <3>1. 0 \in 0 .. hub.seq /\ m.seq \in 0 .. hub.seq /\ 0 \in 0 .. m.seq
      BY <1>2, <1>3
    <3>2. PICK k \in 0 .. m.seq : /\ page.base.seq <= chain[k].seq
                                  /\ Have(page) = chain[m.seq].text
      <4>1. CASE page.sid = hub.sid
        <5>1. page.seq \in 0 .. m.seq
          BY <1>2, <1>3, <4>1
        <5>2. page.base.seq <= chain[page.seq].seq /\ Have(page) = chain[page.seq].text
          BY <1>3, <2>3, <4>1 DEF PageAt
        <5>3. s.seq < chain[page.seq].seq
          <6>1. page.seq \in 0 .. hub.seq
            BY <1>2, <1>3, <5>1
          <6>2. chain[page.seq].seq \in Nat /\ page.base.seq \in Nat /\ s.seq \in Nat
            BY <1>2, <1>3, <6>1, LineFacts, RunFacts
          <6> QED BY <1>8, <5>2, <6>2
        <5> QED BY <1>2, <5>1, <5>2, <5>3
      <4>2. CASE page.sid # hub.sid
        <5>1. page.base.seq <= chain[0].seq
          BY <1>3, <2>3, <4>2 DEF PageAt
        <5> QED BY <1>1, <1>3, <1>8, <2>3, <3>1, <4>2, <5>1
      <4> QED BY <4>1, <4>2
    <3>3. page.base.seq <= chain[m.seq].seq
      <4>1. k \in 0 .. hub.seq /\ k <= m.seq
        BY <1>2, <1>3
      <4>2. chain[k].seq <= chain[m.seq].seq
        BY <1>3, <3>1, <4>1 DEF ChainGrows
      <4>3. chain[k].seq \in Nat /\ chain[m.seq].seq \in Nat /\ page.base.seq \in Nat
        BY <1>3, <3>1, <4>1, LineFacts, RunFacts
      <4> QED BY <3>2, <4>2, <4>3
    <3>4. Have(p) = Have(page)
      BY <1>5 DEF Have
    <3>5. PageAt(chain, hub, p)
      BY <1>2, <1>5, <3>2, <3>3, <3>4 DEF PageAt
    <3>6. PageHas(p, trace)
      BY <1>3, <1>5, <3>4 DEF PageHas
    <3>7. Ends(chain, hub.seq, hub.sid, page.base, trace.run.ended)
            \subseteq Ends(chain, hub.seq, hub.sid, p.base, trace.run.ended)
      BY <1>5
    <3> QED BY <1>5, <2>1, <3>5, <3>6, <3>7 DEF Becomes
  <2> QED BY <2>2, <2>3
<1> QED BY <1>7, <1>8

LEMMA ReceivesRight ==
  ASSUME NEW chain, Life(chain), line.pc # "closed",
         NEW m \in Own(chain, hub.seq, hub.sid)
                   \cup Ends(chain, hub.seq, hub.sid, page.base, trace.run.ended)
                   \cup Opening(chain, hub.seq, hub.sid, page),
         Receives(m)
  PROVE  Becomes(chain, page')
<1>1. CASE page' = page
  BY <1>1, LineFacts DEF Becomes
<1>2. CASE m.kind = "checkpoint" /\ ~(m.sid = page.sid /\ m.seq < page.seq)
  <2>1. page' = Applied([page EXCEPT !.sid = m.sid, !.seq = m.seq], m.snapshot)
    BY <1>2 DEF Receives
  <2> QED BY <1>2, <2>1, CheckpointBecomes, ReadBecomes
<1>3. CASE m.kind = "delta" /\ ~(Gap(m) \/ m.seq <= page.seq)
  <2>1. m \in Own(chain, hub.seq, hub.sid)
    BY <1>3, MessageFacts DEF Ends, Opening, Reads
  <2>2. m.seq \in Nat /\ page.seq \in Nat
    BY <2>1, MessageFacts, LineFacts DEF Own
  <2>3. m.sid = page.sid /\ m.seq = page.seq + 1
    BY <1>3, <2>2 DEF Gap
  <2>4. page' = [page EXCEPT !.seq = m.seq, !.live = Append(@, m.piece)]
    BY <1>3 DEF Receives
  <2>7. PICK live : live = Append(page.live, m.piece)
    OBVIOUS
  <2>8. page' = [page EXCEPT !.seq = m.seq, !.live = live]
    BY <2>4, <2>7
  <2>5. m.kind = "delta"
    BY <1>3
  <2>6. Becomes(chain, page') /\ page'.over = page.over
    BY <2>1, <2>3, <2>7, <2>8, <2>5, DeltaBecomes
  <2> QED BY <2>6
<1>4. m.kind \in {"checkpoint", "delta"}
  BY MessageFacts DEF Own, Ends, Opening, Reads
<1>5. CASE m.kind = "checkpoint" /\ m.sid = page.sid /\ m.seq < page.seq
  BY <1>1, <1>5 DEF Receives
<1>6. CASE m.kind = "delta" /\ (Gap(m) \/ m.seq <= page.seq)
  BY <1>1, <1>6 DEF Receives
<1> QED BY <1>2, <1>3, <1>4, <1>5, <1>6

LEMMA ReceivingKeeps ==
  ASSUME NEW chain, Life(chain), PageReceives
  PROVE  Life(chain)'
<1> DEFINE O == Own(chain, hub.seq, hub.sid)
           E == Ends(chain, hub.seq, hub.sid, page.base, trace.run.ended)
           F == Ends(chain, hub.seq, hub.sid, page'.base, trace.run.ended)
           Q == Opening(chain, hub.seq, hub.sid, page)
<1>1. /\ line \in LineRow /\ LineTells(chain, hub, line, page, trace.run.ended)
      /\ line.frames \in Seq(Messages) /\ line.queue \in Seq(Messages)
  BY DEF Life, StreamTypeOK, LineRow
<1>2. /\ line.frames # <<>> \/ (line.pc = "open" /\ line.queue # <<>>)
      /\ UNCHANGED <<trace, recorder, hub>>
      /\ Receives(Arrived)
      /\ \/ line' = NoLine
         \/ /\ ~page'.over
            /\ line' = IF line.frames # <<>> THEN [line EXCEPT !.frames = Tail(@)]
                       ELSE [line EXCEPT !.queue = Tail(@)]
  BY DEF PageReceives, Hangs
<1>3. line.pc # "closed"
  BY <1>1, <1>2, EmptyRows DEF LineTells
<1>4. /\ hub.sid # 0 /\ line.sid = hub.sid /\ line.from <= hub.seq
      /\ line.queue \in Seq(O) /\ line.replay \in Seq(O)
      /\ \/ line.frames \in Seq(O \cup E)
         \/ Len(line.frames) = 1 /\ line.frames[1] \in Q
  BY <1>1, <1>3 DEF LineTells
<1>5. PICK m : m = Arrived
  OBVIOUS
<1>6. m \in O \cup E \cup Q
  <2> HIDE DEF O, E, Q
  <2>1. CASE line.frames # <<>>
    <3>1. m = line.frames[1]
      BY <1>1, <1>5, <2>1, TailFacts DEF Arrived
    <3>2. CASE line.frames \in Seq(O \cup E)
      BY <2>1, <3>1, <3>2, TailFacts
    <3> QED BY <1>4, <3>1, <3>2
  <2>2. CASE line.frames = <<>>
    BY <1>2, <1>4, <1>5, <2>2, TailFacts DEF Arrived
  <2> QED BY <2>1, <2>2
<1>7. Becomes(chain, page')
  BY <1>2, <1>3, <1>5, <1>6, ReceivesRight
<1>8. /\ page' \in PageRow /\ PageHas(page', trace) /\ PageAt(chain, hub, page') /\ E \subseteq F
  BY <1>7 DEF Becomes
<1>9. CASE line' = NoLine
  <2>1. line' \in LineRow /\ line'.pc = "closed"
    BY <1>9, EmptyRows
  <2>2. LineTells(chain, hub, line', page', trace.run.ended)
    BY <1>9, <2>1 DEF LineTells
  <2> QED BY <1>2, <1>8, <2>1, <2>2, PageMoves
<1>10. CASE ~page'.over /\ line' = IF line.frames # <<>> THEN [line EXCEPT !.frames = Tail(@)]
                                   ELSE [line EXCEPT !.queue = Tail(@)]
  <2>1. /\ line' \in LineRow /\ line'.pc = line.pc /\ line'.sid = line.sid /\ line'.from = line.from
        /\ line'.replay = line.replay /\ line'.queue \in Seq(O) /\ line'.frames \in Seq(O \cup F)
    <3> HIDE DEF O, E, F, Q
    <3>1. CASE line.frames # <<>>
      <4>1. PICK rest : rest = Tail(line.frames)
        OBVIOUS
      <4>2. rest \in Seq(Messages)
        BY <1>1, <3>1, <4>1, TailFacts
      <4>3. line' = [line EXCEPT !.frames = rest]
        BY <1>10, <3>1, <4>1
      <4>4. /\ line' \in LineRow /\ line'.pc = line.pc /\ line'.sid = line.sid /\ line'.from = line.from
            /\ line'.replay = line.replay /\ line'.queue = line.queue /\ line'.frames = rest
        BY <1>1, <4>2, <4>3 DEF LineRow
      <4>5. rest \in Seq(O \cup F)
        <5>1. CASE line.frames \in Seq(O \cup E)
          <6>1. rest \in Seq(O \cup E)
            BY <3>1, <4>1, <5>1, TailFacts
          <6>2. O \cup E \subseteq O \cup F
            BY <1>8
          <6> QED BY <6>1, <6>2, SeqWider
        <5>2. CASE Len(line.frames) = 1
          <6>1. Len(rest) = 0 /\ rest \in Seq(Messages)
            BY <1>1, <3>1, <4>1, <4>2, <5>2, TailFacts
          <6>2. rest = <<>>
            BY <6>1
          <6> QED BY <6>2
        <5> QED BY <1>4, <5>1, <5>2
      <4> QED BY <1>4, <4>4, <4>5
    <3>2. CASE line.frames = <<>>
      <4>1. PICK rest : rest = Tail(line.queue)
        OBVIOUS
      <4>2. rest \in Seq(Messages) /\ rest \in Seq(O)
        BY <1>1, <1>2, <1>4, <3>2, <4>1, TailFacts
      <4>3. line' = [line EXCEPT !.queue = rest]
        BY <1>10, <3>2, <4>1
      <4>4. /\ line' \in LineRow /\ line'.pc = line.pc /\ line'.sid = line.sid /\ line'.from = line.from
            /\ line'.replay = line.replay /\ line'.queue = rest /\ line'.frames = line.frames
        BY <1>1, <4>2, <4>3 DEF LineRow
      <4>5. <<>> \in Seq(O \cup F)
        OBVIOUS
      <4> QED BY <3>2, <4>2, <4>4, <4>5, <1>4
    <3> QED BY <3>1, <3>2
  <2>2. LineTells(chain, hub, line', page', trace.run.ended)
    BY <1>3, <1>4, <2>1 DEF LineTells
  <2>3. ~page'.over
    BY <1>10
  <2> QED BY <1>2, <1>8, <2>1, <2>2, <2>3, PageMoves
<1> QED BY <1>2, <1>9, <1>10

LEMMA StreamStarts == StreamInit => StreamInv
<1> SUFFICES ASSUME StreamInit PROVE StreamInv
  OBVIOUS
<1>1. PICK chain : chain = [n \in Nat |-> NewRun]
  OBVIOUS
<1>2. chain \in [Nat -> Runs] /\ NewRun \in Runs
  BY <1>1, RunFacts
<1>3. StreamTypeOK
  <2>1. trace \in TraceRow
    BY <1>2 DEF StreamInit, TraceRow
  <2>2. recorder \in RecorderRow
    BY DEF StreamInit, RecorderRow
  <2>3. hub \in HubRow /\ line \in LineRow
    BY EmptyRows DEF StreamInit
  <2>4. page \in PageRow
    <3>1. PICK r : r = NewRun
      OBVIOUS
    <3>2. PICK none : none = <<>>
      OBVIOUS
    <3>3. r \in Runs /\ none \in Seq(Nat)
      BY <1>2, <3>1, <3>2
    <3>4. page = [sid |-> 0, seq |-> 0, base |-> r, live |-> none, over |-> FALSE]
      BY <3>1, <3>2 DEF StreamInit
    <3> QED BY <3>3, <3>4 DEF PageRow
  <2> QED BY <2>1, <2>2, <2>3, <2>4 DEF StreamTypeOK
<1>4. SavedFirst(trace, recorder.pc)
  <2>1. trace.run = NewRun /\ trace.db = NewRun
    BY DEF StreamInit
  <2>2. NewRun.seq <= NewRun.seq
    BY <1>2, RunFacts
  <2> QED BY <2>1, <2>2 DEF SavedFirst
<1>5. page.base.from = "db" /\ ~page.over
  BY DEF StreamInit, NewRun
<1>6. hub = NoStream /\ line = NoLine
  BY DEF StreamInit
<1>7. HubTells(chain, hub, trace, page.base) /\ LineTells(chain, hub, line, page, trace.run.ended)
  BY <1>6, EmptyRows DEF HubTells, LineTells
<1>8. PageHas(page, trace) /\ PageAt(chain, hub, page)
  BY <1>5 DEF PageHas, PageAt
<1>9. Life(chain)
  BY <1>2, <1>3, <1>4, <1>5, <1>7, <1>8 DEF Life
<1> QED BY <1>9 DEF StreamInv

LEMMA StreamSteps ==
  ASSUME StreamInv, StreamNext
  PROVE  StreamInv'
<1>1. PICK chain : Life(chain)
  BY DEF StreamInv
<1>2. CASE TextArrives
  BY <1>1, <1>2, TextKeeps
<1>3. CASE StreamPersists \/ BoundarySaved
  <2>1. Life(chain)'
    BY <1>1, <1>3, SavesKeep
  <2> QED BY <2>1 DEF StreamInv
<1>4. CASE BoundaryOpens
  <2>1. Life(chain)'
    BY <1>1, <1>4, OpensKeep
  <2> QED BY <2>1 DEF StreamInv
<1>5. CASE FailureSaved
  <2>1. Life(chain)'
    BY <1>1, <1>5, FailureKeeps
  <2> QED BY <2>1 DEF StreamInv
<1>6. CASE BoundaryPublishes \/ FlushFires
  BY <1>1, <1>6, RecorderKeeps
<1>7. CASE Evicted \/ LineBreaks \/ ReadFails \/ ServerCloses
  <2>1. Life(chain)'
    BY <1>1, <1>7, LinesEnd
  <2> QED BY <2>1 DEF StreamInv
<1>8. CASE Connects
  BY <1>1, <1>8, ConnectsKeeps
<1>9. CASE ReadsRun
  BY <1>1, <1>9, ReadsRunKeeps
<1>10. CASE PageReceives
  <2>1. Life(chain)'
    BY <1>1, <1>10, ReceivingKeeps
  <2> QED BY <2>1 DEF StreamInv
<1>11. CASE Refetches
  <2>1. Life(chain)'
    BY <1>1, <1>11, RefetchKeeps
  <2> QED BY <2>1 DEF StreamInv
<1> QED BY <1>2, <1>3, <1>4, <1>5, <1>6, <1>7, <1>8, <1>9, <1>10, <1>11
        DEF StreamNext, RecorderStep, ServerStep

LEMMA JoinedFacts ==
  ASSUME NEW S, NEW q \in Seq(S), NEW r \in Seq(S)
  PROVE  /\ q \o r \in Seq(S) /\ Len(q \o r) = Len(q) + Len(r)
         /\ \A i \in 1 .. Len(q) + Len(r) :
              (q \o r)[i] = IF i <= Len(q) THEN q[i] ELSE r[i - Len(q)]
OBVIOUS

\* What a page on a recorder's base shows is a beginning of the numbers.
LEMMA ShownInOrder == StreamInv => LiveBaseShowsTrace
<1> SUFFICES ASSUME StreamInv, page.base.from = "recorder" PROVE InOrder(Shown)
  BY DEF LiveBaseShowsTrace
<1>1. PICK chain : Life(chain)
  BY DEF StreamInv
<1>2. page \in PageRow /\ PageHas(page, trace)
  BY <1>1 DEF Life, StreamTypeOK
<1> DEFINE b == page.base.text
           live == page.live
<1>3. /\ b \in Nat /\ live \in Seq(Nat) /\ Len(live) \in Nat
      /\ \A j \in 1 .. Len(live) : live[j] = b + j
  <2>1. page.base \in Runs /\ page.live \in Seq(Nat)
    BY <1>2 DEF PageRow
  <2>2. page.base.text \in Nat /\ Len(page.live) \in Nat
    BY <2>1, RunFacts
  <2> QED BY <1>2, <2>1, <2>2 DEF PageHas
<1> HIDE DEF b, live
<1>4. PICK first : first = [i \in 1 .. b |-> i]
  OBVIOUS
<1>5. first \in Seq(Nat) /\ Len(first) = b /\ \A i \in 1 .. b : first[i] = i
  BY <1>3, <1>4
<1>6. PICK s : s = first \o live
  OBVIOUS
<1>7. /\ s \in Seq(Nat) /\ Len(s) = b + Len(live)
      /\ \A i \in 1 .. b + Len(live) : s[i] = IF i <= b THEN first[i] ELSE live[i - b]
  BY <1>3, <1>5, <1>6, JoinedFacts
<1>8. ASSUME NEW i \in 1 .. Len(s) PROVE s[i] = i
  <2>1. i \in 1 .. b + Len(live) /\ i \in Nat
    BY <1>3, <1>7
  <2>2. s[i] = IF i <= b THEN first[i] ELSE live[i - b]
    BY <1>7, <2>1
  <2>3. CASE i <= b
    <3>1. i \in 1 .. b
      BY <1>3, <2>1, <2>3
    <3>2. first[i] = i
      BY <1>5, <3>1
    <3> QED BY <2>2, <2>3, <3>2
  <2>4. CASE ~(i <= b)
    <3>1. i - b \in 1 .. Len(live) /\ b + (i - b) = i
      BY <1>3, <2>1, <2>4
    <3>2. live[i - b] = b + (i - b)
      BY <1>3, <3>1
    <3> QED BY <2>2, <2>4, <3>1, <3>2
  <2> QED BY <2>3, <2>4
<1>9. s = [i \in 1 .. Len(s) |-> i]
  <2>1. s = [i \in 1 .. Len(s) |-> s[i]]
    BY <1>7
  <2> QED BY <1>8, <2>1
<1>10. s = Shown
  BY <1>4, <1>6 DEF Shown, b, live
<1> QED BY <1>9, <1>10 DEF InOrder

LEMMA StreamsTell == Spec => []StreamInv
<1>1. Init => StreamInv
  BY StreamStarts DEF Init
<1>2. StreamInv /\ [Next]_vars => StreamInv'
  <2> SUFFICES ASSUME StreamInv, [Next]_vars PROVE StreamInv'
    OBVIOUS
  <2>1. UNCHANGED streamVars \/ StreamNext
    BY DEF Next, vars
  <2>2. CASE StreamNext
    BY <2>2, StreamSteps
  <2>3. CASE UNCHANGED streamVars
    <3>1. UNCHANGED <<trace, recorder, hub, line, page>>
      BY <2>3 DEF streamVars
    <3>2. PICK chain : Life(chain)
      BY DEF StreamInv
    <3>3. recorder' \in RecorderRow /\ SavedFirst(trace, recorder.pc)'
      BY <3>1, <3>2, RecorderRests
    <3>4. Life(chain)'
      BY <3>1, <3>2, <3>3, NothingMoves
    <3> QED BY <3>4 DEF StreamInv
  <2> QED BY <2>1, <2>2, <2>3
<1> QED BY <1>1, <1>2, PTL DEF Spec

\* For any queue, any history at least as long, any run and any number of lost
\* connections: once a page has a checkpoint the recorder published, the deltas
\* it adds to it leave no gap and repeat nothing.
THEOREM LivePagesShowTheTrace == Spec => []LiveBaseShowsTrace
BY StreamsTell, ShownInOrder, PTL

==============================================================================
