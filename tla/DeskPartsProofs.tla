-------------------------- MODULE DeskPartsProofs --------------------------
(***************************************************************************)
(* The parts of a run beside its orders, for all constants: the authority  *)
(* a plan gives to a watch, the reads that share a flight, the memories    *)
(* that lose no lesson, the trace that tells the run, the models of the    *)
(* stages, the events and the message made of a provider's reply.          *)
(***************************************************************************)
EXTENDS MCDesk, DeskProofs, FiniteSetTheorems, WellFoundedInduction, SequenceTheorems, TLAPS

------------------------------------------------------------------------------
(* Order plans. *)

\* An entry as parse_directive leaves it: an unreadable one is a bare HOLD.
Entry == [action : Actions \cup {"none"}, above : PlanPrices \cup {None, Endless},
          below : PlanPrices \cup {None, Endless}, after : PlanClock \cup {None}, left : {0, 1},
          rejected : BOOLEAN, run : PlanRuns \cup {None}]

PlanInv ==
  plan \in [PlanOrders -> {d \in Entry : d.rejected =>
               d.action = "hold" /\ d.above = None /\ d.below = None /\ d.after = None}]

\* What is parsed is an entry; what cannot be read gives no authority.
LEMMA ParsedIsEntry ==
  ASSUME NEW p \in Payloads, NEW run \in PlanRuns
  PROVE  /\ Parsed(p, run) \in Entry
         /\ Parsed(p, run).rejected =>
              /\ Parsed(p, run).action = "hold" /\ Parsed(p, run).above = None
              /\ Parsed(p, run).below = None /\ Parsed(p, run).after = None
<1>1. CASE Readable(p)
  <2>1. /\ p.action \in Actions /\ p.above \in PlanPrices \cup {None, Endless}
        /\ p.below \in PlanPrices \cup {None, Endless}
        /\ p.after \in PlanClock \cup {None}
    BY <1>1 DEF Readable, Payloads
  <2> QED BY <1>1, <2>1 DEF Parsed, Entry
<1>2. CASE ~Readable(p)
  <2>1. Parsed(p, run) = [action |-> "hold", above |-> None, below |-> None, after |-> None,
                          left |-> 0, rejected |-> TRUE, run |-> run]
    BY <1>2 DEF Parsed, Unplanned
  <2> QED BY <2>1 DEF Entry, Actions
<1> QED BY <1>1, <1>2

\* The table holds entries, whoever declares what.
LEMMA PlansAreEntries == Spec => []PlanInv
<1>1. Unplanned \in Entry /\ ~Unplanned.rejected
  BY DEF Unplanned, Entry, Actions
<1>2. Init => PlanInv
  BY <1>1 DEF Init, PlanInit, PlanInv, Nothing
<1>3. PlanInv /\ [Next]_vars => PlanInv'
  <2> SUFFICES ASSUME PlanInv, [Next]_vars PROVE PlanInv'
    OBVIOUS
  <2>1. UNCHANGED planVars \/ PlanNext
    BY DEF Next, Only, vars
  <2>2. CASE UNCHANGED planVars
    BY <2>2 DEF planVars, PlanInv
  <2>3. CASE PlanNext
    <3>1. PICK run \in PlanRuns, named \in SUBSET PlanOrders, p \in Payloads :
            plan' = [o \in PlanOrders |-> IF o \in named THEN Parsed(p, run) ELSE Unplanned]
      BY <2>3 DEF PlanNext, Declare
    <3> QED BY <1>1, <3>1, ParsedIsEntry DEF PlanInv
  <2> QED BY <2>1, <2>2, <2>3
<1> QED BY <1>2, <1>3, PTL DEF Spec

\* Whatever was declared and whatever the price and the time: a plan that is not
\* watched would do nothing, the last guard before a request lets a watch
\* withdraw an order only when its plan says so, and what it refuses in spite of
\* the plan no handoff was complete with.
THEOREM WatchesFollowTheirPlan == Spec => []WatchFollowsPlan
<1>1. PlanInv => WatchFollowsPlan
  <2> SUFFICES ASSUME PlanInv PROVE WatchFollowsPlan
    OBVIOUS
  <2>1. ASSUME NEW o \in PlanOrders, NEW v \in Views, NEW t \in BOOLEAN,
               ~NeedsWatching(plan[o])
        PROVE  Settle(plan[o], v[1], v[2], t) \notin {"cancel", "reprice"}
    <3>1. plan[o] \in Entry
      BY DEF PlanInv
    <3>2. ~CancelsAt(plan[o], v[1], v[2])
      BY <2>1 DEF NeedsWatching, CancelsAt
    <3>3. plan[o].left \in {0, 1} /\ ~(plan[o].action = "reprice" /\ plan[o].left > 0)
      BY <2>1, <3>1 DEF NeedsWatching, Entry
    <3> QED BY <3>2, <3>3 DEF Settle
  <2>2. ASSUME NEW o \in PlanOrders, NEW v \in Views
        PROVE  /\ MayWithdraw(plan[o], v[1], v[2]) =>
                    Settle(plan[o], v[1], v[2], FALSE) = "cancel"
               /\ Settle(plan[o], v[1], v[2], FALSE) = "cancel"
                    /\ ~MayWithdraw(plan[o], v[1], v[2]) => ~Sound(plan[o])
    <3> DEFINE d == plan[o]
    <3>2. d.rejected => d.action = "hold" /\ d.above = None /\ d.below = None /\ d.after = None
      BY DEF PlanInv
    <3>3. Settle(d, v[1], v[2], FALSE) = "cancel" <=> d.action # "none" /\ CancelsAt(d, v[1], v[2])
      BY DEF Settle
    <3>4. MayWithdraw(d, v[1], v[2]) => d.action # "none" /\ CancelsAt(d, v[1], v[2])
      BY DEF MayWithdraw, CancelsAt
    <3>5. ASSUME CancelsAt(d, v[1], v[2]), d.action # "none", Sound(d)
          PROVE  MayWithdraw(d, v[1], v[2])
      <4>1. d.action \in {"cancel", "hold"} /\ ~d.rejected
        BY <3>2, <3>5 DEF CancelsAt
      <4> QED BY <3>5, <4>1 DEF MayWithdraw, CancelsAt
    <3> QED BY <3>3, <3>4, <3>5
  <2>3. ASSUME NEW o \in PlanOrders, NEW run \in PlanRuns, NEW isBuy \in BOOLEAN,
               NEW limit \in PlanPrices, ~Sound(plan[o])
        PROVE  ~Covered(plan[o], run, isBuy, limit)
    BY <2>3 DEF Covered
  <2> QED BY <2>1, <2>2, <2>3 DEF WatchFollowsPlan
<1> QED BY <1>1, PlansAreEntries, PTL

\* For all prices and times: a handoff that is reported complete can be carried
\* out, and condemns no bid at the price it rests at.
THEOREM HandoffsCanBeCarriedOut == Spec => []CompleteMeansExecutable
<1>1. PlanInv => CompleteMeansExecutable
  <2> SUFFICES ASSUME PlanInv, NEW run \in PlanRuns, NEW active \in SUBSET PlanOrders,
                      NEW limit \in PlanPrices,
                      HandoffStatus(run, active, TRUE, limit) = "complete", NEW o \in active
               PROVE  /\ NeedsWatching(plan[o]) =>
                           \E v \in Quotes \X PlanClock : MayWithdraw(plan[o], v[1], v[2])
                      /\ plan[o].action = "hold" /\ plan[o].after = None =>
                           \A m \in PlanClock : ~MayWithdraw(plan[o], limit, m)
    BY DEF CompleteMeansExecutable
  <2> DEFINE d == plan[o]
  <2>1. /\ d \in Entry /\ ~d.rejected /\ d.action \in {"cancel", "hold"} /\ Sound(d)
        /\ d.action = "hold" => BidInside(d, limit)
    BY DEF HandoffStatus, Covered, PlanInv, Entry, Actions
  <2>2. /\ d.above \in PlanPrices \cup {None} /\ d.below \in PlanPrices \cup {None}
        /\ d.after \in PlanClock \cup {None}
        /\ d.above # Endless /\ d.below # Endless
    BY <2>1 DEF Entry, Sound
  <2>3. \A p \in PlanPrices : /\ p \in Int /\ p > 1
                              /\ p \in Quotes /\ p + 1 \in Quotes /\ p - 1 \in Quotes
    <3> SUFFICES ASSUME NEW p \in PlanPrices
                 PROVE  /\ p \in Int /\ p > 1
                        /\ p \in Quotes /\ p + 1 \in Quotes /\ p - 1 \in Quotes
      OBVIOUS
    <3>1. p \in Nat /\ p > 1
      BY PlanAssumption
    <3>2. p \in Quotes /\ p + 1 \in Quotes /\ p - 1 \in Quotes
      BY DEF Quotes
    <3> QED BY <3>1, <3>2
  <2>4. PICK moment \in PlanClock : moment \in Nat
    BY PlanAssumption
  <2>5. ASSUME NeedsWatching(d)
        PROVE  \E price \in Quotes, m \in PlanClock : MayWithdraw(d, price, m)
    <3>1. CASE d.action = "cancel"
      BY <2>1, <2>3, <2>4, <3>1 DEF MayWithdraw, CancelsAt
    <3>2. CASE d.action = "hold" /\ d.after # None
      <4> DEFINE m == d.after
      <4>0. m \in PlanClock
        BY <2>2, <3>2
      <4>1. d.after \in PlanClock /\ d.after >= d.after
        <5>1. m \in Nat
          BY <4>0, PlanAssumption
        <5>2. m >= m
          BY <5>1
        <5> QED BY <4>0, <5>2
      <4>2. MayWithdraw(d, limit, d.after)
        BY <2>1, <3>2, <4>1 DEF MayWithdraw, CancelsAt
      <4> QED BY <2>3, <4>1, <4>2
    <3>3. CASE d.action = "hold" /\ d.above # None
      <4>1. d.above + 1 \in Quotes /\ d.above + 1 > d.above /\ d.above + 1 # None
        BY <2>2, <2>3, <3>3 DEF None
      <4>2. MayWithdraw(d, d.above + 1, moment)
        <5>1. CancelsAt(d, d.above + 1, moment)
          BY <2>2, <3>3, <4>1 DEF CancelsAt
        <5> QED BY <2>1, <3>3, <4>1, <5>1 DEF MayWithdraw
      <4> QED BY <4>1, <4>2
    <3>4. CASE d.action = "hold" /\ d.below # None
      <4>1. d.below - 1 \in Quotes /\ d.below - 1 < d.below /\ d.below - 1 # None
        BY <2>2, <2>3, <3>4 DEF None
      <4>2. MayWithdraw(d, d.below - 1, moment)
        <5>1. CancelsAt(d, d.below - 1, moment)
          BY <2>2, <3>4, <4>1 DEF CancelsAt
        <5> QED BY <2>1, <3>4, <4>1, <5>1 DEF MayWithdraw
      <4> QED BY <4>1, <4>2
    <3> QED BY <2>1, <2>5, <3>1, <3>2, <3>3, <3>4 DEF NeedsWatching
  <2>6. ASSUME d.action = "hold", d.after = None, NEW m \in PlanClock
        PROVE  ~MayWithdraw(d, limit, m)
    <3>1. /\ d.above # None => limit < d.above
          /\ d.below # None => limit > d.below
      BY <2>1, <2>6 DEF BidInside
    <3>2. /\ ~(d.above # None /\ limit > d.above)
          /\ ~(d.below # None /\ limit < d.below)
      BY <2>2, <2>3, <3>1
    <3>3. ~CancelsAt(d, limit, m)
      BY <2>2, <2>6, <3>2 DEF CancelsAt
    <3>4. ~CancelsAt(d, None, m)
      BY <2>6 DEF CancelsAt
    <3> QED BY <3>3, <3>4 DEF MayWithdraw
  <2>7. NeedsWatching(d) => \E v \in Quotes \X PlanClock : MayWithdraw(d, v[1], v[2])
    <3> SUFFICES ASSUME NeedsWatching(d)
                 PROVE  \E v \in Quotes \X PlanClock : MayWithdraw(d, v[1], v[2])
      OBVIOUS
    <3>1. PICK price \in Quotes, m \in PlanClock : MayWithdraw(d, price, m)
      BY <2>5
    <3>2. <<price, m>> \in Quotes \X PlanClock /\ MayWithdraw(d, <<price, m>>[1], <<price, m>>[2])
      BY <3>1
    <3> QED BY <3>2
  <2> QED BY <2>6, <2>7
<1> QED BY <1>1, PlansAreEntries, PTL

------------------------------------------------------------------------------
(* Memories. *)

Row     == [version : Nat, deleted : BOOLEAN, replaces : SUBSET Memories]
Begun   == [pc : {"read"}, memory : Memories, operation : {"update", "delete"},
            expected : Nat, replaces : SUBSET Memories, merges : BOOLEAN]
MemoryTypeOK ==
  /\ memory \in [Memories -> Row]
  /\ seen \in [Authors -> [Memories -> Nat]]
  /\ writing \in [Authors -> {NoWriting} \cup Begun]

\* Nobody has been shown a version that does not exist yet, and a merge that may
\* still be stored absorbs the lineage of the row as it is.
MemoryInv ==
  /\ MemoryTypeOK
  /\ \A a \in Authors, m \in Memories : seen[a][m] <= memory[m].version
  /\ \A a \in Authors : writing[a] # NoWriting =>
       LET w == writing[a]
       IN /\ w.expected = seen[a][w.memory] /\ w.expected > 0
          /\ w.merges /\ memory[w.memory].version = w.expected =>
               memory[w.memory].replaces \subseteq w.replaces

\* A row as a step may leave it: untouched, or with a version of its own.
Moved == \A m \in Memories : memory'[m] = memory[m] \/ memory'[m].version > memory[m].version

\* The step of a preserves what is known of every other author's write.
LEMMA OthersWritesStand ==
  ASSUME MemoryInv, NEW a \in Authors, NEW b \in Authors \ {a}, Moved,
         writing'[b] = writing[b], seen'[b] = seen[b], memory' \in [Memories -> Row],
         writing[b] # NoWriting
  PROVE  LET w == writing'[b]
         IN /\ w.expected = seen'[b][w.memory] /\ w.expected > 0
            /\ w.merges /\ memory'[w.memory].version = w.expected =>
                 memory'[w.memory].replaces \subseteq w.replaces
<1> DEFINE w == writing[b]
           m == w.memory
<1>1. w \in Begun /\ m \in Memories
  BY DEF MemoryInv, MemoryTypeOK, Begun
<1>2. /\ w.expected = seen[b][m] /\ w.expected > 0 /\ w.expected \in Nat
      /\ w.merges /\ memory[m].version = w.expected => memory[m].replaces \subseteq w.replaces
  BY <1>1 DEF MemoryInv, Begun
<1>3. w.expected <= memory[m].version /\ memory[m].version \in Nat /\ memory'[m].version \in Nat
  BY <1>1, <1>2 DEF MemoryInv, MemoryTypeOK, Row
<1>4. CASE memory'[m] = memory[m]
  BY <1>2, <1>4
<1>5. CASE memory'[m].version > memory[m].version
  BY <1>2, <1>3, <1>5
<1> QED BY <1>1, <1>4, <1>5 DEF Moved

\* What the authors' steps have in common with the invariant: who steps changes
\* only what it has been shown and its own write.
LEMMA MemoryInvKept ==
  ASSUME MemoryInv, NEW a \in Authors, Moved, MemoryTypeOK',
         \A b \in Authors \ {a} : writing'[b] = writing[b] /\ seen'[b] = seen[b],
         \A m \in Memories : seen'[a][m] <= memory'[m].version,
         writing'[a] # NoWriting =>
           LET w == writing'[a]
           IN /\ w.expected = seen'[a][w.memory] /\ w.expected > 0
              /\ w.merges /\ memory'[w.memory].version = w.expected =>
                   memory'[w.memory].replaces \subseteq w.replaces
  PROVE  MemoryInv'
<1>1. ASSUME NEW b \in Authors, NEW m \in Memories PROVE seen'[b][m] <= memory'[m].version
  <2>1. CASE b = a
    BY <2>1
  <2>2. CASE b # a
    <3>1. seen'[b][m] = seen[b][m] /\ seen[b][m] <= memory[m].version
      BY <2>2 DEF MemoryInv
    <3>2. seen[b][m] \in Nat /\ memory[m].version \in Nat /\ memory'[m].version \in Nat
      BY DEF MemoryInv, MemoryTypeOK, Row
    <3>3. memory'[m] = memory[m] \/ memory'[m].version > memory[m].version
      BY DEF Moved
    <3> QED BY <3>1, <3>2, <3>3
  <2> QED BY <2>1, <2>2
<1>2. ASSUME NEW b \in Authors, writing'[b] # NoWriting
      PROVE  LET w == writing'[b]
             IN /\ w.expected = seen'[b][w.memory] /\ w.expected > 0
                /\ w.merges /\ memory'[w.memory].version = w.expected =>
                     memory'[w.memory].replaces \subseteq w.replaces
  <2>1. CASE b = a
    BY <1>2, <2>1
  <2>2. CASE b # a
    <3>1. writing'[b] = writing[b] /\ seen'[b] = seen[b] /\ memory' \in [Memories -> Row]
          /\ b \in Authors \ {a}
      BY <2>2 DEF MemoryTypeOK
    <3> QED BY <1>2, <3>1, OthersWritesStand
  <2> QED BY <2>1, <2>2
<1> QED BY <1>1, <1>2 DEF MemoryInv

LEMMA ReadsKeepMemories ==
  ASSUME MemoryInv, NEW a \in Authors, ReadMemory(a)
  PROVE  MemoryInv' /\ Moved
<1>1. PICK m \in Live : Tells(a, m, memory[m].version)
  BY DEF ReadMemory
<1>2. /\ m \in Memories /\ memory[m].version \in Nat
      /\ memory' = memory /\ writing' = writing /\ writing[a] = NoWriting
  BY DEF ReadMemory, Live, MemoryInv, MemoryTypeOK, Row
<1>3. seen' = [seen EXCEPT ![a][m] = memory[m].version]
  BY <1>1 DEF Tells
<1>4. MemoryTypeOK' /\ Moved
  BY <1>2, <1>3 DEF MemoryInv, MemoryTypeOK, Moved
<1>5. \A n \in Memories : seen'[a][n] <= memory'[n].version
  <2> SUFFICES ASSUME NEW n \in Memories PROVE seen'[a][n] <= memory[n].version
    BY <1>2
  <2>1. seen[a][n] <= memory[n].version
    BY DEF MemoryInv
  <2>2. seen'[a][n] = IF n = m THEN memory[m].version ELSE seen[a][n]
    BY <1>3 DEF MemoryInv, MemoryTypeOK
  <2> QED BY <1>2, <2>1, <2>2
<1>6. \A b \in Authors \ {a} : writing'[b] = writing[b] /\ seen'[b] = seen[b]
  BY <1>2, <1>3 DEF MemoryInv, MemoryTypeOK
<1> QED BY <1>2, <1>4, <1>5, <1>6, MemoryInvKept

LEMMA CreationsKeepMemories ==
  ASSUME MemoryInv, NEW a \in Authors, CreateMemory(a)
  PROVE  MemoryInv' /\ Moved
<1>1. PICK m \in Memories, sources \in Sources(a) :
        /\ memory[m] = NoMemory
        /\ memory' = [memory EXCEPT
             ![m] = [version |-> 1, deleted |-> FALSE, replaces |-> sources]]
        /\ seen' = [seen EXCEPT ![a][m] = 1]
  BY DEF CreateMemory, Tells
<1> DEFINE new == [version |-> 1, deleted |-> FALSE, replaces |-> sources]
<1>2. sources \in SUBSET Memories /\ new \in Row /\ memory' = [memory EXCEPT ![m] = new]
  <2>1. sources \in SUBSET Memories
    BY DEF Sources
  <2>2. new \in Row
    BY <2>1 DEF Row
  <2> QED BY <1>1, <2>1, <2>2
<1>3. writing' = writing /\ writing[a] = NoWriting
  BY DEF CreateMemory
<1>4. memory[m].version = 0 /\ memory'[m].version = 1
  BY <1>1, <1>2 DEF NoMemory, MemoryInv, MemoryTypeOK
<1>5. MemoryTypeOK' /\ Moved
  <2>1. memory' \in [Memories -> Row]
    BY <1>2 DEF MemoryInv, MemoryTypeOK
  <2>2. seen' \in [Authors -> [Memories -> Nat]]
    BY <1>1 DEF MemoryInv, MemoryTypeOK
  <2>3. \A n \in Memories : n # m => memory'[n] = memory[n]
    BY <1>2 DEF MemoryInv, MemoryTypeOK
  <2>4. Moved
    BY <1>4, <2>3 DEF Moved
  <2> QED BY <1>3, <2>1, <2>2, <2>4 DEF MemoryInv, MemoryTypeOK
<1>6. \A n \in Memories : seen'[a][n] <= memory'[n].version
  <2> SUFFICES ASSUME NEW n \in Memories PROVE seen'[a][n] <= memory'[n].version
    OBVIOUS
  <2>1. seen[a][n] <= memory[n].version
    BY DEF MemoryInv
  <2>2. seen'[a][n] = IF n = m THEN 1 ELSE seen[a][n]
    BY <1>1 DEF MemoryInv, MemoryTypeOK
  <2>3. n # m => memory'[n] = memory[n]
    BY <1>2 DEF MemoryInv, MemoryTypeOK
  <2> QED BY <1>4, <2>1, <2>2, <2>3
<1>7. \A b \in Authors \ {a} : writing'[b] = writing[b] /\ seen'[b] = seen[b]
  BY <1>1, <1>3 DEF MemoryInv, MemoryTypeOK
<1> QED BY <1>3, <1>5, <1>6, <1>7, MemoryInvKept

LEMMA BeginningsKeepMemories ==
  ASSUME MemoryInv, NEW a \in Authors, BeginWrite(a)
  PROVE  MemoryInv' /\ Moved
<1>1. PICK m \in Live, operation \in {"update"} \cup (IF a \in Curators THEN {"delete"} ELSE {}),
           sources \in Sources(a) :
        /\ seen[a][m] > 0
        /\ writing' = [writing EXCEPT ![a] =
             [pc |-> "read", memory |-> m, operation |-> operation, expected |-> seen[a][m],
              replaces |-> IF sources = {} THEN {} ELSE Merged(memory[m], m, sources),
              merges |-> sources # {}]]
  BY DEF BeginWrite
<1> DEFINE w == [pc |-> "read", memory |-> m, operation |-> operation, expected |-> seen[a][m],
                 replaces |-> IF sources = {} THEN {} ELSE Merged(memory[m], m, sources),
                 merges |-> sources # {}]
<1>2. memory' = memory /\ seen' = seen /\ m \in Memories /\ operation \in {"update", "delete"}
      /\ sources \in SUBSET Memories
  BY DEF BeginWrite, Live, Sources
<1>3. Merged(memory[m], m, sources) \in SUBSET Memories
      /\ memory[m].replaces \subseteq Merged(memory[m], m, sources)
  BY <1>2 DEF Merged, MemoryInv, MemoryTypeOK, Row
<1>4. w \in Begun
  BY <1>2, <1>3 DEF Begun, MemoryInv, MemoryTypeOK
<1>5. MemoryTypeOK' /\ Moved /\ writing'[a] = w
  BY <1>1, <1>2, <1>4 DEF MemoryInv, MemoryTypeOK, Moved
<1>6. \A b \in Authors \ {a} : writing'[b] = writing[b] /\ seen'[b] = seen[b]
  BY <1>1, <1>2 DEF MemoryInv, MemoryTypeOK
<1>7. \A n \in Memories : seen'[a][n] <= memory'[n].version
  BY <1>2 DEF MemoryInv
<1>8. /\ w.expected = seen'[a][w.memory] /\ w.expected > 0
      /\ w.merges /\ memory'[w.memory].version = w.expected =>
           memory'[w.memory].replaces \subseteq w.replaces
  BY <1>1, <1>2, <1>3
<1> HIDE DEF w
<1> QED BY <1>5, <1>6, <1>7, <1>8, MemoryInvKept

\* A write that ends builds on what its author was shown, and keeps the lineage.
LEMMA WritesKeepMemories ==
  ASSUME MemoryInv, NEW a \in Authors, EndWrite(a)
  PROVE  /\ MemoryInv' /\ Moved
         /\ \A m \in Memories : memory'[m] # memory[m] =>
              /\ memory[m].replaces \subseteq memory'[m].replaces
              /\ writing'[a] # writing[a] /\ seen[a][m] = memory[m].version
<1> DEFINE w == writing[a]
           m == w.memory
<1>1. /\ w # NoWriting /\ w \in Begun /\ m \in Memories /\ writing' = [writing EXCEPT ![a] = NoWriting]
  BY DEF EndWrite, MemoryInv, MemoryTypeOK, Begun, NoWriting
<1>2. writing'[a] = NoWriting
  BY <1>1 DEF MemoryInv, MemoryTypeOK
<1>3. CASE UNCHANGED <<memory, seen>>
  <2>1. MemoryTypeOK' /\ Moved
    BY <1>1, <1>3 DEF MemoryInv, MemoryTypeOK, Moved
  <2>2. \A n \in Memories : seen'[a][n] <= memory'[n].version
    BY <1>3 DEF MemoryInv
  <2>3. \A b \in Authors \ {a} : writing'[b] = writing[b] /\ seen'[b] = seen[b]
    BY <1>1, <1>3 DEF MemoryInv, MemoryTypeOK
  <2> QED BY <1>2, <1>3, <2>1, <2>2, <2>3, MemoryInvKept
<1>4. CASE /\ Matches(w)
           /\ memory' = [memory EXCEPT
                ![m] = [version  |-> @.version + 1, deleted  |-> w.operation = "delete",
                        replaces |-> IF w.merges THEN w.replaces ELSE @.replaces]]
           /\ Tells(a, m, memory[m].version + 1)
  <2> DEFINE new == [version |-> memory[m].version + 1, deleted |-> w.operation = "delete",
                     replaces |-> IF w.merges THEN w.replaces ELSE memory[m].replaces]
  <2>1. memory[m] \in Row /\ memory[m].version \in Nat /\ memory[m].version = w.expected
        /\ w.replaces \in SUBSET Memories
    BY <1>1, <1>4 DEF MemoryInv, MemoryTypeOK, Row, Begun, Matches
  <2>2. memory' = [memory EXCEPT ![m] = new] /\ seen' = [seen EXCEPT ![a][m] = memory[m].version + 1]
    BY <1>4 DEF Tells
  <2>3. new \in Row /\ new.version > memory[m].version
    BY <2>1 DEF Row
  <2>4. seen[a][m] = w.expected /\ (w.merges => memory[m].replaces \subseteq w.replaces)
    BY <1>1, <2>1 DEF MemoryInv
  <2>5. memory'[m] = new /\ \A n \in Memories : n # m => memory'[n] = memory[n]
    BY <1>1, <2>2 DEF MemoryInv, MemoryTypeOK
  <2>6. MemoryTypeOK' /\ Moved
    BY <1>1, <2>1, <2>2, <2>3, <2>5 DEF MemoryInv, MemoryTypeOK, Moved
  <2>7. \A n \in Memories : seen'[a][n] <= memory'[n].version
    <3> SUFFICES ASSUME NEW n \in Memories PROVE seen'[a][n] <= memory'[n].version
      OBVIOUS
    <3>1. seen[a][n] <= memory[n].version
      BY DEF MemoryInv
    <3>2. seen'[a][n] = IF n = m THEN memory[m].version + 1 ELSE seen[a][n]
      BY <2>2 DEF MemoryInv, MemoryTypeOK
    <3> QED BY <2>1, <2>5, <3>1, <3>2
  <2>8. \A b \in Authors \ {a} : writing'[b] = writing[b] /\ seen'[b] = seen[b]
    BY <1>1, <2>2 DEF MemoryInv, MemoryTypeOK
  <2>9. MemoryInv'
    BY <1>2, <2>6, <2>7, <2>8, MemoryInvKept
  <2>10. memory[m].replaces \subseteq new.replaces
    BY <2>4
  <2> QED BY <1>1, <1>2, <2>1, <2>4, <2>5, <2>6, <2>9, <2>10
<1> QED BY <1>3, <1>4 DEF EndWrite

LEMMA MemoriesInOrder == Spec => []MemoryInv
<1>1. Init => MemoryInv
  BY DEF Init, MemoryInit, MemoryInv, MemoryTypeOK, Row, NoMemory
<1>2. MemoryInv /\ [Next]_vars => MemoryInv'
  <2> SUFFICES ASSUME MemoryInv, [Next]_vars PROVE MemoryInv'
    OBVIOUS
  <2>1. UNCHANGED memoryVars \/ MemoryNext
    BY DEF Next, Only, vars
  <2>2. CASE UNCHANGED memoryVars
    BY <2>2 DEF memoryVars, MemoryInv, MemoryTypeOK
  <2>3. CASE MemoryNext
    BY <2>3, ReadsKeepMemories, CreationsKeepMemories, BeginningsKeepMemories,
       WritesKeepMemories DEF MemoryNext
  <2> QED BY <2>1, <2>2, <2>3
<1> QED BY <1>1, <1>2, PTL DEF Spec

\* However many authors write, whatever they merge and whenever they read: no
\* lesson is overwritten or deleted by an author who has not been shown it as it
\* is, and none forgets what it replaced.
THEOREM LessonsAreKept == Spec => LessonsKept
<1> DEFINE Kept == \A m \in Memories : memory'[m] # memory[m] /\ memory[m].version > 0 =>
              /\ memory[m].replaces \subseteq memory'[m].replaces
              /\ \E a \in Authors : writing'[a] # writing[a] /\ seen[a][m] = memory[m].version
<1>1. MemoryInv /\ [Next]_vars => [Kept]_memoryVars
  <2> SUFFICES ASSUME MemoryInv, MemoryNext PROVE Kept
    BY DEF Next, Only, vars
  <2>1. PICK a \in Authors : ReadMemory(a) \/ CreateMemory(a) \/ BeginWrite(a) \/ EndWrite(a)
    BY DEF MemoryNext
  <2>2. CASE ReadMemory(a)
    BY <2>2 DEF ReadMemory
  <2>3. CASE CreateMemory(a)
    BY <2>3 DEF CreateMemory, NoMemory, MemoryInv, MemoryTypeOK
  <2>4. CASE BeginWrite(a)
    BY <2>4 DEF BeginWrite
  <2>5. CASE EndWrite(a)
    BY <2>5, WritesKeepMemories
  <2> QED BY <2>1, <2>2, <2>3, <2>4, <2>5
<1> QED BY <1>1, MemoriesInOrder, PTL DEF Spec, LessonsKept

------------------------------------------------------------------------------
(* Public reads. *)

Flying  == {"asking", "gated", "sent"}
ReadRow == [pc : Flying \cup {"idle", "waiting", "done"}, key : PublicKeys \cup {"none"},
            entry : PublicTasks \cup {NoReader}, source : Nat, tries : Nat]
PublicTypeOK ==
  /\ read \in [PublicTasks -> ReadRow]
  /\ locks \in [PublicKeys -> PublicTasks \cup {NoReader}]
  /\ users \in [PublicTasks -> Seq(PublicTasks)]

\* A call that has a lock entry stands in it, and the entry is its key's; the
\* call that loads stands first.
Queued(t) ==
  /\ \E i \in DOMAIN users[read[t].entry] : users[read[t].entry][i] = t
  /\ read[t].key \in PublicKeys /\ locks[read[t].key] = read[t].entry
  /\ read[t].pc \in Flying => users[read[t].entry][1] = t
FlightInv ==
  /\ PublicTypeOK
  /\ \A t \in PublicTasks : read[t].pc \in {"idle", "done"} => read[t].entry = NoReader
  /\ \A t \in PublicTasks : read[t].entry # NoReader => Queued(t)
  /\ \A e \in PublicTasks : \A i, j \in DOMAIN users[e] :
       /\ read[users[e][i]].entry = e
       /\ users[e][i] = users[e][j] => i = j

\* A flight that goes on.
LEMMA GoingOnIsSafe ==
  ASSUME FlightInv, NEW t \in PublicTasks, NEW row \in ReadRow,
         read' = [read EXCEPT ![t] = row], users' = users, locks' = locks,
         row.entry = read[t].entry, row.pc \in Flying,
         read[t].entry # NoReader => row.key = read[t].key /\ users[row.entry][1] = t
  PROVE  FlightInv'
<1>1. PublicTypeOK'
  BY DEF FlightInv, PublicTypeOK
<1>2. /\ read'[t] = row
      /\ \A u \in PublicTasks \ {t} : read'[u] = read[u]
      /\ \A u \in PublicTasks : read'[u].entry = read[u].entry
  BY DEF FlightInv, PublicTypeOK
<1>3. \A u \in PublicTasks : read'[u].pc \in {"idle", "done"} => read'[u].entry = NoReader
  BY <1>2 DEF FlightInv, Flying
<1>4. ASSUME NEW u \in PublicTasks, read'[u].entry # NoReader PROVE Queued(u)'
  <2>1. Queued(u)
    BY <1>2, <1>4 DEF FlightInv
  <2>2. CASE u # t
    BY <1>2, <2>1, <2>2 DEF Queued
  <2>3. CASE u = t
    BY <1>2, <1>4, <2>1, <2>3 DEF Queued
  <2> QED BY <2>2, <2>3
<1>5. \A e \in PublicTasks : \A i, j \in DOMAIN users'[e] :
        /\ read'[users'[e][i]].entry = e
        /\ users'[e][i] = users'[e][j] => i = j
  <2>1. \A e \in PublicTasks : \A i \in DOMAIN users[e] : users[e][i] \in PublicTasks
    BY DEF FlightInv, PublicTypeOK
  <2> QED BY <1>2, <2>1 DEF FlightInv
<1> QED BY <1>1, <1>3, <1>4, <1>5 DEF FlightInv

\* What a queue is when one who stands in it once leaves it.
LEMMA LeavingQueue ==
  ASSUME NEW q \in Seq(PublicTasks), NEW t \in PublicTasks, NEW p \in DOMAIN q, q[p] = t,
         \A i, j \in DOMAIN q : q[i] = q[j] => i = j
  PROVE  /\ LeavesQueue(q, t) \in Seq(PublicTasks)
         /\ Len(LeavesQueue(q, t)) = Len(q) - 1
         /\ \A i \in 1 .. Len(q) - 1 :
              LeavesQueue(q, t)[i] = IF i < p THEN q[i] ELSE q[i + 1]
<1> DEFINE rest == [i \in 1 .. Len(q) - 1 |-> IF i < p THEN q[i] ELSE q[i + 1]]
<1>1. Len(q) \in Nat /\ DOMAIN q = 1 .. Len(q) /\ Len(q) - 1 \in Nat
  OBVIOUS
<1>2. Position(q, t) = p
  BY DEF Position
<1>3. LeavesQueue(q, t) = rest
  BY <1>2 DEF LeavesQueue
<1>4. rest \in [1 .. Len(q) - 1 -> PublicTasks]
  BY <1>1
<1>5. rest \in Seq(PublicTasks) /\ Len(rest) = Len(q) - 1
  BY <1>1, <1>4
<1> QED BY <1>3, <1>5

\* A flight that ends, however it does: who waited still waits, at the same lock,
\* and a lock that is forgotten has nobody left.
LEMMA EndingIsSafe ==
  ASSUME FlightInv, NEW t \in PublicTasks, EndsFlight(t)
  PROVE  FlightInv'
<1> DEFINE over == [pc |-> "done", key |-> "none", entry |-> NoReader, source |-> 1, tries |-> 0]
<1>0. [NotReading EXCEPT !.pc = "done"] = over
  BY DEF NotReading
<1>1. read' = [read EXCEPT ![t] = over]
  BY <1>0 DEF EndsFlight, Ends
<1>2. over \in ReadRow
  BY DEF ReadRow, Flying
<1>3. /\ read' \in [PublicTasks -> ReadRow] /\ read'[t].entry = NoReader
      /\ \A u \in PublicTasks \ {t} : read'[u] = read[u]
  BY <1>1, <1>2 DEF FlightInv, PublicTypeOK
<1>4. \A u \in PublicTasks : read'[u].pc \in {"idle", "done"} => read'[u].entry = NoReader
  BY <1>3 DEF FlightInv
<1>5. NoReader \notin PublicTasks
  BY PublicAssumption DEF NoReader
<1>6. \A e \in PublicTasks : \A i \in DOMAIN users[e] : users[e][i] \in PublicTasks
  BY DEF FlightInv, PublicTypeOK
<1>7. CASE read[t].entry = NoReader
  <2>1. users' = users /\ locks' = locks
    BY <1>7 DEF EndsFlight
  <2>2. PublicTypeOK'
    BY <1>3, <2>1 DEF FlightInv, PublicTypeOK
  <2>3. ASSUME NEW u \in PublicTasks, read'[u].entry # NoReader PROVE Queued(u)'
    <3>1. u # t /\ read'[u] = read[u] /\ Queued(u)
      BY <1>3, <2>3 DEF FlightInv
    <3> QED BY <2>1, <3>1 DEF Queued
  <2>4. ASSUME NEW e \in PublicTasks, NEW i \in DOMAIN users'[e], NEW j \in DOMAIN users'[e]
        PROVE  /\ read'[users'[e][i]].entry = e
               /\ users'[e][i] = users'[e][j] => i = j
    <3>1. read[users[e][i]].entry = e /\ (users[e][i] = users[e][j] => i = j)
      BY <2>1, <2>4 DEF FlightInv
    <3>2. users[e][i] # t /\ users[e][i] \in PublicTasks
      BY <1>5, <1>6, <1>7, <2>1, <2>4, <3>1
    <3> QED BY <1>3, <2>1, <3>1, <3>2
  <2> QED BY <1>4, <2>2, <2>3, <2>4 DEF FlightInv
<1>8. CASE read[t].entry # NoReader
  <2> DEFINE e0 == read[t].entry
             q == users[e0]
             new == LeavesQueue(q, t)
  <2>1. e0 \in PublicTasks /\ q \in Seq(PublicTasks) /\ Queued(t) /\ read[t].key \in PublicKeys
        /\ locks[read[t].key] = e0
    BY <1>8 DEF FlightInv, PublicTypeOK, ReadRow, Queued
  <2>2. PICK p \in DOMAIN q : q[p] = t
    BY <2>1 DEF Queued
  <2>3. \A i, j \in DOMAIN q : q[i] = q[j] => i = j
    BY <2>1 DEF FlightInv
  <2>4. /\ new \in Seq(PublicTasks) /\ Len(new) = Len(q) - 1
        /\ \A i \in 1 .. Len(q) - 1 : new[i] = IF i < p THEN q[i] ELSE q[i + 1]
    <3> HIDE DEF q
    <3> QED BY <2>1, <2>2, <2>3, LeavingQueue
  <2>5. /\ users' = [users EXCEPT ![e0] = new]
        /\ locks' = [locks EXCEPT ![read[t].key] =
                       IF @ = e0 /\ users'[e0] = <<>> THEN NoReader ELSE @]
    BY <1>8 DEF EndsFlight, LeavesEntry
  <2>6. Len(q) \in Nat /\ DOMAIN q = 1 .. Len(q) /\ DOMAIN new = 1 .. Len(q) - 1
    BY <2>1, <2>4
  <2> HIDE DEF new
  <2>7. users'[e0] = new /\ \A e \in PublicTasks : e # e0 => users'[e] = users[e]
    BY <2>1, <2>5 DEF FlightInv, PublicTypeOK
  <2>8. PublicTypeOK'
    BY <1>3, <2>4, <2>5 DEF FlightInv, PublicTypeOK
  <2>9. ASSUME NEW u \in PublicTasks, read'[u].entry # NoReader PROVE Queued(u)'
    <3>0. u # t /\ read'[u] = read[u] /\ read[u].entry # NoReader
      BY <1>3, <2>9
    <3>1. u # t /\ read'[u] = read[u] /\ Queued(u) /\ read[u].entry # NoReader
          /\ read[u].entry \in PublicTasks /\ read[u].key \in PublicKeys
      <4>1. Queued(u)
        BY <3>0 DEF FlightInv
      <4>2. read[u] \in ReadRow
        BY DEF FlightInv, PublicTypeOK
      <4> QED BY <3>0, <4>1, <4>2 DEF Queued, ReadRow
    <3>2. CASE read[u].entry # e0
      <4>1. users'[read[u].entry] = users[read[u].entry]
        BY <2>7, <3>1, <3>2
      <4>2. read[u].key # read[t].key
        BY <2>1, <3>1, <3>2 DEF Queued
      <4>3. locks'[read[u].key] = locks[read[u].key]
        BY <2>5, <3>1, <4>2 DEF FlightInv, PublicTypeOK
      <4> QED BY <3>1, <4>1, <4>3 DEF Queued
    <3>3. CASE read[u].entry = e0
      <4>1. PICK i \in DOMAIN q : q[i] = u
        BY <3>1, <3>3 DEF Queued
      <4>2. i # p
        BY <2>2, <3>1, <4>1
      <4>3. PICK j \in 1 .. Len(q) - 1 : new[j] = u
        <5>1. CASE i < p
          <6>1. i \in 1 .. Len(q) - 1
            BY <2>2, <2>6, <4>1, <5>1
          <6> QED BY <2>4, <4>1, <5>1, <6>1
        <5>2. CASE i > p
          <6>1. i - 1 \in 1 .. Len(q) - 1 /\ ~(i - 1 < p) /\ (i - 1) + 1 = i
            BY <2>2, <2>6, <4>1, <5>2
          <6>2. new[i - 1] = q[(i - 1) + 1]
            BY <2>4, <6>1
          <6> QED BY <4>1, <6>1, <6>2
        <5> QED BY <2>2, <2>6, <4>2, <5>1, <5>2
      <4>4. new # <<>>
        BY <2>4, <2>6, <4>3
      <4>5. locks' = locks
        BY <2>5, <2>7, <4>4 DEF FlightInv, PublicTypeOK
      <4>6. read[u].pc \in Flying => new[1] = u
        <5> SUFFICES ASSUME read[u].pc \in Flying PROVE new[1] = u
          OBVIOUS
        <5>1. q[1] = u
          BY <3>1, <3>3 DEF Queued
        <5>2. p # 1
          BY <2>2, <3>1, <5>1
        <5>3. 1 < p /\ 1 \in 1 .. Len(q) - 1
          BY <2>2, <2>6, <5>2
        <5> QED BY <2>4, <5>1, <5>3
      <4> QED BY ZenonT(40), <2>6, <2>7, <3>1, <3>3, <4>3, <4>5, <4>6 DEF Queued
    <3> QED BY <3>2, <3>3
  <2>10. ASSUME NEW e \in PublicTasks, NEW i \in DOMAIN users'[e], NEW j \in DOMAIN users'[e]
         PROVE  /\ read'[users'[e][i]].entry = e
                /\ users'[e][i] = users'[e][j] => i = j
    <3>1. CASE e # e0
      <4>1. users'[e] = users[e]
        BY <2>7, <3>1
      <4>2. read[users[e][i]].entry = e /\ (users[e][i] = users[e][j] => i = j)
        BY <2>10, <4>1 DEF FlightInv
      <4>3. users[e][i] # t /\ users[e][i] \in PublicTasks
        BY <1>6, <2>10, <3>1, <4>1, <4>2
      <4> QED BY <1>3, <4>1, <4>2, <4>3
    <3>2. CASE e = e0
      <4> DEFINE at1(n) == IF n < p THEN n ELSE n + 1
      <4>1. i \in 1 .. Len(q) - 1 /\ j \in 1 .. Len(q) - 1
        BY <2>6, <2>7, <2>10, <3>2
      <4>2. /\ at1(i) \in DOMAIN q /\ at1(j) \in DOMAIN q /\ at1(i) # p
            /\ at1(i) = at1(j) => i = j
        BY <2>2, <2>6, <4>1
      <4>3. new[i] = q[at1(i)] /\ new[j] = q[at1(j)]
        BY <2>4, <4>1
      <4>4. q[at1(i)] # t /\ q[at1(i)] \in PublicTasks /\ read[q[at1(i)]].entry = e0
        BY <1>6, <2>1, <2>2, <2>3, <4>2 DEF FlightInv
      <4>5. q[at1(i)] = q[at1(j)] => i = j
        BY <2>3, <4>2
      <4> HIDE DEF at1
      <4> QED BY <1>3, <2>7, <3>2, <4>3, <4>4, <4>5
    <3> QED BY <3>1, <3>2
  <2> HIDE DEF q, e0
  <2> QED BY <1>4, <2>8, <2>9, <2>10 DEF FlightInv
<1> QED BY <1>7, <1>8

\* What Onward does to a call's row.
LEMMA OnwardMoves ==
  ASSUME FlightInv, NEW t \in PublicTasks, NEW change, Onward(t, change),
         NEW row \in ReadRow,
         \A f \in {"pc", "key", "entry", "source", "tries"} :
           row[f] = IF f \in DOMAIN change THEN change[f] ELSE read[t][f]
  PROVE  read' = [read EXCEPT ![t] = row]
<1> DEFINE new == [f \in DOMAIN read[t] |-> IF f \in DOMAIN change THEN change[f] ELSE read[t][f]]
<1>1. DOMAIN read[t] = {"pc", "key", "entry", "source", "tries"}
  BY DEF FlightInv, PublicTypeOK, ReadRow
<1>2. DOMAIN row = {"pc", "key", "entry", "source", "tries"}
  BY DEF ReadRow
<1>3. row = [f \in DOMAIN row |-> row[f]]
  BY DEF ReadRow
<1>4. new = row
  BY <1>1, <1>2, <1>3
<1> QED BY <1>4 DEF Onward

\* The calls that have no part in the queue of a lock yet, or stand first in it.
LEMMA AskingIsSafe ==
  ASSUME FlightInv, NEW t \in PublicTasks, NEW change, Onward(t, change),
         DOMAIN change \subseteq {"pc", "source", "tries"},
         "pc" \in DOMAIN change, change["pc"] \in Flying,
         "source" \in DOMAIN change => change["source"] \in Nat,
         "tries" \in DOMAIN change => change["tries"] \in Nat,
         read[t].pc \in Flying \/ (read[t].pc = "waiting" /\ users[read[t].entry][1] = t),
         users' = users, locks' = locks
  PROVE  FlightInv'
<1>1. read[t] \in ReadRow
  BY DEF FlightInv, PublicTypeOK
<1> DEFINE new(f) == IF f \in DOMAIN change THEN change[f] ELSE read[t][f]
           row == [pc |-> new("pc"), key |-> new("key"), entry |-> new("entry"),
                   source |-> new("source"), tries |-> new("tries")]
<1>2. row \in ReadRow /\ row.pc \in Flying /\ row.entry = read[t].entry /\ row.key = read[t].key
  BY <1>1 DEF ReadRow
<1>3. \A f \in {"pc", "key", "entry", "source", "tries"} : row[f] = new(f)
  OBVIOUS
<1> HIDE DEF row
<1>4. read' = [read EXCEPT ![t] = row]
  BY <1>2, <1>3, OnwardMoves
<1>5. read[t].entry # NoReader => users[row.entry][1] = t
  BY <1>2 DEF FlightInv, Queued
<1> QED BY <1>2, <1>4, <1>5, GoingOnIsSafe

LEMMA TryingNextIsSafe ==
  ASSUME FlightInv, NEW t \in PublicTasks, read[t].pc \in Flying, TriesNext(t)
  PROVE  FlightInv'
<1>1. CASE read[t].source < Len(Route)
  <2> DEFINE change == [pc |-> "asking", source |-> read[t].source + 1, tries |-> 0]
  <2>1. Onward(t, change) /\ users' = users /\ locks' = locks
    BY <1>1 DEF TriesNext
  <2>2. read[t].source \in Nat
    BY DEF FlightInv, PublicTypeOK, ReadRow
  <2>3. DOMAIN change = {"pc", "source", "tries"} /\ change["pc"] \in Flying
        /\ change["source"] \in Nat /\ change["tries"] \in Nat
    BY <2>2 DEF Flying
  <2> HIDE DEF change
  <2> QED BY <2>1, <2>3, AskingIsSafe
<1>2. CASE ~(read[t].source < Len(Route))
  BY <1>2, EndingIsSafe DEF TriesNext, FailsFlight
<1> QED BY <1>1, <1>2

LEMMA TryingAgainIsSafe ==
  ASSUME FlightInv, NEW t \in PublicTasks, read[t].pc \in Flying, TriesAgain(t)
  PROVE  FlightInv'
<1>1. CASE read[t].tries = 0
  <2> DEFINE change == [pc |-> "asking", tries |-> 1]
  <2>1. Onward(t, change) /\ users' = users /\ locks' = locks
    BY <1>1 DEF TriesAgain
  <2>2. DOMAIN change = {"pc", "tries"} /\ change["pc"] \in Flying /\ change["tries"] \in Nat
    BY DEF Flying
  <2> HIDE DEF change
  <2> QED BY <2>1, <2>2, AskingIsSafe
<1>2. CASE read[t].tries # 0
  BY <1>2, TryingNextIsSafe DEF TriesAgain
<1> QED BY <1>1, <1>2

\* Taking a step that only moves the program counter among the flying ones.
LEMMA MovingOnIsSafe ==
  ASSUME FlightInv, NEW t \in PublicTasks, NEW pc \in Flying, Onward(t, [pc |-> pc]),
         read[t].pc \in Flying \/ (read[t].pc = "waiting" /\ users[read[t].entry][1] = t),
         users' = users, locks' = locks
  PROVE  FlightInv'
<1> DEFINE change == [pc |-> pc]
<1>1. DOMAIN change = {"pc"} /\ change["pc"] \in Flying /\ Onward(t, change)
  OBVIOUS
<1> HIDE DEF change
<1> QED BY <1>1, AskingIsSafe

LEMMA ReadStepIsSafe ==
  ASSUME FlightInv, NEW t \in PublicTasks, ReadStep(t)
  PROVE  FlightInv'
<1>1. CASE TakesLock(t)
  <2>1. CASE EndsFlight(t)
    BY <2>1, EndingIsSafe
  <2>2. CASE Onward(t, [pc |-> "asking"]) /\ UNCHANGED <<users, locks>>
    <3>1. read[t].pc = "waiting" /\ users[read[t].entry][1] = t
      BY <1>1 DEF TakesLock
    <3> QED BY <2>2, <3>1, MovingOnIsSafe DEF Flying
  <2> QED BY <1>1, <2>1, <2>2 DEF TakesLock
<1>2. CASE Asks(t)
  <2>1. read[t].pc \in Flying
    BY <1>2 DEF Asks, Flying
  <2>2. CASE TriesAgain(t)
    BY <2>1, <2>2, TryingAgainIsSafe
  <2>3. CASE Onward(t, [pc |-> "gated"]) /\ UNCHANGED <<kept, locks, users>>
    BY <2>1, <2>3, MovingOnIsSafe DEF Flying
  <2> QED BY <1>2, <2>2, <2>3 DEF Asks
<1>3. CASE Starts(t)
  BY <1>3, MovingOnIsSafe DEF Starts, Granted, Flying
<1>4. CASE BudgetEnds(t)
  BY <1>4, TryingNextIsSafe, EndingIsSafe DEF BudgetEnds, FailsFlight, Flying
<1>5. CASE GetsData(t)
  BY <1>5, EndingIsSafe DEF GetsData
<1>6. CASE GetsRubbish(t)
  BY <1>6, EndingIsSafe DEF GetsRubbish, FailsFlight
<1>7. CASE GetsNothing(t)
  BY <1>7, TryingNextIsSafe, EndingIsSafe DEF GetsNothing, FailsFlight, Flying
<1>8. CASE GetsRefusal(t)
  BY <1>8, TryingAgainIsSafe DEF GetsRefusal, Flying
<1>9. CASE LosesConnection(t)
  BY <1>9, TryingAgainIsSafe DEF LosesConnection, Flying
<1>10. CASE TimesOut(t)
  BY <1>10, TryingAgainIsSafe DEF TimesOut, Flying
<1> QED BY <1>1, <1>2, <1>3, <1>4, <1>5, <1>6, <1>7, <1>8, <1>9, <1>10 DEF ReadStep

\* A preflight reads past the cache and its locks.
LEMMA ReadingFreshIsSafe ==
  ASSUME FlightInv, NEW t \in PublicTasks, NEW k \in PublicKeys, ReadsFresh(t, k)
  PROVE  FlightInv'
<1> DEFINE change == [pc |-> "asking", key |-> k]
           row == [pc |-> "asking", key |-> k, entry |-> NoReader,
                   source |-> read[t].source, tries |-> read[t].tries]
<1>1. read[t] \in ReadRow /\ read[t].entry = NoReader
  BY DEF ReadsFresh, FlightInv, PublicTypeOK
<1>2. row \in ReadRow /\ row.pc \in Flying /\ row.entry = read[t].entry
  BY <1>1 DEF ReadRow, Flying
<1>3. \A f \in {"pc", "key", "entry", "source", "tries"} :
        row[f] = IF f \in DOMAIN change THEN change[f] ELSE read[t][f]
  BY <1>1
<1>4. Onward(t, change) /\ users' = users /\ locks' = locks
  BY DEF ReadsFresh
<1> HIDE DEF row, change
<1>5. read' = [read EXCEPT ![t] = row]
  BY <1>2, <1>3, <1>4, OnwardMoves
<1> QED BY <1>1, <1>2, <1>4, <1>5, GoingOnIsSafe

\* A call that finds no answer queues at the lock of its key, behind whoever
\* stands there.
LEMMA ReadingIsSafe ==
  ASSUME FlightInv, NEW t \in PublicTasks, NEW k \in PublicKeys, Reads(t, k)
  PROVE  FlightInv'
<1>0. read[t].pc = "idle" /\ read[t].entry = NoReader /\ read[t] \in ReadRow
  BY DEF Reads, FlightInv, PublicTypeOK
<1>1. CASE k \in kept
  BY <1>0, <1>1, EndingIsSafe DEF Reads, EndsFlight
<1>2. CASE k \notin kept
  <2> DEFINE e0 == IF locks[k] = NoReader THEN t ELSE locks[k]
             change == [pc |-> "waiting", key |-> k, entry |-> e0]
             row == [pc |-> "waiting", key |-> k, entry |-> e0,
                     source |-> read[t].source, tries |-> read[t].tries]
  <2>1. NoReader \notin PublicTasks /\ e0 \in PublicTasks /\ e0 # NoReader
    BY PublicAssumption DEF NoReader, FlightInv, PublicTypeOK
  <2>2. row \in ReadRow
    BY <1>0, <2>1 DEF ReadRow
  <2>3. \A f \in {"pc", "key", "entry", "source", "tries"} :
          row[f] = IF f \in DOMAIN change THEN change[f] ELSE read[t][f]
    OBVIOUS
  <2>4. /\ Onward(t, change)
        /\ locks' = [locks EXCEPT ![k] = e0]
        /\ users' = [users EXCEPT ![e0] = Append(users[e0], t)]
    BY <1>2, <2>1 DEF Reads, FlightInv, PublicTypeOK
  <2>5. locks[k] # NoReader => e0 = locks[k]
    OBVIOUS
  <2>6. row.pc = "waiting" /\ row.key = k /\ row.entry = e0
    OBVIOUS
  <2> HIDE DEF row, change, e0
  <2>7. read' = [read EXCEPT ![t] = row]
    BY <2>2, <2>3, <2>4, OnwardMoves
  <2>8. read'[t] = row /\ \A u \in PublicTasks : u # t => read'[u] = read[u]
    BY <2>7 DEF FlightInv, PublicTypeOK
  <2> DEFINE q == users[e0]
             new == Append(q, t)
  <2>9. q \in Seq(PublicTasks) /\ \A i \in DOMAIN q : q[i] \in PublicTasks
    BY <2>1 DEF FlightInv, PublicTypeOK
  <2>10. users'[e0] = new /\ \A e \in PublicTasks : e # e0 => users'[e] = users[e]
    BY <2>1, <2>4 DEF FlightInv, PublicTypeOK
  <2>11. /\ new \in Seq(PublicTasks) /\ Len(q) \in Nat /\ DOMAIN q = 1 .. Len(q)
         /\ DOMAIN new = 1 .. Len(q) + 1 /\ new[Len(q) + 1] = t
         /\ \A i \in DOMAIN q : new[i] = q[i]
    BY <2>9
  <2> HIDE DEF q, new
  <2>12. users' \in [PublicTasks -> Seq(PublicTasks)]
    BY <2>1, <2>4, <2>11 DEF FlightInv, PublicTypeOK, q, new
  <2>13. PublicTypeOK'
    BY <2>1, <2>2, <2>4, <2>7, <2>12 DEF FlightInv, PublicTypeOK
  <2>14. \A u \in PublicTasks : read'[u].pc \in {"idle", "done"} => read'[u].entry = NoReader
    BY <2>6, <2>8 DEF FlightInv
  <2>15. ASSUME NEW u \in PublicTasks, read'[u].entry # NoReader PROVE Queued(u)'
    <3>1. CASE u = t
      <4>1. locks'[k] = e0
        BY <2>4 DEF FlightInv, PublicTypeOK
      <4>2. Len(q) + 1 \in DOMAIN new
        BY <2>11
      <4> QED BY <2>6, <2>8, <2>10, <2>11, <3>1, <4>1, <4>2 DEF Queued, Flying
    <3>2. CASE u # t
      <4>1. Queued(u) /\ read'[u] = read[u] /\ read[u].entry # NoReader
        BY <2>8, <2>15, <3>2 DEF FlightInv
      <4>2. read[u].entry \in PublicTasks
        BY <4>1 DEF FlightInv, PublicTypeOK, ReadRow
      <4>3. locks'[read[u].key] = read[u].entry
        BY <2>4, <2>5, <4>1 DEF FlightInv, PublicTypeOK, Queued
      <4>4. CASE read[u].entry # e0
        <5>1. users'[read[u].entry] = users[read[u].entry]
          BY <2>10, <4>2, <4>4
        <5> QED BY <4>1, <4>3, <5>1 DEF Queued
      <4>5. CASE read[u].entry = e0
        <5>1. PICK i \in DOMAIN q : q[i] = u
          BY <4>1, <4>5 DEF Queued, q
        <5>2. i \in DOMAIN new /\ new[i] = u /\ 1 \in DOMAIN q
          BY <2>11, <5>1
        <5>3. read[u].pc \in Flying => new[1] = u
          BY <2>11, <4>1, <4>5, <5>2 DEF Queued, q
        <5> QED BY <2>10, <4>1, <4>3, <4>5, <5>2, <5>3 DEF Queued
      <4> QED BY <4>4, <4>5
    <3> QED BY <3>1, <3>2
  <2>16. ASSUME NEW e \in PublicTasks, NEW i \in DOMAIN users'[e], NEW j \in DOMAIN users'[e]
         PROVE  /\ read'[users'[e][i]].entry = e
                /\ users'[e][i] = users'[e][j] => i = j
    <3>1. CASE e # e0
      <4>1. users'[e] = users[e]
        BY <2>10, <3>1
      <4>2. /\ read[users[e][i]].entry = e /\ users[e][i] \in PublicTasks
            /\ users[e][i] = users[e][j] => i = j
        BY <2>16, <4>1 DEF FlightInv, PublicTypeOK
      <4>3. users[e][i] # t
        BY <1>0, <2>1, <4>2
      <4> QED BY <2>8, <4>1, <4>2, <4>3
    <3>2. CASE e = e0
      <4>0. \A n \in DOMAIN q : read[q[n]].entry = e0
        BY <2>1 DEF FlightInv, q
      <4>1. \A n, m \in DOMAIN q : q[n] = q[m] => n = m
        BY <2>1 DEF FlightInv, q
      <4>2. \A n \in DOMAIN q : q[n] # t /\ read'[q[n]].entry = e0
        <5> SUFFICES ASSUME NEW n \in DOMAIN q PROVE q[n] # t /\ read'[q[n]].entry = e0
          OBVIOUS
        <5>1. read[q[n]].entry = e0 /\ q[n] \in PublicTasks
          BY <2>9, <4>0
        <5> QED BY <1>0, <2>1, <2>8, <5>1
      <4>3. i \in 1 .. Len(q) + 1 /\ j \in 1 .. Len(q) + 1
        BY <2>10, <2>11, <2>16, <3>2
      <4>4. (i \in DOMAIN q \/ i = Len(q) + 1) /\ (j \in DOMAIN q \/ j = Len(q) + 1)
        BY <2>11, <4>3
      <4>5. new[i] = new[j] => i = j
        <5>1. CASE i \in DOMAIN q /\ j \in DOMAIN q
          <6>1. new[i] = q[i] /\ new[j] = q[j]
            BY <2>11, <5>1
          <6> QED BY <4>1, <5>1, <6>1
        <5>2. CASE i = Len(q) + 1 \/ j = Len(q) + 1
          BY <2>11, <4>2, <4>4, <5>2
        <5> QED BY <4>4, <5>1, <5>2
      <4>6. read'[new[i]].entry = e0
        <5>1. CASE i \in DOMAIN q
          BY <2>11, <4>2, <5>1
        <5>2. CASE i = Len(q) + 1
          BY <2>6, <2>8, <2>11, <5>2
        <5> QED BY <4>4, <5>1, <5>2
      <4> QED BY <2>10, <3>2, <4>5, <4>6
    <3> QED BY <3>1, <3>2
  <2> QED BY <2>13, <2>14, <2>15, <2>16 DEF FlightInv
<1> QED BY <1>1, <1>2

LEMMA ReadsInOrder == Spec => []FlightInv
<1>1. Init => FlightInv
  <2> SUFFICES ASSUME Init PROVE FlightInv
    OBVIOUS
  <2>1. /\ locks = [k \in PublicKeys |-> NoReader] /\ users = [t \in PublicTasks |-> <<>>]
        /\ read = [t \in PublicTasks |-> [pc |-> "idle", key |-> "none", entry |-> NoReader,
                                          source |-> 1, tries |-> 0]]
    BY DEF Init, PublicInit, NotReading
  <2>2. PublicTypeOK
    BY <2>1 DEF PublicTypeOK, ReadRow
  <2>3. \A t \in PublicTasks : read[t].entry = NoReader /\ DOMAIN users[t] = {}
    BY <2>1
  <2> QED BY <2>2, <2>3 DEF FlightInv
<1>2. FlightInv /\ [Next]_vars => FlightInv'
  <2> SUFFICES ASSUME FlightInv, [Next]_vars PROVE FlightInv'
    OBVIOUS
  <2>1. UNCHANGED publicVars \/ PublicNext
    BY DEF Next, Only, vars
  <2>2. ASSUME read' = read, users' = users, locks' = locks PROVE FlightInv'
    BY <2>2 DEF FlightInv, PublicTypeOK, Queued
  <2>3. CASE UNCHANGED publicVars
    BY <2>2, <2>3 DEF publicVars
  <2>4. ASSUME NEW t \in PublicTasks, ReadStep(t) PROVE FlightInv'
    BY <2>4, ReadStepIsSafe
  <2>5. ASSUME NEW t \in PublicTasks, Cancelled(t) PROVE FlightInv'
    BY <2>5, EndingIsSafe DEF Cancelled, FailsFlight
  <2>6. ASSUME NEW t \in PublicTasks, NEW k \in PublicKeys, Reads(t, k) \/ ReadsFresh(t, k)
        PROVE  FlightInv'
    BY <2>6, ReadingIsSafe, ReadingFreshIsSafe
  <2>7. ASSUME NEW l \in Lanes, LaneRested(l) PROVE FlightInv'
    BY <2>2, <2>7 DEF LaneRested
  <2>8. ASSUME NEW k \in PublicKeys, EntryExpires(k) PROVE FlightInv'
    BY <2>2, <2>8 DEF EntryExpires
  <2> QED BY <2>1, <2>3, <2>4, <2>5, <2>6, <2>7, <2>8 DEF PublicNext
<1> QED BY <1>1, <1>2, PTL DEF Spec

\* For any number of tasks, keys and sources, however calls fail, are cancelled
\* or run out of time: a key is loaded by one of them at a time.
THEOREM ReadsShareAFlight == Spec => []OneFlight
<1>1. FlightInv => OneFlight
  <2> SUFFICES ASSUME FlightInv, NEW t \in PublicTasks, NEW u \in PublicTasks,
                      {read[t].pc, read[u].pc} \subseteq {"asking", "gated", "sent"},
                      read[t].entry # NoReader, read[u].entry # NoReader,
                      read[t].key = read[u].key
               PROVE  t = u
    BY DEF OneFlight
  <2>1. Queued(t) /\ Queued(u)
    BY DEF FlightInv
  <2> QED BY <2>1 DEF Queued, Flying
<1> QED BY <1>1, ReadsInOrder, PTL

------------------------------------------------------------------------------
(* The trace of a run. *)

Kinds    == {"result", "prompt", "status", "tool", "thinking"}
Statuses == {"pending", "running", "completed", "failed"}
Step == [id : Kinds \X Nat, status : Statuses, text : SUBSET Nat]
All(steps) == {steps[i] : i \in DOMAIN steps}
Unique(steps) == \A i, j \in DOMAIN steps : steps[i].id = steps[j].id => i = j
ResultIsLast(steps) == \A i \in DOMAIN steps : steps[i].id = ResultId => i = Len(steps)
WellListed(steps) == steps \in Seq(Step) /\ Unique(steps)

LEMMA ResultMoves ==
  ASSUME NEW steps, WellListed(steps)
  PROVE  /\ WellListed(ResultLast(steps)) /\ ResultIsLast(ResultLast(steps))
         /\ All(ResultLast(steps)) = All(steps)
<1>1. CASE ~Holds(steps, ResultId)
  BY <1>1 DEF ResultLast, Holds, ResultIsLast
<1>2. CASE Holds(steps, ResultId)
  <2> DEFINE spot == CHOOSE i \in DOMAIN steps : steps[i].id = ResultId
             n  == Len(steps)
             q  == [i \in 1 .. n |-> IF i < spot THEN steps[i] ELSE IF i < n THEN steps[i + 1] ELSE steps[spot]]
  <2>1. n \in Nat /\ DOMAIN steps = 1 .. n /\ spot \in 1 .. n /\ steps[spot].id = ResultId
    BY <1>2 DEF Holds, WellListed
  <2>2. ResultLast(steps) = q
    BY <1>2, <2>1 DEF ResultLast
  <2>3. \A i \in 1 .. n : steps[i] \in Step
    BY <2>1 DEF WellListed
  <2>4. \A i, j \in 1 .. n : steps[i].id = steps[j].id => i = j
    BY <2>1 DEF WellListed, Unique
  <2> HIDE DEF spot, n
  <2>5. q \in [1 .. n -> Step]
    BY <2>1, <2>3
  <2>6. q \in Seq(Step) /\ Len(q) = n /\ DOMAIN q = 1 .. n
    BY <2>1, <2>5
  <2>7. \A i, j \in 1 .. n : q[i].id = q[j].id => i = j
    BY <2>1, <2>4
  <2>8. \A i \in 1 .. n : q[i].id = ResultId => i = n
    BY <2>1, <2>4
  <2>9. \A i \in 1 .. n : \E j \in 1 .. n : q[i] = steps[j]
    BY <2>1
  <2>10. \A j \in 1 .. n : \E i \in 1 .. n : q[i] = steps[j]
    <3> TAKE j \in 1 .. n
    <3>1. CASE j < spot
      BY <3>1, <2>1
    <3>2. CASE j = spot
      BY <3>2, <2>1
    <3>3. CASE j > spot
      <4>1. j - 1 \in 1 .. n /\ q[j - 1] = steps[j]
        BY <3>3, <2>1
      <4> QED BY <4>1
    <3> QED BY <3>1, <3>2, <3>3, <2>1
  <2>11. All(q) = All(steps)
    <3> HIDE DEF q
    <3>1. All(q) = {q[i] : i \in 1 .. n} /\ All(steps) = {steps[i] : i \in 1 .. n}
      BY <2>1, <2>6 DEF All
    <3> QED BY <2>9, <2>10, <3>1
  <2> QED BY <2>2, <2>6, <2>7, <2>8, <2>11 DEF WellListed, Unique, ResultIsLast
<1> QED BY <1>1, <1>2

\* A step as upsert_trace_step makes it.
NewStep(id, status, text) == [id |-> id, status |-> status, text |-> text]
\* steps with one of them in the place of those with its id
Swapped(steps, new) == {x \in All(steps) : x.id # new.id} \cup {new}

\* A list with one more.
LEMMA OneMore ==
  ASSUME NEW steps \in Seq(Step), NEW step \in Step
  PROVE  /\ Append(steps, step) \in Seq(Step) /\ Len(Append(steps, step)) = Len(steps) + 1
         /\ Append(steps, step)[Len(steps) + 1] = step
         /\ \A i \in 1 .. Len(steps) : Append(steps, step)[i] = steps[i]
  OBVIOUS

\* What putting a step under its id leaves in the list.
LEMMA PutFacts ==
  ASSUME NEW steps, WellListed(steps), NEW id \in Kinds \X Nat, NEW status \in Statuses,
         NEW text \in SUBSET Nat
  PROVE  /\ WellListed(Put(steps, id, status, text))
         /\ All(Put(steps, id, status, text)) = Swapped(steps, NewStep(id, status, text))
<1> DEFINE step == [id |-> id, status |-> status, text |-> text]
           n == Len(steps)
<1>1. n \in Nat /\ DOMAIN steps = 1 .. n /\ step \in Step /\ step.id = id
  BY DEF WellListed, Step
<1>2. \A i \in 1 .. n : steps[i] \in Step
  BY <1>1 DEF WellListed
<1>3. \A i, j \in 1 .. n : steps[i].id = steps[j].id => i = j
  BY <1>1 DEF WellListed, Unique
<1>4. CASE Holds(steps, id)
  <2> DEFINE q == [i \in 1 .. n |-> IF steps[i].id = id THEN step ELSE steps[i]]
  <2>1. Put(steps, id, status, text) = q
    BY <1>1, <1>4 DEF Put
  <2>2. PICK k \in 1 .. n : steps[k].id = id
    BY <1>1, <1>4 DEF Holds
  <2> HIDE DEF step, n
  <2>3. q \in [1 .. n -> Step]
    BY <1>1, <1>2
  <2>4. q \in Seq(Step) /\ DOMAIN q = 1 .. n
    BY <1>1, <2>3
  <2>5. \A i, j \in 1 .. n : q[i].id = q[j].id => i = j
    BY <1>1, <1>3
  <2>6. All(q) = {x \in All(steps) : x.id # id} \cup {step}
    BY <1>1, <2>2 DEF All
  <2> QED BY <1>1, <2>1, <2>4, <2>5, <2>6 DEF WellListed, Unique, step, Swapped, NewStep
<1>5. CASE ~Holds(steps, id)
  <2> DEFINE q == Append(steps, step)
  <2>1. Put(steps, id, status, text) = q
    BY <1>5 DEF Put
  <2>2. \A i \in 1 .. n : steps[i].id # id
    BY <1>1, <1>5 DEF Holds
  <2> HIDE DEF step
  <2>3. q \in Seq(Step) /\ Len(q) = n + 1 /\ q[n + 1] = step /\ \A i \in 1 .. n : q[i] = steps[i]
    BY <1>1 DEF WellListed
  <2> HIDE DEF q, n
  <2>4. DOMAIN q = 1 .. n + 1
    BY <1>1, <2>3
  <2>5. \A i, j \in 1 .. n + 1 : q[i].id = q[j].id => i = j
    BY <1>1, <1>3, <2>2, <2>3
  <2>6. All(q) = {x \in All(steps) : x.id # id} \cup {step}
    BY <1>1, <2>2, <2>3, <2>4 DEF All
  <2> QED BY <1>1, <2>1, <2>3, <2>4, <2>5, <2>6 DEF WellListed, Unique, step, Swapped, NewStep
<1> QED BY <1>4, <1>5

LEMMA PutKeepsResultLast ==
  ASSUME NEW steps, WellListed(steps), ResultIsLast(steps), NEW status \in Statuses,
         NEW text \in SUBSET Nat
  PROVE  ResultIsLast(Put(steps, ResultId, status, text))
<1> DEFINE step == [id |-> ResultId, status |-> status, text |-> text]
           n == Len(steps)
<1>1. n \in Nat /\ DOMAIN steps = 1 .. n /\ \A i \in 1 .. n : steps[i].id = ResultId => i = n
  BY DEF WellListed, ResultIsLast
<1>2. CASE Holds(steps, ResultId)
  <2> DEFINE q == [i \in 1 .. n |-> IF steps[i].id = ResultId THEN step ELSE steps[i]]
  <2>1. Put(steps, ResultId, status, text) = q
    BY <1>1, <1>2 DEF Put
  <2> HIDE DEF step, n
  <2>2. Len(q) = n /\ DOMAIN q = 1 .. n
    BY <1>1
  <2>3. \A i \in 1 .. n : q[i].id = ResultId => i = n
    BY <1>1
  <2> QED BY <2>1, <2>2, <2>3 DEF ResultIsLast
<1>3. CASE ~Holds(steps, ResultId)
  <2>1. Put(steps, ResultId, status, text) = Append(steps, step)
    BY <1>3 DEF Put
  <2>2. \A i \in 1 .. n : steps[i].id # ResultId
    BY <1>1, <1>3 DEF Holds
  <2> DEFINE q == Append(steps, step)
  <2>3. step \in Step
    <3>1. ResultId \in Kinds \X Nat
      BY DEF ResultId, Kinds
    <3> QED BY <3>1 DEF Step
  <2> HIDE DEF step
  <2>4. q \in Seq(Step) /\ Len(q) = n + 1 /\ \A i \in 1 .. n : q[i] = steps[i]
    BY <2>3, OneMore DEF WellListed
  <2> HIDE DEF q, n
  <2>5. DOMAIN q = 1 .. n + 1
    BY <1>1, <2>4
  <2>6. \A i \in 1 .. n + 1 : q[i].id = ResultId => i = n + 1
    BY <1>1, <2>2, <2>4
  <2> QED BY <2>1, <2>4, <2>5, <2>6 DEF ResultIsLast, q
<1> QED BY <1>2, <1>3

\* What ends a running step.
Shut(x, status) == IF x.status = "running" THEN [x EXCEPT !.status = status] ELSE x

\* A step changed in its place.
LEMMA ChangedInPlace ==
  ASSUME NEW steps, WellListed(steps), NEW q,
         DOMAIN q = DOMAIN steps, q = [i \in DOMAIN steps |-> q[i]],
         \A i \in DOMAIN steps : q[i] \in Step /\ q[i].id = steps[i].id
  PROVE  WellListed(q) /\ (ResultIsLast(steps) => ResultIsLast(q))
<1> DEFINE n == Len(steps)
<1>1. n \in Nat /\ DOMAIN steps = 1 .. n
  BY DEF WellListed
<1> HIDE DEF n
<1>2. q \in [1 .. n -> Step]
  BY <1>1
<1>3. q \in Seq(Step) /\ Len(q) = n
  BY <1>1, <1>2
<1>4. Unique(q)
  BY <1>1 DEF WellListed, Unique
<1>5. ResultIsLast(steps) => ResultIsLast(q)
  BY <1>1, <1>3 DEF ResultIsLast, n
<1> QED BY <1>3, <1>4, <1>5 DEF WellListed

\* What closing the running steps leaves in the list.
LEMMA ClosedFacts ==
  ASSUME NEW steps, WellListed(steps), NEW status \in Statuses
  PROVE  /\ WellListed(Closed(steps, status))
         /\ ResultIsLast(steps) => ResultIsLast(Closed(steps, status))
         /\ All(Closed(steps, status)) = {Shut(x, status) : x \in All(steps)}
<1> DEFINE q == Closed(steps, status)
<1>1. q = [i \in DOMAIN steps |-> Shut(steps[i], status)]
  BY DEF Closed, RunningSteps, Shut
<1>2. \A i \in DOMAIN steps : steps[i] \in Step
  BY DEF WellListed
<1> HIDE DEF q
<1>3. DOMAIN q = DOMAIN steps /\ q = [i \in DOMAIN steps |-> q[i]]
  BY <1>1
<1>4. \A i \in DOMAIN steps : q[i] \in Step /\ q[i].id = steps[i].id
  BY <1>1, <1>2 DEF Shut, Step, Statuses
<1>5. All(q) = {Shut(x, status) : x \in All(steps)}
  BY <1>1 DEF All
<1> QED BY <1>3, <1>4, <1>5, ChangedInPlace DEF q

\* Thinking that is under way.
ThinkingStep(x) == x.status = "running" /\ x.id[1] = "thinking"
OneThinks(steps) == \A x, y \in All(steps) : ThinkingStep(x) /\ ThinkingStep(y) => x = y

\* Changing a step to one that does not think leaves at most one thinking.
LEMMA ThinkingFacts ==
  ASSUME NEW steps, WellListed(steps), OneThinks(steps)
  PROVE  /\ Thinking(steps) = {i \in DOMAIN steps : ThinkingStep(steps[i])}
         /\ Thinking(steps) # {} =>
              Max(Thinking(steps)) \in Thinking(steps) /\ Thinking(steps) = {Max(Thinking(steps))}
<1>1. Thinking(steps) = {i \in DOMAIN steps : ThinkingStep(steps[i])}
  BY DEF Thinking, RunningSteps, ThinkingStep
<1>2. ASSUME NEW k \in Thinking(steps)
      PROVE  Thinking(steps) = {k}
  BY <1>1, <1>2 DEF OneThinks, All, WellListed, Unique
<1>3. ASSUME NEW k \in Thinking(steps)
      PROVE  Max(Thinking(steps)) = k
  <2>1. k \in Nat
    BY <1>1, <1>3 DEF WellListed
  <2>2. Max({k}) = k
    BY <2>1 DEF Max
  <2> QED BY <1>2, <1>3, <2>2
<1> QED BY <1>1, <1>2, <1>3

\* Once the thinking is closed, nothing thinks.
LEMMA ThinkingClosedFacts ==
  ASSUME NEW steps, WellListed(steps), OneThinks(steps)
  PROVE  /\ WellListed(ThinkingClosed(steps))
         /\ ResultIsLast(steps) => ResultIsLast(ThinkingClosed(steps))
         /\ All(ThinkingClosed(steps)) =
              {IF ThinkingStep(x) THEN [x EXCEPT !.status = "completed"] ELSE x : x \in All(steps)}
<1> DEFINE q == ThinkingClosed(steps)
           T(x) == IF ThinkingStep(x) THEN [x EXCEPT !.status = "completed"] ELSE x
<1>1. \A i \in DOMAIN steps : steps[i] \in Step
  BY DEF WellListed
<1>2. q = [i \in DOMAIN steps |-> T(steps[i])]
  <2>1. CASE Thinking(steps) = {}
    <3>1. q = steps /\ \A i \in DOMAIN steps : T(steps[i]) = steps[i]
      BY <2>1, ThinkingFacts DEF ThinkingClosed
    <3>2. steps = [i \in DOMAIN steps |-> steps[i]]
      BY DEF WellListed
    <3> QED BY <3>1, <3>2
  <2>2. CASE Thinking(steps) # {}
    <3> DEFINE k == Max(Thinking(steps))
    <3>1. k \in DOMAIN steps /\ \A i \in DOMAIN steps : ThinkingStep(steps[i]) <=> i = k
      BY <2>2, ThinkingFacts
    <3>2. q = [steps EXCEPT ![k].status = "completed"]
      BY <2>2 DEF ThinkingClosed
    <3> HIDE DEF k, q
    <3>3. q = [i \in DOMAIN steps |-> IF i = k THEN [steps[i] EXCEPT !.status = "completed"] ELSE steps[i]]
      BY <3>1, <3>2
    <3> QED BY <3>1, <3>3
  <2> QED BY <2>1, <2>2
<1> HIDE DEF q
<1>3. DOMAIN q = DOMAIN steps /\ q = [i \in DOMAIN steps |-> q[i]]
  BY <1>2
<1>0. \A x \in Step : T(x) \in Step /\ T(x).id = x.id
  BY DEF Step, Statuses
<1> HIDE DEF T
<1>4. \A i \in DOMAIN steps : q[i] \in Step /\ q[i].id = steps[i].id
  BY <1>0, <1>1, <1>2
<1>5. All(q) = {T(x) : x \in All(steps)}
  BY <1>2 DEF All
<1> QED BY <1>3, <1>4, <1>5, ChangedInPlace DEF q, T

\* A dropped draft leaves a result without text.
LEMMA DraftFacts ==
  ASSUME NEW steps, WellListed(steps)
  PROVE  /\ WellListed(DraftDropped(steps))
         /\ \A x \in All(DraftDropped(steps)) :
              \/ x \in All(steps)
              \/ x = NewStep(ResultId, "pending", {})
<1>1. ResultId \in Kinds \X Nat /\ "pending" \in Statuses
  BY DEF ResultId, Kinds, Statuses
<1> QED BY <1>1, PutFacts DEF DraftDropped, Swapped

\* The writer's places: in its loop, past its end, and where the text it has written is of this attempt.
Talking    == {"prompting", "asking", "requesting", "answering", "saying", "checking"}
Done    == {"ended", "failed", "closed"}
Streaming == {"asking", "saying", "checking"}

Ended(status) == status \notin {"pending", "running"}

\* Where the writer is, and what that says of the stages.
ScriptOK ==
  /\ script \in [watch : BOOLEAN, in : TraceStages, pc : {"ready", "broken"} \cup Talking \cup Done,
                 asked : SUBSET TraceTools, attempt : Nat]
  /\ stage \in [TraceStages -> [status : {"pending", "running", "completed", "degraded", "failed"},
                                steps : Seq(Step)]]
  /\ current \in {"none"} \cup TraceStages
  /\ script.asked # {} =>
       script.in = "Run" /\ script.pc \in {"requesting", "answering", "broken", "failed"}
  /\ script.pc = "ready" => stage[script.in].status = "pending"
  /\ script.pc \in Talking => stage[script.in].status = "running"
  /\ script.in = "Run" => stage["Summary"] = [status |-> "pending", steps |-> <<>>]
  /\ script.in = "Summary" => stage["Run"].status = "completed"
  /\ script.pc \in {"ended", "failed"} => Ended(stage[script.in].status)

\* A call that has not been answered.
RunningTool(x) == x.status = "running" /\ x.id[1] = "tool"
\* The result's text belongs to the attempt under way.
Fresh(s, scr) ==
  /\ scr.in = s
  /\ \/ s = "Run" /\ scr.pc \in {"ready"} \cup Talking
     \/ scr.pc \in Streaming

\* What is listed in stage s, given its status, the current stage and the script.
Told(steps, s, status, cur, scr) ==
  /\ WellListed(steps) /\ ResultIsLast(steps) /\ OneThinks(steps)
  /\ Ended(status) => cur # s /\ \A x \in All(steps) : x.status # "running"
  /\ \A x \in All(steps) :
       /\ x.id = ResultId =>
            /\ status = "completed" => x.text = {Report}
            /\ \E a \in Nat : x.text \subseteq {a}
            /\ Fresh(s, scr) => x.text \subseteq {scr.attempt}
       /\ RunningTool(x) =>
            /\ s = "Run" /\ \E c \in scr.asked : x.id = Tool(c)
            /\ \A y \in All(steps) : ~ThinkingStep(y)
       /\ s = "Summary" /\ x.id[1] = "thinking" => x.id = Thought(0)

\* The inductive invariant of the trace.
TraceInv ==
  /\ ScriptOK
  /\ \A s \in TraceStages : Told(stage[s].steps, s, stage[s].status, current, script)

LEMMA TraceOpens == TraceInit => TraceInv
<1> SUFFICES ASSUME TraceInit
             PROVE  TraceInv
  OBVIOUS
<1>1. WellListed(<<>>) /\ ResultIsLast(<<>>) /\ All(<<>>) = {}
  BY DEF WellListed, ResultIsLast, All, Unique
<1>2. \A s \in TraceStages : stage[s].steps = <<>> /\ stage[s].status = "pending"
  BY DEF TraceInit
<1>3. ScriptOK
  BY <1>1 DEF TraceInit, ScriptOK, TraceStages, WellListed, Talking, Done
<1> QED BY <1>1, <1>2, <1>3 DEF TraceInv, Told, Ended, OneThinks

\* TraceInv says what the page reads.
LEMMA TraceReadsSo == TraceInv => TraceTellsTheRun
<1> SUFFICES ASSUME TraceInv, NEW s \in TraceStages
             PROVE  LET steps == stage[s].steps
                        tools == {i \in RunningSteps(steps) : steps[i].id[1] = "tool"}
                    IN /\ stage[s].status \notin {"pending", "running"} => RunningSteps(steps) = {} /\ current # s
                       /\ \A i \in DOMAIN steps : steps[i].id = ResultId =>
                            /\ i = Len(steps)
                            /\ stage[s].status = "completed" => steps[i].text = {Report}
                            /\ Cardinality(steps[i].text) <= 1
                       /\ tools # {} => Thinking(steps) = {}
  BY DEF TraceTellsTheRun
<1> DEFINE steps == stage[s].steps
           status == stage[s].status
<1>1. Told(steps, s, status, current, script)
  BY DEF TraceInv
<1>2. \A i \in DOMAIN steps : steps[i] \in All(steps)
  BY DEF All
<1> HIDE DEF steps, status
<1>3. Ended(status) => RunningSteps(steps) = {} /\ current # s
  BY <1>1, <1>2 DEF Told, RunningSteps
<1>4. ASSUME NEW i \in DOMAIN steps, steps[i].id = ResultId
      PROVE  /\ i = Len(steps)
             /\ status = "completed" => steps[i].text = {Report}
             /\ Cardinality(steps[i].text) <= 1
  <2>1. PICK a \in Nat : steps[i].text \subseteq {a}
    BY <1>1, <1>2, <1>4 DEF Told
  <2>2. Cardinality(steps[i].text) <= Cardinality({a}) /\ Cardinality({a}) = 1
        /\ Cardinality(steps[i].text) \in Nat
    <3>1. IsFiniteSet({a}) /\ Cardinality({a}) = 1
      BY FS_Singleton
    <3> QED BY <3>1, <2>1, FS_Subset, FS_CardinalityType
  <2> QED BY <1>1, <1>2, <1>4, <2>2 DEF Told, ResultIsLast
<1>5. {i \in RunningSteps(steps) : steps[i].id[1] = "tool"} # {} => Thinking(steps) = {}
  BY <1>1, <1>2 DEF Told, RunningSteps, Thinking, RunningTool, ThinkingStep
<1> QED BY <1>3, <1>4, <1>5 DEF steps, status, Ended

\* The list stays as it is.
LEMMA SameList ==
  ASSUME NEW steps, NEW s, NEW st, NEW cur, NEW scr, Told(steps, s, st, cur, scr),
         NEW st2, NEW cur2, NEW scr2,
         Ended(st2) => st2 = st /\ cur2 # s,
         \A x \in All(steps) : RunningTool(x) => \E c \in scr2.asked : x.id = Tool(c),
         Fresh(s, scr2) => Fresh(s, scr) /\ scr2.attempt = scr.attempt
  PROVE  Told(steps, s, st2, cur2, scr2)
<1>1. st2 = "completed" => Ended(st2)
  BY DEF Ended
<1> QED BY <1>1 DEF Told

\* One step is put in it.
\* A stage keeps what is told of it when a step is put into its list.
LEMMA StepPlaced ==
  ASSUME NEW steps, NEW s, NEW st, NEW cur, NEW scr, Told(steps, s, st, cur, scr),
         NEW cur2, NEW scr2, NEW new, NEW q, WellListed(q), ResultIsLast(q),
         All(q) = Swapped(steps, new),
         Ended(st) => cur2 # s /\ new.status # "running",
         new.id = ResultId =>
           /\ st # "completed" /\ \E a \in Nat : new.text \subseteq {a}
           /\ Fresh(s, scr2) => new.text \subseteq {scr2.attempt},
         RunningTool(new) =>
           /\ s = "Run" /\ \E c \in scr2.asked : new.id = Tool(c)
           /\ \A y \in All(steps) : ~ThinkingStep(y),
         ThinkingStep(new) =>
           \A x \in All(steps) : ~RunningTool(x) /\ (ThinkingStep(x) => x.id = new.id),
         s = "Summary" /\ new.id[1] = "thinking" => new.id = Thought(0),
         \A x \in All(steps) : RunningTool(x) /\ x.id # new.id => \E c \in scr2.asked : x.id = Tool(c),
         Fresh(s, scr2) /\ new.id # ResultId => Fresh(s, scr) /\ scr2.attempt = scr.attempt
  PROVE  Told(q, s, st, cur2, scr2)
<1>1. \A x \in All(q) : x = new \/ (x \in All(steps) /\ x.id # new.id)
  BY DEF Swapped
<1>2. OneThinks(q)
  BY <1>1 DEF Told, OneThinks
<1>3. Ended(st) => \A x \in All(q) : x.status # "running"
  BY <1>1 DEF Told
<1>4. ASSUME NEW x \in All(q), x.id = ResultId
      PROVE  /\ st = "completed" => x.text = {Report}
             /\ \E a \in Nat : x.text \subseteq {a}
             /\ Fresh(s, scr2) => x.text \subseteq {scr2.attempt}
  BY <1>1, <1>4 DEF Told
<1>5. ~(RunningTool(new) /\ ThinkingStep(new))
  BY DEF RunningTool, ThinkingStep
<1>6. ASSUME NEW x \in All(q), RunningTool(x)
      PROVE  /\ s = "Run" /\ \E c \in scr2.asked : x.id = Tool(c)
             /\ \A y \in All(q) : ~ThinkingStep(y)
  BY <1>1, <1>5, <1>6 DEF Told
<1>7. \A x \in All(q) : s = "Summary" /\ x.id[1] = "thinking" => x.id = Thought(0)
  BY <1>1 DEF Told
<1> QED BY <1>2, <1>3, <1>4, <1>6, <1>7 DEF Told

\* The stage has ended.
\* A list in which nothing runs.
LEMMA EndedList ==
  ASSUME NEW q, NEW s, NEW st, NEW cur, NEW scr, WellListed(q), ResultIsLast(q),
         \A x \in All(q) :
           /\ x.status # "running"
           /\ x.id = ResultId => /\ st = "completed" => x.text = {Report}
                                 /\ \E a \in Nat : x.text \subseteq {a}
           /\ s = "Summary" /\ x.id[1] = "thinking" => x.id = Thought(0),
         cur # s, ~Fresh(s, scr)
  PROVE  Told(q, s, st, cur, scr)
BY DEF Told, OneThinks, ThinkingStep, RunningTool

\* The facts a step starts from.
LEMMA StepsNow ==
  ASSUME TraceInv
  PROVE  /\ script.in \in TraceStages
         /\ Told(Steps, script.in, stage[script.in].status, current, script)
         /\ WellListed(Steps) /\ ResultIsLast(Steps) /\ OneThinks(Steps)
BY DEF TraceInv, ScriptOK, Told, Steps

\* A step that leaves what is told of each stage in order.
\* A step that changes one list.
LEMMA InOrderAgain ==
  ASSUME ScriptOK', \A s \in TraceStages : Told(stage'[s].steps, s, stage'[s].status, current', script')
  PROVE  TraceInv'
BY DEF TraceInv

\* The other stage, when the script stays in its own.
LEMMA Elsewhere ==
  ASSUME TraceInv, NEW s \in TraceStages, s # script.in, stage'[s] = stage[s], script'.in = script.in,
         current' \in {current, "none", script.in}
  PROVE  Told(stage'[s].steps, s, stage'[s].status, current', script')
<1>1. Told(stage[s].steps, s, stage[s].status, current, script)
  BY DEF TraceInv
<1>2. ~Fresh(s, script')
  BY DEF Fresh
<1>3. Ended(stage[s].status) => current' # s
  BY <1>1 DEF Told, TraceStages
<1>4. \A x \in All(stage[s].steps) : ~RunningTool(x)
  <2>1. s \in {"Run", "Summary"} /\ script.in \in {"Run", "Summary"}
    BY DEF TraceStages, TraceInv, ScriptOK
  <2>2. CASE s = "Summary"
    BY <1>1, <2>2 DEF Told
  <2>3. CASE s = "Run"
    <3>1. stage[s].status = "completed"
      BY <2>1, <2>3 DEF TraceInv, ScriptOK
    <3>2. Ended(stage[s].status)
      BY <3>1 DEF Ended
    <3> QED BY <1>1, <3>2 DEF Told, RunningTool
  <2> QED BY <2>1, <2>2, <2>3
<1> QED BY <1>1, <1>2, <1>3, <1>4, SameList

\* The steps that leave the lists as they are.
LEMMA EnterStageKeeps == ASSUME TraceInv, EnterStage PROVE TraceInv'
<1> DEFINE z == script.in
<1>1. ScriptOK'
  BY StepsNow DEF TraceInv, ScriptOK, EnterStage, At, Goes, Talking, Done, Ended, TraceStages
<1>2. stage'[z].steps = stage[z].steps /\ stage'[z].status = "running" /\ z \in TraceStages
      /\ script'.asked = script.asked /\ script'.attempt = script.attempt /\ script'.in = z
      /\ script'.pc = "prompting" /\ script.pc = "ready" /\ current' = z
      /\ \A s \in TraceStages \ {z} : stage'[s] = stage[s]
  BY DEF TraceInv, ScriptOK, EnterStage, At, Goes
<1>3. Told(Steps, z, stage[z].status, current, script)
  BY StepsNow
<1>4. Fresh(z, script') => Fresh(z, script)
  BY <1>2 DEF Fresh, Talking, Streaming
<1>0. ~Ended("running")
  BY DEF Ended
<1>5. \A x \in All(Steps) : RunningTool(x) => \E c \in script'.asked : x.id = Tool(c)
  BY <1>2, <1>3 DEF Told
<1>6. Told(Steps, z, "running", current', script')
  BY <1>0, <1>2, <1>3, <1>4, <1>5, SameList
<1>7. \A s \in TraceStages : s # z => Told(stage'[s].steps, s, stage'[s].status, current', script')
  BY <1>2, Elsewhere
<1> QED BY <1>1, <1>2, <1>6, <1>7, InOrderAgain DEF Steps

\* The script moves on and no list changes.
\* A step that changes no list.
LEMMA ListsStay ==
  ASSUME TraceInv, UNCHANGED <<stage, current>>, ScriptOK', script'.in = script.in,
         script'.asked = script.asked,
         Fresh(script.in, script') => Fresh(script.in, script) /\ script'.attempt = script.attempt
  PROVE  TraceInv'
<1> DEFINE z == script.in
<1>1. Told(Steps, z, stage[z].status, current, script) /\ z \in TraceStages
  BY StepsNow
<1>2. Ended(stage[z].status) => current # z
  BY <1>1 DEF Told
<1>3. \A x \in All(Steps) : RunningTool(x) => \E c \in script'.asked : x.id = Tool(c)
  BY <1>1 DEF Told
<1>4. Told(Steps, z, stage[z].status, current', script')
  BY <1>1, <1>2, <1>3, SameList
<1>5. \A s \in TraceStages : s # z => Told(stage'[s].steps, s, stage'[s].status, current', script')
  BY Elsewhere
<1> QED BY <1>1, <1>4, <1>5, InOrderAgain DEF Steps

LEMMA RepliedKeeps == ASSUME TraceInv, Replied PROVE TraceInv'
<1>1. ScriptOK'
  BY DEF TraceInv, ScriptOK, Replied, At, Goes, Talking, Done
<1>2. Fresh(script.in, script') => Fresh(script.in, script) /\ script'.attempt = script.attempt
  BY DEF TraceInv, ScriptOK, Replied, At, Goes, Fresh, Streaming, Talking
<1> QED BY <1>1, <1>2, ListsStay DEF Replied, TraceInv, ScriptOK, Goes

LEMMA StageBreaksKeeps == ASSUME TraceInv, StageBreaks PROVE TraceInv'
<1>1. ScriptOK'
  BY DEF TraceInv, ScriptOK, StageBreaks, At, Goes, Talking, Done
<1>2. ~Fresh(script.in, script')
  BY DEF TraceInv, ScriptOK, StageBreaks, At, Goes, Fresh, Streaming, Talking
<1> QED BY <1>1, <1>2, ListsStay DEF StageBreaks, TraceInv, ScriptOK, Goes

LEMMA SummaryAgainKeeps == ASSUME TraceInv, SummaryAgain PROVE TraceInv'
<1>0. /\ script'.in = script.in /\ script'.asked = script.asked /\ script'.pc = "prompting"
      /\ script'.watch = script.watch /\ script'.attempt = script.attempt + 1
      /\ script' = [watch |-> script.watch, in |-> script.in, pc |-> "prompting",
                    asked |-> script.asked, attempt |-> script.attempt + 1]
      /\ script.in = "Summary" /\ script.pc \in {"prompting", "asking", "saying", "checking"}
  BY DEF TraceInv, ScriptOK, SummaryAgain, At, In
<1>1. ScriptOK'
  BY <1>0 DEF TraceInv, ScriptOK, SummaryAgain, Talking, Done
<1>2. ~Fresh(script.in, script')
  BY DEF TraceInv, ScriptOK, SummaryAgain, At, Goes, In, Fresh, Streaming, Talking
<1> QED BY <1>1, <1>2, ListsStay DEF SummaryAgain, TraceInv, ScriptOK, Goes

\* What a step with a fixed id looks like.
\* The ids of the writer's steps are ids, and differ by kind.
LEMMA KnownIds ==
  /\ {ResultId, PromptId, Fallback, Checked, Compacted, FinalStep} \subseteq Kinds \X Nat
  /\ \A n \in Nat : Thought(n) \in Kinds \X Nat /\ Thought(n)[1] = "thinking" /\ Thought(n) # ResultId
  /\ \A c \in TraceTools : Tool(c) \in Kinds \X Nat /\ Tool(c)[1] = "tool" /\ Tool(c) # ResultId
  /\ \A id \in {ResultId, PromptId, Fallback, Checked, Compacted, FinalStep} : id[1] \notin {"tool", "thinking"}
  /\ ResultId \notin {PromptId, Fallback, Checked, Compacted, FinalStep}
BY TraceAssumption DEF ResultId, PromptId, Fallback, Checked, Compacted, FinalStep, Thought, Tool, Kinds,
                       TraceAssumption

\* The stage of the script gets a step of the system's own.
LEMMA SystemPlaced ==
  ASSUME NEW steps, NEW s, NEW st, NEW cur, NEW scr, Told(steps, s, st, cur, scr),
         NEW scr2, scr2.asked = scr.asked,
         Fresh(s, scr2) => Fresh(s, scr) /\ scr2.attempt = scr.attempt,
         NEW id \in {PromptId, Fallback, Checked, Compacted, FinalStep}
  PROVE  Told(ResultLast(Put(steps, id, "completed", {})), s, st, cur, scr2)
<1> DEFINE new == NewStep(id, "completed", {})
           p   == Put(steps, id, "completed", {})
           q   == ResultLast(p)
<1>1. id \in Kinds \X Nat /\ id # ResultId /\ id[1] \notin {"tool", "thinking"} /\ "completed" \in Statuses
  BY KnownIds DEF Statuses
<1>2. WellListed(p) /\ All(p) = Swapped(steps, new)
  <2>1. WellListed(steps) /\ {} \in SUBSET Nat
    BY DEF Told
  <2> QED BY <1>1, <2>1, PutFacts
<1>3. WellListed(q) /\ ResultIsLast(q) /\ All(q) = Swapped(steps, new)
  BY <1>2, ResultMoves
<1>4. new.id = id /\ new.status = "completed" /\ new.id # ResultId /\ new.id[1] # "thinking"
     /\ new.id[1] # "tool"
  BY <1>1 DEF NewStep
<1> HIDE DEF q, new
<1>5. ~RunningTool(new) /\ ~ThinkingStep(new)
  BY <1>4 DEF RunningTool, ThinkingStep
<1>6. Ended(st) => cur # s
  BY DEF Told
<1>0. \A x \in All(steps) : RunningTool(x) => \E c \in scr.asked : x.id = Tool(c)
  BY DEF Told
<1>7. \A x \in All(steps) : RunningTool(x) => \E c \in scr2.asked : x.id = Tool(c)
  BY <1>0
<1> QED BY <1>3, <1>4, <1>5, <1>6, <1>7, StepPlaced DEF q

\* Only the script's own stage changes, and it stays as it is but for its list.
LEMMA OwnList ==
  ASSUME TraceInv, NEW q, Shows(script.in, q), script'.in = script.in, ScriptOK',
         current' \in {current, "none", script.in},
         Told(q, script.in, stage[script.in].status, current', script')
  PROVE  TraceInv'
<1>1. script.in \in TraceStages /\ stage'[script.in].steps = q
      /\ stage'[script.in].status = stage[script.in].status
      /\ \A s \in TraceStages : s # script.in => stage'[s] = stage[s]
  BY DEF Shows, TraceInv, ScriptOK
<1>2. \A s \in TraceStages : s # script.in => Told(stage'[s].steps, s, stage'[s].status, current', script')
  BY <1>1, Elsewhere
<1> QED BY <1>1, <1>2, InOrderAgain

\* ... and what is known of the script holds if it only moves on.
\* A step of the executor leaves the writer where it is.
LEMMA OwnScript ==
  ASSUME TraceInv, NEW q, q \in Seq(Step), Shows(script.in, q),
         current' \in {current, "none", script.in},
         script' \in [watch : BOOLEAN, in : {script.in}, pc : {"ready", "broken"} \cup Talking \cup Done,
                      asked : SUBSET TraceTools, attempt : Nat],
         script'.asked # {} =>
           script.in = "Run" /\ script'.pc \in {"requesting", "answering", "broken", "failed"},
         script'.pc = "ready" => stage[script.in].status = "pending",
         script'.pc \in Talking => stage[script.in].status = "running",
         script'.pc \in {"ended", "failed"} => Ended(stage[script.in].status)
  PROVE  ScriptOK'
<1>1. script.in \in TraceStages /\ stage'[script.in].steps = q
      /\ stage'[script.in].status = stage[script.in].status
      /\ \A s \in TraceStages : s # script.in => stage'[s] = stage[s]
  BY DEF Shows, TraceInv, ScriptOK
<1>2. stage' \in [TraceStages -> [status : {"pending", "running", "completed", "degraded", "failed"},
                                 steps : Seq(Step)]]
  BY DEF Shows, TraceInv, ScriptOK
<1>3. "Run" # "Summary" /\ "Run" \in TraceStages /\ "Summary" \in TraceStages
  BY DEF TraceStages
<1>4. current' \in {"none"} \cup TraceStages
  BY <1>1 DEF TraceInv, ScriptOK
<1>5. script'.in = script.in
  OBVIOUS
<1>6. script.in = "Run" => stage'["Summary"] = [status |-> "pending", steps |-> <<>>]
  BY <1>1, <1>3 DEF TraceInv, ScriptOK
<1>7. script.in = "Summary" => stage'["Run"].status = "completed"
  BY <1>1, <1>3 DEF TraceInv, ScriptOK
<1> QED BY <1>1, <1>2, <1>4, <1>5, <1>6, <1>7 DEF ScriptOK

\* The executor's own steps.
LEMMA SystemStepKeeps == ASSUME TraceInv, SystemStep PROVE TraceInv'
<1>1. PICK id \in {Checked, Compacted} : Shows(script.in, ResultLast(Put(Steps, id, "completed", {})))
  BY DEF SystemStep, In
<1> DEFINE q == ResultLast(Put(Steps, id, "completed", {}))
<1>2. UNCHANGED <<current, script>>
  BY DEF SystemStep
<1>3. Told(q, script.in, stage[script.in].status, current, script)
  BY StepsNow, SystemPlaced
<1>4. q \in Seq(Step)
  BY <1>3 DEF Told, WellListed
<1> HIDE DEF q
<1>5. ScriptOK'
  BY <1>1, <1>2, <1>4, OwnScript DEF q, TraceInv, ScriptOK
<1> QED BY <1>1, <1>2, <1>3, <1>5, OwnList DEF q

LEMMA FinalStatusKeeps == ASSUME TraceInv, FinalStatus PROVE TraceInv'
<1> DEFINE q == ResultLast(Put(Steps, FinalStep, "completed", {}))
<1>1. Shows(script.in, q) /\ UNCHANGED current /\ script' = [script EXCEPT !.pc = "closed"] /\ script.pc = "ended"
  BY DEF FinalStatus, Goes, At
<1>2. script'.asked = script.asked /\ script'.in = script.in /\ script'.pc = "closed" /\ script.asked = {}
  BY <1>1 DEF TraceInv, ScriptOK
<1>3. ~Fresh(script.in, script')
  BY <1>2 DEF Fresh, Talking, Streaming
<1>4. Told(q, script.in, stage[script.in].status, current, script')
  BY <1>2, <1>3, StepsNow, SystemPlaced
<1>5. q \in Seq(Step)
  BY <1>4 DEF Told, WellListed
<1> HIDE DEF q
<1>6. ScriptOK'
  BY <1>1, <1>2, <1>5, OwnScript DEF TraceInv, ScriptOK, Talking, Done
<1> QED BY <1>1, <1>2, <1>4, <1>6, OwnList

\* A prompt begins: a draft is dropped, a prompt is listed.
LEMMA PromptPreparedKeeps == ASSUME TraceInv, PromptPrepared PROVE TraceInv'
<1> DEFINE z == script.in
           st == stage[z].status
           prompted == ResultLast(Put(Steps, PromptId, "completed", {}))
           p == SummaryReset(prompted)
           new == NewStep(ResultId, "running", {})
<1>1. script.pc = "prompting" /\ script' = [script EXCEPT !.pc = "asking"] /\ UNCHANGED current
      /\ Shows(z, IF z = "Run" THEN prompted ELSE ResultLast(p))
  BY DEF PromptPrepared, At, In, Goes
<1>2. /\ script'.asked = script.asked /\ script'.in = z /\ script'.pc = "asking" /\ script.asked = {}
      /\ script'.attempt = script.attempt /\ z \in TraceStages /\ script.attempt \in Nat
      /\ st = "running" /\ ~Ended(st) /\ st # "completed"
  BY <1>1 DEF TraceInv, ScriptOK, Talking, Ended
<1>3. \A q : q \in Seq(Step) /\ Shows(z, q) => ScriptOK'
  BY <1>1, <1>2, OwnScript DEF TraceInv, ScriptOK, Talking, Done
<1>4. Fresh("Run", script') => Fresh("Run", script)
  BY <1>1, <1>2 DEF Fresh, Talking, Streaming
<1>5. Told(Steps, z, st, current, script)
  BY StepsNow
<1>6. CASE z = "Run"
  <2>1. Told(prompted, z, st, current, script')
    BY <1>2, <1>4, <1>5, <1>6, SystemPlaced
  <2>2. prompted \in Seq(Step) /\ Shows(z, prompted)
    BY <1>1, <1>6, <2>1 DEF Told, WellListed
  <2> QED BY <1>1, <1>2, <1>3, <2>1, <2>2, OwnList
<1>7. CASE z # "Run"
  <2>1. Told(prompted, z, st, current, script)
    BY <1>5, SystemPlaced
  <2>2. WellListed(prompted) /\ ResultId \in Kinds \X Nat /\ "running" \in Statuses /\ {} \in SUBSET Nat
    BY <2>1, KnownIds DEF Told, Statuses
  <2>3. WellListed(p) /\ All(p) = Swapped(prompted, new)
    BY <2>2, PutFacts DEF SummaryReset
  <2>4. WellListed(ResultLast(p)) /\ ResultIsLast(ResultLast(p)) /\ All(ResultLast(p)) = Swapped(prompted, new)
    BY <2>3, ResultMoves
  <2>5. new.id = ResultId /\ new.text = {} /\ new.id[1] \notin {"tool", "thinking"}
    BY KnownIds DEF NewStep
  <2> HIDE DEF new, p, prompted
  <2>6. ~RunningTool(new) /\ ~ThinkingStep(new)
    BY <2>5 DEF RunningTool, ThinkingStep
  <2>7. \A x \in All(prompted) : RunningTool(x) => \E c \in script'.asked : x.id = Tool(c)
    BY <1>2, <2>1 DEF Told
  <2>8. Told(ResultLast(p), z, st, current, script')
    BY <1>2, <2>1, <2>4, <2>5, <2>6, <2>7, StepPlaced
  <2>9. ResultLast(p) \in Seq(Step) /\ Shows(z, ResultLast(p))
    BY <1>1, <1>7, <2>4 DEF WellListed, p, prompted
  <2> QED BY <1>1, <1>2, <1>3, <2>8, <2>9, OwnList
<1> QED BY <1>6, <1>7

LEMMA ThinksKeeps == ASSUME TraceInv, Thinks PROVE TraceInv'
<1> DEFINE z == script.in
           st == stage[z].status
<1>1. script.pc = "asking" /\ UNCHANGED <<current, script>>
  BY DEF Thinks, At
<1>2. script.asked = {} /\ st = "running" /\ ~Ended(st) /\ z \in TraceStages
  BY <1>1 DEF TraceInv, ScriptOK, Talking, Ended
<1>3. PICK n \in 0 .. MaxThoughts :
        /\ Shows(z, ResultLast(Put(Steps, Thought(n), "running", {})))
        /\ z = "Summary" => n = 0
        /\ Thinking(Steps) # {} /\ z # "Summary" => Thought(n) = Steps[Max(Thinking(Steps))].id
  BY DEF Thinks, In
<1> DEFINE new == NewStep(Thought(n), "running", {})
           p == Put(Steps, Thought(n), "running", {})
           q == ResultLast(p)
<1>4. Told(Steps, z, st, current, script) /\ WellListed(Steps) /\ OneThinks(Steps)
  BY StepsNow
<1>5. /\ Thought(n) \in Kinds \X Nat /\ Thought(n)[1] = "thinking" /\ Thought(n) # ResultId
      /\ "running" \in Statuses /\ {} \in SUBSET Nat /\ n \in Nat
  BY KnownIds, TraceAssumption DEF Statuses, TraceAssumption
<1>6. WellListed(p) /\ All(p) = Swapped(Steps, new)
  BY <1>4, <1>5, PutFacts
<1>7. WellListed(q) /\ ResultIsLast(q) /\ All(q) = Swapped(Steps, new)
  BY <1>6, ResultMoves
<1>8. \A x \in All(Steps) : ~RunningTool(x)
  BY <1>2, <1>4 DEF Told
<1>9. ASSUME NEW x \in All(Steps), ThinkingStep(x)
      PROVE  x.id = Thought(n)
  <2>1. PICK i \in DOMAIN Steps : x = Steps[i]
    BY DEF All
  <2>2. i \in Thinking(Steps) /\ i = Max(Thinking(Steps))
    BY <1>4, <1>9, <2>1, ThinkingFacts
  <2>3. CASE z = "Summary"
    BY <1>3, <1>4, <1>9, <2>3 DEF Told, ThinkingStep
  <2>4. CASE z # "Summary"
    BY <1>3, <2>1, <2>2, <2>4
  <2> QED BY <2>3, <2>4
<1>10. new.id = Thought(n) /\ ~RunningTool(new) /\ new.id # ResultId
  BY <1>5 DEF NewStep, RunningTool
<1>11. z = "Summary" => new.id = Thought(0)
  BY <1>3, <1>10
<1> HIDE DEF new, q
<1>12. Told(q, z, st, current', script')
  BY <1>1, <1>2, <1>4, <1>7, <1>8, <1>9, <1>10, <1>11, StepPlaced
<1>13. q \in Seq(Step) /\ Shows(z, q)
  BY <1>3, <1>7 DEF WellListed, q
<1>14. ScriptOK'
  BY <1>1, <1>13, OwnScript DEF TraceInv, ScriptOK
<1> QED BY <1>1, <1>12, <1>13, <1>14, OwnList

\* A call's answer is put in the list of Run.
\* An answer put under its call.
LEMMA AnswerPlaced ==
  ASSUME NEW steps, NEW st, NEW cur, NEW scr, Told(steps, "Run", st, cur, scr),
         NEW c \in TraceTools, NEW status \in {"completed", "failed"},
         NEW scr2, scr2.asked = scr.asked \ {c},
         Fresh("Run", scr2) => Fresh("Run", scr) /\ scr2.attempt = scr.attempt
  PROVE  Told(ResultLast(Put(steps, Tool(c), status, {})), "Run", st, cur, scr2)
<1> DEFINE new == NewStep(Tool(c), status, {})
           p == Put(steps, Tool(c), status, {})
           q == ResultLast(p)
<1>1. /\ Tool(c) \in Kinds \X Nat /\ Tool(c)[1] = "tool" /\ Tool(c) # ResultId
      /\ status \in Statuses /\ {} \in SUBSET Nat /\ status # "running"
  BY KnownIds DEF Statuses
<1>2. WellListed(p) /\ All(p) = Swapped(steps, new)
  <2>1. WellListed(steps)
    BY DEF Told
  <2> QED BY <1>1, <2>1, PutFacts
<1>3. WellListed(q) /\ ResultIsLast(q) /\ All(q) = Swapped(steps, new)
  BY <1>2, ResultMoves
<1>4. new.id = Tool(c) /\ new.status # "running" /\ new.id # ResultId
  BY <1>1 DEF NewStep
<1>5. ~RunningTool(new) /\ ~ThinkingStep(new)
  BY <1>4 DEF RunningTool, ThinkingStep
<1>6. \A x \in All(steps) : RunningTool(x) => \E d \in scr.asked : x.id = Tool(d)
  BY DEF Told
<1>7. \A x \in All(steps) : RunningTool(x) /\ x.id # new.id => \E d \in scr2.asked : x.id = Tool(d)
  BY <1>4, <1>6
<1>8. Ended(st) => cur # "Run"
  BY DEF Told
<1> HIDE DEF q, new
<1> QED BY <1>3, <1>4, <1>5, <1>7, <1>8, StepPlaced DEF q

\* ... whether the stage waits for it or has failed.
LEMMA AnswerKeeps ==
  ASSUME TraceInv, NEW c \in script.asked, ShowsAnswer(c), UNCHANGED current, NEW pc,
         script' = [script EXCEPT !.asked = @ \ {c}, !.pc = pc],
         \/ pc = script.pc
         \/ script.pc \in {"requesting", "answering"} /\ pc = "answering"
         \/ script.pc \in {"requesting", "answering"} /\ pc = "asking" /\ script.asked = {c}
  PROVE  TraceInv'
<1> DEFINE z == script.in
           st == stage[z].status
<1>1. z = "Run" /\ script.pc \in {"requesting", "answering", "broken", "failed"} /\ c \in TraceTools
  BY DEF TraceInv, ScriptOK
<1>2. PICK status \in {"completed", "failed"} : Shows(z, ResultLast(Put(Steps, Tool(c), status, {})))
  BY <1>1 DEF ShowsAnswer, Steps
<1> DEFINE q == ResultLast(Put(Steps, Tool(c), status, {}))
<1>3. Told(Steps, "Run", st, current, script)
  BY <1>1, StepsNow
<1>4. script'.asked = script.asked \ {c} /\ script'.in = z /\ script'.pc = pc /\ script'.attempt = script.attempt
      /\ script'.watch = script.watch
  BY DEF TraceInv, ScriptOK
<1>5. Fresh("Run", script') => Fresh("Run", script)
  BY <1>1, <1>4 DEF Fresh, Talking, Streaming
<1>6. Told(q, z, st, current', script')
  <2>1. Fresh("Run", script') => Fresh("Run", script) /\ script'.attempt = script.attempt
    BY <1>4, <1>5
  <2>2. script'.asked = script.asked \ {c} /\ c \in TraceTools
    BY <1>1, <1>4
  <2>3. Told(q, "Run", st, current, script')
    BY <1>3, <2>1, <2>2, AnswerPlaced
  <2>4. z = "Run" /\ current' = current
    BY <1>1
  <2> QED BY <2>3, <2>4
<1>7. q \in Seq(Step) /\ Shows(z, q)
  BY <1>2, <1>6 DEF WellListed, Told
<1> HIDE DEF q
<1>8. /\ script' \in [watch : BOOLEAN, in : {script.in}, pc : {"ready", "broken"} \cup Talking \cup Done,
                      asked : SUBSET TraceTools, attempt : Nat]
      /\ script'.asked # {} => script'.pc \in {"requesting", "answering", "broken", "failed"}
      /\ script'.pc # "ready"
      /\ script'.pc \in Talking => script.pc \in Talking
      /\ script'.pc \in {"ended", "failed"} => script.pc = "failed"
  BY <1>1, <1>4 DEF TraceInv, ScriptOK, Talking, Done
<1>9. ScriptOK'
  BY <1>1, <1>7, <1>8, OwnScript DEF TraceInv, ScriptOK
<1> QED BY <1>4, <1>6, <1>7, <1>9, OwnList

\* A call's answer, in time or late.
LEMMA EndsToolKeeps == ASSUME TraceInv, NEW c \in TraceTools, EndsTool(c) PROVE TraceInv'
<1> DEFINE pc == IF script.asked = {c} THEN "asking" ELSE "answering"
<1>1. script' = [script EXCEPT !.asked = @ \ {c}, !.pc = pc]
  BY DEF EndsTool
<1> QED BY <1>1, AnswerKeeps DEF EndsTool, At

LEMMA LateAnswerKeeps == ASSUME TraceInv, NEW c \in TraceTools, LateAnswer(c) PROVE TraceInv'
<1>1. script' = [script EXCEPT !.asked = @ \ {c}, !.pc = script.pc]
  BY DEF LateAnswer, TraceInv, ScriptOK
<1> QED BY <1>1, AnswerKeeps DEF LateAnswer, At

\* A prompt is tried again: what runs is failed, the draft dropped.
LEMMA RuntimeResetKeeps == ASSUME TraceInv, RuntimeReset PROVE TraceInv'
<1> DEFINE z == script.in
<1>1. /\ script.pc = "failed" /\ script'.in = z /\ script'.pc = "closed" /\ script'.asked = {}
      /\ UNCHANGED <<stage, current>> /\ z \in TraceStages
  BY DEF RuntimeReset, At, TraceInv, ScriptOK
<1>2. ScriptOK'
  BY DEF RuntimeReset, At, TraceInv, ScriptOK, Talking, Done
<1>3. Told(Steps, z, stage[z].status, current, script) /\ Ended(stage[z].status)
  BY <1>1, StepsNow DEF TraceInv, ScriptOK
<1>4. \A x \in All(Steps) : ~RunningTool(x)
  BY <1>3 DEF Told, RunningTool
<1>5. ~Fresh(z, script')
  BY <1>1 DEF Fresh, Talking, Streaming
<1>6. current # z
  BY <1>3 DEF Told
<1>7. Told(Steps, z, stage[z].status, current', script')
  BY <1>1, <1>3, <1>4, <1>5, <1>6, SameList
<1>8. \A s \in TraceStages : s # z => Told(stage'[s].steps, s, stage'[s].status, current', script')
  BY <1>1, Elsewhere
<1> QED BY <1>1, <1>2, <1>7, <1>8, InOrderAgain DEF Steps

\* The calls of a reply: none was running, and nobody thinks from here on.
\* A call is listed where nothing thinks any more.
LEMMA ToolPlaced ==
  ASSUME NEW steps, NEW cur, NEW scr, Told(steps, "Run", "running", cur, scr),
         NEW c \in TraceTools, NEW cur2, NEW scr2, scr2.asked = scr.asked \cup {c},
         Fresh("Run", scr), scr2.attempt = scr.attempt
  PROVE  Told(ResultLast(Put(DraftDropped(ThinkingClosed(steps)), Tool(c), "running", {})),
              "Run", "running", cur2, scr2)
<1> DEFINE a == ThinkingClosed(steps)
           b == DraftDropped(a)
           p == Put(b, Tool(c), "running", {})
           new == NewStep(Tool(c), "running", {})
           q == ResultLast(p)
<1>1. WellListed(steps) /\ OneThinks(steps)
  BY DEF Told
<1>2. /\ WellListed(a)
      /\ All(a) = {IF ThinkingStep(x) THEN [x EXCEPT !.status = "completed"] ELSE x : x \in All(steps)}
  BY <1>1, ThinkingClosedFacts
<1>3. \A x \in All(steps) : x \in Step
  BY <1>1 DEF All, WellListed
<1>4. \A x \in All(a) : x \in All(steps) \/ (x.status = "completed" /\ x.id[1] = "thinking")
  BY <1>2, <1>3 DEF Step, ThinkingStep
<1>5. \A x \in All(a) : ~ThinkingStep(x)
  <2>1. \A x \in All(steps) : LET y == [x EXCEPT !.status = "completed"] IN ~ThinkingStep(y)
    BY <1>3 DEF Step, ThinkingStep
  <2> QED BY <1>2, <2>1
<1>6. WellListed(b) /\ \A x \in All(b) : x \in All(a) \/ x = NewStep(ResultId, "pending", {})
  BY <1>2, DraftFacts
<1>7. /\ Tool(c) \in Kinds \X Nat /\ Tool(c)[1] = "tool" /\ Tool(c) # ResultId /\ "running" \in Statuses
      /\ {} \in SUBSET Nat /\ ResultId[1] = "result"
  BY KnownIds DEF Statuses, ResultId
<1>8. WellListed(p) /\ All(p) = Swapped(b, new)
  BY <1>6, <1>7, PutFacts
<1>9. WellListed(q) /\ ResultIsLast(q) /\ All(q) = Swapped(b, new)
  BY <1>8, ResultMoves
<1> DEFINE draft == NewStep(ResultId, "pending", {})
<1>10. draft.id = ResultId /\ draft.status = "pending" /\ draft.text = {} /\ draft.id[1] = "result"
       /\ new.id = Tool(c) /\ new.status = "running"
  BY <1>7 DEF NewStep
<1> HIDE DEF new, draft, q, a, b, p
<1>11. \A x \in All(q) : x = new \/ x = draft \/ x \in All(a)
  BY <1>6, <1>9 DEF Swapped, draft
<1>12. \A x \in All(q) : ~ThinkingStep(x)
  BY <1>5, <1>7, <1>10, <1>11 DEF ThinkingStep
<1>13. ASSUME NEW x \in All(q), RunningTool(x)
       PROVE  \E d \in scr2.asked : x.id = Tool(d)
  <2>1. CASE x = new
    BY <1>10, <2>1
  <2>2. CASE x # new
    <3>1. x \in All(steps)
      BY <1>4, <1>10, <1>11, <1>13, <2>2 DEF RunningTool
    <3>2. \E d \in scr.asked : x.id = Tool(d)
      BY <1>13, <3>1 DEF Told
    <3> QED BY <3>2
  <2> QED BY <2>1, <2>2
<1>14. ASSUME NEW x \in All(q), x.id = ResultId
       PROVE  (\E n \in Nat : x.text \subseteq {n}) /\ x.text \subseteq {scr2.attempt}
  <2>1. CASE x = draft
    BY <1>10, <2>1
  <2>2. CASE x # draft
    <3>1. ResultId[1] # "thinking" /\ x # new
      BY <1>7, <1>10, <1>14
    <3>2. x \in All(steps)
      BY <1>4, <1>11, <1>14, <2>2, <3>1
    <3> QED BY <1>14, <3>2 DEF Told
  <2> QED BY <2>1, <2>2
<1>15. ~Ended("running")
  BY DEF Ended
<1> QED BY <1>9, <1>12, <1>13, <1>14, <1>15 DEF Told, OneThinks, q, p, b, a

LEMMA StartsToolKeeps == ASSUME TraceInv, NEW c \in TraceTools, StartsTool(c) PROVE TraceInv'
<1> DEFINE z == script.in
           q == ResultLast(Put(DraftDropped(ThinkingClosed(Steps)), Tool(c), "running", {}))
<1>1. /\ z = "Run" /\ script.pc \in {"asking", "requesting"} /\ Shows(z, q) /\ current' = "Run"
      /\ script' = [script EXCEPT !.pc = "requesting", !.asked = @ \cup {c}]
  BY DEF StartsTool, In, At
<1>2. script'.asked = script.asked \cup {c} /\ script'.in = z /\ script'.pc = "requesting"
      /\ script'.attempt = script.attempt /\ stage[z].status = "running" /\ Fresh("Run", script)
  BY <1>1 DEF TraceInv, ScriptOK, Talking, Fresh
<1>3. Told(Steps, "Run", "running", current, script)
  BY <1>1, <1>2, StepsNow
<1>4. Told(q, "Run", "running", current', script')
  BY <1>2, <1>3, ToolPlaced
<1>5. q \in Seq(Step)
  BY <1>4 DEF WellListed, Told
<1> HIDE DEF q
<1>6. ScriptOK'
  BY <1>1, <1>2, <1>5, OwnScript DEF TraceInv, ScriptOK, Talking, Done
<1> QED BY <1>1, <1>2, <1>4, <1>6, OwnList

\* The newest thinking is closed.
LEMMA ThinkingClosedTold ==
  ASSUME NEW steps, NEW s, NEW st, NEW cur, NEW scr, Told(steps, s, st, cur, scr)
  PROVE  Told(ThinkingClosed(steps), s, st, cur, scr)
<1> DEFINE q == ThinkingClosed(steps)
           T(x) == IF ThinkingStep(x) THEN [x EXCEPT !.status = "completed"] ELSE x
<1>1. WellListed(steps) /\ OneThinks(steps) /\ ResultIsLast(steps)
  BY DEF Told
<1>2. WellListed(q) /\ ResultIsLast(q) /\ All(q) = {T(x) : x \in All(steps)}
  BY <1>1, ThinkingClosedFacts
<1>3. \A x \in All(steps) : x \in Step
  BY <1>1 DEF All, WellListed
<1>4. \A x \in All(steps) : /\ T(x).id = x.id /\ T(x).text = x.text
                            /\ T(x).status \in {x.status, "completed"} /\ ~ThinkingStep(T(x))
  BY <1>3 DEF Step, ThinkingStep
<1> HIDE DEF q, T
<1>5. \A x \in All(q) : \E y \in All(steps) :
        x.id = y.id /\ x.text = y.text /\ x.status \in {y.status, "completed"} /\ ~ThinkingStep(x)
  BY <1>2, <1>4
<1>6. OneThinks(q)
  BY <1>5 DEF OneThinks
<1>7. Ended(st) => cur # s /\ \A x \in All(q) : x.status # "running"
  BY <1>5 DEF Told
<1>8. ASSUME NEW x \in All(q), x.id = ResultId
      PROVE  /\ st = "completed" => x.text = {Report}
             /\ \E a \in Nat : x.text \subseteq {a}
             /\ Fresh(s, scr) => x.text \subseteq {scr.attempt}
  <2>1. PICK y \in All(steps) : x.id = y.id /\ x.text = y.text
    BY <1>5
  <2> QED BY <1>8, <2>1 DEF Told
<1>9. ASSUME NEW x \in All(q), RunningTool(x)
      PROVE  /\ s = "Run" /\ \E c \in scr.asked : x.id = Tool(c)
             /\ \A y \in All(q) : ~ThinkingStep(y)
  <2>1. PICK y \in All(steps) : x.id = y.id /\ x.status \in {y.status, "completed"}
    BY <1>5
  <2>2. RunningTool(y)
    BY <1>9, <2>1 DEF RunningTool
  <2> QED BY <1>5, <2>1, <2>2 DEF Told
<1>10. \A x \in All(q) : s = "Summary" /\ x.id[1] = "thinking" => x.id = Thought(0)
  BY <1>5 DEF Told
<1> QED BY <1>1, <1>2, <1>6, <1>7, <1>8, <1>9, <1>10 DEF Told, q

\* A piece of the reply that ends the loop.
\* A reply's text closes the thinking and extends the result.
LEMMA SaidKeeps ==
  ASSUME NEW steps, NEW s, NEW cur, NEW scr, Told(steps, s, "running", cur, scr), scr.attempt \in Nat,
         Fresh(s, scr), NEW cur2, NEW scr2, scr2.asked = scr.asked, scr2.attempt = scr.attempt
  PROVE  Told(Put(steps, ResultId, "running", TextOf(steps, ResultId) \cup {scr.attempt}),
              s, "running", cur2, scr2)
<1> DEFINE text == TextOf(steps, ResultId) \cup {scr.attempt}
           new  == NewStep(ResultId, "running", text)
           q    == Put(steps, ResultId, "running", text)
<1>1. WellListed(steps) /\ ResultIsLast(steps)
  BY DEF Told
<1>2. \A i \in DOMAIN steps : steps[i].id = ResultId => steps[i].text \subseteq {scr.attempt}
  BY DEF Told, All
<1>3. text = {scr.attempt} /\ text \in SUBSET Nat
  BY <1>2 DEF TextOf
<1> HIDE DEF text
<1>4. ResultId \in Kinds \X Nat /\ "running" \in Statuses /\ ResultId[1] \notin {"tool", "thinking"}
  BY KnownIds DEF Statuses
<1>5. WellListed(q) /\ All(q) = Swapped(steps, new)
  BY <1>1, <1>3, <1>4, PutFacts
<1>6. ResultIsLast(q)
  BY <1>1, <1>3, <1>4, PutKeepsResultLast
<1>7. new.id = ResultId /\ new.text = text
  BY DEF NewStep
<1> HIDE DEF new, q
<1>8. ~RunningTool(new) /\ ~ThinkingStep(new) /\ new.id[1] # "thinking"
  BY <1>4, <1>7 DEF RunningTool, ThinkingStep
<1>9. ~Ended("running") /\ "running" # "completed"
  BY DEF Ended
<1>10. \A x \in All(steps) : RunningTool(x) => \E c \in scr.asked : x.id = Tool(c)
  BY DEF Told
<1>11. \A x \in All(steps) : RunningTool(x) => \E c \in scr2.asked : x.id = Tool(c)
  BY <1>10
<1>12. new.text \subseteq {scr2.attempt} /\ \E a \in Nat : new.text \subseteq {a}
  BY <1>3, <1>7
<1> QED BY <1>5, <1>6, <1>7, <1>8, <1>9, <1>11, <1>12, StepPlaced DEF q, text

LEMMA SaysKeeps == ASSUME TraceInv, Says PROVE TraceInv'
<1> DEFINE z == script.in
           base == IF In("Run") THEN ThinkingClosed(Steps) ELSE Steps
           q == Put(base, ResultId, "running", TextOf(base, ResultId) \cup {script.attempt})
<1>1. /\ script.pc \in {"asking", "saying"} /\ Shows(z, q) /\ UNCHANGED current
      /\ script' = [script EXCEPT !.pc = "saying"]
  BY DEF Says, At, Goes
<1>2. /\ script'.asked = script.asked /\ script'.in = z /\ script'.pc = "saying" /\ script.asked = {}
      /\ script'.attempt = script.attempt /\ script.attempt \in Nat /\ stage[z].status = "running"
      /\ Fresh(z, script)
  BY <1>1 DEF TraceInv, ScriptOK, Talking, Fresh, Streaming
<1>3. Told(Steps, z, "running", current, script)
  BY <1>2, StepsNow
<1>4. Told(base, z, "running", current, script)
  BY <1>3, ThinkingClosedTold
<1> HIDE DEF base
<1>5. Told(q, z, "running", current', script')
  BY <1>2, <1>4, SaidKeeps
<1>6. q \in Seq(Step)
  BY <1>5 DEF WellListed, Told
<1> HIDE DEF q
<1>7. ScriptOK'
  BY <1>1, <1>2, <1>6, OwnScript DEF TraceInv, ScriptOK, Talking, Done
<1> QED BY <1>1, <1>2, <1>5, <1>7, OwnList

\* How a stage ends: the lists that are closed.
\* What ends a stage closes what runs in it.
LEMMA ClosedList ==
  ASSUME NEW steps, NEW s, WellListed(steps), ResultIsLast(steps), NEW status \in {"completed", "failed"},
         NEW st, NEW cur, NEW scr, cur # s, ~Fresh(s, scr),
         \A x \in All(steps) :
           /\ x.id = ResultId => /\ st = "completed" => x.text = {Report}
                                 /\ \E a \in Nat : x.text \subseteq {a}
           /\ s = "Summary" /\ x.id[1] = "thinking" => x.id = Thought(0)
  PROVE  Told(Closed(steps, status), s, st, cur, scr)
<1> DEFINE q == Closed(steps, status)
<1>1. status \in Statuses /\ status # "running"
  BY DEF Statuses
<1>2. WellListed(q) /\ ResultIsLast(q) /\ All(q) = {Shut(x, status) : x \in All(steps)}
  BY <1>1, ClosedFacts
<1>3. \A x \in All(steps) : x \in Step
  BY DEF All, WellListed
<1>4. \A x \in All(steps) : /\ Shut(x, status).id = x.id /\ Shut(x, status).text = x.text
                            /\ Shut(x, status).status # "running"
  BY <1>1, <1>3 DEF Step, Shut
<1> HIDE DEF q
<1>5. \A x \in All(q) : \E y \in All(steps) : x.id = y.id /\ x.text = y.text /\ x.status # "running"
  BY <1>2, <1>4
<1>6. \A x \in All(q) :
        /\ x.status # "running"
        /\ x.id = ResultId => /\ st = "completed" => x.text = {Report}
                              /\ \E a \in Nat : x.text \subseteq {a}
        /\ s = "Summary" /\ x.id[1] = "thinking" => x.id = Thought(0)
  BY <1>5
<1> QED BY <1>2, <1>6, EndedList DEF q

\* The script's stage ends; the script stays in it.
LEMMA OwnEnd ==
  ASSUME TraceInv, NEW status \in {"completed", "degraded", "failed"}, NEW q, EndsAs(script.in, status, q),
         Told(q, script.in, status, current', script'),
         script' \in [watch : BOOLEAN, in : {script.in}, pc : {"ended", "failed"},
                      asked : SUBSET TraceTools, attempt : Nat],
         script'.asked # {} => script.in = "Run" /\ script'.pc = "failed"
  PROVE  TraceInv'
<1> DEFINE z == script.in
<1>1. /\ z \in TraceStages /\ stage' = [stage EXCEPT ![z] = [status |-> status, steps |-> q]]
      /\ current' = IF current = z THEN "none" ELSE current
  BY DEF EndsAs, TraceInv, ScriptOK
<1>2. /\ stage'[z] = [status |-> status, steps |-> q]
      /\ \A s \in TraceStages : s # z => stage'[s] = stage[s]
  BY <1>1 DEF TraceInv, ScriptOK
<1>3. q \in Seq(Step)
  BY DEF Told, WellListed
<1>4. stage' \in [TraceStages -> [status : {"pending", "running", "completed", "degraded", "failed"},
                                 steps : Seq(Step)]]
  BY <1>1, <1>3 DEF TraceInv, ScriptOK
<1>5. current' \in {"none"} \cup TraceStages /\ current' \in {current, "none", z}
  BY <1>1 DEF TraceInv, ScriptOK
<1>6. "Run" # "Summary" /\ "Run" \in TraceStages /\ "Summary" \in TraceStages /\ Ended(status)
  BY DEF TraceStages, Ended
<1>7. script'.in = z /\ script'.pc \in {"ended", "failed"}
  OBVIOUS
<1>8. /\ z = "Run" => stage'["Summary"] = [status |-> "pending", steps |-> <<>>]
      /\ z = "Summary" => stage'["Run"].status = "completed"
  BY <1>2, <1>6 DEF TraceInv, ScriptOK
<1>9. ScriptOK'
  BY <1>1, <1>2, <1>4, <1>5, <1>6, <1>7, <1>8 DEF ScriptOK, Done, Talking
<1>10. \A s \in TraceStages : s # z => Told(stage'[s].steps, s, stage'[s].status, current', script')
  BY <1>2, <1>5, <1>7, Elsewhere
<1> QED BY <1>2, <1>9, <1>10, InOrderAgain

LEMMA SummaryDegradesKeeps == ASSUME TraceInv, SummaryDegrades PROVE TraceInv'
<1> DEFINE z == script.in
           r == ResultLast(Put(Steps, Fallback, "completed", {}))
           q == Closed(r, "failed")
<1>1. /\ z = "Summary" /\ script.pc \in {"prompting", "asking", "saying", "checking"}
      /\ EndsAs(z, "degraded", q) /\ script' = [script EXCEPT !.pc = "ended"]
  BY DEF SummaryDegrades, In, At, Goes
<1>2. /\ script'.in = z /\ script'.pc = "ended" /\ script'.asked = {} /\ script.asked = {}
      /\ script' \in [watch : BOOLEAN, in : {z}, pc : {"ended", "failed"},
                      asked : SUBSET TraceTools, attempt : Nat]
  BY <1>1 DEF TraceInv, ScriptOK
<1>3. ~Fresh(z, script')
  BY <1>2 DEF Fresh, Talking, Streaming
<1>4. current' # z
  BY <1>1 DEF EndsAs
<1>5. Told(Steps, z, stage[z].status, current, script)
  BY StepsNow
<1>6. Told(r, z, stage[z].status, current, script)
  BY <1>5, SystemPlaced
<1> HIDE DEF r
<1>7. /\ WellListed(r) /\ ResultIsLast(r)
      /\ \A x \in All(r) : /\ x.id = ResultId => \E a \in Nat : x.text \subseteq {a}
                           /\ z = "Summary" /\ x.id[1] = "thinking" => x.id = Thought(0)
  BY <1>6 DEF Told
<1>8. Told(q, z, "degraded", current', script')
  BY <1>3, <1>4, <1>7, ClosedList
<1> QED BY <1>1, <1>2, <1>8, OwnEnd

LEMMA StageFailedKeeps == ASSUME TraceInv, StageFailed PROVE TraceInv'
<1> DEFINE z == script.in
           q == Closed(Steps, "failed")
<1>1. /\ script.pc = "broken" /\ EndsAs(z, "failed", q) /\ script' = [script EXCEPT !.pc = "failed"]
  BY DEF StageFailed, Unfinished, At, Goes
<1>2. /\ script'.in = z /\ script'.pc = "failed" /\ script'.asked = script.asked
      /\ script' \in [watch : BOOLEAN, in : {z}, pc : {"ended", "failed"},
                      asked : SUBSET TraceTools, attempt : Nat]
      /\ script.asked # {} => z = "Run"
  BY <1>1 DEF TraceInv, ScriptOK
<1>3. ~Fresh(z, script')
  BY <1>2 DEF Fresh, Talking, Streaming
<1>4. current' # z
  BY <1>1, StepsNow DEF EndsAs, TraceStages
<1>5. Told(Steps, z, stage[z].status, current, script)
  BY StepsNow
<1>6. /\ WellListed(Steps) /\ ResultIsLast(Steps)
      /\ \A x \in All(Steps) : /\ x.id = ResultId => \E a \in Nat : x.text \subseteq {a}
                               /\ z = "Summary" /\ x.id[1] = "thinking" => x.id = Thought(0)
  BY <1>5 DEF Told
<1>7. Told(q, z, "failed", current', script')
  BY <1>3, <1>4, <1>6, ClosedList
<1> QED BY <1>1, <1>2, <1>7, OwnEnd

\* What a stage that completes has listed.
\* A completed stage shows its report as the result, and nothing running.
LEMMA CompletedList ==
  ASSUME NEW steps, NEW s, NEW st0, NEW cur0, NEW scr0, Told(steps, s, st0, cur0, scr0),
         NEW cur, NEW scr, cur # s, ~Fresh(s, scr)
  PROVE  Told(Closed(ResultLast(Put(Closed(steps, "completed"), ResultId, "completed", {Report})), "completed"),
              s, "completed", cur, scr)
<1> DEFINE a == Closed(steps, "completed")
           p == Put(a, ResultId, "completed", {Report})
           r == ResultLast(p)
           new == NewStep(ResultId, "completed", {Report})
<1>1. WellListed(steps) /\ "completed" \in Statuses /\ ResultId \in Kinds \X Nat
      /\ ResultId[1] # "thinking" /\ {Report} \in SUBSET Nat
  BY KnownIds DEF Told, Statuses, Report
<1>2. WellListed(a) /\ All(a) = {Shut(x, "completed") : x \in All(steps)}
  BY <1>1, ClosedFacts
<1>3. \A x \in All(steps) : x \in Step
  BY <1>1 DEF All, WellListed
<1>4. \A x \in All(steps) : Shut(x, "completed").id = x.id
  BY <1>3 DEF Step, Shut
<1>5. \A x \in All(a) : \E y \in All(steps) : x.id = y.id
  BY <1>2, <1>4
<1>6. WellListed(p) /\ All(p) = Swapped(a, new)
  BY <1>1, <1>2, PutFacts
<1>7. WellListed(r) /\ ResultIsLast(r) /\ All(r) = Swapped(a, new)
  BY <1>6, ResultMoves
<1>8. new.id = ResultId /\ new.text = {Report} /\ Report \in Nat
  BY DEF NewStep, Report
<1> HIDE DEF new, r, a, p
<1>9. ASSUME NEW x \in All(r)
      PROVE  /\ x.id = ResultId => x.text = {Report} /\ \E n \in Nat : x.text \subseteq {n}
             /\ s = "Summary" /\ x.id[1] = "thinking" => x.id = Thought(0)
  <2>1. CASE x = new
    BY <1>1, <1>8, <2>1
  <2>2. CASE x # new
    <3>1. x \in All(a) /\ x.id # ResultId
      BY <1>7, <1>8, <2>2 DEF Swapped
    <3>2. PICK y \in All(steps) : x.id = y.id
      BY <1>5, <3>1
    <3> QED BY <3>1, <3>2 DEF Told
  <2> QED BY <2>1, <2>2
<1> QED BY <1>7, <1>9, ClosedList DEF r, p, a

LEMMA StageCompletesKeeps == ASSUME TraceInv, StageCompletes PROVE TraceInv'
<1> DEFINE z == script.in
           base == IF In("Run") THEN ThinkingClosed(Steps) ELSE Steps
           q == Closed(ResultLast(Put(Closed(base, "completed"), ResultId, "completed", {Report})), "completed")
<1>1. /\ script.pc \in {"checking", "prompting"} /\ EndsAs(z, "completed", q)
      /\ script' = IF z = "Run" /\ ~script.watch THEN [script EXCEPT !.in = "Summary", !.pc = "ready"]
                   ELSE [script EXCEPT !.pc = "ended"]
  BY DEF StageCompletes, At, In, Goes
<1>2. Told(base, z, stage[z].status, current, script) /\ z \in TraceStages
  BY StepsNow, ThinkingClosedTold
<1>3. script.asked = {} /\ current' # z
  BY <1>1, <1>2 DEF TraceInv, ScriptOK, EndsAs, TraceStages
<1> HIDE DEF base
<1>4. CASE ~(z = "Run" /\ ~script.watch)
  <2>1. /\ script'.in = z /\ script'.pc = "ended" /\ script'.asked = {}
        /\ script' \in [watch : BOOLEAN, in : {z}, pc : {"ended", "failed"},
                        asked : SUBSET TraceTools, attempt : Nat]
    BY <1>1, <1>3, <1>4 DEF TraceInv, ScriptOK
  <2>2. ~Fresh(z, script')
    BY <2>1 DEF Fresh, Talking, Streaming
  <2>3. Told(q, z, "completed", current', script')
    BY <1>2, <1>3, <2>2, CompletedList
  <2> HIDE DEF q
  <2> QED BY <1>1, <2>1, <2>3, OwnEnd
<1>5. CASE z = "Run" /\ ~script.watch
  <2>1. /\ script'.in = "Summary" /\ script'.pc = "ready" /\ script'.asked = {}
        /\ script' \in [watch : BOOLEAN, in : TraceStages, pc : {"ready"}, asked : SUBSET TraceTools,
                        attempt : Nat]
    BY <1>1, <1>3, <1>5 DEF TraceInv, ScriptOK, TraceStages
  <2>2. "Run" # "Summary" /\ TraceStages = {"Run", "Summary"}
    BY DEF TraceStages
  <2>3. ~Fresh("Run", script') /\ ~Fresh("Summary", script')
    BY <2>1, <2>2 DEF Fresh, Talking, Streaming
  <2>4. Told(q, "Run", "completed", current', script')
    BY <1>2, <1>3, <1>5, <2>3, CompletedList
  <2>5. q \in Seq(Step)
    BY <2>4 DEF Told, WellListed
  <2> HIDE DEF q
  <2>6. /\ stage' = [stage EXCEPT !["Run"] = [status |-> "completed", steps |-> q]]
        /\ current' \in {current, "none"}
    BY <1>1, <1>5 DEF EndsAs
  <2>7. stage'["Run"] = [status |-> "completed", steps |-> q]
        /\ stage'["Summary"] = [status |-> "pending", steps |-> <<>>]
    BY <1>5, <2>2, <2>6 DEF TraceInv, ScriptOK
  <2>8. stage' \in [TraceStages -> [status : {"pending", "running", "completed", "degraded", "failed"},
                                   steps : Seq(Step)]]
    BY <2>5, <2>6 DEF TraceInv, ScriptOK
  <2>9. ScriptOK'
    BY <2>1, <2>2, <2>6, <2>7, <2>8 DEF TraceInv, ScriptOK, Talking, Done
  <2>10. WellListed(<<>>) /\ ResultIsLast(<<>>) /\ All(<<>>) = {} /\ ~Ended("pending")
    BY DEF WellListed, ResultIsLast, All, Unique, Ended
  <2>11. Told(<<>>, "Summary", "pending", current', script')
    BY <2>10 DEF Told, OneThinks
  <2> QED BY <2>2, <2>4, <2>7, <2>9, <2>11, InOrderAgain
<1> QED BY <1>4, <1>5

\* Every step of the writer keeps the trace in order.
LEMMA TraceSteps == TraceInv /\ [TraceNext]_traceVars => TraceInv'
<1> SUFFICES ASSUME TraceInv, [TraceNext]_traceVars
             PROVE  TraceInv'
  OBVIOUS
<1>1. CASE UNCHANGED traceVars
  BY <1>1 DEF traceVars, TraceInv, ScriptOK
<1>2. ASSUME NEW c \in TraceTools, StartsTool(c) \/ EndsTool(c) \/ LateAnswer(c)
      PROVE  TraceInv'
  BY <1>2, StartsToolKeeps, EndsToolKeeps, LateAnswerKeeps
<1> QED BY <1>1, <1>2, EnterStageKeeps, SystemStepKeeps, PromptPreparedKeeps, ThinksKeeps, SaysKeeps,
           RepliedKeeps, StageCompletesKeeps, FinalStatusKeeps, SummaryAgainKeeps,
           SummaryDegradesKeeps, StageBreaksKeeps, StageFailedKeeps, RuntimeResetKeeps DEF TraceNext

\* For any number of calls, rounds and attempts, however prompts break,
\* are tried again or degrade: a stage lists each step once and its result last,
\* at most one thought is under way and never beside a call, a stage that ended
\* shows nothing running, and the text of a completed one is its report.
THEOREM TracesTellTheRun == Spec => []TraceTellsTheRun
<1>1. Init => TraceInv
  BY TraceOpens DEF Init
<1>2. TraceInv /\ [Next]_vars => TraceInv'
  <2>1. [Next]_vars => [TraceNext]_traceVars
    BY DEF Next, Only, vars
  <2> QED BY <2>1, TraceSteps
<1>3. TraceInv => TraceTellsTheRun
  BY TraceReadsSo
<1> QED BY <1>1, <1>2, <1>3, PTL DEF Spec


------------------------------------------------------------------------------
(* The models a stage runs on. *)

ModelRow  == [channel : 0 .. MaxChannels, name : ModelNames \cup {""}]
ModelPage == [revision : Nat, model : [Stages -> 0 .. MaxModels]]

\* What a request carries.
Carries(r, rows, page, lost) ==
  /\ r.kind = "update" /\ r.step = "decided" => r.model \in [Stages -> 0 .. MaxModels]
  /\ r.kind \in {"save", "clear"} => r.channel \in 1 .. MaxChannels /\ r.shown \in Nat \ {0}
  /\ r.kind = "save" => r.names \in Catalogues
  /\ r.kind = "delete" => r.channel \in 1 .. MaxChannels
  /\ r.kind = "delete" /\ r.step = "decided" =>
       /\ r.read \in ModelPage /\ r.models \subseteq Ids /\ r.read.revision <= page.revision
       /\ r.read.revision = page.revision =>
            /\ r.read.model = page.model
            /\ \A s \in Stages \ lost :
                 page.model[s] \in r.models => rows[page.model[s]].channel = r.channel

RowsInv ==
  /\ channel \in [1 .. MaxChannels -> Nat]
  /\ chosen \in [Ids -> ModelRow]
  /\ settings \in ModelPage
  /\ \A m \in ModelRows : chosen[m].channel \in ChannelRows
  /\ \A m, k \in ModelRows : chosen[m] = chosen[k] => m = k

OrphansInv ==
  \A s \in Stages : settings.model[s] > 0 /\ chosen[settings.model[s]] = Missing => s \in orphaned

CarriesInv ==
  request \in [Editors -> {request[e] : e \in Editors}]
  /\ \A e \in Editors : Carries(request[e], chosen, settings, orphaned)

ModelInv == RowsInv /\ OrphansInv /\ CarriesInv

\* A set of natural numbers has a least one.
LEMMA LeastOne == ASSUME NEW T, T \subseteq Nat, T # {} PROVE \E x \in T : \A y \in T : x <= y
<1>1. IsWellFoundedOn(OpToRel(<, Nat), Nat)
  BY NatLessThanWellFounded
<1> DEFINE R == OpToRel(<, Nat)
<1>2. \A x, y \in Nat : x < y => <<x, y>> \in R
  BY DEF OpToRel
<1> HIDE DEF R
<1>3. IsWellFoundedOn(R, Nat)
  BY <1>1 DEF R
<1>4. PICK x \in T : \A y \in T : ~ (<<y, x>> \in R)
  BY <1>3, WFMin
<1>5. \A y \in T : ~ (y < x)
  BY <1>2, <1>4
<1>6. \A y \in T : x <= y
  BY <1>5
<1> QED BY <1>6

\* The id of a new row is larger than those in use.
LEMMA TopId ==
  ASSUME NEW n \in Nat, NEW used, used \subseteq 1 .. n
  PROVE  NextId(used) \in Nat \ {0} /\ \A u \in used : u < NextId(used)
<1>0. \A u \in used : u \in Nat \ {0}
  OBVIOUS
<1>1. CASE used = {}
  BY <1>1 DEF NextId
<1>2. CASE used # {}
  <2> DEFINE T == {t \in Nat : \A u \in used : u <= t}
  <2>1. n \in T /\ T \subseteq Nat
    OBVIOUS
  <2>2. PICK top \in T : \A t \in T : top <= t
    BY <2>1, LeastOne
  <2>3. top \in used
    <3>1. SUFFICES ASSUME top \notin used PROVE FALSE
      OBVIOUS
    <3>2. PICK u \in used : TRUE
      BY <1>2
    <3>6. u \in Nat /\ u >= 1
      OBVIOUS
    <3>3. top \in Nat /\ u <= top /\ \A v \in used : v \in Nat /\ v <= top /\ v # top
      BY <2>1, <2>2, <3>1
    <3>4. top - 1 \in Nat /\ \A v \in used : v <= top - 1
      BY <3>3, <3>6
    <3>5. top - 1 \in T
      BY <3>4
    <3> QED BY <2>2, <3>3, <3>5
  <2>4. \E x \in used : \A y \in used : x >= y
    BY <2>2, <2>3
  <2>5. Max(used) \in used /\ \A y \in used : Max(used) >= y
    BY <2>4 DEF Max
  <2>6. Max(used) \in Nat \ {0}
    BY <1>0, <2>5
  <2>7. NextId(used) = Max(used) + 1
    BY <1>2 DEF NextId
  <2> HIDE DEF T
  <2>8. \A u \in used : u \in Nat
    OBVIOUS
  <2> QED BY <2>5, <2>6, <2>7, <2>8
<1> QED BY <1>1, <1>2

LEMMA NamesFacts ==
  ASSUME NEW names \in Catalogues
  PROVE  /\ Len(names) \in Nat /\ DOMAIN names = 1 .. Len(names)
         /\ \A i \in DOMAIN names : names[i] \in ModelNames
         /\ \A i, j \in DOMAIN names : names[i] = names[j] => i = j
         /\ names # <<>> => 1 \in DOMAIN names
<1>1. Cardinality(ModelNames) \in Nat
  BY ChannelAssumption, FS_CardinalityType
<1>2. /\ \E n \in 0 .. Cardinality(ModelNames) : names \in [1 .. n -> ModelNames]
      /\ \A i, j \in DOMAIN names : names[i] = names[j] => i = j
  BY DEF Catalogues
<1>3. PICK n \in Nat : names \in [1 .. n -> ModelNames]
  BY <1>1, <1>2
<1>4. names \in Seq(ModelNames) /\ Len(names) = n
  BY <1>3
<1>5. names # <<>> => n >= 1
  BY <1>3, <1>4
<1> QED BY <1>2, <1>3, <1>4, <1>5

LEMMA ModelIds == ModelRows \subseteq 1 .. MaxModels /\ Ids = 1 .. MaxModels /\ MaxModels \in Nat
BY ChannelAssumption DEF ModelRows, Ids

LEMMA SameRow ==
  ASSUME NEW x \in ModelRow, NEW y \in ModelRow, x.channel = y.channel, x.name = y.name PROVE x = y
<1>1. x = [channel |-> x.channel, name |-> x.name]
  BY DEF ModelRow
<1>2. y = [channel |-> y.channel, name |-> y.name]
  BY DEF ModelRow
<1> QED BY <1>1, <1>2

\* The row that keeps a name, if there is one.
LEMMA KeptFacts ==
  ASSUME RowsInv, NEW c \in 1 .. MaxChannels, NEW name
  PROVE  /\ KeptId(c, name) \in ModelsOf(c) \cup {0} /\ KeptId(c, name) \in Nat
         /\ KeptId(c, name) > 0 =>
              /\ KeptId(c, name) \in ModelRows /\ KeptId(c, name) \in ModelsOf(c)
              /\ chosen[KeptId(c, name)].channel = c /\ chosen[KeptId(c, name)].name = name
         /\ \A k \in ModelsOf(c) : chosen[k].name = name => KeptId(c, name) = k
<1> DEFINE Held == \E k \in ModelsOf(c) : chosen[k].name = name
           Fits(m) == IF Held THEN m > 0 /\ chosen[m].name = name ELSE m = 0
<1>1. ModelsOf(c) \subseteq ModelRows /\ \A k \in ModelsOf(c) : k \in Nat \ {0} /\ chosen[k].channel = c
  BY ModelIds DEF ModelsOf
<1>2. \E m \in ModelsOf(c) \cup {0} : Fits(m)
  BY <1>1
<1>3. KeptId(c, name) \in ModelsOf(c) \cup {0} /\ Fits(KeptId(c, name))
  BY <1>2 DEF KeptId
<1> DEFINE id == KeptId(c, name)
<1>4. id > 0 => id \in ModelsOf(c) /\ chosen[id].name = name
  BY <1>3
<1>5. ASSUME NEW k \in ModelsOf(c), chosen[k].name = name PROVE id = k
  <2>1. id \in ModelsOf(c) /\ chosen[id].name = name
    BY <1>3, <1>5
  <2>2. id \in ModelRows /\ k \in ModelRows /\ chosen[id].channel = c /\ chosen[k].channel = c
    BY <1>1, <2>1
  <2> HIDE DEF id
  <2>3. chosen[id] \in ModelRow /\ chosen[k] \in ModelRow
    BY <2>2 DEF RowsInv, ModelRows
  <2>5. chosen[id].name = chosen[k].name
    BY <1>5, <2>1
  <2>4. chosen[id] = chosen[k]
    BY <2>2, <2>3, <2>5, SameRow
  <2> QED BY <2>2, <2>4 DEF RowsInv
<1> QED BY <1>1, <1>3, <1>4, <1>5

\* Ids of the entries of a catalogue: those of the rows that are kept, and new ones.
LEMMA IdFacts ==
  ASSUME RowsInv, NEW c \in 1 .. MaxChannels, NEW names \in Catalogues, NEW i \in DOMAIN names,
         NextId(ModelRows) - 1 + Cardinality(Added(c, names, Len(names))) <= MaxModels
  PROVE  /\ IdAt(c, names, i) \in Ids
         /\ KeptId(c, names[i]) > 0 => IdAt(c, names, i) = KeptId(c, names[i])
         /\ ~(KeptId(c, names[i]) > 0) => IdAt(c, names, i) \notin ModelRows
<1> DEFINE n == Len(names)
           A == Added(c, names, i)
           B == Added(c, names, n)
           top == NextId(ModelRows)
<1>1. top \in Nat \ {0} /\ \A u \in ModelRows : u \in Nat /\ u < top
  <2>1. ModelRows \subseteq 1 .. MaxModels /\ MaxModels \in Nat
    BY ModelIds
  <2>2. top \in Nat \ {0} /\ \A u \in ModelRows : u < top
    BY <2>1, TopId
  <2> QED BY <2>1, <2>2
<1>2. n \in Nat /\ i \in 1 .. n
  BY NamesFacts
<1>3. A \subseteq B /\ B \subseteq 1 .. n /\ A \subseteq 1 .. i
  BY <1>2 DEF Added
<1>4. IsFiniteSet(1 .. n)
  BY <1>2, FS_Interval
<1>5. IsFiniteSet(B)
  BY <1>3, <1>4, FS_Subset
<1>6. /\ IsFiniteSet(A) /\ Cardinality(A) <= Cardinality(B)
      /\ Cardinality(A) \in Nat /\ Cardinality(B) \in Nat
  BY <1>3, <1>5, FS_Subset, FS_CardinalityType
<1>7. CASE KeptId(c, names[i]) > 0
  <2>1. IdAt(c, names, i) = KeptId(c, names[i]) /\ KeptId(c, names[i]) \in ModelRows
    BY <1>7, KeptFacts DEF IdAt
  <2> QED BY <1>7, <2>1, ModelIds
<1>8. CASE ~(KeptId(c, names[i]) > 0)
  <2>1. KeptId(c, names[i]) = 0
    BY <1>8, KeptFacts
  <2>2. i \in A
    BY <1>2, <2>1 DEF Added
  <2>3. Cardinality(A) # 0
    BY <1>6, <2>2, FS_EmptySet
  <2>4. IdAt(c, names, i) = top - 1 + Cardinality(A)
    BY <1>8 DEF IdAt
  <2> HIDE DEF A, B, top
  <2>5. top - 1 + Cardinality(A) \in 1 .. MaxModels /\ top - 1 + Cardinality(A) >= top
    <3>1. top - 1 + Cardinality(B) <= MaxModels
      BY DEF top, B
    <3> QED BY <1>1, <1>6, <2>3, <3>1, ModelIds
  <2>6. top - 1 + Cardinality(A) \notin ModelRows
    BY <1>1, <2>5
  <2> QED BY <1>8, <2>4, <2>5, <2>6, ModelIds
<1> QED BY <1>7, <1>8

\* The rows after a catalogue of channel c has been stored.
LEMMA ReplacedFacts ==
  ASSUME RowsInv, NEW c \in 1 .. MaxChannels, NEW names \in Catalogues, NEW q, q = Replaced(c, names),
         NextId(ModelRows) - 1 + Cardinality(Added(c, names, Len(names))) <= MaxModels
  PROVE  /\ q \in [Ids -> ModelRow]
         /\ \A m \in Ids : q[m] # Missing => q[m].channel = c \/ (m \in ModelRows /\ q[m] = chosen[m])
         /\ \A m \in ModelRows : q[m] \in {chosen[m], Missing}
         /\ \A m \in ModelRows : chosen[m].channel # c => q[m] = chosen[m]
         /\ \A m \in ModelRows : q[m] = Missing => \A k \in Ids : q[k] # chosen[m]
         /\ \A m, k \in Ids : q[m] # Missing /\ q[m] = q[k] => m = k
         /\ \A m \in ModelRows : q[m] = chosen[m] /\ chosen[m].channel = c =>
              \E i \in DOMAIN names : IdAt(c, names, i) = m
<1> DEFINE Home(i) == IdAt(c, names, i)
           Given(m) == \E i \in DOMAIN names : Home(i) = m
           Place(m) == CHOOSE i \in DOMAIN names : Home(i) = m
<1>1. /\ \A m \in Ids : Given(m) => Place(m) \in DOMAIN names /\ Home(Place(m)) = m
                                   /\ q[m] = [channel |-> c, name |-> names[Place(m)]]
      /\ \A m \in Ids : ~Given(m) => q[m] = IF chosen[m].channel = c THEN Missing ELSE chosen[m]
      /\ q = [m \in Ids |-> IF Given(m) THEN [channel |-> c, name |-> names[Place(m)]]
                            ELSE IF chosen[m].channel = c THEN Missing ELSE chosen[m]]
  BY DEF Replaced
<1>2. c \in Nat \ {0} /\ MaxChannels \in Nat
  BY ChannelAssumption
<1>3. chosen \in [Ids -> ModelRow] /\ Missing \in ModelRow
  <2>1. chosen \in [Ids -> ModelRow]
    BY DEF RowsInv
  <2>2. 0 \in 0 .. MaxChannels /\ "" \in ModelNames \cup {""}
    BY <1>2
  <2>3. Missing \in ModelRow
    BY <2>2 DEF ModelRow, Missing
  <2> QED BY <2>1, <2>3
<1>4. \A m \in Ids : Given(m) => /\ q[m] \in ModelRow /\ q[m] # Missing /\ q[m].channel = c
                                 /\ q[m].name = names[Place(m)]
  <2>1. ASSUME NEW m \in Ids, Given(m)
        PROVE  /\ q[m] \in ModelRow /\ q[m] # Missing /\ q[m].channel = c
               /\ q[m].name = names[Place(m)]
    <3>1. names[Place(m)] \in ModelNames /\ q[m] = [channel |-> c, name |-> names[Place(m)]]
      BY <1>1, <2>1, NamesFacts
    <3>2. PICK name : name = names[Place(m)] /\ name \in ModelNames \cup {""}
      BY <3>1
    <3>3. q[m] = [channel |-> c, name |-> name]
      BY <3>1, <3>2
    <3>4. c \in 0 .. MaxChannels /\ c # 0
      BY <1>2
    <3>5. [channel |-> c, name |-> name] \in ModelRow
      BY <3>2, <3>4 DEF ModelRow
    <3>6. q[m] \in ModelRow
      BY <3>3, <3>5
    <3>7. q[m].channel = c /\ q[m].name = name
      BY <3>3
    <3>8. Missing.channel = 0
      BY DEF Missing
    <3>9. q[m] # Missing
      BY <3>4, <3>7, <3>8
    <3> QED BY <3>2, <3>6, <3>7, <3>9
  <2> QED BY <2>1
<1>5. \A m \in Ids : ~Given(m) => q[m] \in ModelRow /\ (q[m] # Missing => q[m] = chosen[m] /\ m \in ModelRows)
  BY <1>1, <1>3 DEF ModelRows
<1>6. q \in [Ids -> ModelRow]
  <2>1. q = [m \in Ids |-> q[m]]
    BY <1>1
  <2> QED BY <2>1, <1>4, <1>5
\* A row that is given a place again keeps what it says.
<1>7. ASSUME NEW m \in ModelRows, Given(m) PROVE q[m] = chosen[m] /\ chosen[m].channel = c
  <2>1. m \in Ids /\ Place(m) \in DOMAIN names /\ Home(Place(m)) = m
    BY <1>1, <1>7 DEF ModelRows
  <2>2. KeptId(c, names[Place(m)]) > 0
    BY <1>7, <2>1, IdFacts
  <2>3. m = KeptId(c, names[Place(m)])
    BY <2>1, <2>2, IdFacts
  <2>4. chosen[m].channel = c /\ chosen[m].name = names[Place(m)]
    <3>1. PICK name : name = names[Place(m)]
      OBVIOUS
    <3>2. KeptId(c, name) > 0 /\ m = KeptId(c, name)
      BY <2>2, <2>3, <3>1
    <3>3. chosen[KeptId(c, name)].channel = c /\ chosen[KeptId(c, name)].name = name
      BY <3>2, KeptFacts
    <3> QED BY <3>1, <3>2, <3>3
  <2>5. q[m] \in ModelRow /\ chosen[m] \in ModelRow /\ q[m].channel = c /\ q[m].name = names[Place(m)]
    BY <1>3, <1>4, <1>7, <2>1
  <2> QED BY <2>4, <2>5, SameRow
\* A row of the channel whose name is offered is given a place.
<1>8. ASSUME NEW m \in ModelsOf(c), NEW i \in DOMAIN names, chosen[m].name = names[i] PROVE Given(m)
  <2>1. m \in ModelRows /\ m > 0
    BY ModelIds DEF ModelsOf
  <2>2. KeptId(c, names[i]) = m
    BY <1>8, KeptFacts
  <2>3. Home(i) = m
    BY <2>1, <2>2, IdFacts
  <2> QED BY <2>3
<1>9. \A m \in ModelRows : m \in Ids /\ chosen[m] # Missing
  BY DEF ModelRows
<1>10. \A m \in ModelRows : chosen[m].channel # c => q[m] = chosen[m]
  BY <1>1, <1>7, <1>9
<1>11. \A m \in ModelRows : chosen[m].channel = c /\ ~Given(m) => q[m] = Missing
  BY <1>1, <1>9
<1>12. ASSUME NEW m \in ModelRows, q[m] = Missing, NEW k \in Ids, q[k] = chosen[m] PROVE FALSE
  <2>1. chosen[m].channel = c /\ m \in ModelsOf(c) /\ ~Given(m)
    BY <1>4, <1>9, <1>10, <1>12 DEF ModelsOf
  <2>2. CASE Given(k)
    <3>1. Place(k) \in DOMAIN names /\ chosen[m].name = names[Place(k)]
      BY <1>1, <1>4, <1>12, <2>2
    <3> QED BY <1>8, <2>1, <3>1
  <2>3. CASE ~Given(k)
    <3>1. q[k] = Missing
      BY <1>1, <1>12, <2>1, <2>3
    <3> QED BY <1>9, <1>12, <3>1
  <2> QED BY <2>2, <2>3
<1>13. ASSUME NEW m \in Ids, NEW k \in Ids, q[m] # Missing, q[m] = q[k] PROVE m = k
  <2>1. CASE Given(m) /\ Given(k)
    <3>1. names[Place(m)] = names[Place(k)]
      BY <1>4, <1>13, <2>1
    <3>2. Place(m) = Place(k)
      BY <1>1, <2>1, <3>1, NamesFacts
    <3> QED BY <1>1, <2>1, <3>2
  <2>2. ASSUME NEW x \in Ids, NEW y \in Ids, Given(x), ~Given(y), q[x] = q[y], q[y] # Missing PROVE FALSE
    <3>1. q[x].channel = c /\ q[y] = chosen[y] /\ chosen[y].channel # c
      BY <1>1, <1>4, <2>2
    <3> QED BY <2>2, <3>1
  <2>3. CASE ~Given(m) /\ ~Given(k)
    <3>1. q[m] = chosen[m] /\ q[k] = chosen[k] /\ m \in ModelRows /\ k \in ModelRows
      BY <1>5, <1>13, <2>3
    <3> QED BY <1>13, <3>1 DEF RowsInv
  <2> QED BY <1>13, <2>1, <2>2, <2>3
<1>14. \A m \in ModelRows : q[m] \in {chosen[m], Missing}
  BY <1>7, <1>10, <1>11
<1>15. \A m \in ModelRows : q[m] = chosen[m] /\ chosen[m].channel = c => Given(m)
  BY <1>9, <1>11
<1>16. \A m \in Ids : q[m] # Missing => q[m].channel = c \/ (m \in ModelRows /\ q[m] = chosen[m])
  BY <1>4, <1>5
<1> QED BY <1>6, <1>10, <1>12, <1>13, <1>14, <1>15, <1>16

\* A catalogue of a channel that is offered leaves the stages on their models, or
\* takes these away.
LEMMA CatalogueKeeps ==
  ASSUME RowsInv, NEW c \in 1 .. MaxChannels, NEW names \in Catalogues, Catalogue(c, names),
         channel' \in [1 .. MaxChannels -> Nat], channel'[c] > 0,
         \A x \in 1 .. MaxChannels : x # c => channel'[x] = channel[x]
  PROVE  /\ RowsInv'
         /\ settings' = settings \/ settings'.revision > settings.revision
         /\ \A m \in ModelRows : chosen'[m] \in {chosen[m], Missing}
         /\ \A s \in Stages : settings.model[s] \in ModelRows =>
              \/ settings'.model[s] = settings.model[s] /\ chosen'[settings.model[s]] = chosen[settings.model[s]]
              \/ \A k \in Ids : chosen'[k] # chosen[settings.model[s]]
<1> DEFINE q == Replaced(c, names)
           staying == {IdAt(c, names, i) : i \in DOMAIN names}
           removed == ModelsOf(c) \ staying
           first == IF names = <<>> THEN 0 ELSE IdAt(c, names, 1)
           followed == Replace(settings.model, removed, first)
           live == {x \in DOMAIN channel : channel'[x] > 0}
           stages == Reconcile(followed, q, live)
<1>1. /\ NextId(ModelRows) - 1 + Cardinality(Added(c, names, Len(names))) <= MaxModels
      /\ chosen' = q
      /\ IF stages = settings.model THEN settings' = settings
         ELSE settings' = [revision |-> settings.revision + 1, model |-> stages]
  BY DEF Catalogue, SavesSettings
<1>2. /\ q \in [Ids -> ModelRow]
      /\ \A m \in Ids : q[m] # Missing => q[m].channel = c \/ (m \in ModelRows /\ q[m] = chosen[m])
      /\ \A m \in ModelRows : q[m] \in {chosen[m], Missing}
      /\ \A m \in ModelRows : chosen[m].channel # c => q[m] = chosen[m]
      /\ \A m \in ModelRows : q[m] = Missing => \A k \in Ids : q[k] # chosen[m]
      /\ \A m, k \in Ids : q[m] # Missing /\ q[m] = q[k] => m = k
      /\ \A m \in ModelRows : q[m] = chosen[m] /\ chosen[m].channel = c => m \in staying
  <2>1. \A m : (\E i \in DOMAIN names : IdAt(c, names, i) = m) => m \in staying
    OBVIOUS
  <2> HIDE DEF staying
  <2> QED BY <1>1, <2>1, ReplacedFacts
<1>3. /\ settings \in ModelPage /\ settings.revision \in Nat
      /\ settings.model \in [Stages -> 0 .. MaxModels]
      /\ chosen \in [Ids -> ModelRow] /\ channel \in [1 .. MaxChannels -> Nat]
      /\ \A m \in ModelRows : chosen[m].channel \in ChannelRows
  BY DEF RowsInv, ModelPage
<1>4. first \in 0 .. MaxModels
  <2>1. CASE names = <<>>
    BY <2>1, ModelIds
  <2>2. CASE names # <<>>
    <3>1. 1 \in DOMAIN names
      BY <2>2, NamesFacts
    <3>2. IdAt(c, names, 1) \in Ids
      BY <1>1, <3>1, IdFacts
    <3> QED BY <2>2, <3>2, ModelIds
  <2> QED BY <2>1, <2>2
<1>5. followed = [s \in Stages |-> IF settings.model[s] \in removed THEN first ELSE settings.model[s]]
  BY DEF Replace
<1>6. stages = [s \in Stages |-> IF followed[s] > 0 /\ q[followed[s]] # Missing
                                    /\ q[followed[s]].channel \in live
                                 THEN followed[s] ELSE 0]
  BY DEF Reconcile
<1>7. \A m \in ModelRows : m \in Ids /\ m > 0 /\ m \in Nat /\ chosen[m] # Missing
  BY ModelIds DEF ModelRows
<1>8. /\ \A m \in ModelRows : chosen[m].channel \in live
      /\ c \in live
  BY <1>3 DEF ChannelRows
<1>9. \A m \in ModelRows : m \in removed => q[m] # chosen[m]
  <2>1. ASSUME NEW m \in removed PROVE chosen[m].channel = c /\ m \notin staying
    BY DEF ModelsOf
  <2> HIDE DEF removed, staying
  <2> QED BY <1>2, <2>1
<1> HIDE DEF q, staying, removed, first, followed, live, stages
<1>10. followed \in [Stages -> 0 .. MaxModels] /\ stages \in [Stages -> 0 .. MaxModels]
  <2>1. followed \in [Stages -> 0 .. MaxModels]
    BY <1>3, <1>4, <1>5
  <2>2. 0 \in 0 .. MaxModels
    BY ModelIds
  <2> QED BY <1>6, <2>1, <2>2
<1>11. settings' \in ModelPage /\ (settings' = settings \/ settings'.revision > settings.revision)
       /\ settings'.model = stages
  <2>1. CASE stages = settings.model
    BY <1>1, <1>3, <2>1
  <2>2. CASE stages # settings.model
    <3>1. settings' = [revision |-> settings.revision + 1, model |-> stages]
      BY <1>1, <2>2
    <3>2. settings.revision + 1 \in Nat /\ settings.revision + 1 > settings.revision
      BY <1>3
    <3> QED BY <1>10, <3>1, <3>2 DEF ModelPage
  <2> QED BY <2>1, <2>2
<1>12. ASSUME NEW s \in Stages, settings.model[s] \in ModelRows, q[settings.model[s]] = chosen[settings.model[s]]
       PROVE  stages[s] = settings.model[s]
  <2>1. followed[s] = settings.model[s]
    BY <1>5, <1>9, <1>12
  <2> QED BY <1>6, <1>7, <1>8, <1>12, <2>1
<1>13. RowsInv'
  <2>1. chosen' \in [Ids -> ModelRow]
    BY <1>1, <1>2
  <2>2. \A m \in ModelRows' : m \in Ids /\ q[m] # Missing
    BY <1>1 DEF ModelRows
  <2>3. \A m \in ModelRows' : q[m].channel \in live
    BY <1>2, <1>8, <2>2
  <2>4. live = ChannelRows'
    BY <1>3 DEF live, ChannelRows
  <2>5. \A m \in ModelRows' : chosen'[m].channel \in ChannelRows'
    BY <1>1, <2>3, <2>4
  <2>6. \A m, k \in ModelRows' : chosen'[m] = chosen'[k] => m = k
    BY <1>1, <1>2, <2>2
  <2> QED BY <1>11, <2>1, <2>5, <2>6 DEF RowsInv
<1>14. ASSUME NEW s \in Stages, settings.model[s] \in ModelRows
       PROVE  \/ settings'.model[s] = settings.model[s] /\ chosen'[settings.model[s]] = chosen[settings.model[s]]
              \/ \A k \in Ids : chosen'[k] # chosen[settings.model[s]]
  <2>1. CASE q[settings.model[s]] = Missing
    BY <1>1, <1>2, <1>14, <2>1
  <2>2. CASE q[settings.model[s]] = chosen[settings.model[s]]
    BY <1>1, <1>11, <1>12, <1>14, <2>2
  <2> QED BY <1>2, <1>14, <2>1, <2>2
<1> QED BY <1>1, <1>2, <1>11, <1>13, <1>14

\* What a request carries stays in order when the rows are kept or deleted and the
\* settings are what they were or newer.
LEMMA CarriesKept ==
  ASSUME NEW r, NEW rows, NEW rows1, NEW page, NEW page1, NEW lost, NEW lost1,
         Carries(r, rows, page, lost),
         page \in ModelPage, page1 \in ModelPage,
         page1 = page \/ page1.revision > page.revision,
         \A m \in Ids : rows[m] # Missing => rows1[m] \in {rows[m], Missing},
         \A s \in Stages \ lost1 :
           page1.model[s] > 0 => rows1[page1.model[s]] # Missing /\ (page1 = page => s \notin lost)
  PROVE  Carries(r, rows1, page1, lost1)
<1>1. page.revision \in Nat /\ page1.revision \in Nat /\ page.revision <= page1.revision
  BY DEF ModelPage
<1>2. SUFFICES ASSUME r.kind = "delete" /\ r.step = "decided"
               PROVE  /\ r.read.revision <= page1.revision
                      /\ r.read.revision = page1.revision =>
                           /\ r.read.model = page1.model
                           /\ \A s \in Stages \ lost1 :
                                page1.model[s] \in r.models => rows1[page1.model[s]].channel = r.channel
  BY DEF Carries
<1>3. /\ r.read \in ModelPage /\ r.read.revision \in Nat /\ r.models \subseteq Ids
      /\ r.read.revision <= page.revision /\ r.channel \in 1 .. MaxChannels
  BY <1>2 DEF Carries, ModelPage
<1>4. ASSUME r.read.revision = page1.revision
      PROVE  /\ r.read.model = page1.model
             /\ \A s \in Stages \ lost1 :
                  page1.model[s] \in r.models => rows1[page1.model[s]].channel = r.channel
  <2>1. page1 = page
    BY <1>1, <1>3, <1>4
  <2>2. /\ r.read.model = page.model
        /\ \A s \in Stages \ lost : page.model[s] \in r.models => rows[page.model[s]].channel = r.channel
    BY <1>2, <1>4, <2>1 DEF Carries
  <2>3. ASSUME NEW s \in Stages \ lost1, page.model[s] \in r.models
        PROVE  rows1[page.model[s]].channel = r.channel
    <3>1. page.model[s] \in Ids /\ page.model[s] > 0
      BY <1>3, <2>3, ModelIds
    <3>2. rows1[page.model[s]] # Missing /\ s \notin lost
      BY <2>1, <2>3, <3>1
    <3>3. rows[page.model[s]].channel = r.channel
      BY <2>2, <2>3, <3>2
    <3>4. rows[page.model[s]] # Missing
      <4>1. Missing.channel = 0
        BY DEF Missing
      <4>2. ~ (0 \in 1 .. MaxChannels)
        BY ChannelAssumption
      <4> QED BY <1>3, <3>3, <4>1, <4>2
    <3> QED BY <3>1, <3>2, <3>3, <3>4
  <2> QED BY <2>1, <2>2, <2>3
<1> QED BY <1>1, <1>3, <1>4

\* What a step has to do to keep all this in order: nothing about the requests but
\* the one that takes the step.
LEMMA ModelStep ==
  ASSUME ModelInv, Orphans, RowsInv',
         settings' = settings \/ settings'.revision > settings.revision,
         \A m \in ModelRows : chosen'[m] \in {chosen[m], Missing},
         NEW e \in Editors, NEW what,
         request' = [request EXCEPT ![e] = what],
         Carries(request[e], chosen, settings, orphaned)
           => Carries(what, chosen', settings', orphaned')
  PROVE  ModelInv'
<1>1. settings \in ModelPage /\ settings' \in ModelPage
  BY DEF ModelInv, RowsInv
<1>2. /\ \A s \in Stages : settings'.model[s] > 0 /\ chosen'[settings'.model[s]] = Missing => s \in orphaned'
      /\ \A s \in Stages \ orphaned' :
           settings'.model[s] > 0 => /\ chosen'[settings'.model[s]] # Missing
                                     /\ settings' = settings => s \notin orphaned
  BY DEF Orphans
<1>3. OrphansInv'
  BY <1>2 DEF OrphansInv
<1>4. \A m \in Ids : chosen[m] # Missing => chosen'[m] \in {chosen[m], Missing}
  BY DEF ModelRows
<1>5. request \in [Editors -> {request[x] : x \in Editors}]
      /\ \A x \in Editors : Carries(request[x], chosen, settings, orphaned)
  BY DEF ModelInv, CarriesInv
<1>6. \A x \in Editors : Carries(request[x], chosen', settings', orphaned')
  BY <1>1, <1>2, <1>4, <1>5, CarriesKept
<1>7. DOMAIN request = Editors
  BY <1>5
<1>8. DOMAIN request' = Editors /\ \A x \in Editors : request'[x] = IF x = e THEN what ELSE request[x]
  BY <1>7
<1>9. \A x \in Editors : Carries(request'[x], chosen', settings', orphaned')
  BY <1>5, <1>6, <1>8
<1>10. request' \in [Editors -> {request'[x] : x \in Editors}]
  <2>1. request' = [x \in Editors |-> request'[x]]
    BY <1>7, <1>8
  <2> QED BY <2>1
<1> QED BY <1>3, <1>9, <1>10 DEF ModelInv, CarriesInv

KeepsItsModel(s) ==
  RunsOn(s) # Missing =>
    RunsOn(s)' = RunsOn(s) \/ RunsOn(s) \notin {chosen'[m] : m \in Ids}

\* A stage that keeps its reference and its row, or loses the row, is as it should be.
LEMMA KeepsFacts ==
  ASSUME RowsInv, NEW s \in Stages,
         settings.model[s] \in ModelRows =>
           \/ settings'.model[s] = settings.model[s] /\ chosen'[settings.model[s]] = chosen[settings.model[s]]
           \/ \A k \in Ids : chosen'[k] # chosen[settings.model[s]]
  PROVE  KeepsItsModel(s)
<1>1. settings.model[s] \in 0 .. MaxModels
  BY DEF RowsInv, ModelPage
<1>2. SUFFICES ASSUME RunsOn(s) # Missing
               PROVE  RunsOn(s)' = RunsOn(s) \/ RunsOn(s) \notin {chosen'[m] : m \in Ids}
  BY DEF KeepsItsModel
<1>3. settings.model[s] # 0 /\ RunsOn(s) = chosen[settings.model[s]]
  BY <1>2 DEF RunsOn
<1>4. settings.model[s] \in ModelRows
  BY <1>1, <1>2, <1>3, ModelIds DEF ModelRows
<1>5. CASE settings'.model[s] = settings.model[s] /\ chosen'[settings.model[s]] = chosen[settings.model[s]]
  <2>1. RunsOn(s)' = chosen'[settings'.model[s]]
    BY <1>3, <1>5 DEF RunsOn
  <2> QED BY <1>3, <1>5, <2>1
<1>6. CASE \A k \in Ids : chosen'[k] # chosen[settings.model[s]]
  BY <1>3, <1>6
<1> QED BY <1>4, <1>5, <1>6

\* A request that only reads, or that is refused, changes no row.
LEMMA QuietStep ==
  ASSUME ModelInv, Orphans, UNCHANGED <<channel, chosen, settings>>,
         NEW e \in Editors, NEW what,
         request' = [request EXCEPT ![e] = what],
         Carries(request[e], chosen, settings, orphaned)
           => Carries(what, chosen', settings', orphaned')
  PROVE  ModelInv' /\ \A s \in Stages \ orphaned : channel' # channel => KeepsItsModel(s)
<1>1. RowsInv'
  BY DEF ModelInv, RowsInv, ModelRows, ChannelRows
<1>2. ModelInv'
  BY <1>1, ModelStep
<1> QED BY <1>2

LEMMA IdleCarries ==
  ASSUME NEW rows, NEW page, NEW lost
  PROVE  Carries(Idle, rows, page, lost)
BY DEF Carries, Idle

LEMMA BeginsStep ==
  ASSUME ModelInv, Orphans, NEW e \in Editors,
         \/ UpdateBegins(e)
         \/ \E c \in ChannelRows :
              \/ ClearBegins(e, c) \/ DeleteBegins(e, c)
              \/ \E names \in Catalogues : SaveBegins(e, c, names)
  PROVE  ModelInv' /\ \A s \in Stages \ orphaned : channel' # channel => KeepsItsModel(s)
<1>1. \A c \in ChannelRows : c \in 1 .. MaxChannels /\ channel[c] \in Nat \ {0}
  BY DEF ModelInv, RowsInv, ChannelRows
<1>2. CASE UpdateBegins(e)
  <2> DEFINE what == [kind |-> "update", shown |-> settings.revision, step |-> "compared"]
  <2>1. request' = [request EXCEPT ![e] = what] /\ UNCHANGED <<channel, chosen, settings>>
    BY <1>2 DEF UpdateBegins, Begin
  <2>2. Carries(what, chosen', settings', orphaned')
    BY DEF Carries
  <2> QED BY <2>1, <2>2, QuietStep
<1>3. ASSUME NEW c \in ChannelRows, ClearBegins(e, c)
      PROVE  ModelInv' /\ \A s \in Stages \ orphaned : channel' # channel => KeepsItsModel(s)
  <2> DEFINE what == [kind |-> "clear", shown |-> channel[c], channel |-> c]
  <2>1. request' = [request EXCEPT ![e] = what] /\ UNCHANGED <<channel, chosen, settings>>
    BY <1>3 DEF ClearBegins, Begin
  <2>2. Carries(what, chosen', settings', orphaned')
    BY <1>1 DEF Carries
  <2> QED BY <2>1, <2>2, QuietStep
<1>4. ASSUME NEW c \in ChannelRows, DeleteBegins(e, c)
      PROVE  ModelInv' /\ \A s \in Stages \ orphaned : channel' # channel => KeepsItsModel(s)
  <2> DEFINE what == [kind |-> "delete", shown |-> channel[c], step |-> "compared", channel |-> c]
  <2>1. request' = [request EXCEPT ![e] = what] /\ UNCHANGED <<channel, chosen, settings>>
    BY <1>4 DEF DeleteBegins, Begin
  <2>2. Carries(what, chosen', settings', orphaned')
    BY <1>1 DEF Carries
  <2> QED BY <2>1, <2>2, QuietStep
<1>5. ASSUME NEW c \in ChannelRows, NEW names \in Catalogues, SaveBegins(e, c, names)
      PROVE  ModelInv' /\ \A s \in Stages \ orphaned : channel' # channel => KeepsItsModel(s)
  <2> DEFINE what == [kind |-> "save", shown |-> channel[c], channel |-> c, names |-> names]
  <2>1. request' = [request EXCEPT ![e] = what] /\ UNCHANGED <<channel, chosen, settings>>
    BY <1>5 DEF SaveBegins, Begin
  <2>2. Carries(what, chosen', settings', orphaned')
    BY <1>1 DEF Carries
  <2> QED BY <2>1, <2>2, QuietStep
<1> QED BY <1>2, <1>3, <1>4, <1>5

LEMMA ReadsStep ==
  ASSUME ModelInv, Orphans, NEW e \in Editors, UpdateReads(e) \/ DeleteReads(e)
  PROVE  ModelInv' /\ \A s \in Stages \ orphaned : channel' # channel => KeepsItsModel(s)
<1>1. request \in [Editors -> {request[x] : x \in Editors}] /\ settings \in ModelPage
  BY DEF ModelInv, CarriesInv, RowsInv
<1>2. CASE UpdateReads(e)
  <2>1. PICK model \in {Reconcile(settings.model, chosen, ChannelRows)} \cup [Stages -> ModelRows] :
          /\ request' = [request EXCEPT ![e] =
                          [kind |-> "update", shown |-> request[e].shown, step |-> "decided",
                           base |-> settings.revision,
                           model |-> Reconcile(model, chosen, ChannelRows)]]
          /\ UNCHANGED <<channel, chosen, settings>>
    BY <1>1, <1>2 DEF UpdateReads
  <2>2. model \in [Stages -> 0 .. MaxModels]
    <3>1. 0 \in 0 .. MaxModels /\ ModelRows \subseteq 0 .. MaxModels
      BY ModelIds
    <3>2. settings.model \in [Stages -> 0 .. MaxModels]
      BY <1>1 DEF ModelPage
    <3>3. Reconcile(settings.model, chosen, ChannelRows) \in [Stages -> 0 .. MaxModels]
      BY <3>1, <3>2 DEF Reconcile
    <3> QED BY <3>1, <3>3
  <2>3. Reconcile(model, chosen, ChannelRows) \in [Stages -> 0 .. MaxModels]
    <3>1. 0 \in 0 .. MaxModels
      BY ModelIds
    <3> QED BY <2>2, <3>1 DEF Reconcile
  <2>4. PICK decided \in [Stages -> 0 .. MaxModels] : decided = Reconcile(model, chosen, ChannelRows)
    BY <2>3
  <2> DEFINE what == [kind |-> "update", shown |-> request[e].shown, step |-> "decided",
                      base |-> settings.revision, model |-> decided]
  <2>5. request' = [request EXCEPT ![e] = what]
    BY <2>1, <2>4
  <2>6. Carries(what, chosen', settings', orphaned')
    BY DEF Carries
  <2> HIDE DEF what
  <2> QED BY <2>1, <2>5, <2>6, QuietStep
<1>3. CASE DeleteReads(e)
  <2>1. PICK c : c = request[e].channel
    OBVIOUS
  <2> DEFINE what == [kind |-> "delete", shown |-> request[e].shown, step |-> "decided",
                      channel |-> c, read |-> settings, models |-> ModelsOf(c)]
  <2>2. request' = [request EXCEPT ![e] = what] /\ UNCHANGED <<channel, chosen, settings>>
    BY <1>1, <1>3, <2>1 DEF DeleteReads
  <2>3. c \in 1 .. MaxChannels
    BY <1>3, <2>1 DEF DeleteReads, ModelInv, CarriesInv, Carries
  <2>4. /\ what.kind = "delete" /\ what.channel = c /\ what.read = settings
        /\ what.models = ModelsOf(c)
    OBVIOUS
  <2> HIDE DEF what
  <2>5. settings.revision \in Nat /\ settings.revision <= settings.revision
    BY <1>1 DEF ModelPage
  <2>6. ModelsOf(c) \subseteq Ids /\ \A m \in ModelsOf(c) : chosen[m].channel = c
    BY DEF ModelsOf, ModelRows
  <2>7. Carries(what, chosen, settings, orphaned')
    BY <1>1, <2>3, <2>4, <2>5, <2>6 DEF Carries
  <2> QED BY <2>2, <2>7, QuietStep
<1> QED BY <1>2, <1>3

\* An update writes what it decided, over the settings it was decided on.
LEMMA UpdateEndsStep ==
  ASSUME ModelInv, Orphans, NEW e \in Editors, UpdateEnds(e)
  PROVE  ModelInv' /\ \A s \in Stages \ orphaned : channel' # channel => KeepsItsModel(s)
<1>1. CASE SavesSettings(request[e].base, request[e].model) /\ End(e) /\ UNCHANGED <<channel, chosen>>
  <2>1. request[e].model \in [Stages -> 0 .. MaxModels] /\ settings.revision \in Nat
    BY DEF UpdateEnds, ModelInv, CarriesInv, Carries, RowsInv, ModelPage
  <2>2. PICK model \in [Stages -> 0 .. MaxModels] : model = request[e].model
    BY <2>1
  <2>3. settings' = [revision |-> settings.revision + 1, model |-> model]
    BY <1>1, <2>2 DEF SavesSettings
  <2>4. settings.revision + 1 \in Nat /\ settings.revision + 1 > settings.revision
    BY <2>1
  <2>5. settings' \in ModelPage /\ settings'.revision > settings.revision
    BY <2>3, <2>4 DEF ModelPage
  <2>6. RowsInv'
    BY <1>1, <2>5 DEF ModelInv, RowsInv, ModelRows, ChannelRows
  <2>7. \A m \in ModelRows : chosen'[m] \in {chosen[m], Missing}
    BY <1>1
  <2>8. request' = [request EXCEPT ![e] = Idle]
    BY <1>1 DEF End
  <2>9. ModelInv'
    BY <2>5, <2>6, <2>7, <2>8, ModelStep, IdleCarries
  <2> QED BY <1>1, <2>9
<1>2. CASE Conflict(e)
  BY <1>2, QuietStep, IdleCarries DEF Conflict, End
<1> QED BY <1>1, <1>2 DEF UpdateEnds

\* A channel is new, or is saved at the revision it was read at.
LEMMA CatalogueStep ==
  ASSUME ModelInv, Orphans, NEW c \in 1 .. MaxChannels, NEW names \in Catalogues, NEW v \in Nat \ {0},
         channel' = [channel EXCEPT ![c] = v], Catalogue(c, names),
         NEW e \in Editors, request' = request \/ request' = [request EXCEPT ![e] = Idle]
  PROVE  ModelInv' /\ \A s \in Stages \ orphaned : channel' # channel => KeepsItsModel(s)
<1>1. channel \in [1 .. MaxChannels -> Nat] /\ RowsInv
  BY DEF ModelInv, RowsInv
<1>2. /\ channel' \in [1 .. MaxChannels -> Nat] /\ channel'[c] > 0
      /\ \A x \in 1 .. MaxChannels : x # c => channel'[x] = channel[x]
  BY <1>1
<1>3. /\ RowsInv'
      /\ settings' = settings \/ settings'.revision > settings.revision
      /\ \A m \in ModelRows : chosen'[m] \in {chosen[m], Missing}
      /\ \A s \in Stages : settings.model[s] \in ModelRows =>
           \/ settings'.model[s] = settings.model[s] /\ chosen'[settings.model[s]] = chosen[settings.model[s]]
           \/ \A k \in Ids : chosen'[k] # chosen[settings.model[s]]
  BY <1>1, <1>2, CatalogueKeeps
<1>4. ModelInv'
  <2>1. CASE request' = [request EXCEPT ![e] = Idle]
    BY <1>3, <2>1, ModelStep, IdleCarries
  <2>2. CASE request' = request
    <3>1. request \in [Editors -> {request[x] : x \in Editors}]
      BY DEF ModelInv, CarriesInv
    <3>2. PICK what : what = request[e]
      OBVIOUS
    <3>3. request' = [request EXCEPT ![e] = what]
      BY <2>2, <3>1, <3>2
    <3>4. settings \in ModelPage /\ settings' \in ModelPage
      BY <1>1, <1>3 DEF RowsInv
    <3>5. /\ \A m \in Ids : chosen[m] # Missing => chosen'[m] \in {chosen[m], Missing}
          /\ \A s \in Stages \ orphaned' :
               settings'.model[s] > 0 => /\ chosen'[settings'.model[s]] # Missing
                                         /\ settings' = settings => s \notin orphaned
      BY <1>3 DEF ModelRows, Orphans
    <3>6. Carries(request[e], chosen, settings, orphaned) => Carries(what, chosen', settings', orphaned')
      BY <1>3, <3>2, <3>4, <3>5, CarriesKept
    <3> QED BY <1>3, <3>3, <3>6, ModelStep
  <2> QED BY <2>1, <2>2
<1>5. \A s \in Stages : KeepsItsModel(s)
  BY <1>1, <1>3, KeepsFacts
<1> QED BY <1>4, <1>5

LEMMA SavesStep ==
  ASSUME ModelInv, Orphans, NEW e \in Editors,
         SaveEnds(e) \/ \E names \in Catalogues : CreateChannel(e, names)
  PROVE  ModelInv' /\ \A s \in Stages \ orphaned : channel' # channel => KeepsItsModel(s)
<1>1. channel \in [1 .. MaxChannels -> Nat] /\ channel = [x \in 1 .. MaxChannels |-> channel[x]]
  BY DEF ModelInv, RowsInv
<1>2. ASSUME NEW names \in Catalogues, CreateChannel(e, names)
      PROVE  ModelInv' /\ \A s \in Stages \ orphaned : channel' # channel => KeepsItsModel(s)
  <2>1. MaxChannels \in Nat /\ ChannelRows \subseteq 1 .. MaxChannels
    BY <1>1, ChannelAssumption DEF ChannelRows
  <2>2. PICK c : c = NextId(ChannelRows)
    OBVIOUS
  <2>3. c \in Nat \ {0}
    BY <2>1, <2>2, TopId
  <2>4. /\ c <= MaxChannels /\ channel' = [channel EXCEPT ![c] = 1]
        /\ Catalogue(c, names) /\ request' = request
    BY <1>2, <2>2 DEF CreateChannel
  <2>5. c \in 1 .. MaxChannels /\ 1 \in Nat \ {0}
    BY <2>1, <2>3, <2>4
  <2> QED BY <2>4, <2>5, CatalogueStep
<1>3. CASE SaveEnds(e)
  <2>1. request[e].channel \in 1 .. MaxChannels /\ request[e].shown \in Nat \ {0}
    BY <1>3 DEF SaveEnds, ModelInv, CarriesInv, Carries
  <2>2. PICK c \in 1 .. MaxChannels : c = request[e].channel
    BY <2>1
  <2>3. PICK v \in Nat \ {0} : v = request[e].shown + 1
    BY <2>1
  <2>4. ASSUME channel' = [channel EXCEPT ![c] = v], request[e].kind = "save",
               Catalogue(c, request[e].names), request' = [request EXCEPT ![e] = Idle]
        PROVE  ModelInv' /\ \A s \in Stages \ orphaned : channel' # channel => KeepsItsModel(s)
    <3>1. request[e].names \in Catalogues
      BY <2>4 DEF ModelInv, CarriesInv, Carries
    <3>2. PICK names \in Catalogues : names = request[e].names
      BY <3>1
    <3>3. Catalogue(c, names)
      BY <2>4, <3>2
    <3> QED BY <2>4, <3>3, CatalogueStep
  <2>5. ASSUME channel' = [channel EXCEPT ![c] = v], channel[c] = request[e].shown,
               UNCHANGED <<chosen, settings>>, request' = [request EXCEPT ![e] = Idle]
        PROVE  ModelInv' /\ \A s \in Stages \ orphaned : channel' # channel => KeepsItsModel(s)
    <3>1. /\ channel' \in [1 .. MaxChannels -> Nat] /\ channel'[c] > 0
          /\ \A x \in 1 .. MaxChannels : x # c => channel'[x] = channel[x]
      BY <1>1, <2>5
    <3>2. \A x \in ChannelRows : x \in ChannelRows'
      BY <1>1, <3>1 DEF ChannelRows
    <3>3. RowsInv'
      <4>1. ModelRows' = ModelRows
        BY <2>5 DEF ModelRows
      <4> QED BY <2>5, <3>1, <3>2, <4>1 DEF ModelInv, RowsInv
    <3>4. \A m \in ModelRows : chosen'[m] \in {chosen[m], Missing}
      BY <2>5
    <3>5. ModelInv'
      BY <2>5, <3>3, <3>4, ModelStep, IdleCarries
    <3>6. \A s \in Stages : KeepsItsModel(s)
      <4>1. \A s \in Stages : settings'.model[s] = settings.model[s]
                              /\ chosen'[settings.model[s]] = chosen[settings.model[s]]
        BY <2>5
      <4>2. RowsInv
        BY DEF ModelInv
      <4> QED BY <4>1, <4>2, KeepsFacts
    <3> QED BY <3>5, <3>6
  <2>6. CASE channel[request[e].channel] # request[e].shown /\ Conflict(e)
    BY <2>6, QuietStep, IdleCarries DEF Conflict, End
  <2>7. \/ /\ channel[c] = request[e].shown
           /\ channel' = [channel EXCEPT ![c] = v]
           /\ \/ request[e].kind = "save" /\ Catalogue(c, request[e].names)
              \/ UNCHANGED <<chosen, settings>>
           /\ request' = [request EXCEPT ![e] = Idle]
        \/ channel[request[e].channel] # request[e].shown /\ Conflict(e)
    BY <1>3, <2>2, <2>3 DEF SaveEnds, End
  <2> QED BY <2>4, <2>5, <2>6, <2>7
<1> QED BY <1>2, <1>3

\* A delete takes the channel and the models it has by then; the settings it saves
\* are those it read, without the models it read.
LEMMA DeleteEndsStep ==
  ASSUME ModelInv, Orphans, NEW e \in Editors, DeleteEnds(e)
  PROVE  ModelInv' /\ \A s \in Stages \ orphaned : channel' # channel => KeepsItsModel(s)
<1>1. /\ channel \in [1 .. MaxChannels -> Nat] /\ chosen \in [Ids -> ModelRow] /\ RowsInv
      /\ settings \in ModelPage
      /\ \A m \in ModelRows : chosen[m].channel \in ChannelRows
      /\ \A m, k \in ModelRows : chosen[m] = chosen[k] => m = k
  BY DEF ModelInv, RowsInv
<1>2. request[e].kind = "delete" /\ request[e].step = "decided"
  BY DEF DeleteEnds
<1>3. Carries(request[e], chosen, settings, orphaned)
  BY DEF ModelInv, CarriesInv
<1>4. PICK c, was, models : c = request[e].channel /\ was = request[e].read /\ models = request[e].models
  OBVIOUS
<1>5. /\ c \in 1 .. MaxChannels /\ was \in ModelPage /\ models \subseteq Ids
      /\ was.revision = settings.revision =>
           /\ was.model = settings.model
           /\ \A s \in Stages \ orphaned : settings.model[s] \in models => chosen[settings.model[s]].channel = c
  BY <1>2, <1>3, <1>4 DEF Carries
<1> DEFINE remaining == [m \in Ids |-> IF chosen[m].channel = c THEN Missing ELSE chosen[m]]
           others == ChannelRows \ {c}
           followed == Replace(was.model, models, 0)
           stages == Reconcile(followed, remaining, others)
           changed == stages # was.model
<1>6. \/ /\ channel' = [channel EXCEPT ![c] = 0]
         /\ chosen' = remaining
         /\ IF changed THEN SavesSettings(was.revision, stages) ELSE UNCHANGED settings
         /\ End(e)
      \/ Conflict(e)
  BY <1>4 DEF DeleteEnds
<1>7. followed = [s \in Stages |-> IF was.model[s] \in models THEN 0 ELSE was.model[s]]
  BY DEF Replace
<1>8. stages = [s \in Stages |-> IF followed[s] > 0 /\ remaining[followed[s]] # Missing
                                    /\ remaining[followed[s]].channel \in others
                                 THEN followed[s] ELSE 0]
  BY DEF Reconcile
<1>9. 0 \in 0 .. MaxModels /\ MaxModels \in Nat
  BY ModelIds
<1>10. followed \in [Stages -> 0 .. MaxModels]
  <2>1. was.model \in [Stages -> 0 .. MaxModels]
    BY <1>5 DEF ModelPage
  <2> QED BY <1>7, <1>9, <2>1
<1>11. \A m \in Ids : remaining[m] = IF chosen[m].channel = c THEN Missing ELSE chosen[m]
  OBVIOUS
<1>12. Missing \in ModelRow /\ Missing.channel = 0 /\ c # 0
  <2>1. 0 \in 0 .. MaxChannels /\ "" \in ModelNames \cup {""}
    BY ChannelAssumption
  <2> QED BY <1>5, <2>1 DEF ModelRow, Missing
<1>13. remaining \in [Ids -> ModelRow]
  BY <1>1, <1>12
<1>14. \A m \in ModelRows : m \in Ids /\ m > 0 /\ chosen[m] # Missing
  BY ModelIds DEF ModelRows
<1> HIDE DEF remaining, others, followed, stages
<1>15. stages \in [Stages -> 0 .. MaxModels]
  BY <1>8, <1>9, <1>10
<1>16. CASE Conflict(e)
  BY <1>16, QuietStep, IdleCarries DEF Conflict, End
<1>17. ASSUME channel' = [channel EXCEPT ![c] = 0], chosen' = remaining,
              IF changed THEN SavesSettings(was.revision, stages) ELSE UNCHANGED settings,
              End(e)
       PROVE  ModelInv' /\ \A s \in Stages \ orphaned : channel' # channel => KeepsItsModel(s)
  <2>1. \A m \in ModelRows : chosen'[m] \in {chosen[m], Missing}
    BY <1>11, <1>14, <1>17
  <2>2. settings' \in ModelPage /\ (settings' = settings \/ settings'.revision > settings.revision)
    <3>1. CASE changed
      <4>1. settings.revision = was.revision /\ settings' = [revision |-> was.revision + 1, model |-> stages]
        BY <1>17, <3>1 DEF SavesSettings
      <4>2. settings.revision \in Nat /\ settings.revision + 1 \in Nat
            /\ settings.revision + 1 > settings.revision
        BY <1>1 DEF ModelPage
      <4> QED BY <1>15, <4>1, <4>2 DEF ModelPage
    <3>2. CASE ~changed
      BY <1>1, <1>17, <3>2
    <3> QED BY <3>1, <3>2
  <2>3. RowsInv'
    <3>1. channel' \in [1 .. MaxChannels -> Nat]
          /\ \A x \in 1 .. MaxChannels : x # c => channel'[x] = channel[x]
      BY <1>1, <1>17
    <3>2. \A m \in ModelRows' : m \in ModelRows /\ chosen'[m] = chosen[m] /\ chosen[m].channel # c
      BY <1>11, <1>17 DEF ModelRows
    <3>3. \A m \in ModelRows' : chosen'[m].channel \in ChannelRows'
      BY <1>1, <3>1, <3>2 DEF ChannelRows
    <3>4. \A m, k \in ModelRows' : chosen'[m] = chosen'[k] => m = k
      BY <1>1, <3>2
    <3> QED BY <1>13, <1>17, <2>2, <3>1, <3>3, <3>4 DEF RowsInv
  <2>4. ModelInv'
    BY <1>17, <2>1, <2>2, <2>3, ModelStep, IdleCarries DEF End
  <2>5. ASSUME NEW s \in Stages \ orphaned, settings.model[s] \in ModelRows
        PROVE  \/ settings'.model[s] = settings.model[s] /\ chosen'[settings.model[s]] = chosen[settings.model[s]]
               \/ \A k \in Ids : chosen'[k] # chosen[settings.model[s]]
    <3>1. settings.model[s] \in Ids /\ settings.model[s] > 0 /\ chosen[settings.model[s]] # Missing
      BY <1>14, <2>5
    <3>2. CASE chosen[settings.model[s]].channel = c
      BY <1>11, <1>17, <3>1, <3>2
    <3>3. CASE chosen[settings.model[s]].channel # c
      <4>1. chosen'[settings.model[s]] = chosen[settings.model[s]]
        BY <1>11, <1>17, <3>1, <3>3
      <4>2. CASE ~changed
        BY <1>17, <4>1, <4>2
      <4>3. CASE changed
        <5>1. settings.revision = was.revision /\ settings'.model = stages
          BY <1>17, <4>3 DEF SavesSettings
        <5>2. was.model = settings.model /\ settings.model[s] \notin models
          BY <1>5, <2>5, <3>3, <5>1
        <5>3. followed[s] = settings.model[s]
          BY <1>7, <2>5, <5>2
        <5>4. remaining[settings.model[s]] = chosen[settings.model[s]]
              /\ chosen[settings.model[s]].channel \in others
          BY <1>1, <1>11, <2>5, <3>1, <3>3 DEF others
        <5>5. stages[s] = settings.model[s]
          BY <1>8, <2>5, <3>1, <5>3, <5>4
        <5> QED BY <4>1, <5>1, <5>5
      <4> QED BY <4>2, <4>3
    <3> QED BY <3>2, <3>3
  <2>6. \A s \in Stages \ orphaned : KeepsItsModel(s)
    BY <1>1, <2>5, KeepsFacts
  <2> QED BY <2>4, <2>6
<1> QED BY <1>6, <1>16, <1>17

LEMMA ModelStarts == ModelInit => ModelInv
<1> SUFFICES ASSUME ModelInit PROVE ModelInv
  OBVIOUS
<1>1. 0 \in Nat /\ 1 \in Nat /\ 0 \in 0 .. MaxChannels /\ 0 \in 0 .. MaxModels /\ "" \in ModelNames \cup {""}
  BY ChannelAssumption
<1>2. Missing \in ModelRow
  BY <1>1 DEF Missing, ModelRow
<1>3. ModelRows = {}
  BY DEF ModelInit, ModelRows
<1>4. settings \in ModelPage
  <2>1. [s \in Stages |-> 0] \in [Stages -> 0 .. MaxModels]
    BY <1>1
  <2> DEFINE none == [s \in Stages |-> 0]
  <2>2. settings = [revision |-> 1, model |-> none]
    BY DEF ModelInit
  <2> HIDE DEF none
  <2> QED BY <1>1, <2>1, <2>2 DEF ModelPage, none
<1>5. RowsInv
  BY <1>1, <1>2, <1>3, <1>4 DEF RowsInv, ModelInit
<1>6. OrphansInv
  BY DEF OrphansInv, ModelInit
<1>7. CarriesInv
  BY IdleCarries DEF CarriesInv, ModelInit
<1> QED BY <1>5, <1>6, <1>7 DEF ModelInv

LEMMA ModelEdited ==
  ModelInv /\ ModelNext => ModelInv' /\ \A s \in Stages \ orphaned : channel' # channel => KeepsItsModel(s)
<1> SUFFICES ASSUME ModelInv, Orphans, NEW e \in Editors,
                    \/ UpdateBegins(e) \/ UpdateReads(e) \/ UpdateEnds(e)
                    \/ SaveEnds(e) \/ DeleteReads(e) \/ DeleteEnds(e)
                    \/ \E names \in Catalogues : CreateChannel(e, names)
                    \/ \E c \in ChannelRows :
                         \/ ClearBegins(e, c) \/ DeleteBegins(e, c)
                         \/ \E names \in Catalogues : SaveBegins(e, c, names)
             PROVE  ModelInv' /\ \A s \in Stages \ orphaned : channel' # channel => KeepsItsModel(s)
  BY DEF ModelNext, Edited
<1>1. CASE \/ UpdateBegins(e)
           \/ \E c \in ChannelRows :
                \/ ClearBegins(e, c) \/ DeleteBegins(e, c)
                \/ \E names \in Catalogues : SaveBegins(e, c, names)
  BY <1>1, BeginsStep
<1>2. CASE UpdateReads(e) \/ DeleteReads(e)
  BY <1>2, ReadsStep
<1>3. CASE UpdateEnds(e)
  BY <1>3, UpdateEndsStep
<1>4. CASE SaveEnds(e) \/ \E names \in Catalogues : CreateChannel(e, names)
  BY <1>4, SavesStep
<1>5. CASE DeleteEnds(e)
  BY <1>5, DeleteEndsStep
<1> QED BY <1>1, <1>2, <1>3, <1>4, <1>5

LEMMA ModelStutters == ModelInv /\ UNCHANGED modelVars => ModelInv'
BY DEF ModelInv, RowsInv, OrphansInv, CarriesInv, ModelRows, ChannelRows, modelVars

\* The rows, the references and what the requests carry stay in order.
LEMMA ModelsInOrder == Spec => []ModelInv
<1>1. Init => ModelInv
  BY ModelStarts DEF Init
<1>2. ModelInv /\ [Next]_vars => ModelInv'
  <2> SUFFICES ASSUME ModelInv, [Next]_vars PROVE ModelInv'
    OBVIOUS
  <2>1. UNCHANGED modelVars \/ ModelNext
    BY DEF Next, Only, vars
  <2> QED BY <2>1, ModelEdited, ModelStutters
<1> QED BY <1>1, <1>2, PTL DEF Spec

\* Whatever requests edit the channels and the settings at once, however many, and
\* whatever they read before: no stage is moved to another model while its own is
\* still offered, unless that model was deleted behind its settings.
THEOREM StagesKeepTheirModels == Spec => StageKeepsItsModel
<1> DEFINE Kept == channel' # channel =>
              \A s \in Stages \ orphaned :
                RunsOn(s) # Missing =>
                  RunsOn(s)' = RunsOn(s) \/ RunsOn(s) \notin {chosen'[m] : m \in Ids}
<1>1. ModelInv /\ [Next]_vars => [Kept]_modelVars
  <2> SUFFICES ASSUME ModelInv, ModelNext PROVE Kept
    BY DEF Next, Only, vars
  <2> QED BY ModelEdited DEF KeepsItsModel
<1> QED BY <1>1, ModelsInOrder, PTL DEF Spec, StageKeepsItsModel


------------------------------------------------------------------------------
(* The replies of a model. *)

ToldEvent == [event : {"started", "delta", "ended"}, pieces : Nat]
EndWith(n) == [event |-> "ended", pieces |-> n]

\* What the events of a block say of it.
LEMMA PiecesOfNone == Pieces(<<>>) = 0
<1>1. PICK none : none = <<>>
  OBVIOUS
<1>2. PICK f : f = [n \in DOMAIN none |-> none[n].pieces]
  OBVIOUS
<1>3. DOMAIN none = {} /\ Pieces(none) = SumFunctionOnSet(f, DOMAIN none)
  BY <1>1, <1>2 DEF Pieces
<1>4. PICK T : T = {}
  OBVIOUS
<1>5. IsFiniteSet(T) /\ \A x \in T : f[x] \in Nat
  BY <1>4, FS_EmptySet
<1>6. PICK g \in [SUBSET T -> Nat] : \A s \in SUBSET T : AddsUp(g, f, s)
  BY <1>5, SumExists
<1>7. SumFunctionOnSet(f, T) = g[T]
  BY <1>5, <1>6, SumIs
<1>8. g[T] = 0
  BY <1>4, <1>6 DEF AddsUp
<1> QED BY <1>1, <1>3, <1>4, <1>7, <1>8

LEMMA PiecesOfMore ==
  ASSUME NEW s \in Seq(ToldEvent), NEW e \in ToldEvent
  PROVE  Pieces(s) \in Nat /\ Pieces(Append(s, e)) = Pieces(s) + e.pieces
<1>1. PICK t : t = Append(s, e)
  OBVIOUS
<1>2. PICK n \in Nat : n = Len(s)
  OBVIOUS
<1>3. PICK D : D = DOMAIN s
  OBVIOUS
<1>4. PICK T : T = DOMAIN t
  OBVIOUS
<1>5. /\ t \in Seq(ToldEvent) /\ D = 1 .. n /\ T = 1 .. n + 1 /\ t[n + 1] = e
      /\ \A i \in D : t[i] = s[i]
  BY <1>1, <1>2, <1>3, <1>4, AppendProperties
<1>6. PICK f : f = [i \in D |-> s[i].pieces]
  OBVIOUS
<1>7. PICK g : g = [i \in T |-> t[i].pieces]
  OBVIOUS
<1>8. Pieces(s) = SumFunctionOnSet(f, D) /\ Pieces(t) = SumFunctionOnSet(g, T)
  BY <1>3, <1>4, <1>6, <1>7 DEF Pieces
<1>9. \A d \in ToldEvent : d.pieces \in Nat
  BY DEF ToldEvent
<1>10. \A i \in T : g[i] \in Nat
  <2>1. \A i \in T : t[i] \in ToldEvent
    <3>1. DOMAIN t = 1 .. Len(t)
      BY <1>5
    <3> QED BY <1>4, <1>5, <3>1, ElementOfSeq
  <2> QED BY <1>7, <1>9, <2>1
<1>11. D \in SUBSET T /\ T \ {n + 1} = D /\ n + 1 \in T
  BY <1>5
<1>12. \A i \in D : f[i] = g[i] /\ f[i] \in Nat
  BY <1>5, <1>6, <1>7, <1>10, <1>11
<1>13. IsFiniteSet(T) /\ IsFiniteSet(D)
  BY <1>5, FS_Interval
<1>14. SumFunctionOnSet(g, T) = g[n + 1] + SumFunctionOnSet(g, T \ {n + 1})
  BY <1>10, <1>11, <1>13, SumTakes
<1>15. SumFunctionOnSet(f, D) = SumFunctionOnSet(g, D) /\ SumFunctionOnSet(f, D) \in Nat
  BY <1>12, <1>13, SumSame, SumTakes
<1>16. g[n + 1] = e.pieces /\ e.pieces \in Nat
  BY <1>5, <1>7, <1>9, <1>11
<1>17. SumFunctionOnSet(g, T \ {n + 1}) = Pieces(s)
  BY <1>8, <1>11, <1>15
<1>18. Pieces(t) = e.pieces + Pieces(s) /\ Pieces(s) \in Nat
  BY <1>8, <1>14, <1>15, <1>16, <1>17
<1>19. \A x, y \in Nat : x + y = y + x
  OBVIOUS
<1> QED BY <1>1, <1>16, <1>18, <1>19

\* The events of a block that has not ended, with so many pieces told.
Telling(s, n) ==
  /\ s \in Seq(ToldEvent) /\ s # <<>> /\ Pieces(s) = n
  /\ \A i \in DOMAIN s : s[i].event = IF i = 1 THEN "started" ELSE "delta"

LEMMA EventFacts ==
  /\ Start \in ToldEvent /\ Start.event = "started" /\ Start.pieces = 0
  /\ \A k \in Nat : Delta(k) \in ToldEvent /\ Delta(k).event = "delta" /\ Delta(k).pieces = k
  /\ \A k \in Nat : EndWith(k) \in ToldEvent /\ EndWith(k).event = "ended" /\ EndWith(k).pieces = k
BY DEF Start, Delta, EndWith, ToldEvent

\* A block starts, and goes on.
LEMMA TellsStart == Telling(<<Start>>, 0) /\ <<Start>> \in Seq(ToldEvent)
<1>1. PICK e \in ToldEvent : e = Start
  BY EventFacts
<1>2. PICK none \in Seq(ToldEvent) : none = <<>>
  BY EmptySeq
<1>3. PICK one : one = Append(none, e)
  OBVIOUS
<1>4. Pieces(one) = 0
  <2>1. Pieces(one) = Pieces(none) + e.pieces
    BY <1>3, PiecesOfMore
  <2>2. Pieces(none) = 0
    BY <1>2, PiecesOfNone
  <2> QED BY <1>1, <2>1, <2>2, EventFacts
<1>5. PICK s : s = <<e>>
  OBVIOUS
<1>6. s \in Seq(ToldEvent) /\ s # <<>> /\ DOMAIN s = {1} /\ s[1] = e
  BY <1>5
<1>7. one = s
  BY <1>2, <1>3, <1>5
<1> QED BY <1>1, <1>4, <1>5, <1>6, <1>7, EventFacts DEF Telling

LEMMA TellsMore ==
  ASSUME NEW n \in Nat, NEW s, Telling(s, n), NEW k \in Nat
  PROVE  Telling(Append(s, Delta(k)), n + k)
<1>1. PICK e \in ToldEvent : e = Delta(k)
  BY EventFacts
<1>2. s \in Seq(ToldEvent) /\ s # <<>> /\ Pieces(s) = n
  BY DEF Telling
<1>3. PICK t : t = Append(s, e)
  OBVIOUS
<1>4. /\ t \in Seq(ToldEvent) /\ Len(t) = Len(s) + 1 /\ t[Len(t)] = e /\ DOMAIN t = 1 .. Len(t)
      /\ \A i \in 1 .. Len(s) : t[i] = s[i]
      /\ DOMAIN s = 1 .. Len(s) /\ Len(s) \in Nat /\ Len(s) # 0
  BY <1>2, <1>3, AppendProperties, EmptySeq
<1>5. Pieces(t) = n + k
  BY <1>1, <1>2, <1>3, PiecesOfMore, EventFacts
<1>6. ASSUME NEW i \in DOMAIN t PROVE t[i].event = IF i = 1 THEN "started" ELSE "delta"
  <2>1. CASE i = Len(t)
    BY <1>1, <1>4, <2>1, EventFacts
  <2>2. CASE i # Len(t)
    <3>1. i \in DOMAIN s /\ t[i] = s[i]
      BY <1>4, <2>2
    <3> QED BY <3>1 DEF Telling
  <2> QED BY <2>1, <2>2
<1>7. t # <<>>
  BY <1>4
<1> QED BY <1>1, <1>3, <1>4, <1>5, <1>6, <1>7 DEF Telling

\* What whoever follows a block is told in the right order.
InOrder(s) ==
  \A n \in DOMAIN s :
    /\ s[n].event = "started" <=> n = 1
    /\ s[n].event = "ended" => n = Len(s) /\ s[n].pieces = Pieces(Front(s))

LEMMA TellingInOrder ==
  ASSUME NEW n \in Nat, NEW s, Telling(s, n)
  PROVE  /\ InOrder(s) /\ \A e \in Range(s) : e.event # "ended"
         /\ InOrder(Append(s, EndWith(n)))
         /\ \E e \in Range(Append(s, EndWith(n))) : e.event = "ended"
<1>1. /\ s \in Seq(ToldEvent) /\ s # <<>> /\ Pieces(s) = n
      /\ \A i \in DOMAIN s : s[i].event = IF i = 1 THEN "started" ELSE "delta"
  BY DEF Telling
<1>2. InOrder(s)
  BY <1>1 DEF InOrder
<1>3. \A e \in Range(s) : e.event # "ended"
  BY <1>1 DEF Range
<1>4. PICK e \in ToldEvent : e = EndWith(n)
  BY EventFacts
<1>5. e.event = "ended" /\ e.pieces = n
  BY <1>4, EventFacts
<1>6. PICK t : t = Append(s, e)
  OBVIOUS
<1>7. /\ t \in Seq(ToldEvent) /\ Len(t) = Len(s) + 1 /\ t[Len(t)] = e /\ DOMAIN t = 1 .. Len(t)
      /\ \A i \in 1 .. Len(s) : t[i] = s[i]
      /\ DOMAIN s = 1 .. Len(s) /\ Len(s) \in Nat /\ Len(s) # 0
  BY <1>1, <1>6, AppendProperties, EmptySeq
<1>8. Front(t) = s
  <2>1. SubSeq(t, 1, Len(t) - 1) = s
    BY <1>1, <1>4, <1>6, <1>7
  <2> QED BY <2>1 DEF Front
<1>9. InOrder(t)
  <2> SUFFICES ASSUME NEW i \in DOMAIN t
               PROVE  /\ t[i].event = "started" <=> i = 1
                      /\ t[i].event = "ended" => i = Len(t) /\ t[i].pieces = Pieces(Front(t))
    BY DEF InOrder
  <2>1. CASE i = Len(t)
    BY <1>1, <1>5, <1>7, <1>8, <2>1
  <2>2. CASE i # Len(t)
    <3>1. i \in DOMAIN s /\ t[i] = s[i]
      BY <1>7, <2>2
    <3> QED BY <1>1, <3>1
  <2> QED BY <2>1, <2>2
<1>10. e \in Range(t)
  <2>1. Len(t) \in DOMAIN t
    BY <1>7
  <2> QED BY <1>7, <2>1 DEF Range
<1> QED BY <1>2, <1>3, <1>4, <1>5, <1>6, <1>9, <1>10


LEMMA ToldJoins == \A s, t \in Seq(ToldEvent) : s \o t \in Seq(ToldEvent)
BY ConcatProperties

LEMMA ToldConcat == \A s, t, u \in Seq(ToldEvent) : (s \o t) \o u = s \o (t \o u)
BY ConcatAssociative

LEMMA SaysFirst ==
  ASSUME NEW s, s = <<>>
  PROVE  Telling(s \o <<Start>>, 0) /\ <<Start>> \in Seq(ToldEvent)
<1>1. PICK one \in Seq(ToldEvent) : one = <<Start>> /\ Telling(one, 0)
  BY TellsStart
<1>2. s \o one = one
  BY ConcatEmptySeq
<1> QED BY <1>1, <1>2

LEMMA SaysMore ==
  ASSUME NEW n \in Nat, NEW s, Telling(s, n), NEW k \in Nat, NEW X,
         X = <<Delta(k)>> \/ (X = <<>> /\ k = 0)
  PROVE  X \in Seq(ToldEvent) /\ s \o X \in Seq(ToldEvent) /\ Telling(s \o X, n + k)
<1>1. s \in Seq(ToldEvent)
  BY DEF Telling
<1>2. CASE X = <<Delta(k)>>
  <2>1. PICK e \in ToldEvent : e = Delta(k)
    BY EventFacts
  <2>2. X = <<e>> /\ X \in Seq(ToldEvent)
    BY <1>2, <2>1
  <2>3. Append(s, e) = s \o X
    BY <1>1, <2>2, AppendIsConcat
  <2>4. Telling(s \o X, n + k)
    BY <2>1, <2>3, TellsMore
  <2> QED BY <2>2, <2>4 DEF Telling
<1>3. CASE X = <<>> /\ k = 0
  <2>1. X \in Seq(ToldEvent)
    BY <1>3, EmptySeq
  <2>2. s \o X = s
    BY <1>1, <1>3, ConcatEmptySeq
  <2>3. n + k = n
    BY <1>3
  <2> QED BY <1>1, <2>1, <2>2, <2>3
<1> QED BY <1>2, <1>3

BlockRow == [kind : {"none", "text", "thinking", "tool"}, pieces : Nat,
             name : {"none", "blank", "good"}, ended : BOOLEAN, parsed : BOOLEAN]

\* A tool call is told once it has a name.
Named(b) == b.kind # "none" /\ (b.kind = "tool" => b.name # "none")

\* What has been told of a block.
BlockSays(b, s) ==
  /\ b.parsed <=> b.ended /\ b.kind = "tool"
  /\ ~Named(b) => s = <<>> /\ ~b.ended
  /\ Named(b) /\ ~b.ended => Telling(s, b.pieces)
  /\ Named(b) /\ b.ended => \E t : Telling(t, b.pieces) /\ s = Append(t, EndWith(b.pieces))

ReplyTypeOK ==
  /\ {"api", "pc", "finished", "refused"} = DOMAIN stream
  /\ stream.api \in {"openai", "anthropic"}
  /\ stream.pc \in {"reading", "finishing", "failing", "done", "failed"}
  /\ stream.finished \in SUBSET Indices
  /\ block \in [Indices -> BlockRow] /\ told \in [Indices -> Seq(ToldEvent)]

\* Where a block may be: OpenAI's come one after the other and end together,
\* Anthropic's tools have their names from the start.
BlocksStand ==
  /\ stream.api = "openai" => /\ \E k \in Nat : Present = 1 .. k
                              /\ stream.pc = "reading" => /\ \A i \in Indices : ~block[i].ended
                                                          /\ stream.finished = {}
  /\ stream.api = "anthropic" => /\ \A i \in Indices : Named(block[i]) \/ block[i].kind = "none"
                                 /\ stream.pc # "finishing"
  /\ stream.pc = "finishing" => \A i \in Indices : block[i].ended <=> i \in stream.finished
  /\ stream.pc \in {"done", "failed"} =>
       reply = Content /\ \A i \in Present : block[i].ended \/ (stream.pc = "failed" /\ IsTool(i))

BlocksSay == \A i \in Indices : BlockSays(block[i], told[i])
ReplyInv == ReplyTypeOK /\ BlocksStand /\ BlocksSay

\* A step that adds to a block while the stream is read.
LEMMA AddsKeep ==
  ASSUME ReplyInv, NEW i \in Indices, NEW b \in BlockRow, NEW events \in Seq(ToldEvent),
         Adds(i, b, events), stream.pc = "reading", b.kind # "none",
         BlockSays(b, told[i] \o events),
         stream.api = "openai" => ~b.ended /\ (i \in Present \/ i = Cardinality(Present) + 1),
         stream.api = "anthropic" => Named(b)
  PROVE  ReplyInv'
<1>1. /\ block \in [Indices -> BlockRow] /\ told \in [Indices -> Seq(ToldEvent)]
      /\ stream' = stream /\ reply' = reply
      /\ block' = [block EXCEPT ![i] = b] /\ told' = [told EXCEPT ![i] = @ \o events]
  BY DEF ReplyInv, ReplyTypeOK, Adds
<1>2. told[i] \o events \in Seq(ToldEvent)
  BY <1>1, ConcatProperties
<1>3. /\ block' \in [Indices -> BlockRow] /\ told' \in [Indices -> Seq(ToldEvent)]
      /\ block'[i] = b /\ told'[i] = told[i] \o events
      /\ \A j \in Indices : j # i => block'[j] = block[j] /\ told'[j] = told[j]
  BY <1>1, <1>2
<1>4. ReplyTypeOK'
  BY <1>1, <1>3 DEF ReplyInv, ReplyTypeOK
<1>5. Present' = Present \cup {i}
  BY <1>3 DEF Present
<1>6. BlocksSay'
  BY <1>3 DEF ReplyInv, BlocksSay
<1>7. ASSUME stream.api = "openai" PROVE \E k \in Nat : Present' = 1 .. k
  <2>1. PICK k \in Nat : Present = 1 .. k
    BY <1>7 DEF ReplyInv, BlocksStand
  <2>2. Cardinality(1 .. k) = k
    BY FS_Interval
  <2>3. CASE i \in Present
    BY <1>5, <2>1, <2>3
  <2>4. CASE i = k + 1
    <3>1. 1 .. k \cup {k + 1} = 1 .. k + 1
      OBVIOUS
    <3> QED BY <1>5, <2>1, <2>4, <3>1
  <2> QED BY <1>7, <2>1, <2>2, <2>3, <2>4
<1>8. BlocksStand'
  <2>1. \A j \in Indices : stream.api = "openai" => ~block'[j].ended
    BY <1>3 DEF ReplyInv, BlocksStand
  <2>2. \A j \in Indices : stream.api = "anthropic" => Named(block'[j]) \/ block'[j].kind = "none"
    BY <1>3 DEF ReplyInv, BlocksStand
  <2>3. stream.api = "openai" => stream.finished = {}
    BY DEF ReplyInv, BlocksStand
  <2> QED BY <1>1, <1>7, <2>1, <2>2, <2>3 DEF BlocksStand
<1> QED BY <1>4, <1>6, <1>8 DEF ReplyInv

\* The end of a block that has not ended.
LEMMA EndKeeps ==
  ASSUME ReplyInv, NEW i \in Present, ~block[i].ended, Named(block[i]), EndBlock(i),
         DOMAIN stream' = DOMAIN stream, stream'.api = stream.api,
         stream'.pc \in {"reading", "finishing", "failing", "done", "failed"},
         stream'.finished \in SUBSET Indices
  PROVE  /\ ReplyTypeOK' /\ BlocksSay' /\ Present' = Present
         /\ \A j \in Indices : /\ block'[j].kind = block[j].kind /\ (Named(block[j]) => Named(block'[j]))
                               /\ j # i => block'[j] = block[j]
         /\ block'[i].ended
<1>1. /\ block \in [Indices -> BlockRow] /\ told \in [Indices -> Seq(ToldEvent)] /\ i \in Indices
      /\ BlockSays(block[i], told[i]) /\ stream.api \in {"openai", "anthropic"}
  BY DEF ReplyInv, ReplyTypeOK, BlocksSay, Present
<1>2. PICK b \in BlockRow : b = block[i]
  BY <1>1
<1>3. PICK c : c = [b EXCEPT !.ended = TRUE, !.parsed = (b.kind = "tool")]
  OBVIOUS
<1>4. /\ c \in BlockRow /\ c.kind = b.kind /\ c.name = b.name /\ c.pieces = b.pieces /\ c.ended
      /\ c.parsed = (b.kind = "tool")
  BY <1>2, <1>3 DEF BlockRow
<1>5. PICK s \in Seq(ToldEvent) : s = told[i]
  BY <1>1
<1>6. b.pieces \in Nat /\ Telling(s, b.pieces)
  BY <1>1, <1>2, <1>5 DEF BlockSays, BlockRow
<1>7. PICK t : t = Append(s, EndWith(b.pieces))
  OBVIOUS
<1>8. t \in Seq(ToldEvent) /\ EndOf(i) = EndWith(b.pieces)
  <2>1. EndWith(b.pieces) \in ToldEvent
    BY <1>6, EventFacts
  <2> QED BY <1>2, <1>7, <2>1, AppendProperties DEF EndOf, EndWith
<1>9. block' = [block EXCEPT ![i] = c] /\ told' = [told EXCEPT ![i] = t]
  <2>1. block' = [block EXCEPT ![i].ended = TRUE, ![i].parsed = (block[i].kind = "tool")]
    BY DEF EndBlock, IsTool
  <2>2. block' = [block EXCEPT ![i] = c]
    BY <1>1, <1>2, <1>3, <2>1 DEF BlockRow
  <2>3. told' = [told EXCEPT ![i] = t]
    BY <1>1, <1>5, <1>7, <1>8 DEF EndBlock
  <2> QED BY <2>2, <2>3
<1>10. /\ block' \in [Indices -> BlockRow] /\ told' \in [Indices -> Seq(ToldEvent)]
       /\ block'[i] = c /\ told'[i] = t
       /\ \A j \in Indices : j # i => block'[j] = block[j] /\ told'[j] = told[j]
  BY <1>1, <1>4, <1>8, <1>9
<1>11. BlockSays(c, t)
  BY <1>2, <1>4, <1>6, <1>7 DEF BlockSays, Named
<1>12. BlocksSay'
  BY <1>10, <1>11 DEF ReplyInv, BlocksSay
<1>13. ReplyTypeOK'
  BY <1>1, <1>10 DEF ReplyInv, ReplyTypeOK
<1>14. \A j \in Indices : block'[j].kind = block[j].kind /\ (Named(block[j]) => Named(block'[j]))
  BY <1>2, <1>4, <1>10 DEF Named
<1>15. Present' = Present
  BY <1>14 DEF Present
<1> QED BY <1>4, <1>10, <1>12, <1>13, <1>14, <1>15


\* Text and thinking come one piece after the other.
LEMMA TextKeeps == ASSUME ReplyInv, OpenAiText PROVE ReplyInv'
<1>0. PICK kind \in {"text", "thinking"} :
        \E i \in Where({j \in Present : block[j].kind = kind}) :
          LET new == i \notin Present
              b   == IF new THEN Opened(kind) ELSE block[i]
          IN /\ b.pieces < MaxBlockPieces
             /\ Adds(i, [b EXCEPT !.pieces = @ + 1],
                     (IF new THEN <<Start>> ELSE <<>>) \o <<Delta(1)>>)
  BY DEF OpenAiText
<1>1. PICK i \in Where({j \in Present : block[j].kind = kind}) :
        LET new == i \notin Present
            b   == IF new THEN Opened(kind) ELSE block[i]
        IN /\ b.pieces < MaxBlockPieces
           /\ Adds(i, [b EXCEPT !.pieces = @ + 1],
                   (IF new THEN <<Start>> ELSE <<>>) \o <<Delta(1)>>)
  BY <1>0
<1>2. /\ i \in Indices
      /\ \/ i \in Present /\ block[i].kind = kind
         \/ i \notin Present /\ i = Cardinality(Present) + 1
  <2>1. PICK found : found = {j \in Present : block[j].kind = kind}
    OBVIOUS
  <2>2. i \in found \/ (found = {} /\ i \in Indices /\ i = Cardinality(Present) + 1)
    BY <2>1 DEF Where
  <2>3. Cardinality(Present) + 1 \notin Present
    <3>1. PICK k \in Nat : Present = 1 .. k
      BY <1>1 DEF ReplyInv, BlocksStand, OpenAiText, Reading
    <3>2. Cardinality(1 .. k) = k /\ k + 1 \notin 1 .. k
      BY FS_Interval
    <3> QED BY <3>1, <3>2
  <2> QED BY <2>1, <2>2, <2>3 DEF Present
<1>3. stream.pc = "reading" /\ stream.api = "openai"
  BY DEF OpenAiText, Reading
<1>4. /\ block[i] \in BlockRow /\ told[i] \in Seq(ToldEvent) /\ BlockSays(block[i], told[i])
      /\ ~block[i].ended
  BY <1>2, <1>3 DEF ReplyInv, ReplyTypeOK, BlocksSay, BlocksStand
<1>5. PICK s \in Seq(ToldEvent) : s = told[i]
  BY <1>4
<1>6. PICK D \in Seq(ToldEvent) : D = <<Delta(1)>>
  BY SaysMore, TellsStart
<1>7. CASE i \notin Present
  <2>1. PICK b : b = Opened(kind)
    OBVIOUS
  <2>2. /\ b \in BlockRow /\ b.kind = kind /\ b.pieces = 0 /\ b.name = "none" /\ ~b.ended /\ ~b.parsed
    BY <2>1 DEF Opened, NoBlock, BlockRow
  <2>3. PICK c : c = [b EXCEPT !.pieces = @ + 1]
    OBVIOUS
  <2>4. /\ c \in BlockRow /\ c.kind = kind /\ c.pieces = 1 /\ ~c.ended /\ ~c.parsed
    BY <2>2, <2>3 DEF BlockRow
  <2>5. s = <<>>
    BY <1>2, <1>4, <1>5, <1>7 DEF BlockSays, Named, Present
  <2>6. PICK A \in Seq(ToldEvent) : A = <<Start>> /\ Telling(s \o A, 0)
    BY <2>5, SaysFirst
  <2>7. Telling((s \o A) \o D, 1)
    BY <1>6, <2>6, SaysMore
  <2>8. Telling(s \o (A \o D), 1) /\ A \o D \in Seq(ToldEvent)
    <3>1. A \o D \in Seq(ToldEvent)
      BY ToldJoins, Zenon
    <3>2. \A t, u \in Seq(ToldEvent) : (s \o t) \o u = s \o (t \o u)
      BY ToldConcat, Zenon
    <3>3. \A u \in Seq(ToldEvent) : (s \o A) \o u = s \o (A \o u)
      BY <3>2, Zenon
    <3>4. (s \o A) \o D = s \o (A \o D)
      BY <3>3, Zenon
    <3> QED BY <2>7, <3>1, <3>4
  <2>9. Adds(i, c, A \o D)
    BY <1>1, <1>6, <1>7, <2>1, <2>3, <2>6
  <2>10. BlockSays(c, s \o (A \o D))
    BY <2>4, <2>8 DEF BlockSays, Named
  <2> QED BY <1>2, <1>3, <1>5, <2>4, <2>8, <2>9, <2>10, AddsKeep
<1>8. CASE i \in Present
  <2>1. PICK b \in BlockRow : b = block[i]
    BY <1>4
  <2>2. PICK c : c = [b EXCEPT !.pieces = @ + 1]
    OBVIOUS
  <2>3. /\ c \in BlockRow /\ c.kind = kind /\ c.pieces = b.pieces + 1 /\ ~c.ended /\ ~c.parsed
        /\ b.pieces \in Nat
    BY <1>2, <1>4, <1>8, <2>1, <2>2 DEF BlockRow, BlockSays
  <2>4. Telling(s, b.pieces)
    BY <1>2, <1>4, <1>5, <1>8, <2>1 DEF BlockSays, Named
  <2>5. Telling(s \o D, b.pieces + 1)
    BY <1>6, <2>3, <2>4, SaysMore
  <2>6. PICK A \in Seq(ToldEvent) : A = <<>>
    BY EmptySeq
  <2>7. A \o D = D
    BY <2>6, ConcatEmptySeq
  <2>8. Adds(i, c, D)
    BY <1>1, <1>6, <1>8, <2>1, <2>2, <2>6, <2>7
  <2>9. BlockSays(c, s \o D)
    BY <2>3, <2>5 DEF BlockSays, Named
  <2> QED BY <1>2, <1>3, <1>5, <2>3, <2>8, <2>9, AddsKeep
<1> QED BY <1>7, <1>8

\* What a tool call is told of when another piece of it comes.
Retold(b, s, joined, piece, starts, A, B, C, c) ==
  /\ b \in BlockRow /\ s \in Seq(ToldEvent) /\ BlockSays(b, s) /\ b.kind = "tool" /\ ~b.ended
  /\ joined \in {"none", "blank", "good"} /\ (b.name # "none" => joined # "none")
  /\ piece \in {0, 1} /\ c = [b EXCEPT !.name = joined, !.pieces = @ + piece]
  /\ starts \in BOOLEAN /\ (starts <=> b.name = "none" /\ joined # "none")
  /\ A = (IF starts THEN <<Start>> ELSE <<>>)
  /\ B = (IF starts /\ b.pieces > 0 THEN <<Delta(b.pieces)>> ELSE <<>>)
  /\ C = (IF joined # "none" /\ piece = 1 THEN <<Delta(1)>> ELSE <<>>)

LEMMA ToolSays ==
  \A b, s, joined, piece, starts, A, B, C, c :
    Retold(b, s, joined, piece, starts, A, B, C, c) =>
      /\ c \in BlockRow /\ c.kind = "tool" /\ ~c.ended
      /\ (A \o B) \o C \in Seq(ToldEvent) /\ BlockSays(c, s \o ((A \o B) \o C))
<1> SUFFICES ASSUME NEW b, NEW s, NEW joined, NEW piece, NEW starts, NEW A, NEW B, NEW C, NEW c,
                    Retold(b, s, joined, piece, starts, A, B, C, c)
             PROVE  /\ c \in BlockRow /\ c.kind = "tool" /\ ~c.ended
                    /\ (A \o B) \o C \in Seq(ToldEvent) /\ BlockSays(c, s \o ((A \o B) \o C))
  OBVIOUS
<1> USE DEF Retold
<1>0. b.pieces \in Nat /\ piece \in Nat /\ ~b.parsed
  BY DEF BlockRow, BlockSays
<1>count. PICK m \in Nat : m = b.pieces + piece
  BY <1>0
<1>1. /\ b.pieces \in Nat /\ c \in BlockRow /\ c.kind = "tool" /\ ~c.ended /\ ~c.parsed
      /\ c.name = joined /\ c.pieces = b.pieces + piece /\ piece \in Nat
  <2>1. c = [b EXCEPT !.name = joined, !.pieces = m]
    BY <1>count
  <2>2. PICK d : d = [b EXCEPT !.name = joined]
    OBVIOUS
  <2>3. d \in BlockRow /\ d.name = joined /\ d.kind = "tool" /\ ~d.ended /\ ~d.parsed
    BY <1>0, <2>2 DEF BlockRow
  <2>4. c = [d EXCEPT !.pieces = m]
    BY <2>1, <2>2 DEF BlockRow
  <2> QED BY <1>0, <1>count, <2>3, <2>4 DEF BlockRow
<1>2. /\ A \in Seq(ToldEvent) /\ B \in Seq(ToldEvent) /\ C \in Seq(ToldEvent)
  BY <1>1, TellsStart, SaysMore, EmptySeq
<1>3. (A \o B) \o C \in Seq(ToldEvent) /\ s \o ((A \o B) \o C) = ((s \o A) \o B) \o C
  <2>1. A \o B \in Seq(ToldEvent)
    BY <1>2, ToldJoins, Zenon
  <2>2. s \o ((A \o B) \o C) = (s \o (A \o B)) \o C
    <3>1. \A t, u \in Seq(ToldEvent) : (s \o t) \o u = s \o (t \o u)
      BY ToldConcat, Zenon
    <3>2. \A u \in Seq(ToldEvent) : (s \o (A \o B)) \o u = s \o ((A \o B) \o u)
      BY <2>1, <3>1, Zenon
    <3> QED BY <1>2, <3>2, Zenon
  <2>3. s \o (A \o B) = (s \o A) \o B
    <3>1. \A t, u \in Seq(ToldEvent) : (s \o t) \o u = s \o (t \o u)
      BY ToldConcat, Zenon
    <3>2. \A u \in Seq(ToldEvent) : (s \o A) \o u = s \o (A \o u)
      BY <1>2, <3>1, Zenon
    <3> QED BY <1>2, <3>2, Zenon
  <2>4. (A \o B) \o C \in Seq(ToldEvent)
    BY <1>2, <2>1, ToldJoins, Zenon
  <2> QED BY <2>2, <2>3, <2>4
<1>4. CASE joined = "none"
  <2>1. b.name = "none" /\ s = <<>> /\ A = <<>> /\ B = <<>> /\ C = <<>>
    BY <1>4 DEF BlockSays, Named
  <2>2. ((s \o A) \o B) \o C = <<>>
    BY <2>1, ConcatEmptySeq, EmptySeq
  <2> QED BY <1>1, <1>3, <1>4, <2>2 DEF BlockSays, Named
<1>5. CASE joined # "none"
  <2>1. PICK n \in {0, b.pieces} : Telling(s \o A, n) /\ (starts => n = 0) /\ (~starts => n = b.pieces)
    <3>1. CASE starts
      <4>1. s = <<>>
        BY <3>1 DEF BlockSays, Named
      <4> QED BY <3>1, <4>1, SaysFirst
    <3>2. CASE ~starts
      <4>1. Telling(s, b.pieces)
        BY <1>5, <3>2 DEF BlockSays, Named
      <4>2. s \o A = s
        BY <3>2, ConcatEmptySeq
      <4> QED BY <3>2, <4>1, <4>2
    <3> QED BY <3>1, <3>2
  <2>2. Telling((s \o A) \o B, b.pieces)
    <3>1. CASE starts
      <4>1. n = 0 /\ 0 + b.pieces = b.pieces /\ (B = <<Delta(b.pieces)>> \/ (B = <<>> /\ b.pieces = 0))
        BY <1>1, <2>1, <3>1
      <4>2. Telling((s \o A) \o B, 0 + b.pieces)
        BY <1>1, <2>1, <4>1, SaysMore
      <4> QED BY <4>1, <4>2
    <3>2. CASE ~starts
      <4>1. B = <<>> /\ n = b.pieces /\ s \o A \in Seq(ToldEvent)
        BY <1>2, <2>1, <3>2, ToldJoins
      <4>2. (s \o A) \o B = s \o A
        BY <4>1, ConcatEmptySeq
      <4> QED BY <2>1, <4>1, <4>2
    <3> QED BY <3>1, <3>2
  <2>3. C = <<Delta(piece)>> \/ (C = <<>> /\ piece = 0)
    BY <1>5
  <2>4. Telling(((s \o A) \o B) \o C, b.pieces + piece)
    BY <1>1, <2>2, <2>3, SaysMore
  <2> QED BY <1>1, <1>3, <1>5, <2>4 DEF BlockSays, Named
<1> QED BY <1>1, <1>3, <1>4, <1>5

\* Nothing is told of a tool call before it has a name, and all of it then.
LEMMA ToolKeeps == ASSUME ReplyInv, OpenAiTool PROVE ReplyInv'
<1>1. PICK i \in {j \in Present : IsTool(j)} \cup Where({}),
           name \in {"none", "blank", "good"}, piece \in {0, 1} :
        LET b      == IF i \in Present THEN block[i] ELSE Opened("tool")
            joined == Joined(b.name, name)
            starts == b.name = "none" /\ joined # "none"
        IN /\ b.pieces + piece <= MaxBlockPieces
           /\ Adds(i, [b EXCEPT !.name = joined, !.pieces = @ + piece],
                   (IF starts THEN <<Start>> ELSE <<>>)
                     \o (IF starts /\ b.pieces > 0 THEN <<Delta(b.pieces)>> ELSE <<>>)
                     \o (IF joined # "none" /\ piece = 1 THEN <<Delta(1)>> ELSE <<>>))
  BY DEF OpenAiTool
<1>2. stream.pc = "reading" /\ stream.api = "openai"
  BY DEF OpenAiTool, Reading
<1>3. /\ i \in Indices
      /\ \/ i \in Present /\ block[i].kind = "tool"
         \/ i \notin Present /\ i = Cardinality(Present) + 1
  <2>1. (i \in Present /\ IsTool(i)) \/ (i \in Indices /\ i = Cardinality(Present) + 1)
    BY DEF Where
  <2>2. Cardinality(Present) + 1 \notin Present
    <3>1. PICK k \in Nat : Present = 1 .. k
      BY <1>2 DEF ReplyInv, BlocksStand
    <3>2. Cardinality(1 .. k) = k /\ k + 1 \notin 1 .. k
      BY FS_Interval
    <3> QED BY <3>1, <3>2
  <2> QED BY <2>1, <2>2 DEF Present, IsTool
<1>4. /\ block[i] \in BlockRow /\ told[i] \in Seq(ToldEvent) /\ BlockSays(block[i], told[i])
      /\ ~block[i].ended
  BY <1>2, <1>3 DEF ReplyInv, ReplyTypeOK, BlocksSay, BlocksStand
<1>5. PICK s \in Seq(ToldEvent) : s = told[i]
  BY <1>4
<1>6. PICK b : b = IF i \in Present THEN block[i] ELSE Opened("tool")
  OBVIOUS
<1>7. b \in BlockRow /\ BlockSays(b, s) /\ b.kind = "tool" /\ ~b.ended
  <2>1. CASE i \in Present
    BY <1>3, <1>4, <1>5, <1>6, <2>1
  <2>2. CASE i \notin Present
    <3>1. s = <<>>
      BY <1>3, <1>4, <1>5, <2>2 DEF BlockSays, Named, Present
    <3>2. b \in BlockRow /\ b.kind = "tool" /\ b.name = "none" /\ ~b.ended /\ ~b.parsed
      BY <1>6, <2>2 DEF Opened, NoBlock, BlockRow
    <3> QED BY <3>1, <3>2 DEF BlockSays, Named
  <2> QED BY <2>1, <2>2
<1>8. PICK joined \in {"none", "blank", "good"} : joined = Joined(b.name, name)
  BY <1>7 DEF Joined, BlockRow
<1>9. b.name # "none" => joined # "none"
  BY <1>7, <1>8 DEF Joined, BlockRow
<1>10. PICK starts \in BOOLEAN : starts <=> b.name = "none" /\ joined # "none"
  OBVIOUS
<1>11. PICK A : A = IF starts THEN <<Start>> ELSE <<>>
  OBVIOUS
<1>12. PICK B : B = IF starts /\ b.pieces > 0 THEN <<Delta(b.pieces)>> ELSE <<>>
  OBVIOUS
<1>13. PICK C : C = IF joined # "none" /\ piece = 1 THEN <<Delta(1)>> ELSE <<>>
  OBVIOUS
<1>14. PICK c : c = [b EXCEPT !.name = joined, !.pieces = @ + piece]
  OBVIOUS
<1>15. Adds(i, c, (A \o B) \o C)
  BY <1>1, <1>6, <1>8, <1>10, <1>11, <1>12, <1>13, <1>14
<1>16. /\ c \in BlockRow /\ c.kind = "tool" /\ ~c.ended
       /\ (A \o B) \o C \in Seq(ToldEvent) /\ BlockSays(c, s \o ((A \o B) \o C))
  <2>1. Retold(b, s, joined, piece, starts, A, B, C, c)
    BY <1>7, <1>9, <1>10, <1>11, <1>12, <1>13, <1>14 DEF Retold
  <2> QED BY <2>1, ToolSays, Zenon
<1> QED BY <1>2, <1>3, <1>5, <1>15, <1>16, AddsKeep

\* Anthropic's blocks open with what the provider sent along.
LEMMA StartKeeps == ASSUME ReplyInv, BlockStarts PROVE ReplyInv'
<1>1. PICK i \in Indices \ Present, kind \in {"text", "thinking", "tool"}, name \in {"blank", "good"},
           piece \in {0, 1} :
        Adds(i, [Opened(kind) EXCEPT !.name = name, !.pieces = piece],
             <<Start>> \o IF piece = 1 THEN <<Delta(1)>> ELSE <<>>)
  BY DEF BlockStarts
<1>2. stream.pc = "reading" /\ stream.api = "anthropic"
  BY DEF BlockStarts, Reading
<1>3. PICK s \in Seq(ToldEvent) : s = told[i] /\ s = <<>>
  BY DEF ReplyInv, ReplyTypeOK, BlocksSay, BlockSays, Named, Present
<1>4. PICK b : b = Opened(kind)
  OBVIOUS
<1>5. /\ b \in BlockRow /\ b.kind = kind /\ ~b.ended /\ ~b.parsed
  BY <1>4 DEF Opened, NoBlock, BlockRow
<1>6. PICK c : c = [b EXCEPT !.name = name, !.pieces = piece]
  OBVIOUS
<1>7. /\ c \in BlockRow /\ c.kind = kind /\ c.name = name /\ c.pieces = piece /\ ~c.ended /\ ~c.parsed
  <2>1. PICK d : d = [b EXCEPT !.name = name]
    OBVIOUS
  <2>2. d \in BlockRow /\ d.name = name /\ d.kind = kind /\ ~d.ended /\ ~d.parsed
    BY <1>5, <2>1 DEF BlockRow
  <2>3. c = [d EXCEPT !.pieces = piece]
    BY <1>5, <1>6, <2>1 DEF BlockRow
  <2> QED BY <2>2, <2>3 DEF BlockRow
<1>8. PICK A \in Seq(ToldEvent) : A = <<Start>> /\ Telling(s \o A, 0)
  BY <1>3, SaysFirst
<1>9. PICK X : X = IF piece = 1 THEN <<Delta(1)>> ELSE <<>>
  OBVIOUS
<1>10. X = <<Delta(piece)>> \/ (X = <<>> /\ piece = 0)
  BY <1>9
<1>11. X \in Seq(ToldEvent) /\ Telling((s \o A) \o X, 0 + piece) /\ 0 + piece = piece
  BY <1>8, <1>10, SaysMore
<1>12. A \o X \in Seq(ToldEvent) /\ Telling(s \o (A \o X), piece)
  <2>1. A \o X \in Seq(ToldEvent)
    BY <1>11, ToldJoins, Zenon
  <2>2. \A t, u \in Seq(ToldEvent) : (s \o t) \o u = s \o (t \o u)
    BY ToldConcat, Zenon
  <2>3. \A u \in Seq(ToldEvent) : (s \o A) \o u = s \o (A \o u)
    BY <2>2, Zenon
  <2>4. (s \o A) \o X = s \o (A \o X)
    BY <1>11, <2>3, Zenon
  <2> QED BY <1>11, <2>1, <2>4
<1>13. Adds(i, c, A \o X)
  BY <1>1, <1>4, <1>6, <1>8, <1>9
<1>14. BlockSays(c, s \o (A \o X)) /\ Named(c)
  BY <1>7, <1>12 DEF BlockSays, Named
<1> QED BY <1>2, <1>3, <1>7, <1>12, <1>13, <1>14, AddsKeep

LEMMA GrowthKeeps == ASSUME ReplyInv, BlockGrows PROVE ReplyInv'
<1>1. PICK i \in Present : ~block[i].ended /\ Adds(i, [block[i] EXCEPT !.pieces = @ + 1], <<Delta(1)>>)
  BY DEF BlockGrows
<1>2. stream.pc = "reading" /\ stream.api = "anthropic" /\ i \in Indices
  BY DEF BlockGrows, Reading, Present
<1>3. PICK b \in BlockRow : b = block[i] /\ Named(b) /\ ~b.ended
  BY <1>1, <1>2 DEF ReplyInv, ReplyTypeOK, BlocksStand, Present
<1>4. PICK s \in Seq(ToldEvent) : s = told[i]
  BY <1>2 DEF ReplyInv, ReplyTypeOK
<1>5. Telling(s, b.pieces) /\ b.pieces \in Nat /\ ~b.parsed
  BY <1>2, <1>3, <1>4 DEF ReplyInv, BlocksSay, BlockSays, BlockRow
<1>6. PICK c : c = [b EXCEPT !.pieces = @ + 1]
  OBVIOUS
<1>7. /\ c \in BlockRow /\ c.kind = b.kind /\ c.name = b.name /\ c.pieces = b.pieces + 1 /\ ~c.ended
      /\ ~c.parsed
  BY <1>3, <1>5, <1>6 DEF BlockRow
<1>8. PICK D \in Seq(ToldEvent) : D = <<Delta(1)>> /\ Telling(s \o D, b.pieces + 1)
  BY <1>5, SaysMore
<1>9. BlockSays(c, s \o D) /\ Named(c) /\ c.kind # "none"
  BY <1>3, <1>7, <1>8 DEF BlockSays, Named
<1>10. Adds(i, c, D)
  BY <1>1, <1>3, <1>6, <1>8
<1> QED BY <1>2, <1>4, <1>7, <1>9, <1>10, AddsKeep


LEMMA StreamMoves ==
  ASSUME ReplyTypeOK, NEW pc \in {"reading", "finishing", "failing", "done", "failed"},
         stream' = [stream EXCEPT !.pc = pc]
  PROVE  /\ {"api", "pc", "finished", "refused"} = DOMAIN stream'
         /\ stream'.pc = pc /\ stream'.api = stream.api /\ stream'.finished = stream.finished
BY DEF ReplyTypeOK

\* A reply breaks off.
LEMMA BreakKeeps == ASSUME ReplyInv, BreaksOff PROVE ReplyInv'
<1>1. stream' = [stream EXCEPT !.pc = "failing"] /\ block' = block /\ told' = told /\ reply' = reply
  BY DEF BreaksOff
<1>2. /\ {"api", "pc", "finished", "refused"} = DOMAIN stream'
      /\ stream'.pc = "failing" /\ stream'.api = stream.api /\ stream'.finished = stream.finished
  BY <1>1, StreamMoves DEF ReplyInv
<1>3. ReplyTypeOK'
  BY <1>1, <1>2 DEF ReplyInv, ReplyTypeOK
<1>4. BlocksSay'
  BY <1>1 DEF ReplyInv, BlocksSay
<1>5. Present' = Present
  BY <1>1 DEF Present
<1>6. BlocksStand'
  BY <1>1, <1>2, <1>5 DEF ReplyInv, BlocksStand
<1> QED BY <1>3, <1>4, <1>6 DEF ReplyInv

\* A message is returned when no block is left open but a tool call that failed.
LEMMA ReturnKeeps ==
  ASSUME ReplyInv, NEW pc \in {"done", "failed"}, ReturnsMessage(pc),
         \A i \in Present : block[i].ended \/ (pc = "failed" /\ IsTool(i))
  PROVE  ReplyInv'
<1>1. stream' = [stream EXCEPT !.pc = pc] /\ block' = block /\ told' = told /\ reply' = Content
  BY DEF ReturnsMessage
<1>2. /\ {"api", "pc", "finished", "refused"} = DOMAIN stream'
      /\ stream'.pc = pc /\ stream'.api = stream.api /\ stream'.finished = stream.finished
  BY <1>1, StreamMoves DEF ReplyInv
<1>3. ReplyTypeOK'
  BY <1>1, <1>2 DEF ReplyInv, ReplyTypeOK
<1>4. BlocksSay'
  BY <1>1 DEF ReplyInv, BlocksSay
<1>5. Present' = Present /\ Content' = Content /\ \A i \in Present : IsTool(i)' <=> IsTool(i)
  BY <1>1 DEF Present, Content, IsTool
<1>6. BlocksStand'
  <2>1. \A i \in Present' : block'[i].ended \/ (stream'.pc = "failed" /\ IsTool(i)')
    BY <1>1, <1>2, <1>5
  <2>2. stream'.api = "openai" => \E k \in Nat : Present' = 1 .. k
    BY <1>2, <1>5 DEF ReplyInv, BlocksStand
  <2>3. stream'.api = "anthropic" => \A i \in Indices : Named(block'[i]) \/ block'[i].kind = "none"
    BY <1>1, <1>2 DEF ReplyInv, BlocksStand
  <2>4. stream'.pc # "reading" /\ stream'.pc # "finishing" /\ reply' = Content'
    BY <1>1, <1>2, <1>5
  <2> QED BY <2>1, <2>2, <2>3, <2>4 DEF BlocksStand
<1> QED BY <1>3, <1>4, <1>6 DEF ReplyInv

LEMMA StopKeeps == ASSUME ReplyInv, BlockStops PROVE ReplyInv'
<1>1. PICK i \in {j \in Present : ~block[j].ended} :
        \/ IsTool(i) /\ BreaksOff
        \/ /\ IsTool(i) => block[i].name = "good"
           /\ Adds(i, [block[i] EXCEPT !.ended = TRUE, !.parsed = IsTool(i)], <<EndOf(i)>>)
  BY Zenon DEF BlockStops
<1>2. CASE BreaksOff
  BY <1>2, BreakKeeps
<1>3. CASE Adds(i, [block[i] EXCEPT !.ended = TRUE, !.parsed = IsTool(i)], <<EndOf(i)>>)
  <2>1. stream.pc = "reading" /\ stream.api = "anthropic" /\ i \in Present /\ i \in Indices
    BY DEF BlockStops, Reading, Present
  <2>2. PICK b \in BlockRow : b = block[i] /\ Named(b) /\ ~b.ended
    BY <2>1 DEF ReplyInv, ReplyTypeOK, BlocksStand, Present
  <2>3. PICK s \in Seq(ToldEvent) : s = told[i]
    BY <2>1 DEF ReplyInv, ReplyTypeOK
  <2>4. Telling(s, b.pieces) /\ b.pieces \in Nat
    BY <2>1, <2>2, <2>3 DEF ReplyInv, BlocksSay, BlockSays, BlockRow
  <2>5. PICK c : c = [b EXCEPT !.ended = TRUE, !.parsed = (b.kind = "tool")]
    OBVIOUS
  <2>6. /\ c \in BlockRow /\ c.kind = b.kind /\ c.name = b.name /\ c.pieces = b.pieces /\ c.ended
        /\ c.parsed = (b.kind = "tool")
    BY <2>2, <2>5 DEF BlockRow
  <2>7. PICK e \in ToldEvent : e = EndWith(b.pieces)
    BY <2>4, EventFacts
  <2>8. EndOf(i) = e
    BY <2>2, <2>7 DEF EndOf, EndWith
  <2>9. PICK D : D = <<e>>
    OBVIOUS
  <2>10. D \in Seq(ToldEvent) /\ s \o D = Append(s, e)
    BY <2>9, AppendIsConcat
  <2>11. Adds(i, c, D)
    BY <1>3, <2>2, <2>5, <2>8, <2>9 DEF IsTool
  <2>12. BlockSays(c, s \o D) /\ Named(c) /\ c.kind # "none"
    BY <2>2, <2>4, <2>6, <2>7, <2>10 DEF BlockSays, Named
  <2> QED BY <2>1, <2>3, <2>6, <2>10, <2>11, <2>12, AddsKeep
<1> QED BY <1>1, <1>2, <1>3

LEMMA RefusalKeeps == ASSUME ReplyInv, OpenAiRefuses PROVE ReplyInv'
<1>1. /\ stream' = [stream EXCEPT !.refused = TRUE] /\ block' = block /\ told' = told /\ reply' = reply
      /\ stream.pc = "reading"
  BY DEF OpenAiRefuses, Reading
<1>2. /\ {"api", "pc", "finished", "refused"} = DOMAIN stream'
      /\ stream'.pc = stream.pc /\ stream'.api = stream.api /\ stream'.finished = stream.finished
  BY <1>1 DEF ReplyInv, ReplyTypeOK
<1>3. ReplyTypeOK'
  BY <1>1, <1>2 DEF ReplyInv, ReplyTypeOK
<1>4. BlocksSay'
  BY <1>1 DEF ReplyInv, BlocksSay
<1>5. Present' = Present
  BY <1>1 DEF Present
<1>6. BlocksStand'
  BY <1>1, <1>2, <1>5 DEF ReplyInv, BlocksStand
<1> QED BY <1>3, <1>4, <1>6 DEF ReplyInv

LEMMA EndKeepsAnthropic == ASSUME ReplyInv, FinishAnthropic PROVE ReplyInv'
<1>1. CASE BreaksOff
  BY <1>1, BreakKeeps
<1>2. CASE (\A i \in Present : block[i].ended) /\ ReturnsMessage("done")
  BY <1>2, ReturnKeeps
<1> QED BY <1>1, <1>2 DEF FinishAnthropic

LEMMA EndKeepsOpenAi == ASSUME ReplyInv, FinishOpenAi PROVE ReplyInv'
<1>1. /\ stream' = [stream EXCEPT !.pc = "finishing"] /\ block' = block /\ told' = told /\ reply' = reply
      /\ stream.pc = "reading" /\ stream.api = "openai"
  BY DEF FinishOpenAi, Reading
<1>2. /\ {"api", "pc", "finished", "refused"} = DOMAIN stream'
      /\ stream'.pc = "finishing" /\ stream'.api = stream.api /\ stream'.finished = stream.finished
  BY <1>1, StreamMoves DEF ReplyInv
<1>3. ReplyTypeOK'
  BY <1>1, <1>2 DEF ReplyInv, ReplyTypeOK
<1>4. BlocksSay'
  BY <1>1 DEF ReplyInv, BlocksSay
<1>5. Present' = Present
  BY <1>1 DEF Present
<1>6. stream.finished = {} /\ \A i \in Indices : ~block[i].ended
  BY <1>1 DEF ReplyInv, BlocksStand
<1>7. BlocksStand'
  BY <1>1, <1>2, <1>5, <1>6 DEF ReplyInv, BlocksStand
<1> QED BY <1>3, <1>4, <1>7 DEF ReplyInv

LEMMA FinishKeeps == ASSUME ReplyInv, FinishBlock PROVE ReplyInv'
<1>1. PICK i : i = Min(Present \ stream.finished)
  OBVIOUS
<1>2. /\ stream.pc = "finishing"
      /\ \/ IsTool(i) /\ BreaksOff
         \/ /\ IsTool(i) => block[i].name = "good"
            /\ EndBlock(i)
            /\ stream' = [stream EXCEPT !.finished = @ \cup {i}]
            /\ reply' = reply
  BY <1>1 DEF FinishBlock
<1>3. i \in Present /\ i \in Indices /\ i \notin stream.finished
  <2>1. PICK S : S = Present \ stream.finished
    OBVIOUS
  <2>2. S \subseteq Nat /\ S # {}
    BY <2>1 DEF FinishBlock, Present, Indices
  <2>3. Min(S) \in S
    BY <2>2, MinOfNats
  <2> QED BY <1>1, <2>1, <2>3 DEF Present
<1>4. CASE BreaksOff
  BY <1>4, BreakKeeps
<1>5. CASE /\ IsTool(i) => block[i].name = "good"
           /\ EndBlock(i)
           /\ stream' = [stream EXCEPT !.finished = @ \cup {i}]
           /\ reply' = reply
  <2>1. /\ {"api", "pc", "finished", "refused"} = DOMAIN stream' /\ DOMAIN stream' = DOMAIN stream
        /\ stream'.pc = "finishing" /\ stream'.api = stream.api
        /\ stream'.finished = stream.finished \cup {i} /\ stream'.finished \in SUBSET Indices
    BY <1>2, <1>3, <1>5 DEF ReplyInv, ReplyTypeOK
  <2>2. ~block[i].ended /\ Named(block[i])
    BY <1>2, <1>3, <1>5 DEF ReplyInv, BlocksStand, Named, Present, IsTool
  <2>3. /\ ReplyTypeOK' /\ BlocksSay' /\ Present' = Present
        /\ \A j \in Indices : /\ block'[j].kind = block[j].kind /\ (Named(block[j]) => Named(block'[j]))
                              /\ j # i => block'[j] = block[j]
        /\ block'[i].ended
    BY <1>3, <1>5, <2>1, <2>2, EndKeeps
  <2>4. \A j \in Indices : block'[j].ended <=> j \in stream'.finished
    BY <1>2, <2>1, <2>3 DEF ReplyInv, BlocksStand
  <2>5. stream.api = "openai"
    BY <1>2 DEF ReplyInv, ReplyTypeOK, BlocksStand
  <2>6. \E k \in Nat : Present' = 1 .. k
    BY <2>3, <2>5 DEF ReplyInv, BlocksStand
  <2>7. BlocksStand'
    BY <2>1, <2>4, <2>5, <2>6 DEF BlocksStand
  <2> QED BY <2>3, <2>7 DEF ReplyInv
<1> QED BY <1>2, <1>4, <1>5

LEMMA FinishEndKeeps == ASSUME ReplyInv, FinishEnds PROVE ReplyInv'
<1>1. stream.pc = "finishing" /\ Present = stream.finished /\ (BreaksOff \/ ReturnsMessage("done"))
  BY DEF FinishEnds
<1>2. \A i \in Present : block[i].ended
  BY <1>1 DEF ReplyInv, BlocksStand, Present
<1>3. CASE BreaksOff
  BY <1>3, BreakKeeps
<1>4. CASE ReturnsMessage("done")
  BY <1>2, <1>4, ReturnKeeps
<1> QED BY <1>1, <1>3, <1>4

LEMMA FailKeeps == ASSUME ReplyInv, FailBlock PROVE ReplyInv'
<1>1. PICK i \in Unended : EndBlock(i)
  BY DEF FailBlock
<1>2. /\ stream' = stream /\ reply' = reply /\ stream.pc = "failing"
      /\ i \in Present /\ i \in Indices /\ ~IsTool(i) /\ ~block[i].ended
  BY DEF FailBlock, Unended, Present
<1>3. Named(block[i])
  BY <1>2 DEF Named, Present, IsTool
<1>4. stream'.finished \in SUBSET Indices
  BY <1>2 DEF ReplyInv, ReplyTypeOK
<1>5. /\ ReplyTypeOK' /\ BlocksSay' /\ Present' = Present
      /\ \A j \in Indices : /\ block'[j].kind = block[j].kind /\ (Named(block[j]) => Named(block'[j]))
                            /\ j # i => block'[j] = block[j]
      /\ block'[i].ended
  BY <1>1, <1>2, <1>3, <1>4, EndKeeps
<1>6. BlocksStand'
  <2>1. stream.api = "openai" => \E k \in Nat : Present' = 1 .. k
    BY <1>5 DEF ReplyInv, BlocksStand
  <2>2. stream.api = "anthropic" => \A j \in Indices : Named(block'[j]) \/ block'[j].kind = "none"
    BY <1>5 DEF ReplyInv, BlocksStand
  <2> QED BY <1>2, <2>1, <2>2 DEF BlocksStand
<1> QED BY <1>5, <1>6 DEF ReplyInv

LEMMA FailureKeeps == ASSUME ReplyInv, FailureReturns PROVE ReplyInv'
<1>1. ReturnsMessage("failed") /\ \A i \in Present : block[i].ended \/ IsTool(i)
  BY DEF FailureReturns, Unended
<1> QED BY <1>1, ReturnKeeps

LEMMA ReplySteps == ASSUME ReplyInv, ReplyNext PROVE ReplyInv'
<1>1. CASE OpenAiText
  BY <1>1, TextKeeps
<1>2. CASE OpenAiRefuses
  BY <1>2, RefusalKeeps
<1>3. CASE OpenAiTool
  BY <1>3, ToolKeeps
<1>4. CASE BlockStarts
  BY <1>4, StartKeeps
<1>5. CASE BlockGrows
  BY <1>5, GrowthKeeps
<1>6. CASE BlockStops
  BY <1>6, StopKeeps
<1>7. CASE Breaks
  BY <1>7, BreakKeeps DEF Breaks
<1>8. CASE FinishAnthropic
  BY <1>8, EndKeepsAnthropic
<1>9. CASE FinishOpenAi
  BY <1>9, EndKeepsOpenAi
<1>10. CASE FinishBlock
  BY <1>10, FinishKeeps
<1>11. CASE FinishEnds
  BY <1>11, FinishEndKeeps
<1>12. CASE FailBlock
  BY <1>12, FailKeeps
<1>13. CASE FailureReturns
  BY <1>13, FailureKeeps
<1> QED BY <1>1, <1>2, <1>3, <1>4, <1>5, <1>6, <1>7, <1>8, <1>9, <1>10, <1>11, <1>12, <1>13
        DEF ReplyNext

LEMMA ReplyStarts == ReplyInit => ReplyInv
<1> SUFFICES ASSUME ReplyInit PROVE ReplyInv
  OBVIOUS
<1>1. PICK api \in {"openai", "anthropic"} :
        stream = [api |-> api, pc |-> "reading", finished |-> {}, refused |-> FALSE]
  BY DEF ReplyInit
<1>2. /\ {"api", "pc", "finished", "refused"} = DOMAIN stream
      /\ stream.api = api /\ stream.pc = "reading" /\ stream.finished = {}
  BY <1>1
<1>3. PICK b \in BlockRow : b = NoBlock /\ b.kind = "none" /\ ~b.ended /\ ~b.parsed
  <2>1. NoBlock \in BlockRow /\ NoBlock.kind = "none" /\ ~NoBlock.ended /\ ~NoBlock.parsed
    BY DEF NoBlock, BlockRow
  <2> QED BY <2>1
<1>4. PICK none \in Seq(ToldEvent) : none = <<>>
  BY EmptySeq
<1>5. block = [i \in Indices |-> b] /\ told = [i \in Indices |-> none]
  BY <1>3, <1>4 DEF ReplyInit
<1>6. ReplyTypeOK
  BY <1>1, <1>2, <1>5 DEF ReplyTypeOK
<1>7. BlocksSay
  BY <1>3, <1>4, <1>5 DEF BlocksSay, BlockSays, Named
<1>8. Present = {}
  BY <1>3, <1>5 DEF Present
<1>9. \E k \in Nat : Present = 1 .. k
  <2>1. 1 .. 0 = {} /\ 0 \in Nat
    OBVIOUS
  <2> QED BY <1>8, <2>1
<1>10. BlocksStand
  BY <1>2, <1>3, <1>5, <1>9 DEF BlocksStand
<1> QED BY <1>6, <1>7, <1>10 DEF ReplyInv

LEMMA ReplyTold == ASSUME ReplyInv PROVE EventsMatchReply
<1>1. ASSUME NEW i \in Indices PROVE InOrder(told[i]) /\ (EndedAt(i) <=> block[i].ended)
  <2>1. PICK b \in BlockRow : b = block[i]
    BY DEF ReplyInv, ReplyTypeOK
  <2>2. PICK s \in Seq(ToldEvent) : s = told[i]
    BY DEF ReplyInv, ReplyTypeOK
  <2>3. BlockSays(b, s) /\ b.pieces \in Nat
    BY <2>1, <2>2 DEF ReplyInv, BlocksSay, BlockRow
  <2>4. CASE ~Named(b)
    <3>1. s = <<>> /\ ~b.ended /\ DOMAIN s = {}
      BY <2>3, <2>4 DEF BlockSays
    <3>2. InOrder(s) /\ Range(s) = {}
      BY <3>1 DEF InOrder, Range
    <3> QED BY <2>1, <2>2, <3>1, <3>2 DEF EndedAt
  <2>5. CASE Named(b) /\ ~b.ended
    <3>1. Telling(s, b.pieces)
      BY <2>3, <2>5 DEF BlockSays
    <3>2. InOrder(s) /\ \A e \in Range(s) : e.event # "ended"
      BY <2>3, <3>1, TellingInOrder
    <3> QED BY <2>1, <2>2, <2>5, <3>2 DEF EndedAt
  <2>6. CASE Named(b) /\ b.ended
    <3>1. PICK t : Telling(t, b.pieces) /\ s = Append(t, EndWith(b.pieces))
      BY <2>3, <2>6 DEF BlockSays
    <3>2. InOrder(s) /\ \E e \in Range(s) : e.event = "ended"
      BY <2>3, <3>1, TellingInOrder
    <3> QED BY <2>1, <2>2, <2>6, <3>2 DEF EndedAt
  <2> QED BY <2>4, <2>5, <2>6
<1>2. \A i \in Indices : /\ block[i].ended => block[i].kind # "none"
                         /\ IsTool(i) => (block[i].parsed <=> block[i].ended)
  BY DEF ReplyInv, BlocksSay, BlockSays, Named, IsTool
<1>3. ASSUME stream.pc \in {"done", "failed"}
      PROVE  /\ reply = {i \in Indices : EndedAt(i) /\ (IsTool(i) \/ block[i].pieces > 0)}
             /\ \A i \in Present : ~EndedAt(i) => stream.pc = "failed" /\ IsTool(i)
  <2>1. reply = Content /\ \A i \in Present : block[i].ended \/ (stream.pc = "failed" /\ IsTool(i))
    BY <1>3 DEF ReplyInv, BlocksStand
  <2>2. ASSUME NEW i \in Indices
        PROVE  i \in Content <=> EndedAt(i) /\ (IsTool(i) \/ block[i].pieces > 0)
    <3>1. CASE i \in Present
      BY <1>1, <1>2, <2>1, <3>1 DEF Content
    <3>2. CASE i \notin Present
      BY <1>1, <1>2, <3>2 DEF Content, Present
    <3> QED BY <3>1, <3>2
  <2>3. Content \subseteq Indices /\ Present \subseteq Indices
    BY DEF Content, Present
  <2> QED BY <1>1, <2>1, <2>2, <2>3
<1> QED BY <1>1, <1>3 DEF EventsMatchReply, InOrder

\* Whoever follows a provider's stream, OpenAI's or Anthropic's, knows the message
\* the accumulator returns: blocks start first, end once and last with all that was
\* told of them, and the message holds those that ended with something in them.
THEOREM EventsTellReply == Spec => []EventsMatchReply
<1>1. Init => ReplyInv
  BY ReplyStarts DEF Init
<1>2. ReplyInv /\ [Next]_vars => ReplyInv'
  <2> SUFFICES ASSUME ReplyInv, [Next]_vars PROVE ReplyInv'
    OBVIOUS
  <2>1. UNCHANGED replyVars \/ ReplyNext
    BY DEF Next, Only, vars
  <2>2. CASE UNCHANGED replyVars
    <3>1. stream' = stream /\ block' = block /\ told' = told /\ reply' = reply
      BY <2>2 DEF replyVars
    <3>2. Present' = Present /\ Content' = Content /\ \A i \in Present : IsTool(i)' <=> IsTool(i)
      BY <3>1 DEF Present, Content, IsTool
    <3> QED BY <3>1, <3>2 DEF ReplyInv, ReplyTypeOK, BlocksStand, BlocksSay
  <2> QED BY <2>1, <2>2, ReplySteps
<1>3. ReplyInv => EventsMatchReply
  BY ReplyTold
<1> QED BY <1>1, <1>2, <1>3, PTL DEF Spec

==============================================================================
