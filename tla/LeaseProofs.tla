---------------------------- MODULE LeaseProofs ----------------------------
(***************************************************************************)
(* A lease excludes: for the tick of a schedule and for a dream, whatever  *)
(* the processes, owner ids, editors and requests are.  What each lease    *)
(* protects follows: no edit of a schedule is written over an unseen one,  *)
(* and nobody else ends the dream of a live worker.                        *)
(***************************************************************************)
EXTENDS MCServices, TLAPS

\* Whatever the services do together, each of them takes its own steps.
LEMMA ServicesApart ==
  /\ Init => TickInit /\ DreamInit
  /\ [Next]_vars => [TickNext]_tickVars /\ [DreamNext]_dreamVars
<1>1. Init => TickInit /\ DreamInit
  BY DEF Init
<1>2. ASSUME [Next]_vars
      PROVE  [TickNext]_tickVars /\ [DreamNext]_dreamVars
  BY <1>2, Zenon DEF Next, vars, TickNext
<1> QED BY <1>1, <1>2

\* A drawn owner id is one of the ids, and nobody uses it.
LEMMA DrawnIsNew ==
  ASSUME NEW used, NEW o \in Drawn(used)
  PROVE  o \in Owners /\ o \notin used /\ o # NoOwner
BY OwnersAssumption DEF Drawn, NoOwner

------------------------------------------------------------------------------
(* The tick of a schedule. *)

TickPc == {"idle", "reading", "submitting", "waiting", "creating", "committing",
           "enqueueing", "releasing"}
EditPc == {"idle", "opened", "syncing", "synced"}

TickTypeOK ==
  /\ tickLease \in LeaseRow
  /\ tick \in [TickProcs -> [pc : TickPc, owner : Owners \cup {NoOwner}, late : BOOLEAN]]
  /\ timetable \in [revision : Nat, enabled : BOOLEAN, synced : Nat,
                    editor : Editors \cup {0}]
  /\ jobs \in [TickProcs -> Nat]
  /\ edit \in [Editors -> [pc : EditPc, seen : Nat, enabled : BOOLEAN]]
  /\ account \in {"free", "watch", "analysis"}
  /\ heldUp \in BOOLEAN

Leading(p) == tick[p].pc \notin {"idle", "releasing"}

\* Two ticks never go by one owner id, even when one of them is only about to
\* give its lease back.
TickIdsDiffer ==
  \A p, q \in TickProcs :
    tick[p].pc # "idle" /\ tick[q].pc # "idle" /\ tick[p].owner = tick[q].owner => p = q

TickIdsReal == \A p \in TickProcs : tick[p].pc # "idle" => tick[p].owner # NoOwner

LeadersOwn == ~heldUp => \A p \in TickProcs : Leading(p) => Owned(tickLease, tick[p].owner)

TickInv == TickTypeOK /\ TickIdsDiffer /\ TickIdsReal /\ LeadersOwn

\* The schedules start in the invariant.
LEMMA TickStarts == TickInit => TickInv
<1> SUFFICES ASSUME TickInit PROVE TickInv
  OBVIOUS
<1>1. tickLease \in LeaseRow
  BY DEF TickInit, NoLease, LeaseRow
<1>2. \A p \in TickProcs : tick[p] = IdleTick /\ tick[p].pc = "idle"
  BY DEF TickInit, IdleTick
<1>3. TickTypeOK
  BY <1>1 DEF TickInit, TickTypeOK, IdleTick, NoEdit, TickPc, EditPc
<1> QED BY <1>2, <1>3 DEF TickInv, TickIdsDiffer, TickIdsReal, LeadersOwn, Leading

\* A tick that only goes on keeps its owner id; one that led not before does
\* not lead now.
LEMMA TickGoesOn ==
  ASSUME TickInv, NEW p \in TickProcs, NEW pc \in TickPc \ {"idle"},
         tick[p].pc # "idle", Leading(p) \/ pc = "releasing",
         tick' = [tick EXCEPT ![p].pc = pc],
         account' \in {"free", "watch", "analysis"},
         UNCHANGED <<tickLease, timetable, jobs, edit, heldUp>>
  PROVE  TickInv'
<1>1. /\ tick'[p] = [tick[p] EXCEPT !.pc = pc]
      /\ \A q \in TickProcs : q # p => tick'[q] = tick[q]
      /\ \A q \in TickProcs : tick'[q].owner = tick[q].owner
  BY DEF TickInv, TickTypeOK
<1>2. TickTypeOK'
  <2>1. [tick[p] EXCEPT !.pc = pc] \in [pc : TickPc, owner : Owners \cup {NoOwner},
                                        late : BOOLEAN]
    BY DEF TickInv, TickTypeOK
  <2> QED BY <2>1 DEF TickInv, TickTypeOK
<1>3. \A q \in TickProcs : /\ tick'[q].pc # "idle" => tick[q].pc # "idle"
                           /\ Leading(q)' => Leading(q)
  BY <1>1 DEF TickInv, TickTypeOK, Leading
<1>4. (TickIdsDiffer /\ TickIdsReal)'
  BY <1>1, <1>3 DEF TickInv, TickIdsDiffer, TickIdsReal
<1>5. LeadersOwn'
  BY <1>1, <1>3 DEF TickInv, LeadersOwn, Owned
<1> QED BY <1>2, <1>4, <1>5 DEF TickInv

\* A step that leaves the leases and the ticks alone leaves them in order.
LEMMA TickRests ==
  ASSUME TickInv, TickTypeOK', UNCHANGED <<tickLease, tick, heldUp>>
  PROVE  TickInv'
BY DEF TickInv, TickIdsDiffer, TickIdsReal, LeadersOwn, Leading, Owned

\* A tick starts only where no other leads, under an owner id of its own.
LEMMA TickFiresInv ==
  ASSUME TickInv, NEW p \in TickProcs, TickFires(p)
  PROVE  TickInv'
<1>1. PICK owner \in Drawn({tickLease.owner} \cup {tick[q].owner : q \in TickProcs}) :
        /\ Acquirable(tickLease, owner)
        /\ tickLease' = Acquired(owner)
        /\ tick' = [tick EXCEPT ![p] = [pc |-> "reading", owner |-> owner, late |-> FALSE]]
  BY DEF TickFires
<1>2. /\ owner \in Owners /\ owner # NoOwner /\ owner # tickLease.owner
      /\ \A q \in TickProcs : owner # tick[q].owner
  BY DrawnIsNew
<1>3. /\ tick'[p] = [pc |-> "reading", owner |-> owner, late |-> FALSE]
      /\ \A q \in TickProcs : q # p => tick'[q] = tick[q]
      /\ tickLease' = [owner |-> owner, live |-> TRUE]
      /\ heldUp' = heldUp
  BY <1>1 DEF TickInv, TickTypeOK, Acquired, TickFires
<1>4. TickTypeOK'
  <2>1. tickLease' \in LeaseRow
    BY <1>2, <1>3 DEF LeaseRow
  <2>2. tick' \in [TickProcs -> [pc : TickPc, owner : Owners \cup {NoOwner}, late : BOOLEAN]]
    BY <1>1, <1>2 DEF TickInv, TickTypeOK, TickPc
  <2> QED BY <2>1, <2>2 DEF TickFires, TickInv, TickTypeOK
<1>5. (TickIdsDiffer /\ TickIdsReal)'
  BY <1>2, <1>3 DEF TickInv, TickIdsDiffer, TickIdsReal
<1>6. ASSUME ~heldUp, NEW q \in TickProcs, q # p PROVE ~Leading(q)
  BY <1>1, <1>2, <1>6 DEF TickInv, LeadersOwn, Owned, Acquirable, TickIdsReal, Leading
<1>7. LeadersOwn'
  BY <1>3, <1>6 DEF LeadersOwn, Leading, Owned
<1> QED BY <1>4, <1>5, <1>7 DEF TickInv

\* A tick gives back only a lease of its own, and nobody else leads by it.
LEMMA TickReleasesInv ==
  ASSUME TickInv, NEW p \in TickProcs, TickReleases(p)
  PROVE  TickInv'
<1>1. /\ tick'[p] = IdleTick
      /\ \A q \in TickProcs : q # p => tick'[q] = tick[q]
      /\ tickLease' \in {Released(tickLease, tick[p].owner), tickLease}
      /\ heldUp' = heldUp
  BY DEF TickInv, TickTypeOK, TickReleases
<1>2. TickTypeOK'
  <2>1. tickLease' \in LeaseRow
    <3>1. NoLease \in LeaseRow
      BY DEF NoLease, LeaseRow
    <3> QED BY <1>1, <3>1 DEF Released, TickInv, TickTypeOK
  <2>2. tick' \in [TickProcs -> [pc : TickPc, owner : Owners \cup {NoOwner}, late : BOOLEAN]]
    BY DEF TickInv, TickTypeOK, TickReleases, IdleTick, TickPc
  <2> QED BY <2>1, <2>2 DEF TickInv, TickTypeOK, TickReleases
<1>3. (TickIdsDiffer /\ TickIdsReal)'
  BY <1>1 DEF TickInv, TickIdsDiffer, TickIdsReal, IdleTick
<1>4. ASSUME NEW q \in TickProcs, q # p, Leading(q), ~heldUp
      PROVE  Owned(tickLease', tick[q].owner)
  <2>1. Owned(tickLease, tick[q].owner) /\ tick[q].owner # tick[p].owner
    BY <1>4 DEF TickInv, LeadersOwn, TickIdsDiffer, Leading, TickReleases
  <2> QED BY <1>1, <2>1 DEF Released, Owned
<1>5. LeadersOwn'
  BY <1>1, <1>4 DEF LeadersOwn, Leading, IdleTick, Owned
<1> QED BY <1>2, <1>3, <1>5 DEF TickInv

\* The lease runs out on its own only when nobody leads by it; a leader held up
\* past it is on record, and a crash ends the tick of the process.
LEMMA TickLapsesInv ==
  ASSUME TickInv, TickLeaseEnds \/ TickStalls \/ \E p \in TickProcs : TickCrash(p)
  PROVE  TickInv'
<1>1. CASE TickLeaseEnds \/ TickStalls
  <2>1. tickLease' = Expired(tickLease) /\ UNCHANGED tick
    BY <1>1 DEF TickLeaseEnds, TickStalls
  <2>2. TickTypeOK'
    <3>1. tickLease' \in LeaseRow
      BY <2>1 DEF Expired, LeaseRow, TickInv, TickTypeOK
    <3> QED BY <1>1, <2>1, <3>1 DEF TickInv, TickTypeOK, TickLeaseEnds, TickStalls
  <2>3. LeadersOwn'
    BY <1>1, <2>1 DEF TickInv, LeadersOwn, TickLeaseEnds, TickStalls, Leaders, Owned, Leading
  <2> QED BY <2>1, <2>2, <2>3 DEF TickInv, TickIdsDiffer, TickIdsReal
<1>2. ASSUME NEW p \in TickProcs, TickCrash(p) PROVE TickInv'
  <2>1. /\ tick'[p] = IdleTick
        /\ \A q \in TickProcs : q # p => tick'[q] = tick[q]
        /\ tickLease' = tickLease /\ heldUp' = heldUp
    BY <1>2 DEF TickInv, TickTypeOK, TickCrash
  <2>2. TickTypeOK'
    <3>1. tick' \in [TickProcs -> [pc : TickPc, owner : Owners \cup {NoOwner}, late : BOOLEAN]]
      BY <1>2 DEF TickInv, TickTypeOK, TickCrash, IdleTick, TickPc
    <3>2. jobs' \in [TickProcs -> Nat]
      BY <1>2 DEF TickInv, TickTypeOK, TickCrash
    <3>3. edit' \in [Editors -> [pc : EditPc, seen : Nat, enabled : BOOLEAN]]
      BY <1>2 DEF TickInv, TickTypeOK, TickCrash, NoEdit, EditPc
    <3> QED BY <1>2, <3>1, <3>2, <3>3 DEF TickInv, TickTypeOK, TickCrash
  <2>3. (TickIdsDiffer /\ TickIdsReal /\ LeadersOwn)'
    BY <2>1 DEF TickInv, TickIdsDiffer, TickIdsReal, LeadersOwn, Leading, Owned, IdleTick
  <2> QED BY <2>2, <2>3 DEF TickInv
<1> QED BY <1>1, <1>2

\* What a tick does between its first step and its release.
LEMMA TickMovesInv ==
  ASSUME TickInv, NEW p \in TickProcs,
         \/ TickReads(p) \/ TickSubmits(p) \/ TickWaits(p) \/ TickGuards(p) \/ TickCommits(p)
         \/ TickEnqueues(p) \/ TickLosesLease(p)
  PROVE  TickInv'
<1>1. Leading(p) /\ tick[p].pc # "idle"
  BY DEF TickReads, TickSubmits, TickWaits, TickGuards, TickCommits, TickEnqueues, TickLosesLease,
         Leading
<1>2. \/ Goes(p, "submitting") \/ Goes(p, "releasing") \/ Goes(p, "creating")
      \/ Goes(p, "waiting") \/ Goes(p, "committing")
      \/ /\ tick' = [tick EXCEPT ![p].pc = "enqueueing"] /\ account' = "analysis"
         /\ UNCHANGED <<tickLease, timetable, jobs, edit, heldUp>>
  BY DEF TickReads, TickSubmits, TickWaits, TickGuards, TickCommits, TickEnqueues, TickLosesLease,
         TickCollides
<1>3. PICK pc \in TickPc \ {"idle"} :
        /\ tick' = [tick EXCEPT ![p].pc = pc]
        /\ account' \in {"free", "watch", "analysis"}
        /\ UNCHANGED <<tickLease, timetable, jobs, edit, heldUp>>
  BY <1>2 DEF Goes, TickPc, TickInv, TickTypeOK
<1> QED BY <1>1, <1>3, TickGoesOn

\* The deadline only marks the tick as late.
LEMMA TickDeadlineInv ==
  ASSUME TickInv, NEW p \in TickProcs, TickDeadline(p)
  PROVE  TickInv'
<1>1. /\ TickTypeOK'
      /\ \A q \in TickProcs : tick'[q].pc = tick[q].pc /\ tick'[q].owner = tick[q].owner
      /\ tickLease' = tickLease /\ heldUp' = heldUp
  BY DEF TickDeadline, TickInv, TickTypeOK
<1> QED BY <1>1 DEF TickInv, TickIdsDiffer, TickIdsReal, LeadersOwn, Leading, Owned

\* Edits have their own rows.
LEMMA EditsInv ==
  ASSUME TickInv, NEW e \in Editors,
         EditOpens(e) \/ EditCommits(e) \/ EditSyncs(e) \/ EditSavesSync(e)
  PROVE  TickInv'
<1>1. UNCHANGED <<tickLease, tick, account, heldUp>>
  BY DEF EditOpens, EditCommits, EditSyncs, EditSavesSync
<1>0. NoEdit \in [pc : EditPc, seen : Nat, enabled : BOOLEAN]
  BY DEF NoEdit, EditPc
<1>2. CASE EditOpens(e)
  <2>1. edit' \in [Editors -> [pc : EditPc, seen : Nat, enabled : BOOLEAN]]
    BY <1>2 DEF EditOpens, TickInv, TickTypeOK, NoEdit, EditPc
  <2> QED BY <1>1, <1>2, <2>1, TickRests DEF EditOpens, TickInv, TickTypeOK
<1>3. CASE EditCommits(e)
  <2>1. /\ timetable' \in [revision : Nat, enabled : BOOLEAN, synced : Nat,
                           editor : Editors \cup {0}]
        /\ edit' \in [Editors -> [pc : EditPc, seen : Nat, enabled : BOOLEAN]]
    <3>1. CASE StillStands(e)
      <4>1. PICK enabled \in BOOLEAN :
              /\ timetable' = [timetable EXCEPT !.revision = edit[e].seen + 1,
                                                !.enabled = enabled, !.editor = e]
              /\ edit' = [edit EXCEPT ![e] = [pc |-> "syncing", seen |-> edit[e].seen + 1,
                                               enabled |-> enabled]]
        BY <1>3, <3>1 DEF EditCommits
      <4>2. [pc |-> "syncing", seen |-> edit[e].seen + 1, enabled |-> enabled]
              \in [pc : EditPc, seen : Nat, enabled : BOOLEAN]
        BY DEF TickInv, TickTypeOK, EditPc
      <4> QED BY <4>1, <4>2 DEF TickInv, TickTypeOK
    <3>2. CASE ~StillStands(e)
      BY <1>0, <1>3, <3>2 DEF EditCommits, TickInv, TickTypeOK
    <3> QED BY <3>1, <3>2
  <2> QED BY <1>1, <1>3, <2>1, TickRests DEF EditCommits, TickInv, TickTypeOK
<1>4. CASE EditSyncs(e)
  <2>1. jobs' \in [TickProcs -> Nat]
    BY <1>4 DEF EditSyncs, TickInv, TickTypeOK
  <2>2. edit' \in [Editors -> [pc : EditPc, seen : Nat, enabled : BOOLEAN]]
    <3>1. CASE edit' = [edit EXCEPT ![e].pc = "synced"]
      BY <3>1 DEF TickInv, TickTypeOK, EditPc
    <3>2. CASE edit' = [edit EXCEPT ![e] = NoEdit]
      BY <1>0, <3>2 DEF TickInv, TickTypeOK
    <3> QED BY <1>4, <3>1, <3>2 DEF EditSyncs
  <2> QED BY <1>1, <1>4, <2>1, <2>2, TickRests DEF EditSyncs, TickInv, TickTypeOK
<1>5. CASE EditSavesSync(e)
  <2>1. timetable' \in [revision : Nat, enabled : BOOLEAN, synced : Nat,
                        editor : Editors \cup {0}]
    BY <1>5 DEF EditSavesSync, TickInv, TickTypeOK
  <2>2. edit' \in [Editors -> [pc : EditPc, seen : Nat, enabled : BOOLEAN]]
    BY <1>5 DEF EditSavesSync, TickInv, TickTypeOK, NoEdit, EditPc
  <2> QED BY <1>1, <1>5, <2>1, <2>2, TickRests DEF EditSavesSync, TickInv, TickTypeOK
<1> QED BY <1>2, <1>3, <1>4, <1>5

\* Every step of the schedules keeps the invariant.
LEMMA TickStepInv == TickInv /\ [TickNext]_tickVars => TickInv'
<1> SUFFICES ASSUME TickInv, [TickNext]_tickVars PROVE TickInv'
  OBVIOUS
<1>1. CASE UNCHANGED tickVars
  BY <1>1, TickRests DEF tickVars, TickInv, TickTypeOK
<1>2. CASE LeaderNext
  <2>1. ASSUME NEW p \in TickProcs,
               TickFires(p) \/ TickStep(p) \/ TickDeadline(p) \/ TickLosesLease(p)
        PROVE  TickInv'
    BY <2>1, TickFiresInv, TickReleasesInv, TickMovesInv, TickDeadlineInv DEF TickStep
  <2>2. CASE AccountMoves
    BY <2>2, TickRests DEF AccountMoves, TickInv, TickTypeOK
  <2> QED BY <1>2, <2>1, <2>2, TickLapsesInv DEF LeaderNext
<1>3. CASE EditNext
  BY <1>3, EditsInv DEF EditNext
<1>4. CASE \E p \in TickProcs : TickCrash(p)
  BY <1>4, TickLapsesInv
<1> QED BY <1>1, <1>2, <1>3, <1>4 DEF TickNext

\* While ticks that work own the lease there is only one of them.
LEMMA LeaderIsAlone == TickInv => LeaderAlone
BY DEF TickInv, LeaderAlone, LeadersOwn, Leading, TickIdsDiffer, Owned

\* A schedule's editor changes only with an edit that read the current revision.
LEMMA EditStacks ==
  ASSUME TickInv, [TickNext]_tickVars, timetable'.editor # timetable.editor
  PROVE  timetable'.revision = timetable.revision + 1
<1>1. PICK e \in Editors : EditCommits(e) \/ EditSavesSync(e)
  <2>1. ASSUME UNCHANGED timetable PROVE FALSE
    BY <2>1
  <2> QED BY <2>1 DEF TickNext, tickVars, LeaderNext, EditNext, TickFires, TickStep, TickDeadline,
         TickLosesLease, TickLeaseEnds, TickStalls, AccountMoves, TickCrash, TickReads,
         TickSubmits, TickWaits, TickGuards, TickCommits, TickEnqueues, TickReleases,
         TickCollides, Goes, EditOpens, EditSyncs
<1>2. ~EditSavesSync(e)
  BY DEF EditSavesSync, TickInv, TickTypeOK
<1> QED BY ZenonT(30), <1>1, <1>2 DEF EditCommits, StillStands, TickInv, TickTypeOK


------------------------------------------------------------------------------
(* The dream of a day. *)

SleeperPc == {"idle", "starting", "dreaming", "releasing"}
SleeperRow == [pc : SleeperPc, owner : Owners \cup {NoOwner}]

DreamTypeOK ==
  /\ dream \in DreamStatus
  /\ dreamLease \in LeaseRow
  /\ sleeper \in [DreamProcs -> SleeperRow]
  /\ queued \in [DreamProcs -> BOOLEAN]
  /\ wish \in [Requests -> DreamStatus \cup {"none"}]
  /\ overslept \in BOOLEAN

Working(p) == sleeper[p].pc \notin {"idle", "releasing"}

\* Two claims never go by one owner id.
DreamIdsDiffer ==
  \A p, q \in DreamProcs :
    sleeper[p].pc # "idle" /\ sleeper[q].pc # "idle" /\ sleeper[p].owner = sleeper[q].owner
      => p = q

DreamIdsReal == \A p \in DreamProcs : sleeper[p].pc # "idle" => sleeper[p].owner # NoOwner

WorkersOwn ==
  ~overslept => \A p \in DreamProcs : Working(p) => Owned(dreamLease, sleeper[p].owner)

DreamInv == DreamTypeOK /\ DreamIdsDiffer /\ DreamIdsReal /\ WorkersOwn

\* The dreams start in the invariant.
LEMMA DreamStartsInv == DreamInit => DreamInv
<1> SUFFICES ASSUME DreamInit PROVE DreamInv
  OBVIOUS
<1>1. dreamLease \in LeaseRow
  BY DEF DreamInit, NoLease, LeaseRow
<1>2. \A p \in DreamProcs : sleeper[p] = Awake /\ sleeper[p].pc = "idle"
  BY DEF DreamInit, Awake
<1>3. DreamTypeOK
  BY <1>1 DEF DreamInit, DreamTypeOK, Awake, SleeperPc, SleeperRow, DreamStatus
<1> QED BY <1>2, <1>3 DEF DreamInv, DreamIdsDiffer, DreamIdsReal, WorkersOwn, Working

\* A step that leaves the lease and the workers alone leaves them in order.
LEMMA DreamRests ==
  ASSUME DreamInv, DreamTypeOK', UNCHANGED <<dreamLease, sleeper, overslept>>
  PROVE  DreamInv'
BY DEF DreamInv, DreamIdsDiffer, DreamIdsReal, WorkersOwn, Working, Owned

\* A worker that goes on keeps its owner id.
LEMMA SleeperGoesOn ==
  ASSUME DreamInv, NEW p \in DreamProcs, NEW pc \in SleeperPc \ {"idle"}, Working(p),
         Sleeps(p, pc), dream' \in DreamStatus,
         UNCHANGED <<dreamLease, queued, wish, overslept>>
  PROVE  DreamInv'
<1>1. /\ sleeper'[p] = [sleeper[p] EXCEPT !.pc = pc]
      /\ \A q \in DreamProcs : q # p => sleeper'[q] = sleeper[q]
      /\ \A q \in DreamProcs : sleeper'[q].owner = sleeper[q].owner
  BY DEF DreamInv, DreamTypeOK, SleeperRow, Sleeps
<1>2. DreamTypeOK'
  BY DEF DreamInv, DreamTypeOK, SleeperRow, Sleeps
<1>3. \A q \in DreamProcs : /\ sleeper'[q].pc # "idle" => sleeper[q].pc # "idle"
                            /\ Working(q)' => Working(q)
  BY <1>1 DEF DreamInv, DreamTypeOK, SleeperRow, Working
<1>4. (DreamIdsDiffer /\ DreamIdsReal)'
  BY <1>1, <1>3 DEF DreamInv, DreamIdsDiffer, DreamIdsReal
<1>5. WorkersOwn'
  BY <1>1, <1>3 DEF DreamInv, WorkersOwn, Owned
<1> QED BY <1>2, <1>4, <1>5 DEF DreamInv

\* Nobody acquires the lease of another that owns it.
LEMMA NotOverALiveLease ==
  ASSUME DreamInv, NEW p \in DreamProcs, sleeper[p].pc # "idle",
         Owned(dreamLease, sleeper[p].owner), NEW owner \in NewClaim,
         Acquirable(dreamLease, owner)
  PROVE  FALSE
<1>1. owner # dreamLease.owner
  BY DrawnIsNew DEF NewClaim
<1> QED BY <1>1 DEF Owned, Acquirable, DreamInv, DreamIdsReal

\* A claim starts work only where no other works, under an owner id of its own.
LEMMA DreamClaimInv ==
  ASSUME DreamInv, NEW p \in DreamProcs, DreamClaim(p)
  PROVE  DreamInv'
<1>1. PICK owner \in NewClaim :
        IF Acquirable(dreamLease, owner)
        THEN /\ dreamLease' = Acquired(owner)
             /\ sleeper' = [sleeper EXCEPT ![p] = [pc |-> "starting", owner |-> owner]]
        ELSE UNCHANGED <<dreamLease, sleeper>>
  BY DEF DreamClaim
<1>2. /\ owner \in Owners /\ owner # NoOwner /\ owner # dreamLease.owner
      /\ \A q \in DreamProcs : owner # sleeper[q].owner
  BY DrawnIsNew DEF NewClaim
<1>3. queued' \in [DreamProcs -> BOOLEAN] /\ UNCHANGED <<dream, wish, overslept>>
  BY DEF DreamClaim, DreamInv, DreamTypeOK
<1>4. CASE ~Acquirable(dreamLease, owner)
  BY <1>1, <1>3, <1>4, DreamRests DEF DreamInv, DreamTypeOK
<1>5. CASE Acquirable(dreamLease, owner)
  <2>1. /\ sleeper'[p] = [pc |-> "starting", owner |-> owner]
        /\ \A q \in DreamProcs : q # p => sleeper'[q] = sleeper[q]
        /\ dreamLease' = [owner |-> owner, live |-> TRUE]
    BY <1>1, <1>5 DEF DreamInv, DreamTypeOK, Acquired
  <2>2. DreamTypeOK'
    <3>1. dreamLease' \in LeaseRow
      BY <1>2, <2>1 DEF LeaseRow
    <3>2. sleeper' \in [DreamProcs -> SleeperRow]
      BY <1>1, <1>2, <1>5 DEF DreamInv, DreamTypeOK, SleeperRow, SleeperPc
    <3> QED BY <1>3, <3>1, <3>2 DEF DreamInv, DreamTypeOK
  <2>3. (DreamIdsDiffer /\ DreamIdsReal)'
    BY <1>2, <2>1 DEF DreamInv, DreamIdsDiffer, DreamIdsReal
  <2>4. ASSUME ~overslept, NEW q \in DreamProcs, q # p PROVE ~Working(q)
    BY <1>5, <2>4, NotOverALiveLease DEF DreamInv, WorkersOwn, Working
  <2>5. WorkersOwn'
    BY <1>3, <2>1, <2>4 DEF WorkersOwn, Working, Owned
  <2> QED BY <2>2, <2>3, <2>5 DEF DreamInv
<1> QED BY <1>4, <1>5

\* A worker gives back only a lease of its own.
LEMMA DreamReleasesInv ==
  ASSUME DreamInv, NEW p \in DreamProcs, DreamReleases(p)
  PROVE  DreamInv'
<1>1. /\ sleeper'[p] = Awake
      /\ \A q \in DreamProcs : q # p => sleeper'[q] = sleeper[q]
      /\ dreamLease' \in {Released(dreamLease, sleeper[p].owner), dreamLease}
      /\ UNCHANGED <<dream, queued, wish, overslept>>
  BY DEF DreamInv, DreamTypeOK, DreamReleases
<1>2. DreamTypeOK'
  <2>1. NoLease \in LeaseRow /\ Awake \in SleeperRow
    BY DEF NoLease, LeaseRow, Awake, SleeperRow, SleeperPc
  <2>2. dreamLease' \in LeaseRow
    BY <1>1, <2>1 DEF Released, DreamInv, DreamTypeOK
  <2>3. sleeper' \in [DreamProcs -> SleeperRow]
    BY <2>1 DEF DreamReleases, DreamInv, DreamTypeOK
  <2> QED BY <1>1, <2>2, <2>3 DEF DreamInv, DreamTypeOK
<1>3. (DreamIdsDiffer /\ DreamIdsReal)'
  BY <1>1 DEF DreamInv, DreamIdsDiffer, DreamIdsReal, Awake
<1>4. ASSUME NEW q \in DreamProcs, q # p, Working(q), ~overslept
      PROVE  Owned(dreamLease', sleeper[q].owner)
  <2>1. Owned(dreamLease, sleeper[q].owner) /\ sleeper[q].owner # sleeper[p].owner
    BY <1>4 DEF DreamInv, WorkersOwn, DreamIdsDiffer, Working, DreamReleases
  <2> QED BY <1>1, <2>1 DEF Released, Owned
<1>5. WorkersOwn'
  BY <1>1, <1>4 DEF WorkersOwn, Working, Awake, Owned
<1> QED BY <1>2, <1>3, <1>5 DEF DreamInv

\* Recovery takes only a lease that nobody owns any more.
LEMMA DreamRecoveryInv ==
  ASSUME DreamInv, NEW p \in DreamProcs, DreamRecovery(p)
  PROVE  DreamInv'
<1>1. CASE Recovers(p) /\ dream' = "failed" /\ dreamLease' = NoLease /\ UNCHANGED queued
  <2>1. UNCHANGED <<sleeper, wish, overslept>>
    BY DEF DreamRecovery
  <2>2. DreamTypeOK'
    <3>1. NoLease \in LeaseRow
      BY DEF NoLease, LeaseRow
    <3> QED BY <1>1, <2>1, <3>1 DEF DreamInv, DreamTypeOK, DreamStatus
  <2>3. ~overslept => \A q \in DreamProcs : ~Working(q)
    BY <1>1, NotOverALiveLease DEF DreamInv, WorkersOwn, Working, Recovers
  <2>4. WorkersOwn'
    BY <2>1, <2>3 DEF WorkersOwn, Working
  <2> QED BY <2>1, <2>2, <2>4 DEF DreamInv, DreamIdsDiffer, DreamIdsReal
<1>2. CASE queued' = [queued EXCEPT ![p] = TRUE] /\ UNCHANGED <<dream, dreamLease>>
  BY <1>2, DreamRests DEF DreamRecovery, DreamInv, DreamTypeOK
<1> QED BY <1>1, <1>2 DEF DreamRecovery

\* The lease runs out, a worker is held up past it, a process dies.
LEMMA DreamLapsesInv ==
  ASSUME DreamInv, DreamLeaseEnds \/ DreamStalls \/ \E p \in DreamProcs : DreamCrash(p)
  PROVE  DreamInv'
<1>1. CASE DreamLeaseEnds \/ DreamStalls
  <2>1. dreamLease' = Expired(dreamLease) /\ UNCHANGED <<dream, sleeper, queued, wish>>
    BY <1>1 DEF DreamLeaseEnds, DreamStalls
  <2>2. DreamTypeOK'
    <3>1. dreamLease' \in LeaseRow
      BY <2>1 DEF Expired, LeaseRow, DreamInv, DreamTypeOK
    <3> QED BY <1>1, <2>1, <3>1 DEF DreamInv, DreamTypeOK, DreamLeaseEnds, DreamStalls
  <2>3. WorkersOwn'
    BY <1>1, <2>1 DEF DreamInv, WorkersOwn, DreamLeaseEnds, DreamStalls, Sleepers, Owned, Working
  <2> QED BY <2>1, <2>2, <2>3 DEF DreamInv, DreamIdsDiffer, DreamIdsReal
<1>2. ASSUME NEW p \in DreamProcs, DreamCrash(p) PROVE DreamInv'
  <2>1. /\ sleeper'[p] = Awake
        /\ \A q \in DreamProcs : q # p => sleeper'[q] = sleeper[q]
        /\ UNCHANGED <<dream, dreamLease, wish, overslept>>
    BY <1>2 DEF DreamInv, DreamTypeOK, DreamCrash
  <2>2. DreamTypeOK'
    <3>1. sleeper' \in [DreamProcs -> SleeperRow]
      BY <1>2 DEF DreamInv, DreamTypeOK, DreamCrash, Awake, SleeperRow, SleeperPc
    <3> QED BY <1>2, <2>1, <3>1 DEF DreamInv, DreamTypeOK, DreamCrash
  <2>3. (DreamIdsDiffer /\ DreamIdsReal /\ WorkersOwn)'
    BY <2>1 DEF DreamInv, DreamIdsDiffer, DreamIdsReal, WorkersOwn, Working, Owned, Awake
  <2> QED BY <2>2, <2>3 DEF DreamInv
<1> QED BY <1>1, <1>2

\* Preparing and deleting touch the row and the queues only.
LEMMA WishesInv ==
  ASSUME DreamInv, DeleteDream \/ \E q \in Requests : WishReads(q) \/ WishWrites(q)
  PROVE  DreamInv'
<1>1. CASE DeleteDream
  BY <1>1, DreamRests DEF DeleteDream, DreamInv, DreamTypeOK, DreamStatus
<1>2. ASSUME NEW q \in Requests, WishReads(q) PROVE DreamInv'
  <2>1. dream' \in DreamStatus /\ wish' \in [Requests -> DreamStatus \cup {"none"}]
    BY <1>2 DEF WishReads, DreamInv, DreamTypeOK, DreamStatus
  <2> QED BY <1>2, <2>1, DreamRests DEF WishReads, DreamInv, DreamTypeOK
<1>3. ASSUME NEW q \in Requests, WishWrites(q) PROVE DreamInv'
  <2>1. dream' \in DreamStatus /\ wish' \in [Requests -> DreamStatus \cup {"none"}]
    BY <1>3 DEF WishWrites, DreamInv, DreamTypeOK, DreamStatus
  <2>2. queued' \in [DreamProcs -> BOOLEAN]
    BY <1>3 DEF WishWrites, DreamInv, DreamTypeOK
  <2> QED BY <1>3, <2>1, <2>2, DreamRests DEF WishWrites, DreamInv, DreamTypeOK
<1> QED BY <1>1, <1>2, <1>3

\* Every step of the dreams keeps the invariant.
LEMMA DreamStepInv == DreamInv /\ [DreamNext]_dreamVars => DreamInv'
<1> SUFFICES ASSUME DreamInv, [DreamNext]_dreamVars PROVE DreamInv'
  OBVIOUS
<1>1. CASE UNCHANGED dreamVars
  BY <1>1, DreamRests DEF dreamVars, DreamInv, DreamTypeOK
<1>2. ASSUME NEW p \in DreamProcs, DreamStarts(p) PROVE DreamInv'
  <2>1. /\ Sleeps(p, "dreaming") \/ Sleeps(p, "releasing")
        /\ dream' \in DreamStatus /\ Working(p)
        /\ UNCHANGED <<dreamLease, queued, wish, overslept>>
    BY <1>2 DEF DreamStarts, Working, DreamInv, DreamTypeOK, DreamStatus
  <2> QED BY <2>1, SleeperGoesOn DEF SleeperPc
<1>3. ASSUME NEW p \in DreamProcs, DreamEnds(p) PROVE DreamInv'
  <2>1. /\ Sleeps(p, "releasing")
        /\ dream' \in DreamStatus /\ Working(p)
        /\ UNCHANGED <<dreamLease, queued, wish, overslept>>
    BY <1>3 DEF DreamEnds, Working, DreamInv, DreamTypeOK, DreamStatus, Ended
  <2> QED BY <2>1, SleeperGoesOn DEF SleeperPc
<1> QED BY <1>1, <1>2, <1>3, WishesInv, DreamLapsesInv, DreamClaimInv, DreamReleasesInv,
           DreamRecoveryInv DEF DreamNext, DreamStep

\* While workers own the lease there is only one of them.
LEMMA DreamerIsOne == DreamInv => OneDreamer
BY DEF DreamInv, OneDreamer, WorkersOwn, Working, DreamIdsDiffer, Owned

\* The dream of a worker under a live lease is ended by nobody else.
LEMMA OthersLeaveIt ==
  ASSUME DreamInv, [DreamNext]_dreamVars, NEW p \in DreamProcs,
         sleeper[p].pc = "dreaming", Owned(dreamLease, sleeper[p].owner), dream = "running",
         sleeper'[p] = sleeper[p]
  PROVE  dream' \in {"running", "pending", "absent"}
<1>1. ASSUME NEW q \in DreamProcs, DreamEnds(q) PROVE dream' = dream
  <2>1. q # p
    BY <1>1 DEF DreamEnds, Sleeps, DreamInv, DreamTypeOK, SleeperRow
  <2>2. sleeper[q].owner # sleeper[p].owner
    BY <1>1, <2>1 DEF DreamInv, DreamIdsDiffer, DreamEnds
  <2> QED BY <1>1, <2>2 DEF DreamEnds, Fenced, Owned
<1>2. ASSUME NEW q \in DreamProcs, DreamRecovery(q) PROVE dream' = dream
  BY <1>2, NotOverALiveLease DEF DreamRecovery, Recovers
<1>3. ASSUME NEW q \in DreamProcs,
             DreamClaim(q) \/ DreamStarts(q) \/ DreamReleases(q) \/ DreamCrash(q)
      PROVE  dream' \in {dream, "running"}
  BY <1>3 DEF DreamClaim, DreamStarts, DreamReleases, DreamCrash
<1>4. ASSUME NEW q \in Requests, WishReads(q) \/ WishWrites(q)
      PROVE  dream' \in {dream, "pending"}
  BY <1>4 DEF WishReads, WishWrites
<1>5. ASSUME DeleteDream \/ DreamLeaseEnds \/ DreamStalls \/ UNCHANGED dreamVars
      PROVE  dream' \in {dream, "absent"}
  BY <1>5 DEF DeleteDream, DreamLeaseEnds, DreamStalls, dreamVars
<1> QED BY <1>1, <1>2, <1>3, <1>4, <1>5 DEF DreamNext, DreamStep

------------------------------------------------------------------------------
(* The services together. *)

\* The invariant of both leases holds in every behaviour of the services.
LEMMA LeasesHold == Spec => [](TickInv /\ DreamInv)
<1>1. Init => TickInv /\ DreamInv
  BY ServicesApart, TickStarts, DreamStartsInv
<1>2. TickInv /\ DreamInv /\ [Next]_vars => (TickInv /\ DreamInv)'
  BY ServicesApart, TickStepInv, DreamStepInv
<1> QED BY <1>1, <1>2, PTL DEF Spec

\* Two processes never lead one schedule and never dream one day's dream, as
\* long as no holder of the lease was held up past its end (_run_as_leader,
\* memory dream _execute, try_acquire, release).
THEOREM LeaseExclusion == Spec => []LeasesExclude
<1>1. TickInv /\ DreamInv => LeasesExclude
  BY LeaderIsAlone, DreamerIsOne DEF LeasesExclude
<1> QED BY <1>1, LeasesHold, PTL

\* Every edit of a schedule that is saved was made on the revision it replaces
\* (update_if_revision).
THEOREM EditsBuildOnEachOther == Spec => EditsStack
<1>1. TickInv /\ [Next]_vars =>
        [timetable'.editor # timetable.editor
           => timetable'.revision = timetable.revision + 1]_tickVars
  BY ServicesApart, EditStacks
<1> QED BY <1>1, LeasesHold, PTL DEF Spec, EditsStack

\* A worker that lost its lease, and a recovery, leave the dream of the worker
\* that has it alone (save_fenced, recover_pending).
THEOREM DreamsEndByTheirOwner == Spec => OthersLeaveItRunning
<1>1. DreamInv /\ [Next]_vars =>
        [\A p \in DreamProcs :
           sleeper[p].pc = "dreaming" /\ Owned(dreamLease, sleeper[p].owner)
             /\ dream = "running" /\ sleeper'[p] = sleeper[p]
             => dream' \in {"running", "pending", "absent"}]_dreamVars
  BY ServicesApart, OthersLeaveIt
<1> QED BY <1>1, LeasesHold, PTL DEF Spec, OthersLeaveItRunning

==============================================================================
