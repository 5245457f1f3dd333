------------------------------ MODULE TaskLeases ------------------------------
(***************************************************************************)
(* Rows of task_leases: who owns a lease and whether lease_expires_at is   *)
(* still ahead.  Every claim draws an owner id of its own.                 *)
(***************************************************************************)
EXTENDS Naturals

CONSTANT Owners   \* the ids claims draw; one still in use is not drawn again

ASSUME OwnersAssumption == Owners \subseteq Nat \ {0}

NoOwner == 0
NoLease == [owner |-> NoOwner, live |-> FALSE]

LeaseRow == [owner : Owners \cup {NoOwner}, live : BOOLEAN]

\* Mutant: a lease is taken over while it is still live.
AcquirableLive(l, o) == l.owner # o

\* try_acquire: an UPDATE of an expired row or of o's own, else an INSERT that
\* the primary key lets through only when there is no row.
Acquirable(l, o) == l.owner = NoOwner \/ ~l.live \/ l.owner = o

\* A new owner id: equality is all that is ever asked of one.
Drawn(used) == IF Owners \subseteq used THEN {} ELSE {CHOOSE o \in Owners : o \notin used}

Acquired(o) == [owner |-> o, live |-> TRUE]

\* is_owned, renew and the EXISTS of save_fenced.
Owned(l, o) == l.owner = o /\ l.live

\* release deletes the row only under its owner.
Released(l, o) == IF l.owner = o THEN NoLease ELSE l

Expired(l) == [l EXCEPT !.live = FALSE]
==============================================================================
