------------------------------ MODULE Memories ------------------------------
(***************************************************************************)
(* Long-term memories: a run's agent creates and revises them, the nightly *)
(* dream also merges and deletes, and both run when they please.  A write  *)
(* reads the row, then updates it if it is still at the version its author *)
(* names; a memory that absorbs others keeps their ids.                    *)
(***************************************************************************)
EXTENDS Naturals, FiniteSets

CONSTANTS
  Memories,      \* ids, given out in order and never again
  Authors,       \* sessions of an agent
  Curators,      \* those of them that may delete: the dream's
  MaxVersion     \* bound: revisions of one memory

ASSUME MemoriesAssumption == Memories \subseteq Nat \ {0} /\ Curators \subseteq Authors

VARIABLES
  memory,    \* memory_items: version 0 where there is no row
  seen,      \* history: the version of each memory its author has last been shown
  writing    \* the write each author has begun
memoryVars == <<memory, seen, writing>>

NoMemory  == [version |-> 0, deleted |-> FALSE, replaces |-> {}]
NoWriting == [pc |-> "idle"]
Live      == {m \in Memories : memory[m].version > 0 /\ ~memory[m].deleted}

MemoryInit ==
  /\ memory = [m \in Memories |-> NoMemory]
  /\ seen = [a \in Authors |-> [m \in Memories |-> 0]]
  /\ writing = [a \in Authors |-> NoWriting]

Tells(a, m, version) == seen' = [seen EXCEPT ![a][m] = version]

\* memory_read and memory_list: live memories with their versions, one by one.
ReadMemory(a) ==
  /\ writing[a] = NoWriting
  /\ \E m \in Live : Tells(a, m, memory[m].version)
  /\ UNCHANGED <<memory, writing>>

\* replaces: nothing, or what its author has been shown.
Sources(a) == {{}, {n \in Memories : seen[a][n] > 0}}

\* _create: one transaction, with the lineage its author names.
CreateMemory(a) ==
  /\ writing[a] = NoWriting
  /\ \E m \in Memories :
       /\ memory[m] = NoMemory /\ \A n \in Memories : n < m => memory[n] # NoMemory
       /\ \E sources \in Sources(a) :
            memory' = [memory EXCEPT
              ![m] = [version |-> 1, deleted |-> FALSE, replaces |-> sources]]
       /\ Tells(a, m, 1)
  /\ UNCHANGED writing

\* _merged_replaces: added to what the row has; a memory is no descendant of its own.
Merged(row, m, sources) == row.replaces \cup (sources \ {m})

\* A write has passed _validate_command and read its row: what it names is what
\* it was shown, and the lineage it will store is computed now.
BeginWrite(a) ==
  /\ writing[a] = NoWriting
  /\ \E m \in Live, operation \in {"update"} \cup (IF a \in Curators THEN {"delete"} ELSE {}),
        sources \in Sources(a) :
       /\ seen[a][m] > 0 /\ memory[m].version < MaxVersion
       /\ operation = "delete" => sources = {}
       /\ writing' = [writing EXCEPT ![a] =
            [pc |-> "read", memory |-> m, operation |-> operation, expected |-> seen[a][m],
             replaces |-> IF sources = {} THEN {} ELSE Merged(memory[m], m, sources),
             merges |-> sources # {}]]
  /\ UNCHANGED <<memory, seen>>

\* Mutant: the version is not part of the update's condition.
StillThere(w) == ~memory[w.memory].deleted

\* The update's WHERE clause.
Matches(w) == ~memory[w.memory].deleted /\ memory[w.memory].version = w.expected

EndWrite(a) ==
  LET w == writing[a]
  IN /\ w.pc = "read"
     /\ writing' = [writing EXCEPT ![a] = NoWriting]
     /\ \/ /\ Matches(w)
           /\ memory' = [memory EXCEPT
                ![w.memory] = [version  |-> @.version + 1,
                               deleted  |-> w.operation = "delete",
                               replaces |-> IF w.merges THEN w.replaces ELSE @.replaces]]
           /\ Tells(a, w.memory, memory[w.memory].version + 1)
        \/ ~Matches(w) /\ UNCHANGED <<memory, seen>>

MemoryNext == \E a \in Authors : ReadMemory(a) \/ CreateMemory(a) \/ BeginWrite(a) \/ EndWrite(a)

------------------------------------------------------------------------------
\* No author overwrites or deletes a lesson it has not been shown as it is, and
\* a memory never forgets what it replaced, whoever writes it in between.
LessonsKept ==
  [][\A m \in Memories : memory'[m] # memory[m] /\ memory[m].version > 0 =>
       /\ memory[m].replaces \subseteq memory'[m].replaces
       /\ \E a \in Authors : writing'[a] # writing[a] /\ seen[a][m] = memory[m].version]_memoryVars
==============================================================================
