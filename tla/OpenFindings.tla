---------------------------- MODULE OpenFindings ----------------------------
(***************************************************************************)
(* Objections that stay in front of every run until a person closes them.  *)
(* A run states where it stands on one, the operator closes it, each in a  *)
(* session of its own that reads outside a transaction: once into a copy   *)
(* it works on, once more when the copy is saved over the row.  What is    *)
(* written are the fields in which the copy differs from that second read. *)
(***************************************************************************)
EXTENDS Integers, FiniteSets, Sequences, FiniteSetsExt

CONSTANTS
  Findings,      \* ids, numbered as they are raised
  MaxShown,      \* MAX_OPEN_FINDINGS
  Answerers,     \* runs that may answer
  MaxSayings     \* bound: dispositions of one finding

ASSUME FindingsAssumption == Findings \subseteq Nat \ {0} /\ MaxShown \in Nat /\ Answerers \subseteq Nat \ {0}

VARIABLES
  finding,   \* open_findings: status, and the dispositions as a list of runs
  shown,     \* the findings each run was given to answer
  saving     \* what each request has read: a run's answer, the person's closing
findingVars == <<finding, shown, saving>>

Person   == 0
Actors   == Answerers \cup {Person}
Unraised == [status |-> "NONE", said |-> <<>>]
NoSaving == [pc |-> "idle"]
Raised   == {f \in Findings : finding[f].status # "NONE"}
OpenOnes == {f \in Findings : finding[f].status = "OPEN"}

FindingInit ==
  /\ finding = [f \in Findings |-> Unraised]
  /\ shown = [r \in Answerers |-> {}]
  /\ saving = [a \in Actors |-> NoSaving]

RaiseFinding(f) ==
  /\ finding[f].status = "NONE" /\ \A g \in Findings : g < f => g \in Raised
  /\ finding' = [finding EXCEPT ![f].status = "OPEN"]
  /\ UNCHANGED <<shown, saving>>

\* current: the newest open ones, as many as one run is asked to answer.
Newest(open) == {f \in open : Cardinality({g \in open : g > f}) < MaxShown}

AttachFindings(r) ==
  /\ shown[r] = {} /\ OpenOnes # {}
  /\ shown' = [shown EXCEPT ![r] = Newest(OpenOnes)]
  /\ UNCHANGED <<finding, saving>>

\* get_by_id, and what dispose or close makes of the copy.
Copies(a, f, copy) ==
  /\ saving[a] = NoSaving
  /\ saving' = [saving EXCEPT ![a] = [pc |-> "copied", id |-> f, copy |-> copy]]
  /\ UNCHANGED <<finding, shown>>

Dispose(r) ==
  \E f \in shown[r] :
    /\ finding[f].status = "OPEN" /\ Len(finding[f].said) < MaxSayings
    /\ Copies(r, f, [finding[f] EXCEPT !.said = Append(@, r)])

\* A finding that is closed already is left as it is, and saved again.
Close == \E f \in Raised : Copies(Person, f, [finding[f] EXCEPT !.status = "CLOSED"])

\* save reads the row again ...
SaveReads(a) ==
  /\ saving[a].pc = "copied"
  /\ saving' = [saving EXCEPT ![a] = [pc |-> "loaded", id |-> @.id, copy |-> @.copy,
                                      row |-> finding[@.id]]]
  /\ UNCHANGED <<finding, shown>>

\* ... and writes where the copy differs, whatever the row has become since.
Written(row, copy, now) ==
  [status |-> IF copy.status # row.status THEN copy.status ELSE now.status,
   said   |-> IF copy.said   # row.said   THEN copy.said   ELSE now.said]

SaveWrites(a) ==
  LET s == saving[a]
  IN /\ s.pc = "loaded"
     /\ finding' = [finding EXCEPT ![s.id] = Written(s.row, s.copy, @)]
     /\ saving' = [saving EXCEPT ![a] = NoSaving]
     /\ UNCHANGED shown

FindingNext ==
  \/ \E f \in Findings : RaiseFinding(f)
  \/ \E r \in Answerers : AttachFindings(r) \/ Dispose(r)
  \/ Close
  \/ \E a \in Actors : SaveReads(a) \/ SaveWrites(a)

------------------------------------------------------------------------------
\* "a closed finding takes no further disposition" (OpenFinding.dispose): what a
\* person has closed stays as it is.
ClosedIsFinal ==
  [][\A f \in Findings : finding[f].status = "CLOSED" => finding'[f] = finding[f]]_findingVars
==============================================================================
