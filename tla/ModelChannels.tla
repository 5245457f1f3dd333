---------------------------- MODULE ModelChannels ----------------------------
(***************************************************************************)
(* The model channels, the models chosen from each, and the settings whose *)
(* stages refer to those models by id.  A request reads outside a          *)
(* transaction, decides, and then writes and commits in one: its first     *)
(* write takes SQLite's write lock, and what it reads after that is as it  *)
(* will be left.  A row that was read before is read again when it is      *)
(* written: the session keeps no row that nobody holds.                    *)
(***************************************************************************)
EXTENDS Integers, Sequences, FiniteSets, FiniteSetsExt

CONSTANTS Editors,       \* requests that may be under way together
          Stages,        \* the pipeline stages that need a model
          ModelNames,    \* what a provider calls its models
          MaxChannels,   \* bound: the largest channel id
          MaxModels,     \* bound: the largest id of a chosen model
          MaxEdits       \* bound: requests that are started

ASSUME ChannelAssumption == {MaxChannels, MaxModels, MaxEdits} \subseteq Nat /\ IsFiniteSet(ModelNames)

VARIABLES channel,       \* id -> revision, 0 where there is no such row
          chosen,        \* id of a chosen model -> [channel, name]
          settings,      \* [revision, model]: the settings row; model 0 is none
          request,       \* what each request has read and is about to write
          edits,         \* counter of the bound
          orphaned       \* history: stages whose model was deleted behind their settings
modelVars == <<channel, chosen, settings, request, edits, orphaned>>

Ids == 1 .. MaxModels
Idle == [kind |-> "none"]
Missing == [channel |-> 0, name |-> ""]

ChannelRows == {c \in DOMAIN channel : channel[c] > 0}
ModelRows == {m \in Ids : chosen[m] # Missing}
ModelsOf(c) == {m \in ModelRows : chosen[m].channel = c}
Catalogues == {names \in UNION {[1 .. n -> ModelNames] : n \in 0 .. Cardinality(ModelNames)} :
                 \A i, j \in DOMAIN names : names[i] = names[j] => i = j}

\* A row id is one more than the largest in the table: SQLite gives the id of
\* a deleted last row out again.
NextId(used) == IF used = {} THEN 1 ELSE Max(used) + 1

\* ModelSelectionResolver.reconcile: a stage whose model has no row, or whose
\* model's channel has none, is shown and saved without one.
Reconcile(model, models, channels) ==
  [s \in Stages |->
     IF model[s] > 0 /\ models[model[s]] # Missing
          /\ models[model[s]].channel \in channels
     THEN model[s] ELSE 0]

\* _replace_changed_channel_references: references to removed models fall back
\* to the first of those that remain.
Replace(model, removed, fallback) ==
  [s \in Stages |-> IF model[s] \in removed THEN fallback ELSE model[s]]

ModelInit ==
  /\ channel = [c \in 1 .. MaxChannels |-> 0]
  /\ chosen = [m \in Ids |-> Missing]
  /\ settings = [revision |-> 1, model |-> [s \in Stages |-> 0]]
  /\ request = [e \in Editors |-> Idle]
  /\ edits = 0 /\ orphaned = {}

Begin(e, what) ==
  /\ request[e] = Idle
  /\ edits < MaxEdits
  /\ edits' = edits + 1
  /\ request' = [request EXCEPT ![e] = what]

End(e) == request' = [request EXCEPT ![e] = Idle] /\ UNCHANGED edits

\* The request is refused: its revision is not the row's any more
\* (StaleDataError), and what it wrote is rolled back.
Conflict(e) == End(e) /\ UNCHANGED <<channel, chosen, settings>>

-----------------------------------------------------------------------------
(* The settings.                                                           *)

\* The page's revision is compared with the row's ...
UpdateBegins(e) ==
  /\ Begin(e, [kind |-> "update", shown |-> settings.revision, step |-> "compared"])
  /\ UNCHANGED <<channel, chosen, settings>>

\* ... which is then read once more, with the models it names and those of the
\* payload: each stage must be given one that exists, or the stages stay as
\* they are.
UpdateReads(e) ==
  /\ request[e].kind = "update" /\ request[e].step = "compared"
  /\ \E model \in {Reconcile(settings.model, chosen, ChannelRows)}
                    \cup [Stages -> ModelRows] :
       request' = [request EXCEPT ![e] =
                     [kind |-> "update", shown |-> @.shown, step |-> "decided",
                      base |-> settings.revision,
                      model |-> Reconcile(model, chosen, ChannelRows)]]
  /\ UNCHANGED <<channel, chosen, settings, edits>>

\* A mutant of SavesSettings: the revision is not asked for.
SavesAnyhow(base, model) ==
  settings' = [revision |-> settings.revision + 1, model |-> model]

\* SettingsRepository.save writes what was decided, if the row is still at the
\* revision that was read.
SavesSettings(base, model) ==
  /\ settings.revision = base
  /\ settings' = [revision |-> base + 1, model |-> model]

UpdateEnds(e) ==
  /\ request[e].kind = "update" /\ request[e].step = "decided"
  /\ \/ /\ SavesSettings(request[e].base, request[e].model)
        /\ End(e) /\ UNCHANGED <<channel, chosen>>
     \/ settings.revision # request[e].base /\ Conflict(e)

-----------------------------------------------------------------------------
(* The channels.                                                           *)

\* replace_for_channel: a model that is offered again keeps its row and its id,
\* new ones are added, and only then the rest is deleted.
KeptId(c, name) ==
  CHOOSE m \in ModelsOf(c) \cup {0} :
    IF \E k \in ModelsOf(c) : chosen[k].name = name
    THEN m > 0 /\ chosen[m].name = name ELSE m = 0

\* The new ones among the first n names; each row is flushed, which gives it its
\* id, before the next one.
Added(c, names, n) == {i \in 1 .. n : KeptId(c, names[i]) = 0}

IdAt(c, names, i) ==
  IF KeptId(c, names[i]) > 0 THEN KeptId(c, names[i])
  ELSE NextId(ModelRows) - 1 + Cardinality(Added(c, names, i))

Replaced(c, names) ==
  [m \in Ids |->
     IF \E i \in DOMAIN names : IdAt(c, names, i) = m
     THEN [channel |-> c, name |-> names[CHOOSE i \in DOMAIN names : IdAt(c, names, i) = m]]
     ELSE IF chosen[m].channel = c THEN Missing ELSE chosen[m]]

\* The catalogue of c becomes names; the settings, read in the same
\* transaction, follow it.
Catalogue(c, names) ==
  /\ NextId(ModelRows) - 1 + Cardinality(Added(c, names, Len(names))) <= MaxModels
  /\ chosen' = Replaced(c, names)
  /\ LET kept == {IdAt(c, names, i) : i \in DOMAIN names}
         followed == Replace(settings.model, ModelsOf(c) \ kept,
                             IF names = <<>> THEN 0 ELSE IdAt(c, names, 1))
         stages == Reconcile(followed, chosen', {x \in DOMAIN channel : channel'[x] > 0})
     IN IF stages = settings.model THEN UNCHANGED settings
        ELSE SavesSettings(settings.revision, stages)

\* save_model_channel for a new channel: one transaction from the first insert.
CreateChannel(e, names) ==
  LET c == NextId(ChannelRows)
  IN /\ c <= MaxChannels
     /\ request[e] = Idle /\ edits < MaxEdits
     /\ edits' = edits + 1 /\ UNCHANGED request
     /\ channel' = [channel EXCEPT ![c] = 1]
     /\ Catalogue(c, names)

\* A save has read its channel, at the revision the page showed ...
SaveBegins(e, c, names) ==
  /\ Begin(e, [kind |-> "save", shown |-> channel[c], channel |-> c, names |-> names])
  /\ UNCHANGED <<channel, chosen, settings>>

\* ... and so has clear_model_channel_api_key.
ClearBegins(e, c) ==
  /\ Begin(e, [kind |-> "clear", shown |-> channel[c], channel |-> c])
  /\ UNCHANGED <<channel, chosen, settings>>

SaveEnds(e) ==
  LET r == request[e]
  IN /\ r.kind \in {"save", "clear"}
     /\ \/ /\ channel[r.channel] = r.shown
           /\ channel' = [channel EXCEPT ![r.channel] = r.shown + 1]
           /\ \/ r.kind = "save" /\ Catalogue(r.channel, r.names)
              \/ r.kind = "clear" /\ UNCHANGED <<chosen, settings>>
           /\ End(e)
        \/ channel[r.channel] # r.shown /\ Conflict(e)

\* delete_model_channel compares the page's revision with the channel's, then
\* reads the settings and the models ...
DeleteBegins(e, c) ==
  /\ Begin(e, [kind |-> "delete", shown |-> channel[c], step |-> "compared",
               channel |-> c])
  /\ UNCHANGED <<channel, chosen, settings>>

DeleteReads(e) ==
  /\ request[e].kind = "delete" /\ request[e].step = "compared"
  /\ request' = [request EXCEPT ![e] =
                   [kind |-> "delete", shown |-> @.shown, step |-> "decided",
                    channel |-> @.channel, read |-> settings,
                    models |-> ModelsOf(@.channel)]]
  /\ UNCHANGED <<channel, chosen, settings, edits>>

\* ... and removes the channel and its models as they are by then.  What it
\* makes of the settings it read is saved only if it is a change.
DeleteEnds(e) ==
  LET r == request[e]
      remaining == [m \in Ids |-> IF chosen[m].channel = r.channel THEN Missing
                                  ELSE chosen[m]]
      stages == Reconcile(Replace(r.read.model, r.models, 0), remaining,
                          ChannelRows \ {r.channel})
      changed == stages # r.read.model
  IN /\ r.kind = "delete" /\ r.step = "decided"
     /\ \/ /\ channel' = [channel EXCEPT ![r.channel] = 0]
           /\ chosen' = remaining
           /\ IF changed THEN SavesSettings(r.read.revision, stages)
              ELSE UNCHANGED settings
           /\ End(e)
        \/ changed /\ settings.revision # r.read.revision /\ Conflict(e)

\* What a request leaves without its model: until the settings name another one,
\* the stage may find a new row under the id of the old.
Orphans ==
  orphaned' = {s \in Stages :
                 LET model == settings'.model[s]
                 IN /\ model > 0
                    /\ chosen'[model] = Missing \/ (s \in orphaned /\ model = settings.model[s])}

Edited ==
  \E e \in Editors :
    \/ UpdateBegins(e) \/ UpdateReads(e) \/ UpdateEnds(e)
    \/ SaveEnds(e) \/ DeleteReads(e) \/ DeleteEnds(e)
    \/ \E names \in Catalogues : CreateChannel(e, names)
    \/ \E c \in ChannelRows :
         \/ ClearBegins(e, c) \/ DeleteBegins(e, c)
         \/ \E names \in Catalogues : SaveBegins(e, c, names)

ModelNext == Edited /\ Orphans

-----------------------------------------------------------------------------
\* The model a stage runs on, if its reference leads to one.
RunsOn(s) == IF settings.model[s] = 0 THEN Missing ELSE chosen[settings.model[s]]

\* Editing channels never moves a stage to another model as long as its own is
\* still offered: rows keep their ids, and a request that works on settings it
\* read earlier cannot put an older choice back (replace_for_channel,
\* delete_model_channel, SettingsRepository.save).  A stage whose model has been
\* deleted behind its settings is no part of it: SQLite gives the id to another
\* model, which the stage then runs on, and loses as it comes.
StageKeepsItsModel ==
  [][channel' # channel =>
       \A s \in Stages \ orphaned :
         RunsOn(s) # Missing =>
           RunsOn(s)' = RunsOn(s) \/ RunsOn(s) \notin {chosen'[m] : m \in Ids}]_modelVars

\* What an update or a delete is compared with: the row it changes.
Current(r) == IF r.kind = "update" THEN settings.revision ELSE channel[r.channel]

\* A request that was made on a page that no longer shows the row as it is is
\* refused ("Raised when a stale settings/profile revision is written",
\* ConfigurationConflictError).
StaleWritesRefused ==
  [][\A e \in Editors :
       /\ request[e] # Idle /\ request'[e] = Idle
       /\ <<channel, settings>>' # <<channel, settings>>
       => request[e].shown = Current(request[e])]_modelVars
==============================================================================
