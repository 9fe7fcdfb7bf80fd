----------------------------- MODULE StageEditing -----------------------------
(***************************************************************************)
(* Stages of a project that is open: their files (project_manager.py), the *)
(* objects that are kept of them with calculated defaults                  *)
(* (project_stage.py), the view that edits one of them and loads in        *)
(* threads (project_stage_details_view.py), a stage that is created        *)
(* (project_stage_installation.py) and changes that Git discards.          *)
(*                                                                         *)
(* One argument stands for all: a build needs it, it can be inherited, and *)
(* it has no other default.  Defaults are calculated in three steps.       *)
(***************************************************************************)
EXTENDS Naturals, FiniteSets

CONSTANTS
  Ids,        \* identifiers of stages
  Made,       \* stages that a template has made since the project was loaded
  Origin,     \* what the source of the project, or its first commit, has for each stage
  Committed,  \* directories of stages, as they are loaded, and restored by Git
  Names,      \* of directories of stages
  Dates,      \* of changes by the user, "none" is of no change
  Overlap,    \* stages are edited or opened while a thread calculates their defaults, directories are taken after
              \* they were checked, and the parent of a stage that is created is deleted
  MaxActions  \* of the user

VARIABLES
  disk,      \* directories: the stage.json in each and the baseline beside it
  mem,       \* objects of stages
  view,      \* the view of a stage
  loads,     \* threads of the view: loading, and checking what is required
  creation,  \* of a stage
  chosen,    \* what the user, or who made the stage, wants the argument to be
  actions    \* of the user

vars == <<disk, mem, view, loads, creation, chosen, actions>>

Nobody == "nobody"
Free == [id |-> Nobody]
NoBaseline == [kind |-> "none", val |-> "missing", date |-> "none"]
Gone == [id |-> Nobody]
Closed == [id |-> Nobody, generation |-> 0, required |-> 0, base |-> NoBaseline, shown |-> "unset", missing |-> FALSE,
           loading |-> FALSE, edited |-> FALSE]
NoCreation == [pc |-> "none", id |-> Nobody, parent |-> "none", name |-> Nobody]
Given == {"x", "y", "null"}  \* values of users, "null" is nothing on purpose

\* Names and identifiers are no marks of this model.  What Git has committed is
\* a project: a stage has one directory and a parent that is there, and a date
\* only where it has a value.
Baselines == [kind : {"none", "template", "first", "initial"}, val : Given \cup {"inherit", "missing"}, date : Dates]
Entries == [id : Ids, parent : Ids \cup {"none"}, val : Given \cup {"inherit", "unset"}, date : Dates, base : Baselines]
EditingAssumption ==
  /\ {"none", "edit"} \subseteq Dates
  /\ Nobody \notin Ids \cup Names /\ "none" \notin Ids /\ Origin \in [Ids -> Baselines]
  /\ Committed \in [Names -> {Free} \cup Entries]
  /\ \A n \in Names : Committed[n] # Free =>
       /\ \A other \in Names \ {n} : Committed[other].id # Committed[n].id
       /\ Committed[n].parent # "none" => \E other \in Names : Committed[other].id = Committed[n].parent
       /\ Committed[n].val = "unset" => Committed[n].date = "none"

Dirs == {n \in Names : disk[n] # Free}
Live(m) == {i \in Ids : m[i] # Gone}
IsAvailable(name) == disk[name] = Free

\* ProjectStage(): what is stored is explicit
LoadedStage(entry, name) ==
  [id |-> entry.id, name |-> name, parent |-> entry.parent, val |-> entry.val, explicit |-> entry.val # "unset",
   default |-> "absent", user |-> FALSE, date |-> entry.date]
LoadedStages(dirs) ==
  [i \in Ids |-> IF \E n \in Names : dirs[n].id = i
                 THEN LET n == CHOOSE n \in Names : dirs[n].id = i IN LoadedStage(dirs[n], n) ELSE Gone]

\* Fault: defaults are written, too.
SerializedWhole(stage) == stage.val
\* serialize(): defaults are left out, nothing at all is written where it was chosen
Serialized(stage) == IF stage.default # "absent" /\ ~stage.explicit THEN "unset" ELSE stage.val
SavedDate(stage) == IF Serialized(stage) = "unset" THEN "none" ELSE stage.date
\* save_stage(): the directory has the name of the stage; a baseline in it stays
SaveStage(dirs, stage) ==
  [dirs EXCEPT ![stage.name] = [id |-> stage.id, parent |-> stage.parent, val |-> Serialized(stage), date |-> SavedDate(stage),
                                base |-> IF dirs[stage.name] = Free THEN NoBaseline ELSE dirs[stage.name].base]]

-----------------------------------------------------------------------------
(* Defaults, and what a build requires.                                    *)

Default(m, i) == IF m[i].parent \in Live(m) THEN "inherit" ELSE "none"
Drop(stage) == [stage EXCEPT !.val = IF stage.default # "absent" /\ ~stage.explicit THEN "unset" ELSE @, !.default = "absent"]
Apply(stage, default) == [stage EXCEPT !.val = IF @ = "unset" /\ default # "none" THEN default ELSE @]
Record(stage, default) == [stage EXCEPT !.default = default]
\* refresh_default_stage_arguments()
Refreshed(m, i) == [m EXCEPT ![i] = Record(Apply(Drop(@), Default(m, i)), Default(m, i))]
RefreshedAll(m) == [i \in Ids |-> IF m[i] = Gone THEN Gone ELSE Refreshed(m, i)[i]]

\* A stage and those above it, as far as the stages that are followed lead: the smallest set closed under their parents
Above(m, followed, i) ==
  {j \in Ids : \A s \in SUBSET Ids : i \in s /\ (\A k \in s \cap followed : m[k].parent \in s) => j \in s}
WithParent(m) == {i \in Live(m) : m[i].parent \in Live(m)}

\* _find_missing_required_values(), on copies: the value is resolved along the stages that inherit it
Inheriting(m) == {i \in WithParent(m) : Refreshed(m, i)[i].val = "inherit"}
IsMissing(m, i) ==
  \E j \in Above(m, Inheriting(m), i) \ Inheriting(m) : Refreshed(m, j)[j].val \in {"inherit", "unset", "null"}

PossibleSeeds(m, i) == {j \in Live(m) : i \notin Above(m, WithParent(m), j)}

\* project_stage_baseline()
Baseline(i) ==
  LET own == {n \in Dirs : disk[n].id = i /\ disk[n].base # NoBaseline} IN
  IF Origin[i].kind = "template" \/ own = {} THEN Origin[i] ELSE disk[CHOOSE n \in own : TRUE].base

DiffersFromDefault(stage) ==
  IF stage.val = "unset" THEN stage.default # "none" ELSE stage.val # stage.default
DiffersFromSource(stage, base) ==
  IF (IF stage.val = "unset" THEN Serialized(stage) ELSE stage.val) = base.val THEN FALSE
  ELSE stage.explicit \/ (IF stage.default # "absent" THEN DiffersFromDefault(stage) ELSE Serialized(stage) # base.val)
\* Fault: what the user has changed is known until the app ends.
CustomizedInSession(stage, base) ==
  IF stage.user \/ base.val = "missing" THEN stage.user \/ (stage.default # "absent" /\ DiffersFromDefault(stage))
  ELSE DiffersFromSource(stage, base)
\* stage_argument_is_customized()
IsCustomized(stage, base) ==
  IF stage.date # "none" THEN base.date = "none" \/ stage.date # base.date
  ELSE IF stage.user THEN ~(base.kind = "initial" /\ base.val # "missing" /\ Serialized(stage) = base.val)
  ELSE IF base.val # "missing" THEN IF base.kind = "template" THEN DiffersFromSource(stage, base)
                                    ELSE Serialized(stage) # base.val
  ELSE stage.default # "absent" /\ DiffersFromDefault(stage)

-----------------------------------------------------------------------------
(* The view.                                                               *)

Acts == actions < MaxActions /\ actions' = actions + 1
Busy == \E w \in loads : w.pc \in {"apply", "record"}
MayEdit == view.id # Nobody /\ (Overlap \/ ~Busy)

\* _load_stage_configuration_async()
StartLoad(v, i) == [v EXCEPT !.id = i, !.generation = @ + 1, !.required = @ + 1, !.loading = TRUE, !.edited = FALSE]
LoadWorker(v) == [kind |-> "load", id |-> v.id, generation |-> v.generation, pc |-> "baseline", stale |-> FALSE,
                  base |-> NoBaseline, missing |-> FALSE]
\* _refresh_required_stage_warnings_async()
StartCheck(v) == [v EXCEPT !.required = @ + 1]
CheckWorker(v) == [LoadWorker(v) EXCEPT !.kind = "check", !.generation = v.required, !.pc = "required"]

Open(i) ==
  /\ Acts /\ view.id = Nobody /\ i \in Live(mem) /\ (Overlap \/ \A w \in loads : w.kind = "check" \/ w.stale)
  /\ view' = StartLoad(view, i) /\ loads' = loads \cup {LoadWorker(view')}
  /\ UNCHANGED <<disk, mem, creation, chosen>>
Leave ==
  /\ Acts /\ view.id # Nobody
  /\ view' = [Closed EXCEPT !.generation = view.generation + 1, !.required = view.required + 1]
  /\ UNCHANGED <<disk, mem, loads, creation, chosen>>

\* Steps of threads: a stage that was deleted or loaded again has another object.
Current(w) == ~w.stale /\ mem[w.id] # Gone
Step(w, pc, m) == loads' = (loads \ {w}) \cup {[w EXCEPT !.pc = pc]} /\ mem' = IF Current(w) THEN m ELSE mem
LoadsBaseline(w) ==
  /\ w.pc = "baseline" /\ loads' = (loads \ {w}) \cup {[w EXCEPT !.base = Baseline(w.id), !.pc = "drop"]} /\ UNCHANGED mem
LoadDrops(w) == w.pc = "drop" /\ Step(w, "apply", [mem EXCEPT ![w.id] = Drop(@)])
LoadApplies(w) == w.pc = "apply" /\ Step(w, "record", [mem EXCEPT ![w.id] = Apply(@, Default(mem, w.id))])
LoadRecords(w) == w.pc = "record" /\ Step(w, "required", [mem EXCEPT ![w.id] = Record(@, Default(mem, w.id))])
ChecksRequired(w) ==
  /\ w.pc = "required" /\ UNCHANGED mem
  /\ loads' = (loads \ {w}) \cup {[w EXCEPT !.missing = mem[w.id] # Gone /\ IsMissing(mem, w.id), !.pc = "deliver"]}
Thread ==
  /\ \E w \in loads : LoadsBaseline(w) \/ LoadDrops(w) \/ LoadApplies(w) \/ LoadRecords(w) \/ ChecksRequired(w)
  /\ UNCHANGED <<disk, view, creation, chosen, actions>>

\* load_configuration_rows(): the value in memory, and whether it is among the missing ones that were given, none of them
\* when they have to be looked for
LoadRows(v, m, missing) == [v EXCEPT !.shown = m[v.id].val, !.missing = missing]

\* Fault: whatever is loaded is shown.
DeliverAlways(w) ==
  /\ w.kind = "load" /\ w.pc = "deliver" /\ loads' = loads \ {w} /\ view.id # Nobody
  /\ view' = [view EXCEPT !.base = w.base, !.shown = mem[view.id].val, !.missing = w.missing, !.loading = FALSE]
\* _on_stage_configuration_loaded()
Deliver(w) ==
  /\ w.kind = "load" /\ w.pc = "deliver" /\ loads' = loads \ {w}
  /\ view' = IF w.generation # view.generation THEN view
             ELSE LoadRows([view EXCEPT !.base = w.base, !.loading = FALSE], mem, w.missing)
\* _on_required_stage_warnings_loaded(), which loads the rows of kernels
DeliverRequired(w) ==
  /\ w.kind = "check" /\ w.pc = "deliver" /\ loads' = loads \ {w}
  /\ view' = IF w.generation # view.required \/ view.id # w.id THEN view ELSE [view EXCEPT !.missing = w.missing]
Delivers == (\E w \in loads : Deliver(w) \/ DeliverRequired(w)) /\ UNCHANGED <<disk, mem, creation, chosen, actions>>

-----------------------------------------------------------------------------
(* The user.                                                               *)

\* change_stage_argument() and remove_stage_argument(), before they save
Changed(stage, val) == [stage EXCEPT !.val = val, !.explicit = TRUE, !.user = TRUE, !.date = "edit"]
Removed(stage) == [stage EXCEPT !.val = "unset", !.explicit = FALSE, !.user = FALSE, !.date = "none"]

\* A row has changed: argument_changed(), _refresh_defaults_and_rows(), and rows of kernels that are loaded after it
Saves(stage) ==
  /\ disk' = SaveStage(disk, stage)
  /\ mem' = Refreshed([mem EXCEPT ![stage.id] = stage], stage.id)
  /\ view' = [StartCheck(view) EXCEPT !.shown = mem'[view.id].val, !.edited = view.edited \/ view.loading]
  /\ loads' = loads \cup {CheckWorker(view')}
Edit(val) ==
  /\ Acts /\ MayEdit /\ view.shown # val
  /\ Saves(Changed(mem[view.id], val)) /\ chosen' = [chosen EXCEPT ![view.id] = val] /\ UNCHANGED creation
EditParent(parent) ==
  /\ Acts /\ MayEdit /\ parent # mem[view.id].parent
  /\ Saves([mem[view.id] EXCEPT !.parent = parent]) /\ UNCHANGED <<creation, chosen>>

\* rename_stage(): the directory is moved, and the name saved in it.
Rename(name) ==
  /\ Acts /\ MayEdit /\ IsAvailable(name) /\ (Overlap \/ creation.name # name)
  /\ LET stage == [mem[view.id] EXCEPT !.name = name] old == mem[view.id].name IN
     /\ disk' = SaveStage([disk EXCEPT ![name] = disk[old], ![old] = Free], stage)
     /\ mem' = [mem EXCEPT ![view.id] = stage]
  /\ UNCHANGED <<view, loads, creation, chosen>>

RestoredSource(stage, base) == [Changed(stage, base.val) EXCEPT !.user = FALSE, !.date = base.date]
\* _restore_stage_argument()
Restore ==
  /\ Acts /\ MayEdit /\ IsCustomized(mem[view.id], view.base)
  /\ LET stage == IF view.base.val # "missing" THEN RestoredSource(mem[view.id], view.base) ELSE Removed(mem[view.id])
         changed == [mem EXCEPT ![view.id] = stage] IN
     /\ disk' = SaveStage(disk, stage)
     /\ mem' = IF view.base.val # "missing" THEN changed ELSE Refreshed([changed EXCEPT ![view.id].default = "absent"], view.id)
     /\ chosen' = [chosen EXCEPT ![view.id] = stage.val]
  /\ view' = [StartCheck(LoadRows(view, mem', FALSE)) EXCEPT !.edited = view.edited \/ view.loading]
  /\ loads' = loads \cup {CheckWorker(view')} /\ UNCHANGED creation

\* remove_stage(): stages that use it as a parent are changed first.
Delete ==
  /\ Acts /\ MayEdit /\ (Overlap \/ creation.parent # view.id)
  /\ LET i == view.id
         children == {j \in Live(mem) : mem[j].parent = i}
         detached == [j \in Ids |-> IF j \in children THEN [mem[j] EXCEPT !.parent = "none"] ELSE mem[j]]
         Owner(n) == CHOOSE j \in children : mem[j].name = n IN
     /\ disk' = [n \in Names |-> IF n = mem[i].name THEN Free
                                 ELSE IF \E j \in children : mem[j].name = n THEN SaveStage(disk, detached[Owner(n)])[n] ELSE disk[n]]
     /\ mem' = [detached EXCEPT ![i] = Gone]
     /\ chosen' = [chosen EXCEPT ![i] = "deleted"]
  /\ view' = [Closed EXCEPT !.generation = view.generation + 1, !.required = view.required + 1]
  /\ UNCHANGED <<loads, creation>>

\* A build calculates all defaults when it starts, and those of each stage again when it writes its spec.
Build ==
  /\ Acts /\ (Overlap \/ ~Busy) /\ mem' = RefreshedAll(mem)
  /\ UNCHANGED <<disk, view, loads, creation, chosen>>

\* Git discards all changes, and everything is loaded again.
Discard ==
  /\ Acts /\ creation.pc = "none"
  /\ disk' = Committed /\ mem' = LoadedStages(Committed)
  /\ chosen' = [i \in Ids |-> IF mem'[i] = Gone THEN "deleted" ELSE mem'[i].val]
  /\ LET old == {[w EXCEPT !.stale = TRUE] : w \in loads} IN
     IF view.id # Nobody /\ mem'[view.id] # Gone
     THEN view' = StartLoad(view, view.id) /\ loads' = old \cup {LoadWorker(view')}
     ELSE view' = [Closed EXCEPT !.generation = view.generation + 1, !.required = view.required + 1] /\ loads' = old
  /\ UNCHANGED creation

\* The app ends, or is killed, and starts again.
Restart ==
  /\ Acts /\ mem' = LoadedStages(disk) /\ view' = Closed /\ loads' = {} /\ creation' = NoCreation
  /\ UNCHANGED <<disk, chosen>>

-----------------------------------------------------------------------------
(* A stage is created by a thread.                                         *)

Create(i, parent, name) ==
  /\ Acts /\ creation.pc = "none" /\ mem[i] = Gone /\ chosen[i] = "none" /\ IsAvailable(name)
  /\ creation' = [pc |-> "check", id |-> i, parent |-> parent, name |-> name]
  /\ UNCHANGED <<disk, mem, view, loads, chosen>>
NewStage == [id |-> creation.id, name |-> creation.name, parent |-> creation.parent, val |-> "unset", explicit |-> FALSE,
             default |-> "absent", user |-> FALSE, date |-> "none"]
\* install_stage() and record_stage_creation_baseline()
CreateChecks ==
  /\ creation.pc = "check"
  /\ creation' = IF IsAvailable(creation.name) THEN [creation EXCEPT !.pc = "save"] ELSE NoCreation
  /\ UNCHANGED <<disk, chosen>>
CreateSaves ==
  /\ creation.pc = "save" /\ disk' = SaveStage(disk, NewStage) /\ creation' = [creation EXCEPT !.pc = "baseline"]
  /\ chosen' = [chosen EXCEPT ![creation.id] = "unset"]
CreateRecords ==
  /\ creation.pc = "baseline" /\ creation' = [creation EXCEPT !.pc = "end"]
  /\ disk' = [disk EXCEPT ![creation.name].base = [NoBaseline EXCEPT !.kind = "initial"]] /\ UNCHANGED chosen
CreateThread == (CreateChecks \/ CreateSaves \/ CreateRecords) /\ UNCHANGED <<mem, view, loads, actions>>
\* complete_process() with add_stage()
CreateEnds ==
  /\ creation.pc = "end" /\ mem' = [mem EXCEPT ![creation.id] = NewStage] /\ creation' = NoCreation
  /\ UNCHANGED <<disk, view, loads, chosen, actions>>

-----------------------------------------------------------------------------

\* A template makes objects whose values are not explicit, and saves them.
Init ==
  /\ disk = Committed
  /\ mem = [i \in Ids |-> IF i \in Made THEN [LoadedStages(Committed)[i] EXCEPT !.explicit = FALSE] ELSE LoadedStages(Committed)[i]]
  /\ view = Closed /\ loads = {} /\ creation = NoCreation /\ actions = 0
  /\ chosen = [i \in Ids |-> IF mem[i] = Gone THEN "none" ELSE mem[i].val]

User ==
  \/ \E i \in Ids : Open(i)
  \/ Leave \/ Restore \/ Delete \/ Build \/ Discard \/ Restart
  \/ \E val \in Given : Edit(val)
  \/ view.id # Nobody /\ \E parent \in PossibleSeeds(mem, view.id) : EditParent(parent)
  \/ \E name \in Names : Rename(name)
  \/ \E i \in Ids, parent \in Live(mem) \cup {"none"}, name \in Names : Create(i, parent, name)
Next == Thread \/ Delivers \/ CreateThread \/ CreateEnds \/ User
Spec == Init /\ [][Next]_vars

-----------------------------------------------------------------------------
(* Properties.                                                             *)

TypeOK ==
  /\ \A n \in Dirs : disk[n].id \in Ids /\ disk[n].val \in Given \cup {"inherit", "unset"}
  /\ \A w \in loads : w.pc \in {"baseline", "drop", "apply", "record", "required", "deliver"}

\* What is in stage.json is what the user has chosen, last, for each stage,
\* which has one directory and a parent that is there: calculated defaults
\* never become project data (project_stage.py:725).
SavedAsChosen ==
  \A i \in Ids :
    IF chosen[i] \in {"none", "deleted"} THEN \A n \in Dirs : disk[n].id # i
    ELSE \E n \in Dirs :
      /\ disk[n].id = i /\ disk[n].val = chosen[i] /\ (\A other \in Dirs \ {n} : disk[other].id # i)
      /\ disk[n].parent # "none" => \E other \in Dirs : disk[other].id = disk[n].parent
      /\ mem[i] # Gone => mem[i].name = n /\ mem[i].parent = disk[n].parent /\ mem[i].explicit = (chosen[i] # "unset")

\* Whether an argument is shown as customized does not change when the
\* project is loaded again.
CustomizedSurvives ==
  view.id # Nobody /\ ~view.loading /\ ~Busy =>
    IsCustomized(mem[view.id], view.base) = IsCustomized(Refreshed(LoadedStages(disk), view.id)[view.id], Baseline(view.id))

\* The view comes to show the stage as it is: its value, its source, and
\* whether something is missing; but for an edit while it was loading, whose
\* answer an older one replaces (README.md).
ViewSettles ==
  view.id # Nobody /\ loads = {} =>
    /\ ~view.loading /\ view.shown = mem[view.id].val /\ view.base = Baseline(view.id)
    /\ view.edited \/ view.missing = IsMissing(mem, view.id)

\* Values that a template gave a stage stay until the user changes them:
\* project_template.py:1102 says "Template values are stored", and
\* project_stage.py:725 that defaults are calculated "without making them
\* explicit project edits".
TemplateValuesStay == \A i \in Made : mem[i] # Gone /\ chosen[i] = Origin[i].val => mem[i].val = Origin[i].val
=============================================================================
