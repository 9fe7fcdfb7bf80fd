------------------------------- MODULE StageRows -------------------------------
(***************************************************************************)
(* Rows of the view of a stage (project_stage_details_view.py) with what   *)
(* users have typed in them and not applied: a list of entries that joins  *)
(* what it inherits, a script in the folder of the stage, a cache, and the *)
(* kernels of the stage (project_stage_kernels.py).  A row tells that it   *)
(* changed when the main loop is idle; all other rows are then read again. *)
(*                                                                         *)
(* A value of the list is a sequence of options and entries; what is not   *)
(* set is <<>> or "none".                                                  *)
(***************************************************************************)
EXTENDS Naturals, Sequences, SequencesExt, FiniteSets

CONSTANTS
  Texts,      \* entries that are typed for the list
  Releng,     \* settings of the kernel "g" in the Releng template
  KindOf,     \* of kernel packages: "dist", "sources" or "unknown"
  Hasty,      \* the user goes on before the main loop was idle
  Taken,      \* names that own kernels have are used again while the template is gone
  MaxActions  \* of the user

VARIABLES
  stage,       \* values of the arguments
  files,       \* scripts in the folder of the stage
  listRow, scriptRow, cacheRow, kernelRows,
  changed,     \* rows that have told so, in order
  typed,       \* in the editors of the list and of kernels, and not applied
  wanted,      \* values that the user has chosen in rows
  asked,       \* the last request about a kernel
  actions      \* of the user

vars == <<stage, files, listRow, scriptRow, cacheRow, kernelRows, changed, typed, wanted, asked, actions>>

ListOptions == {"PARENT", "RELENG"}
IsOption(item) == item \in ListOptions
OptionsIn(value) == SelectSeq(value, IsOption)
OwnIn(value) == SelectSeq(value, LAMBDA item : ~IsOption(item))

Acts == actions < MaxActions /\ (Hasty \/ changed = <<>>) /\ ~cacheRow.dialog /\ actions' = actions + 1
NotTyped == "not typed"

-----------------------------------------------------------------------------
(* Kernels: their names and settings, those of the template fill in.       *)

AllNames == {"g", "kernel", "kernel-2", "mine"}
Keys == {"sources", "distkernel", "use"}
Unset == [k \in Keys |-> "none"]
Distinct(items) == FoldLeft(LAMBDA kept, item : IF Contains(kept, item) THEN kept ELSE Append(kept, item), <<>>, items)

RelengSetting(st, name, key) == IF st.template /\ name = "g" THEN Releng[key] ELSE "none"
\* kernel_setting()
Setting(st, name, key) ==
  IF st.settings[name][key] # "none" THEN st.settings[name][key] ELSE RelengSetting(st, name, key)
Inherits(st) == Contains(st.kernels, "RELENG")
OwnNames(st) == SelectSeq(st.kernels, LAMBDA name : name # "RELENG")
RelengNames(st) == IF st.template THEN <<"g">> ELSE <<>>
\* stage_kernel_names(): nothing when the template is gone
KernelNames(st) ==
  IF ~Inherits(st) THEN OwnNames(st) ELSE IF st.template THEN Distinct(RelengNames(st) \o OwnNames(st)) ELSE <<>>
\* derived_distkernel()
Derived(package) ==
  IF package = "none" \/ KindOf[package] = "unknown" THEN "unknown" ELSE IF KindOf[package] = "dist" THEN "yes" ELSE "none"
\* kernel_spec_values()
SpecValue(st, name, key) ==
  IF key = "distkernel" /\ Derived(Setting(st, name, "sources")) # "unknown" THEN Derived(Setting(st, name, "sources"))
  ELSE IF key = "distkernel" /\ Setting(st, name, key) # "yes" THEN "none" ELSE Setting(st, name, key)

SetNames(st, names, inherit) == [st EXCEPT !.kernels = IF inherit THEN <<"RELENG">> \o names ELSE names]
SetKernelSetting(st, name, key, value) == [st EXCEPT !.settings[name][key] = value]
EditableNames(st) == IF Inherits(st) THEN OwnNames(st) ELSE KernelNames(st)
NewKernelName(names) == IF ~Contains(names, "kernel") THEN "kernel" ELSE "kernel-2"
\* Fault: settings stay with the old name.
RenameNameOnly(st, old, new) ==
  SetNames(st, [i \in DOMAIN EditableNames(st) |-> IF EditableNames(st)[i] = old THEN new ELSE EditableNames(st)[i]], Inherits(st))
\* rename_kernel()
RenameKernel(st, old, new) ==
  [SetNames(st, [i \in DOMAIN EditableNames(st) |-> IF EditableNames(st)[i] = old THEN new ELSE EditableNames(st)[i]], Inherits(st))
     EXCEPT !.settings = [name \in AllNames |-> IF name = new THEN @[old] ELSE IF name = old THEN Unset ELSE @[name]]]
RemoveKernel(st, name) ==
  [SetNames(st, SelectSeq(EditableNames(st), LAMBDA kernel : kernel # name), Inherits(st)) EXCEPT !.settings[name] = Unset]

\* A row of a kernel: whether kinds of packages are known, the selected package, the switch, and the text of the list
NoRow == [shown |-> FALSE, known |-> FALSE, picked |-> "none", custom |-> FALSE, active |-> FALSE, use |-> "none", text |-> "none"]
\* KernelPackageRow._build(): packages of unknown kind are not in its list
Picked(own, known, custom) ==
  IF own # "none" THEN IF known /\ KindOf[own] = "unknown" THEN "custom" ELSE own ELSE IF custom THEN "custom" ELSE "none"
\* Fault: text that was not applied is replaced.
LoadKernelText(row, own) == own
\* KernelListRow.load()
KeptKernelText(row, own) == IF own # row.use THEN own ELSE row.text
\* StageKernelRow.load_state()
LoadKernelRow(st, name, row) ==
  LET derived == IF row.known THEN Derived(Setting(st, name, "sources")) ELSE "unknown"
      own == st.settings[name] IN
  [row EXCEPT !.picked = Picked(own.sources, row.known, row.custom),
              !.active = (IF derived # "unknown" THEN derived ELSE Setting(st, name, "distkernel")) = "yes",
              !.text = KeptKernelText(row, own.use), !.use = own.use]
\* _load_kernel_rows(): rows are new, whatever was typed in the old ones
KernelRows(st) ==
  [name \in AllNames |-> IF Contains(EditableNames(st), name)
                      THEN LET own == st.settings[name].use IN
                           LoadKernelRow(st, name, [NoRow EXCEPT !.shown = TRUE, !.use = own, !.text = own])
                      ELSE NoRow]

\* Stage values that users change are saved at once; a row of a kernel reads itself again.
Store(st) == stage' = st
NewRows(st) == kernelRows' = KernelRows(st) /\ typed' = [typed EXCEPT !.kernel = [name \in AllNames |-> NotTyped]]
Asks(what, name, key, value) == asked' = [what |-> what, name |-> name, key |-> key, value |-> value]
RowOnly(st, name) == kernelRows' = [kernelRows EXCEPT ![name] = LoadKernelRow(st, name, @)]
KernelUnchanged == UNCHANGED <<files, listRow, scriptRow, cacheRow, changed, wanted>>

\* _on_add_kernel(): a distribution kernel
AddKernel ==
  LET name == NewKernelName(KernelNames(stage))
      named == SetNames(stage, Append(EditableNames(stage), name), Inherits(stage))
      added == SetKernelSetting(SetKernelSetting(named, name, "sources", "gentoo-kernel"), name, "distkernel", "yes") IN
  /\ Acts /\ Len(EditableNames(stage)) < 2 /\ (Taken \/ ~Contains(OwnNames(stage), name))
  /\ Store(added) /\ NewRows(added) /\ Asks("add", name, "none", "none") /\ KernelUnchanged
\* _rename_kernel(), with a name that is free
Rename(old, new) ==
  /\ Acts /\ kernelRows[old].shown /\ new # old /\ ~Contains(KernelNames(stage), new)
  /\ Taken \/ stage.settings[new] = Unset
  /\ LET renamed == RenameKernel(stage, old, new) IN Store(renamed) /\ NewRows(renamed)
  /\ Asks("rename", old, "none", new) /\ KernelUnchanged
Delete(name) ==
  /\ Acts /\ kernelRows[name].shown
  /\ Store(RemoveKernel(stage, name)) /\ NewRows(RemoveKernel(stage, name))
  /\ Asks("remove", name, "none", "none") /\ KernelUnchanged
\* _on_inherit_kernels_changed(), with the switch that is shown where kernels are inherited or could be
SwitchInheritance ==
  /\ Acts /\ (Inherits(stage) \/ stage.template)
  /\ LET st == SetNames(stage, OwnNames(stage), ~Inherits(stage)) IN Store(st) /\ NewRows(st)
  /\ Asks("none", "g", "none", "none") /\ KernelUnchanged
\* Kinds of packages are read by a thread of each row.
PackagesLoaded(name) ==
  /\ kernelRows[name].shown /\ ~kernelRows[name].known
  /\ kernelRows' = [kernelRows EXCEPT ![name] = LoadKernelRow(stage, name, [@ EXCEPT !.known = TRUE])]
  /\ UNCHANGED <<stage, files, listRow, scriptRow, cacheRow, changed, typed, wanted, asked, actions>>
\* _on_switch_toggled(): shown where the kind of the package is not known; stored where it differs from the template
Toggle(name) ==
  /\ Acts /\ kernelRows[name].known /\ Derived(Setting(stage, name, "sources")) = "unknown"
  /\ LET enabled == IF kernelRows[name].active THEN "none" ELSE "yes"
         own == IF (enabled = "yes") = (RelengSetting(stage, name, "distkernel") = "yes") THEN "none"
                ELSE IF enabled = "yes" THEN "yes" ELSE "no"
         st == SetKernelSetting(stage, name, "distkernel", own) IN
     Store(st) /\ RowOnly(st, name) /\ Asks("set", name, "distkernel", enabled)
  /\ UNCHANGED typed /\ KernelUnchanged
\* _own_value_for()
OwnValueFor(st, name, key, value) ==
  LET releng == RelengSetting(st, name, key) IN
  IF key = "distkernel" THEN IF (value = "yes") = (releng = "yes") THEN "none" ELSE IF value = "yes" THEN "yes" ELSE "no"
  ELSE IF value = releng THEN "none" ELSE value
\* _on_package_selected()
SelectPackage(name, atom) ==
  /\ Acts /\ kernelRows[name].shown /\ atom # kernelRows[name].picked
  /\ LET st == SetKernelSetting(stage, name, "sources", OwnValueFor(stage, name, "sources", atom))
         derived == IF kernelRows[name].known THEN Derived(Setting(st, name, "sources")) ELSE "unknown"
         all == IF derived = "unknown" THEN st
                ELSE SetKernelSetting(st, name, "distkernel", OwnValueFor(st, name, "distkernel", derived)) IN
     /\ Store(all)
     /\ kernelRows' = [kernelRows EXCEPT ![name] = LoadKernelRow(all, name, [@ EXCEPT !.custom = KindOf[atom] = "unknown"])]
     /\ Asks("set", name, "sources", atom)
  /\ UNCHANGED typed /\ KernelUnchanged
TypeUse(name, text) ==
  /\ Acts /\ kernelRows[name].shown /\ text # kernelRows[name].text
  /\ kernelRows' = [kernelRows EXCEPT ![name].text = text] /\ typed' = [typed EXCEPT !.kernel[name] = text]
  /\ Asks("none", name, "none", "none") /\ UNCHANGED stage /\ KernelUnchanged
ApplyUse(name) ==
  /\ Acts /\ kernelRows[name].shown /\ kernelRows[name].text # kernelRows[name].use
  /\ LET st == SetKernelSetting(stage, name, "use", kernelRows[name].text) IN
     Store(st) /\ RowOnly(st, name) /\ Asks("set", name, "use", kernelRows[name].text)
  /\ typed' = [typed EXCEPT !.kernel[name] = NotTyped] /\ KernelUnchanged
Kernels ==
  \/ AddKernel \/ SwitchInheritance
  \/ \E name \in AllNames : PackagesLoaded(name) \/ Delete(name) \/ Toggle(name) \/ ApplyUse(name)
  \/ \E old, new \in AllNames : Rename(old, new)
  \/ \E name \in AllNames, atom \in DOMAIN KindOf : SelectPackage(name, atom)
  \/ \E name \in AllNames, text \in {"none", "x"} : TypeUse(name, text)

-----------------------------------------------------------------------------
(* The list: options and own entries, joined.                              *)

\* _joined_value()
Joined(options, own) == options \o own
ListOwn(row) == IF row.custom THEN OwnIn(row.value) ELSE <<>>
ListPending(row) == row.text # ListOwn(row)
\* StageTextSourceRow.load_state()
LoadList(value) == [value |-> value, custom |-> OwnIn(value) # <<>>, text |-> OwnIn(value)]
\* _refresh_defaults_and_rows(): text that is not applied stays, and the row with it.
RefreshList(row, value) == IF ListPending(row) THEN row ELSE LoadList(value)

Tells(row, value) ==
  /\ changed' = IF Contains(changed, row) THEN changed ELSE Append(changed, row)
  /\ wanted' = [wanted EXCEPT ![row] = value]
Others(own) == asked' = [asked EXCEPT !.what = "none"] /\ UNCHANGED own
\* _on_source_toggled(), of an option and of "Custom value": own entries are what is typed
ToggleSource(option) ==
  /\ Acts
  /\ LET options == OptionsIn(listRow.value)
         now == IF Contains(options, option) THEN SelectSeq(options, LAMBDA o : o # option)
                ELSE SelectSeq(<<"PARENT", "RELENG">>, LAMBDA o : o = option \/ Contains(options, o)) IN
     listRow' = [listRow EXCEPT !.value = Joined(now, IF listRow.custom THEN listRow.text ELSE <<>>)]
  /\ typed' = IF listRow.custom THEN [typed EXCEPT !.list = <<NotTyped>>] ELSE typed
  /\ Tells("list", listRow'.value) /\ Others(<<stage, files, scriptRow, cacheRow, kernelRows>>)
ToggleCustom ==
  /\ Acts
  /\ listRow' = [listRow EXCEPT !.custom = ~@, !.value = Joined(OptionsIn(@), IF listRow.custom THEN <<>> ELSE listRow.text)]
  /\ typed' = IF listRow.custom THEN [typed EXCEPT !.list = listRow.text] ELSE [typed EXCEPT !.list = <<NotTyped>>]
  /\ Tells("list", listRow'.value) /\ Others(<<stage, files, scriptRow, cacheRow, kernelRows>>)
TypeList(text) ==
  /\ Acts /\ listRow.custom /\ text # listRow.text
  /\ listRow' = [listRow EXCEPT !.text = text] /\ typed' = [typed EXCEPT !.list = text]
  /\ Others(<<stage, files, scriptRow, cacheRow, kernelRows, changed, wanted>>)
\* apply_custom_value()
ApplyList ==
  /\ Acts /\ listRow.custom /\ ListPending(listRow)
  /\ listRow' = [listRow EXCEPT !.value = Joined(OptionsIn(@), listRow.text)]
  /\ typed' = [typed EXCEPT !.list = <<NotTyped>>]
  /\ Tells("list", listRow'.value) /\ Others(<<stage, files, scriptRow, cacheRow, kernelRows>>)
RevertList ==
  /\ Acts /\ listRow.custom /\ ListPending(listRow)
  /\ listRow' = [listRow EXCEPT !.text = ListOwn(listRow)] /\ typed' = [typed EXCEPT !.list = <<NotTyped>>]
  /\ Others(<<stage, files, scriptRow, cacheRow, kernelRows, changed, wanted>>)
List == (\E option \in ListOptions : ToggleSource(option)) \/ ToggleCustom \/ ApplyList \/ RevertList \/ \E text \in Texts : TypeList(text)

-----------------------------------------------------------------------------
(* The script: its path, inherited or own, and its text.                   *)

Paths == {"in1", "in2"}  \* in the folder of the stage, the names of new scripts
Scripts == {"t"}         \* that users write
IsInside(row) == row.value \in Paths
Content(path) == IF files[path] = "absent" THEN "blank" ELSE files[path]
\* Fault: a text that is not saved is kept for the next script.
KeepsUnsaved(row) ==
  IF IsInside(row) /\ row.value # row.loaded /\ row.text = row.saved
  THEN [row EXCEPT !.loaded = row.value, !.saved = Content(row.value), !.text = Content(row.value)] ELSE row
\* StageScriptRow.update_display() with _load_script()
DisplayScript(row) ==
  IF IsInside(row) /\ row.value # row.loaded
  THEN [row EXCEPT !.loaded = row.value, !.saved = Content(row.value), !.text = Content(row.value)] ELSE row
ScriptPending(row) == row.entry # (IF row.value = "RELENG" THEN "none" ELSE row.value)
LoadScriptRow(row, value) == DisplayScript([row EXCEPT !.value = value, !.entry = IF value = "RELENG" THEN "none" ELSE value])
RefreshScript(row, value) == IF ScriptPending(row) THEN row ELSE LoadScriptRow(row, value)
NewScriptRow(value) == LoadScriptRow([value |-> "none", entry |-> "none", loaded |-> "none", saved |-> "blank", text |-> "blank"], value)

ScriptTells == Tells("script", scriptRow'.value) /\ Others(<<stage, listRow, cacheRow, kernelRows, typed>>)
ScriptQuiet == Others(<<stage, listRow, cacheRow, kernelRows, typed, changed, wanted>>)
SelectScript(source) ==
  /\ Acts /\ (scriptRow.value = "RELENG") # (source = "RELENG")
  /\ scriptRow' = DisplayScript([scriptRow EXCEPT !.value = IF source = "RELENG" THEN source ELSE scriptRow.entry])
  /\ UNCHANGED files /\ ScriptTells
TypePath(path) ==
  /\ Acts /\ scriptRow.value # "RELENG" /\ path # scriptRow.entry /\ scriptRow' = [scriptRow EXCEPT !.entry = path]
  /\ UNCHANGED files /\ ScriptQuiet
ApplyPath ==
  /\ Acts /\ scriptRow.value # "RELENG" /\ ScriptPending(scriptRow)
  /\ scriptRow' = DisplayScript([scriptRow EXCEPT !.value = scriptRow.entry])
  /\ UNCHANGED files /\ ScriptTells
TypeScript(text) ==
  /\ Acts /\ IsInside(scriptRow) /\ text # scriptRow.text /\ scriptRow' = [scriptRow EXCEPT !.text = text]
  /\ UNCHANGED files /\ ScriptQuiet
RevertScript ==
  /\ Acts /\ IsInside(scriptRow) /\ scriptRow.text # scriptRow.saved
  /\ scriptRow' = [scriptRow EXCEPT !.loaded = scriptRow.value, !.saved = Content(scriptRow.value), !.text = Content(scriptRow.value)]
  /\ UNCHANGED files /\ ScriptQuiet
SaveScript ==
  /\ Acts /\ IsInside(scriptRow) /\ scriptRow.text # scriptRow.saved
  /\ files' = [files EXCEPT ![scriptRow.value] = scriptRow.text] /\ scriptRow' = [scriptRow EXCEPT !.saved = scriptRow.text]
  /\ ScriptQuiet
\* _write_new_script(): with a name that no file has
WriteScript ==
  /\ Acts /\ scriptRow.value = "none" /\ \E path \in Paths : files[path] = "absent"
  /\ LET path == IF files["in1"] = "absent" THEN "in1" ELSE "in2"
         displayed == DisplayScript([scriptRow EXCEPT !.value = path, !.entry = path]) IN
     /\ scriptRow' = [displayed EXCEPT !.text = "new", !.saved = "new"]
     /\ files' = [files EXCEPT ![path] = "new"]
  /\ ScriptTells
Script ==
  \/ ApplyPath \/ RevertScript \/ SaveScript \/ WriteScript
  \/ \E source \in {"RELENG", "custom"} : SelectScript(source)
  \/ \E path \in Paths \cup {"none", "outside"} : TypePath(path)
  \/ \E text \in Scripts : TypeScript(text)

-----------------------------------------------------------------------------
(* The cache: automatic, a folder that is chosen in a dialog, or none.     *)

Folders == {"f"}
Source(value) == IF value = "AUTO" THEN "automatic" ELSE IF value = "none" THEN "none" ELSE "folder"
\* StageCacheRow.load_state(): the folder is remembered.
LoadCache(row, value) ==
  [value |-> value, folder |-> IF Source(value) = "folder" THEN value ELSE row.folder, active |-> Source(value), dialog |-> FALSE]
NewCacheRow(value) == LoadCache([folder |-> "none"], value)
CacheTells == Tells("cache", cacheRow'.value) /\ Others(<<stage, files, listRow, scriptRow, kernelRows, typed>>)
CacheQuiet == Others(<<stage, files, listRow, scriptRow, kernelRows, typed, changed, wanted>>)
SetCache(row, value) == cacheRow' = [row EXCEPT !.value = value, !.dialog = FALSE] /\ CacheTells
ToggleCache(source) ==
  /\ Acts /\ source # cacheRow.active
  /\ LET row == [cacheRow EXCEPT !.active = source] IN
     IF source = "folder" /\ row.folder = "none" THEN cacheRow' = [row EXCEPT !.dialog = TRUE] /\ CacheQuiet
     ELSE SetCache(row, IF source = "automatic" THEN "AUTO" ELSE IF source = "none" THEN "none" ELSE row.folder)
ChooseFolder == Acts /\ cacheRow' = [cacheRow EXCEPT !.dialog = TRUE] /\ CacheQuiet
\* Fault: the dialog was canceled, the row stays at the folder.
CancelKeeps(row) == [row EXCEPT !.dialog = FALSE]
CancelFolder(row) == [row EXCEPT !.active = Source(row.value), !.dialog = FALSE]
\* _on_folder_selected()
FolderSelected ==
  /\ cacheRow.dialog /\ UNCHANGED actions
  /\ \/ cacheRow' = CancelFolder(cacheRow) /\ CacheQuiet
     \/ \E folder \in Folders : SetCache([cacheRow EXCEPT !.active = "folder", !.folder = folder], folder)
Cache == ChooseFolder \/ FolderSelected \/ \E source \in {"automatic", "folder", "none"} : ToggleCache(source)

-----------------------------------------------------------------------------
(* The main loop, and other rows.                                          *)

\* The default of the list is the template, where the stage has one.
DefaultList(template) == IF template THEN <<"RELENG">> ELSE <<>>
RefreshDefault(st) == [st EXCEPT !.list = IF st.explicit THEN @ ELSE DefaultList(st.template)]
\* What the row r has stored, with argument_changed() and refresh_default_stage_arguments()
Changed(r) ==
  CASE r = "list" -> [stage EXCEPT !.list = listRow.value, !.explicit = TRUE]
    [] r = "script" -> RefreshDefault([stage EXCEPT !.script = scriptRow.value])
    [] r = "cache" -> RefreshDefault([stage EXCEPT !.cache = cacheRow.value])
    [] r = "template" -> RefreshDefault([stage EXCEPT !.template = wanted.template])
\* Rows but the changed one are read again, then those of kernels.
Refreshed(r, st) ==
  /\ Store(st) /\ NewRows(st)
  /\ listRow' = IF r = "list" THEN listRow ELSE RefreshList(listRow, st.list)
  /\ scriptRow' = IF r = "script" THEN scriptRow ELSE RefreshScript(scriptRow, st.script)
  /\ cacheRow' = IF r = "cache" THEN cacheRow ELSE LoadCache(cacheRow, st.cache)
Deliver ==
  /\ changed # <<>> /\ changed' = Tail(changed) /\ Refreshed(Head(changed), Changed(Head(changed)))
  /\ Others(<<files, wanted, actions>>)
ChangeTemplate ==
  /\ Acts /\ Tells("template", ~wanted.template)
  /\ Others(<<stage, files, listRow, scriptRow, cacheRow, kernelRows, typed>>)

\* The list is restored to its default: all rows are new.
RestoreList ==
  /\ Acts /\ stage.explicit
  /\ LET st == RefreshDefault([stage EXCEPT !.list = <<>>, !.explicit = FALSE]) IN
     /\ Store(st) /\ kernelRows' = KernelRows(st)
     /\ listRow' = LoadList(st.list) /\ scriptRow' = NewScriptRow(st.script) /\ cacheRow' = NewCacheRow(st.cache)
  /\ typed' = [list |-> <<NotTyped>>, kernel |-> [name \in AllNames |-> NotTyped]]
  /\ Others(<<files, changed, wanted>>)

InitialStage(template, names) ==
  [list |-> DefaultList(template), explicit |-> FALSE, script |-> "none", cache |-> "AUTO", template |-> template,
   kernels |-> names, settings |-> [name \in AllNames |-> Unset]]
Init ==
  /\ files = [path \in Paths |-> "absent"]
  /\ \E template \in BOOLEAN, names \in {<<"RELENG">>, <<"g">>} :
       /\ stage = InitialStage(template, names) /\ kernelRows = KernelRows(stage)
  /\ listRow = LoadList(stage.list) /\ scriptRow = NewScriptRow("none") /\ cacheRow = NewCacheRow("AUTO")
  /\ changed = <<>> /\ actions = 0
  /\ typed = [list |-> <<NotTyped>>, kernel |-> [name \in AllNames |-> NotTyped]]
  /\ wanted = [list |-> stage.list, script |-> "none", cache |-> "AUTO", template |-> stage.template]
  /\ asked = [what |-> "none", name |-> "g", key |-> "none", value |-> "none"]

Next == Kernels \/ List \/ Script \/ Cache \/ ChangeTemplate \/ RestoreList \/ Deliver
Spec == Init /\ [][Next]_vars

-----------------------------------------------------------------------------
(* Properties.                                                             *)

TypeOK ==
  /\ \A name \in AllNames, key \in Keys : stage.settings[name][key] \in {"none", "yes", "no", "x"} \cup DOMAIN KindOf
  /\ ToSet(changed) \subseteq {"list", "script", "cache", "template"}

\* When the main loop is idle what was chosen in a row is stored, the row shows
\* it, and the text in its editor is what the user typed; only a row with text that is not applied
\* may still show the options it had before a default changed.
RowsTell ==
  changed = <<>> =>
    /\ (stage.explicit => stage.list = wanted.list) /\ stage.script = wanted.script /\ stage.cache = wanted.cache
    /\ ListPending(listRow) \/ listRow.value = stage.list
    /\ OwnIn(listRow.value) = OwnIn(stage.list)
    /\ typed.list # <<NotTyped>> => listRow.text = typed.list
    /\ scriptRow.value = stage.script /\ cacheRow.value = stage.cache
    /\ IsInside(scriptRow) => scriptRow.loaded = scriptRow.value /\ scriptRow.saved = Content(scriptRow.value)
    /\ ~cacheRow.dialog => cacheRow.active = Source(cacheRow.value)
    /\ \A name \in AllNames :
         /\ kernelRows[name].shown = Contains(EditableNames(stage), name)
         /\ kernelRows[name].known => kernelRows[name].active = (SpecValue(stage, name, "distkernel") = "yes")
         /\ kernelRows[name].shown /\ typed.kernel[name] # NotTyped => kernelRows[name].text = typed.kernel[name]

\* What is asked of a kernel is in the spec that is built, with nothing else
\* changed: another kernel keeps its lines, a renamed one its settings and
\* its place, and a new one has none of another.
SpecOf(st, name) == [key \in Keys |-> SpecValue(st, name, key)]
OthersKeep(names) == \A name \in AllNames \ names : SpecOf(stage', name) = SpecOf(stage, name)
KernelEdits ==
  CASE asked'.what = "set" /\ asked' # asked ->
         /\ OthersKeep({asked'.name}) /\ stage'.kernels = stage.kernels
         /\ asked'.value # "none" \/ asked'.key = "distkernel" => SpecValue(stage', asked'.name, asked'.key) = asked'.value
    [] asked'.what = "rename" /\ asked' # asked ->
         /\ OthersKeep({asked'.name, asked'.value})
         /\ \A i \in DOMAIN stage.kernels :
              stage'.kernels[i] = IF stage.kernels[i] = asked'.name THEN asked'.value ELSE stage.kernels[i]
         /\ "g" \notin {asked'.name, asked'.value} => SpecOf(stage', asked'.value) = SpecOf(stage, asked'.name)
    [] asked'.what = "add" /\ asked' # asked ->
         /\ OthersKeep({asked'.name}) /\ ~Contains(KernelNames(stage), asked'.name) /\ ~Contains(OwnNames(stage), asked'.name)
         /\ SpecValue(stage', asked'.name, "use") = RelengSetting(stage', asked'.name, "use")
    [] asked'.what = "remove" /\ asked' # asked ->
         OthersKeep({asked'.name}) /\ OwnNames(stage') = SelectSeq(OwnNames(stage), LAMBDA name : name # asked'.name)
    [] OTHER -> asked'.what = "none" /\ stage'.template = stage.template => \A name \in AllNames : SpecOf(stage', name) = SpecOf(stage, name)
=============================================================================
