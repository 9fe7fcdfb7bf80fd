----------------------------- MODULE StageValues -----------------------------
(***************************************************************************)
(* Values of the arguments of stages: what a stage inherits from its       *)
(* parent, takes from its Releng template or leaves to be generated        *)
(* (project_stage_value_resolver.py), the defaults of what is not set      *)
(* (project_stage.py), the lines of its spec (project_build_spec.py), and  *)
(* the overlays that are combined for it (project_stage_portage_confdir.py)*)
(*                                                                         *)
(* A value is nothing, one item, or a list of items; options and sources   *)
(* are items.  Each kind of argument has a representative.                 *)
(***************************************************************************)
EXTENDS Naturals, Sequences, SequencesExt, FiniteSets

CONSTANTS
  Order,      \* the stages, in the order of their directories
  Chain,      \* the parents of a chain: a function from stages to stages, "none" and "gone"
  Projects,   \* projects to begin with: parents, targets and Releng templates of stages
  Contents    \* what the file of each overlay folder of a stage may hold, 0 when it has none

VARIABLES
  p,       \* the project: parents, targets, templates, values, and what of them is explicit or a default
  files,   \* of the overlay folders of stages
  did      \* "loaded", "fresh" with defaults, "parent" changed, or the stage that a template has made

vars == <<p, files, did>>

Stages == ToSet(Order)
Options == {"PARENT", "RELENG", "AUTO"}
Sources == <<"releng", "parent overlay", "stage overlay">>
Empty == [kind |-> "none", items |-> <<>>]
Unresolved == [kind |-> "unresolved", items |-> <<>>]
One(item) == [kind |-> "one", items |-> <<item>>]
Many(items) == [kind |-> "list", items |-> items]
OrNone(items) == IF items = <<>> THEN Empty ELSE Many(items)
HasValue(v) == v \notin {Empty, Unresolved, Many(<<>>)}
Distinct(items) == FoldLeft(LAMBDA kept, item : IF Contains(kept, item) THEN kept ELSE Append(kept, item), <<>>, items)

-----------------------------------------------------------------------------
(* Arguments and targets.                                                  *)

AutomaticOptions == [
  subarch |-> <<"PARENT", "RELENG">>, rel_type |-> <<"PARENT", "RELENG">>, version_stamp |-> <<"PARENT", "RELENG">>,
  cflags |-> <<"PARENT", "RELENG">>, stage4_packages |-> <<"PARENT", "RELENG">>, stage4_use |-> <<"RELENG">>,
  interpreter |-> <<"AUTO", "RELENG">>, pkgcache_path |-> <<"AUTO">>, source_subpath |-> <<"AUTO">>,
  portage_confdir |-> <<>>, root_overlay |-> <<>>, livecd_overlay |-> <<>>]
Args == DOMAIN AutomaticOptions
Allows(a, option) == Contains(AutomaticOptions[a], option)
AllowsAdditions(a) == a \in {"cflags", "stage4_packages", "stage4_use", "interpreter"}
IsText(a) == a \in {"subarch", "rel_type", "version_stamp", "cflags", "pkgcache_path", "source_subpath"}
Overlays == {"root_overlay", "livecd_overlay"}

\* What the source of a target declares, without and with that of all targets, and what is added to both
BaseArguments == [valid |-> {"rel_type", "version_stamp", "cflags", "interpreter", "pkgcache_path", "portage_confdir"},
                  required |-> {"rel_type", "version_stamp", "subarch", "source_subpath"}]
OwnArguments == [stage1 |-> {}, stage3 |-> {}, livecd_stage2 |-> {"root_overlay", "livecd_overlay"},
                 stage4 |-> {"stage4_packages", "stage4_use", "root_overlay"}]
LoadStageArguments(target) ==
  [valid |-> OwnArguments[target] \cup BaseArguments.valid \cup BaseArguments.required \cup {"name", "parent", "releng_template"},
   required |-> BaseArguments.required \cup {"name"} \cup (IF target = "stage1" THEN {} ELSE {"parent"})]
ArgumentsOf(target) == LoadStageArguments(target).valid \cap Args

ParentStage(q, s) == IF q.parent[s] \in Stages THEN q.parent[s] ELSE "none"
HasParent(q, s) == q.parent[s] # "none"

RootOverlayOf(q, s) == q.target[s] \in {"stage4", "livecd_stage2"}

ParentSupportsArgument(q, s, a) ==
  /\ a # "root_overlay" /\ ParentStage(q, s) # "none"
  /\ a \in ArgumentsOf(q.target[ParentStage(q, s)])

\* Options of a row that can be selected
Offered(q, s) == {o \in Options : /\ o = "PARENT" => HasParent(q, s)
                                  /\ o = "RELENG" => q.template[s] # "none"}
OfferedFor(q, s, a) == {o \in Offered(q, s) : Allows(a, o) /\ (o = "PARENT" => ParentSupportsArgument(q, s, a))}

-----------------------------------------------------------------------------
(* Releng templates: spec files, lines with a key or without one.          *)

Line(key, words) == [key |-> key, words |-> words]
SpecFiles == [
  full |-> <<Line("subarch", <<"zen">>), Line("stage4_packages", <<"a", "b">>), Line("", <<"c">>),
             Line("rel_type", <<"hard">>), Line("cflags", <<"-O2", "-g">>), Line("stage4_use", <<>>), Line("", <<"u">>)>>,
  bare |-> <<Line("", <<"lost">>), Line("stage4_packages", <<"a">>), Line("subarch", <<>>)>>]

\* _parse_spec_file(): words of lines without a key belong to the key before
ParseSpecFile(lines, key) ==
  LET Key(i) == LET keyed == {j \in 1 .. i : lines[j].key # ""} IN
                IF keyed = {} THEN "" ELSE lines[CHOOSE j \in keyed : \A k \in keyed : k <= j].key IN
  FlattenSeq([i \in DOMAIN lines |-> IF Key(i) = key THEN lines[i].words ELSE <<>>])
TemplateValue(q, s, a) == ParseSpecFile(SpecFiles[q.template[s]], a)
TemplateReadable(q, s) == q.template[s] \in DOMAIN SpecFiles

ConvertRelengValue(a, words) ==
  IF words = <<>> THEN Empty ELSE IF IsText(a) /\ a # "cflags" THEN One(words[1]) ELSE Many(words)

-----------------------------------------------------------------------------
(* Resolving.                                                              *)

IsOption(item) == item \in Options
OptionsIn(v) == Distinct(SelectSeq(v.items, IsOption))
OwnIn(v) == SelectSeq(v.items, LAMBDA item : ~IsOption(item))
\* split_additions()
Joins(v) == v.kind = "list" /\ Len(v.items) >= 2 /\ OptionsIn(v) # <<>>
Single(v) == IF v.kind = "list" /\ Len(v.items) = 1 /\ IsOption(v.items[1]) THEN One(v.items[1]) ELSE v

\* stage_cache_path(), as what it depends on: the root of the cache and the release type
CachePath(v, relType) ==
  IF v.kind = "one" /\ ~IsOption(v.items[1]) THEN v
  ELSE IF v # One("AUTO") \/ relType.kind # "one" THEN Empty ELSE [kind |-> "one", items |-> <<"cache", relType.items[1]>>]

\* resolve_stage_argument() of the value v of stage s, or of one option instead of it
RECURSIVE Resolve(_, _, _, _, _)
\* Fault: entries that are inherited and own ones appear twice.
CombineTwice(q, s, a, v, visited) ==
  LET base == [i \in DOMAIN OptionsIn(v) |-> Resolve(q, s, a, One(OptionsIn(v)[i]), visited)] IN
  IF \E i \in DOMAIN base : base[i] = Unresolved THEN Unresolved
  ELSE OrNone(FlattenSeq([i \in DOMAIN base |-> base[i].items]) \o OwnIn(v))
Combine(q, s, a, v, visited) ==
  LET base == [i \in DOMAIN OptionsIn(v) |-> Resolve(q, s, a, One(OptionsIn(v)[i]), visited)]
      all == FlattenSeq([i \in DOMAIN base |-> base[i].items]) \o OwnIn(v) IN
  IF \E i \in DOMAIN base : base[i] = Unresolved THEN Unresolved
  ELSE OrNone(IF IsText(a) THEN all ELSE Distinct(all))
FromParent(q, s, a, visited) ==
  LET parent == ParentStage(q, s) IN
  IF parent = "none" THEN Unresolved ELSE Resolve(q, parent, a, q.values[parent][a], visited)
FromTemplate(q, s, a) ==
  IF TemplateReadable(q, s) THEN ConvertRelengValue(a, TemplateValue(q, s, a)) ELSE Unresolved
\* Fault: where Catalyst would leave the stage itself.
SubpathOfStage(q, s, visited) ==
  LET part == [a \in {"rel_type", "subarch", "version_stamp"} |-> Resolve(q, s, a, q.values[s][a], visited \ {s})] IN
  IF ParentStage(q, s) = "none" \/ \E a \in DOMAIN part : part[a].kind # "one" THEN Unresolved
  ELSE [kind |-> "one", items |-> <<part["rel_type"].items[1], q.target[ParentStage(q, s)], part["subarch"].items[1],
                                    part["version_stamp"].items[1]>>]
\* Where Catalyst leaves the parent: its release type, target, subarch and version stamp
GenerateSourceSubpath(q, s, visited) ==
  LET parent == ParentStage(q, s)
      part == [a \in {"rel_type", "subarch", "version_stamp"} |-> Resolve(q, parent, a, q.values[parent][a], visited)] IN
  IF parent = "none" THEN Unresolved
  ELSE IF \E a \in DOMAIN part : part[a].kind # "one" THEN Unresolved
  ELSE [kind |-> "one",
        items |-> <<part["rel_type"].items[1], q.target[parent], part["subarch"].items[1], part["version_stamp"].items[1]>>]
Generate(q, s, a, visited) ==
  CASE a = "source_subpath" -> GenerateSourceSubpath(q, s, visited)
    [] a = "pkgcache_path" ->
         LET path == CachePath(q.values[s][a], Resolve(q, s, "rel_type", q.values[s]["rel_type"], {})) IN
         IF path = Empty THEN Unresolved ELSE path
    [] OTHER -> Unresolved
Resolve(q, s, a, v, visited) ==
  IF AllowsAdditions(a) /\ Joins(v) THEN Combine(q, s, a, v, visited)
  ELSE IF Single(v).kind # "one" \/ ~IsOption(Single(v).items[1]) THEN Single(v)
  ELSE IF s \in visited THEN Unresolved
  ELSE CASE Single(v) = One("PARENT") -> FromParent(q, s, a, visited \cup {s})
         [] Single(v) = One("RELENG") -> FromTemplate(q, s, a)
         [] Single(v) = One("AUTO") -> Generate(q, s, a, visited \cup {s})
Resolved(q, s, a) == Resolve(q, s, a, q.values[s][a], {})

\* stage_argument_uses_option()
RECURSIVE UsesOption(_, _, _, _, _)
UsesOption(q, s, a, options, visited) ==
  /\ s # "none" /\ s \notin visited
  /\ \E item \in ToSet(q.values[s][a].items) :
       IF item = "PARENT" THEN UsesOption(q, ParentStage(q, s), a, options, visited \cup {s}) ELSE item \in options

-----------------------------------------------------------------------------
(* Defaults.                                                               *)

\* _preferred_default_option() and _preferred_option_or_value()
Prefer(q, s, a, options) ==
  LET usable == SelectSeq(options, LAMBDA o : o \in OfferedFor(q, s, a)) IN
  IF usable = <<>> THEN Empty ELSE One(usable[1])
PreferOr(q, s, a, options, fallback) == IF Prefer(q, s, a, options) = Empty THEN One(fallback) ELSE Prefer(q, s, a, options)

\* _default_subarch(), as _default_profile(): the option must lead to a value
DefaultSubarch(q, s, a) ==
  LET Leads(o) == HasValue(Resolve(q, s, a, One(o), {})) IN
  IF q.template[s] # "none" /\ Leads("RELENG") THEN One("RELENG")
  ELSE IF "PARENT" \in OfferedFor(q, s, a) /\ Leads("PARENT") THEN One("PARENT") ELSE One("amd64")

DefaultSources(withParent) == Many(IF withParent THEN <<"releng", "parent overlay">> ELSE <<"releng">>)

\* STAGE_DEFAULT_VALUES with default_stage_argument_value(), and the sources of overlays
DefaultValue(q, s, a) ==
  CASE a = "subarch" -> DefaultSubarch(q, s, a)
    [] a = "rel_type" -> PreferOr(q, s, a, <<"RELENG", "PARENT">>, "default")
    [] a = "version_stamp" -> PreferOr(q, s, a, <<"RELENG", "PARENT">>, "@TIMESTAMP@")
    [] a \in {"cflags", "stage4_packages"} -> Prefer(q, s, a, <<"RELENG", "PARENT">>)
    [] a = "stage4_use" -> Prefer(q, s, a, <<"RELENG">>)
    [] a \in {"interpreter", "pkgcache_path"} -> One("AUTO")
    [] a = "source_subpath" -> Empty
    [] a = "portage_confdir" -> DefaultSources(HasParent(q, s))
    [] a \in Overlays -> DefaultSources(HasParent(q, s) /\ ParentSupportsArgument(q, s, a))

\* Fault: old defaults stay until something replaces them.
RefreshKeepsOld(q, s) ==
  LET calculated == [a \in ArgumentsOf(q.target[s]) |-> DefaultValue(q, s, a)]
      Applies(a) == a \in DOMAIN calculated /\ q.values[s][a] = Empty /\ a \notin q.noneSet[s] IN
  [q EXCEPT !.values[s] = [a \in Args |-> IF Applies(a) THEN calculated[a] ELSE @[a]], !.defaults[s] = calculated]
\* refresh_default_stage_arguments(): old defaults go first, what is not set gets a new one.
RefreshDefaults(q, s) ==
  LET dropped == DOMAIN q.defaults[s] \ q.explicit[s]
      without == [q EXCEPT !.values[s] = [a \in Args |-> IF a \in dropped THEN Empty ELSE @[a]],
                           !.noneSet[s] = @ \ dropped, !.defaults[s] = [a \in {} |-> Empty]]
      calculated == [a \in ArgumentsOf(q.target[s]) |-> DefaultValue(without, s, a)]
      Applies(a) == a \in DOMAIN calculated /\ without.values[s][a] = Empty /\ a \notin without.noneSet[s] IN
  [without EXCEPT !.values[s] = [a \in Args |-> IF Applies(a) THEN calculated[a] ELSE @[a]],
                  !.defaults[s] = calculated]
\* What save_stage() would write: defaults are left out
Serialized(q, s) ==
  [a \in {x \in Args : /\ x \in DOMAIN q.defaults[s] => x \in q.explicit[s]
                       /\ q.values[s][x] # Empty \/ x \in q.noneSet[s]} |-> q.values[s][a]]

\* stages_tree() and walk_tree(): a stage whose parent is gone hangs below a node that stands for it; stages in a loop
\* are not below any root.
Children(q, s) == SelectSeq(Order, LAMBDA c : q.parent[c] = s)
RECURSIVE WalkTree(_, _)
WalkTree(q, s) == <<s>> \o FlattenSeq([i \in DOMAIN Children(q, s) |-> WalkTree(q, Children(q, s)[i])])
Roots(q) == SelectSeq(Order, LAMBDA s : ParentStage(q, s) = "none")
WalkProject(q) == FlattenSeq([i \in DOMAIN Roots(q) |-> WalkTree(q, Roots(q)[i])])

\* refresh_project_stage_defaults(): parents first, children find the defaults of their parents
RefreshProject(q) == FoldLeft(RefreshDefaults, q, WalkProject(q))

\* load_stage_possible_seeds()
InTree(q, s) == Contains(WalkProject(q), s)
\* Fault: only the stage itself is left out.
SeedsButItself(q, s) == Stages \ {s}
PossibleSeeds(q, s) == Stages \ (IF InTree(q, s) THEN ToSet(WalkTree(q, s)) ELSE {s})

\* remove_unsupported_parent_options()
UnsupportedParent(q, s, a) ==
  {"PARENT", "parent overlay"} \cap ToSet(q.values[s][a].items) # {} /\ ~ParentSupportsArgument(q, s, a)
RemoveUnsupported(q, s) ==
  LET Kept(v) == SelectSeq(v.items, LAMBDA item : item \notin {"PARENT", "parent overlay"}) IN
  [q EXCEPT !.values[s] = [a \in Args |->
     IF ~UnsupportedParent(q, s, a) THEN @[a]
     ELSE IF Kept(@[a]) = <<>> THEN Empty ELSE [kind |-> @[a].kind, items |-> Kept(@[a])]]]

-----------------------------------------------------------------------------
(* The spec of a stage that is built.                                      *)

\* _interpreter_argument_value(); the interpreter of an emulated target is known when it is built
AutomaticValue(a) == IF a = "interpreter" THEN One("qemu") ELSE Empty
InterpreterValue(q, s, a) ==
  LET v == q.values[s][a]
      Of(o) == IF o = "AUTO" THEN AutomaticValue(a) ELSE Resolve(q, s, a, One(o), {})
      parts == FlattenSeq([i \in DOMAIN OptionsIn(v) |-> Of(OptionsIn(v)[i]).items]) IN
  IF v = Empty THEN IF a \in q.noneSet[s] THEN Empty ELSE AutomaticValue(a)
  ELSE OrNone(Distinct(parts \o OwnIn(v)))
\* _argument_value() and _format_value(): what is not resolved has no line, but where CatalystLab decides.
ArgumentValue(q, s, a) ==
  CASE a = "interpreter" -> InterpreterValue(q, s, a)
    [] a = "source_subpath" -> GenerateSourceSubpath(q, s, {s})
    [] a = "pkgcache_path" -> CachePath(q.values[s][a], Resolved(q, s, "rel_type"))
    [] OTHER -> IF Resolved(q, s, a) = Unresolved /\ UsesOption(q, s, a, {"AUTO"}, {}) THEN AutomaticValue(a)
                ELSE Resolved(q, s, a)
Formatted(v) == SelectSeq(v.items, LAMBDA item : ~IsOption(item))
SpecLine(q, s, a) == IF a \in ArgumentsOf(q.target[s]) THEN Formatted(ArgumentValue(q, s, a)) ELSE <<>>
MissingRequired(q, s) == {a \in LoadStageArguments(q.target[s]).required \cap Args : SpecLine(q, s, a) = <<>>}

-----------------------------------------------------------------------------
(* Overlays: each folder of a stage has one file, or is not there.         *)

Uses(q, s, a, source) == Contains(q.values[s][a].items, source)
\* overlay_stages() and parent_overlay_stages()
RECURSIVE OverlayStages(_, _, _)
ParentOverlayStages(q, s, visited) == IF ParentStage(q, s) = "none" THEN <<>> ELSE OverlayStages(q, ParentStage(q, s), visited)
OverlayStages(q, s, visited) ==
  IF s \in visited THEN <<>>
  ELSE (IF Uses(q, s, "portage_confdir", "parent overlay") THEN ParentOverlayStages(q, s, visited \cup {s}) ELSE <<>>)
       \o (IF Uses(q, s, "portage_confdir", "stage overlay") THEN <<s>> ELSE <<>>)
\* parent_root_overlay_stages(), which does not look for loops
RECURSIVE ParentRootOverlayStages(_, _, _)
ParentRootOverlayStages(q, s, a) ==
  LET parent == ParentStage(q, s) IN
  IF parent = "none" \/ (a = "root_overlay" /\ ~RootOverlayOf(q, parent)) THEN <<>>
  ELSE ParentRootOverlayStages(q, parent, a) \o (IF Uses(q, parent, a, "stage overlay") THEN <<parent>> ELSE <<>>)

FromReleng == 9  \* the file of a Releng folder
Folder(folders, a) == [i \in DOMAIN folders |-> files[folders[i]][a]]
\* _copy_folders(): the last folder that has the file
Combined(contents) == FoldLeft(LAMBDA file, own : IF own = 0 THEN file ELSE own, 0, contents)
\* generate_portage_confdir(), and generate_root_overlay() with root_overlay_folders()
ConfdirFile(q, s) == Combined((IF Uses(q, s, "portage_confdir", "releng") THEN <<FromReleng>> ELSE <<>>)
                              \o Folder(OverlayStages(q, s, {}), "portage_confdir"))
OverlayFolders(q, s, a) ==
  (IF Uses(q, s, a, "releng") THEN <<FromReleng>> ELSE <<>>)
  \o (IF a # "root_overlay" /\ Uses(q, s, a, "parent overlay") THEN Folder(ParentRootOverlayStages(q, s, a), a) ELSE <<>>)
  \o (IF Uses(q, s, a, "stage overlay") THEN <<files[s][a]>> ELSE <<>>)
IsoFile(q, s) == Combined(OverlayFolders(q, s, "livecd_overlay"))
\* The file in the image of a stage: that of its parent, and what its own overlay adds
RECURSIVE ImageFile(_, _)
ImageFile(q, s) ==
  Combined((IF ParentStage(q, s) = "none" THEN <<>> ELSE <<ImageFile(q, ParentStage(q, s))>>)
           \o (IF RootOverlayOf(q, s) THEN OverlayFolders(q, s, "root_overlay") ELSE <<>>))

\* Fault: the first folder that has the file is compared.
RemoveSameFile(own, inherited) == IF own \in ToSet(inherited) THEN 0 ELSE own
\* remove_inherited_files()
RemoveInheritedFile(own, inherited) == IF inherited # <<>> /\ own = Combined(inherited) THEN 0 ELSE own
\* remove_stage_overlays_inherited_files()
CleanFolder(q, s, a) ==
  LET own == files[s][a] IN
  CASE a = "portage_confdir" ->
         IF Uses(q, s, a, "parent overlay") THEN RemoveInheritedFile(own, Folder(ParentOverlayStages(q, s, {}), a)) ELSE own
    [] a = "root_overlay" ->
         IF RootOverlayOf(q, s) /\ Uses(q, s, a, "stage overlay")
         THEN RemoveInheritedFile(own, Folder(ParentRootOverlayStages(q, s, a), a)) ELSE own
    [] OTHER ->
         IF q.target[s] = "livecd_stage2" /\ Uses(q, s, a, "parent overlay")
         THEN RemoveInheritedFile(own, Folder(ParentRootOverlayStages(q, s, a), a)) ELSE own

\* _enable_stage_overlays(): own files are used, by a stage that has some
OverlayOf(q, s) == {"portage_confdir"} \cup (IF RootOverlayOf(q, s) /\ q.target[s] = "stage4" THEN {"root_overlay"} ELSE {})
                   \cup (IF q.target[s] = "livecd_stage2" THEN Overlays ELSE {})
EnableOverlays(q, s, own) ==
  LET Value(a) == IF q.values[s][a].kind = "list" THEN q.values[s][a] ELSE DefaultSources(ParentSupportsArgument(q, s, a)) IN
  [q EXCEPT !.values[s] = [a \in Args |->
     IF a \in OverlayOf(q, s) /\ own[a] # 0
     THEN Many(SelectSeq(Sources, LAMBDA source : source = "stage overlay" \/ Contains(Value(a).items, source))) ELSE @[a]]]

-----------------------------------------------------------------------------
(* Behavior: a project is loaded, a build calculates its defaults and the  *)
(* user gives a stage another parent and builds again, or a stage is what  *)
(* a template has just made.                                               *)

\* What users store for an argument, beside nothing at all
Storable(a) ==
  CASE a \in {"subarch", "rel_type"} -> {One("PARENT"), One("RELENG"), One("own")}
    [] a = "version_stamp" -> {One("PARENT")}
    [] a = "stage4_packages" ->
         {Many(<<"PARENT">>), Many(<<"RELENG", "PARENT", "a">>), Many(<<"a", "b">>)}
    [] a = "cflags" -> {Many(<<"RELENG", "PARENT", "-g">>), Many(<<"PARENT", "-g">>)}
    [] a = "stage4_use" -> {Many(<<"RELENG", "u">>)}
    [] a = "interpreter" -> {Many(<<"AUTO", "RELENG", "qemu">>), Many(<<"AUTO">>)}
    [] a = "pkgcache_path" -> {One("AUTO"), One("own")}
    [] a = "source_subpath" -> {One("AUTO")}
    [] a = "portage_confdir" -> {Many(<<"parent overlay", "stage overlay">>), Many(<<"releng", "stage overlay">>), Many(<<"parent overlay">>)}
    [] a = "root_overlay" -> {Many(<<"parent overlay", "stage overlay">>), Many(<<"releng", "stage overlay">>), Many(<<"stage overlay">>)}
    [] a = "livecd_overlay" -> {Many(<<"parent overlay", "stage overlay">>), Many(<<"releng", "stage overlay">>), Many(<<"parent overlay">>)}

\* A stage that was loaded: what is stored is explicit
Loaded(project, a, stored, nones) ==
  [parent |-> project.parent, target |-> project.target, template |-> project.template,
   values |-> [s \in Stages |-> [x \in Args |-> IF x = a THEN stored[s] ELSE Empty]],
   explicit |-> [s \in Stages |-> IF stored[s] # Empty \/ s \in nones THEN {a} ELSE {}],
   noneSet |-> [s \in Stages |-> IF s \in nones THEN {a} ELSE {}],
   defaults |-> [s \in Stages |-> [x \in {} |-> Empty]]]
NoFiles == [s \in Stages |-> [a \in {"portage_confdir"} \cup Overlays |-> 0]]
NoContent == [s \in Stages |-> 0]
IsFolder(a) == a = "portage_confdir" \/ a \in Overlays

Init ==
  /\ \E project \in Projects, a \in Args :
       \E stored \in [Stages -> Storable(a) \cup {Empty}], content \in Contents :
         /\ IF IsFolder(a) THEN project.parent = Chain ELSE content = NoContent
         /\ p \in {Loaded(project, a, stored, {s \in nones : stored[s] = Empty}) :
                     nones \in IF a = "interpreter" THEN {{}, Stages} ELSE {{}}}
         /\ files = [s \in Stages |-> [x \in DOMAIN NoFiles[s] |-> IF x = a THEN content[s] ELSE 0]]
  /\ did = "loaded"

Refresh == did = "loaded" /\ p' = RefreshProject(p) /\ did' = "fresh" /\ UNCHANGED files

\* The argument "parent" of a stage is changed, and a build refreshes the project.
ChangeParent(s) ==
  /\ did = "fresh"
  /\ \E seed \in PossibleSeeds(p, s) : p' = RefreshProject([p EXCEPT !.parent[s] = seed])
  /\ did' = "parent" /\ UNCHANGED files

\* The stage that apply_project_template() has made, which saves it without defaults
Clean(s) ==
  /\ did = "loaded" /\ InTree(p, s) /\ Children(p, s) = <<>>
  /\ files' = [files EXCEPT ![s] = [a \in DOMAIN @ |-> CleanFolder(RemoveUnsupported(p, s), s, a)]]
  /\ p' = EnableOverlays(RemoveUnsupported(p, s), s, files'[s])
  /\ did' = s

Next == Refresh \/ \E s \in Stages : ChangeParent(s) \/ Clean(s)
Spec == Init /\ [][Next]_vars

-----------------------------------------------------------------------------
(* Properties.                                                             *)

TypeOK ==
  /\ \A s \in Stages : p.parent[s] \in Stages \cup {"none", "gone"} /\ DOMAIN p.defaults[s] \subseteq Args
  /\ \A s \in Stages, a \in Args : p.values[s][a].kind \in {"none", "one", "list"}

Fresh == did \in {"fresh", "parent"}
\* The argument that has stored values, and all when none has
Studied == LET stored == UNION {p.explicit[s] : s \in Stages} IN IF stored = {} THEN Args ELSE stored
Ancestors(q, s) == {t \in Stages : InTree(q, t) /\ t # s /\ Contains(WalkTree(q, t), s)}
Acyclic(q) == \A s \in Stages : InTree(q, s)

\* resolve_stage_argument() follows parents and templates to values that fit
\* together: that of each stage is what its own entries and the values of its
\* parent and its template make; parents that form a loop give none.
Fits(s, a) ==
  LET Of(o) == CASE o = "PARENT" -> IF ParentStage(p, s) = "none" THEN Unresolved ELSE Resolved(p, ParentStage(p, s), a)
                 [] o = "RELENG" -> FromTemplate(p, s, a)
                 [] o = "AUTO" -> Unresolved
      v == p.values[s][a]
      opts == OptionsIn(v)
      inherited == FlattenSeq([i \in DOMAIN opts |-> Of(opts[i]).items]) IN
  Resolved(p, s, a) =
    IF opts = <<>> THEN v
    ELSE IF \E o \in ToSet(opts) : Of(o) = Unresolved THEN Unresolved
    ELSE IF Len(v.items) = 1 THEN Of(opts[1])
    ELSE OrNone(IF IsText(a) THEN inherited \o OwnIn(v) ELSE Distinct(inherited \o OwnIn(v)))
Looped(s, a) == ~InTree(p, s) /\ \A t \in Stages : InTree(p, t) \/ Contains(p.values[t][a].items, "PARENT")
ResolvesToSolution ==
  \A a \in Studied \ {"source_subpath", "pkgcache_path"}, s \in Stages :
    Fits(s, a) /\ (Looped(s, a) => Resolved(p, s, a) = Unresolved)

\* Defaults do not depend on being calculated again, are options that the row
\* of the argument offers, and lead to a value wherever stored options do;
\* what is stored stays as it is, and nothing else would be saved.
Dangling(q, s, a) == \E t \in Ancestors(q, s) \cup {s} :
  \/ a \in q.explicit[t] /\ Resolved(q, t, a) = Unresolved
  \/ ~TemplateReadable(q, t) /\ q.template[t] # "none"
DefaultsSettle ==
  Fresh => \A s \in {Last(WalkTree(p, r)) : r \in ToSet(Roots(p))} :
    /\ RefreshDefaults(p, s) = p
    /\ \A a \in (DOMAIN p.defaults[s] \cap (Studied \cup {"subarch"})) \ p.explicit[s] :
         /\ \A o \in ToSet(OptionsIn(p.values[s][a])) : o \in OfferedFor(p, s, a)
         /\ Resolved(p, s, a) = Unresolved => Contains(p.values[s][a].items, "AUTO") \/ Dangling(p, s, a)
StoredOnly == did \notin Stages => \A s \in Stages : DOMAIN Serialized(p, s) \subseteq p.explicit[s]

\* Arguments that say where Catalyst leaves a stage, all of them required
Naming == {"rel_type", "subarch", "version_stamp", "source_subpath"}

\* The seed that a stage names is what the build of its parent is called; a
\* line of a spec has no option in it, and required arguments have one when
\* the stage has a parent and nothing it inherits is lost.
SeedIsParentOutput ==
  Fresh /\ Studied \cap Naming # {} => \A s \in Stages : ParentStage(p, s) # "none" /\ Acyclic(p) =>
    LET parent == ParentStage(p, s)
        parts == [a \in {"rel_type", "subarch", "version_stamp"} |-> SpecLine(p, parent, a)] IN
    ArgumentValue(p, s, "source_subpath").items =
      IF \E a \in DOMAIN parts : parts[a] = <<>> THEN <<>>
      ELSE <<parts.rel_type[1], p.target[parent], parts.subarch[1], parts.version_stamp[1]>>
RequiredHaveLines ==
  Fresh /\ Studied \cap Naming # {} => \A s \in Stages : InTree(p, s) /\ Ancestors(p, s) # {} =>
    \A a \in MissingRequired(p, s) : \E t \in Ancestors(p, s) \cup {s}, b \in {a, "rel_type", "subarch", "version_stamp"} :
      Dangling(p, t, b) \/ b \in p.noneSet[t] \/ Resolved(p, t, b) = Empty

\* Parents that are offered do not make a loop.
NoLoopMade == Acyclic(p) => Acyclic(p')

\* A file that is removed because the stage inherits it is still there when
\* the stage, or one that is built on it, is built; for the root overlay where
\* no Releng overlay comes in between (README.md has the other case).
RelengBetween(q, s) == \E t \in Ancestors(q, s) \cup {s} : RootOverlayOf(q, t) /\ Uses(q, t, "root_overlay", "releng")
FilesStay == did' \in Stages =>
  \A kept \in {RefreshProject(EnableOverlays(RemoveUnsupported(p, did'), did', files[did']))},
     cleaned \in {RefreshProject(q) : q \in {p'}}, s \in Stages :
    kept # cleaned \/ files' # files =>
    /\ ConfdirFile(cleaned, s)' = ConfdirFile(kept, s)
    /\ IsoFile(cleaned, s)' = IsoFile(kept, s)
    /\ InTree(kept, s) /\ ~RelengBetween(kept, s) => ImageFile(cleaned, s)' = ImageFile(kept, s)
=============================================================================
