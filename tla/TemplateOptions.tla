--------------------------- MODULE TemplateOptions ---------------------------
(***************************************************************************)
(* Options of a project template and the stages generated for them         *)
(* (project_template.py, project_template_views.py): selections are        *)
(* resolved to what is available, groups are applied to stages unless an   *)
(* ancestor gives them already, every init system gets its own variant of  *)
(* the stages, and a project keeps the ids of stages it has.               *)
(***************************************************************************)
EXTENDS Integers, Sequences, SequencesExt

CONSTANTS
  Templates,  \* versions of the template, see TemplateAssumption
  Clones,     \* overlays have to be cloned, which may fail
  MaxPending, \* changes before a queued rebuild, and
  MaxApplied  \* generations of a project, by template: bounds for model checking

None == <<"None">>  \* value of a variable that is not used
NoStage == ""       \* parent of a stage that has none
InitSystems == "init_systems"

\* A condition is a set of name and value: each has to be selected.
Condition(t) == SUBSET ({t.variables[i].id : i \in DOMAIN t.variables} \X STRING)
TemplateAssumption ==
  \A t \in Templates :
    /\ \A i \in DOMAIN t.variables : t.variables[i].multiple \in BOOLEAN /\ t.variables[i].minimum \in Nat
    /\ \A i \in DOMAIN t.stages : t.stages[i].parent = NoStage \/ \E j \in 1..i - 1 : t.stages[j].id = t.stages[i].parent
    /\ t.suffix \in BOOLEAN

VARIABLES
  template,   \* template whose options are shown
  selected,   \* values chosen so far, by variables and groups
  names,      \* values of the last rebuild
  generated,  \* its stages, or an error
  scheduled,  \* changes a queued rebuild will show (_rebuild_scheduled)
  ids,        \* stage_ids of the project's template state: uuids by persistent id
  last,       \* stages of the last generation
  uuids,      \* uuids given so far
  applied

view == <<template, selected, names, generated, scheduled>>
project == <<ids, last, uuids, applied>>
vars == <<view, project>>

(***************************************************************************)
(* Resolving                                                               *)
(***************************************************************************)
Holds(when, values) == \A c \in when : c[1] \in DOMAIN values /\ c[2] \in ToSet(values[c[1]])
With(values, name, value) == [n \in DOMAIN values \cup {name} |-> IF n = name THEN value ELSE values[n]]
Get(values, name, default) == IF name \in DOMAIN values THEN values[name] ELSE default
\* available_options()
Available(variable, values) ==
  LET those == SelectSeq(variable.options, LAMBDA o : Holds(o.when, values)) IN [i \in DOMAIN those |-> those[i].value]

\* A selection of one init system made before there were several is kept.
Chosen(variable, sel) ==
  LET value == Get(sel, variable.id, None) IN
  IF variable.id = InitSystems /\ value = None /\ Get(sel, "init", None) \in {<<"openrc">>, <<"systemd">>}
  THEN sel["init"] ELSE value

\* Fault: options of a multiple choice are tested without the choice.
ResolveAlone(variable, value, values) ==
  LET current == IF value = None THEN variable.default ELSE value IN
  SelectSeq(current, LAMBDA o : o \in {x.value : x \in ToSet(variable.options)})
\* Options of a multiple choice may ask for another option of the same
\* variable: they are tested with the current selection.
ResolveMultiple(variable, value, values) ==
  LET current == IF value = None THEN variable.default ELSE value IN
  SelectSeq(Available(variable, With(values, variable.id, current)), LAMBDA o : o \in ToSet(current))
ResolveChoice(variable, value, values) ==
  LET options == Available(variable, values) IN
  IF value # None /\ value[1] \in ToSet(options) THEN value
  ELSE IF variable.default[1] \in ToSet(options) THEN variable.default
  ELSE <<options[1]>>
ResolveVariable(sel, values, variable) ==
  LET value == Chosen(variable, sel) IN
  With(values, variable.id,
       IF ~Holds(variable.when, values) THEN None
       ELSE IF variable.multiple THEN ResolveMultiple(variable, value, values)
       ELSE ResolveChoice(variable, value, values))

GroupKey(g) == "group:" \o g
Selection(t, sel, group) == Get(sel, GroupKey(group.id), [enabled |-> group.default, stages |-> group.defaultStages])
\* names["groups"] and the stages selected for each enabled group
GroupStages(t, sel, values) ==
  [g \in {x \in ToSet(t.groups) : Holds(x.when, values) /\ Selection(t, sel, x).enabled} |->
     g.stages \cap Selection(t, sel, g).stages]

Resolve(t, sel) ==
  LET values == FoldLeft(LAMBDA v, variable : ResolveVariable(sel, v, variable), [n \in {} |-> None], t.variables) IN
  [values |-> values, groups |-> GroupStages(t, sel, values)]

(***************************************************************************)
(* Generating                                                              *)
(***************************************************************************)
GeneratedStageIds(t, values) ==
  FoldLeft(LAMBDA made, s : IF (s.parent = NoStage \/ s.parent \in made) /\ Holds(s.when, values) THEN made \cup {s.id} ELSE made,
           {}, t.stages)

StageOf(t, id) == CHOOSE s \in ToSet(t.stages) : s.id = id
\* Parent, its parent and so on
Ancestors(t, id) ==
  LET step(line, n) == IF Last(line) = NoStage THEN line ELSE Append(line, StageOf(t, Last(line)).parent) IN
  SelectSeq(FoldLeft(step, <<StageOf(t, id).parent>>, t.stages), LAMBDA a : a # NoStage)

\* Fault: a stage selected for the group gets it, also when its parent has given it.
AppliedWhenSelected(t, values, chosen, id) == id \in chosen
\* group_inherited_from(): the nearest ancestor the group is applied to
GroupInheritedFrom(t, values, chosen, id) ==
  LET giving == SelectSeq(Ancestors(t, id), LAMBDA a : a \in chosen /\ a \in GeneratedStageIds(t, values)) IN
  IF giving = <<>> THEN NoStage ELSE giving[1]
GroupAppliedTo(t, values, chosen, id) == id \in chosen /\ GroupInheritedFrom(t, values, chosen, id) = NoStage

Error == [error |-> TRUE, stages |-> <<>>]
StageName(stage, values) == IF stage.named THEN <<stage.id, Get(values, "init", None)>> ELSE <<stage.id>>
\* _generate_single(): a stage needs its parent and a name of its own
GenerateSingle(t, values, groups) ==
  LET Groups(s) == {g \in DOMAIN groups : GroupAppliedTo(t, values, groups[g], s.id)}
      Add(result, s) ==
        IF result.error \/ ~Holds(s.when, values) THEN result
        ELSE IF (s.parent # NoStage /\ ~\E x \in ToSet(result.stages) : x.logical = s.parent)
                \/ \E x \in ToSet(result.stages) : x.name = StageName(s, values) THEN Error
        ELSE [error |-> FALSE, stages |-> Append(result.stages,
                [id |-> <<s.id>>, logical |-> s.id, name |-> StageName(s, values),
                 parent |-> IF s.parent = NoStage THEN <<>> ELSE <<s.parent>>, groups |-> {g.id : g \in Groups(s)},
                 persistent |-> IF t.suffix THEN <<s.id, Get(values, "init", None)>> ELSE <<s.id>>])] IN
  FoldLeft(Add, [error |-> FALSE, stages |-> <<>>], t.stages)

\* generate(): a variant of all stages for every init system
Generate(t, resolved) ==
  LET values == resolved.values
      few(v) == v.multiple /\ (values[v.id] = None \/ Len(values[v.id]) < v.minimum)
      Variant(init) ==
        LET single == GenerateSingle(t, With(values, "init", <<init>>), resolved.groups) IN
        [single EXCEPT !.stages = [i \in DOMAIN @ |->
           [@[i] EXCEPT !.id = Append(@, init), !.parent = IF @ = <<>> THEN <<>> ELSE Append(@, init)]]]
      Join(result, init) == IF result.error \/ Variant(init).error THEN Error
                            ELSE [error |-> FALSE, stages |-> result.stages \o Variant(init).stages] IN
  IF \E v \in ToSet(t.variables) : few(v) THEN Error
  ELSE IF InitSystems \notin DOMAIN values THEN GenerateSingle(t, values, resolved.groups)
  ELSE FoldLeft(Join, [error |-> FALSE, stages |-> <<>>], values[InitSystems])

(***************************************************************************)
(* The options view                                                        *)
(***************************************************************************)
NoSelection == [n \in {} |-> None]
Rebuilt(t, sel) ==
  LET resolved == Resolve(t, sel)
      groups == {n \in DOMAIN sel : \E g \in ToSet(t.groups) : n = GroupKey(g.id)} IN
  /\ names' = resolved /\ generated' = Generate(t, resolved) /\ scheduled' = 0
  /\ selected' = [n \in groups \cup DOMAIN resolved.values |-> IF n \in groups THEN sel[n] ELSE resolved.values[n]]

Init ==
  /\ template \in Templates
  /\ selected = NoSelection /\ names = Resolve(template, NoSelection) /\ generated = Generate(template, names)
  /\ scheduled = 1
  /\ ids = NoSelection /\ last = <<>> /\ uuids = 0 /\ applied = 0

\* _rebuild(), queued once for the changes made before it
Rebuild == scheduled > 0 /\ Rebuilt(template, selected) /\ UNCHANGED <<template, project>>

Changed(name, value) ==
  /\ scheduled < MaxPending
  /\ selected' = With(selected, name, value) /\ scheduled' = scheduled + 1
  /\ UNCHANGED <<template, names, generated, project>>

\* Rows are those of the last rebuild.
Visible(v) == v.id \in DOMAIN names.values /\ names.values[v.id] # None
SetValue(v, value) ==
  /\ Visible(v) /\ ~v.multiple /\ value \in ToSet(Available(v, names.values))
  /\ Get(selected, v.id, None) # <<value>> /\ Changed(v.id, <<value>>)
ToggleOption(v, value) ==
  /\ Visible(v) /\ v.multiple /\ value \in ToSet(Available(v, names.values))
  /\ LET now == Get(selected, v.id, <<>>)
         others == SelectSeq(IF now = None THEN <<>> ELSE now, LAMBDA o : o # value) IN
     Changed(v.id, IF value \in ToSet(now) THEN others ELSE Append(others, value))

SetGroup(g, enabled) ==
  /\ Holds(g.when, names.values) /\ Selection(template, selected, g).enabled # enabled
  /\ Changed(GroupKey(g.id), [Selection(template, selected, g) EXCEPT !.enabled = enabled])
\* The check button of a stage that has the group from an ancestor is insensitive.
SetGroupStage(g, s, on) ==
  /\ Holds(g.when, names.values) /\ ~generated.error /\ \E x \in ToSet(generated.stages) : x.logical = s
  /\ s \in g.stages
  /\ GroupInheritedFrom(template, names.values, IF g \in DOMAIN names.groups THEN names.groups[g] ELSE {}, s) = NoStage
  /\ Changed(GroupKey(g.id), [Selection(template, selected, g) EXCEPT !.stages = IF on THEN @ \cup {s} ELSE @ \ {s}])

\* The template is updated: the options of the project are shown again.
SetTemplate(t) ==
  /\ applied > 0 /\ scheduled = 0 /\ t # template /\ t.id = template.id /\ template' = t
  /\ Rebuilt(t, selected) /\ UNCHANGED project

(***************************************************************************)
(* Creating and updating the project                                       *)
(***************************************************************************)
\* ensure_template_overlays(): overlays already added are used, others are
\* cloned; those cloned before one fails stay, and are found the next time
EnsureTemplateOverlays == IF Clones THEN BOOLEAN ELSE {TRUE}

\* Fault: ids are found by the id of the stage in the template, which all
\* variants share.
IdsByLogical(stages) ==
  LET Give(r, s) ==
        LET known == {p \in DOMAIN ids : p[1] = s.logical}
            uuid == IF known # {} THEN ids[CHOOSE p \in known : TRUE] ELSE r.uuids + 1 IN
        [uuids |-> IF known # {} THEN r.uuids ELSE uuid, made |-> With(r.made, s.id, uuid)] IN
  FoldLeft(Give, [uuids |-> uuids, made |-> NoSelection], stages)
\* Fault: every generation has new ids.
IdsAnew(stages) ==
  FoldLeft(LAMBDA r, s : [uuids |-> r.uuids + 1, made |-> With(r.made, s.id, r.uuids + 1)],
           [uuids |-> uuids, made |-> NoSelection], stages)
\* apply_project_template(): uuids are reused by persistent id, parents are
\* those made before in this generation.
NewIds(stages) ==
  LET Give(r, s) ==
        LET uuid == IF s.persistent \in DOMAIN ids THEN ids[s.persistent] ELSE r.uuids + 1 IN
        [uuids |-> IF s.persistent \in DOMAIN ids THEN r.uuids ELSE uuid,
         made |-> With(r.made, s.id, uuid)] IN
  FoldLeft(Give, [uuids |-> uuids, made |-> NoSelection], stages)
SamesName(stages) == \E i, j \in DOMAIN stages : i < j /\ stages[i].name = stages[j].name

ApplyProjectTemplate ==
  /\ scheduled = 0 /\ ~generated.error /\ applied < MaxApplied[template.id]
  /\ LET fresh == Generate(template, Resolve(template, selected))
         new == NewIds(fresh.stages) IN
     \E added \in EnsureTemplateOverlays :
       IF ~added \/ fresh.error \/ SamesName(fresh.stages)
       THEN UNCHANGED project
       ELSE /\ uuids' = new.uuids /\ applied' = applied + 1
            /\ ids' = [p \in {s.persistent : s \in ToSet(fresh.stages)} |->
                         new.made[(CHOOSE s \in ToSet(fresh.stages) : s.persistent = p).id]]
            /\ last' = [i \in DOMAIN fresh.stages |->
                 [uuid |-> new.made[fresh.stages[i].id], persistent |-> fresh.stages[i].persistent,
                  parent |-> IF fresh.stages[i].parent = <<>> THEN 0 ELSE new.made[fresh.stages[i].parent]]]
  /\ UNCHANGED view

Next ==
  \/ Rebuild
  \/ \E v \in ToSet(template.variables) : \E o \in ToSet(v.options) : SetValue(v, o.value) \/ ToggleOption(v, o.value)
  \/ \E g \in ToSet(template.groups) : \E on \in BOOLEAN :
       SetGroup(g, on) \/ \E s \in g.stages : SetGroupStage(g, s, on)
  \/ \E t \in Templates : SetTemplate(t)
  \/ ApplyProjectTemplate

Spec == Init /\ [][Next]_vars

(***************************************************************************)
(* Properties                                                              *)
(***************************************************************************)
TypeOK == scheduled \in 0..MaxPending /\ generated.error \in BOOLEAN /\ applied \in 0..MaxApplied[template.id] /\ uuids \in Nat

\* Every stage selected for an enabled group has what the group gives exactly
\* once: itself, or through one of the stages it is built from.
GroupsAppliedOnce ==
  LET stages == ToSet(generated.stages)
      Line(s) == {x \in stages : x.logical \in {s.logical} \cup ToSet(Ancestors(template, s.logical))
                                 /\ (Len(s.id) = 2 => x.id[2] = s.id[2])}
      Giving(s, g) == {x \in Line(s) : g.id \in x.groups} IN
  \A s \in stages : \A g \in DOMAIN names.groups :
    IF s.logical \in names.groups[g] THEN \E x \in Line(s) : Giving(s, g) = {x}
    ELSE g.id \notin s.groups

\* Selected options that ask for another one of the same choice, which is not
\* selected: it was dropped in the same pass, for what it asks for itself.
Stranded(v) ==
  LET chosen == ToSet(names.values[v.id]) IN
  {o.value : o \in {x \in ToSet(v.options) : x.value \in chosen /\ \E c \in x.when : c[1] = v.id /\ c[2] \notin chosen}}

\* What the view has settled on stays when it is resolved again, so the
\* stages shown are those that are created, and every selected option is
\* available, except for options that are stranded: those go with the next
\* rebuild, and only they do.
SelectionSettles ==
  scheduled = 0 =>
    LET shown == {v \in ToSet(template.variables) : names.values[v.id] # None}
        again == Resolve(template, selected) IN
    /\ (\A v \in shown : Stranded(v) = {}) => again = names
    /\ \A v \in shown :
         /\ ToSet(names.values[v.id]) \ Stranded(v) \subseteq ToSet(Available(v, names.values))
         /\ ToSet(again.values[v.id]) \cap Stranded(v) = {}

\* Stages of a project keep their ids from one generation to the next, no two
\* have the same one, and a parent is a stage of the same generation.
StagesApart ==
  /\ \A i, j \in DOMAIN last : last[i].uuid = last[j].uuid => i = j
  /\ \A s \in ToSet(last) : s.parent # 0 =>
       \E x \in ToSet(last) : x.uuid = s.parent /\ (template.suffix => x.persistent[2] = s.persistent[2])
SameIds == \A p \in DOMAIN ids \cap DOMAIN ids' : ids'[p] = ids[p]
IdentityKept == [][SameIds /\ StagesApart']_vars
=============================================================================
