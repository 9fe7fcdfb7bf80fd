------------------------------ MODULE MCProjects ------------------------------
(* One run for what happens to the files of the Library (MCLibrary) and for *)
(* templates of projects: the updates of a project from its template, and    *)
(* the options of templates.  The first choice is which of them is looked    *)
(* at, the others stay as they begin.                                        *)
EXTENDS MCLibrary, Sequences

CONSTANTS
  Ids, Own, FromTemplate, OwnValues, NewValues, MaxEdits, MaxNews, MaxUpdates, Cases,  \* see TemplateUpdate
  Templates, MaxPending, MaxApplied                                                   \* see TemplateOptions

VARIABLES
  source, history, work, latest, screen, force, drop, update, before, edits, news, opened,
  template, chosen, names, generated, scheduled, uuidOf, last, uuids, applied

\* Templates of the options view: one with conditions and groups, and two
\* versions of a small one
Opt(v, w) == [value |-> v, when |-> w]
Var(id, multiple, options, default, when) ==
  [id |-> id, multiple |-> multiple, options |-> options, default |-> default, when |-> when,
   minimum |-> IF multiple /\ id = "init_systems" THEN 1 ELSE 0]
Has(v, x) == <<v, x>>
St(id, parent, when, named) == [id |-> id, parent |-> parent, when |-> when, named |-> named]
Init_systems == Var("init_systems", TRUE, <<Opt("openrc", {}), Opt("systemd", {})>>, <<"openrc">>, {})
Group(id, when, default, on) == [id |-> id, when |-> when, default |-> default, stages |-> on, defaultStages |-> {"gnome"}]
T0 == [id |-> "rich",
       variables |-> <<Init_systems,
                 Var("licenses", FALSE, <<Opt("no", {}), Opt("yes", {})>>, <<"no">>, {}),
                 Var("extra", TRUE, <<Opt("gnome", {Has("licenses", "yes")}), Opt("custom", {Has("extra", "gnome")})>>, <<"gnome">>, {})>>,
       stages |-> <<St("stage3", "", {}, TRUE), St("gnome", "stage3", {Has("extra", "gnome")}, TRUE), St("custom", "gnome", {Has("extra", "custom")}, TRUE)>>,
       groups |-> <<Group("zram", {}, TRUE, {"stage3", "gnome", "custom"}), Group("dev", {Has("licenses", "yes")}, FALSE, {"gnome"})>>,
       suffix |-> TRUE]
T1 == [T0 EXCEPT !.id = "small",
       !.variables = <<Init_systems, Var("extra", TRUE, <<Opt("gnome", {})>>, <<"gnome">>, {})>>,
       !.stages = <<@[1], @[2]>>, !.groups = <<>>]
T2 == [T1 EXCEPT !.variables[2].options = Append(@, Opt("plasma", {})), !.stages = Append(@, St("plasma", "stage3", {Has("extra", "plasma")}, TRUE))]
MCTemplates == {T0, T1, T2}
MCApplied == [rich |-> 0, small |-> 2]
MCClashes == {<<1, 11>>}

Update == INSTANCE TemplateUpdate
Options == INSTANCE TemplateOptions WITH Clones <- TRUE, ids <- uuidOf, selected <- chosen
ASSUME ProjectsAssumption == Update!UpdateAssumption /\ Options!TemplateAssumption

updateVars == <<source, history, work, latest, screen, force, drop, update, before, edits, news, opened>>
optionVars == <<template, chosen, names, generated, scheduled, uuidOf, last, uuids, applied>>
projectsVars == <<updateVars, optionVars, filesVars>>

FirstTemplate == CHOOSE t \in Templates : TRUE

ProjectsInit ==
  /\ topic \in {"update", "options", "git", "library", "page", "folder"}
  /\ Update!Init /\ Options!Init /\ FilesInit
  /\ topic # "update" => source = "template"
  /\ topic # "options" => template = FirstTemplate

ProjectsNext ==
  \/ topic = "update" /\ Update!Next /\ UNCHANGED <<optionVars, filesVars>>
  \/ topic = "options" /\ Options!Next /\ UNCHANGED <<updateVars, filesVars>>
  \/ /\ FilesNext /\ UNCHANGED <<updateVars, optionVars>>
     \* Bounds: both edits only without a fault and with one thread at a time, no overtaking with a fault.
     /\ Edited \cap (files' \cup stash') \subseteq {1} \/ (gitFault = "none" /\ Cardinality({i \in DOMAIN gitThreads : gitThreads'[i].kind # "none"}) < 2)
     /\ gitFault # "none" => overtaken' = {}

ProjectsSpec == ProjectsInit /\ [][ProjectsNext]_projectsVars

\* The properties of the parts, under their names.
UpdateMerges == Update!TypeOK /\ Update!MergedAsDecided /\ Update!StagesWhole
SelectionSettles == Options!TypeOK /\ Options!SelectionSettles /\ Options!GroupsAppliedOnce
IdentityKept == [][topic = "options" => Options!SameIds /\ Options!StagesApart']_projectsVars
=============================================================================
