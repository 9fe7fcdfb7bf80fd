------------------------------ MODULE MCStages ------------------------------
(* One run for the stages of projects: values that are resolved and         *)
(* combined, a project whose stages are edited, the rows of the view of one *)
(* of them, and the wizard that builds them.  The first choice is which of  *)
(* these is looked at, the others stay as they begin.                       *)
EXTENDS MCEditing, StageValues, TLC

CONSTANTS Parts, Taken, MaxActions

VARIABLES
  part,
  stage, scripts, listRow, scriptRow, cacheRow, kernelRows, changed, typed, wanted, asked, actions

MCOrder == <<"s2", "s1", "s3">>
Each(one, two, three) == [s \in Stages |-> IF s = "s1" THEN one ELSE IF s = "s2" THEN two ELSE three]
\* A chain, siblings, a loop, and a chain below a stage that is gone; two kinds of targets, two of templates
MCChain == Each("none", "s1", "s2")
Siblings == Each("none", "s1", "s1")
Loop == Each("s3", "s1", "s2")
Gone == Each("gone", "s1", "s2")
Live == Each("stage4", "stage4", "livecd_stage2")
Plain == Each("stage3", "stage4", "stage4")
Below == Each("none", "full", "bare")
Above == Each("full", "none", "missing")
Project(parent, target, template) == [parent |-> parent, target |-> target, template |-> template]
MCProjects == {Project(MCChain, Live, Below), Project(MCChain, Plain, Above), Project(Siblings, Plain, Below),
               Project(Siblings, Live, Above), Project(Loop, Live, Below), Project(Loop, Plain, Above),
               Project(Gone, Plain, Below)}
MCContents == {Each(1, b, c) : b, c \in {1, 2}} \cup {Each(0, 0, 0), Each(2, 0, 2)}

\* A stage of a template, one below it, and one that can be created
MCIds == {"r", "c", "n"}
MCNames == {"a", "b", "e"}
NoBaseline == [kind |-> "none", val |-> "missing", date |-> "none"]
Origins == [i \in MCIds |->
  IF i = "r" THEN [kind |-> "template", val |-> "x", date |-> "base"]
  ELSE IF i = "c" THEN [kind |-> "first", val |-> "missing", date |-> "none"] ELSE NoBaseline]
Stored(id, parent, val, date) == [id |-> id, parent |-> parent, val |-> val, date |-> date, base |-> NoBaseline]
Directories == [n \in MCNames |->
  IF n = "a" THEN Stored("r", "none", "x", "base") ELSE IF n = "b" THEN Stored("c", "r", "unset", "none") ELSE [id |-> "nobody"]]

Rows == INSTANCE StageRows WITH
  Texts <- {<<>>, <<"a">>},
  Releng <- [sources |-> "odd-kernel", distkernel |-> "yes", use |-> "x"],
  KindOf <- ("gentoo-kernel" :> "dist") @@ ("gentoo-sources" :> "sources") @@ ("odd-kernel" :> "unknown"),
  files <- scripts
rowVars == <<stage, scripts, listRow, scriptRow, cacheRow, kernelRows, changed, typed, wanted, asked, actions>>
\* Kernels are edited, or the list and the script; the cache and the template with each of them
OneEditor ==
  /\ part = "rows" => UNCHANGED asked
  /\ part = "kernels" => wanted'.script = "none" /\ ~stage'.explicit /\ listRow'.text = <<>> /\ scriptRow'.entry = "none"

\* The settings are checked, or the files are written and built; another build
\* begins to run when that can make a difference.
OneThread ==
  /\ part = "checks" => page' = 1
  /\ part = "files" =>
       /\ checked' = checked /\ (check' # check \/ checking' = checking)
       /\ check' + preview' <= MaxChecks + 1 /\ (preview' > 1 => choice'.snapshot = "latest")
  /\ <<others', taken'>> # <<others, taken>> => page = 5 /\ (window' = "build" \/ dialog = "snapshot" \/ pending # <<>>)

mcvars == <<part, vars, editingVars, rowVars, wizardVars>>

FirstValues ==
  /\ p = Loaded(Project(MCChain, Live, Below), "subarch", Each(Empty, Empty, Empty), {}) /\ files = NoFiles /\ did = "loaded"
MCInit ==
  /\ part \in Parts /\ Editing!Init /\ Rows!Init /\ Wizard!Init /\ ~others /\ ~taken /\ option = "stored"
  /\ IF part = "values" THEN Init ELSE FirstValues
  /\ part \notin {"rows", "kernels"} => stage.template /\ stage.kernels = <<"RELENG">>
  /\ part \notin {"checks", "files"} => choice.toolset = 1

MCNext ==
  \/ part = "values" /\ Next /\ UNCHANGED <<part, editingVars, rowVars, wizardVars>>
  \/ part = "editing" /\ Editing!Next /\ UNCHANGED <<part, vars, rowVars, wizardVars>>
  \/ part \in {"rows", "kernels"} /\ Rows!Next /\ OneEditor /\ UNCHANGED <<part, vars, editingVars, wizardVars>>
  \/ part \in {"checks", "files"} /\ Wizard!Next /\ OneThread /\ UNCHANGED <<part, vars, editingVars, rowVars>>

MCSpec == MCInit /\ [][MCNext]_mcvars

\* The properties of the parts, under their names (ViewTells and SavedAsChosen are in MCEditing).
\* What the rows of the view show is what the stage has or what is not applied yet.
ValuesFit ==
  /\ part = "values" =>
       TypeOK /\ ResolvesToSolution /\ DefaultsSettle /\ StoredOnly /\ SeedIsParentOutput /\ RequiredHaveLines
  /\ part \in {"rows", "kernels"} => Rows!TypeOK /\ Rows!RowsTell
OverlaysKept == [][part = "values" => NoLoopMade /\ FilesStay]_mcvars
KernelEdits == [][(part \in {"rows", "kernels"}) => Rows!KernelEdits]_mcvars
TemplateValuesStay == Editing!TemplateValuesStay
=============================================================================
