--------------------------- MODULE StageBuildPlan ---------------------------
(***************************************************************************)
(* StageBuildPlan (src/objects/project/project_build.py): what happens with*)
(* every stage of a project when some of them are to be built, and the     *)
(* order of building.  The selected ids are a Python set, so they are      *)
(* resolved in any order.  The recursion of build_order() is its stack.    *)
(***************************************************************************)
EXTENDS Naturals, Sequences

CONSTANT NumStages  \* stages of the project, numbered in the order of entries
PlanAssumption == NumStages \in Nat

Stages == 1 .. NumStages

VARIABLES
  parent,      \* parent of each stage, 0 for none or one that does not exist
  usable,      \* stages for which latest_build() finds a build
  selected,    \* selected_stage_ids
  phase,       \* "resolve", "order", "done", or "cycle" once ValueError is raised
  todo,        \* selected stages whose ancestors are not resolved yet
  current,     \* selected stage that _resolve_ancestors() is called for, 0 for none
  stage,       \* the local of that name
  visited,     \* the local of that name
  mode,        \* StageBuildMode of each entry
  requiredBy,  \* required_by of each entry
  entry,       \* next entry that build_order() looks at
  stack,       \* stages that add() is called for, "visiting" when seen as a set
  added,       \* the local of that name
  order        \* the local of that name

inputVars   == <<parent, usable, selected>>
resolveVars == <<todo, current, stage, visited, mode, requiredBy>>
orderVars   == <<entry, stack, added, order>>
vars == <<inputVars, phase, resolveVars, orderVars>>

Init ==
  /\ parent \in [Stages -> 0 .. NumStages]
  /\ usable \in SUBSET Stages /\ selected \in SUBSET Stages
  /\ phase = "resolve"
  /\ todo = selected /\ current = 0 /\ stage = 0 /\ visited = {}
  /\ mode = [s \in Stages |-> IF s \in selected THEN "BUILD" ELSE "NONE"]
  /\ requiredBy = [s \in Stages |-> {}]
  /\ entry = 1 /\ stack = <<>> /\ added = {} /\ order = <<>>

IsBuilt(s) == mode[s] \in {"BUILD", "REQUIRED"}

-----------------------------------------------------------------------------
(* _resolve_ancestors() of each selected stage.                            *)

Select ==
  /\ phase = "resolve" /\ current = 0
  /\ \E s \in todo :
       /\ todo' = todo \ {s}
       /\ current' = s /\ stage' = s /\ visited' = {s}
  /\ UNCHANGED <<inputVars, phase, mode, requiredBy, orderVars>>

Return == current' = 0 /\ stage' = 0 /\ visited' = {}

\* Fault: a parent that was resolved before is resolved again from here.
ResolveSelectedParent ==
  LET p == parent[stage] IN
  /\ current # 0 /\ p # 0 /\ p \notin visited
  /\ mode' = [mode EXCEPT ![p] = IF p \in usable THEN "REUSE" ELSE "REQUIRED"]
  /\ requiredBy' = [requiredBy EXCEPT ![p] = @ \cup {current}]
  /\ IF p \in usable
     THEN Return
     ELSE stage' = p /\ visited' = visited \cup {p} /\ UNCHANGED current
  /\ UNCHANGED <<inputVars, phase, todo, orderVars>>

\* Fault: the ancestors of a stage that is required are not resolved.
ResolveOneParent ==
  LET p == parent[stage] IN
  /\ current # 0 /\ p # 0 /\ p \notin visited
  /\ mode[p] = "NONE"
  /\ requiredBy' = [requiredBy EXCEPT ![p] = @ \cup {current}]
  /\ mode' = [mode EXCEPT ![p] = IF p \in usable THEN "REUSE" ELSE "REQUIRED"]
  /\ Return
  /\ UNCHANGED <<inputVars, phase, todo, orderVars>>

\* A parent without an earlier result: its build is reused, or it is built
\* too and its own parent is looked at.
ResolveParent ==
  LET p == parent[stage] IN
  /\ current # 0 /\ p # 0 /\ p \notin visited
  /\ mode[p] = "NONE"
  /\ requiredBy' = [requiredBy EXCEPT ![p] = @ \cup {current}]
  /\ mode' = [mode EXCEPT ![p] = IF p \in usable THEN "REUSE" ELSE "REQUIRED"]
  /\ IF p \in usable
     THEN Return
     ELSE stage' = p /\ visited' = visited \cup {p} /\ UNCHANGED current
  /\ UNCHANGED <<inputVars, phase, todo, orderVars>>

\* The parent is selected itself, or was resolved for another selected stage.
ParentResolved ==
  LET p == parent[stage] IN
  /\ current # 0 /\ p # 0 /\ p \notin visited
  /\ mode[p] # "NONE"
  /\ requiredBy' = IF mode[p] = "BUILD" THEN requiredBy
                   ELSE [requiredBy EXCEPT ![p] = @ \cup {current}]
  /\ Return
  /\ UNCHANGED <<inputVars, phase, todo, mode, orderVars>>

\* The root of the branch, or a stage met before on this way up.
NoMoreParents ==
  /\ current # 0
  /\ parent[stage] = 0 \/ parent[stage] \in visited
  /\ Return
  /\ UNCHANGED <<inputVars, phase, todo, mode, requiredBy, orderVars>>

Resolved ==
  /\ phase = "resolve" /\ current = 0 /\ todo = {}
  /\ phase' = "order"
  /\ UNCHANGED <<inputVars, resolveVars, orderVars>>

-----------------------------------------------------------------------------
(* build_order().                                                          *)

Top == stack[Len(stack)]
Visiting(s) == \E i \in 1 .. Len(stack) : stack[i] = s
\* add() calls itself for a parent that is built in this run.
Calls(s) == parent[s] # 0 /\ IsBuilt(parent[s]) /\ parent[s] \notin added

NextEntry ==
  /\ phase = "order" /\ stack = <<>> /\ entry <= NumStages
  /\ stack' = IF IsBuilt(entry) /\ entry \notin added THEN <<entry>> ELSE <<>>
  /\ entry' = entry + 1
  /\ UNCHANGED <<inputVars, phase, resolveVars, added, order>>

AddParent ==
  /\ phase = "order" /\ stack # <<>> /\ Calls(Top)
  /\ IF Visiting(parent[Top])
     THEN phase' = "cycle" /\ UNCHANGED stack
     ELSE stack' = Append(stack, parent[Top]) /\ UNCHANGED phase
  /\ UNCHANGED <<inputVars, resolveVars, entry, added, order>>

\* Fault: a stage is added before its parent.
AddAtOnce ==
  /\ phase = "order" /\ stack # <<>>
  /\ added' = added \cup {Top} /\ order' = Append(order, Top)
  /\ stack' = SubSeq(stack, 1, Len(stack) - 1)
  /\ UNCHANGED <<inputVars, phase, resolveVars, entry>>

AddStage ==
  /\ phase = "order" /\ stack # <<>> /\ ~Calls(Top)
  /\ added' = added \cup {Top} /\ order' = Append(order, Top)
  /\ stack' = SubSeq(stack, 1, Len(stack) - 1)
  /\ UNCHANGED <<inputVars, phase, resolveVars, entry>>

Ordered ==
  /\ phase = "order" /\ stack = <<>> /\ entry > NumStages
  /\ phase' = "done"
  /\ UNCHANGED <<inputVars, resolveVars, orderVars>>

-----------------------------------------------------------------------------

Step == Select \/ ResolveParent \/ ParentResolved \/ NoMoreParents \/ Resolved
          \/ NextEntry \/ AddParent \/ AddStage \/ Ordered

Spec == Init /\ [][Step]_vars /\ WF_vars(Step)

-----------------------------------------------------------------------------
(* Properties.                                                             *)

TypeOK ==
  /\ parent \in [Stages -> 0 .. NumStages]
  /\ usable \subseteq Stages /\ selected \subseteq Stages /\ todo \subseteq selected
  /\ phase \in {"resolve", "order", "done", "cycle"}
  /\ current \in {0} \cup Stages /\ stage \in {0} \cup Stages /\ (current = 0 <=> stage = 0)
  /\ visited \subseteq Stages
  /\ mode \in [Stages -> {"NONE", "BUILD", "REQUIRED", "REUSE"}]
  /\ requiredBy \in [Stages -> SUBSET Stages]
  /\ entry \in 1 .. NumStages + 1
  /\ stack \in Seq(Stages) /\ added \subseteq Stages /\ order \in Seq(Stages)

\* Once ancestors are resolved every stage to build has a seed: it is a root,
\* or its parent is built in the same run or has a build that is reused.
SeedsProvided == phase # "resolve" => \A s \in Stages : IsBuilt(s) /\ parent[s] # 0 =>
  \/ IsBuilt(parent[s])
  \/ mode[parent[s]] = "REUSE" /\ parent[s] \in usable

\* The stages to build by definition: the smallest set that has the selected
\* ones and, with a stage, the parent it needs, unless that has a usable build.
Needs(T) == selected \subseteq T /\ \A s \in T : parent[s] \in T \cup usable \cup {0}
ToBuild == {s \in Stages : \A T \in SUBSET Stages : Needs(T) => s \in T}

\* The plan does not depend on the order in which the set of selected stages
\* is iterated over, and builds nothing that is not needed.
PlanIsReference == phase # "resolve" => \A s \in Stages :
  /\ IsBuilt(s) <=> s \in ToBuild
  /\ mode[s] = "REUSE" <=>
       /\ ~IsBuilt(s) /\ s \in usable
       /\ \E c \in ToBuild : parent[c] = s

\* A stage is ordered after its parent, if that is built too.
ParentsFirst == \A i \in 1 .. Len(order) :
  parent[order[i]] # 0 /\ IsBuilt(parent[order[i]]) =>
    \E j \in 1 .. i - 1 : order[j] = parent[order[i]]

\* The order has every stage that is built, once, and no other.
OrderIsWhole ==
  /\ \A i, j \in 1 .. Len(order) : order[i] = order[j] => i = j
  /\ phase = "done" => {order[i] : i \in 1 .. Len(order)} = {s \in Stages : IsBuilt(s)}

\* The ancestors of s up to the first that is not built: the smallest set
\* that goes up from s.
GoesUp(s, T) == \A r \in {s} \cup T : parent[r] # 0 /\ IsBuilt(parent[r]) => parent[r] \in T
Above(s) == {p \in Stages : \A T \in SUBSET Stages : GoesUp(s, T) => p \in T}

\* ValueError is raised exactly for a cycle of stages that are built.
CycleReported ==
  phase \in {"done", "cycle"} =>
    (phase = "cycle" <=> \E s \in Stages : IsBuilt(s) /\ s \in Above(s))

\* required_by (project_build.py:210) is true, if not always whole: every
\* stage that is required or reused names a selected stage, and is above
\* each stage it names, with nothing in between that is not built.
RequiredByIsTrue == phase \in {"done", "cycle"} => \A s \in Stages :
  /\ mode[s] \in {"REQUIRED", "REUSE"} <=> requiredBy[s] # {}
  /\ \A r \in requiredBy[s] :
       r \in selected /\ \E c \in {r} \cup Above(r) : parent[c] = s
=============================================================================
