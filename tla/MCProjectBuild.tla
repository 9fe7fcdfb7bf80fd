--------------------------- MODULE MCProjectBuild ---------------------------
(* One run for the plan of a build and for the build: the first choice is  *)
(* which of the two is looked at, the other one stays as it begins.  The   *)
(* plan is made for every project of PlanStages stages, the build is of    *)
(* NumStages stages with the parents Parent.                               *)
EXTENDS ProjectBuild

CONSTANT PlanStages  \* stages of a project that a plan is made for

VARIABLES
  part,  \* "plan" or "build"
  parent, usable, selected, phase, todo, current, stage, visited, mode, requiredBy, entry, stack, added, order

Plan == INSTANCE StageBuildPlan WITH NumStages <- PlanStages

ASSUME RunAssumption == BuildAssumption /\ Plan!PlanAssumption

\* Stages 2 and 4 are built on stage 1.  Stage 3 starts from an earlier build,
\* of a stage whose parent is stage 4, which comes after it: from there
\* is_blocked() goes on to stages 4 and 1.
MCParent == <<0, 1, 4, 1>>

planVars == <<parent, usable, selected, phase, todo, current, stage, visited, mode, requiredBy, entry, stack, added, order>>
mcvars == <<part, vars, planVars>>

MCInit ==
  /\ Init
  /\ \/ part = "plan" /\ Plan!Init
     \/ /\ part = "build" /\ Plan!Init
        /\ usable = {} /\ selected = {} /\ parent = [s \in Plan!Stages |-> 0]

MCNext ==
  \/ part = "plan" /\ Plan!Step /\ UNCHANGED <<part, vars>>
  \/ part = "build" /\ Next /\ UNCHANGED <<part, planVars>>

MCSpec ==
  /\ MCInit /\ [][MCNext]_mcvars
  /\ WF_vars(part = "build" /\ MainStep)
  /\ \A i \in 1 .. Cardinality(Steps) :
       WF_vars(part = "build" /\ i \in DOMAIN threads /\ ThreadStep(i))

\* The plan is the reference one, whole, and tells the truth about itself.
PlanIsRight == Plan!PlanIsReference /\ Plan!OrderIsWhole /\ Plan!CycleReported /\ Plan!RequiredByIsTrue

\* Stages are ordered after the parents that are built in the same run.
ParentsFirst == Plan!ParentsFirst

\* A failure stops what is built on it and nothing else, and a run that has
\* ended leaves no record of a stage open.
FailureContained == OnlyDependentsSkipped /\ RecordsClosed

\* What else a run promises: its order, its result and what it holds.
RunIsOrderly == StepsInOrder /\ SuccessMeansBuilt /\ HeldWhileRunning
=============================================================================
