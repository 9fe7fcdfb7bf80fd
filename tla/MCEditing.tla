------------------------------ MODULE MCEditing ------------------------------
(* The stages of a project that is edited and the wizard that builds them,  *)
(* without the rest of the run "stages" (MCStages adds it): what is proved  *)
(* about them is stated here.                                               *)
EXTENDS Naturals, FiniteSets

CONSTANTS
  Ids, Names, Dates, Origin, Committed, Made, Overlap, MaxEdits,  \* see StageEditing
  Toolsets, WizardStages, Hasty, MaxChecks, MaxPreviews, MaxStarts     \* see BuildWizard, WizardStages are its stages

VARIABLES
  disk, mem, view, loads, creation, chosen, edits,
  window, page, choice, busy, others, taken, option, check, checking, checked, statuses,
  preview, writing, reviewed, root, ready, written, inputs, dialog, pending, started, updating, switched

Editing == INSTANCE StageEditing WITH MaxActions <- MaxEdits, actions <- edits
editingVars == <<disk, mem, view, loads, creation, chosen, edits>>

Wizard == INSTANCE BuildWizard WITH Stages <- WizardStages, view <- window, shown <- reviewed, disk <- written
wizardVars == <<window, page, choice, busy, others, taken, option, check, checking, checked, statuses,
  preview, writing, reviewed, root, ready, written, inputs, dialog, pending, started, updating, switched>>

ASSUME MCEditingAssumption == Editing!EditingAssumption /\ Wizard!WizardAssumption

EditingNext == (Editing!Next /\ UNCHANGED wizardVars) \/ (Wizard!Next /\ UNCHANGED editingVars)
EditingSpec == Editing!Init /\ Wizard!Init /\ [][EditingNext]_<<editingVars, wizardVars>>

\* Of every stage the file has what the user has chosen and nothing that was
\* calculated, and what is shown as customized is so when the project is
\* loaded again (project_stage.py, stage_argument_is_customized()).
SavedAsChosen == Editing!TypeOK /\ Editing!SavedAsChosen /\ Editing!CustomizedSurvives

\* The view of a stage comes to show the stage as it is, the wizard what it
\* knows of the selected toolset; what is built is what was reviewed
\* (project_stage_details_view.py, project_build_view.py).
ViewTells ==
  /\ Editing!ViewSettles
  /\ Wizard!TypeOK /\ Wizard!StatusesCurrent /\ Wizard!BuildsAsShown /\ Wizard!FilesKept /\ Wizard!ProjectAsChosen
=============================================================================
