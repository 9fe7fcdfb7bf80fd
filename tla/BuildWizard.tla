------------------------------ MODULE BuildWizard ------------------------------
(***************************************************************************)
(* The wizard that starts a build of a project, or adds one to the queue.  *)
(* Two threads work for it: one checks the settings of the stages with the *)
(* selected toolset, one writes the files of the build for a review.       *)
(* Results come to the main loop later, when the user or a toolset that    *)
(* became busy may have changed what is selected.                          *)
(***************************************************************************)
EXTENDS Integers, Sequences

CONSTANTS
  Toolsets,    \* numbers, the first is preferred
  Stages,      \* stages of the project
  Hasty,       \* with a build that waits the user queues another one, or makes a review while one waits to be made
  MaxChecks, MaxPreviews, MaxStarts  \* bounds for model checking

None == 0
Latest == "latest"
Snapshots == {Latest, "stored"}
Pages == <<"toolset", "stages", "snapshot", "summary", "files">>
WizardAssumption == Toolsets \subseteq Nat \ {None} /\ {MaxChecks, MaxPreviews, MaxStarts} \subseteq Nat

VARIABLES
  view,      \* "setup", "build" or "queued", "closed"
  page,      \* the page shown, an index
  choice,    \* what is selected: toolset, stages (and their cleaning), snapshot
  busy,      \* toolsets with a busy_reason
  others,    \* another build runs: _queue_mode()
  taken,     \* queue_unavailable_reason(): the project is built or queued
  option,    \* the snapshot option of the project
  check,     \* _requirement_generation
  checking,  \* jobs of its executor: the one that runs and the one that waits
  checked,   \* results that are queued in the main loop
  statuses,  \* _requirement_statuses: the toolset a stage was checked with
  preview,   \* _preview_generation
  writing,   \* jobs of the executor of previews
  shown,     \* results that are queued: of which preview
  root,      \* _preview_root, the number of a preview or None
  ready,     \* _preview_ready
  disk,      \* of each preview: "none", "partial", "whole", "moved" to the build
  inputs,    \* what was selected when a preview was begun
  dialog,    \* "none", "back", "snapshot"
  pending,   \* builds that wait for authorization or for the main loop
  started,   \* builds and queue entries
  updating,  \* update_project_snapshot, of the last build that was asked for
  switched   \* another toolset was selected for a busy one, since the preview was begun

checks == <<check, checking, checked, statuses>>
previews == <<preview, writing, shown, root, ready, disk, inputs>>
builds == <<pending, started, updating>>
rest == <<others, taken>>
vars == <<view, page, choice, busy, option, checks, previews, dialog, builds, switched, rest>>

NoChoice == [toolset |-> None, stages |-> {}, snapshot |-> Latest]
Previews == 1 .. MaxPreviews

\* A new job cancels the one that waits, and tells the one that runs.
Told(jobs) == IF jobs = <<>> THEN <<>> ELSE <<[jobs[1] EXCEPT !.canceled = TRUE]>>
Submit(jobs, job) ==
  IF jobs # <<>> /\ jobs[1].running THEN Append(Told(jobs), job) ELSE <<job>>
Runs(jobs) == jobs # <<>> /\ jobs[1].running
Ended(jobs) == Tail(jobs)

(***************************************************************************)
(* Settings of stages that are required                                    *)
(***************************************************************************)
\* _refresh_stage_requirements_async(): without a toolset nothing is missing.
Refresh(toolset) ==
  /\ check < MaxChecks /\ check' = check + 1 /\ UNCHANGED checked
  /\ IF toolset = None
     THEN /\ statuses' = [s \in Stages |-> <<None>>]
          /\ checking' = IF Runs(checking) THEN Told(checking) ELSE <<>>
     ELSE /\ statuses' = [s \in Stages |-> <<>>]
          /\ checking' = Submit(checking, [number |-> check', toolset |-> toolset, left |-> Stages, running |-> FALSE, canceled |-> FALSE])

BeginCheck ==
  /\ checking # <<>> /\ ~checking[1].running /\ checking' = [checking EXCEPT ![1].running = TRUE]
  /\ UNCHANGED <<view, page, choice, busy, option, check, checked, statuses, previews, dialog, builds, switched, rest>>
\* A stage is checked, and its result is queued unless another check began.
CheckStage ==
  /\ Runs(checking)
  /\ \E s \in checking[1].left :
       /\ checking' = [checking EXCEPT ![1].left = @ \ {s}]
       /\ checked' \in {Append(checked, [number |-> checking[1].number, stage |-> s, toolset |-> checking[1].toolset])}
                       \cup (IF checking[1].canceled THEN {checked} ELSE {})
  /\ UNCHANGED <<view, page, choice, busy, option, check, statuses, previews, dialog, builds, switched, rest>>
EndCheck ==
  /\ Runs(checking) /\ (checking[1].canceled \/ checking[1].left = {}) /\ checking' = Ended(checking)
  /\ UNCHANGED <<view, page, choice, busy, option, check, checked, statuses, previews, dialog, builds, switched, rest>>

\* Results of an earlier check are dropped.
Current(number) == number = check
ApplyStatus ==
  /\ checked # <<>> /\ checked' = Tail(checked)
  /\ LET result == Head(checked)
     IN  statuses' = IF Current(result.number) THEN [statuses EXCEPT ![result.stage] = <<result.toolset>>] ELSE statuses
  /\ UNCHANGED <<view, page, choice, busy, option, check, checking, previews, dialog, builds, switched, rest>>

(***************************************************************************)
(* What is selected                                                        *)
(***************************************************************************)
Setup == view = "setup" /\ dialog = "none"
On(p) == Setup /\ Pages[page] = p
SelectToolset(t) ==
  /\ On("toolset") /\ t \in Toolsets /\ t # choice.toolset
  /\ choice' = [choice EXCEPT !.toolset = t] /\ Refresh(t)
  /\ UNCHANGED <<view, page, busy, option, previews, dialog, builds, switched, rest>>
\* A stage that another one requires stays checked: the plan adds it.
SelectStages ==
  /\ On("stages") /\ \E S \in SUBSET Stages : S # choice.stages /\ choice' = [choice EXCEPT !.stages = S]
  /\ UNCHANGED <<view, page, busy, option, checks, previews, dialog, builds, switched, rest>>
SelectSnapshot ==
  /\ On("snapshot") /\ \E s \in Snapshots \ {choice.snapshot} : choice' = [choice EXCEPT !.snapshot = s]
  /\ UNCHANGED <<view, page, busy, option, checks, previews, dialog, builds, switched, rest>>

\* A selected toolset that becomes busy is replaced by the first that is free,
\* whatever page is shown.
Replacement(B) == IF choice.toolset \in B /\ Toolsets \ B # {}
                  THEN CHOOSE t \in Toolsets \ B : \A u \in Toolsets \ B : t <= u ELSE choice.toolset
ToolsetChanges ==
  /\ view = "setup"
  /\ \E t \in Toolsets :
       LET B == IF t \in busy THEN busy \ {t} ELSE busy \cup {t}
       IN  /\ busy' = B /\ choice' = [choice EXCEPT !.toolset = Replacement(B)]
           /\ Refresh(Replacement(B))
           /\ switched' = (switched \/ Replacement(B) # choice.toolset)
  /\ UNCHANGED <<view, page, option, previews, dialog, builds, rest>>

(***************************************************************************)
(* Pages and the files for the review                                      *)
(***************************************************************************)
PageReady(p) ==
  CASE p = "toolset" -> choice.toolset \in Toolsets \ busy
    [] p \in {"stages", "summary"} -> choice.stages # {}
    [] p = "files" -> ready /\ root # None /\ choice.stages # {}
    [] OTHER -> TRUE
\* The button needs all pages up to the one that is shown.
NextSensitive == \A i \in 1 .. page : PageReady(Pages[i])

\* _generate_build_file_preview() when the last page is shown
GeneratePreview ==
  /\ preview < MaxPreviews /\ preview' = preview + 1
  /\ Hasty \/ pending = <<>> \/ \A i \in DOMAIN writing : writing[i].running
  /\ ready' = FALSE /\ root' = None /\ switched' = FALSE
  /\ inputs' = [inputs EXCEPT ![preview'] = choice]
  /\ writing' = Submit(writing, [number |-> preview', previous |-> root, running |-> FALSE, canceled |-> FALSE])
  /\ UNCHANGED <<shown, disk>>
NextPage ==
  /\ Setup /\ page < Len(Pages) /\ NextSensitive /\ page' = page + 1
  /\ IF page' = Len(Pages) THEN GeneratePreview ELSE UNCHANGED <<previews, switched>>
  /\ UNCHANGED <<view, choice, busy, option, checks, dialog, builds, rest>>
\* Leaving the files asks first.
BackPressed ==
  /\ Setup /\ page > 1
  /\ IF Pages[page] = "files" THEN dialog' = "back" /\ UNCHANGED page ELSE page' = page - 1 /\ UNCHANGED dialog
  /\ UNCHANGED <<view, choice, busy, option, checks, previews, builds, switched, rest>>
BackAnswered ==
  /\ dialog = "back" /\ dialog' = "none" /\ page' \in {page, page - 1}
  /\ UNCHANGED <<view, choice, busy, option, checks, previews, builds, switched, rest>>

\* The directory of the preview before is removed, and one is made.
Removed(d, number) ==
  IF number # None /\ d[number] \in {"partial", "whole"} THEN [d EXCEPT ![number] = "none"] ELSE d
BeginWriting ==
  /\ writing # <<>> /\ ~writing[1].running /\ writing' = [writing EXCEPT ![1].running = TRUE]
  /\ disk' = [Removed(disk, writing[1].previous) EXCEPT ![writing[1].number] = "partial"]
  /\ UNCHANGED <<view, page, choice, busy, option, checks, preview, shown, root, ready, inputs, dialog, builds, switched, rest>>
\* A job that is canceled removes its directory, or has looked at that before
\* and leaves it; it may fail.
EndWriting ==
  LET number == writing[1].number
  IN  /\ Runs(writing) /\ writing' = Ended(writing)
      /\ \/ writing[1].canceled /\ disk' = Removed(disk, number) /\ UNCHANGED shown
         \/ /\ disk' \in {disk, [disk EXCEPT ![number] = "whole"]}
            /\ shown' \in {Append(shown, number)} \cup (IF writing[1].canceled THEN {shown} ELSE {})
      /\ UNCHANGED <<view, page, choice, busy, option, checks, preview, root, ready, inputs, dialog, builds, switched, rest>>
CurrentPreview(number) == number = preview
ShowPreview ==
  /\ shown # <<>> /\ shown' = Tail(shown)
  /\ IF CurrentPreview(Head(shown)) THEN root' = Head(shown) /\ ready' = (disk[Head(shown)] = "whole")
     ELSE UNCHANGED <<root, ready>>
  /\ UNCHANGED <<view, page, choice, busy, option, checks, preview, writing, disk, inputs, dialog, builds, switched, rest>>

(***************************************************************************)
(* The build                                                               *)
(***************************************************************************)
Build(update) == [choice |-> choice, root |-> root, update |-> update, switched |-> switched]
\* add() may still find the project in the queue, after its snapshot is saved.
AddToQueue(update) ==
  /\ option' = IF update THEN choice.snapshot ELSE option
  /\ IF taken THEN UNCHANGED <<view, started>> ELSE view' = "queued" /\ started' = Append(started, Build(update))
  /\ UNCHANGED pending
\* The latest snapshot becomes the option of the project before the build is
\* started, a snapshot when it was.
StartBuild(update) ==
  /\ option' = IF update /\ choice.snapshot = Latest THEN Latest ELSE option
  /\ pending' = Append(pending, Build(update)) /\ UNCHANGED <<view, started>>
AuthorizeAndStart(update) ==
  /\ Len(pending) + Len(started) < MaxStarts /\ updating' = update
  /\ IF others THEN AddToQueue(update) /\ (Hasty \/ pending = <<>>) ELSE StartBuild(update)

\* A busy toolset and a project that can't be queued are told about.
BeginInstallation ==
  /\ On("files") /\ NextSensitive /\ ready /\ root # None
  /\ IF others THEN ~taken ELSE choice.toolset \notin busy
  /\ IF choice.snapshot # option THEN dialog' = "snapshot" /\ UNCHANGED <<view, option, builds>>
     ELSE AuthorizeAndStart(FALSE) /\ UNCHANGED dialog
  /\ UNCHANGED <<page, choice, busy, checks, previews, switched, rest>>
SnapshotAnswered ==
  /\ dialog = "snapshot" /\ dialog' = "none"
  /\ \/ UNCHANGED <<view, option, builds>>
     \/ \E update \in BOOLEAN : AuthorizeAndStart(update)
  /\ UNCHANGED <<page, choice, busy, checks, previews, switched, rest>>

\* The build moves the files to its own directory; it isn't started when they
\* aren't there, when it isn't authorized, or when its toolset can't be used.
\* Its wizard then shows it, and the project gets its snapshot, if that was the
\* answer to the last question.
Start ==
  LET build == [Head(pending) EXCEPT !.update = updating]
  IN  /\ pending # <<>> /\ pending' = Tail(pending)
      /\ \/ /\ disk[build.root] \in {"partial", "whole"}
            /\ disk' = [disk EXCEPT ![build.root] = "moved"]
            /\ started' = Append(started, build) /\ others' = TRUE /\ taken' = TRUE
            /\ view' = IF view = "closed" THEN view ELSE "build"
            /\ option' = IF build.update /\ build.choice.snapshot # Latest THEN build.choice.snapshot ELSE option
         \/ UNCHANGED <<view, disk, started, option, others, taken>>
      /\ UNCHANGED <<page, choice, busy, checks, preview, writing, shown, root, ready, inputs, dialog, updating, switched>>

\* Other builds and the queue
Others ==
  /\ view = "setup" /\ \E now \in (BOOLEAN \X BOOLEAN) \ {<<others, taken>>} : others' = now[1] /\ taken' = now[2]
  /\ UNCHANGED <<view, page, choice, busy, option, checks, previews, dialog, builds, switched>>
\* do_dispose()
Close ==
  /\ Setup /\ view' = "closed"
  /\ checking' = (IF Runs(checking) THEN Told(checking) ELSE <<>>) /\ writing' = (IF Runs(writing) THEN Told(writing) ELSE <<>>)
  /\ preview' = preview + 1
  /\ UNCHANGED <<page, choice, busy, option, check, checked, statuses, shown, root, ready, disk, inputs, dialog, builds, switched, rest>>

Init ==
  /\ view = "setup" /\ page = 1 /\ busy = {} /\ others \in BOOLEAN /\ taken \in BOOLEAN /\ option \in Snapshots
  /\ choice \in {[NoChoice EXCEPT !.toolset = t, !.snapshot = option] : t \in Toolsets}
  /\ check = 1 /\ checked = <<>> /\ statuses = [s \in Stages |-> <<>>]
  /\ checking = <<[number |-> 1, toolset |-> choice.toolset, left |-> Stages, running |-> FALSE, canceled |-> FALSE]>>
  /\ preview = 0 /\ writing = <<>> /\ shown = <<>> /\ root = None /\ ready = FALSE
  /\ disk = [n \in Previews |-> "none"] /\ inputs = [n \in Previews |-> NoChoice]
  /\ dialog = "none" /\ pending = <<>> /\ started = <<>> /\ updating = FALSE /\ switched = FALSE

Next ==
  \/ BeginCheck \/ CheckStage \/ EndCheck \/ ApplyStatus
  \/ (\E t \in Toolsets : SelectToolset(t)) \/ SelectStages \/ SelectSnapshot \/ ToolsetChanges
  \/ NextPage \/ BackPressed \/ BackAnswered \/ BeginWriting \/ EndWriting \/ ShowPreview
  \/ BeginInstallation \/ SnapshotAnswered \/ Start \/ Others \/ Close
Spec == Init /\ [][Next]_vars

(***************************************************************************)
(* Properties                                                              *)
(***************************************************************************)
TypeOK ==
  /\ view \in {"setup", "build", "queued", "closed"} /\ page \in DOMAIN Pages /\ busy \subseteq Toolsets
  /\ choice \in [toolset : Toolsets, stages : SUBSET Stages, snapshot : Snapshots]
  /\ statuses \in [Stages -> {<<>>} \cup {<<t>> : t \in Toolsets \cup {None}}]
  /\ disk \in [Previews -> {"none", "partial", "whole", "moved"}] /\ root \in Previews \cup {None}
  /\ Len(checking) <= 2 /\ Len(writing) <= 2

\* What is built is what was reviewed: the files of a build are made for its
\* stages and its snapshot, and for its toolset unless that became busy
\* while they were reviewed.
BuildsAsShown ==
  \A i \in DOMAIN started :
    LET build == started[i]
    IN  IF build.switched THEN inputs[build.root] = [build.choice EXCEPT !.toolset = inputs[build.root].toolset]
        ELSE inputs[build.root] = build.choice

\* A wizard starts or queues one build, which has the files that were
\* reviewed, whole, also when the user pressed twice or went back meanwhile.
FilesKept ==
  /\ \A i \in DOMAIN started : disk[started[i].root] = IF view = "queued" THEN "whole" ELSE "moved"
  /\ Len(started) <= 1

\* What is told of a stage is about the toolset that is selected, and all
\* stages are told about in the end.
StatusesCurrent ==
  /\ \A s \in Stages : statuses[s] \in {<<>>, <<choice.toolset>>}
  /\ checking = <<>> /\ checked = <<>> /\ view = "setup" => \A s \in Stages : statuses[s] # <<>>

\* The project has the snapshot of its last build when the user wanted that;
\* the last answer counts for every build that waits (project_build_view.py:868).
ProjectAsChosen ==
  \A i \in DOMAIN started : started[i].update /\ i = Len(started) => option = started[i].choice.snapshot
=============================================================================
