---------------------------- MODULE ProjectBuild ----------------------------
(***************************************************************************)
(* A build of project stages (src/objects/project/project_build_process.py *)
(* with runner_operation.py): the steps of one ProjectBuild, the records of*)
(* its stages kept on disk, and what it holds of the toolset and the       *)
(* runner.  ProjectBuild replaces _continue_process of MultiStageProcess:  *)
(* a failed step skips only the steps that depend on it.                   *)
(*                                                                         *)
(* The main loop ("main" in MultiStageProcess) runs continuations and      *)
(* cancel(); each step has a thread.  MultiStageProcess has the            *)
(* interleavings inside complete() and stage.cancel(); here each is one    *)
(* action.                                                                 *)
(***************************************************************************)
EXTENDS Naturals, Sequences, FiniteSets

CONSTANTS
  NumStages,          \* stages built in this run, numbered in build order
  Parent,             \* the stage of this run first met up the parents of each one, or 0
  Reused,             \* stages whose own parent is not built but was, by an earlier run
  HasPrevious,        \* stages that have an older successful build
  FetchSnapshot,      \* the latest snapshot is generated in this run
  CleanupPrevious,    \* older successful builds are removed
  CommandRaises       \* toolset.run_command may raise (builds with the root helper)

Stages == 1 .. NumStages

\* A stage and the stages of this run that is_blocked() meets above it, also
\* above reused ones: what every set has that has the stage and the parents of
\* its members.
Lineage == [s \in Stages |->
  {r \in Stages : \A S \in SUBSET Stages :
     s \in S /\ (\A q \in S : Parent[q] \in S \cup {0}) => r \in S}]

\* Only a parent that is built here comes first, and is_blocked() comes to the
\* top: on a ring through reused stages it does not return.
BuildAssumption ==
  /\ NumStages \in Nat \ {0}
  /\ Reused \subseteq Stages
  /\ Parent \in [Stages -> 0 .. NumStages] /\ \A s \in Stages \ Reused : Parent[s] < s
  /\ \A s \in Stages : Parent[s] # 0 => s \notin Lineage[Parent[s]]
  /\ HasPrevious \subseteq Stages
  /\ FetchSnapshot \in BOOLEAN /\ CleanupPrevious \in BOOLEAN /\ CommandRaises \in BOOLEAN

(* The steps of setup_stages(), numbered in their order.                   *)
PrepareRunner == 1
PrepareToolset == 2
Snapshot == 3
Download(s) == 3 * s + 1
Build(s) == 3 * s + 2
Cleanup(s) == 3 * s + 3
StopRunner == 3 * NumStages + 4

Downloads == {Download(s) : s \in {r \in Stages : Parent[r] = 0 /\ r \notin Reused}}
Builds == {Build(s) : s \in Stages}
Cleanups == IF CleanupPrevious THEN {Cleanup(s) : s \in Stages} ELSE {}
Steps == {PrepareRunner, PrepareToolset, StopRunner} \cup (IF FetchSnapshot THEN {Snapshot} ELSE {})
           \cup Downloads \cup Builds \cup Cleanups

StageOf(k) == (k - 1) \div 3  \* of a download, build or cleanup step
\* step.stage, which only downloads and builds have
Stage(k) == IF k \in Downloads \cup Builds THEN {StageOf(k)} ELSE {}

VARIABLES
  status,        \* MultiStageProcessState
  stepState,     \* MultiStageProcessStageState of each step
  cancelEvent,   \* steps whose _cancel_event is set
  threads,       \* step threads created so far: the step and where the thread is
  idle,          \* _continue_process callbacks queued in the main loop
  failedStages,  \* failed_stage_ids
  seeds,         \* seed_subpaths: stages whose seed was downloaded
  built,         \* stage_builds: stages built in this run
  record,        \* status in build.json of each stage in this run
  previous,      \* stages whose older successful build still exists
  runnerUsed,    \* the runner is prepared for this operation
  reserved,      \* the toolset is reserved by this build
  spawned,       \* the toolset is spawned by this build
  canceled,      \* process.canceled
  ending,        \* "no", or how _cleanup() was entered
  cursor,        \* step that _cleanup() visits next
  raised,        \* history: a cleanup() raised
  listed,        \* process is in started_processes
  reports        \* history: arguments of complete_process

heldVars == <<seeds, built, record, previous, runnerUsed, reserved, spawned>>
endVars  == <<ending, cursor, raised, listed, reports>>
vars == <<status, stepState, cancelEvent, threads, idle, failedStages, heldVars, canceled, endVars>>

Init ==
  /\ status = "SETUP"
  /\ stepState = [k \in Steps |-> "SCHEDULED"] /\ cancelEvent = {}
  /\ threads = <<>> /\ idle = 0
  /\ failedStages = {} /\ seeds = {} /\ built = {}
  /\ record = [s \in Stages |-> "none"] /\ previous = HasPrevious
  /\ runnerUsed = FALSE /\ reserved = FALSE /\ spawned = FALSE
  /\ canceled = FALSE /\ ending = "no" /\ cursor = 0 /\ raised = FALSE
  /\ listed = FALSE /\ reports = <<>>

-----------------------------------------------------------------------------
(* The main loop.                                                          *)

\* start() saves a record of every stage; the continuation it runs itself is
\* the first of those queued.
Start ==
  /\ status = "SETUP" /\ ~listed /\ ending = "no"
  /\ record' = [s \in Stages |-> "SCHEDULED"]
  /\ status' = "IN_PROGRESS" /\ listed' = TRUE
  /\ idle' = 1
  /\ UNCHANGED <<stepState, cancelEvent, threads, failedStages, seeds, built, previous,
                 runnerUsed, reserved, spawned, canceled, ending, cursor, raised, reports>>

\* _continue_process returns early once the process has ended.
ContinueEnded ==
  /\ ending = "no" /\ idle > 0
  /\ status # "IN_PROGRESS"
  /\ idle' = idle - 1
  /\ UNCHANGED <<status, stepState, cancelEvent, threads, failedStages, heldVars, canceled, endVars>>

KnownFailed ==
  failedStages \cup UNION {Stage(k) : k \in {j \in Steps : stepState[j] = "FAILED"}}

\* Fault: only the stage itself is looked up, not those it is built on.
BlockedByItself(k) == Stage(k) \cap KnownFailed # {}

\* is_blocked(): a step is held up by its stage and by those up its parents.
\* Its first test finds PrepareRunner in stages[0], never a failed toolset.
Blocked(k) == \E s \in Stage(k) : Lineage[s] \cap KnownFailed # {}

BuildFailed(k) == k \in Cleanups /\ stepState[Build(StageOf(k))] # "COMPLETED"
Scheduled(k) == stepState[k] = "SCHEDULED"
Runnable(k) == Scheduled(k) /\ ~BuildFailed(k) /\ ~Blocked(k)

\* The steps passed over are canceled or skipped.
PassOver(passed) ==
  /\ stepState' = [k \in Steps |->
       IF k \notin passed THEN stepState[k]
       ELSE IF BuildFailed(k) THEN "CANCELED" ELSE "FAILED"]
  /\ failedStages' = KnownFailed \cup UNION {Stage(k) : k \in passed}

ContinueSpawn ==
  /\ ending = "no" /\ idle > 0 /\ status = "IN_PROGRESS"
  /\ \E k \in Steps :
       /\ Runnable(k) /\ \A j \in Steps : j < k => ~Runnable(j)
       /\ PassOver({j \in Steps : j < k /\ Scheduled(j)})
       /\ threads' = Append(threads, [step |-> k, at |-> "spawned"])
  /\ idle' = idle - 1
  /\ UNCHANGED <<status, cancelEvent, heldVars, canceled, endVars>>

\* All steps finished.
ContinueFinish ==
  /\ ending = "no" /\ idle > 0 /\ status = "IN_PROGRESS"
  /\ \A k \in Steps : ~Runnable(k)
  /\ PassOver({k \in Steps : Scheduled(k)})
  /\ LET success == \A k \in Steps : stepState'[k] # "FAILED"
     IN /\ status' = IF success THEN "COMPLETED" ELSE "FAILED"
        /\ ending' = IF success THEN "success" ELSE "failure"
  /\ cursor' = StopRunner
  /\ idle' = idle - 1
  /\ UNCHANGED <<cancelEvent, threads, heldVars, canceled, raised, listed, reports>>

\* step.cancel(), which cleanup() calls too: complete(FAILED), but for the
\* removal of previous builds, which is CANCELED and continues nothing.
CancelEffect(k, state) ==
  /\ stepState' = IF state[k] = "IN_PROGRESS"
                  THEN [state EXCEPT ![k] = IF k \in Cleanups THEN "CANCELED" ELSE "FAILED"]
                  ELSE state
  /\ cancelEvent' = IF state[k] = "IN_PROGRESS" THEN cancelEvent \cup {k} ELSE cancelEvent
  /\ idle' = IF state[k] = "IN_PROGRESS" /\ k \notin Cleanups THEN idle + 1 ELSE idle

\* cancel(): scheduled removals are canceled, then the first step in progress.
Cancel ==
  /\ ending = "no" /\ status = "IN_PROGRESS"
  /\ canceled' = TRUE /\ status' = "FAILED"
  /\ LET state == [k \in Steps |->
           IF k \in Cleanups /\ Scheduled(k) THEN "CANCELED" ELSE stepState[k]]
         running == {k \in Steps : state[k] = "IN_PROGRESS"}
     IN IF running = {}
        THEN stepState' = state /\ UNCHANGED <<cancelEvent, idle>>
        ELSE CancelEffect(CHOOSE k \in running : \A j \in running : k <= j, state)
  /\ ending' = "canceled" /\ cursor' = StopRunner
  /\ UNCHANGED <<threads, failedStages, heldVars, raised, listed, reports>>

\* Fault: completed steps are not cleaned.
CleanupUnfinished ==
  /\ ending # "no" /\ cursor > 0
  /\ cursor' = cursor - 1
  /\ IF cursor \notin Steps \/ stepState[cursor] \in {"SCHEDULED", "COMPLETED"}
     THEN UNCHANGED <<stepState, cancelEvent, idle, spawned, reserved, runnerUsed>>
     ELSE /\ CancelEffect(cursor, stepState)
          /\ IF cursor = PrepareToolset
             THEN spawned' = FALSE /\ reserved' = FALSE
             ELSE UNCHANGED <<spawned, reserved>>
          /\ runnerUsed' = IF cursor = PrepareRunner THEN FALSE ELSE runnerUsed
  /\ UNCHANGED <<status, threads, failedStages, seeds, built, record, previous, canceled,
                 ending, raised, listed, reports>>

\* cleanup() of the step at the cursor.
CleanupStep ==
  /\ ending # "no" /\ cursor > 0
  /\ cursor' = cursor - 1
  /\ IF cursor \notin Steps \/ stepState[cursor] = "SCHEDULED"
     THEN UNCHANGED <<stepState, cancelEvent, idle, spawned, reserved, runnerUsed>>
     ELSE /\ CancelEffect(cursor, stepState)
          /\ IF cursor = PrepareToolset
             THEN spawned' = FALSE /\ reserved' = FALSE
             ELSE UNCHANGED <<spawned, reserved>>
          /\ runnerUsed' = IF cursor = PrepareRunner THEN FALSE ELSE runnerUsed
  /\ UNCHANGED <<status, threads, failedStages, seeds, built, record, previous, canceled,
                 ending, raised, listed, reports>>

\* unspawn() or a release raises: what it was to give back is kept, and the
\* steps before it are not cleaned.
CleanupRaises ==
  /\ ending # "no" /\ cursor \in {PrepareToolset, PrepareRunner} /\ ~Scheduled(cursor)
  /\ CancelEffect(cursor, stepState)
  /\ \/ cursor = PrepareToolset /\ reserved /\ spawned' \in {spawned, FALSE}
     \/ cursor = PrepareRunner /\ runnerUsed /\ spawned' = spawned
  /\ cursor' = 0 /\ raised' = TRUE
  /\ UNCHANGED <<status, threads, failedStages, seeds, built, record, previous, runnerUsed, reserved,
                 canceled, ending, listed, reports>>

\* Fault: the records are left as they are.
FinishLeavesRecords ==
  /\ ending # "no" /\ cursor = 0
  /\ listed' = (ending = "failure")
  /\ reports' = Append(reports, ending)
  /\ ending' = "no"
  /\ UNCHANGED <<status, stepState, cancelEvent, threads, idle, failedStages, seeds, built, record,
                 previous, runnerUsed, reserved, spawned, canceled, cursor, raised>>

\* A failed build stays listed, unless it was canceled; complete_process
\* updates the records of stages that did not start.
Finish ==
  /\ ending # "no" /\ cursor = 0
  /\ listed' = (ending = "failure")
  /\ reports' = Append(reports, ending)
  /\ record' = [s \in Stages |->
       IF record[s] # "SCHEDULED" THEN record[s] ELSE IF canceled THEN "CANCELED" ELSE "SKIPPED"]
  /\ ending' = "no"
  /\ UNCHANGED <<status, stepState, cancelEvent, threads, idle, failedStages, seeds, built,
                 previous, runnerUsed, reserved, spawned, canceled, cursor, raised>>

-----------------------------------------------------------------------------
(* The thread of a step.                                                   *)

mainVars == <<status, failedStages, canceled, endVars>>
StepAt(i, where) == threads[i].at = where
Go(i, where) == threads' = [threads EXCEPT ![i].at = where]

StepStart(i) ==
  LET k == threads[i].step IN
  /\ StepAt(i, "spawned")
  /\ stepState' = [stepState EXCEPT ![k] = "IN_PROGRESS"]
  /\ cancelEvent' = cancelEvent \ {k}
  /\ Go(i, "started")
  /\ UNCHANGED <<idle, heldVars, mainVars>>

\* Whatever the step does may raise.
StepFails(i) ==
  /\ \/ StepAt(i, "started") /\ threads[i].step \notin Builds
     \/ StepAt(i, "reserved")
  /\ Go(i, "FAILED")
  /\ UNCHANGED <<stepState, cancelEvent, idle, heldVars, mainVars>>

\* Fault: a failure is not followed by a continuation.
CompleteSilently(i) ==
  LET k == threads[i].step IN
  /\ threads[i].at \in {"COMPLETED", "FAILED"}
  /\ IF k \in cancelEvent
     THEN UNCHANGED <<stepState, idle>>
     ELSE /\ stepState' = [stepState EXCEPT ![k] = threads[i].at]
          /\ idle' = IF threads[i].at = "COMPLETED" THEN idle + 1 ELSE idle
  /\ Go(i, "done")
  /\ UNCHANGED <<cancelEvent, heldVars, mainVars>>

\* complete(), which does nothing after the step was canceled.
Complete(i) ==
  LET k == threads[i].step IN
  /\ threads[i].at \in {"COMPLETED", "FAILED"}
  /\ IF k \in cancelEvent
     THEN UNCHANGED <<stepState, idle>>
     ELSE /\ stepState' = [stepState EXCEPT ![k] = threads[i].at]
          /\ idle' = idle + 1
  /\ Go(i, "done")
  /\ UNCHANGED <<cancelEvent, heldVars, mainVars>>

TakeRunner(i) ==
  /\ StepAt(i, "started") /\ threads[i].step = PrepareRunner
  /\ runnerUsed' = TRUE
  /\ Go(i, "COMPLETED")
  /\ UNCHANGED <<stepState, cancelEvent, idle, seeds, built, record, previous, reserved, spawned,
                 mainVars>>

ReleaseRunner(i) ==
  /\ StepAt(i, "started") /\ threads[i].step = StopRunner
  /\ runnerUsed' = FALSE
  /\ Go(i, "COMPLETED")
  /\ UNCHANGED <<stepState, cancelEvent, idle, seeds, built, record, previous, reserved, spawned,
                 mainVars>>

ReserveToolset(i) ==
  /\ StepAt(i, "started") /\ threads[i].step = PrepareToolset
  /\ reserved' = TRUE
  /\ Go(i, "reserved")
  /\ UNCHANGED <<stepState, cancelEvent, idle, seeds, built, record, previous, runnerUsed, spawned,
                 mainVars>>

SpawnToolset(i) ==
  /\ StepAt(i, "reserved")
  /\ spawned' = TRUE
  /\ Go(i, "COMPLETED")
  /\ UNCHANGED <<stepState, cancelEvent, idle, seeds, built, record, previous, runnerUsed, reserved,
                 mainVars>>

SnapshotFetched(i) ==
  /\ StepAt(i, "started") /\ threads[i].step = Snapshot
  /\ Go(i, "COMPLETED")
  /\ UNCHANGED <<stepState, cancelEvent, idle, heldVars, mainVars>>

SeedDownloaded(i) ==
  /\ StepAt(i, "started") /\ threads[i].step \in Downloads
  /\ seeds' = seeds \cup Stage(threads[i].step)
  /\ Go(i, "COMPLETED")
  /\ UNCHANGED <<stepState, cancelEvent, idle, built, record, previous, runnerUsed, reserved, spawned,
                 mainVars>>

HasSeed(s) == s \in Reused \/ (IF Parent[s] = 0 THEN s \in seeds ELSE Parent[s] \in built)

\* The record is saved before the seed is looked for.
BuildBegin(i) ==
  LET s == StageOf(threads[i].step) IN
  /\ StepAt(i, "started") /\ threads[i].step \in Builds
  /\ record' = [record EXCEPT ![s] = "IN_PROGRESS"]
  /\ Go(i, IF HasSeed(s) THEN "building" ELSE "broken")
  /\ UNCHANGED <<stepState, cancelEvent, idle, seeds, built, previous, runnerUsed, reserved, spawned,
                 mainVars>>

\* The command needs the toolset this build has spawned.
BuildSucceeds(i) ==
  LET s == StageOf(threads[i].step) IN
  /\ StepAt(i, "building") /\ spawned
  /\ record' = [record EXCEPT ![s] = "COMPLETED"]
  /\ built' = built \cup {s}
  /\ Go(i, "COMPLETED")
  /\ UNCHANGED <<stepState, cancelEvent, idle, seeds, previous, runnerUsed, reserved, spawned,
                 mainVars>>

\* run_command_in_toolset completes the step before it returns False.
CommandFails(i) ==
  LET k == threads[i].step IN
  /\ StepAt(i, "building")
  /\ \/ UNCHANGED <<stepState, idle>>
     \/ /\ CommandRaises /\ k \notin cancelEvent
        /\ stepState' = [stepState EXCEPT ![k] = "FAILED"]
        /\ idle' = idle + 1
  /\ Go(i, "broken")
  /\ UNCHANGED <<cancelEvent, heldVars, mainVars>>

\* Fault: the step of a broken build completes.
BrokenCompletes(i) ==
  LET s == StageOf(threads[i].step) IN
  /\ StepAt(i, "broken")
  /\ record' = [record EXCEPT ![s] = IF canceled THEN "STOPPED" ELSE "FAILED"]
  /\ Go(i, "COMPLETED")
  /\ UNCHANGED <<stepState, cancelEvent, idle, seeds, built, previous, runnerUsed, reserved, spawned,
                 mainVars>>

\* Stopping a build is not a failure of its stage.
BuildBroken(i) ==
  LET s == StageOf(threads[i].step) IN
  /\ StepAt(i, "broken")
  /\ record' = [record EXCEPT ![s] = IF canceled THEN "STOPPED" ELSE "FAILED"]
  /\ Go(i, "FAILED")
  /\ UNCHANGED <<stepState, cancelEvent, idle, seeds, built, previous, runnerUsed, reserved, spawned,
                 mainVars>>

\* Older builds are removed unless the build is canceled meanwhile.
RemovePrevious(i) ==
  LET k == threads[i].step
      s == StageOf(k) IN
  /\ StepAt(i, "started") /\ k \in Cleanups
  /\ IF stepState[Build(s)] = "COMPLETED" /\ s \in previous
     THEN IF k \in cancelEvent \/ canceled
          THEN /\ stepState' = [stepState EXCEPT ![k] = "CANCELED"]
               /\ Go(i, "done") /\ UNCHANGED previous
          ELSE previous' = previous \ {s} /\ Go(i, "COMPLETED") /\ UNCHANGED stepState
     ELSE Go(i, "COMPLETED") /\ UNCHANGED <<previous, stepState>>
  /\ UNCHANGED <<cancelEvent, idle, seeds, built, record, runnerUsed, reserved, spawned, mainVars>>

-----------------------------------------------------------------------------

MainStep == ContinueEnded \/ ContinueSpawn \/ ContinueFinish \/ CleanupStep \/ CleanupRaises \/ Finish

ThreadStep(i) ==
  \/ StepStart(i) \/ StepFails(i) \/ Complete(i)
  \/ TakeRunner(i) \/ ReleaseRunner(i) \/ ReserveToolset(i) \/ SpawnToolset(i)
  \/ SnapshotFetched(i) \/ SeedDownloaded(i)
  \/ BuildBegin(i) \/ BuildSucceeds(i) \/ CommandFails(i) \/ BuildBroken(i)
  \/ RemovePrevious(i)

Next ==
  \/ Start \/ Cancel \/ MainStep
  \/ \E i \in DOMAIN threads : ThreadStep(i)

\* The main loop and the threads run; nobody has to start or cancel a build.
Fairness ==
  /\ WF_vars(MainStep)
  /\ \A i \in 1 .. Cardinality(Steps) : WF_vars(i \in DOMAIN threads /\ ThreadStep(i))

Spec == Init /\ [][Next]_vars /\ Fairness

-----------------------------------------------------------------------------
(* Properties.                                                             *)

TypeOK ==
  /\ status \in {"SETUP", "IN_PROGRESS", "COMPLETED", "FAILED"}
  /\ stepState \in [Steps -> {"SCHEDULED", "IN_PROGRESS", "COMPLETED", "FAILED", "CANCELED"}]
  /\ cancelEvent \subseteq Steps
  /\ threads \in Seq([step : Steps,
       at : {"spawned", "started", "reserved", "building", "broken", "COMPLETED", "FAILED", "done"}])
  /\ idle \in Nat /\ cursor \in 0 .. StopRunner
  /\ failedStages \subseteq Stages /\ seeds \subseteq Stages /\ built \subseteq Stages
  /\ previous \subseteq HasPrevious
  /\ record \in [Stages -> {"none", "SCHEDULED", "IN_PROGRESS", "COMPLETED", "FAILED", "SKIPPED",
                            "CANCELED", "STOPPED"}]
  /\ {runnerUsed, reserved, spawned, canceled, raised, listed} \subseteq BOOLEAN
  /\ ending \in {"no", "success", "failure", "canceled"}
  /\ reports \in Seq({"success", "failure", "canceled"})

Running(i) == threads[i].at # "done"
Quiet == reports # <<>> /\ \A i \in DOMAIN threads : ~Running(i)

\* Steps run one after another, in the order of setup_stages, and no step
\* runs twice.
StepsInOrder == \A i, j \in DOMAIN threads : i < j =>
  ~Running(i) /\ threads[i].step < threads[j].step

\* Success is reported only when every stage was built, and a canceled run
\* is never reported as one.
SuccessMeansBuilt == \A n \in DOMAIN reports : reports[n] = "success" =>
  ~canceled /\ \A s \in Stages : record[s] = "COMPLETED"

\* A stage that has a usable build keeps one: older builds are removed only
\* after the stage built in this run.
UsableBuildKept == \A s \in HasPrevious : s \in previous \/ record[s] = "COMPLETED"

\* When nobody canceled, just the stages are skipped that have no seed or have
\* an earlier one up their parents, over reused ones too, that was not built:
\* every other one was attempted.
SeedFailed(s) == Download(s) \in Downloads /\ stepState[Download(s)] = "FAILED"
OnlyDependentsSkipped == (Quiet /\ ~canceled) => \A s \in Stages :
  /\ record[s] \in {"COMPLETED", "FAILED", "SKIPPED"}
  /\ record[s] = "SKIPPED" <=>
       SeedFailed(s) \/ \E r \in Lineage[s] : r < s /\ record[r] # "COMPLETED"

\* No record is left open when the run has ended and its threads returned.
RecordsClosed == Quiet => \A s \in Stages : record[s] \notin {"none", "SCHEDULED", "IN_PROGRESS"}

\* What a build held when it reports is left by a cancel, whose steps may still
\* run, or by a cleanup that raised, which success does not tell of; but the
\* runner, which has a step of its own, success means to be released.
HeldWhileRunning == reports # <<>> =>
  /\ ~canceled /\ ~raised => ~reserved /\ ~spawned /\ ~runnerUsed
  /\ reports[1] = "success" => ~runnerUsed

\* A started build reports, once.
BuildReports == status = "IN_PROGRESS" ~> reports # <<>>
=============================================================================
