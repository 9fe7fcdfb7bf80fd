# Catalyst Lab: TLA+ models, model checking and proofs

Catalyst Lab (`src/src`, Python and GTK) describes Gentoo builds as trees of stages and runs Catalyst for them, in
toolsets on this computer or in virtual machines. The code is a GTK main loop with many threads: every step of an
operation has one, so have authorization, calls of the root helper, git commands and starts of machines. Timers and
callbacks queued with `GLib.idle_add` tie them together, and there are few locks. What goes wrong in such code is an
order of steps that nobody wrote a test for, a file left in the middle, a value read before somebody changed it. That is
what these modules are about.

Contents: [components](#components) · [how they interact](#how-they-interact) · [modules](#modules) · [runs](#runs) ·
[bounds and fairness](#bounds) · [findings](#findings) · [cases outside the properties](#cases-outside-the-properties) ·
[proofs](#proofs) · [what is only model-checked](#what-is-only-model-checked) · [what is not modelled](#what-is-not-modelled) ·
[plan](#plan).

To repeat a run or a proof, in this directory:

    tlc -workers 2 -config VMRunner_all.cfg MCVMRunner.tla
    tlapm BuildQueue_proofs.tla

`PROJECT.json` lists the components, the runs, which source lines every definition stands for, the hazards at their
lines with the properties that would catch them, the theorems, and for every property a change of the code that breaks it.

## Components

Paths are below `src/src/objects/` unless they begin with `ui/`.

| Component | State it keeps | Operations | Hard parts | What makes it right | Modules |
|---|---|---|---|---|---|
| `MultiStageProcess` and its stages (`global_objects/multistage_process.py`) | status, stage states, cancel events, the server call, the authorization keeper, the list of started processes | `start`, `cancel`, `_continue_process`, `_finish`, `_cleanup`; of a stage `start`, `complete`, `cancel`, `cleanup`, `run_command_in_toolset` | stage threads, the main loop and a worker of the shutdown dialog write the same fields without locks | one stage at a time, in order; one report; nothing left behind | `MultiStageProcess`, `ProcessLifecycle` |
| Builds (`project/project_build_process.py`, `global_objects/runner_operation.py`) | states of steps, failed stages, seeds, records on disk, older builds, what is held | the steps of `setup_stages`, its own `_continue_process`, `cancel`, `complete_process` | a failed step skips what depends on it and nothing else; older builds are removed | right stages skipped, records closed, a usable build is never lost | `ProjectBuild` |
| Plans of builds (`project/project_build.py`) | mode of each stage | `_resolve_ancestors`, `build_order` | cycles, any order of a set, builds that exist | every stage has a seed; the order is whole, parents first | `StageBuildPlan` |
| Build queue (`project/build_queue.py`) and its wizard (`ui/project/project_build_view.py`) | entries, pause, scheduled check, retry timer; pages, checks, files shown for review | add, remove, move, clear, start, pause, `_check`; choose, check, review, start | timers against queued callbacks against authorization; answers of workers for what was selected before | never stuck, a failure the queue has been told of holds it, files have an owner; what is built is what was shown | `BuildQueue`, `BuildWizard` |
| Machines that run builds (`build_machine/build_machine.py`, `MachineExecutor` in `global_objects/rootless.py`) | status, users, stop timer, working space, three locks | `prepare`, `acquire_workspace`, `release*`, `start`, `stop`, `_stop_if_idle`, `refresh_status` | decisions under one lock, actions under another; a timer that is due already | uses in balance, idle machine stops, no deadlock, honest status | `VMRunner` |
| Toolsets (`toolset/*`) | reserved, spawned, in use, mounts | `reserve`, `spawn`, `unspawn`, `run_command` and the operations that call them | failure in the middle, a button pressed for what was | one holder, mounts as the object says, nothing held by what is over | `Toolset` |
| Root helper (`root_helper/*`) | socket, calls, keepers, the server's jobs | authorize, start, keep, call, cancel, stop | threads at both ends of a socket, a server that dies | calls return, what ended is gone, unused root access is dropped | `RootHelper` |
| Test machines (`qemu/*`) | cached images, image of a launch, processes | prepare, cancel, run, stop; start of the app | a cache that launches share, removal by another thread | a machine has a whole image; nothing is left | `TestVM` |
| Deployment (`deploy/*`, `ui/deploy/*`) | partitions, connections, mounts of an installation | pages of the wizard, connect, find disks, install, save an image | a connection replaced under the user, a command that fails half way | plans can be installed, the named disk is written, nothing stays mounted | `DiskLayout`, `DeployWizard`, `Deployment` |
| Templates of projects (`project/project_template*.py`) | versions, decisions, commits to replay; options and what they generate | compare, review, replay; select, resolve, generate | three-way merge over commits; selections that replace themselves | decided is done, stages whole; ids stay | `ProjectTree`, `TemplateUpdate`, `TemplateOptions` |
| Git directories, packages (`git_directory/*`, `packages/*`) | content, index, stash, remote; directories and their records | edit, save, discard, update, install, rename, delete | objects saved over what git changed; crashes between steps | no content lost; records true | `GitDirectory`, `GitLibrary` |
| Library (`global_objects/library*.py`) | the folder, its place, the list that is shown | scan, delete, move, copy, use another | what is in use, a move that fails half way | nothing in use deleted, data kept | `LibraryPage`, `LibraryChange` |
| Snapshots (`snapshot/*`) | files, list, settings of projects | generate, import, look up, clean, delete | cleaning while a build begins, restarts | listed are whole, used are kept | `SnapshotStore` |
| Stages (`project/project_stage*.py`, `ui/project/project_stage_details_view.py`, `ui/kernel_package_row.py`) | arguments, defaults, parents, overlays, kernels; rows with text | inherit, combine, set, rename, move, remove what is inherited, save, load | workers that calculate defaults while the user edits | what is saved is what was chosen, what is shown is what there is | `StageValues`, `StageEditing`, `StageRows` |
| `EventBus` | weak subscriptions | `subscribe`, `emit` | delivery later, in order | a queue of callbacks in the modules that have one | in `BuildQueue`, `BuildWizard` |
| Lima, `HostRunner`, rootless scripts, records of failures, text of specs | - | - | external programs, or no state | - | see [not modelled](#what-is-not-modelled) |

## How they interact

The wizard makes a `StageBuildPlan`, lets a worker check the settings of its stages and another one write the files, and
starts a `ProjectBuild` or adds it to the `BuildQueue`. `start_project_build` authorizes the root helper in a thread and starts
the build from the main loop. A build is a `MultiStageProcess`: its first steps prepare the runner (`VMRunner`) and spawn a
`Toolset`, the others run commands in it through the root helper or in the machine. The process tells its end to the
`EventBus`, which the queue listens to. Builds read snapshots, stages (with their resolved values) and Git directories, and
write build records; the pages of the Library delete these when no operation uses them. Test machines and deployments take the
result of a build. Updates of a project change its Git directory under the views that show it.

Actors that interleave are the main loop (with the user, timers and queued callbacks, in GLib's order), the thread of
each step, workers of views, the thread of the app's end, the server of the root helper and its children, external programs
(`limactl`, `git`, QEMU), and crashes of the app.

## Modules

One module has one component; the modules that begin with MC put components side by side for one run or fix inputs, those
that end with `_proofs` hold theorems. Definitions that begin with the comment "Fault:" are in no specification: each is the
definition that follows it with a bug somebody could write, and `PROJECT.json` says which property it breaks.

| Module | Source | State and actions |
|---|---|---|
| `ProcessLifecycle` | - | What a process promises: started once, listed and authorized while it runs, authorization given back before the one report. |
| `MultiStageProcess` | `multistage_process.py` | Python threads switch between any two statements, so reading a field that another thread writes is one step and using it another: `ContinueTest` reads the status, `ContinueSpawn`, `ContinueFail`, `ContinueComplete` decide; `StageReap` reads `server_call`, `StageJoin` waits. `pc`, `at`, `joining`, `verdict` are the position and the locals of the two threads that run process code, `body` of the stage threads; `idle` counts queued continuations. What a subclass does in a stage is a server call and a resource that `cleanup()` gives back. |
| `ProjectBuild` | `project_build_process.py`, `runner_operation.py` | One level up: `complete()` and the cancel of a stage are one action each, the interest is in the order of steps. Steps are numbered as in `setup_stages()`; `threads` is the history of step threads, `record` what is in the `build.json` of each stage, `previous` the older builds that exist. `Lineage` is the smallest set of stages closed under parents, reused ones included, as `is_blocked()` walks. |
| `StageBuildPlan` | `project_build.py` | From every graph of parents, every set of usable builds and every selection: the walk up as `stage`, `visited`, the recursion of `build_order()` as its `stack`. |
| `BuildQueue` | `build_queue.py` and its callers | Handlers, timers and callbacks of the main loop, with authorization (`pending`) and builds in threads; `idle` is the queue of callbacks in order. With `Prompt = FALSE` a due timer or the user may come before queued callbacks, as GLib's priorities allow; `held` is history: a failure has happened that the user has not answered. |
| `BuildWizard` | `project_build_view.py`, `wizard_view.py` | Pages, the choice of toolset and snapshot, the worker that checks and the worker that writes files, their results in the main loop, authorization, queue and start. `updating` is the one attribute that the last answer sets for every build that waits. |
| `VMRunner` | `build_machine.py`, `rootless.py` | What happens under `_usage_lock` is one step; `_lock` and `_workspace_lock` are held over calls of `limactl` and are variables. `back` is the return address of a thread that starts the machine or runs a command. |
| `Toolset` | `toolset.py`, users of it | Six kinds of operations with the steps of `spawn()` and `unspawn()` and their failures, cancel, and the cleanup by another thread. |
| `RootHelper` | `root_helper_*.py`, `root_function.py` | Client threads, the wires, the server, its jobs and their children; processes of the server are numbered, so that late messages of an old one are told apart. |
| `TestVM` | `qemu_run.py`, `apple_virtualization.py`, views | Stages of a launch with their threads, the cache entry that launches of a build share, the machine, its stop (the question to its monitor, then signals), end and restart of the app. |
| `DiskLayout`, `DeployWizard`, `Deployment` | `deploy/*`, `ui/deploy/*` | Partitions and boot of a disk with edits; connections that workers open and close (`hurried` remembers a user who goes on or leaves while one connects); the steps of each kind of deployment with failure, cancel and `complete_process()`. |
| `ProjectTree`, `TemplateUpdate` | `project_template_update.py` | Files of a version, the three-way comparison, what is written back, replay of commits, the review. |
| `TemplateOptions` | `project_template.py`, its views | Options with conditions, groups, variants and ids of generated stages, rebuilds queued by the view. |
| `GitDirectory`, `GitLibrary` | `git_directory/*`, `packages_directory.py` | One directory: content as sets of changes, every git command a step, and what its output changes another one; `overtaken` has what was shown although something newer had been read. All of them: installation, renaming, deletion, and what the start of the app repairs. |
| `LibraryPage`, `LibraryChange` | `library*.py`, `library_section.py` | The scan and its worker, buttons and deletion; the move of the folder, of which every step may fail or end the app. |
| `SnapshotStore` | `snapshot/*` | Files, list, queued additions, automatic cleaning, builds that use a snapshot, restarts. `disturbed` has the names the user deleted, or that two operations had. |
| `StageValues` | `project_stage_value_resolver.py` and others | Values inherited through any graph of stages against a declarative solution; overlays; lines of specs. |
| `StageEditing`, `StageRows` | `project_stage.py`, `project_manager.py`, `project_stage_details_view.py`, `project_stage_kernels.py` | Defaults calculated in three steps by a worker while the user edits; rows with text not applied yet, kernels and their settings. |
| `MCProjectBuild` | - | A plan of a project of `PlanStages` stages, or a build of `NumStages` stages. |
| `MCMachines` (with `MCDeployment`), `MCProjects` (with `MCLibrary`), `MCStages` (with `MCEditing`) | - | Several components side by side: the first choice, `part` or `topic`, is which one is looked at; the others stay as they begin. `MCLibrary` has those that are about files of the Library, `MCProjects` adds what templates do; `MCEditing` has the stages that are edited, `MCStages` adds the rest. |
| `MCMultiStageProcess`, `MCVMRunner`, `MCTestVM`, `MCBuildQueue` | - | Two uses of a component in one run, inputs, symmetry. |

## Runs

Numbers are distinct states and minutes with two workers. A run's state space is constrained by named constants only.

| Run | Question | Instance | States, time |
|---|---|---|---|
| `process` | Is the lifecycle implemented, with the Cancel button answered at any time? Does the inductive invariant hold, is nothing left behind, and what keeps a thread in `cancel()`, also when a worker cancels too and cleanup may raise? | 3 stages; one call each where only the main loop cancels | 211,579, 1.9 min |
| `build` | Is the plan the reference one, parents first? Does a build keep usable builds, contain failures, stay in order and report? | every project of 3 stages, with cycles; a build of 4 stages, one of which has an earlier build whose parents are in the run; cleanup that raises | 210,532, 47 s |
| `queue_races` | Can the queue be stuck, who owns preview files, when does a failure hold the queue? | 2 projects, 3 requests, authorization, timers and callbacks in any order | 2,401,384, 1.1 min |
| `queue_prompt` | Is each entry handled, where callbacks are prompt? | 3 projects, 3 requests | 44,744, 12 s |
| `vm` | Is the idle stop armed, are uses in balance, is the status honest, are locks ordered, does limactl work for one thread, is an unused machine stopped? | 2 operations, buttons, quit and the timer; 1 operation with a view that refreshes | 978,873, 2.1 min |
| `root_helper` | Is what ended gone, does every call return, is root access dropped? | 2 operations, one of them the button; one server that may be denied, disabled or die | 255,397, 1.5 min |
| `test_vm` | Are images whole, is nothing left, what does a preparation or a stop wait for forever? | 2 launches of one build or of two, failures, cancels, the app ends once | 217,363, 1.3 min |
| `machines` | Can plans be installed, is the named disk written, is nothing left of a deployment, an operation of a toolset, a snapshot's use? | disks of 3 kinds with 2 edits; wizard; all deployments; 2 operations of all kinds; 2 commits, 1 import, 1 restart | 922,190, 1.6 min |
| `projects` | Does an update do what was decided, do options settle, is content kept, are records true, is nothing in use deleted, does a change of the folder keep the data? | 3 stages, 2 edits, 1 update; 3 templates; 2 changes and 1 remote one, 2 threads that read; 2 names, 2 installations, 1 crash; 6 kinds of objects | 1,169,154, 1.9 min |
| `stages` | Do values fit, is what is saved what was chosen and what is shown what there is, is what is built what was reviewed? | 3 stages in 7 projects; 3 ids with 4 edits; rows with 4 actions; wizard with 3 checks, 2 previews, 2 starts | 420,105, 1.2 min |
| `deploy_iso` | Is an ISO written to a disk? (No: finding 1) | no failure, no cancel | 9,394 |
| `template_values` | Do values of a template stay? (No: finding 2) | 1 stage made by a template | 81 |

Several components share a run (`machines`, `projects`, `stages`, `build`): the first choice of a behavior is which of them is looked at,
so the run has the sum of their states, not the product, and each property is about its own part.

### Bounds

Stages of a process interact with their neighbours only, and with cleanup in reverse order: three show every position. One call per stage is
enough since a stage has one `server_call` at a time (the bound is in `CallMade`). A build of four stages has a root, a child, a grandchild (a failure that is
passed on) and a root with an earlier build. The queue needs two entries and one build for its races and a third project for a build behind one that
failed; `MaxRequests` bounds the ids of requests. For a machine or a toolset, two operations are those that compete; a third
waits behind them. One server of the root helper is enough for one life of it; what an old server does to a new one is a
case below. Two launches share one cache entry or not. Values of stages go through at most two parents in three stages, and a loop of three. `MaxEdits`, `MaxOps`,
`MaxActions`, `MaxChecks`, `MaxPreviews`, `MaxStarts`, `MaxInstalls`, `MaxCrashes`, `MaxRestarts`, `MaxUpdates`, `MaxChoices` and `MaxOpen` bound what the user does, one more than a race needs; they are in the
guards. For many components the theorems remove the bound.

`SYMMETRY` is used in `queue_races` only, which has no liveness property. In `projects`, where a fault of the user or of Git is looked at, threads that read the status do not overtake each other, and the second change is made without faults or with one thread only (`MCLibrary`). `CHECK_DEADLOCK FALSE` is in the cfg where the system may stop: a
process, a build or a preparation ends, a queue is empty, users do no more than the bounds let them.

### Fairness

Weak fairness is given to what threads, the main loop and external programs do by themselves: a thread that can run is run, callbacks are
dispatched, a command nobody canceled, a build and `limactl` end (they have time limits or are waited for without one), pkexec is answered. A call of the root
helper that was canceled need not be answered, nor a question to the monitor of a machine: what waits for these, without a timeout, is excused by `CancelReturns` and `LaunchSettles`, and only that. No user
action, start, cancel or operation is fair. Timers of the queue have strong fairness: GLib runs a due timer before idle
callbacks, so callbacks that keep coming cannot starve it. All steps of threads that hold or wait for locks of the
machine share one weak condition: Python's locks promise no order, so no thread is promised a lock before another. The parts of the root helper's client
share one, too, and so do its server's.

## Findings

1. **An ISO is not written to a disk unless it is modified for another machine** (`deploy_iso`, `deploy/deploy_live_iso.py:622`). The step that writes it
   wipes the disk through the connection of the process, which is `None`, or has no root. Line 168 says "Disk of this computer, written with ISO."
2. **Values of a template are lost** (`template_values`, `project/project_stage.py:733`). They are set but not recorded as explicit; calculating defaults
   twice records them as defaults and deletes them.

## Cases outside the properties

Each was seen as a counterexample when a property was stated without its restriction, or read in the code; the constant or the state that excuses
it is named where there is one. They are no findings with a run, because no line of the repository promises the opposite, or because the property that
remains is the more useful one.

*Processes and builds.*
- A canceled stage that has its thread and is not in progress yet is passed over by `_cleanup()` (`multistage_process.py:269`); commands and resources follow the report.
  `cancel()` by the worker between `:167` and `:179`: CANCELED is overwritten by COMPLETED (`Cancelers` with "worker").
- The dialog of the Cancel button answered after the end makes the process report twice (`LateCancel`; `ProcessLifecycle` is about the first report).
- `cleanup()` that raises: stages before it are not cleaned, the keeper is kept (`CleanupRaises`). A build prints the exception, keeps its toolset reserved, and reports
  what it would have reported, success too (`project_build_process.py:324-327`).
- `cancel()` joins the thread of the call it canceled without a timeout, in the main loop (`multistage_process.py:263-264`), and the helper may leave that call without an
  answer (`root_helper_server.py:407-411`, `540-544`): the app then waits forever (`AwaitsAnswer`).
- `is_blocked()` goes on above reused parents (`project_build_process.py:290-294`): a stage that has its seed is skipped when a stage above that seed fails, where line 298 says that
  "others are still attempted". On a ring of parents above a reused stage it does not return; the assumption on parents leaves rings out.
- A command that raises completes its step, and the step completes again (`multistage_process.py:249`, `project_build_process.py:927`): two steps of a build
  overlap (`CommandRaises`; the theorems of builds exclude it).
- A toolset that can't be prepared blocks nothing: `is_blocked()` looks for its step at `stages[0]`, which is the runner's (`project_build_process.py:288`).
- A run canceled while its runner is prepared may keep it (`runner_operation.py:40`).

*Queue and wizard.*
- Two builds at a time while one waits for authorization (`build_queue.py:202`); a project queued while its own build waits (`:91`).
- `build_queue.py:160` says that the queue continues after a failed build only when settings allow. It does not hold where the queue is not told of the failure (`Untold`): a timer that
  is due comes before the news (`:168`), the build failed before it was observed (`:149`), or another failed build is found first (`:156`). `FailureHoldsQueue` is about every other order.
- The comment "Toolset can be used by running build, it's checked when queued build starts" is about a build the wizard's toolset page does not let
  the user queue. A selected toolset that becomes busy is replaced on any page, the preview is not made again.
- Going back while authorization waits, and forward again, removes the root that the pending start uses. A second press starts nothing, but its answer
  about the snapshot replaces that of the build that waits: both read one attribute (`project_build_view.py:868`, `917`). A build queued, or a review made, while another one waits, takes or removes its files (`Hasty`). Preview roots stay in Temporary when
  the wizard is closed on the files page, when a waiting job with a previous root is canceled, or a job is canceled after its last look.
- An exception in the check leaves "Checking required settings…". `on_realize` twice adds the rows of stages again.

*Machines and toolsets.*
- `_stop_if_idle()` decides under `_usage_lock` and `stop()` does not look again: a machine is stopped under an operation that begins in between (`build_machine.py:257`).
- `refresh_status()` of the view replaces Starting or Stopping (`:141`); if it says Running while `stop()` removes the working space, `stop()` waits for the lock it holds: the one
  exception of `LockOrder` (`Refreshes`). A stop that fails is not tried again (`StopFails`).
- The toolset's view ignores `reserve()` (`toolset_details_view.py:518-536`, `misused`); a process cleaned while it prepares (`"late"`); `unspawn()` or the executor raising keeps the reservation or a mount (`broke`). `remove` and `rename` don't look at the
  reservation; `ToolsetUpdate` of a toolset that is not spawned fails.

*Root helper.* A second authorization during the start (`root_helper_client.py:266`); a cancel as the process ends (`root_helper_server.py:540`), or before it started (`:388`), leaves
a call without an answer or is lost; an old server removes the socket of a new one (`:146`); a late broken call stops a new session
(`root_helper_client.py:434`); the orphan of a server that died goes on.

*Test machines.* A stage between its test and IN_PROGRESS is not found by the cancel and goes on (`"late"`); two preparations that write one entry at a
time share its directory (`"shared"`): with a third launch of the build, which the proof found, a cancel of one preparation can leave a directory
behind; an unmount that fails (`"mounted"`); the window refused (`"refused"`). `_prepare_custom_kernel` tests for cancel after the mount;
`stop()` asks the monitor to quit in the main loop, and its `readline` has no timeout (`qemu_run.py:832-836`,
`859`): a machine that accepts the connection and does not answer stops the app, before any signal is sent. A canceled call of the helper without an answer leaves the preparation of a kernel unfinished (`:1269`, `1387-1396`). Finish pressed while the view is closing.

*Deployment.* Going on while a machine connects: the dialog names a disk of the machine before, and it is erased on the one connected meanwhile (`deploy_create_view.py:942-966`); going on or leaving then (`:200-204`)
leaves the connection open that comes last (both in the run; `hurried` is what the property excuses); the method changed
while connecting, install during a second connect; `os.remove` of a partial image failing; `deploy-<uuid>` not removed; no check before `dd` that the disk is still the same.

*Snapshots and Library.* The date inside an image and the time of its file differ after a restart, so that an old import counts as newest and cleaning removes the newest one; files deleted on the Library's page stay in lists; cleaning deletes the
snapshot of a kernel that is being built (`snapshot_manager.py:52`); a generation writes a file that is listed, when the check for the commit fails or another toolset generates it too, and a build takes the file written
last, by whomever (`project_build_process.py:507-511`), so a file is not whole while somebody counts on it (`disturbed`); a partial file counts after a crash. The page does not protect a build's seeds, the project of a Git update, a deployment's build, queued builds
and canceled operations that still clean; what a worker starts to use between test and removal (`"meanwhile"`), packages another
project shares (`"shared"`). An exception in the scan leaves `_scanning` set (`library_storage.py:383`). The docstring of `change_library` says "Raises on failure,
current library stays used then" (`library.py:97`): after `os.rename` (`:111-112`), after the removal of the old folder (`:118`) and when the preferences cannot be written (`:119`) it is not the one that has the data. These failures, and crashes there,
are steps of `LibraryChange`; what `LibraryKept` says of them is that the data is whole in one place, and of a failure before them that the current Library stays.

*Git and templates.* `update_status()` starts a thread for each call, and what an older one has read may be shown after what a newer one has read, and stay (`git_directory.py:232-239`, `263-269`; `overtaken`). The pass that drops
options (`project_template.py:396-411`) tests against the selection before it, so an option stays whose required one is dropped in the same pass, until the next rebuild, though the docstring says "selections that are not available fall back" (`Stranded`). An edit between the press and `reset --hard` is lost (`"hasty"`, `"clean"`, `"cancel"` of `GitFaults`); an update pressed before
the status is read leaves a change in the stash; a crash between move and save of a rename gives a new id; a canceled clone goes on. An update of a project whose user touched a
thing in two commits gets what nobody chose (`project_template_update.py:580`); a commit made while the review is open is dropped; without `stage_id_suffix` variants share ids; a hidden variable loses its choice.

*Stages.* Edits that don't wait for the worker that calculates defaults (`Overlap`); two rows changed before the first change is delivered (`Hasty` of `StageRows`);
"Add kernel" and a rename over a kernel of that name while the template is gone (`Taken`, `project_stage_kernels.py:177`, `project_stage_details_view.py:850-853`); a crash between move and save of a rename leaves two directories of one id; parents in a loop vanish from the tree, and
`parent_root_overlay_stages` recurses without end; kernels named with a slash are shown as "Not recognized" and get no prepared options; restoring the list of kernels leaves their settings.

## Proofs

A theorem holds for every value of the constants that satisfies the `ASSUME` of its module: types, finiteness of what is counted, distinct names. Where
it needs more, the statement says so in an `ASSUME` of its own; each of these is a case above, and the code reaches the other side of it.

| Module | Theorems | Besides the module's `ASSUME` | Invariant |
|---|---|---|---|
| `MultiStageProcess_proofs` | `Invariance`, `TypeCorrect`, `OneStageRuns`, `StagesRunInOrder`, `SuccessReportedWhole` | - | `Inv` |
| | `NoStageStartsAfterEnd` | only the main loop cancels | `Inv` |
| | `NothingIsLeft` | - | `Inv`, `CleanOK` |
| | `LifecycleImplemented` (of `MCSpec`) | only the main loop cancels, cleanup does not raise | `Inv`, `LifeOK` |
| `BuildAndStages_proofs` | `PlanTypeCorrect`, `EveryStageHasSeed`, `ParentsOrderedFirst`, `OrderComplete` | - | `ResolveInv`, `OrderInv` |
| | `PlanIsTheReference` (of `MCSpec`) | - | `ReferenceInv` |
| | `Invariance`, `TypeCorrect`, `BuildIsOrderly`, `UsableBuildStays`, `FailureStaysContained` | commands do not raise | `IInv` |
| | `StagesSavedAsChosen` (of `EditingSpec`) | edits that wait for threads (no `Overlap`), no stages that a template made in this session (`Made` empty) | `EditingInv` |
| `BuildQueue_proofs` | `TypeCorrect`, `QueueNeverStuck` | - | `NeverStuck` |
| | `FilesHaveOwners` | - | `OwnersOK` |
| | `FailuresHoldQueue` | - | `HeldOK` |
| `VMRunner_proofs` | `TypeCorrect`, `StatusTold`, `OneChangeAtATime`, `LocksOrdered`, `UnseenStatusTold` (of `MCSpec`) | - | `PlacesOK`, `MachineOK` |
| | `UsesInBalance`, `IdleStopNotForgotten` | - | `UsesBalanced`, `IdleStopArmed` |
| `HelperAndLibrary_proofs` | `TypeCorrect`, `EndedIsGoneAlways` (of the root helper) | - | `IInv` |
| | `ContentStays` (of `FilesSpec`) | - | `GitInv` |
| | `LibraryStaysTrue` (of `FilesSpec`) | no `StorageFaults`: nobody begins to use the Library between the test of that and its removal or move, packages are not shared meanwhile | `CollectionInv`, `PageInv`, `FolderInv` |
| `MCMachines_proofs` | `NothingIsHeld` (of `AllSpec`) | - | `ToolsetInv` |
| | `EnvironmentStaysWhole` (of `AllSpec`) | - | `ToolsetInv`, `StoreInv` |
| `MCDeployment_proofs` | `ConnectionsAreOwned` (of `AllSpec`) | - | `WizardInv` |
| | `DeploymentEndsWell` (of `AllSpec`) | - | `DeploymentInv` |
| | `BootSelectionInstalls` (of `AllSpec`) | machines of architectures that can run a build | `BootInv` |
| `TestVM_proofs` | `ImagesAreWhole`, `NothingIsLeft` | - | `IInv` |

*MultiStageProcess.* That two stages never run together is not inductive: what keeps them apart is that there is at most one "token".
`ContinuationIsToken` says that a queued continuation, a place in `_continue_process` that can still create a thread, and an active
stage exclude one another unless the process was canceled or has failed; `PublishesLast` that `cancel()` publishes a failure only for the last
stage that has a thread, and not between the test and the decision of a continuation; `FailureStays` and `EndingIsFinal` that
failures and ends are not undone; `HandlesStarted` that what is canceled or cleaned was started; `SuccessAgrees` what a thread knows on its way to report success. Run `process` checks
`Inv`, which is how it was found. `CleanOK`, for `NothingIsLeft`: calls run inside their stages, and in a process that nobody canceled what the cursor of the cleanup has passed holds no resource, and nothing is kept or listed at the report, unless a cleanup has raised. `LifecycleImplemented` is the safety part of the refinement: the initial state maps to the initial state of `ProcessLifecycle`, and every step to a
step of it or to a stutter; `LifeOK` says that only the main loop runs code of the process, that it is listed from its start to its report, and that the authorization is given back at the report.

*StageBuildPlan.* `ParentsDecided`: the parent of a stage to build is decided, or the walk or a selected stage still to be walked from will decide it; that
gives every stage its seed. `StackRight`: the stages the recursion is in are built, distinct and not added yet; `Covered`: every entry looked at is added or being added if it is built.
The references the plan is compared with, `ToBuild` and `Above`, are the smallest sets closed under what needs a stage and what is above one, so that no induction is asked for: what the code has decided is inside every closed
set (`OnlyNeeded`, `NamesRight`, `WalkAbove`, `StackAbove`), and when it is done it is a closed set itself. A cycle is reported for the first stage above itself (`CycleFound`): the stages before it in the order are closed without it.

*ProjectBuild.* `OneToken` again is the heart: while a build is in progress, a queued continuation is the only one and no thread of a step runs. Threads are a history, and only the last of them
can run (`Ordered`); `ThreadsFit`, `StatesFit` and `RecordsFit` say which states and records a thread's place allows, so that a record is `COMPLETED` before older builds of its stage are removed. A step with no thread that is behind the
last one was passed over, and `Decided` says why: its seed, or its parent, failed. That a stage is skipped only for a
failure goes up the `Lineage`, through reused stages too; it is defined as the smallest set closed under parents and not by recursion, so the proof has the closed set of the stages that are built as a counterexample to a longer lineage, and needs no induction. `Ended` says what the cursor of the cleanup has given back, if no cleanup has raised.

*BuildQueue.* Every action that ends a build, changes entries or lifts the pause queues an event or a check in the same step; the lemmas are about the queue of
callbacks: what is appended or taken keeps one that wakes the queue, or is that one. `OwnersOK` adds identities to `PreviewsOwned`: an entry is in the queue once, what is queued is not asked for as well, ids are of requests that were made, and the files of builds that wait without having been queued are no previews. `HeldOK`: while a failure holds the queue there is an entry behind it, and the queue is paused or the failure is one it has not been told of (`Untold`). Failed builds are numbered anew when one of them is dismissed; `FailedStay` says that they keep their order.

*VMRunner.* `PlacesOK` ties each thread's place to the locks it holds and what it was called for, and gives their order with a view that refreshes, too; `MachineOK` adds that only the holder of `_lock`
changes the machine and its status. `UsesBalanced` counts: `StepCounts` shows of every step that the threads which run commands, and those which work in the working
space, change by one thread exactly when the numbers do, and `CountedBalance` turns that into cardinalities. `IdleStopArmed`
needs it: a start made for an operation sets `_started_automatically` at its end, and only because uses are in balance is it known that the operation's use is still there.

*StageEditing.* `EditingInv` has the user, one thread that calculates for the view and one that creates a stage. `ObjectsFit`: of a stage what is explicit was chosen, and what is not is its default, unless the thread is between two of its
three steps with it. `FilesFit` and `OwnersFit`: directories and stages have each other, and what is saved of a stage is what was chosen; only a created stage has its directory before it is in the project (`CreationFits`). A thread that is late was not
excluded by the statement, so the invariant says what it still writes: `OneLoader` that it is one, `LoadersFit` and `AwaitedFit` that what it has done with a stage is still so when it ends, although stages above were changed or deleted meanwhile, `KnownFits`
that it never has a stage which is not there yet. The longest part is `CustomizedSurvives`: who has changed a value matters only where the change has no date (`CustomizedIs`), so it need not be saved. Overlapping edits, and stages made by a template, break it: these two are the cases named above.

*RootHelper.* `EndedIsGone` is inductive with the types and `CallsAreOrdered`: a job is unknown before its call has connected, and a cleanup is of a job that has had
its process, so no process starts after its end was told.

*TestVM.* For each launch, `Serial` says that one thread or one callback goes on with its preparation, and what is mounted belongs to a thread that unmounts
it; `Prepares` what its finished stages have made; `Prepared` that the image is whole until its machine has run. `Entries` gives every
cache entry one writer, which is not ready meanwhile, unless launches have shared it; launches of a build know together that they have (`SharedByAll`). The proof for any number of launches found the third one that `NothingLeft` had not excused.

*Toolset.* `ToolsetInv`: the holder of the reservation is unique and has begun what it holds it for (`Reserved`), each thread is at a place of its kind
of operation (`PlacesFit`), the holder of the lock is inside `spawn()` or `unspawn()` and nobody else is (`Locked`, `Inhabited`), the environment is the one that the place of whoever is
inside leaves (`EnvironmentFits`), and what is reserved, spawned or in use belongs to an operation that is not over, or to the user's mount (`Accounted`). Some are under the
conditions that the properties have: nobody pressed a button for what was (`Prompt`; the last three), and nothing raised where the code lets it through (`broke`; the last two).

*Snapshots.* `StoreInv`: the file of a name that was not deleted is made by one operation, and nobody relies on it before it is there (`AllKept`); a name is in the list
once (`Unique`); the selected snapshot is listed or was deleted (`Selected`). That cleaning settles (`CleanSettles`) is part of the invariant: whatever ends a use or adds to the list also queues an event or a cleaning, and
the newest snapshot stays the newest, because the date inside a file is not later than the time of the file: dating a snapshot that was found again moves it back, never forward. `SnapshotAssumption`
says so of `Inside`. `RestartKeeps` is the longest lemma: a restart forgets the list and every operation, and lists what the files and the markers beside them say. Names in `disturbed`
leave these statements: a step adds one when it writes a file that is there or is being made, or takes one that another operation has written.

*Deployment.* The stages of a deployment are a sequence of names that depends on its kind, target and method. `Rank` numbers all names, and each sequence is shown to rise (`StagesRising`), so that `Past(x)`, "the step that does x is
behind", can be told from ranks; `PastNext` says that between a stage and the next one nothing is left out. `ControlInv` is the position (one operation at a time, the runner is used from its first stage to the end). `TargetInv` says by `Past` what there is on the target:
`MountsOK` and `LiveOK` what is mounted and attached, `PartOK`, `ImageOK`, `WholeOK` which of the files are being made, whole or moved, and `OutputOK` that a deployment reported as successful has its result. A failure can cut short what the running
operation writes and nothing else (`FailureKeeps`), and the end takes it away (`TargetFinishes`).

*DeployWizard.* Every connection that is open is held by the wizard or by one worker that has just opened it or is about to close it, by nobody else (`WizardOwns`); the worker whose answer is awaited is the last one (`WorkersOwn`). A user who goes on or leaves while it connects is remembered in `hurried`: then
one connection more can be open, the one the worker hands over last, and the invariant says that there is no other.

*Disk pages.* `BootInv`: the firmware is one of the machine's architecture, and the bootloader one that this machine with this firmware supports. Both what the scan of the archive finds and a change of firmware set the row again, and
`DefaultOffered` says that what they set is always offered; it goes through the order in which a default is looked for. This is the part `BootloaderInstalls` of `PlansInstall`. Its other parts are about sums of sizes and orders of mounts, which are folded over the partitions.

*Git directory.* `ContentKept` is about a user who waits for Git operations; then one runs at a time (`OneOperation`), beside any number of threads that read. `Committed`: what was saved is in the branch and the branch is in the
files; `Asked` follows a commit on its way: nobody changes files between staging and committing. `ObjectsFresh`, `StatusFresh` and `RemoteFresh` have one form: what the view holds is true, or a thread that has not got there yet will
make it so, or something older was shown after something newer (`overtaken`). That a discard and an update drop the objects the views hold is what makes the first one inductive: the next save would write old objects over new files.

*Git directories.* `CollectionInv` of the collection: an id is of one record, one directory and one installation (`IdsOK`; `Ranks` for the numbering at a start of the app); a renaming and a dialog exclude each other (`OneQuestion`). Unless the app has ended while a directory was renamed (`Orderly`), records and directories
belong together (`RecordsOK`) and a directory without a record is one that an installation is working on, or that a cancel or a crash has left (`NobodysOK`, `InstallsOK`); `OwnersKnown`, `MakersKnown` and `CreatorsKnown` say whose it is. Where neither that crash nor a late answer to a dialog is looked at (`Careful`), what was installed stays
(`CollectionKept`). The longest lemmas are about steps that touch all directories: a restart (`RestartKeeps`), which reads records from directories, and the saves after a renaming (`SaveRenamedKeeps`) and an installation (`CompleteProcessKeeps`); `SavedFacts` says once for all of them what saving writes.

*Library page.* What an operation holds, the page can tell from what runs at every step (`HeldIsSeen`, but for the uses in `Unprotected`, which the property leaves out), so an object that can be deleted when the dialog is answered is held by nobody (`RemovedUnused`); buttons are those of the last event, or an event is on its way.

*Library folder.* `FolderInv`: by phase of the change, and whichever step failed, which of the two folders has the data, and which one a start of the app would use.

There is one lemma per action that disturbs something, and the theorem combines them. `MCProjectBuild`, `MCVMRunner`, `MCMultiStageProcess`, `MCTestVM` and `MCMachines` put components into a run; a theorem "of `MCSpec`"
or "of `AllSpec`" is about the formula the run checks. `FilesSpec` is the part of the run `projects` that is about files: the steps of `ProjectsSpec` are its steps, or leave its variables alone.
`EditingSpec` (in `MCEditing`) is in the same way the part of the run `stages` that is about editing.

### What is only model-checked

- Liveness, and what rests on ENABLED: `LifecycleOfMain`'s fairness, `CancelReturns`, `BuildReports`, `EntryIsHandled`, `UnusedIsStopped`, `CallReturns`, `RootDropped`, `LaunchSettles`. The provers have no rule for
  weak and strong fairness.
- `UpdateMerges`, `SelectionSettles`, `IdentityKept`, `ValuesFit`, `OverlaysKept`, `PlansInstall` (but for `BootloaderInstalls`): algorithms over recursive definitions, or over sequences that are folded, checked on bounded inputs.
- `KernelEdits`: its module is checked together with recursive definitions, with which the provers can't reason.
- `ViewTells`, and `SavedAsChosen` where edits overlap or a template has made stages in the session. There it does not hold as stated, and the run leaves these cases out as well.

## What is not modelled

- Text, progress, output lines, layout, dialogs but for their answers; the specs and the Portage configuration beyond which settings get a line and which overlays are copied.
- What a command does. It succeeds, fails, or raises where the code lets it; scripts that do several things fail in part where something is left by it.
- Lima's and QEMU's own behaviour, beyond calls that end or are killed; scripts that create machines; `cleanup_workspace()` when the app starts; swap and shared folders.
- `HostRunner`: a list of users that nothing waits for. Rootless scripts: their state is gone with their processes. Records of failures: texts found in logs each time they are shown.
- Serialization, versions of stored objects and broken items of repositories; what they store is in `SnapshotStore`, `GitLibrary`, `LibraryChange`, with crashes between memory and file.
- The watchdogs of the root helper: the client's is switched off (`root_helper_client.py:19`), the server's acts when the app is gone.
- Weak references of the `EventBus`, and handles.
- Package indexes, template files and their expressions, tables of profiles and subarchitectures, network and locale settings of a deployment.

## Plan

Every component whose logic is the app's own is modelled. Left is to say of `SavedAsChosen` which stages an overlapping edit or a template disturbs, in place of leaving those sessions out; to prove `ViewTells`;
and the rest of `PlansInstall`, which asks for induction over the sequence of partitions, which the provers do not do.
