------------------------------- MODULE TestVM -------------------------------
(***************************************************************************)
(* Test virtual machines (objects/qemu): a launch prepares a disk image in *)
(* stages, each with a thread of its own, from an image of the build that  *)
(* is cached and shared by launches; then the machine runs on it until it  *)
(* ends or is stopped, and what was made for it is removed.                *)
(*                                                                         *)
(* Scripts that mount the image and change it (login accounts, network,    *)
(* DNS, kernel) are one stage, "configure".                                *)
(***************************************************************************)
EXTENDS Naturals, Sequences, FiniteSets

CONSTANTS Launches, Builds,
          Plans,     \* what may be launched together, see LaunchPlans
          Fails,     \* whether connections, scripts and machines may fail
          Cancels,   \* launches that the user may cancel
          Crashes    \* whether the app may end at any time, once

\* The build of a launch, its backend (Apple Virtualization or QEMU), and what is done to its image, by scripts which
\* configure accounts, network and DNS, or also by a kernel that is built.
LaunchPlans == [Launches -> [build: Builds, apple: BOOLEAN, changes: {"nothing", "accounts", "kernel"}]]

ASSUME Parameters == Plans \subseteq LaunchPlans /\ Cancels \subseteq Launches /\ {Fails, Crashes} \subseteq BOOLEAN

VARIABLES
    plan,      \* of each launch
    status,    \* of its preparation; "gone" when the app that had it has ended
    at, mark,  \* the stage that was started last, and its state
    pc,        \* where the thread of that stage is
    event,     \* its _cancel_event
    canceled, canceler,   \* of the preparation, and the thread of cancel_async()
    continues, shows,     \* callbacks queued in the main loop: _continue_process, start() of the view
    finish,    \* whether the Finish button can still be pressed
    notified, byView,     \* _completion_notified; the preparation is one of the view
    cache, writer,        \* the cached image of a build, who began to write it last
    dir, mounted,         \* the image directory of a launch, its image is mounted
    run, stopper,         \* the machine and the thread of ensure_stopped()
    app,       \* "first", "down", "second"
    slip       \* history: what happened to a launch that the code does not provide for

prepVars == <<status, at, mark, pc, event, canceled, canceler, continues, notified, byView>>
imageVars == <<cache, writer, dir, mounted>>
runVars == <<run, stopper>>
vars == <<plan, prepVars, shows, finish, imageVars, runVars, app, slip>>

Nothing == [image |-> "none", ready |-> FALSE]

Init == /\ plan \in Plans
        /\ status = [l \in Launches |-> "setup"] /\ at = [l \in Launches |-> 0]
        /\ mark = [l \in Launches |-> "completed"] /\ pc = [l \in Launches |-> "none"]
        /\ event = [l \in Launches |-> FALSE] /\ canceled = [l \in Launches |-> FALSE]
        /\ canceler = [l \in Launches |-> "none"] /\ continues = [l \in Launches |-> 0]
        /\ shows = [l \in Launches |-> 0] /\ finish = [l \in Launches |-> TRUE]
        /\ notified = [l \in Launches |-> FALSE] /\ byView = [l \in Launches |-> FALSE]
        /\ cache = [b \in Builds |-> Nothing] /\ writer = [b \in Builds |-> "nobody"]
        /\ dir = [l \in Launches |-> "none"] /\ mounted = [l \in Launches |-> FALSE]
        /\ run = [l \in Launches |-> "none"] /\ stopper = [l \in Launches |-> "none"]
        /\ app = "first" /\ slip = [l \in Launches |-> {}]

Build(l) == plan[l].build
\* setup_stages()
Stages(l) == <<"machine", "cache", "image">>
                 \o (IF plan[l].changes # "nothing" THEN <<"configure">> ELSE <<>>)
                 \o (IF plan[l].apple THEN <<"shutdown">> ELSE <<>>)
\* The machine runs on an overlay of the cached image itself.
Direct(l) == ~plan[l].apple /\ plan[l].changes = "nothing"
Running(l) == run[l] = "running"
\* The main loop goes on: it does not wait for a machine to answer, see StopBegins.
Free == \A o \in Launches : stopper[o] # "asks"
Slips(l, what) == slip' = [slip EXCEPT ![l] = @ \cup {what}]

-----------------------------------------------------------------------------
(* The main loop: starting, continuing and ending a preparation.           *)

\* The next stage is given its thread.
Begins(l, i) == /\ at' = [at EXCEPT ![l] = i] /\ mark' = [mark EXCEPT ![l] = "scheduled"]
                /\ pc' = [pc EXCEPT ![l] = "begin"]

\* _start() of the wizard, QemuImagePreparation.start()
Launch(l) == /\ Free /\ status[l] = "setup" /\ \A o \in Launches : ~Running(o)
             /\ dir' = [dir EXCEPT ![l] = "empty"]
             /\ status' = [status EXCEPT ![l] = "progress"] /\ Begins(l, 1)
             /\ UNCHANGED <<plan, event, canceled, canceler, continues, notified, byView, shows, finish, cache, writer,
                            mounted, runVars, app, slip>>

\* complete_process(), once; what on_completed queues is in ContinueEnds
CompleteProcess(l, success) ==
    /\ notified' = [notified EXCEPT ![l] = TRUE]
    /\ dir' = IF notified[l] \/ (success /\ ~canceled[l]) THEN dir ELSE [dir EXCEPT ![l] = "none"]

\* _continue_process() when the preparation is over, or has a stage to start
ContinueEnded(l) == /\ status[l] # "progress"
                    /\ UNCHANGED <<status, at, mark, pc, notified, shows, dir>>
ContinueFails(l) == /\ status[l] = "progress" /\ mark[l] = "failed"
                    /\ status' = [status EXCEPT ![l] = "failed"] /\ CompleteProcess(l, FALSE)
                    /\ UNCHANGED <<at, mark, pc, shows>>
ContinueStarts(l) == /\ status[l] = "progress" /\ mark[l] # "failed" /\ at[l] < Len(Stages(l))
                     /\ Begins(l, at[l] + 1) /\ UNCHANGED <<status, notified, shows, dir>>
\* The view of a wizard may be set to show the machine by itself; the view of a machine goes on by itself.
ContinueEnds(l) == /\ status[l] = "progress" /\ mark[l] # "failed" /\ at[l] = Len(Stages(l))
                   /\ status' = [status EXCEPT ![l] = "completed"] /\ CompleteProcess(l, TRUE)
                   /\ \E shown \in IF byView[l] THEN {1} ELSE IF canceled[l] THEN {0} ELSE {0, 1} :
                         shows' = [shows EXCEPT ![l] = @ + shown]
                   /\ UNCHANGED <<at, mark, pc>>

Continue(l) == /\ Free /\ continues[l] > 0 /\ continues' = [continues EXCEPT ![l] = @ - 1]
               /\ ContinueEnded(l) \/ ContinueFails(l) \/ ContinueStarts(l) \/ ContinueEnds(l)
               /\ UNCHANGED <<plan, event, canceled, canceler, byView, finish, cache, writer, mounted, runVars,
                              app, slip>>

\* cancel_async(): the Cancel button, and the dialog that quits the app. A stage whose thread has not set IN_PROGRESS
\* yet is not found, and clears its event afterwards.
CancelAsync(l) ==
    /\ Free /\ l \in Cancels /\ ~canceled[l] /\ status[l] = "progress"
    /\ canceled' = [canceled EXCEPT ![l] = TRUE]
    /\ IF mark[l] = "progress"
       THEN event' = [event EXCEPT ![l] = TRUE] /\ canceler' = [canceler EXCEPT ![l] = "work"] /\ UNCHANGED slip
       ELSE /\ canceler' = [canceler EXCEPT ![l] = "finish"] /\ UNCHANGED event
            /\ IF pc[l] = "enter" THEN Slips(l, "late") ELSE UNCHANGED slip
    /\ UNCHANGED <<plan, status, at, mark, pc, continues, notified, byView, shows, finish, imageVars, runVars, app>>

\* cancel_work() has terminated what ran, see Killed; it waits for the thread of the stage
CancelJoins(l) == canceler[l] = "join" /\ pc[l] = "none" /\ canceler' = [canceler EXCEPT ![l] = "finish"]
CancelWork(l) == /\ canceler[l] = "work" /\ canceler' = [canceler EXCEPT ![l] = "join"]

\* _finish_cancel()
FinishCancel(l) == /\ Free /\ canceler[l] = "finish" /\ canceler' = [canceler EXCEPT ![l] = "none"]
                   /\ status' = [status EXCEPT ![l] = "failed"]
                   /\ mark' = [mark EXCEPT ![l] = IF @ \in {"progress", "scheduled"} THEN "failed" ELSE @]
                   /\ CompleteProcess(l, FALSE)
                   /\ UNCHANGED <<plan, at, pc, event, canceled, continues, byView, shows, finish, cache, writer, mounted,
                                  runVars, app, slip>>

Cancel(l) == \/ FinishCancel(l)
             \/ /\ CancelWork(l) \/ CancelJoins(l)
                /\ UNCHANGED <<plan, status, at, mark, pc, event, canceled, continues, notified, byView, shows, finish,
                               imageVars, runVars, app, slip>>

-----------------------------------------------------------------------------
(* The thread of a stage.                                                  *)

Go(l, place) == pc' = [pc EXCEPT ![l] = place]
\* A script or a copy ends badly because it fails, or because cancel_work() has terminated it.
Killed(l) == canceler[l] = "work"
MayFail(l) == Fails \/ Killed(l)
Raise(l) == Go(l, "except")

\* _StepImage.start(): the first test, the start of the stage with the image directory
StageBegins(l) == /\ pc[l] = "begin" /\ UNCHANGED <<event, dir>>
                  /\ IF canceled[l] THEN mark' = [mark EXCEPT ![l] = "failed"] /\ Go(l, "none")
                     ELSE Go(l, "enter") /\ UNCHANGED mark
\* Then connect() of image_connection(), which may fail; the stage that waits for the machine has none.
StageEnters(l) == /\ pc[l] = "enter"
                  /\ Go(l, "operate") \/ (Stages(l)[at[l]] # "shutdown" /\ Fails /\ Raise(l))
                  /\ event' = [event EXCEPT ![l] = FALSE] /\ mark' = [mark EXCEPT ![l] = "progress"]
                  /\ dir' = [dir EXCEPT ![l] = IF @ = "none" THEN "empty" ELSE @]

StageStarts(l) == /\ StageBegins(l) \/ StageEnters(l)
                  /\ UNCHANGED <<plan, status, at, canceled, canceler, continues, notified, byView, shows, finish, cache,
                                 writer, mounted, runVars, app, slip>>

Operating(l, stage, place) == pc[l] = place /\ at[l] > 0 /\ Stages(l)[at[l]] = stage

\* The stages "machine" and "shutdown" change nothing here; the latter may time out, fail, or be canceled.
Waits(l) == /\ \/ Operating(l, "machine", "operate") /\ (IF event[l] THEN Raise(l) ELSE Go(l, "check"))
               \/ /\ Operating(l, "shutdown", "operate")
                  /\ Go(l, "check") \/ ((Fails \/ event[l]) /\ Raise(l))
            /\ UNCHANGED <<imageVars, slip>>

Writes(l, b) == Build(l) = b /\ pc[l] \in {"extract", "mark"}
SetCache(b, image, ready) == cache' = [cache EXCEPT ![b] = [image |-> image, ready |-> ready]]

\* _prepare_cached_image(): ready, or emptied and written anew
CacheReady(b) == cache[b].ready /\ cache[b].image # "none"
CacheFound(l) == /\ Operating(l, "cache", "operate") /\ ~event[l] /\ CacheReady(Build(l))
                 /\ Go(l, "check") /\ UNCHANGED <<imageVars, slip>>
CacheBegins(l) == /\ Operating(l, "cache", "operate") /\ ~event[l] /\ ~CacheReady(Build(l))
                  /\ SetCache(Build(l), "partial", FALSE) /\ writer' = [writer EXCEPT ![Build(l)] = l]
                  /\ Go(l, "extract")
                  /\ slip' = [o \in Launches |-> IF Build(o) = Build(l) /\ \E w \in Launches \ {l} : Writes(w, Build(l))
                                                  THEN slip[o] \cup {"shared"} ELSE slip[o]]
                  /\ UNCHANGED <<dir, mounted>>
\* The script has written the image, unless another launch has removed it since: it has not noticed, or it has failed.
CacheWritten(l) == /\ Operating(l, "cache", "extract")
                   /\ IF writer[Build(l)] = l THEN SetCache(Build(l), "whole", FALSE) ELSE UNCHANGED cache
                   /\ Go(l, "mark") /\ UNCHANGED <<writer, dir, mounted, slip>>
\* Fault: the exit status of the script is not looked at.
CacheFailsUnnoticed(l) == /\ Operating(l, "cache", "extract") /\ MayFail(l)
                          /\ Go(l, "mark") /\ UNCHANGED <<cache, writer, dir, mounted, slip>>
\* It fails, and what it has written is removed.
CacheFails(l) == /\ Operating(l, "cache", "extract") /\ (MayFail(l) \/ writer[Build(l)] # l)
                 /\ SetCache(Build(l), "none", FALSE)
                 /\ Raise(l) /\ UNCHANGED <<writer, dir, mounted, slip>>

CacheMarked(l) == /\ Operating(l, "cache", "mark")
                  /\ IF cache[Build(l)].image = "none" THEN Raise(l) /\ UNCHANGED cache
                     ELSE cache' = [cache EXCEPT ![Build(l)].ready = TRUE] /\ Go(l, "check")
                  /\ UNCHANGED <<writer, dir, mounted, slip>>

\* _prepare_writable_image(): the cached image itself, or a copy, which is as whole as what is copied
ImageIsCached(l) == /\ Operating(l, "image", "operate") /\ ~event[l] /\ Direct(l)
                    /\ Go(l, "check") /\ UNCHANGED <<imageVars, slip>>
ImageCopies(l) == /\ Operating(l, "image", "operate") /\ ~event[l] /\ ~Direct(l)
                  /\ IF cache[Build(l)].image = "none" THEN Raise(l) /\ UNCHANGED dir
                     ELSE Go(l, "copy") /\ dir' = [dir EXCEPT ![l] = "partial"]
                  /\ UNCHANGED <<cache, writer, mounted, slip>>
ImageCopied(l) == /\ Operating(l, "image", "copy")
                  /\ \/ /\ ~event[l] /\ Go(l, "check")
                        /\ dir' = [dir EXCEPT ![l] = IF @ = "none" THEN @
                                                     ELSE IF cache[Build(l)].image = "whole" THEN "whole" ELSE @]
                     \/ (MayFail(l) \/ event[l]) /\ Raise(l) /\ UNCHANGED dir
                  /\ UNCHANGED <<cache, writer, mounted, slip>>

\* _configure_accounts() and the others: mount, change, and unmount whatever has happened. The mount script may be
\* terminated after it has mounted; the kernel's tests for a cancel before its unmount is certain.
ImageMounts(l) == /\ Operating(l, "configure", "operate") /\ ~event[l]
                  /\ \/ mounted' = [mounted EXCEPT ![l] = TRUE] /\ Go(l, "mounted") /\ UNCHANGED slip
                     \/ MayFail(l) /\ Raise(l) /\ UNCHANGED <<mounted, slip>>
                  /\ UNCHANGED <<cache, writer, dir>>
ImageMounted(l) == /\ Operating(l, "configure", "mounted")
                   /\ IF Killed(l) \/ (plan[l].changes = "kernel" /\ event[l])
                      THEN Raise(l) /\ Slips(l, "mounted") ELSE Go(l, "change") /\ UNCHANGED slip
                   /\ UNCHANGED imageVars
\* Fault: a change that fails leaves the image mounted.
ImageChangedOrRaised(l) == /\ Operating(l, "configure", "change")
                           /\ Go(l, "unmount") \/ (MayFail(l) /\ Raise(l))
                           /\ UNCHANGED <<imageVars, slip>>
ImageChanged(l) == /\ Operating(l, "configure", "change")
                   /\ Go(l, "unmount") \/ (MayFail(l) /\ Go(l, "unmount_failed"))
                   /\ UNCHANGED <<imageVars, slip>>
\* The script that unmounts may fail, too, or be terminated by cancel_work() while that goes through the processes.
ImageUnmounts(l) == /\ pc[l] \in {"unmount", "unmount_failed"}
                    /\ \/ /\ mounted' = [mounted EXCEPT ![l] = FALSE] /\ UNCHANGED slip
                          /\ IF pc[l] = "unmount" THEN Go(l, "check") ELSE Raise(l)
                       \/ MayFail(l) /\ Slips(l, "mounted") /\ Raise(l) /\ UNCHANGED mounted
                    /\ UNCHANGED <<cache, writer, dir>>

\* Stages that find the event set before they have begun anything
GivesUp(l) == /\ pc[l] = "operate" /\ event[l] /\ Raise(l) /\ UNCHANGED <<imageVars, slip>>

Operate(l) == /\ \/ Waits(l) \/ CacheFound(l) \/ CacheBegins(l) \/ CacheWritten(l) \/ CacheFails(l) \/ CacheMarked(l)
                 \/ ImageIsCached(l) \/ ImageCopies(l) \/ ImageCopied(l)
                 \/ ImageMounts(l) \/ ImageMounted(l) \/ ImageChanged(l) \/ ImageUnmounts(l) \/ GivesUp(l)
              /\ UNCHANGED <<plan, status, at, mark, event, canceled, canceler, continues, notified, byView, shows, finish,
                             runVars, app>>

\* _check_canceled(), then complete(): it tests the event again and publishes; a stage that failed publishes that. One
\* that was canceled does neither. The connection is closed in any case.
StageChecks(l) == /\ \/ pc[l] = "check" /\ Go(l, IF event[l] THEN "none" ELSE "completed")
                     \/ pc[l] = "except" /\ Go(l, IF event[l] THEN "none" ELSE "failed")
                  /\ UNCHANGED <<mark, continues>>
StagePublishes(l) == /\ pc[l] \in {"completed", "failed"} /\ Go(l, "none")
                     /\ mark' = [mark EXCEPT ![l] = pc[l]] /\ continues' = [continues EXCEPT ![l] = @ + 1]

StageEnds(l) == /\ StageChecks(l) \/ StagePublishes(l)
                /\ UNCHANGED <<plan, status, at, event, canceled, canceler, notified, byView, shows, finish, imageVars,
                               runVars, app, slip>>

-----------------------------------------------------------------------------
(* The view and the machine.                                               *)

\* The Finish button shows the machine where the wizard does not do so by itself. It is pressed after a cancel has
\* finished, if there was one.
PressFinish(l) == /\ Free /\ status[l] = "completed" /\ canceler[l] = "none" /\ finish[l] /\ shows[l] = 0
                  /\ finish' = [finish EXCEPT ![l] = FALSE] /\ shows' = [shows EXCEPT ![l] = @ + 1]
                  /\ UNCHANGED <<plan, prepVars, imageVars, runVars, app, slip>>

\* stage_image_ready()
Ready(l) == IF Direct(l) THEN cache[Build(l)].image # "none" ELSE dir[l] \in {"partial", "whole"}
Whole(l) == IF Direct(l) THEN cache[Build(l)].image = "whole" ELSE dir[l] = "whole"

\* start() of the view: another machine runs; the image is not there and is prepared again; QemuRun.start() raises;
\* it starts
ShowRefused(l) == /\ \E o \in Launches \ {l} : Running(o)
                  /\ Slips(l, "refused") /\ UNCHANGED <<prepVars, dir, run>>
ShowPrepares(l) == /\ \A o \in Launches \ {l} : ~Running(o)
                   /\ ~Ready(l) /\ Begins(l, 1) /\ status' = [status EXCEPT ![l] = "progress"]
                   /\ byView' = [byView EXCEPT ![l] = TRUE]
                   /\ canceled' = [canceled EXCEPT ![l] = FALSE] /\ notified' = [notified EXCEPT ![l] = FALSE]
                   /\ UNCHANGED <<event, canceler, continues, dir, run, slip>>
ShowFails(l) == /\ \A o \in Launches \ {l} : ~Running(o)
                /\ Ready(l) /\ Fails
                /\ dir' = [dir EXCEPT ![l] = "none"]
                /\ run' = [run EXCEPT ![l] = "over"]
                /\ UNCHANGED <<prepVars, slip>>
ShowStarts(l) == /\ \A o \in Launches \ {l} : ~Running(o)
                 /\ Ready(l) /\ run' = [run EXCEPT ![l] = "running"] /\ UNCHANGED <<prepVars, dir, slip>>
Show(l) == /\ Free /\ shows[l] > 0 /\ shows' = [shows EXCEPT ![l] = @ - 1]
           /\ finish' = [finish EXCEPT ![l] = FALSE]
           /\ ShowRefused(l) \/ ShowPrepares(l) \/ ShowFails(l) \/ ShowStarts(l)
           /\ UNCHANGED <<plan, cache, writer, mounted, stopper, app>>

\* The process of the machine ends by itself.
MachineEnds(l) == Running(l) /\ run' = [run EXCEPT ![l] = "ended"] /\ UNCHANGED <<dir, stopper>>
\* Fault: the directories of all images are removed, as at startup.
RunCleansAll(l) == /\ run[l] = "ended" /\ run' = [run EXCEPT ![l] = "over"]
                   /\ dir' = [o \in Launches |-> "none"] /\ UNCHANGED stopper
\* _read_output() after the process has ended; _finish() of Apple Virtualization, in the main loop
RunCleans(l) == /\ run[l] = "ended" /\ (plan[l].apple => Free) /\ run' = [run EXCEPT ![l] = "over"]
                /\ dir' = [dir EXCEPT ![l] = "none"] /\ UNCHANGED stopper

\* Fault: the process is terminated and not killed.
EscalateOnce(l) == /\ stopper[l] = "quit" /\ stopper' = [stopper EXCEPT ![l] = "terminate"]
                   /\ UNCHANGED <<run, dir>>
\* stop() of the view, in the main loop, and of the dialog that quits the app, in a thread: first monitor("quit").  Apple
\* Virtualization has one way, that is not ignored.
StopBegins(l) == /\ Running(l) /\ stopper[l] = "none"
                 /\ \E asks \in IF plan[l].apple THEN {"kill"} ELSE {"asks", "asks aside"} :
                       (asks # "asks aside" => Free) /\ stopper' = [stopper EXCEPT ![l] = asks]
                 /\ UNCHANGED <<run, dir>>
\* The machine has answered, or can't be connected to, or it ends while its answer is waited for, without a timeout.
Asked(l) == stopper[l] \in {"asks", "asks aside"}
StopAnswered(l) == Asked(l) /\ stopper' = [stopper EXCEPT ![l] = "quit"] /\ UNCHANGED <<run, dir>>
\* ensure_stopped(), a thread: quit, terminate, kill, each with three seconds.  The kill is not ignored.
Escalate(l) == /\ stopper[l] \in {"quit", "terminate"}
               /\ stopper' = [stopper EXCEPT ![l] = IF ~Running(l) THEN "none" ELSE IF @ = "quit" THEN "terminate" ELSE "kill"]
               /\ UNCHANGED <<run, dir>>
Kill(l) == /\ stopper[l] = "kill" /\ stopper' = [stopper EXCEPT ![l] = "none"]
           /\ run' = [run EXCEPT ![l] = IF @ = "running" THEN "ended" ELSE @] /\ UNCHANGED dir

RunOnly(step) == /\ step
                 /\ UNCHANGED <<plan, prepVars, shows, finish, cache, writer, mounted, app, slip>>
RunThread(l) == RunOnly(StopAnswered(l) \/ Escalate(l) \/ Kill(l) \/ RunCleans(l))
Machine(l) == RunOnly(MachineEnds(l) \/ StopBegins(l))

\* The app is killed, or quits without waiting for its threads: processes of machines go on.
Dies == /\ Crashes /\ app = "first" /\ app' = "down"
        /\ status' = [l \in Launches |-> IF status[l] = "setup" THEN "setup" ELSE "gone"]
        /\ pc' = [l \in Launches |-> "none"] /\ canceler' = [l \in Launches |-> "none"]
        /\ continues' = [l \in Launches |-> 0] /\ shows' = [l \in Launches |-> 0]
        /\ stopper' = [l \in Launches |-> "none"]
        /\ run' = [l \in Launches |-> IF Running(l) THEN "orphan" ELSE IF run[l] = "none" THEN "none" ELSE "over"]
        /\ slip' = [l \in Launches |-> IF mounted[l] THEN slip[l] \cup {"mounted"} ELSE slip[l]]
        /\ at' = [l \in Launches |-> 0] /\ mark' = [l \in Launches |-> "completed"]
        /\ event' = [l \in Launches |-> FALSE] /\ canceled' = [l \in Launches |-> FALSE]
        /\ notified' = [l \in Launches |-> FALSE] /\ byView' = [l \in Launches |-> FALSE]
        /\ finish' = [l \in Launches |-> TRUE]
        /\ UNCHANGED <<plan, imageVars>>

\* stop_orphaned_runs() when the app starts
Startup == /\ app = "down" /\ app' = "second"
           /\ run' = [l \in Launches |-> IF run[l] = "orphan" THEN "terminated" ELSE run[l]]
           /\ dir' = [l \in Launches |-> "none"]
           /\ UNCHANGED <<plan, prepVars, shows, finish, cache, writer, mounted, stopper, slip>>
OrphanEnds(l) == /\ run[l] = "terminated" /\ run' = [run EXCEPT ![l] = "over"]
                 /\ UNCHANGED <<plan, prepVars, shows, finish, imageVars, stopper, app, slip>>

Thread(l) == StageStarts(l) \/ Operate(l) \/ StageEnds(l)
ByItself(l) == Continue(l) \/ Cancel(l) \/ Thread(l) \/ Show(l) \/ RunThread(l) \/ OrphanEnds(l)
Happens(l) == Launch(l) \/ CancelAsync(l) \/ PressFinish(l) \/ Machine(l)
Next == \/ \E l \in Launches : app # "down" /\ (ByItself(l) \/ Happens(l))
        \/ Dies \/ Startup

\* The kernel's thread has canceled its call of the root helper and waits for it, without a timeout.
AwaitsHelper(l) == Operating(l, "configure", "change") /\ plan[l].changes = "kernel" /\ event[l]
\* Threads run, the main loop dispatches, processes that are killed end. Nobody has to press anything, no machine has to
\* answer, and the root helper may leave a canceled call unanswered.
Owed(l) == /\ ByItself(l)
           /\ Asked(l) /\ Running(l) => stopper' = stopper
           /\ AwaitsHelper(l) => pc' = pc
Fairness == WF_vars(app # "down" /\ \E l \in Launches : Owed(l))
Spec == Init /\ [][Next]_vars /\ Fairness

-----------------------------------------------------------------------------
(* Properties.                                                             *)

\* An entry of the cache is marked ready (qemu_run.py:1166) only when its image is whole, whatever failed, was canceled
\* or ended with the app before; unless two launches write the entry at the same time.
ReadyIsWhole == \A b \in Builds : cache[b].ready =>
    cache[b].image = "whole" \/ \E l \in Launches : Build(l) = b /\ "shared" \in slip[l]

\* A machine runs on an image that is whole and stays until it has ended, though failures, cancels, other launches and
\* the end of other machines remove images.
MachineHasImage == \A l \in Launches :
    Running(l) => Whole(l) \/ "shared" \in slip[l]

\* Both: no image in parts is taken for a whole one, none goes away under a machine.
ImagesWhole == ReadyIsWhole /\ MachineHasImage

Over(l) == /\ pc[l] = "none" /\ canceler[l] = "none"
           /\ shows[l] = 0
           /\ \/ status[l] = "gone" /\ app = "second"
              \/ status[l] = "failed"
              \/ status[l] = "completed" /\ run[l] = "over"
\* What a launch has made is gone when it is over, its image directory and its mount: whether it failed, was canceled,
\* ran, or was left by an app that ended.  When other launches have written its entry of the cache at the same time, the
\* image may be prepared again by the view while a cancel of the first preparation is still to finish.
NothingLeft == \A l \in Launches : Over(l) =>
    /\ dir[l] = "none" \/ "late" \in slip[l] \/ "shared" \in slip[l]
    /\ ~mounted[l] \/ "mounted" \in slip[l]

\* A preparation ends and says so once, also when it is canceled at any time, unless the main loop waits for a machine
\* that never answers, or the thread for a canceled call. A machine that is stopped ends, even if it does not listen to
\* SIGTERM, once it has answered the monitor.
LaunchSettles == \A l \in Launches :
    \/ <>[](~Free \/ AwaitsHelper(l))
    \/ /\ status[l] = "progress" ~> (status[l] = "gone" \/ (status[l] # "progress" /\ notified[l]))
       /\ stopper[l] \in {"quit", "terminate", "kill"} ~> run[l] \notin {"running", "ended"}

=============================================================================
