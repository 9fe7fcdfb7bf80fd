------------------------------ MODULE VMRunner ------------------------------
(***************************************************************************)
(* VMRunner (src/objects/build_machine/build_machine.py), with the commands*)
(* that MachineExecutor (rootless.py) runs in the machine.  Threads of     *)
(* operations start the machine when they need it and work in its working  *)
(* space; a timer stops a machine that was started for them once nobody    *)
(* uses it; the user starts and stops it with buttons, the app when it     *)
(* quits.  What happens under _usage_lock is one step; _lock and           *)
(* _workspace_lock are held over calls of limactl and are variables.       *)
(***************************************************************************)
EXTENDS Naturals, FiniteSets

CONSTANTS
  Operations,  \* threads of operations
  Actors,      \* the other threads that there are: "button", "quit"
  Refreshes,   \* the machine's view reads the status in a thread of its own
  StopFails    \* limactl may fail to stop the machine, with force too

Threads == Operations \cup Actors \cup {"timer"}

ASSUME VMAssumption ==
  /\ IsFiniteSet(Operations) /\ Actors \subseteq {"button", "quit"}
  /\ Operations \cap {"button", "quit", "timer", "none", "Command"} = {}
  /\ Refreshes \in BOOLEAN /\ StopFails \in BOOLEAN

VARIABLES
  vm,      \* status that Lima has for the machine
  status,  \* _status
  lock,    \* the thread that holds _lock, or "none"
  wlock,   \* the thread that holds _workspace_lock, or "none"
  users,   \* _users: how often each name is in the list
  auto,    \* _started_automatically
  timer,   \* _stop_timer is set
  wusers,  \* _workspace_users
  image,   \* the image of the working space exists
  pc,      \* where each thread is
  back,    \* what each thread runs a command or starts the machine for
  ok,      \* success so far of that command or start
  seen     \* what the thread of the view has read and not set yet, or "none"

usageVars == <<users, auto, timer>>
spaceVars == <<wlock, wusers, image>>
vars == <<vm, status, lock, usageVars, spaceVars, pc, back, ok, seen>>

Names == Operations \cup {"Command"}
Unused == \A n \in Names : users[n] = 0

Init ==
  /\ vm \in {"Running", "Stopped"} /\ status = vm
  /\ lock = "none" /\ wlock = "none"
  /\ users = [n \in Names |-> 0] /\ auto = FALSE /\ timer = FALSE
  /\ wusers = 0 /\ image = FALSE
  /\ pc = [t \in Threads |-> "idle"]
  /\ back = [t \in Threads |-> "none"] /\ ok = [t \in Threads |-> TRUE]
  /\ seen = "none"

Go(t, place) == pc' = [pc EXCEPT ![t] = place]

-----------------------------------------------------------------------------
(* begin_use() and end_use().                                              *)

BeginUse(name) ==
  users' = [users EXCEPT ![name] = @ + 1] /\ timer' = FALSE /\ UNCHANGED auto

\* Fault: the timer is left for the next use to start.
EndUseLazily(name) ==
  users' = [users EXCEPT ![name] = IF @ > 0 THEN @ - 1 ELSE 0] /\ UNCHANGED <<timer, auto>>

EndUse(name) ==
  /\ users' = [users EXCEPT ![name] = IF @ > 0 THEN @ - 1 ELSE 0]
  /\ timer' = (timer \/ (auto /\ \A n \in Names : users'[n] = 0))
  /\ UNCHANGED auto

-----------------------------------------------------------------------------
(* Operations.                                                             *)

\* MachineExecutor.start(), and what the command is for.
BeginCommand(t, reason) ==
  BeginUse("Command") /\ Go(t, "lock") /\ back' = [back EXCEPT ![t] = reason]

\* A command of an operation that has begun, or one by itself.
RunCommand(t) ==
  /\ pc[t] \in {"idle", "prepared", "working"}
  /\ BeginCommand(t, pc[t])
  /\ UNCHANGED <<vm, status, lock, spaceVars, ok, seen>>

\* prepare(): the runner of an operation, without the working space.
Prepare(t) ==
  /\ pc[t] = "idle"
  /\ BeginUse(t) /\ Go(t, "lock") /\ back' = [back EXCEPT ![t] = "prepare"]
  /\ UNCHANGED <<vm, status, lock, spaceVars, ok, seen>>

\* acquire_workspace().
AcquireWorkspace(t) ==
  /\ pc[t] = "idle"
  /\ BeginUse(t) /\ Go(t, "enter")
  /\ UNCHANGED <<vm, status, lock, spaceVars, back, ok, seen>>

\* _acquire_workspace(): the first user of the working space creates it, and
\* keeps the lock until it is there.
EnterWorkspace(t) ==
  /\ pc[t] = "enter" /\ wlock = "none"
  /\ IF wusers = 0
     THEN wlock' = t /\ BeginCommand(t, "create") /\ UNCHANGED wusers
     ELSE wusers' = wusers + 1 /\ Go(t, "working") /\ UNCHANGED <<wlock, usageVars, back>>
  /\ UNCHANGED <<vm, status, lock, image, ok, seen>>

\* The command ends, and fails if the machine is not running.  What it does
\* to the image counts for the commands that create or remove it.
CommandEnds(t) ==
  /\ pc[t] = "run"
  /\ \E success \in {FALSE, vm = "Running"} :
       /\ ok' = [ok EXCEPT ![t] = success]
       /\ image' \in CASE back[t] = "create" -> {TRUE} \cup IF success THEN {} ELSE {image}
                       [] back[t] = "delete" -> IF success THEN {FALSE} ELSE {image}
                       [] OTHER -> {image}
  /\ Go(t, "ended")
  /\ UNCHANGED <<vm, status, lock, usageVars, wlock, wusers, back, seen>>

\* What the command was for, with its result: a working space that could
\* not be removed is left to the next user.
Continue(t) ==
  CASE back[t] = "create" ->
         /\ wlock' = "none"
         /\ wusers' = IF ok[t] THEN wusers + 1 ELSE wusers
         /\ Go(t, IF ok[t] THEN "working" ELSE "leave")
    [] back[t] = "delete" -> wlock' = "none" /\ Go(t, "leave") /\ UNCHANGED wusers
    [] OTHER -> Go(t, back[t]) /\ UNCHANGED <<wlock, wusers>>

Forget(t) == back' = [back EXCEPT ![t] = "none"] /\ ok' = [ok EXCEPT ![t] = TRUE]

\* Fault: the use of a command that failed is not ended.
EndCommandDone(t) ==
  /\ pc[t] = "ended"
  /\ IF ok[t] THEN EndUse("Command") ELSE UNCHANGED usageVars
  /\ Continue(t) /\ Forget(t)
  /\ UNCHANGED <<vm, status, lock, image, seen>>

\* The use ends in cleanup_script(), or when start() raises.
EndCommand(t) ==
  /\ pc[t] = "ended"
  /\ EndUse("Command")
  /\ Continue(t) /\ Forget(t)
  /\ UNCHANGED <<vm, status, lock, image, seen>>

\* The operation is done with the machine.
Finish(t) ==
  /\ \/ pc[t] = "prepared" /\ Go(t, "leave")
     \/ pc[t] = "working" /\ Go(t, "release")
  /\ UNCHANGED <<vm, status, lock, usageVars, spaceVars, back, ok, seen>>

\* release_workspace() up to the command that removes the working space of a
\* running machine, in _delete_workspace().
ReleaseWorkspace(t) ==
  /\ pc[t] = "release" /\ wlock = "none"
  /\ IF wusers = 0
     THEN Go(t, "idle") /\ UNCHANGED <<spaceVars, usageVars, back>>
     ELSE /\ wusers' = wusers - 1
          /\ IF wusers = 1 /\ image /\ status = "Running"
             THEN wlock' = t /\ BeginCommand(t, "delete") /\ UNCHANGED image
             ELSE /\ image' = (image /\ wusers # 1)
                  /\ Go(t, "leave") /\ UNCHANGED <<wlock, usageVars, back>>
  /\ UNCHANGED <<vm, status, lock, ok, seen>>

\* end_use() of release_workspace() or release(), or after an exception.
Leave(t) ==
  /\ pc[t] = "leave"
  /\ EndUse(t) /\ Go(t, "idle")
  /\ UNCHANGED <<vm, status, lock, spaceVars, back, ok, seen>>

-----------------------------------------------------------------------------
(* start().                                                                *)

\* refresh_status() outside of a transition: one is kept.
Refreshed == IF status \in {"Starting", "Stopping"} THEN status ELSE vm

\* Fault: the machine may be started while it is stopped or edited.
LockStartBusy(t) ==
  /\ pc[t] = "lock"
  /\ lock' = t /\ status' = Refreshed /\ Go(t, "decide")
  /\ UNCHANGED <<vm, usageVars, spaceVars, back, ok, seen>>

LockStart(t) ==
  /\ pc[t] = "lock" /\ lock = "none"
  /\ lock' = t /\ status' = Refreshed /\ Go(t, "decide")
  /\ UNCHANGED <<vm, usageVars, spaceVars, back, ok, seen>>

\* Where start() returns to, with its result.
Returns(t, result) ==
  CASE back[t] = "start" -> Go(t, "idle") /\ Forget(t)
    [] back[t] = "prepare" -> Go(t, IF result THEN "prepared" ELSE "leave") /\ Forget(t)
    [] OTHER -> /\ Go(t, IF result THEN "run" ELSE "ended")
                /\ ok' = [ok EXCEPT ![t] = result] /\ UNCHANGED back

\* The machine runs already, maybe without a folder that has to be shared.
StartRunning(t) ==
  /\ pc[t] = "decide" /\ status = "Running"
  /\ \E result \in BOOLEAN : Returns(t, result)
  /\ lock' = "none"
  /\ UNCHANGED <<vm, status, usageVars, spaceVars, seen>>

StartStopped(t) ==
  /\ pc[t] = "decide" /\ status # "Running"
  /\ status' = "Starting" /\ Go(t, "starting")
  /\ UNCHANGED <<vm, lock, usageVars, spaceVars, back, ok, seen>>

\* limactl start returns; a machine it reports as failed may be running.
LimactlStarts(t) ==
  /\ pc[t] = "starting"
  /\ \E success \in BOOLEAN :
       /\ ok' = [ok EXCEPT ![t] = success]
       /\ vm' \in {"Running"} \cup IF success THEN {} ELSE {vm}
  /\ Go(t, "started")
  /\ UNCHANGED <<status, lock, usageVars, spaceVars, back, seen>>

\* Fault: no finally, the status is not read after a failed start.
ReadStartedSuccess(t) ==
  /\ pc[t] = "started"
  /\ status' = IF ok[t] THEN vm ELSE status
  /\ Go(t, "return")
  /\ UNCHANGED <<vm, lock, usageVars, spaceVars, back, ok, seen>>

ReadStarted(t) ==
  /\ pc[t] = "started"
  /\ status' = vm /\ Go(t, "return")
  /\ UNCHANGED <<vm, lock, usageVars, spaceVars, back, ok, seen>>

StartReturns(t) ==
  LET result == ok[t] /\ status = "Running" IN
  /\ pc[t] = "return"
  /\ auto' = (auto \/ (result /\ back[t] # "start"))
  /\ lock' = "none" /\ Returns(t, result)
  /\ UNCHANGED <<vm, status, users, timer, spaceVars, seen>>

-----------------------------------------------------------------------------
(* stop().                                                                 *)

StopBegins(t) ==
  /\ pc[t] = "stop"
  /\ auto' = FALSE /\ timer' = FALSE /\ Go(t, "stopLock")
  /\ UNCHANGED <<vm, status, lock, users, spaceVars, back, ok, seen>>

LockStop(t) ==
  /\ pc[t] = "stopLock" /\ lock = "none"
  /\ lock' = t /\ status' = "Stopping" /\ Go(t, "stopping")
  /\ UNCHANGED <<vm, usageVars, spaceVars, back, ok, seen>>

\* _stop_instance(), with force if needed.
LimactlStops(t) ==
  /\ pc[t] = "stopping"
  /\ vm' \in {"Stopped"} \cup IF StopFails THEN {vm} ELSE {}
  /\ Go(t, "stopped")
  /\ UNCHANGED <<status, lock, usageVars, spaceVars, back, ok, seen>>

ReadStopped(t) ==
  /\ pc[t] = "stopped"
  /\ status' = vm
  /\ Go(t, IF vm = "Stopped" THEN "clean" ELSE "unlock")
  /\ UNCHANGED <<vm, lock, usageVars, spaceVars, back, ok, seen>>

\* Fault: the working space is removed by a command in the machine.
CleanStoppedInside(t) ==
  /\ pc[t] = "clean"
  /\ IF image THEN BeginCommand(t, "unlock") ELSE Go(t, "unlock") /\ UNCHANGED <<usageVars, back>>
  /\ UNCHANGED <<vm, status, lock, spaceVars, ok, seen>>

\* _delete_workspace() of the stopped machine.  A status that says Running
\* again makes it start the machine, under the lock it holds itself.
CleanStopped(t) ==
  /\ pc[t] = "clean"
  /\ IF image /\ status = "Running"
     THEN BeginCommand(t, "unlock") /\ UNCHANGED image
     ELSE image' = FALSE /\ Go(t, "unlock") /\ UNCHANGED <<usageVars, back>>
  /\ UNCHANGED <<vm, status, lock, wlock, wusers, ok, seen>>

StopReturns(t) ==
  /\ pc[t] = "unlock"
  /\ lock' = "none" /\ Go(t, "idle")
  /\ UNCHANGED <<vm, status, usageVars, spaceVars, back, ok, seen>>

-----------------------------------------------------------------------------
(* Who starts and stops.                                                   *)

\* The timer is due: its thread waits for _usage_lock and can't be canceled.
\* Bound: it is not due while the thread of an earlier one is not done.
TimerDue ==
  /\ timer /\ pc["timer"] = "idle"
  /\ Go("timer", "due")
  /\ UNCHANGED <<vm, status, lock, usageVars, spaceVars, back, ok, seen>>

\* Fault: a machine that is locked is left running.
StopIfIdleAndFree ==
  /\ pc["timer"] = "due"
  /\ timer' = FALSE
  /\ auto' = (auto /\ ~Unused)
  /\ Go("timer", IF auto /\ Unused /\ lock = "none" THEN "stop" ELSE "idle")
  /\ UNCHANGED <<vm, status, lock, users, spaceVars, back, ok, seen>>

\* _stop_if_idle() decides; what it decided is done in stop().
StopIfIdle ==
  /\ pc["timer"] = "due"
  /\ timer' = FALSE
  /\ auto' = (auto /\ ~Unused)
  /\ Go("timer", IF auto /\ Unused THEN "stop" ELSE "idle")
  /\ UNCHANGED <<vm, status, lock, users, spaceVars, back, ok, seen>>

\* stop_if_started_automatically().
StopIfStartedAutomatically ==
  /\ "quit" \in Actors /\ pc["quit"] = "idle"
  /\ timer' = FALSE /\ auto' = FALSE
  /\ Go("quit", IF auto /\ status = "Running" THEN "stop" ELSE "idle")
  /\ UNCHANGED <<vm, status, lock, users, spaceVars, back, ok, seen>>

\* The buttons of the view, one at a time.
PressStart ==
  /\ "button" \in Actors /\ pc["button"] = "idle" /\ status = "Stopped"
  /\ auto' = FALSE
  /\ Go("button", "lock") /\ back' = [back EXCEPT !["button"] = "start"]
  /\ UNCHANGED <<vm, status, lock, users, timer, spaceVars, ok, seen>>

PressStop ==
  /\ "button" \in Actors /\ pc["button"] = "idle" /\ status = "Running" /\ Unused
  /\ auto' = FALSE /\ timer' = FALSE /\ Go("button", "stopLock")
  /\ UNCHANGED <<vm, status, lock, users, spaceVars, back, ok, seen>>

\* change_resources(): the rest of it is the edit of a stopped machine.
PressApply ==
  /\ "button" \in Actors /\ pc["button"] = "idle" /\ status = "Stopped"
  /\ Go("button", "apply")
  /\ UNCHANGED <<vm, status, lock, usageVars, spaceVars, back, ok, seen>>

LockApply(t) ==
  /\ pc[t] = "apply" /\ lock = "none"
  /\ lock' = t /\ status' = Refreshed
  /\ Go(t, IF status' = "Stopped" THEN "editing" ELSE "unlock")
  /\ UNCHANGED <<vm, usageVars, spaceVars, back, ok, seen>>

LimactlEdits(t) ==
  /\ pc[t] = "editing"
  /\ Go(t, "unlock")
  /\ UNCHANGED <<vm, status, lock, usageVars, spaceVars, back, ok, seen>>

\* refresh_status() in the thread of the view: the status that it tests is
\* not the one it replaces.
ViewReads ==
  /\ Refreshes /\ seen = "none" /\ status \notin {"Starting", "Stopping"}
  /\ seen' = vm
  /\ UNCHANGED <<vm, status, lock, usageVars, spaceVars, pc, back, ok>>

ViewSets ==
  /\ seen # "none"
  /\ status' = seen /\ seen' = "none"
  /\ UNCHANGED <<vm, lock, usageVars, spaceVars, pc, back, ok>>

-----------------------------------------------------------------------------

\* What a thread waits for.
TakeLock(t) == LockStart(t) \/ LockStop(t) \/ LockApply(t)
TakeWorkspaceLock(t) == EnterWorkspace(t) \/ ReleaseWorkspace(t)

\* What it does by itself.
Proceed(t) ==
  \/ CommandEnds(t) \/ EndCommand(t) \/ Leave(t)
  \/ StartRunning(t) \/ StartStopped(t) \/ LimactlStarts(t) \/ ReadStarted(t) \/ StartReturns(t)
  \/ StopBegins(t) \/ LimactlStops(t) \/ ReadStopped(t) \/ CleanStopped(t) \/ StopReturns(t)
  \/ LimactlEdits(t)

Operate(t) == Prepare(t) \/ AcquireWorkspace(t) \/ RunCommand(t) \/ Finish(t)

Control == PressStart \/ PressStop \/ PressApply \/ StopIfStartedAutomatically

Next ==
  \/ \E t \in Operations : Operate(t)
  \/ \E t \in Threads : TakeLock(t) \/ TakeWorkspaceLock(t) \/ Proceed(t)
  \/ TimerDue \/ StopIfIdle \/ Control \/ ViewReads \/ ViewSets

\* The threads that can run are not all suspended, calls of limactl return, a
\* lock that stays free is taken, and the timer is due after 2 seconds.  No
\* thread has a claim to run or to get a lock before the others.  Operations,
\* the user and the view owe nothing.
Fairness ==
  /\ WF_vars(\E t \in Threads : TakeLock(t) \/ TakeWorkspaceLock(t) \/ Proceed(t))
  /\ WF_vars(TimerDue) /\ WF_vars(StopIfIdle)

Spec == Init /\ [][Next]_vars /\ Fairness

-----------------------------------------------------------------------------
(* Properties.                                                             *)

Statuses == {"Running", "Stopped"}
Reasons == {"create", "delete", "idle", "prepared", "working", "unlock"}
Callers == Reasons \cup {"none", "prepare", "start"}
StartPlaces == {"lock", "decide", "starting", "started", "return"}
StopPlaces ==
  {"stop", "stopLock", "stopping", "stopped", "clean", "unlock", "due", "apply", "editing"}
Places ==
  {"idle", "enter", "prepared", "working", "release", "leave", "run", "ended"}
    \cup StartPlaces \cup StopPlaces

TypeOK ==
  /\ vm \in Statuses /\ status \in Statuses \cup {"Starting", "Stopping"}
  /\ lock \in Threads \cup {"none"} /\ wlock \in Operations \cup {"none"}
  /\ users \in [Names -> Nat] /\ auto \in BOOLEAN /\ timer \in BOOLEAN
  /\ wusers \in Nat /\ image \in BOOLEAN
  /\ pc \in [Threads -> Places]
  /\ back \in [Threads -> Callers]
  /\ ok \in [Threads -> BOOLEAN] /\ seen \in Statuses \cup {"none"}

\* A machine that was started for operations and is not used has its stop
\* on the way: no end of a use, timer that comes late or failure forgets it.
IdleStopArmed == auto /\ Unused => timer

\* A thread that runs start(), and one that does so in a command or runs it.
Starts(t) == pc[t] \in StartPlaces
Commands(t) == (Starts(t) /\ back[t] \in Reasons) \/ pc[t] \in {"run", "ended"}

HasWorkspace(t) ==
  \/ pc[t] \in {"working", "release"}
  \/ back[t] = "working" /\ Commands(t)

\* The operation of t has not begun, t may run a command by itself.
Outside(t) == pc[t] = "idle" \/ (back[t] = "idle" /\ Commands(t))

\* Every use that began ends once, on every way out: the names in the list
\* are those of the commands that run and of the operations that have begun,
\* and the working space is counted for those who work in it.
UsesBalanced ==
  /\ users["Command"] = Cardinality({t \in Threads : Commands(t)})
  /\ wusers = Cardinality({t \in Operations : HasWorkspace(t)})
  /\ \A t \in Operations : users[t] = IF Outside(t) THEN 0 ELSE 1

\* limactl starts, stops and edits the machine for one thread at a time, and
\* edits it only when it does not run.
OneAtATime ==
  /\ \A s, t \in Threads : {pc[s], pc[t]} \subseteq {"starting", "stopping", "editing"} => s = t
  /\ \A t \in Threads : pc[t] = "editing" => vm = "Stopped"

\* While no thread but those that hold _lock sets the status, it is the
\* machine's own, or says what is being done with the machine.
StatusHonest == ~Refreshes =>
  /\ lock = "none" => status = vm
  /\ \A t \in Threads : /\ pc[t] = "starting" => status = "Starting"
                        /\ pc[t] = "stopping" => status = "Stopping"

\* Locks are taken in one order, so that no threads wait for each other: who
\* holds _lock waits for none, who holds _workspace_lock for _lock at most.
\* stop() keeps to it by removing the working space without a command, which
\* would start the machine again; only a view that says Running meanwhile
\* makes it wait for _lock, which it holds itself.
LockOrder == \A t \in Threads :
  /\ lock = t => pc[t] \notin {"stopLock", "apply", "enter", "release"}
  /\ lock = t /\ pc[t] = "lock" => Refreshes /\ back[t] = "unlock"
  /\ wlock = t => pc[t] \notin {"stopLock", "apply", "enter", "release"}

\* A machine started automatically is stopped, if it can be, when nothing uses
\* it and the user does not start it, while the view refreshes nothing: one
\* that runs may else seem to be stopped to the app that quits.
UnusedStops ==
  auto /\ Unused ~> vm = "Stopped" \/ ~Unused \/ \E t \in Threads : Starts(t) /\ back[t] = "start"
=============================================================================
