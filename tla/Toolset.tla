------------------------------- MODULE Toolset -------------------------------
(***************************************************************************)
(* One toolset and the operations that share it: the view mounts and       *)
(* unmounts it, builds, snapshots, kernels of test machines and updates    *)
(* reserve it, spawn it, run a command in it and unspawn it                *)
(* (src/objects/toolset/).  An operation is a thread; that of a process    *)
(* may be canceled and is then cleaned by another thread while it goes on. *)
(***************************************************************************)
EXTENDS Naturals

CONSTANTS
  Operations,  \* operations on the toolset, each asked for once
  Kinds,       \* their kinds, chosen from these in the initial state
  Cancels      \* whether the user cancels processes

Views == {"mount", "unmount"}
Processes == {"build", "snapshot", "update"}

ToolsetAssumption ==
  Kinds \subseteq Views \cup Processes \cup {"kernel"} /\ Cancels \in BOOLEAN

VARIABLES
  request,   \* the kind of each operation, its runner, and whether a mount is writable
  toolset,   \* the object Toolset
  lock,      \* the thread in access_lock, or <<>>
  users,     \* the users that the toolset has in the working space of the VM runner
  pc,        \* where each thread is
  did,       \* the operation has spawned the toolset, to be unspawned by it
  holds,     \* reserve() returned TRUE to the operation and it has not released it
  prepared,  \* the operation's runner is prepared
  canceled,  \* its process was canceled: "no", "yes", or "late", cleaned while a stage prepares
  broke,     \* a runner failed where no handler puts things back
  misused    \* a view went on without a reservation, or spawn() found the toolset spawned

vars == <<request, toolset, lock, users, pc, did, holds, prepared, canceled, broke, misused>>

Closed == [reserved |-> FALSE, spawned |-> FALSE, inUse |-> FALSE, store |-> FALSE, extra |-> FALSE,
           root |-> FALSE, work |-> FALSE, active |-> "none", lease |-> "none"]

\* Threads of an operation: its own and the one that cleans its process.
Own(o) == <<o, "own">>
Clean(o) == <<o, "clean">>
Threads == {Own(o) : o \in Operations} \cup {Clean(o) : o \in Operations}
Kind(th) == request[th[1]].kind

Init ==
  /\ request \in [Operations -> [kind : Kinds, runner : {"vm", "host"}, write : BOOLEAN]]
  /\ \A o \in Operations :
       /\ Kind(Own(o)) = "update" => request[o].write
       /\ Kind(Own(o)) \notin {"mount", "update"} => ~request[o].write
       /\ Kind(Own(o)) \notin {"build", "snapshot"} => request[o].runner = "vm"
  /\ toolset = Closed /\ lock = <<>> /\ users = 0
  /\ pc = [th \in Threads |-> IF th[2] = "own" THEN "idle" ELSE "none"]
  /\ did = [o \in Operations |-> FALSE] /\ holds = [o \in Operations |-> FALSE]
  /\ prepared = [o \in Operations |-> FALSE] /\ canceled = [o \in Operations |-> "no"]
  /\ broke = FALSE /\ misused = FALSE

Go(th, place) == pc' = [pc EXCEPT ![th] = place]
Unlocked == lock = <<>>

-----------------------------------------------------------------------------
(* reserve() and release().                                                *)

\* Fault: reserve() does not look at the reservation there is.
ReserveAlways(o) ==
  /\ Unlocked
  /\ toolset' = [toolset EXCEPT !.reserved = TRUE]
  /\ holds' = [holds EXCEPT ![o] = TRUE]

Reserve(o) ==
  /\ Unlocked
  /\ toolset' = [toolset EXCEPT !.reserved = TRUE]
  /\ holds' = [holds EXCEPT ![o] = ~toolset.reserved]

Release(o) ==
  /\ Unlocked
  /\ toolset' = [toolset EXCEPT !.reserved = FALSE]
  /\ holds' = [holds EXCEPT ![o] = FALSE]

-----------------------------------------------------------------------------
(* spawn() of a thread at "spawn", which ends at "spawned" or "failed".    *)

Runner(th) == request[th[1]].runner

SpawnBegins(th) ==
  /\ pc[th] = "spawn"
  /\ toolset' = [toolset EXCEPT !.active = Runner(th), !.lease = IF Runner(th) = "vm" THEN "vm" ELSE @]
  /\ users' = IF Runner(th) = "vm" THEN users + 1 ELSE users
  /\ Go(th, "enter") /\ misused' = (misused \/ toolset.spawned)
  /\ UNCHANGED <<request, lock, did, holds, prepared, canceled, broke>>

\* acquire_workspace() raises.
SpawnHasNoWorkspace(th) ==
  /\ pc[th] = "spawn" /\ Runner(th) = "vm"
  /\ toolset' = [toolset EXCEPT !.active = "vm"] /\ Go(th, "failed")
  /\ UNCHANGED <<request, lock, users, did, holds, prepared, canceled, broke, misused>>

\* _spawn()
SpawnEnters(th) ==
  /\ pc[th] = "enter" /\ Unlocked
  /\ IF toolset.reserved /\ ~toolset.spawned
     THEN lock' = th /\ Go(th, "root")
     ELSE Go(th, "unwind") /\ UNCHANGED lock
  /\ UNCHANGED <<request, toolset, users, did, holds, prepared, canceled, broke, misused>>

\* The root of the toolset is mounted or copied, where it was not left mounted.
SpawnMounts(th) ==
  /\ pc[th] = "root"
  /\ \/ toolset' = [toolset EXCEPT !.root = TRUE] /\ Go(th, "bind") /\ UNCHANGED lock
     \/ ~toolset.root /\ lock' = <<>> /\ Go(th, "unwind") /\ UNCHANGED toolset
  /\ UNCHANGED <<request, users, did, holds, prepared, canceled, broke, misused>>

\* The root is not there, or the working directory cannot be made: both are
\* removed again.  An error of the executor itself is handled by nobody.
SpawnHasNoRoot(th) ==
  /\ pc[th] = "bind"
  /\ lock' = <<>> /\ Go(th, "unwind")
  /\ \/ toolset' = [toolset EXCEPT !.root = FALSE] /\ UNCHANGED broke
     \/ broke' = TRUE /\ UNCHANGED toolset
  /\ UNCHANGED <<request, users, did, holds, prepared, canceled, misused>>

SpawnBinds(th) ==
  /\ pc[th] = "bind"
  /\ toolset' = [toolset EXCEPT !.work = TRUE, !.spawned = TRUE, !.store = request[th[1]].write,
                                !.extra = Kind(th) \in {"build", "snapshot", "kernel"}]
  /\ Go(th, "test")
  /\ UNCHANGED <<request, lock, users, did, holds, prepared, canceled, broke, misused>>

\* unspawn()'s reset.
Unspawned ==
  /\ toolset' = [Closed EXCEPT !.reserved = toolset.reserved, !.inUse = toolset.inUse]
  /\ users' = IF toolset.lease = "vm" THEN users - 1 ELSE users

\* Its first commands; when one of them fails the toolset is unspawned.
SpawnTests(th) ==
  /\ pc[th] = "test"
  /\ lock' = <<>>
  /\ \/ Go(th, "tested") /\ UNCHANGED <<toolset, users, broke>>
     \/ Go(th, "unwind") /\ Unspawned /\ UNCHANGED broke
     \/ Go(th, "unwind") /\ broke' = TRUE /\ UNCHANGED <<toolset, users>>
  /\ UNCHANGED <<request, did, holds, prepared, canceled, misused>>

\* Fault: a toolset that is not spawned keeps its use of the working space.
SpawnUnwindsNothing(th) ==
  /\ pc[th] \in {"tested", "unwind"}
  /\ Go(th, IF pc[th] = "tested" THEN "spawned" ELSE "failed")
  /\ UNCHANGED <<toolset, users>>
  /\ UNCHANGED <<request, lock, did, holds, prepared, canceled, broke, misused>>

\* The finally of spawn(), outside of the lock.
SpawnUnwinds(th) ==
  /\ pc[th] \in {"tested", "unwind"}
  /\ Go(th, IF pc[th] = "tested" THEN "spawned" ELSE "failed")
  /\ IF toolset.spawned
     THEN UNCHANGED <<toolset, users>>
     ELSE /\ toolset' = [toolset EXCEPT !.lease = "none", !.active = "none"]
          /\ users' = IF toolset.lease = "vm" THEN users - 1 ELSE users
  /\ UNCHANGED <<request, lock, did, holds, prepared, canceled, broke, misused>>

Spawn(th) ==
  \/ SpawnBegins(th) \/ SpawnHasNoWorkspace(th) \/ SpawnEnters(th) \/ SpawnMounts(th)
  \/ SpawnHasNoRoot(th) \/ SpawnBinds(th) \/ SpawnTests(th) \/ SpawnUnwinds(th)

-----------------------------------------------------------------------------
(* unspawn() of a thread at "unspawn", which ends at "closed" or "failed". *)

\* Fault: a toolset is unspawned under the command that runs in it.
UnspawnEntersInUse(th) ==
  /\ pc[th] = "unspawn" /\ Unlocked
  /\ IF toolset.reserved /\ toolset.spawned
     THEN lock' = th /\ Go(th, "unmount")
     ELSE Go(th, "failed") /\ UNCHANGED lock
  /\ UNCHANGED <<request, toolset, users, did, holds, prepared, canceled, broke, misused>>

UnspawnEnters(th) ==
  /\ pc[th] = "unspawn" /\ Unlocked
  /\ IF toolset.reserved /\ toolset.spawned /\ ~toolset.inUse
     THEN lock' = th /\ Go(th, "unmount")
     ELSE Go(th, "failed") /\ UNCHANGED lock
  /\ UNCHANGED <<request, toolset, users, did, holds, prepared, canceled, broke, misused>>

\* The squashfs file is rebuilt, the root is released, the working directory is
\* deleted.  What raises leaves the toolset spawned with what is left of it.
UnspawnEnds(th) ==
  /\ pc[th] = "unmount"
  /\ lock' = <<>>
  /\ \/ Unspawned /\ Go(th, "closed") /\ UNCHANGED broke
     \/ /\ broke' = TRUE /\ Go(th, "failed")
        /\ \E root \in BOOLEAN : toolset' = [toolset EXCEPT !.root = @ /\ root]
        /\ UNCHANGED users
  /\ UNCHANGED <<request, did, holds, prepared, canceled, misused>>

Unspawn(th) == UnspawnEnters(th) \/ UnspawnEnds(th)

-----------------------------------------------------------------------------
(* run_command() of a thread at "ready".                                   *)

CommandBegins(th) ==
  /\ pc[th] = "ready" /\ canceled[th[1]] = "no" /\ Unlocked
  /\ IF toolset.reserved /\ toolset.spawned /\ ~toolset.inUse
     THEN toolset' = [toolset EXCEPT !.inUse = TRUE] /\ Go(th, "running")
     ELSE Go(th, "failed") /\ UNCHANGED toolset
  /\ UNCHANGED <<request, lock, users, did, holds, prepared, canceled, broke, misused>>

CommandEnds(th) ==
  /\ pc[th] = "running" /\ Unlocked
  /\ toolset' = [toolset EXCEPT !.inUse = FALSE]
  /\ \/ Go(th, "failed")
     \/ canceled[th[1]] = "no" /\ Go(th, "ran")
  /\ UNCHANGED <<request, lock, users, did, holds, prepared, canceled, broke, misused>>

Command(th) == CommandBegins(th) \/ CommandEnds(th)

-----------------------------------------------------------------------------
(* The view: a button is pressed, the action is authorized, and the result *)
(* of reserve() is ignored.                                                *)

Fits(o) == ~toolset.reserved /\ ~toolset.inUse /\ toolset.spawned = (Kind(Own(o)) = "unmount")

Press(o) ==
  /\ pc[Own(o)] = "idle" /\ Kind(Own(o)) \in Views /\ Fits(o)
  /\ Go(Own(o), "pressed")
  /\ UNCHANGED <<request, toolset, lock, users, did, holds, prepared, canceled, broke, misused>>

ViewReserves(o) ==
  /\ pc[Own(o)] = "pressed"
  /\ Reserve(o) /\ misused' = (misused \/ toolset.reserved)
  /\ Go(Own(o), IF Kind(Own(o)) = "mount" THEN "spawn" ELSE "unspawn")
  /\ UNCHANGED <<request, lock, users, did, prepared, canceled, broke>>

ViewReleases(o) ==
  /\ Kind(Own(o)) \in Views /\ pc[Own(o)] \in {"ran", "failed", "closed"}
  /\ Release(o) /\ Go(Own(o), "done")
  /\ UNCHANGED <<request, lock, users, did, prepared, canceled, broke, misused>>

-----------------------------------------------------------------------------
(* The kernel of a test machine, in _build_custom_kernel().                *)

KernelReserves(o) ==
  /\ pc[Own(o)] = "idle" /\ Kind(Own(o)) = "kernel"
  /\ Reserve(o) /\ Go(Own(o), IF toolset.reserved THEN "done" ELSE "spawn")
  /\ UNCHANGED <<request, lock, users, did, prepared, canceled, broke, misused>>

KernelUnspawns(o) ==
  /\ Kind(Own(o)) = "kernel" /\ pc[Own(o)] \in {"ran", "failed"} /\ did[o]
  /\ did' = [did EXCEPT ![o] = FALSE] /\ Go(Own(o), "unspawn")
  /\ UNCHANGED <<request, toolset, lock, users, holds, prepared, canceled, broke, misused>>

KernelReleases(o) ==
  /\ Kind(Own(o)) = "kernel" /\ pc[Own(o)] \in {"ran", "failed", "closed"} /\ ~did[o]
  /\ Release(o) /\ Go(Own(o), "done")
  /\ UNCHANGED <<request, lock, users, did, prepared, canceled, broke, misused>>

-----------------------------------------------------------------------------
(* The stages that prepare the toolset.                                    *)

\* PrepareRunnerStage, and busy_reason or in_use.
ProcessStarts(o) ==
  /\ pc[Own(o)] = "idle" /\ Kind(Own(o)) \in {"build", "snapshot"}
  /\ prepared' = [prepared EXCEPT ![o] = TRUE]
  /\ Go(Own(o), IF toolset.inUse \/ (Kind(Own(o)) = "build" /\ (toolset.reserved \/ toolset.spawned))
                THEN "failed" ELSE "reserve")
  /\ UNCHANGED <<request, toolset, lock, users, did, holds, canceled, broke, misused>>

ProcessReserves(o) ==
  /\ pc[Own(o)] = "reserve"
  /\ Reserve(o)
  /\ Go(Own(o), IF toolset.reserved THEN "failed"
                ELSE IF Kind(Own(o)) = "build" THEN "spawn" ELSE "choose")
  /\ UNCHANGED <<request, lock, users, did, prepared, canceled, broke, misused>>

\* ToolsetUpdate takes the runner of the toolset, which has one while it is
\* spawned; without one its first stage fails.
UpdateStarts(o) ==
  /\ pc[Own(o)] = "idle" /\ Kind(Own(o)) = "update"
  /\ Reserve(o)
  /\ prepared' = [prepared EXCEPT ![o] = ~toolset.reserved /\ toolset.active # "none"]
  /\ Go(Own(o), IF toolset.reserved THEN "done"
                ELSE IF toolset.active = "none" \/ toolset.inUse THEN "failed" ELSE "choose")
  /\ UNCHANGED <<request, lock, users, did, canceled, broke, misused>>

\* The environment that is open serves when it has what is needed.
Serves(o) ==
  IF Kind(Own(o)) = "update" THEN toolset.store /\ ~toolset.extra
  ELSE toolset.extra /\ toolset.active = request[o].runner

Choose(o) ==
  /\ pc[Own(o)] \in {"choose", "closed"} /\ Kind(Own(o)) \in {"snapshot", "update"}
  /\ Go(Own(o), IF ~toolset.spawned THEN "spawn" ELSE IF Serves(o) THEN "ready" ELSE "unspawn")
  /\ UNCHANGED <<request, toolset, lock, users, did, holds, prepared, canceled, broke, misused>>

\* What spawn() returned to remembers it, also in a process that is canceled.
Spawned(o) ==
  /\ pc[Own(o)] = "spawned"
  /\ did' = [did EXCEPT ![o] = TRUE] /\ Go(Own(o), "ready")
  /\ UNCHANGED <<request, toolset, lock, users, holds, prepared, canceled, broke, misused>>

-----------------------------------------------------------------------------
(* The end of a process: cancel() and the cleanup of its stages.           *)

Preparing(o) == pc[Own(o)] \notin {"idle", "ready", "running", "ran", "failed", "done"}

Cancel(o) ==
  /\ Cancels /\ Kind(Own(o)) \in Processes /\ canceled[o] = "no"
  /\ pc[Own(o)] \notin {"idle", "done"} /\ pc[Clean(o)] = "none"
  /\ canceled' = [canceled EXCEPT ![o] = "yes"]
  /\ UNCHANGED <<request, toolset, lock, users, pc, did, holds, prepared, broke, misused>>

\* Fault: nothing is unspawned for a process that did not succeed.
CleanBeginsAfterSuccess(o) ==
  /\ pc[Clean(o)] = "none" /\ Kind(Own(o)) \in Processes
  /\ pc[Own(o)] \in {"ran", "failed"} \/ (canceled[o] = "yes" /\ pc[Own(o)] # "running")
  /\ canceled' = [canceled EXCEPT ![o] = IF Preparing(o) THEN "late" ELSE @]
  /\ prepared' = [prepared EXCEPT ![o] = @ /\ ~(pc[Own(o)] = "ran" /\ canceled[o] = "no")]
  /\ Go(Clean(o), IF pc[Own(o)] = "ran" THEN "unspawn" ELSE "release")
  /\ UNCHANGED <<request, toolset, lock, users, did, holds, broke, misused>>

\* StopRunnerStage ends a process that succeeds.  The command of a canceled one
\* has ended, the stage that prepares the toolset may go on.
CleanBegins(o) ==
  /\ pc[Clean(o)] = "none" /\ Kind(Own(o)) \in Processes
  /\ pc[Own(o)] \in {"ran", "failed"} \/ (canceled[o] = "yes" /\ pc[Own(o)] # "running")
  /\ canceled' = [canceled EXCEPT ![o] = IF Preparing(o) THEN "late" ELSE @]
  /\ prepared' = [prepared EXCEPT ![o] = @ /\ ~(pc[Own(o)] = "ran" /\ canceled[o] = "no")]
  /\ Go(Clean(o), IF IF Kind(Own(o)) = "update" THEN prepared[o] ELSE did[o] THEN "unspawn" ELSE "release")
  /\ UNCHANGED <<request, toolset, lock, users, did, holds, broke, misused>>

CleanReleases(o) ==
  /\ pc[Clean(o)] \in {"release", "closed"}
  /\ prepared' = [prepared EXCEPT ![o] = FALSE]
  /\ IF holds[o] \/ Kind(Own(o)) = "update" THEN Release(o) ELSE UNCHANGED <<toolset, holds>>
  /\ Go(Clean(o), "done")
  /\ UNCHANGED <<request, lock, users, did, canceled, broke, misused>>

\* unspawn() raised: the rest of the cleanup is passed over, complete_process()
\* of an update releases the toolset.
CleanFails(o) ==
  /\ pc[Clean(o)] = "failed"
  /\ IF Kind(Own(o)) = "update" THEN Release(o) ELSE UNCHANGED <<toolset, holds>>
  /\ Go(Clean(o), "done")
  /\ UNCHANGED <<request, lock, users, did, prepared, canceled, broke, misused>>

-----------------------------------------------------------------------------
View(o) == Press(o) \/ ViewReserves(o) \/ ViewReleases(o)
Kernel(o) == KernelReserves(o) \/ KernelUnspawns(o) \/ KernelReleases(o)
Stage(o) == ProcessStarts(o) \/ ProcessReserves(o) \/ UpdateStarts(o) \/ Choose(o) \/ Spawned(o)
Cleanup(o) == Cancel(o) \/ CleanBegins(o) \/ CleanReleases(o) \/ CleanFails(o)

Next ==
  \/ \E th \in Threads : Spawn(th) \/ Unspawn(th) \/ Command(th)
  \/ \E o \in Operations : View(o) \/ Kernel(o) \/ Stage(o) \/ Cleanup(o)

Spec == Init /\ [][Next]_vars

-----------------------------------------------------------------------------
(* Properties.                                                             *)

\* What the code does not handle: a button that is late for its toolset, and a
\* process cleaned while the stage that prepares the toolset goes on.
Prompt == ~misused /\ \A o \in Operations : canceled[o] # "late"
Over(o) == pc[Own(o)] \in {"done", "ran", "failed", "ready"} /\ pc[Clean(o)] \in {"none", "done"}
Ended(o) == Over(o) /\ (pc[Own(o)] = "done" \/ pc[Clean(o)] = "done")

\* The reservation is that of one operation, from its reserve() until it gives
\* it back: nobody releases what another one has.
Exclusive ==
  Prompt => /\ toolset.reserved = (\E o \in Operations : holds[o])
            /\ \A o, p \in Operations : holds[o] /\ holds[p] => o = p

\* Whatever fails in spawn() and unspawn(): a toolset that is spawned has its
\* root and its working directory, one that is not has nothing mounted, and it
\* uses the working space of the runner exactly as long.
Inside == {"enter", "root", "bind", "test", "tested", "unwind", "unmount"}
MountedWhileSpawned ==
  Prompt /\ ~broke /\ (\A th \in Threads : pc[th] \notin Inside) =>
    /\ toolset.root = toolset.spawned /\ toolset.work = toolset.spawned
    /\ users = (IF toolset.spawned /\ toolset.active = "vm" THEN 1 ELSE 0)

\* A command has its environment until it ends, also where a button was
\* pressed before another operation began.
CommandsInside == toolset.inUse /\ ~broke => toolset.spawned /\ toolset.root /\ toolset.work

\* Both: what is mounted is what the object says and what commands need.
EnvironmentWhole == MountedWhileSpawned /\ CommandsInside

\* An operation that is over has given back its reservation and its runner, and
\* the toolset stays open only where the user has mounted it.  Not so when
\* unspawn() raised, or when the process was canceled while it prepared.
NothingHeld ==
  Prompt /\ ~broke =>
    /\ \A o \in Operations : Ended(o) => ~holds[o] /\ (prepared[o] => Kind(Own(o)) = "update")
    /\ toolset.spawned /\ ~toolset.reserved =>
         \E o \in Operations : Kind(Own(o)) = "mount" /\ pc[Own(o)] = "done"
=============================================================================
