----------------------------- MODULE Deployment -----------------------------
(***************************************************************************)
(* Deploying a build: DeployInstallation (deploy_installation.py, on a     *)
(* machine through SSH, on a disk of this computer, or to an image file,   *)
(* with deploy_image.py and deploy_image_steps.py) and LiveIsoDeployment   *)
(* (deploy_live_iso.py, to a disk or an ISO file).  Both are a             *)
(* MultiStageProcess whose stages are a DeployStep: its thread runs        *)
(* commands one after another, and the first that fails fails the stage.   *)
(***************************************************************************)
EXTENDS Integers, Sequences

CONSTANTS
  Configs,    \* deployments: see ConfigType
  MayCancel,  \* the user may press Cancel
  MayFail     \* commands may fail

Targets == {"ssh", "local", "image", "disk", "iso"}

\* Which deployment it is.  runner: a runner is prepared; compress: .img.xz;
\* place: where the result goes, relative to where it was made; rpi, system:
\* what a live ISO is changed for; extras: stages that are not always there;
\* snapshot: the Gentoo repository is the snapshot of the build.
ConfigType ==
  [target : Targets, runner : BOOLEAN, compress : BOOLEAN, place : {"made", "sameDisk", "otherDisk"},
   rpi : BOOLEAN, system : BOOLEAN, extras : SUBSET {"Repository", "Packages", "Network", "Bootloader"},
   snapshot : BOOLEAN]

\* Only an image is made at its place, an ISO in a folder that goes away.
DeployAssumption ==
  /\ Configs \subseteq ConfigType /\ {MayCancel, MayFail} \subseteq BOOLEAN
  /\ \A c \in Configs : c.target = "iso" => c.place # "made"

VARIABLES
  config,
  status,    \* state of the process
  at,        \* the stage that was started last, 0 before the first
  thread,    \* of that stage: none, starting, step (between commands), command
  step,      \* command of the stage
  event,     \* cancel event of the stage
  reported,  \* result of the stage, _continue_process() waits in the main loop
  finishing, \* where complete_process() is
  canceled,  \* the user canceled it
  prepared,  \* runner_prepared
  used,      \* uses of the runner by this process
  mounted,   \* the flag of DeployInstallation
  open,      \* connections that are open: target, tools
  t          \* the target: what is mounted, attached, and which files there are

procVars == <<config, status, at, finishing, canceled>>
threadVars == <<thread, step, event, reported>>
vars == <<procVars, threadVars, prepared, used, mounted, open, t>>

Live(c) == c.target \in {"disk", "iso"}
Image(c) == c.target = "image"
Modified(c) == c.rpi \/ c.system
Only(stage, present) == IF present THEN <<stage>> ELSE <<>>
Extra(stage, c) == Only(stage, stage \in c.extras)

\* setup_stages() of both.
Stages(c) ==
  Only("PrepareRunner", c.runner)
  \o (IF Live(c)
      THEN Only("Prepare", Modified(c))
           \o (IF c.rpi THEN <<"ReadIso", "Firmware", "BootPartition">> ELSE <<>>)
           \o Only("LiveSystem", c.system) \o Only("WriteIso", Modified(c))
           \o <<IF c.target = "disk" THEN "WriteDisk" ELSE "SaveIso">>
      ELSE <<IF Image(c) THEN "CreateImage" ELSE "Check", "Partition", "Format", "Mount", "Extract", "Configure">>
           \o Extra("Repository", c) \o Extra("Packages", c) \o Extra("Network", c) \o Extra("Bootloader", c)
           \o Only("GrowRoot", Image(c)) \o <<"Finish">>
           \o Only("Shrink", Image(c)) \o Only("Compress", Image(c) /\ c.compress) \o Only("SaveImage", Image(c)))
  \o Only("StopRunner", c.runner)

\* How a result gets to the place that was selected.  An ISO is made in a
\* folder that goes away, and one that is not modified is the build's.
Moves(c, live) ==
  CASE c.place = "made" -> <<>>
    [] c.place = "sameDisk" /\ (~live \/ Modified(c)) -> <<"replace">>
    [] OTHER -> IF live THEN <<"copy", "rename">> ELSE <<"copy", "rename", "removeSource">>

\* What run() of the stages does in order, that of a DeployStep is a script
\* unless it is told here.
PrepareRunnerSteps == <<"prepare">>
CreateImageSteps == <<"connect", "tools", "create">>
CheckSteps(c) == <<"alive">> \o Only("disk", c.target = "local") \o <<"tools">> \o Only("clock", c.target = "ssh")
PartitionSteps == <<"script">>
FormatSteps == <<"script">>
MountSteps == <<"mark", "mount">>
ExtractSteps(c) == <<"extract", "sync">> \o Only("script", c.target \in {"local", "image"})
ConfigureSteps == <<"fstab", "configure">>
RepositorySteps(c) == Only("extract", c.snapshot) \o <<"script">>
PackagesSteps == <<"script">>
NetworkSteps == <<"script">>
BootloaderSteps == <<"script">>
GrowRootSteps == <<"script">>
FinishSteps == <<"umount", "unmark">>
ShrinkSteps == <<"shrink">>
CompressSteps == <<"compress">>
PrepareSteps(c) == <<"connectTools", "tools", "makeFolder">> \o Only("workspace", c.system)
ReadIsoSteps == <<"script", "script">>
FirmwareSteps == <<"download", "cache">>
BootPartitionSteps == <<"copyBoot", "script">>
LiveSystemSteps == <<"unpack">>
WriteIsoSteps == <<"writeIso", "renameIso">>
WriteDiskSteps == <<"alive", "wipe", "dd", "sync">>
StopRunnerSteps == <<"release">>

Steps(s, c) ==
  CASE s = "PrepareRunner" -> PrepareRunnerSteps [] s = "StopRunner" -> StopRunnerSteps
    [] s = "CreateImage" -> CreateImageSteps [] s = "Check" -> CheckSteps(c)
    [] s = "Partition" -> PartitionSteps [] s = "Format" -> FormatSteps
    [] s = "Mount" -> MountSteps [] s = "Extract" -> ExtractSteps(c)
    [] s = "Configure" -> ConfigureSteps [] s = "Repository" -> RepositorySteps(c)
    [] s = "Packages" -> PackagesSteps [] s = "Network" -> NetworkSteps
    [] s = "Bootloader" -> BootloaderSteps [] s = "GrowRoot" -> GrowRootSteps
    [] s = "Finish" -> FinishSteps [] s = "Shrink" -> ShrinkSteps
    [] s = "Compress" -> CompressSteps [] s = "SaveImage" -> Moves(c, FALSE)
    [] s = "Prepare" -> PrepareSteps(c) [] s = "ReadIso" -> ReadIsoSteps
    [] s = "Firmware" -> FirmwareSteps [] s = "BootPartition" -> BootPartitionSteps
    [] s = "LiveSystem" -> LiveSystemSteps [] s = "WriteIso" -> WriteIsoSteps
    [] s = "WriteDisk" -> WriteDiskSteps [] s = "SaveIso" -> Moves(c, TRUE)

Stage == Stages(config)[at]
Op == Steps(Stage, config)[step]

\* Steps of Python code, not a command that needs a connection.  Those of
\* Assignments do not fail.
Assignments == {"mark", "unmark"}
InProcess == Assignments \cup {"prepare", "connect", "alive", "connectTools", "makeFolder", "workspace", "cache",
                               "copyBoot", "replace", "copy", "rename", "removeSource", "renameIso", "download",
                               "release"}

\* remote() uses process.connection: that to the tools for a live ISO, to the
\* target otherwise.  A disk is prepared by root: the tools run as root when a
\* live system is configured.  dd goes through disk_connection.
Reachable ==
  IF ~Live(config) \/ Op = "dd" THEN "target" \in open
  ELSE "tools" \in open /\ (Op \in {"wipe", "sync"} => config.system)

\* The file that a result is: the ISO of the build when it is not modified.
Result(x) ==
  IF Live(config) /\ ~Modified(config) THEN "whole" ELSE IF x.xz # "none" THEN x.xz ELSE x.image

\* A step has what it needs; a copy tests the cancel event.
Possible ==
  CASE Op \notin InProcess -> Reachable
    [] Op = "alive" -> "target" \in open
    [] Op = "replace" -> Result(t) # "none"
    [] Op = "copy" -> Result(t) # "none" /\ ~event
    [] Op = "rename" -> t.part # "none"
    [] OTHER -> TRUE

\* What the target can be after a command that succeeded.
After(op, x) ==
  CASE op = "create" -> [x EXCEPT !.image = "big", !.loop = TRUE]
    [] op = "mount" -> [x EXCEPT !.mounts = TRUE]
    [] op = "umount" -> [x EXCEPT !.mounts = FALSE]
    [] op = "shrink" -> [x EXCEPT !.image = "whole", !.loop = FALSE]
    [] op = "compress" -> [x EXCEPT !.image = "none", !.xz = "whole"]
    [] op = "makeFolder" -> [x EXCEPT !.folder = TRUE]
    [] op = "workspace" -> [x EXCEPT !.workspace = TRUE]
    [] op = "unpack" -> [x EXCEPT !.live = TRUE]
    [] op = "writeIso" -> [x EXCEPT !.tmp = TRUE]
    [] op = "renameIso" -> [x EXCEPT !.tmp = FALSE, !.image = "whole"]
    [] op = "cache" -> [x EXCEPT !.cache = "whole"]
    [] op = "replace" -> [x EXCEPT !.output = Result(x), !.image = "none", !.xz = "none"]
    [] op = "copy" -> [x EXCEPT !.part = Result(x)]
    [] op = "rename" -> [x EXCEPT !.part = "none", !.output = x.part]
    [] op = "removeSource" -> [x EXCEPT !.image = "none", !.xz = "none"]
    [] op = "dd" -> [x EXCEPT !.output = "whole"]
    [] OTHER -> x

\* Fault: the file is copied to its place.
AfterFailureInPlace(op, x) ==
  CASE op = "copy" -> {x, [x EXCEPT !.output = "cut"]}
    [] op \in {"mount", "umount", "unpack", "writeIso", "makeFolder"} -> {x, After(op, x)}
    [] OTHER -> {x}

\* And after one that failed or was terminated: a part of it may be done.
\* copy_file() removes its partial file.
AfterFailure(op, x) ==
  CASE op = "create" -> {x, [x EXCEPT !.image = "big"], After(op, x)}
    [] op \in {"mount", "umount", "unpack", "writeIso", "makeFolder"} -> {x, After(op, x)}
    [] op = "shrink" -> {x, [x EXCEPT !.image = "cut", !.loop = FALSE]}
    [] op = "compress" -> {x, [x EXCEPT !.xz = "cut"]}
    [] op \in {"copy", "rename"} -> {[x EXCEPT !.part = "none"]}
    [] op = "dd" -> {x, [x EXCEPT !.output = "cut"]}
    [] OTHER -> {x}

-----------------------------------------------------------------------------
Nothing == [mounts |-> FALSE, loop |-> FALSE, image |-> "none", xz |-> "none", output |-> "none", part |-> "none",
            folder |-> FALSE, workspace |-> FALSE, live |-> FALSE, tmp |-> FALSE, cache |-> "none"]

\* An image's connection is opened by its first stage, others by the wizard.
Init ==
  /\ config \in Configs
  /\ status = "IN_PROGRESS" /\ at = 0 /\ finishing = "no" /\ canceled = FALSE
  /\ thread = "none" /\ step = 1 /\ event = FALSE /\ reported = "COMPLETED"
  /\ prepared = FALSE /\ used = 0 /\ mounted = FALSE
  /\ open = IF config.target \in {"ssh", "local", "disk"} THEN {"target"} ELSE {}
  /\ t = Nothing

Continue ==
  /\ reported # "none" /\ reported' = "none"
  /\ CASE status # "IN_PROGRESS" -> UNCHANGED <<procVars, thread, step>>
       [] status = "IN_PROGRESS" /\ reported = "FAILED" ->
            status' = "FAILED" /\ finishing' = "cleanup" /\ UNCHANGED <<config, at, canceled, thread, step>>
       [] status = "IN_PROGRESS" /\ reported = "COMPLETED" /\ at < Len(Stages(config)) ->
            at' = at + 1 /\ thread' = "starting" /\ step' = 1 /\ UNCHANGED <<config, status, finishing, canceled>>
       [] OTHER -> status' = "COMPLETED" /\ finishing' = "cleanup" /\ UNCHANGED <<config, at, canceled, thread, step>>
  /\ UNCHANGED <<event, prepared, used, mounted, open, t>>

\* start() of the stage clears its cancel event.
StageStarts ==
  /\ thread = "starting" /\ thread' = "step" /\ event' = FALSE
  /\ UNCHANGED <<procVars, step, reported, prepared, used, mounted, open, t>>

StageCompletes ==
  /\ thread = "step" /\ step > Len(Steps(Stage, config))
  /\ thread' = "none" /\ reported' = IF event THEN reported ELSE "COMPLETED"
  /\ UNCHANGED <<procVars, step, event, prepared, used, mounted, open, t>>

StageFails ==
  /\ thread' = "none" /\ reported' = IF event THEN reported ELSE "FAILED"
  /\ UNCHANGED <<procVars, step, event>>

CommandStarts ==
  /\ thread = "step" /\ step <= Len(Steps(Stage, config))
  /\ thread' = "command"
  /\ UNCHANGED <<procVars, step, event, reported, prepared, used, mounted, open, t>>

\* Fault: the flag is set when everything is mounted.
MarksMounted(op) == mounted' = IF op = "mount" THEN TRUE ELSE IF op = "unmark" THEN FALSE ELSE mounted
\* What a step changes in the process.
Marks(op) == mounted' = IF op = "mark" THEN TRUE ELSE IF op = "unmark" THEN FALSE ELSE mounted

Succeeds(op) ==
  /\ thread' = "step" /\ step' = step + 1 /\ t' = After(op, t)
  /\ Marks(op)
  /\ used' = CASE op = "prepare" -> used + 1 [] op = "release" /\ prepared -> used - 1 [] OTHER -> used
  /\ prepared' = CASE op = "prepare" -> TRUE [] op = "release" -> FALSE [] OTHER -> prepared
  /\ open' = CASE op = "connect" -> open \cup {"target"} [] op = "connectTools" -> open \cup {"tools"} [] OTHER -> open
  /\ UNCHANGED <<procVars, event, reported>>

CommandSucceeds ==
  /\ thread = "command" /\ Possible
  /\ Succeeds(Op)

CommandFails ==
  /\ thread = "command" /\ Op \notin Assignments
  /\ MayFail \/ event \/ ~Possible
  /\ t' \in (IF Op \in InProcess \/ Reachable THEN AfterFailure(Op, t) ELSE {t})
  /\ StageFails
  /\ UNCHANGED <<prepared, used, mounted, open>>

\* The Cancel button: the running stage fails, its commands are terminated,
\* and the process ends at once, whatever its thread still does.
Cancel ==
  /\ MayCancel /\ status = "IN_PROGRESS"
  /\ status' = "FAILED" /\ canceled' = TRUE /\ finishing' = "cleanup"
  /\ event' = (event \/ thread \in {"step", "command"})
  /\ UNCHANGED <<config, at, thread, step, reported, prepared, used, mounted, open, t>>

-----------------------------------------------------------------------------
(* _finish(): cleanup() of the stages, then complete_process().            *)

FinishStep(from, to) == finishing = from /\ finishing' = to /\ UNCHANGED <<config, status, at, canceled, threadVars>>

Cleanup ==
  /\ FinishStep("cleanup", IF Live(config) THEN "live" ELSE "unmount")
  /\ prepared' = FALSE /\ used' = IF prepared THEN used - 1 ELSE used
  /\ UNCHANGED <<mounted, open, t>>

\* Partitions of a machine reached through SSH stay mounted, to be checked.
Unmount ==
  /\ FinishStep("unmount", "detach")
  /\ IF mounted /\ config.target # "ssh"
     THEN mounted' = FALSE /\ t' = [t EXCEPT !.mounts = IF "target" \in open THEN FALSE ELSE @]
     ELSE UNCHANGED <<mounted, t>>
  /\ UNCHANGED <<prepared, used, open>>

Detach ==
  /\ FinishStep("detach", "close")
  /\ t' = IF ~Image(config) \/ "target" \notin open THEN t
          ELSE [t EXCEPT !.loop = FALSE, !.image = IF status = "COMPLETED" THEN @ ELSE "none",
                         !.xz = IF status = "COMPLETED" THEN @ ELSE "none"]
  /\ UNCHANGED <<prepared, used, mounted, open>>

\* The live system, the workspace, the folder with what was made in it, and
\* the part of a copy.
RemoveLive ==
  /\ FinishStep("live", "close")
  /\ t' = [t EXCEPT !.live = IF "tools" \in open THEN FALSE ELSE @, !.folder = FALSE, !.tmp = FALSE,
                    !.workspace = FALSE, !.image = "none", !.part = IF status = "COMPLETED" THEN @ ELSE "none"]
  /\ UNCHANGED <<prepared, used, mounted, open>>

Close ==
  /\ FinishStep("close", "closed")
  /\ open' = {}
  /\ UNCHANGED <<prepared, used, mounted, t>>

\* The process is complete and its thread ended: it stays so.
Over == finishing = "closed" /\ thread = "none" /\ reported = "none"
Ended == Over /\ UNCHANGED vars

Finishes == Cleanup \/ Unmount \/ Detach \/ RemoveLive \/ Close
Works == Continue \/ StageStarts \/ StageCompletes \/ CommandStarts \/ CommandSucceeds \/ CommandFails
Next == Works \/ Finishes \/ Cancel \/ Ended

Spec == Init /\ [][Next]_vars

-----------------------------------------------------------------------------
(* Properties.                                                             *)

TypeOK ==
  /\ status \in {"IN_PROGRESS", "COMPLETED", "FAILED"} /\ at \in 0 .. Len(Stages(config))
  /\ thread \in {"none", "starting", "step", "command"} /\ open \subseteq {"target", "tools"}
  /\ used \in Nat /\ reported \in {"none", "COMPLETED", "FAILED"}

\* A deployment that was not canceled leaves nothing behind, whichever of its
\* commands failed halfway: a disk of this computer can be removed, an image
\* is detached and its unfinished file gone, the live system and the folder
\* are gone, connections are closed and the runner is released.
EndedClean == Over /\ ~canceled =>
  /\ open = {} /\ used = 0
  /\ config.target # "ssh" => ~t.mounts
  /\ ~t.loop /\ ~t.live /\ ~t.folder /\ ~t.workspace /\ t.part = "none"
  /\ status = "FAILED" => t.image = "none" /\ t.xz = "none"

\* The result is there as a whole when the deployment completed, and a file
\* in the place the user selected is never a part of one, not even when the
\* copying is canceled.
ResultIsWhole ==
  /\ config.target \in {"image", "iso"} => t.output \in {"none", "whole"}
  /\ status = "COMPLETED" /\ config.target \in {"image", "iso", "disk"} =>
       IF config.target = "image" /\ config.place = "made" THEN Result(t) = "whole" ELSE t.output = "whole"

\* LiveIsoTarget.LOCAL_DISK is a "disk of this computer, written with ISO":
\* it is written when no command fails and nobody cancels.
DiskIsWritten == Over /\ config.target = "disk" => t.output = "whole"
=============================================================================
