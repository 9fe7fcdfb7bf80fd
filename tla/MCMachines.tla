----------------------------- MODULE MCMachines -----------------------------
(* One run for what is done with disks and environments: the parts of      *)
(* deploying (MCDeployment), one toolset and its operations, and the       *)
(* snapshots that builds use.  The first choice is which of them is looked *)
(* at, the others stay as they begin.                                      *)
EXTENDS MCDeployment

CONSTANTS
  Operations, Kinds, Cancels,  \* of the toolset
  Commits, Imports, MaxOps, MaxRestarts, MaxChoices  \* of snapshots

VARIABLES
  request, toolset, lock, users, pc, did, holds, spawner, given, broke, misused,
  files, written, markers, listed, project, commit, auto_clean, event_bus, scheduled, adds, stores, ops,
  restarts, choices, disturbed, torn

Tool == INSTANCE Toolset WITH prepared <- spawner, canceled <- given
\* An imported file may have an older snapshot in it than the commits have.
DateInside == [n \in Commits \cup Imports |-> IF n \in Imports THEN 0 ELSE n]
Snapshots == INSTANCE SnapshotStore WITH Inside <- DateInside, event <- event_bus

ASSUME MachinesAssumption == Tool!ToolsetAssumption /\ Snapshots!SnapshotAssumption

toolVars == <<request, toolset, lock, users, pc, did, holds, spawner, given, broke, misused>>
snapshotVars == <<files, written, markers, listed, project, commit, auto_clean, event_bus, scheduled, adds, stores, ops,
                  restarts, choices, disturbed, torn>>

Unasked == [o \in Operations |-> [kind |-> "unmount", runner |-> "vm", write |-> FALSE]]

\* The repository begins at its first commit, and the setting is on.
AllInit ==
  /\ Tool!Init /\ Snapshots!Init /\ auto_clean /\ \A c \in Commits : commit <= c
  /\ \/ part \in {"layout", "wizard", "run"} /\ MCInit /\ request = Unasked
     \/ /\ part \in {"toolset", "snapshots"} /\ Init /\ machine = DiskImage("x86_64", "BIOS", 12 * GIB)
        /\ Wizard!Init /\ method = "SSH" /\ host = FirstHost /\ Run!Init /\ config = FirstConfig
        /\ part = "snapshots" => request = Unasked

\* The user either chooses something or restarts the app.
AllNext ==
  \/ part \notin {"toolset", "snapshots"} /\ MCNext /\ UNCHANGED <<toolVars, snapshotVars>>
  \/ part = "toolset" /\ Tool!Next /\ UNCHANGED <<mcvars, snapshotVars>>
  \/ part = "snapshots" /\ Snapshots!Next /\ choices' + restarts' <= 1 /\ UNCHANGED <<mcvars, toolVars>>

AllSpec == AllInit /\ [][AllNext]_<<mcvars, toolVars, snapshotVars>>

\* The properties of the toolset and the snapshots, under their names.
EnvironmentWhole ==
  /\ Tool!Exclusive /\ Tool!EnvironmentWhole
  /\ part = "snapshots" =>
       /\ Snapshots!TypeOK /\ Snapshots!ListedWhole /\ Snapshots!UsedKept
       /\ Snapshots!SelectedListed /\ Snapshots!CleanSettles
NothingHeld == Tool!NothingHeld
=============================================================================
