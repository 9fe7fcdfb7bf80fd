---------------------------- MODULE MCDeployment ----------------------------
(* One run for the parts of deploying: the pages of a disk and its boot,   *)
(* the connections of the wizard, and the deployment itself.  The first    *)
(* choice is which of them is looked at, the others stay as they begin.    *)
EXTENDS DiskLayout

CONSTANTS
  Hosts, MaxOpen,              \* see DeployWizard
  Configs, MayCancel, MayFail  \* see Deployment

VARIABLES
  part,
  method, host, worker, connection, lister, disk, dialog, install, shown, owner, wopen, hurried,
  config, status, at, finishing, canceled, thread, step, event, reported, prepared, used, mounted, dopen, t

Host(arch, firmware, memory, disksize) ==
  [arch |-> arch, firmware |-> firmware, local |-> FALSE, image |-> FALSE, memory |-> memory, disk |-> disksize]
LocalDisk(arch, firmware, disksize) == [Host(arch, firmware, 0, disksize) EXCEPT !.local = TRUE]
DiskImage(arch, firmware, disksize) == [LocalDisk(arch, firmware, disksize) EXCEPT !.image = TRUE]

\* Disks at the limits of the layout: 6 GiB, and more than MBR addresses
MCMachines == {Host("x86_64", "UEFI", 16000, 6 * GIB), Host("i686", "BIOS", 4096, 3 * 1024 * GIB),
               Host("x86_64", "UEFI", 8192, 500 * GIB), LocalDisk("aarch64", "RASPBERRY_PI", 120 * GIB),
               LocalDisk("ppc64", "PS3", 40 * GIB), DiskImage("x86_64", "BIOS", 12 * GIB)}
MCScans == {[bootloaders |-> {"SYSTEMD_BOOT", "EFI_STUB"}, kernel |-> TRUE]}
MCMounts == {Root, Unset, Invalid, <<"boot">>, <<"boot", "efi">>}

Deploy(target, runner, place) ==
  [target |-> target, runner |-> runner, compress |-> FALSE, place |-> place, rpi |-> FALSE, system |-> FALSE,
   extras |-> {}, snapshot |-> FALSE]
MCConfigs ==
  {[Deploy(target, FALSE, "made") EXCEPT !.extras = e, !.snapshot = e # {}] :
     target \in {"ssh", "local"}, e \in {{}, {"Repository", "Packages", "Network", "Bootloader"}}}
  \cup {[Deploy("image", TRUE, place) EXCEPT !.compress = c] : c \in BOOLEAN, place \in {"made", "sameDisk", "otherDisk"}}
  \cup {[Deploy(target, rpi \/ system, place) EXCEPT !.rpi = rpi, !.system = system] :
           target \in {"iso", "disk"}, rpi \in BOOLEAN, system \in BOOLEAN, place \in {"sameDisk", "otherDisk"}}

Wizard == INSTANCE DeployWizard WITH machine <- lister, open <- wopen
Run == INSTANCE Deployment WITH open <- dopen

ASSUME DeploymentAssumption == Wizard!WizardAssumption /\ Run!DeployAssumption

wizardVars == <<method, host, worker, connection, lister, disk, dialog, install, shown, owner, wopen, hurried>>
runVars == <<config, status, at, finishing, canceled, thread, step, event, reported, prepared, used, mounted, dopen, t>>
mcvars == <<part, vars, wizardVars, runVars>>

FirstConfig == CHOOSE c \in Configs : c.target = "local"
FirstHost == CHOOSE h \in Hosts : TRUE

MCInit ==
  \/ part = "layout" /\ Init /\ Wizard!Init /\ method = "SSH" /\ host = FirstHost /\ Run!Init /\ config = FirstConfig
  \/ part = "wizard" /\ Wizard!Init /\ Init /\ machine = DiskImage("x86_64", "BIOS", 12 * GIB) /\ Run!Init /\ config = FirstConfig
  \/ part = "run" /\ Run!Init /\ Wizard!Init /\ method = "SSH" /\ host = FirstHost /\ Init /\ machine = DiskImage("x86_64", "BIOS", 12 * GIB)

MCNext ==
  \/ part = "layout" /\ Next /\ UNCHANGED <<part, wizardVars, runVars>>
  \/ part = "wizard" /\ Wizard!Next /\ UNCHANGED <<part, vars, runVars>>
  \/ part = "run" /\ Run!Next /\ UNCHANGED <<part, vars, wizardVars>>
  \/ part # "run" /\ UNCHANGED mcvars  \* the user waits

MCSpec == MCInit /\ [][MCNext]_mcvars

\* The properties of the wizard and of the deployment, under their names.
ConnectionsOwned == Wizard!TypeOK /\ Wizard!ConnectionsOwned /\ Wizard!ErasesNamed

\* A deployment that ended leaves nothing open, and its file is whole.
EndsWell == Run!TypeOK /\ Run!EndedClean /\ Run!ResultIsWhole

\* Nothing failed, so the disk of this computer has been written.
DiskIsWritten == Run!DiskIsWritten
=============================================================================
