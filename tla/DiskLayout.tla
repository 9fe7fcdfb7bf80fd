----------------------------- MODULE DiskLayout -----------------------------
(***************************************************************************)
(* The disk and the boot pages of the deploy wizard (deploy_create_view.py)*)
(* with what they work on: partitions of the selected disk                 *)
(* (src/objects/deploy/deploy_target.py), and the bootloaders and kernels  *)
(* that can be installed (deploy_boot.py).  Sizes are in MiB.  A mount     *)
(* point is the sequence of its components, <<>> for "/".                  *)
(***************************************************************************)
EXTENDS Integers, Sequences, FiniteSets, SequencesExt

CONSTANTS
  Machines,  \* machines, as records: arch, firmware, local, image, memory, disk
  Scans,     \* what StageContents.scan() may find: records bootloaders, kernel
  Mounts,    \* mount points the user enters, Unset and Invalid may be among them
  Sizes,     \* sizes the user sets, the row allows 0.1 GiB (102) and more
  MaxEdits   \* edits of the user, a bound for model checking

MIB == 1
GIB == 1024
MBR_MAX_SIZE == 2048 * GIB
Rest == 0                \* size of a partition that uses the remaining space
Root == <<>>
Unset == <<"">>          \* no mount point entered
Invalid == <<"..">>      \* one that _MOUNT_POINT does not match

X86 == {"x86_64", "i686"}
RaspberryPiArchitectures == {"aarch64", "armv7l"}
Bootloaders == {"GRUB", "SYSTEMD_BOOT", "REFIND", "EFI_STUB", "KBOOT", "RASPBERRY_PI", "NONE"}
Types == {"EFI", "BIOS_BOOT", "LINUX", "SWAP", "FIRMWARE"}
MountedTypes == {"EFI", "LINUX", "FIRMWARE"}

\* TargetFirmware.options(), and what the model of a machine reached through
\* SSH tells: UEFI, BIOS or a Raspberry Pi.
FirmwareOptions(arch) ==
  CASE arch \in X86 -> {"UEFI", "BIOS"}
    [] arch = "ppc64" -> {"PS3", "PETITBOOT"}
    [] arch = "ppc64le" -> {"PETITBOOT"}
    [] arch \in RaspberryPiArchitectures -> {"UEFI", "RASPBERRY_PI", "OTHER"}
    [] OTHER -> {"UEFI", "OTHER"}

ASSUME LayoutAssumption ==
  /\ \A m \in Machines :
       /\ m.disk \in Nat /\ m.memory \in Nat /\ {m.local, m.image} \subseteq BOOLEAN
       /\ m.firmware \in FirmwareOptions(m.arch) /\ (m.image => m.local)
  /\ \A s \in Scans : s.bootloaders \subseteq Bootloaders /\ s.kernel \in BOOLEAN
  /\ Sizes \subseteq Nat /\ (\A s \in Sizes : s >= 102) /\ MaxEdits \in Nat

VARIABLES
  machine,     \* TargetMachine, its firmware is chosen by the user when it is local
  selected,    \* a disk is selected
  table,       \* PartitionTable
  layout,      \* PartitionSpecs: type, size, mount, fs
  scanned,     \* the archive was looked through
  contents,    \* StageContents, empty ones until then
  bootloader,  \* what the row of bootloaders shows
  kernel,      \* what the row of kernels shows
  edits        \* edits so far

bootVars == <<scanned, contents, bootloader, kernel>>
vars == <<machine, selected, table, layout, bootVars, edits>>

Uefi(m) == m.firmware = "UEFI"
RaspberryPi(m) == m.firmware = "RASPBERRY_PI"
SmallerOf(a, b) == IF a < b THEN a ELSE b
LargerOf(a, b) == IF a > b THEN a ELSE b
SumOf(sizes) == FoldSeq(LAMBDA a, b : a + b, 0, sizes)

Part(type, size, mount) == [type |-> type, size |-> size, mount |-> mount, fs |-> "ext4"]

-----------------------------------------------------------------------------
(* Layouts.                                                                *)

Addressable(m, t) == IF t = "MBR" THEN SmallerOf(m.disk, MBR_MAX_SIZE) ELSE m.disk
UsableSize(m, t) == Addressable(m, t) - 4 * MIB
FixedSize(l) == SumOf([i \in DOMAIN l |-> l[i].size])
RemainingSize(m, t, l) == UsableSize(m, t) - FixedSize(l)

\* The partition that the firmware reads.
FirmwarePart(m, t, efi) ==
  IF RaspberryPi(m) THEN <<Part("FIRMWARE", 512 * MIB, <<"boot">>)>>
  ELSE IF Uefi(m) THEN <<Part("EFI", efi, <<"efi">>)>>
  ELSE IF m.arch \in X86 /\ t = "GPT" THEN <<Part("BIOS_BOOT", 1 * MIB, Unset)>> ELSE <<>>

DefaultImageLayout(m, t) == FirmwarePart(m, t, 512 * MIB) \o <<Part("LINUX", Rest, Root)>>

\* Fault: swap has the size of memory on disks of any size.
SwapOfMemory(m, available) ==
  IF m.memory = 0 THEN 2 * GIB ELSE SmallerOf(8 * GIB, LargerOf(1 * GIB, (m.memory \div GIB) * GIB))

Swap(m, available) ==
  LET swap == IF m.memory = 0 THEN 2 * GIB
              ELSE SmallerOf(8 * GIB, LargerOf(1 * GIB, ((m.memory + GIB \div 2) \div GIB) * GIB))
  IN IF available - swap >= 24 * GIB THEN swap
     ELSE IF available < 16 * GIB THEN 0 ELSE SmallerOf(swap, 2 * GIB)

DefaultLayout(m, t) ==
  LET boot == FirmwarePart(m, t, 1 * GIB)
                \o (IF RaspberryPi(m) THEN <<>> ELSE <<Part("LINUX", 1 * GIB, <<"boot">>)>>)
      available == Addressable(m, t) - FixedSize(boot) - 8 * MIB
      swap == Swap(m, available)
      parts == boot \o (IF swap = 0 THEN <<>> ELSE <<Part("SWAP", swap, Unset)>>)
      left == available - swap
      root == SmallerOf(256 * GIB, LargerOf(48 * GIB, (((left * 3) \div 10) \div GIB) * GIB))
  IN IF left >= 96 * GIB /\ (t = "MBR" => 4 - Len(parts) >= 2)
     THEN parts \o <<Part("LINUX", root, Root), Part("LINUX", Rest, <<"home">>)>>
     ELSE parts \o <<Part("LINUX", Rest, Root)>>

LayoutFor(m, t) == IF m.image THEN DefaultImageLayout(m, t) ELSE DefaultLayout(m, t)

Mounted(l) == {i \in DOMAIN l : l[i].type \in MountedTypes}
IsRoot(p) == p.type = "LINUX" /\ p.mount = Root

\* error() is None.
Accepted(m, t, l) ==
  LET efi == {i \in DOMAIN l : l[i].type = "EFI"} IN
  /\ l # <<>>
  /\ Cardinality({i \in DOMAIN l : IsRoot(l[i])}) = 1
  /\ \A i \in Mounted(l) : l[i].mount \notin {Unset, Invalid}
  /\ \A i, j \in Mounted(l) : l[i].mount = l[j].mount => i = j
  /\ \A i \in DOMAIN l : l[i].size = Rest => i = Len(l)
  /\ RemainingSize(m, t, l) >= (IF Last(l).size = Rest THEN 1 * GIB ELSE 0)
  /\ m.image => IsRoot(Last(l)) /\ Last(l).size = Rest /\ Last(l).fs = "ext4"
  /\ RaspberryPi(m) => \E i \in DOMAIN l : l[i].type = "FIRMWARE" /\ l[i].mount = <<"boot">>
  /\ Uefi(m) => efi # {}
  /\ Cardinality(efi) <= 1 /\ \A i \in efi : l[i].size = Rest \/ l[i].size >= 64 * MIB
  /\ t = "MBR" => Len(l) <= 4 /\ \A i \in DOMAIN l : l[i].type # "BIOS_BOOT"

\* Fault: the rest is left to sfdisk on MBR too.
ScriptSizesAsDefined(m, t, l) ==
  [i \in DOMAIN l |-> IF l[i].size = Rest THEN m.disk - 2 * MIB - FixedSize(l) ELSE l[i].size]

\* Sizes in sfdisk_script(), a rest that is not given ends with the disk.
ScriptSizes(m, t, l) == [i \in DOMAIN l |->
  IF l[i].size # Rest THEN l[i].size
  ELSE IF t = "MBR" /\ m.disk > MBR_MAX_SIZE THEN RemainingSize(m, t, l)
  ELSE m.disk - 2 * MIB - FixedSize(l)]

\* Fault: the slash of "/" is counted like that of "/boot".
DepthOfSlashes(p) == IF p.mount = Root THEN 1 ELSE Len(p.mount)

\* Key by which mount_script() sorts.
Depth(p) == Len(p.mount)

\* Partitions in the order they are mounted, a sort that is stable.
MountOrder(l) ==
  LET first(i, j) == Depth(l[i]) < Depth(l[j]) \/ (Depth(l[i]) = Depth(l[j]) /\ i < j)
  IN SetToSortSeq(Mounted(l), first)

-----------------------------------------------------------------------------
(* Bootloaders and kernels.                                                *)

Supported(b, m) ==
  CASE b = "NONE" -> TRUE
    [] b = "EFI_STUB" -> ~m.local /\ Uefi(m)
    [] b = "KBOOT" -> m.arch \in {"ppc64", "ppc64le"} /\ ~Uefi(m)
    [] b = "RASPBERRY_PI" -> m.arch \in RaspberryPiArchitectures /\ ~Uefi(m)
    [] b = "GRUB" -> Uefi(m) \/ m.arch \in X86
    [] OTHER -> Uefi(m)

Options(m) == {b \in Bootloaders : Supported(b, m)}
Found(c, m) == {b \in {"GRUB", "SYSTEMD_BOOT", "REFIND", "EFI_STUB"} : b \in c.bootloaders /\ Supported(b, m)}

DefaultBootloader(c, m) ==
  IF RaspberryPi(m) THEN "RASPBERRY_PI"
  ELSE IF Supported("KBOOT", m) THEN "KBOOT"
  ELSE LET order == <<"GRUB", "SYSTEMD_BOOT", "REFIND", "EFI_STUB">> IN
       IF Found(c, m) # {}
       THEN order[CHOOSE i \in 1 .. 4 : order[i] \in Found(c, m) /\ \A j \in 1 .. i - 1 : order[j] \notin Found(c, m)]
       ELSE IF Supported("GRUB", m) THEN "GRUB" ELSE "NONE"

KernelOptions(c, m) ==
  (IF c.kernel THEN <<"STAGE">> ELSE <<>>)
    \o (IF RaspberryPi(m) THEN <<"RASPBERRY_PI">> ELSE <<>>)
    \o <<"DISTRIBUTION_BINARY", "DISTRIBUTION">>
    \o (IF m.arch \in RaspberryPiArchitectures /\ ~RaspberryPi(m) THEN <<"RASPBERRY_PI">> ELSE <<>>)
    \o <<"NONE">>

GrubTargets == {"x86_64", "i686", "aarch64", "riscv64", "armv7l"}

\* bootloader_script() returns a script.
HasScript(b, m, l) ==
  \/ b \in {"NONE", "KBOOT", "RASPBERRY_PI"}
  \/ /\ Uefi(m) => \E i \in DOMAIN l : l[i].type = "EFI" /\ l[i].mount # Unset
     /\ b = "GRUB" => m.arch \in (IF Uefi(m) THEN GrubTargets ELSE X86)

\* _update_boot_options(): what the rows offer and show is set again.
ShowBoot(c, m) ==
  /\ bootloader' = DefaultBootloader(c, m)
  /\ kernel' = KernelOptions(c, m)[1]

-----------------------------------------------------------------------------
(* The pages.                                                              *)

Nothing == [bootloaders |-> {}, kernel |-> FALSE]

SuggestedTable(m, t) == IF RaspberryPi(m) THEN "MBR" ELSE t

Init ==
  /\ machine \in Machines
  /\ table = SuggestedTable(machine, "GPT")
  /\ selected = machine.image
  /\ layout = IF machine.image THEN LayoutFor(machine, table) ELSE <<>>
  /\ scanned = FALSE /\ contents = Nothing
  /\ bootloader = DefaultBootloader(Nothing, machine) /\ kernel = KernelOptions(Nothing, machine)[1]
  /\ edits = 0

Edit == edits < MaxEdits /\ edits' = edits + 1

\* A disk is selected, or its default layout is asked for again.
ResetLayout ==
  /\ selected' = TRUE /\ layout' = LayoutFor(machine, table)
  /\ UNCHANGED <<machine, table, bootVars, edits>>

TableChanged ==
  /\ Edit
  /\ table' = IF table = "GPT" THEN "MBR" ELSE "GPT"
  /\ layout' = IF selected THEN LayoutFor(machine, table') ELSE layout
  /\ UNCHANGED <<machine, selected, bootVars>>

\* Fault: the rows of the boot page are left as they are.
FirmwareChangedOnDisk ==
  /\ machine.local /\ Edit
  /\ \E f \in FirmwareOptions(machine.arch) : machine' = [machine EXCEPT !.firmware = f]
  /\ table' = SuggestedTable(machine', table)
  /\ layout' = IF selected THEN LayoutFor(machine', table') ELSE layout
  /\ UNCHANGED <<selected, bootVars>>

FirmwareChanged ==
  /\ machine.local /\ Edit
  /\ \E f \in FirmwareOptions(machine.arch) : machine' = [machine EXCEPT !.firmware = f]
  /\ table' = SuggestedTable(machine', table)
  /\ layout' = IF selected THEN LayoutFor(machine', table') ELSE layout
  /\ ShowBoot(contents, machine')
  /\ UNCHANGED <<selected, scanned, contents>>

LayoutEdited == selected /\ Edit /\ UNCHANGED <<machine, selected, table, bootVars>>

AddPartition ==
  /\ LayoutEdited
  /\ layout' = Append(layout, Part("LINUX",
       IF \E i \in DOMAIN layout : layout[i].size = Rest THEN 10 * GIB ELSE Rest, Unset))

MovePartition ==
  /\ LayoutEdited
  /\ \E i \in 1 .. Len(layout) - 1 :
       layout' = [layout EXCEPT ![i] = layout[i + 1], ![i + 1] = layout[i]]

RemovePartition == LayoutEdited /\ \E i \in DOMAIN layout : layout' = RemoveAt(layout, i)

\* The size that a row keeps when its partition gets another type: that of
\* the new one, or else what its switch and its spin button show.
ShownSize(p) == IF p.size = Rest THEN Rest ELSE LargerOf(102, p.size)

TypeEdited(p, type) ==
  [p EXCEPT !.type = type,
            !.size = CASE type = "EFI" -> 1 * GIB [] type = "FIRMWARE" -> 512 * MIB
                       [] type = "BIOS_BOOT" -> 1 * MIB [] OTHER -> ShownSize(p),
            !.mount = CASE type = "EFI" -> <<"efi">> [] type = "FIRMWARE" -> <<"boot">>
                        [] type = "LINUX" /\ p.mount = <<"efi">> -> Unset [] OTHER -> p.mount]

EditType ==
  /\ LayoutEdited
  /\ \E i \in DOMAIN layout, type \in Types :
       type # layout[i].type /\ layout' = [layout EXCEPT ![i] = TypeEdited(@, type)]

EditMount ==
  /\ LayoutEdited
  /\ \E i \in Mounted(layout), mount \in Mounts :
       layout' = [layout EXCEPT ![i].mount = mount, ![i].size = IF @ = Rest THEN Rest ELSE LargerOf(102, @)]

EditFilesystem ==
  /\ LayoutEdited
  /\ \E i \in DOMAIN layout : layout[i].type = "LINUX" /\ layout' = [layout EXCEPT ![i].fs = "btrfs"]

\* The switch of the remaining space is shown for LINUX and SWAP, the size
\* for all but BIOS_BOOT.
EditSize ==
  /\ LayoutEdited
  /\ \E i \in DOMAIN layout, size \in Sizes \cup {Rest} :
       /\ layout[i].type # "BIOS_BOOT" /\ (size = Rest => layout[i].type \in {"LINUX", "SWAP"})
       /\ layout' = [layout EXCEPT ![i].size = size]

ScanDone ==
  /\ ~scanned /\ scanned' = TRUE
  /\ contents' \in Scans
  /\ ShowBoot(contents', machine)
  /\ UNCHANGED <<machine, selected, table, layout, edits>>

SelectBootloader ==
  /\ Edit /\ bootloader' \in Options(machine)
  /\ UNCHANGED <<machine, selected, table, layout, scanned, contents, kernel>>

SelectKernel ==
  /\ Edit /\ \E i \in DOMAIN KernelOptions(contents, machine) : kernel' = KernelOptions(contents, machine)[i]
  /\ UNCHANGED <<machine, selected, table, layout, scanned, contents, bootloader>>

Next ==
  \/ ResetLayout \/ TableChanged \/ FirmwareChanged
  \/ AddPartition \/ MovePartition \/ RemovePartition
  \/ EditType \/ EditMount \/ EditFilesystem \/ EditSize
  \/ ScanDone \/ SelectBootloader \/ SelectKernel

Spec == Init /\ [][Next]_vars

-----------------------------------------------------------------------------
(* Properties.                                                             *)

TypeOK ==
  /\ table \in {"GPT", "MBR"} /\ {selected, scanned} \subseteq BOOLEAN
  /\ \A i \in DOMAIN layout : layout[i].type \in Types /\ layout[i].size \in Nat
  /\ bootloader \in Bootloaders /\ edits \in 0 .. MaxEdits

Plan == selected /\ Accepted(machine, table, layout)

\* A plan the wizard accepts can be written to the disk: partitions end
\* before the end of the table and of what MBR can address.
PartitionsFit == Plan =>
  LET sizes == ScriptSizes(machine, table, layout) IN
  /\ \A i \in DOMAIN sizes : sizes[i] >= 1 * MIB
  /\ 1 * MIB + SumOf(sizes) <= Addressable(machine, table) - 1 * MIB

\* A filesystem is mounted after the one that has its mount point, so that
\* nothing is installed below a mount.
ParentsMountedFirst == Plan =>
  LET order == MountOrder(layout) IN
  \A i, j \in DOMAIN order :
    IsStrictPrefix(layout[order[i]].mount, layout[order[j]].mount) => i < j

\* The layout the wizard suggests is accepted on every disk that has room for
\* the boot partitions and 1 GiB of root, with every table and firmware.
DefaultAccepted ==
  LET l == LayoutFor(machine, table)
      boots == SumOf([i \in DOMAIN l |-> IF l[i].type = "SWAP" \/ l[i].mount = Root THEN 0 ELSE l[i].size])
  IN UsableSize(machine, table) - boots >= 1 * GIB => Accepted(machine, table, l)

\* What the boot page shows can be installed on the machine as it is chosen
\* now: the selection is one of its options, and an accepted plan has what
\* the script of the bootloader needs.
BootloaderInstalls ==
  /\ bootloader \in Options(machine)
  /\ Plan => HasScript(bootloader, machine, layout)

\* A plan that the wizard accepts can be installed, and the one it suggests
\* is accepted.
PlansInstall == TypeOK /\ PartitionsFit /\ ParentsMountedFirst /\ DefaultAccepted /\ BootloaderInstalls
=============================================================================
