----------------------------- MODULE LibraryPage -----------------------------
(***************************************************************************)
(* The Library page of the app: it scans the folders of the Library in a   *)
(* thread, lists the objects it recognizes, and deletes one after a        *)
(* dialog, unless a running operation or virtual machine uses it.          *)
(***************************************************************************)
EXTENDS Integers, FiniteSets

CONSTANTS
  Objects,   \* the objects of the Library that are looked at
  Kinds,     \* the operations that may run
  MaxOps,    \* of them, a bound for model checking
  Faults,    \* "meanwhile", "shared": see README.md
  MaxAnswers \* dialogs that are opened, a bound for model checking

Ops == 1 .. MaxOps
\* One project with its packages folder and two builds of it, the second made
\* by a build that runs; the others are of the caches.  "other" is the build of
\* another project, that may use the same packages.
AllObjects == {"project", "seed", "build", "packages", "snapshot", "extracted snapshot", "extracted toolset", "distfiles",
               "archive", "squashfs", "image", "kernel", "project cache", "package cache"}
AllKinds == {"build", "other", "toolset", "toolset update", "preparation", "machine", "deploy", "iso", "git", "spawned"}
NoOp == [kind |-> "none", at |-> "none"]

PageAssumption == Objects \subseteq AllObjects /\ Kinds \subseteq AllKinds /\ MaxOps \in Nat /\ MaxAnswers \in Nat

VARIABLES
  lib,       \* of each object: "none", "making" (it isn't recognized yet), "present"
  ops,       \* operations
  shared,    \* another project uses the packages folder
  realized,  \* _observing_safety_events
  event,     \* a callback for one of the observed events is queued
  scanning,  \* _scanning
  result,    \* what the thread found: <<>>, or <<objects>>
  shown,     \* objects of _delete_buttons
  enabled,   \* those whose button is sensitive
  dialog,    \* of which object, what it offers, and whether the answer was checked
  fault,
  answers,
  deleted,   \* objects the page deleted that weren't made again
  lost       \* <<kind, object>>, of objects deleted while an operation held them

page == <<realized, event, scanning, result, shown, enabled>>
history == <<deleted, lost>>
vars == <<lib, ops, shared, page, dialog, fault, answers, history>>

NoDialog == [object |-> "none", packages |-> FALSE, builds |-> FALSE, checked |-> FALSE]
Builds == {"seed", "build"}
Running(o) == ops[o].at \in {"begun", "going"}
Going(o) == ops[o].at = "going"
Is(o, kinds) == Running(o) /\ ops[o].kind \in kinds

(***************************************************************************)
(* What operations hold, and what their attributes tell                    *)
(***************************************************************************)
WithProject == {"build", "preparation", "iso"}
\* An operation that holds an object reads it or writes it.
Holds(o) ==
  CASE Is(o, {"build"}) -> {"project", "seed", "packages", "extracted toolset", "distfiles", "project cache", "package cache"}
                           \cup (IF Going(o) THEN {"build", "snapshot", "extracted snapshot"} ELSE {})
    [] Is(o, {"other"}) -> {"packages", "package cache", "distfiles"}
    [] Is(o, {"toolset"}) -> {"archive", "distfiles"} \cup (IF Going(o) THEN {"squashfs"} ELSE {})
    [] Is(o, {"toolset update"}) -> {"extracted toolset", "distfiles"}
    [] Is(o, {"preparation"}) -> {"project", "seed", "packages", "snapshot", "extracted snapshot", "extracted toolset",
                                  "distfiles", "image", "kernel", "package cache"}
    [] Is(o, {"machine"}) -> {"project", "seed", "image", "kernel"}
    [] Is(o, {"deploy"}) -> {"seed"}
    [] Is(o, {"iso"}) -> {"project", "seed"}
    [] Is(o, {"git"}) -> {"project"}
    [] Is(o, {"spawned"}) -> {"extracted toolset"}
    [] OTHER -> {}

\* The parent's build a stage starts from is not an attribute of the build, an
\* update of a Git directory has no project, nor has a deployment.
Unprotected == {<<"build", "seed">>, <<"git", "project">>, <<"deploy", "seed">>}

\* _item_use_reason() of a process, section by section
ProjectReason(o) == Is(o, WithProject \cup {"machine"})
BuildReason(o, i) == \/ i = "build" /\ Is(o, {"build"})
                     \/ i = "seed" /\ Is(o, {"preparation", "iso", "machine"})
PackagesReason(o) == Is(o, WithProject \cup {"other"})
\* The build has its snapshot when it was fetched.
SnapshotReason(o) == Is(o, {"preparation"}) \/ (Is(o, {"build"}) /\ Going(o))
ToolsetReason(o) == Is(o, {"build", "toolset update", "preparation", "spawned"})
DistfilesReason(o) == Is(o, {"build", "other", "toolset", "toolset update", "preparation"})
ArchiveReason(o) == Is(o, {"toolset"})
SquashfsReason(o) == Is(o, {"toolset"}) /\ Going(o)
MachineReason(o) == Is(o, {"preparation", "machine"})
Reason(o, i) ==
  CASE i = "project" -> ProjectReason(o)
    [] i \in Builds -> BuildReason(o, i)
    [] i \in {"packages", "package cache"} -> PackagesReason(o)
    [] i = "project cache" -> Is(o, WithProject)
    [] i \in {"snapshot", "extracted snapshot"} -> SnapshotReason(o)
    [] i = "extracted toolset" -> ToolsetReason(o)
    [] i = "distfiles" -> DistfilesReason(o)
    [] i = "archive" -> ArchiveReason(o)
    [] i = "squashfs" -> SquashfsReason(o)
    [] OTHER -> MachineReason(o)
item_use_reason(i) == \E o \in Ops : Reason(o, i)

(***************************************************************************)
(* The operations                                                          *)
(***************************************************************************)
\* What an operation makes; an image and a kernel are recognized when done.
Makes(kind) ==
  CASE kind = "build" -> {"build", "project cache", "package cache", "distfiles"}
    [] kind = "toolset" -> {"archive", "squashfs"}
    [] kind = "preparation" -> {"image", "kernel"}
    [] OTHER -> {}
\* What must be there when it begins
Needs(kind) ==
  CASE kind = "build" -> {"project", "snapshot"}
    [] kind = "preparation" -> {"project", "seed", "snapshot"}
    [] kind = "machine" -> {"project", "seed", "image", "kernel"}
    [] kind \in {"deploy", "iso"} -> {"seed"}
    [] kind = "git" -> {"project"}
    [] OTHER -> {}

Init ==
  /\ lib = [i \in Objects |-> IF i \in {"build", "image", "kernel", "squashfs"} THEN "none" ELSE "present"]
  /\ ops = [o \in Ops |-> NoOp] /\ shared \in BOOLEAN
  /\ realized = TRUE /\ event = FALSE /\ scanning = TRUE /\ result = <<>> /\ shown = {} /\ enabled = {}
  /\ dialog = NoDialog /\ fault \in Faults \cup {"none"} /\ answers = 0 /\ deleted = {} /\ lost = {}

Begin(o) ==
  /\ ops[o].at = "none" /\ \A j \in 1 .. o - 1 : ops[j].at # "none"
  /\ \E kind \in Kinds :
       /\ \A i \in Needs(kind) \cap Objects : lib[i] = "present"
       /\ kind = "other" => shared
       /\ ops' = [ops EXCEPT ![o] = [kind |-> kind, at |-> "begun"]]
  /\ event' = realized
  /\ UNCHANGED <<lib, shared, realized, scanning, result, shown, enabled, dialog, fault, answers, history>>
\* Its attributes change without an event; the thread of an operation may run
\* between a test of the page and what follows it.
Advance(o) ==
  /\ ops[o].at = "begun" /\ (dialog.checked => fault = "meanwhile")
  /\ ops' = [ops EXCEPT ![o].at = "going"]
  /\ LET made == Makes(ops[o].kind) \cap Objects
     IN  /\ lib' = [i \in Objects |-> IF i \in made /\ lib[i] = "none" THEN "making" ELSE lib[i]]
         /\ deleted' = deleted \ made
  /\ UNCHANGED <<shared, page, dialog, fault, answers, lost>>
End(o) ==
  /\ Running(o)
  /\ ops' = [ops EXCEPT ![o].at = "ended"] /\ event' = realized
  /\ \E done \in BOOLEAN :
       /\ done => Going(o)
       /\ lib' = [i \in Objects |-> IF i \in Makes(ops[o].kind) /\ lib[i] = "making"
                                    THEN (IF done THEN "present" ELSE "none") ELSE lib[i]]
  /\ UNCHANGED <<shared, realized, scanning, result, shown, enabled, dialog, fault, answers, history>>

(***************************************************************************)
(* The page                                                                *)
(***************************************************************************)
\* What is in the folders of the Library, section by section
Recognized(S) == {i \in S \cap Objects : lib[i] = "present"}
cache_items == Recognized({"extracted snapshot", "extracted toolset", "distfiles", "archive", "squashfs", "image", "kernel",
                           "project cache", "package cache"})
binpkg_items == Recognized({"packages"})
snapshot_items == Recognized({"snapshot"})
project_items == Recognized({"project"})
build_items == Recognized(Builds)
\* scan_library_storage() in its thread
Scan ==
  /\ scanning /\ result = <<>>
  /\ result' = <<cache_items \cup binpkg_items \cup snapshot_items \cup project_items \cup build_items>>
  /\ UNCHANGED <<lib, ops, shared, realized, event, scanning, shown, enabled, dialog, fault, answers, history>>

Free(S) == {i \in S : ~item_use_reason(i)}
ShowSnapshot ==
  /\ result # <<>> /\ result' = <<>> /\ scanning' = FALSE
  /\ shown' = result[1] /\ enabled' = Free(result[1])
  /\ UNCHANGED <<lib, ops, shared, realized, event, dialog, fault, answers, history>>

refresh_safety == enabled' = IF scanning THEN {} ELSE Free(shown)
DeliverEvent ==
  /\ event /\ event' = FALSE /\ refresh_safety
  /\ UNCHANGED <<lib, ops, shared, realized, scanning, result, shown, dialog, fault, answers, history>>
Realize ==
  /\ ~realized /\ realized' = TRUE /\ refresh_safety
  /\ UNCHANGED <<lib, ops, shared, event, scanning, result, shown, dialog, fault, answers, history>>
Unrealize ==
  /\ realized /\ dialog = NoDialog /\ realized' = FALSE /\ event' = FALSE
  /\ UNCHANGED <<lib, ops, shared, scanning, result, shown, enabled, dialog, fault, answers, history>>

refresh == IF scanning THEN UNCHANGED <<scanning, result, enabled>>
           ELSE scanning' = TRUE /\ enabled' = {} /\ result' = <<>>

\* A pressed button tests again, and opens the dialog; the project's offers
\* its builds, and the packages folder that no other project uses.
ConfirmDelete(i) ==
  /\ realized /\ i \in enabled /\ dialog = NoDialog /\ answers < MaxAnswers
  /\ refresh_safety /\ UNCHANGED <<lib, ops, shared, realized, event, scanning, result, shown, fault, history>>
  /\ IF item_use_reason(i) THEN UNCHANGED <<dialog, answers>>
     ELSE /\ answers' = answers + 1
          /\ \E packages \in IF i = "project" /\ ~shared THEN BOOLEAN ELSE {FALSE},
                builds \in IF i = "project" THEN BOOLEAN ELSE {FALSE} :
               dialog' = [object |-> i, packages |-> packages, builds |-> builds, checked |-> FALSE]
\* The project may have been removed since it was listed.
ConfirmUnknown ==
  /\ realized /\ "project" \in enabled /\ dialog = NoDialog /\ lib["project"] = "none" /\ ~item_use_reason("project")
  /\ refresh
  /\ UNCHANGED <<lib, ops, shared, realized, event, shown, dialog, fault, answers, history>>
Cancel ==
  /\ dialog # NoDialog /\ ~dialog.checked /\ dialog' = NoDialog
  /\ UNCHANGED <<lib, ops, shared, page, fault, answers, history>>
\* The answer tests once more.
Answer ==
  /\ dialog # NoDialog /\ ~dialog.checked
  /\ refresh_safety
  /\ dialog' = IF item_use_reason(dialog.object) THEN NoDialog ELSE [dialog EXCEPT !.checked = TRUE]
  /\ UNCHANGED <<lib, ops, shared, realized, event, scanning, result, shown, fault, answers, history>>

\* Of a project: its packages, then its builds and caches, then itself; what
\* fails leaves the rest.
Removals ==
  LET packages == IF dialog.packages THEN {"packages"} ELSE {}
      builds == IF dialog.builds THEN {"seed", "build", "project cache"} ELSE {}
  IN  IF dialog.object # "project" THEN {{dialog.object}, {}}
      ELSE {packages \cup builds \cup {"project"}, packages \cup builds, packages, {}}
RemoveItem ==
  /\ dialog.checked /\ dialog' = NoDialog /\ refresh
  /\ \E all \in Removals :
       LET gone == all \cap Objects
       IN  /\ lib' = [i \in Objects |-> IF i \in gone THEN "none" ELSE lib[i]]
           /\ deleted' = deleted \cup gone
           /\ lost' = lost \cup {h \in Kinds \X gone : \E o \in Ops : ops[o].kind = h[1] /\ h[2] \in Holds(o)}
  /\ UNCHANGED <<ops, shared, realized, event, shown, fault, answers>>

\* Another view deletes a build or a project; a project that is installed
\* takes the packages folder.
RemoveElsewhere ==
  /\ \E i \in {"seed", "project"} \cap Objects :
       /\ lib[i] = "present" /\ \A o \in Ops : i \notin Holds(o)
       /\ lib' = [lib EXCEPT ![i] = "none"]
  /\ UNCHANGED <<ops, shared, page, dialog, fault, answers, history>>
Share ==
  /\ ~shared /\ shared' = TRUE /\ (dialog # NoDialog => fault = "shared")
  /\ UNCHANGED <<lib, ops, page, dialog, fault, answers, history>>

\* The test of an answer and the removal are one callback of the main thread.
Next ==
  \/ (\E o \in Ops : Advance(o)) \/ Scan \/ RemoveItem
  \/ /\ ~dialog.checked
     /\ \/ \E o \in Ops : Begin(o) \/ End(o)
        \/ ShowSnapshot \/ DeliverEvent \/ Realize \/ Unrealize
        \/ (\E i \in Objects : ConfirmDelete(i)) \/ ConfirmUnknown \/ Cancel \/ Answer
        \/ RemoveElsewhere \/ Share
Spec == Init /\ [][Next]_vars

(***************************************************************************)
(* Properties                                                              *)
(***************************************************************************)
TypeOK ==
  /\ lib \in [Objects -> {"none", "making", "present"}]
  /\ ops \in [Ops -> [kind : Kinds \cup {"none"}, at : {"none", "begun", "going", "ended"}]]
  /\ shown \subseteq Objects /\ enabled \subseteq shown /\ deleted \subseteq Objects

\* Whatever happened since the page was scanned and the dialog opened, nothing
\* is deleted that a running operation holds, but what _item_use_reason()
\* can't see.
NothingInUseRemoved == lost \subseteq Unprotected

\* A page that was told of all changes lets everything be deleted when nothing
\* runs, and of what is used only what a process got without telling.
ButtonsSettle ==
  /\ scanning => enabled = {}
  /\ realized /\ ~event /\ ~scanning =>
       /\ (\A o \in Ops : ~Running(o)) => enabled = shown
       /\ \A i \in enabled : item_use_reason(i) => \E o \in Ops : Reason(o, i) /\ Going(o)

\* What the page deleted isn't listed again by the scan it starts.
RemovedNotShown == ~scanning /\ dialog = NoDialog => shown \cap deleted = {}
=============================================================================
