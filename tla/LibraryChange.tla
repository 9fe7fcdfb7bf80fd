---------------------------- MODULE LibraryChange ----------------------------
(***************************************************************************)
(* Changing the Library, the folder with the app's data: it is moved,      *)
(* copied, made anew or another one is used, the place is stored in the    *)
(* preferences, and the app starts again.  Paths of the Library in its own *)
(* metadata are rewritten.                                                 *)
(***************************************************************************)
EXTENDS Integers

CONSTANTS
  SameDevice,  \* whether the folder that is chosen may be on the device of the Library
  ChangeFaults \* "meanwhile": see README.md

\* The Library in use at first, the folder that is chosen or the one made in
\* it, and the default one.
Folders == {"old", "new", "default"}
\* "partial": it is being written or removed; "other": files that aren't a
\* Library
Contents == {"none", "empty", "hidden", "other", "partial", "fresh", "whole"}
Changes == {"move", "copy", "new", "switch"}

VARIABLES
  content,    \* of each folder; "whole" is the data of the user, "fresh" an empty Library
  points,     \* the folder that paths in its metadata are in, or "mixed"
  stored,     \* library_location of the preferences file
  location,   \* of the settings in memory
  current,    \* library_directory() of the running app
  device,     \* _same_device()
  busy,       \* items_using_library()
  nested,     \* the folder that is chosen is in the Library, or contains it
  phase,      \* of the settings page and the thread
  change,     \* LibraryChange, "none"
  made,       \* _copy_library() has made the folder
  behind,     \* the Library has changed since it was copied
  changeFault

place == <<stored, location, current>>
vars == <<content, points, place, device, busy, nested, phase, change, made, behind, changeFault>>

ChangeAssumption == SameDevice \subseteq BOOLEAN

is_library(f) == content[f] \in {"fresh", "whole"}
is_empty_folder(f) == content[f] \in {"none", "empty", "hidden"}

Init ==
  /\ \E new \in {"none", "empty", "hidden", "other", "whole"} :
       content = [f \in Folders |-> IF f = "old" THEN "whole" ELSE IF f = "new" THEN new ELSE "none"]
  /\ points = [f \in Folders |-> f]
  /\ stored = "old" /\ location = "old" /\ current = "old"
  /\ device \in SameDevice /\ busy \in BOOLEAN /\ nested \in BOOLEAN
  /\ phase = "idle" /\ change = "none" /\ made = FALSE /\ behind = FALSE
  /\ changeFault \in ChangeFaults \cup {"none"}

To(p) == phase' = p
Same == UNCHANGED <<device, nested, changeFault>>

(***************************************************************************)
(* The settings page                                                       *)
(***************************************************************************)
\* An operation starts or ends.  None is started while the Library changes;
\* the dialog of it can't be closed.
Open == phase \in {"idle", "folder", "dialog"}
Use ==
  /\ Open \/ (changeFault = "meanwhile" /\ phase \in {"rewrite", "remove", "store"})
  /\ busy' = ~busy /\ behind' = (behind \/ ~Open) /\ Same /\ UNCHANGED <<content, points, place, phase, change, made>>

ChangeClicked ==
  /\ phase = "idle" /\ ~busy /\ To("folder") /\ Same
  /\ UNCHANGED <<content, points, place, busy, change, made, behind>>
\* library_target(): the folder is used when it is a Library or empty, else a
\* folder in it; a folder in the Library or around it isn't used.
TargetExists == is_library("new")
TargetOK == TargetExists \/ (is_empty_folder("new") /\ ~nested)
FolderSelected ==
  /\ phase = "folder" /\ To(IF TargetOK THEN "dialog" ELSE "idle") /\ Same
  /\ UNCHANGED <<content, points, place, busy, change, made, behind>>
\* The other change_problem()s are answered with a message.
Confirmed ==
  /\ phase = "dialog" /\ Same /\ UNCHANGED <<content, points, place, busy, made, behind>>
  /\ \/ To("idle") /\ UNCHANGED change
     \/ ~busy /\ To("begin") /\ change' \in IF TargetExists THEN {"switch"} ELSE {"new", "copy", "move"}

(***************************************************************************)
(* change_library(), in a thread                                           *)
(***************************************************************************)
Put(f, c) == content' = [content EXCEPT ![f] = c]
Thread(p) == phase = p /\ Same /\ UNCHANGED <<busy, change, behind>>
Raise == To("failed")

\* create_library() makes the folders that are missing.
Create ==
  /\ Thread("begin") /\ change \in {"new", "switch"} /\ UNCHANGED <<points, place, made>>
  /\ \/ Put("new", IF change = "new" THEN "fresh" ELSE content["new"]) /\ To("store")
     \/ Put("new", IF change = "new" THEN "partial" ELSE content["new"]) /\ Raise
Rename ==
  /\ Thread("begin") /\ change = "move" /\ device /\ UNCHANGED <<place, made>>
  /\ \/ /\ content' = [content EXCEPT !["new"] = content["old"], !["old"] = "none"]
        /\ points' = [points EXCEPT !["new"] = points["old"]] /\ To("rewrite")
     \/ content' \in {content, [content EXCEPT !["new"] = "none"]} /\ Raise /\ UNCHANGED points
BeginCopy ==
  /\ Thread("begin") /\ (change = "copy" \/ (change = "move" /\ ~device))
  /\ made' = (content["new"] = "none") /\ Put("new", "partial") /\ To("copy") /\ UNCHANGED <<points, place>>
\* A folder that was there before is emptied.
EndCopy ==
  /\ Thread("copy") /\ UNCHANGED <<place, made>>
  /\ \/ Put("new", "whole") /\ points' = [points EXCEPT !["new"] = points["old"]] /\ To("rewrite")
     \/ Put("new", IF made THEN "none" ELSE "empty") /\ Raise /\ UNCHANGED points
\* Fault: the paths are left as they were.
RewriteNothing ==
  /\ Thread("rewrite") /\ To(IF change = "move" /\ ~device THEN "remove" ELSE "store")
  /\ UNCHANGED <<content, points, place, made>>
Rewrite ==
  /\ Thread("rewrite") /\ UNCHANGED <<content, place, made>>
  /\ \/ /\ points' = [points EXCEPT !["new"] = "new"]
        /\ To(IF change = "move" /\ ~device THEN "remove" ELSE "store")
     \/ points' = [points EXCEPT !["new"] = "mixed"] /\ Raise
\* Files that can't be removed are reported.
RemoveOld ==
  /\ Thread("remove") /\ \E c \in {"none", "partial"} : Put("old", c)
  /\ To("store") /\ UNCHANGED <<points, place, made>>
\* The settings have the new place before they are written.
Store ==
  /\ Thread("store") /\ UNCHANGED <<content, points, made>>
  /\ location' = "new"
  /\ \/ stored' = "new" /\ current' = "new" /\ To("restart")
     \/ UNCHANGED <<stored, current>> /\ Raise

\* The message says that the current library is still used.
Failed ==
  /\ Thread("failed") /\ UNCHANGED <<content, points, place, made>>
  /\ To("told")
\* Any other setting is changed, and all of them are written.
SettingChanged ==
  /\ phase \in {"idle", "told"} /\ stored' = location
  /\ Same /\ UNCHANGED <<content, points, location, current, busy, phase, change, made, behind>>

(***************************************************************************)
(* Start and end of the app                                                *)
(***************************************************************************)
Loads(place_) ==
  /\ stored' = place_ /\ location' = place_ /\ current' = place_ /\ busy' = FALSE /\ To("started")
  /\ Same /\ UNCHANGED <<content, points, change, made, behind>>
Restart == phase = "restart" /\ Loads(stored)
\* The default place is used when the preferences were being written.
Crash ==
  /\ phase \notin {"restart", "started"}
  /\ Loads(stored) \/ (phase = "store" /\ Loads("default"))

Next ==
  \/ Use \/ ChangeClicked \/ FolderSelected \/ Confirmed
  \/ Create \/ Rename \/ BeginCopy \/ EndCopy \/ Rewrite \/ RemoveOld \/ Store \/ Failed \/ SettingChanged
  \/ Restart \/ Crash
Spec == Init /\ [][Next]_vars

(***************************************************************************)
(* Properties                                                              *)
(***************************************************************************)
TypeOK ==
  /\ content \in [Folders -> Contents] /\ points \in [Folders -> Folders \cup {"mixed"}]
  /\ {stored, location, current} \subseteq Folders /\ change \in Changes \cup {"none"}
  /\ phase \in {"idle", "folder", "dialog", "begin", "copy", "rewrite", "remove", "store", "restart", "failed", "told", "started"}

\* The data is whole in one of the folders at any moment, whatever fails.
DataKept == \E f \in {"old", "new"} : content[f] = "whole" /\ (f = "new" => ~behind)

\* The current Library has been renamed, or removed, by a move.
MovedAway == change = "move" /\ content["old"] # "whole" /\ content["new"] = "whole"

\* The app starts with a Library that is there, whose paths are in itself.  It
\* starts without one, the data waiting in the folder that was chosen, only
\* when a move did not get to storing the place; and with the default one when
\* it ended while the preferences were written.
StartsWhole ==
  phase = "started" =>
    \/ is_library(current) /\ points[current] = current
    \/ current = "old" /\ MovedAway
    \/ current = "default" /\ change # "none"

\* A failure leaves the current Library as it is, in use, unless a move has
\* already taken it away: library.py:97 says so of every failure.  The settings
\* in memory, which any other change of them stores, have the new place only
\* when that is a Library with its own paths.
FailureKeepsCurrent ==
  phase \in {"failed", "told"} =>
    /\ current = "old" /\ ((content["old"] = "whole" /\ points["old"] = "old") \/ MovedAway)
    /\ location = "old" \/ (location = "new" /\ is_library("new") /\ points["new"] = "new")
=============================================================================
