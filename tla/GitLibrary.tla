------------------------------ MODULE GitLibrary ------------------------------
(***************************************************************************)
(* The Git directories of the library: their files, their records in the   *)
(* app and the metadata kept with the files; installations that create     *)
(* them, renaming, deletion (with the binary packages of a project), and   *)
(* the scan at the app's start, which repairs what a crash has left        *)
(* (git_manager.py, git_installation.py, packages_directory.py).           *)
(***************************************************************************)
EXTENDS Integers, FiniteSets

CONSTANTS
  Names,        \* names of directories
  Faults,       \* what may go wrong: "cancel", "crash while renaming", "late answer"
  MaxInstalls,  \* installations, a bound for model checking
  MaxCrashes    \* restarts of the app, a bound for model checking

LibraryAssumption ==
  Faults \subseteq {"cancel", "crash while renaming", "late answer"} /\ MaxInstalls \in Nat /\ MaxCrashes \in Nat

Installs == 1..MaxInstalls
NoFiles == [git |-> FALSE, whole |-> FALSE, id |-> 0, name |-> "", packages |-> 0, by |-> 0]
Idle == [name |-> "", at |-> "none", started |-> FALSE, id |-> 0, packages |-> 0]
NoDialog == [id |-> 0, packages |-> 0]

VARIABLES
  files,      \* directories by name; absent names are not in its domain
  records,    \* the app's collection: id, name and packages folder
  packages,   \* binary packages folders there are
  installs,   \* GitInstallation processes
  renaming,   \* id of the directory moved but not saved, with its new name
  dialog,     \* the dialog asking about a deletion: id, and packages to delete
  ids,        \* ids given so far
  crashes, fault,
  installed   \* ids of completed installations not deleted by the user

app == <<records, renaming, dialog, installed>>
bounds == <<ids, crashes, fault>>
vars == <<files, packages, installs, app, bounds>>

Exists(n) == n \in DOMAIN files
Without(n) == [m \in DOMAIN files \ {n} |-> files[m]]
Put(fs, n, f) == [m \in DOMAIN fs \cup {n} |-> IF m = n THEN f ELSE fs[m]]
RecordOf(id) == CHOOSE r \in records : r.id = id
\* save_all(): metadata of every record that has a directory
Saved(fs, rs) ==
  [n \in DOMAIN fs |->
     IF \E r \in rs : r.name = n
     THEN LET r == CHOOSE x \in rs : x.name = n IN [fs[n] EXCEPT !.id = r.id, !.name = n, !.packages = r.packages]
     ELSE fs[n]]

Init ==
  /\ files = [n \in {} |-> NoFiles] /\ records = {} /\ packages = {}
  /\ installs = [i \in Installs |-> Idle] /\ renaming = [id |-> 0, name |-> ""] /\ dialog = NoDialog
  /\ ids = 0 /\ crashes = 0 /\ fault \in Faults \cup {"none"} /\ installed = {}

(***************************************************************************)
(* Installation                                                            *)
(***************************************************************************)
At(i, at) == installs[i].at = at
To(i, at) == installs' = [installs EXCEPT ![i].at = at]
NotRenaming == renaming.id = 0

\* The wizard accepts a name that is free, and a packages folder there is.
Begin(i, n, p) ==
  /\ NotRenaming /\ dialog.id = 0
  /\ At(i, "none") /\ \A j \in 1..i - 1 : ~At(j, "none")
  /\ ~Exists(n)
  /\ installs' = [installs EXCEPT ![i] = [name |-> n, at |-> "test", started |-> FALSE, id |-> ids + 1, packages |-> p]]
  /\ ids' = ids + 1 /\ UNCHANGED <<files, packages, app, crashes, fault>>

\* Fault: what the name stands for is not looked at again.
CreateAnyway(i) ==
  /\ At(i, "test") /\ \A j \in Installs : installs[j].name = installs[i].name => installs[j].at # "create"
  /\ installs' = [installs EXCEPT ![i].at = "create", ![i].started = TRUE]
  /\ UNCHANGED <<files, packages, app, bounds>>
\* create_directory(): an existing directory is somebody else's. Two
\* installations of one name are not both between this test and the creation.
Alone(i) == \A j \in Installs : installs[j].name = installs[i].name => installs[j].at # "create"
CreateDirectory(i) ==
  /\ At(i, "test") /\ Alone(i)
  /\ IF Exists(installs[i].name) THEN To(i, "failed")
     ELSE installs' = [installs EXCEPT ![i].at = "create", ![i].started = TRUE]
  /\ UNCHANGED <<files, packages, app, bounds>>

\* A clone has .git from its beginning, a copied or new directory may not.
CreateFiles(i, git) ==
  /\ At(i, "create")
  /\ IF Exists(installs[i].name) THEN To(i, "failed") /\ UNCHANGED files
     ELSE /\ files' = Put(files, installs[i].name, [NoFiles EXCEPT !.git = git, !.by = i])
          /\ To(i, "fill")
  /\ UNCHANGED <<packages, app, bounds>>
\* Clone, copy or initialize ends; SetupRepository makes it a repository.
Fill(i) ==
  /\ At(i, "fill")
  /\ \/ /\ To(i, "setup") /\ files' = [files EXCEPT ![installs[i].name].whole = TRUE]
     \/ To(i, "failed") /\ UNCHANGED files
  /\ UNCHANGED <<packages, app, bounds>>
SetupRepository(i) ==
  /\ At(i, "setup")
  /\ \/ /\ To(i, "config") /\ files' = [files EXCEPT ![installs[i].name].git = TRUE]
     \/ To(i, "failed") /\ UNCHANGED files
  /\ UNCHANGED <<packages, app, bounds>>

\* ProjectInstallationStepSaveConfig: metadata of a project is there before
\* the project is in the collection.
SaveConfig(i) ==
  /\ At(i, "config") /\ To(i, "done")
  /\ files' = [files EXCEPT ![installs[i].name].id = installs[i].id, ![installs[i].name].name = installs[i].name]
  /\ UNCHANGED <<packages, app, bounds>>

\* ProjectInstallation.complete_process(): the packages folder selected, or a
\* new one; add_directory() saves the collection.
CompleteProcess(i) ==
  /\ At(i, "done") /\ NotRenaming /\ To(i, "end")
  /\ LET id == installs[i].id
         new == installs[i].packages = 0
         record == [id |-> id, name |-> installs[i].name, packages |-> IF new THEN id ELSE installs[i].packages] IN
     /\ records' = records \cup {record} /\ files' = Saved(files, records')
     /\ packages' = IF new THEN packages \cup {id} ELSE packages
     /\ installed' = installed \cup {id}
  /\ UNCHANGED <<renaming, dialog, bounds>>

\* Fault: a failed installation leaves what it has made.
CleanupNothing(i) == At(i, "failed") /\ To(i, "end") /\ UNCHANGED <<files, packages, app, bounds>>
\* _remove_partial_directory(): only what this installation began to create
Cleanup(i) ==
  /\ At(i, "failed") /\ To(i, "end")
  /\ files' = IF installs[i].started /\ Exists(installs[i].name) THEN Without(installs[i].name) ELSE files
  /\ UNCHANGED <<packages, app, bounds>>

\* The process is canceled: it cleans up at once, git goes on and may leave
\* its directory again.
Cancel(i) ==
  /\ fault = "cancel" /\ installs[i].at \in {"create", "fill"}
  /\ files' \in (LET n == installs[i].name
                     cleaned == IF installs[i].started /\ Exists(n) THEN Without(n) ELSE files IN
                 {cleaned, Put(cleaned, n, [NoFiles EXCEPT !.git = TRUE, !.by = i])})
  /\ To(i, "end") /\ UNCHANGED <<packages, app, bounds>>

(***************************************************************************)
(* Renaming and deleting                                                   *)
(***************************************************************************)
\* rename_directory(): the files are moved, then the record is saved
Move(r, n) ==
  /\ NotRenaming /\ dialog.id = 0 /\ r \in records /\ Exists(r.name) /\ ~Exists(n)
  /\ \A j \in Installs : installs[j].name = n => installs[j].at \in {"none", "end"}
  /\ files' = [m \in (DOMAIN files \ {r.name}) \cup {n} |-> IF m = n THEN files[r.name] ELSE files[m]]
  /\ renaming' = [id |-> r.id, name |-> n]
  /\ UNCHANGED <<records, dialog, installed, packages, installs, bounds>>
SaveRenamed ==
  /\ ~NotRenaming /\ renaming' = [id |-> 0, name |-> ""]
  /\ LET r == RecordOf(renaming.id)
         all == (records \ {r}) \cup {[r EXCEPT !.name = renaming.name]} IN
     records' = all /\ files' = Saved(files, all)
  /\ UNCHANGED <<dialog, installed, packages, installs, bounds>>

\* The dialog offers to delete packages no other project uses.
Users(p) == {r \in records : r.packages = p}
AskDelete(r, too) ==
  /\ NotRenaming /\ dialog.id = 0 /\ r \in records
  /\ too => r.packages \in packages /\ Users(r.packages) = {r}
  /\ dialog' = [id |-> r.id, packages |-> IF too THEN r.packages ELSE 0]
  /\ UNCHANGED <<records, renaming, installed, files, packages, installs, bounds>>
Undecided == dialog' = NoDialog /\ UNCHANGED <<records, renaming, installed, files, packages, installs, bounds>>
\* An installation that ends while the dialog is open may take the folder.
Prompt ==
  \/ dialog.packages = 0 \/ fault = "late answer"
  \/ /\ Users(dialog.packages) \subseteq {RecordOf(dialog.id)}
     /\ \A i \in Installs : installs[i].packages = dialog.packages => installs[i].at \in {"none", "end"}
\* delete_packages_directory(), then remove_directory(): when the packages
\* can't be deleted the project stays
Delete ==
  /\ dialog.id # 0 /\ NotRenaming /\ Prompt
  /\ LET r == RecordOf(dialog.id) IN
     \/ Undecided
     \/ /\ packages' = packages \ {dialog.packages} /\ installed' = installed \ {r.id}
        /\ records' = {IF x.packages # 0 /\ x.packages = dialog.packages THEN [x EXCEPT !.packages = 0] ELSE x : x \in records \ {r}}
        /\ files' = Saved(Without(r.name), records')
        /\ dialog' = NoDialog /\ UNCHANGED <<renaming, installs, bounds>>

(***************************************************************************)
(* Restart                                                                 *)
(***************************************************************************)
\* load_all(): records of directories with readable metadata, under the name
\* it has; refresh(): directories without a record get one, records without
\* a directory go
Loaded == {[id |-> files[n].id, name |-> files[n].name, packages |-> files[n].packages] :
             n \in {m \in DOMAIN files : files[m].git /\ files[m].id # 0}}
Found == {n \in DOMAIN files : files[n].git}
Unknown == Found \ {r.name : r \in Loaded}
Restart ==
  /\ crashes < MaxCrashes /\ (fault = "crash while renaming" \/ NotRenaming) /\ crashes' = crashes + 1
  /\ LET number(n) == ids + 1 + Cardinality({m \in Unknown : files[m].by < files[n].by})
         all == {r \in Loaded : r.name \in Found} \cup {[id |-> number(n), name |-> n, packages |-> 0] : n \in Unknown} IN
     records' = all /\ files' = Saved(files, all) /\ ids' = ids + Cardinality(Unknown)
  /\ installs' = [i \in Installs |-> IF At(i, "none") THEN Idle ELSE [Idle EXCEPT !.at = "end"]]
  /\ renaming' = [id |-> 0, name |-> ""] /\ dialog' = NoDialog
  /\ UNCHANGED <<packages, installed, fault>>

Next ==
  \/ \E i \in Installs :
       \/ \E n \in Names : \E p \in packages \cup {0} : Begin(i, n, p)
       \/ \E git \in BOOLEAN : CreateFiles(i, git)
       \/ CreateDirectory(i) \/ Fill(i) \/ SetupRepository(i) \/ SaveConfig(i) \/ CompleteProcess(i)
       \/ Cleanup(i) \/ Cancel(i)
  \/ \E r \in records : (\E n \in Names : Move(r, n)) \/ (\E too \in BOOLEAN : AskDelete(r, too))
  \/ SaveRenamed \/ Delete \/ Restart

Spec == Init /\ [][Next]_vars

(***************************************************************************)
(* Properties                                                              *)
(***************************************************************************)
TypeOK ==
  /\ \A i \in Installs : installs[i].at \in {"none", "test", "create", "fill", "setup", "config", "done", "failed", "end"}
  /\ dialog.id # 0 => \E r \in records : r.id = dialog.id
  /\ ids \in Nat /\ packages \subseteq 1..ids

\* Records and directories agree: each record is of one directory, has an id
\* of its own, and is what the directory's metadata says. A directory without
\* a record is being made, unless a crash or a cancel has left it.  Not so
\* after a crash between the move of a renamed directory and its record.
LibraryTrue ==
  /\ \A r, s \in records : r.id = s.id \/ (fault # "crash while renaming" /\ r.name = s.name) => r = s
  /\ NotRenaming /\ fault # "crash while renaming" => \A r \in records : Exists(r.name) /\ files[r.name].id = r.id /\ files[r.name].packages = r.packages
  /\ NotRenaming /\ crashes = 0 /\ fault # "cancel" =>
       \A n \in DOMAIN files :
         \/ \E r \in records : r.name = n /\ files[n].whole /\ files[n].git
         \/ \E i \in Installs : installs[i].name = n /\ installs[i].at \notin {"none", "test", "end"}

\* What was installed stays, under its id, through failures of other
\* installations, renaming and restarts, until the user deletes it; so do the
\* packages folder it uses.
InstalledKept ==
  fault \in {"none", "cancel"} =>
    \A id \in installed : \E r \in records :
      r.id = id /\ r.packages \in packages /\ (NotRenaming => files[r.name].whole)
=============================================================================
