------------------------------- MODULE MCLibrary -------------------------------
(* What happens to the files of the Library: the Git operations of one      *)
(* directory, the collection of Git directories, the page that deletes      *)
(* objects, and the change to another folder.  The first choice is which of *)
(* them is looked at, the others stay as they begin.  MCProjects adds what  *)
(* the templates of a project do.                                           *)
EXTENDS Integers, FiniteSets

CONSTANTS
  Edited, Pushed, Clashes, GitFaults, MaxThreads,                \* see GitDirectory
  Names, LibraryFaults, MaxInstalls, MaxCrashes,                 \* see GitLibrary
  Objects, Kinds, MaxOps, MaxAnswers, SameDevice, StorageFaults  \* see LibraryPage, LibraryChange

VARIABLES
  topic,
  files, index, head, stash, remote, origin, stages, gitStatus, has_remote_changes, update_queued, gitThreads, newest, overtaken, gitFault, made, kept,
  dirs, records, packages, installs, renaming, dialog, ids, crashes, libraryFault, installed,
  lib, pageOps, shared, realized, pageEvent, scanning, result, shown, enabled, pageDialog, pageFault, answers, removed, lost,
  content, points, stored, location, library, device, busy, nested, changePhase, change, copyMade, behind, changeFault

Git == INSTANCE GitDirectory WITH
  Changes <- Edited, Remotes <- Pushed, Faults <- GitFaults, work <- files, fault <- gitFault,
  status <- gitStatus, threads <- gitThreads
Library == INSTANCE GitLibrary WITH Faults <- LibraryFaults, files <- dirs, fault <- libraryFault
Page == INSTANCE LibraryPage WITH
  Faults <- StorageFaults, ops <- pageOps, event <- pageEvent, dialog <- pageDialog, fault <- pageFault, deleted <- removed
Folder == INSTANCE LibraryChange WITH ChangeFaults <- StorageFaults, made <- copyMade, phase <- changePhase,
  current <- library

ASSUME FilesAssumption ==
  Git!GitAssumption /\ Library!LibraryAssumption /\ Page!PageAssumption /\ Folder!ChangeAssumption

gitVars == <<files, index, head, stash, remote, origin, stages, gitStatus, has_remote_changes, update_queued, gitThreads, newest,
             overtaken, gitFault, made, kept>>
libraryVars == <<dirs, records, packages, installs, renaming, dialog, ids, crashes, libraryFault, installed>>
pageVars == <<lib, pageOps, shared, realized, pageEvent, scanning, result, shown, enabled, pageDialog, pageFault, answers,
              removed, lost>>
folderVars == <<content, points, stored, location, library, device, busy, nested, changePhase, change, copyMade, behind,
                changeFault>>
filesVars == <<topic, gitVars, libraryVars, pageVars, folderVars>>

FilesInit ==
  /\ Git!Init /\ Library!Init /\ Page!Init /\ Folder!Init
  /\ topic # "git" => gitFault = "none"
  /\ topic # "page" => ~shared
  /\ topic # "folder" => device /\ ~busy /\ ~nested /\ content["new"] = "none"
  /\ topic # "library" => libraryFault = "none"

FilesNext ==
  \/ topic = "git" /\ Git!Next /\ UNCHANGED <<topic, libraryVars, pageVars, folderVars>>
  \/ topic = "library" /\ Library!Next /\ UNCHANGED <<topic, gitVars, pageVars, folderVars>>
  \/ topic = "page" /\ Page!Next /\ UNCHANGED <<topic, gitVars, libraryVars, folderVars>>
  \/ topic = "folder" /\ Folder!Next /\ UNCHANGED <<topic, gitVars, libraryVars, pageVars>>

FilesSpec == FilesInit /\ [][FilesNext]_filesVars

\* One directory loses no content, and its view shows what there is.
ContentKept == Git!TypeOK /\ Git!ContentKept /\ Git!ViewHonest

\* The collection agrees with the files, the page removes nothing in use, and
\* the change of the folder loses nothing.
LibraryKept ==
  /\ topic = "library" => Library!TypeOK /\ Library!LibraryTrue /\ Library!InstalledKept
  /\ topic = "page" => Page!TypeOK /\ Page!NothingInUseRemoved /\ Page!ButtonsSettle /\ Page!RemovedNotShown
  /\ topic = "folder" => Folder!TypeOK /\ Folder!DataKept /\ Folder!StartsWhole /\ Folder!FailureKeepsCurrent
=============================================================================
