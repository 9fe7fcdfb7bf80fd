---------------------------- MODULE SnapshotStore ----------------------------
(***************************************************************************)
(* Snapshots of the Gentoo repository: their files in the Library and the  *)
(* app's list of them.  They are generated by an installation or by a      *)
(* build, added from a file, removed when nothing uses them or on the      *)
(* Library page, and found again when the app starts.                      *)
(***************************************************************************)
EXTENDS Integers, FiniteSets

CONSTANTS
  Commits,      \* commits of the repository, numbers in their order; a snapshot is named for its commit
  Imports,      \* names of files that can be added, other numbers
  Inside,       \* the date in the snapshot of each name
  MaxOps,       \* operations, a bound for model checking
  MaxRestarts,  \* a bound for model checking
  MaxChoices    \* selections of the project, a bound for model checking

None == 0
Names == Commits \cup Imports
Ops == 1 .. MaxOps
Snapshot(name, date, from_file) == [name |-> name, date |-> date, from_file |-> from_file]
NoSnapshot == Snapshot(None, 0, FALSE)
NoOp == [kind |-> "none", at |-> "none", target |-> None, snapshot |-> NoSnapshot, reused |-> FALSE, store |-> FALSE]
OperationKinds == {"none", "generate", "import", "build", "kernel"}
Places == {"none", "lookup", "generate", "writing", "copy", "copying", "permissions", "analyze", "done",
           "failed", "using", "orphan", "ended"}

\* Files are written later than what the dates in them tell.
SnapshotAssumption ==
  /\ Inside \in [Commits \cup Imports -> 0 .. 10]
  /\ Commits \subseteq Nat \ {0} /\ Imports \subseteq Nat \ {0} /\ Commits \cap Imports = {} /\ Commits # {}
  /\ MaxOps \in Nat /\ MaxRestarts \in Nat /\ MaxChoices \in Nat

VARIABLES
  files,      \* "none", "partial" or "whole", of each name
  written,    \* the order in which files were written last, which is their time
  markers,    \* names with a marker that says they were added from a file
  listed,     \* Repository.Snapshot.value
  project,    \* metadata of the project: snapshot_id, latest_snapshot
  commit,     \* the latest commit of the repository
  auto_clean, \* the setting
  event,      \* a callback of an observed event bus is queued
  scheduled,  \* _auto_clean_scheduled
  adds,       \* snapshots whose add_snapshot() is queued
  stores,     \* builds whose store_project_snapshot() is queued
  ops,        \* operations that were started
  restarts, choices,
  disturbed,  \* names whose file the user deleted, on the Library page or in the snapshot's view,
              \* or that was generated while it was there or being made, or was taken by another build
  torn        \* names that were partial when the app started

disk == <<files, written, markers>>
user == <<project, auto_clean, choices>>
world == <<commit, restarts, disturbed, torn>>
queue == <<adds, stores>>
vars == <<disk, listed, user, event, scheduled, queue, ops, world>>

Named(n) == {s \in listed : s.name = n}
\* sorted_snapshots() puts the newest first.
Newest(S) == {s \in S : \A t \in S : t.date < s.date \/ (t.date = s.date /\ t.name >= s.name)}
ProjectSnapshot == IF project.latest THEN Newest(listed) ELSE Named(project.id)
Running(o) == ops[o].at \notin {"none", "orphan", "ended"}

\* Fault: what a build uses is not looked at.
UsesInstalled(o, n) == Running(o) /\ ops[o].kind \in {"generate", "import"} /\ ops[o].snapshot.name = n

\* Kept: the newest, a project's, and what a running process has as its own.
Uses(o, n) == Running(o) /\ ops[o].kind # "kernel" /\ ops[o].snapshot.name = n
unused_snapshots ==
  {s \in listed \ (Newest(listed) \cup ProjectSnapshot) : \A o \in Ops : ~Uses(o, s.name)}

\* save_all(): a marker for each of the list that is from a file, for no other of it
Marked(S) == (markers \ {s.name : s \in S}) \cup {s.name : s \in {t \in S : t.from_file}}
add_snapshot(s) ==
  LET S == {t \in listed : t.name # s.name} \cup {s}
  IN  listed' = S /\ markers' = Marked(S) /\ event' = TRUE
Remove(S) ==
  LET gone == {s.name : s \in S}
  IN  /\ files' = [n \in Names |-> IF n \in gone THEN "none" ELSE files[n]]
      /\ listed' = listed \ S /\ markers' = Marked(listed \ S) \ gone
      /\ event' = (event \/ S # {}) /\ UNCHANGED written

\* The file of a name is written from its beginning.
Write(n) ==
  /\ files' = [files EXCEPT ![n] = "partial"]
  /\ written' = [written EXCEPT ![n] = 1 + Cardinality({m \in Names : written[m] > 0})]
Finished(n) == files' = [files EXCEPT ![n] = "whole"] /\ UNCHANGED written

Init ==
  /\ files = [n \in Names |-> "none"] /\ written = [n \in Names |-> 0] /\ markers = {} /\ listed = {}
  /\ project = [id |-> None, latest |-> TRUE] /\ auto_clean \in BOOLEAN /\ choices = 0
  /\ commit \in Commits
  /\ event = FALSE /\ scheduled = auto_clean /\ adds = {} /\ stores = {} /\ ops = [o \in Ops |-> NoOp]
  /\ restarts = 0 /\ disturbed = {} /\ torn = {}

(***************************************************************************)
(* Operations                                                              *)
(***************************************************************************)
At(o, at) == ops[o].at = at
To(o, at) == ops' = [ops EXCEPT ![o].at = at]
\* An operation that is begun, or ends, changes started_processes.
Begin(o, op) ==
  /\ At(o, "none") /\ \A j \in 1 .. o - 1 : ~At(j, "none")
  /\ ops' = [ops EXCEPT ![o] = op] /\ event' = TRUE
  /\ UNCHANGED <<disk, listed, user, scheduled, queue, world>>
BeginInstallation(o) == Begin(o, [NoOp EXCEPT !.kind = "generate", !.at = "lookup"])
BeginFromFile(o) == \E n \in Imports : Begin(o, [NoOp EXCEPT !.kind = "import", !.at = "copy", !.target = n])
\* A build fetches the latest snapshot, and may store it in the project, or
\* is given one.
BeginBuild(o) ==
  \/ \E store \in BOOLEAN : Begin(o, [NoOp EXCEPT !.kind = "build", !.at = "lookup", !.store = store])
  \/ \E s \in ProjectSnapshot : Begin(o, [NoOp EXCEPT !.kind = "build", !.at = "using", !.snapshot = s])
\* The preparation of a machine builds a kernel with a snapshot.
BeginKernel(o) ==
  \E s \in listed : Begin(o, [NoOp EXCEPT !.kind = "kernel", !.at = "using", !.snapshot = s])

existing_latest_snapshot == {s \in Named(commit) : ~s.from_file /\ files[commit] # "none"}
AfterFetch(o) == IF ops[o].kind = "build" THEN "using" ELSE "permissions"
Fetched(o, s, reused) ==
  /\ ops' = [ops EXCEPT ![o] = [@ EXCEPT !.at = AfterFetch(o), !.snapshot = s, !.reused = reused]]
  /\ stores' = IF ops[o].store THEN stores \cup {o} ELSE stores
\* Another operation makes the snapshot of this commit.
Making(o) == \/ \E j \in Ops \ {o} : ops[j].target = commit /\ Running(j)
             \/ \E s \in adds : s.name = commit
\* The check may fail, or come too early for what others are making.
Lookup(o) ==
  /\ At(o, "lookup") /\ UNCHANGED <<disk, listed, user, event, scheduled, adds, commit, restarts, torn>>
  /\ \/ /\ ops' = [ops EXCEPT ![o] = [@ EXCEPT !.at = "generate", !.target = commit]] /\ UNCHANGED stores
        /\ disturbed' = IF existing_latest_snapshot # {} \/ Making(o) THEN disturbed \cup {commit} ELSE disturbed
     \/ \E s \in existing_latest_snapshot : Fetched(o, s, TRUE) /\ UNCHANGED disturbed

\* catalyst writes the file under its name, and may fail.
CatalystBegins(o) ==
  /\ At(o, "generate") /\ To(o, "writing") /\ Write(ops[o].target)
  /\ UNCHANGED <<markers, listed, user, event, scheduled, queue, world>>
CatalystEnds(o) ==
  /\ At(o, "writing") /\ ops[o].kind = "generate"
  /\ \/ /\ Finished(ops[o].target)
        /\ Fetched(o, Snapshot(ops[o].target, 10 + written[ops[o].target], FALSE), FALSE)
     \/ To(o, "failed") /\ UNCHANGED <<files, written, stores>>
  /\ UNCHANGED <<markers, listed, user, event, scheduled, adds, world>>
\* A build takes the file that was written last, by whomever.
WrittenNow(o) == {ops[o].target} \cup {ops[j].target : j \in {i \in Ops : ops[i].at \in {"writing", "copying", "orphan"}}}
BuildHasFetched(o) ==
  /\ At(o, "writing") /\ ops[o].kind = "build"
  /\ \/ \E n \in WrittenNow(o) :
          LET s == Snapshot(n, Inside[n], FALSE)
              op == [ops[o] EXCEPT !.at = "using", !.target = n, !.snapshot = s]
          IN  /\ Finished(ops[o].target) /\ ops' = [ops EXCEPT ![o] = op] /\ adds' = adds \cup {s}
              /\ stores' = IF op.store THEN stores \cup {o} ELSE stores
              /\ disturbed' = IF n # ops[o].target THEN disturbed \cup {n} ELSE disturbed
     \/ To(o, "failed") /\ UNCHANGED <<files, written, queue, disturbed>>
  /\ UNCHANGED <<markers, listed, user, event, scheduled, commit, restarts, torn>>

\* A file is copied under its name unless one is there, and removed if that
\* fails.
BeginCopy(o) ==
  /\ At(o, "copy")
  /\ IF files[ops[o].target] # "none" THEN To(o, "failed") /\ UNCHANGED <<files, written>>
     ELSE To(o, "copying") /\ Write(ops[o].target)
  /\ UNCHANGED <<markers, listed, user, event, scheduled, queue, world>>
EndCopy(o) ==
  /\ \/ /\ At(o, "copying")
        /\ \/ /\ Finished(ops[o].target)
              /\ Fetched(o, Snapshot(ops[o].target, 10 + written[ops[o].target], TRUE), FALSE)
           \/ To(o, "failed") /\ files' = [files EXCEPT ![ops[o].target] = "none"] /\ UNCHANGED <<written, stores>>
     \/ At(o, "orphan") /\ Finished(ops[o].target) /\ To(o, "ended") /\ UNCHANGED stores
  /\ UNCHANGED <<markers, listed, user, event, scheduled, adds, world>>

\* Permissions need the file, and so does the date in it; the snapshot that
\* was found is the one of the list.
SetupPermissions(o) ==
  /\ At(o, "permissions") /\ To(o, IF files[ops[o].snapshot.name] = "none" THEN "failed" ELSE "analyze")
  /\ UNCHANGED <<disk, listed, user, event, scheduled, queue, world>>
Analyze(o) ==
  LET s == ops[o].snapshot
      dated == [s EXCEPT !.date = Inside[s.name]]
  IN  /\ At(o, "analyze")
      /\ IF files[s.name] # "whole" THEN To(o, "failed") /\ UNCHANGED listed
         ELSE /\ ops' = [ops EXCEPT ![o] = [@ EXCEPT !.at = "done", !.snapshot = dated]]
              /\ listed' = IF ops[o].reused THEN {IF t = s THEN dated ELSE t : t \in listed} ELSE listed
      /\ UNCHANGED <<disk, user, event, scheduled, queue, world>>

\* cleanup() of the permissions step, when it was begun
Cleanup(o) ==
  LET n == ops[o].snapshot.name
  IN  files' = IF n # None /\ ~ops[o].reused THEN [files EXCEPT ![n] = "none"] ELSE files
Complete(o) ==
  /\ At(o, "done") /\ To(o, "ended") /\ add_snapshot(ops[o].snapshot)
  /\ UNCHANGED <<files, written, user, scheduled, queue, world>>
Fail(o) ==
  /\ At(o, "failed") /\ To(o, "ended") /\ event' = TRUE
  /\ IF ops[o].kind \in {"generate", "import"} THEN Cleanup(o) ELSE UNCHANGED files
  /\ UNCHANGED <<written, markers, listed, user, scheduled, queue, world>>
\* A copy goes on in its thread; catalyst is stopped.
Cancel(o) ==
  /\ Running(o) /\ ~At(o, "failed") /\ ~At(o, "done") /\ event' = TRUE
  /\ o \notin stores   \* what the build has queued is run before
  /\ To(o, IF At(o, "copying") THEN "orphan" ELSE "ended")
  /\ IF At(o, "permissions") \/ At(o, "analyze") THEN Cleanup(o) ELSE UNCHANGED files
  /\ UNCHANGED <<written, markers, listed, user, scheduled, queue, world>>
\* A build ends after what it queued before.
EndBuild(o) ==
  /\ At(o, "using") /\ o \notin stores /\ (ops[o].kind = "build" => \A s \in adds : s.name # ops[o].target)
  /\ To(o, "ended") /\ event' = TRUE
  /\ UNCHANGED <<disk, listed, user, scheduled, queue, world>>

Operation(o) ==
  \/ BeginInstallation(o) \/ BeginFromFile(o) \/ BeginBuild(o) \/ BeginKernel(o)
  \/ Lookup(o) \/ CatalystBegins(o) \/ CatalystEnds(o) \/ BuildHasFetched(o) \/ BeginCopy(o) \/ EndCopy(o)
  \/ SetupPermissions(o) \/ Analyze(o) \/ Complete(o) \/ Fail(o) \/ Cancel(o) \/ EndBuild(o)

(***************************************************************************)
(* The main loop, the user and the world                                   *)
(***************************************************************************)
AddQueued ==
  /\ \E s \in adds : add_snapshot(s) /\ adds' = adds \ {s}
  /\ UNCHANGED <<files, written, user, scheduled, stores, ops, world>>
store_project_snapshot ==
  /\ \E o \in stores :
       /\ (\A s \in adds : s.name # ops[o].target) /\ stores' = stores \ {o}
       /\ project' = [id |-> ops[o].snapshot.name, latest |-> FALSE]
  /\ event' = TRUE
  /\ UNCHANGED <<disk, listed, auto_clean, choices, scheduled, adds, ops, world>>

schedule_auto_clean ==
  /\ event /\ event' = FALSE /\ scheduled' = (scheduled \/ auto_clean)
  /\ UNCHANGED <<disk, listed, user, queue, ops, world>>
AutoClean ==
  /\ scheduled /\ scheduled' = FALSE
  /\ IF auto_clean THEN Remove(unused_snapshots) ELSE UNCHANGED <<disk, listed, event>>
  /\ UNCHANGED <<user, queue, ops, world>>
ToggleAutoClean ==
  /\ choices < MaxChoices /\ choices' = choices + 1
  /\ auto_clean' = ~auto_clean /\ event' = TRUE
  /\ UNCHANGED <<disk, listed, project, scheduled, queue, ops, world>>

\* The selection of the project's view is saved at once.
SelectSnapshot ==
  /\ choices < MaxChoices /\ choices' = choices + 1
  /\ \/ project' = [project EXCEPT !.latest = TRUE]
     \/ \E s \in listed : project' = [id |-> s.name, latest |-> FALSE]
  /\ event' = TRUE
  /\ UNCHANGED <<disk, listed, auto_clean, scheduled, queue, ops, world>>
\* The Library page deletes files no running process uses, and leaves the list.
DeleteOnPage(n) ==
  /\ choices < MaxChoices /\ choices' = choices + 1
  /\ files[n] # "none" /\ \A o \in Ops : ~(Running(o) /\ ops[o].snapshot.name = n)
  /\ files' = [files EXCEPT ![n] = "none"] /\ markers' = markers \ {n}
  /\ disturbed' = disturbed \cup {n}
  /\ UNCHANGED <<written, listed, project, auto_clean, event, scheduled, queue, ops, commit, restarts, torn>>
\* The snapshot's own view removes it whatever uses it.
RemoveInView ==
  /\ choices < MaxChoices /\ choices' = choices + 1
  /\ \E s \in listed : Remove({s}) /\ disturbed' = disturbed \cup {s.name}
  /\ UNCHANGED <<project, auto_clean, scheduled, queue, ops, commit, restarts, torn>>

NewCommit ==
  /\ commit + 1 \in Commits /\ commit' = commit + 1
  /\ UNCHANGED <<disk, listed, user, event, scheduled, queue, ops, restarts, disturbed, torn>>
\* The app stops at any moment; it lists the files it finds, with their times.
Restart ==
  /\ restarts < MaxRestarts /\ restarts' = restarts + 1
  /\ ops' = [o \in Ops |-> IF At(o, "none") THEN NoOp ELSE [NoOp EXCEPT !.at = "ended"]]
  /\ adds' = {} /\ stores' = {} /\ event' = FALSE /\ scheduled' = auto_clean
  /\ listed' = {Snapshot(n, 10 + written[n], n \in markers) : n \in {m \in Names : files[m] # "none"}}
  /\ torn' = {n \in Names : files[n] = "partial"}
  /\ UNCHANGED <<disk, user, commit, disturbed>>

Next ==
  \/ \E o \in Ops : Operation(o)
  \/ AddQueued \/ store_project_snapshot \/ schedule_auto_clean \/ AutoClean \/ ToggleAutoClean
  \/ SelectSnapshot \/ (\E n \in Names : DeleteOnPage(n)) \/ RemoveInView \/ NewCommit \/ Restart
Spec == Init /\ [][Next]_vars

(***************************************************************************)
(* Properties                                                              *)
(***************************************************************************)
Snapshots == [name : Names \cup {None}, date : Int, from_file : BOOLEAN]
TypeOK ==
  /\ files \in [Names -> {"none", "partial", "whole"}] /\ markers \subseteq Names /\ listed \subseteq Snapshots
  /\ project \in [id : Names \cup {None}, latest : BOOLEAN] /\ adds \subseteq Snapshots /\ stores \subseteq Ops
  /\ ops \in [Ops -> [kind : OperationKinds, at : Places, target : Names \cup {None}, snapshot : Snapshots, reused : BOOLEAN, store : BOOLEAN]]

\* What is in the list can be used: its file is whole, unless the user deleted
\* it, two operations had it, or the app stopped while it was written; each
\* name is in the list once.
ListedWhole ==
  \A s \in listed : /\ Cardinality(Named(s.name)) = 1
                    /\ s.name \in disturbed \cup torn \/ files[s.name] = "whole"

\* Neither cleaning nor the failure of another operation takes the file that
\* a running build uses.  The kernel of a machine isn't kept: cleaning doesn't
\* look at preparations.
UsedKept ==
  \A o \in Ops : At(o, "using") /\ ops[o].kind = "build" =>
     ops[o].snapshot.name \in disturbed \cup torn \/ files[ops[o].snapshot.name] = "whole"

\* The snapshot a project has selected stays in the list when others are cleaned.
SelectedListed == project.latest \/ Named(project.id) # {} \/ project.id \in disturbed \cup torn

\* With the setting on and nothing queued, only what is used is left: every
\* change that ends a use is told to the cleaning.
CleanSettles == auto_clean /\ ~event /\ ~scheduled => unused_snapshots = {}
=============================================================================
