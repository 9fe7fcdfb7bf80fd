----------------------------- MODULE GitDirectory -----------------------------
(***************************************************************************)
(* One Git directory (a project, an overlay, Releng): the user changes it  *)
(* through objects read from its files, saves or discards the changes, and *)
(* updates it from its remote (git_directory.py, git_update.py,            *)
(* git_directory_details_view.py). Every operation and every reading of    *)
(* the status is a thread that runs git commands one after another.        *)
(*                                                                         *)
(* Content is the set of changes it has. A git command is one step, and    *)
(* the attribute the app sets from its output is another: readings of two  *)
(* threads may be shown in another order than they were made in.           *)
(***************************************************************************)
EXTENDS Integers, FiniteSets

CONSTANTS
  Changes,        \* changes the user may make
  Remotes,      \* changes that may appear in the remote repository
  Clashes,      \* pairs of both that change the same lines
  Faults,       \* what may go wrong: "hasty", "cancel", "clean"
  MaxThreads    \* threads at a time, a bound for model checking

GitAssumption ==
  /\ Changes \cup Remotes \subseteq Nat \ {0} /\ Clashes \subseteq Changes \X Remotes
  /\ Faults \subseteq {"hasty", "cancel", "clean"} /\ MaxThreads \in Nat \ {0}

NoContent == {0}  \* stages that are not read
Slots == 1..MaxThreads
Free == [kind |-> "none", at |-> "end", ok |-> TRUE, asked |-> {}, output |-> ""]
Operations == {"commit", "discard", "update", "canceled"}

VARIABLES
  work, index, head,  \* files, what is staged, last commit of the branch
  stash,              \* what an autostash could not put back
  remote, origin,     \* branch of the remote, and what was fetched of it
  stages,             \* objects read from the files, saved as a whole
  status,             \* GitDirectoryStatus
  has_remote_changes,
  update_queued,      \* _status_update_id, or the event that sets it
  threads,
  newest,             \* history: thread with the last reading, of the status and of the remote, while it is not shown
  overtaken,          \* history: which of both are shown as read before that one
  fault,              \* the one that may happen, or "none"
  made,               \* changes the user made and has not discarded
  kept                \* what was saved or updated to, with success

disk == <<work, index, head, stash, remote, origin>>
seen == <<stages, status, has_remote_changes, update_queued>>
asked == <<fault, made, kept>>
readings == <<newest, overtaken>>
vars == <<disk, seen, threads, readings, asked>>

Clash(mine, theirs) == \E c \in Clashes : c[1] \in mine /\ c[2] \in theirs

Running(i) == threads[i].kind # "none"
Busy == \E i \in Slots : threads[i].kind \in Operations
UpdateInProgress == \E i \in Slots : threads[i].kind = "update"
\* A new thread takes the first slot that is free.
Slot(i) == ~Running(i) /\ \A j \in 1..i - 1 : Running(j)
First == [commit |-> "add", discard |-> "reset", update |-> "fetch all", status |-> "status"]
Begin(kind) == \E i \in Slots : Slot(i) /\ threads' = [threads EXCEPT ![i] =
                 [kind |-> kind, at |-> First[kind], ok |-> TRUE, asked |-> IF kind = "commit" THEN work ELSE {}, output |-> ""]]
To(i, at) == threads' = [threads EXCEPT ![i].at = at]
Failed(i) == threads' = [threads EXCEPT ![i].at = "status", ![i].ok = FALSE]
End(i) == threads' = [threads EXCEPT ![i] = Free]

Init ==
  /\ work = {} /\ index = {} /\ head = {} /\ stash = {} /\ remote = {} /\ origin = {}
  /\ stages = NoContent /\ status = "UNKNOWN" /\ has_remote_changes = FALSE /\ update_queued = FALSE
  /\ threads = [i \in Slots |-> IF i = 1 THEN [Free EXCEPT !.kind = "status", !.at = "status"] ELSE Free]
  /\ newest = [status |-> 0, remote |-> 0] /\ overtaken = {}
  /\ fault \in Faults \cup {"none"} /\ made = {} /\ kept = {}

(***************************************************************************)
(* The user                                                                *)
(***************************************************************************)
\* Nothing keeps a hasty one from changing files while an operation runs.
May == fault = "hasty" \/ ~Busy

\* stages: read once, then kept until they are reloaded
Read == IF stages = NoContent THEN work ELSE stages
\* save_stage(): writes the whole object, and the status is read later
SaveStage(e) ==
  /\ May /\ e \notin made \cup Read /\ made' = made \cup {e}
  /\ stages' = Read \cup {e} /\ work' = Read \cup {e} /\ update_queued' = TRUE
  /\ UNCHANGED <<index, head, stash, remote, origin, status, has_remote_changes, threads, readings, fault, kept>>

\* The view is shown: it reads the directory's status again.
Show == Begin("status") /\ UNCHANGED <<disk, seen, readings, asked>>

\* Buttons of the view, sensitive for the status last read
CommitChanges == May /\ status = "CHANGED" /\ ~UpdateInProgress /\ Begin("commit") /\ UNCHANGED <<disk, seen, readings, asked>>
DiscardChanges ==
  /\ May /\ status = "CHANGED" /\ ~UpdateInProgress /\ Begin("discard")
  /\ made' = made \ (work \ head)
  /\ UNCHANGED <<disk, seen, readings, fault, kept>>
StartUpdate == May /\ status = "UNCHANGED" /\ ~UpdateInProgress /\ Begin("update") /\ UNCHANGED <<disk, seen, readings, asked>>

\* Somebody else pushes to the remote.
Push(r) == r \notin remote /\ remote' = remote \cup {r} /\ UNCHANGED <<work, index, head, stash, origin, seen, threads, readings, asked>>

(***************************************************************************)
(* Threads                                                                 *)
(***************************************************************************)
At(i, at) == Running(i) /\ threads[i].at = at

\* _on_content_changed(): changes made together are read once
Timer == update_queued /\ update_queued' = FALSE /\ Begin("status")
         /\ UNCHANGED <<disk, stages, status, has_remote_changes, readings, asked>>

\* What a command says, and that it is shown
Says(i, what, output, at) == /\ threads' = [threads EXCEPT ![i].at = at, ![i].output = output]
                             /\ newest' = [newest EXCEPT ![what] = i] /\ UNCHANGED overtaken
Shows(i, what, at) ==
                  /\ threads' = [threads EXCEPT ![i].at = at, ![i].output = ""]
                  /\ newest' = [newest EXCEPT ![what] = IF @ = i THEN 0 ELSE @]
                  /\ overtaken' = IF newest[what] = i THEN overtaken \ {what} ELSE overtaken \cup {what}

\* update_status()
Status(i) ==
  /\ At(i, "status") /\ Says(i, "status", IF work = head /\ index = head THEN "UNCHANGED" ELSE "CHANGED", "show status")
  /\ UNCHANGED <<disk, seen, asked>>
ShowStatus(i) ==
  /\ At(i, "show status") /\ Shows(i, "status", "fetch") /\ status' = threads[i].output
  /\ UNCHANGED <<disk, stages, has_remote_changes, update_queued, asked>>
Fetch(i) ==
  /\ At(i, "fetch")
  /\ \/ origin' = remote /\ To(i, "behind") /\ UNCHANGED readings
     \/ Says(i, "remote", "EVEN", "show remote") /\ UNCHANGED origin
  /\ UNCHANGED <<work, index, head, stash, remote, seen, asked>>
\* Fault: the remote is compared before it is fetched.
BehindOfNone(i) ==
  /\ At(i, "behind") /\ Says(i, "remote", IF remote \subseteq origin THEN "EVEN" ELSE "BEHIND", "show remote")
  /\ UNCHANGED <<disk, seen, asked>>
Behind(i) ==
  /\ At(i, "behind") /\ Says(i, "remote", IF origin \subseteq head THEN "EVEN" ELSE "BEHIND", "show remote")
  /\ UNCHANGED <<disk, seen, asked>>
ShowRemote(i) ==
  /\ At(i, "show remote") /\ Shows(i, "remote", "logs") /\ has_remote_changes' = (threads[i].output = "BEHIND")
  /\ UNCHANGED <<disk, stages, status, update_queued, asked>>
\* commit_changes(): everything is staged; nothing is committed when the
\* changes are gone
Add(i) ==
  /\ At(i, "add")
  /\ \/ index' = work /\ To(i, "commit")
     \/ Failed(i) /\ UNCHANGED index
  /\ UNCHANGED <<work, head, stash, remote, origin, seen, readings, asked>>
Commit(i) ==
  /\ At(i, "commit")
  /\ \/ head' = index /\ To(i, "status")
     \/ index # head /\ Failed(i) /\ UNCHANGED head
  /\ UNCHANGED <<work, index, stash, remote, origin, seen, readings, asked>>

\* discard_changes()
Reset(i) ==
  /\ At(i, "reset")
  /\ \/ work' = head /\ index' = head /\ To(i, "clean")
     \/ Failed(i) /\ UNCHANGED <<work, index>>
  /\ UNCHANGED <<head, stash, remote, origin, seen, readings, asked>>
Clean(i) ==
  /\ At(i, "clean") /\ (To(i, "status") \/ (fault = "clean" /\ Failed(i)))
  /\ UNCHANGED <<disk, seen, readings, asked>>

\* update_git_directory()
FetchAll(i) ==
  /\ At(i, "fetch all")
  /\ \/ origin' = remote /\ To(i, "rebase")
     \/ Failed(i) /\ UNCHANGED origin
  /\ UNCHANGED <<work, index, head, stash, remote, seen, readings, asked>>
\* Commits are put on top of the fetched ones, unless they clash; changes not
\* committed are put aside for it, and stay in the stash when they clash.
Rebase(i) ==
  /\ At(i, "rebase")
  /\ LET new == origin \ head
         open == work \ head IN
     IF Clash(head, new) THEN Failed(i) /\ UNCHANGED <<work, index, head, stash>>
     ELSE /\ head' = head \cup new /\ index' = head'
          /\ threads' = [threads EXCEPT ![i].at = "status", ![i].asked = origin]
          /\ IF Clash(open, new) THEN work' = head' /\ stash' = stash \cup open
             ELSE work' = head' \cup open /\ UNCHANGED stash
  /\ UNCHANGED <<remote, origin, seen, readings, asked>>

\* CancelUpdate: the process ends at once, its git commands go on
Cancel(i) ==
  /\ fault = "cancel" /\ threads[i].kind = "update" /\ threads' = [threads EXCEPT ![i].kind = "canceled"]
  /\ UNCHANGED <<disk, seen, readings, asked>>

\* What follows the reading of the status: objects read before are dropped,
\* by the thread of a discard, by the main loop after an update
Keep(i, kinds) == kept' = IF threads[i].kind \in kinds /\ threads[i].ok THEN kept \cup threads[i].asked ELSE kept
\* Fault: the objects the views work with stay.
LogsOnly(i) ==
  /\ At(i, "logs") /\ threads[i].kind # "update"
  /\ Keep(i, {"commit"}) /\ End(i)
  /\ UNCHANGED <<disk, seen, readings, fault, made>>
Logs(i) ==
  /\ At(i, "logs") /\ threads[i].kind # "update"
  /\ Keep(i, {"commit"}) /\ End(i)
  /\ stages' = IF threads[i].kind = "discard" /\ threads[i].ok THEN NoContent ELSE stages
  /\ UNCHANGED <<disk, status, has_remote_changes, update_queued, readings, fault, made>>
\* Fault: the update is taken for one that has changed nothing.
CompleteUnread(i) ==
  /\ At(i, "logs") /\ threads[i].kind = "update" /\ Keep(i, {"update"}) /\ End(i)
  /\ UNCHANGED <<disk, seen, readings, fault, made>>
CompleteProcess(i) ==
  /\ At(i, "logs") /\ threads[i].kind = "update" /\ Keep(i, {"update"}) /\ End(i)
  /\ stages' = IF threads[i].ok THEN NoContent ELSE stages
  /\ UNCHANGED <<disk, status, has_remote_changes, update_queued, readings, fault, made>>

Next ==
  \/ \E e \in Changes : SaveStage(e)
  \/ Show \/ CommitChanges \/ DiscardChanges \/ StartUpdate \/ Timer
  \/ \E r \in Remotes : Push(r)
  \/ \E i \in Slots :
       \/ Status(i) \/ ShowStatus(i) \/ Fetch(i) \/ Behind(i) \/ ShowRemote(i) \/ Add(i) \/ Commit(i) \/ Reset(i) \/ Clean(i)
       \/ FetchAll(i) \/ Rebase(i) \/ Cancel(i) \/ Logs(i) \/ CompleteProcess(i)

Spec == Init /\ [][Next]_vars

(***************************************************************************)
(* Properties                                                              *)
(***************************************************************************)
TypeOK ==
  /\ status \in {"UNKNOWN", "UNCHANGED", "CHANGED"} /\ has_remote_changes \in BOOLEAN /\ update_queued \in BOOLEAN
  /\ stages = NoContent \/ stages \subseteq Changes \cup Remotes
  /\ \A i \in Slots : threads[i].at \in {"end", "status", "show status", "fetch", "behind", "show remote", "logs", "add", "commit", "reset", "clean",
                                          "fetch all", "rebase"}

\* A change the user made is in the files, or in the stash of an update, until
\* the user discards it; what was saved, or updated to, stays in the branch
\* and in the files. Of a user who waits for Git operations to end.
ContentKept ==
  fault = "none" => made \subseteq work \cup stash /\ kept \subseteq work \cap head

\* When no operation runs, the objects the views hold are what is stored; when
\* nothing runs, the status shown is the one of the files, and no update is
\* announced that is there, unless a thread that had read before another one
\* came to show it after it.
ViewHonest ==
  fault = "none" /\ ~Busy =>
    /\ stages # NoContent => stages = work
    /\ ~update_queued /\ (\A i \in Slots : ~Running(i)) =>
         /\ "status" \in overtaken \/ status = IF work = head /\ index = head THEN "UNCHANGED" ELSE "CHANGED"
         /\ "remote" \in overtaken \/ (has_remote_changes => ~(origin \subseteq head))
=============================================================================
