--------------------------- MODULE TemplateUpdate ---------------------------
(***************************************************************************)
(* Update of a project from its template or from the repository it was     *)
(* cloned from (project_template_update.py, project_update_view.py).  The  *)
(* history of the project is a sequence of commits; the new version is     *)
(* prepared in a worker, the user decides the conflicts, and the commits   *)
(* of the project are replayed on top of the new version.                  *)
(***************************************************************************)
EXTENDS ProjectTree

CONSTANTS
  Own,         \* id, name and directory of the stage the user adds
  FromTemplate,\* id, name and directory of the stage new versions add
  OwnValues, NewValues,  \* what the user and new versions set, Missing removes a file
  MaxEdits,    \* edits of the user, a bound for model checking
  MaxNews,     \* edits of the template or of the remote branch
  MaxUpdates,  \* times the update is opened
  Cases        \* what the user also does: subset of Unusual

\* "revert": touches what an earlier commit of the project has touched;
\* "meanwhile": saves while the update is shown (views can be opened without a window of their own)
Unusual == {"revert", "meanwhile"}
Screens == {"closed", "loading", "options", "preparing", "up to date", "failed", "review", "done"}
UpdateAssumption ==
  /\ IdsAssumption /\ {Own, FromTemplate} \subseteq Ids /\ OwnValues \cup NewValues \subseteq Nat
  /\ {MaxEdits, MaxNews, MaxUpdates} \subseteq Nat /\ Cases \subseteq Unusual

VARIABLES
  source,   \* "template" or "repository"
  history,  \* commits from the first one to HEAD: files, and whether it is an own one
  work,     \* files of the project
  latest,   \* files of the latest version of the template or of the remote branch
  screen,   \* what ProjectUpdateView shows
  force, drop,   \* force and _drop_project_changes of the view
  update,   \* prepared ProjectUpdate
  before,   \* versions the last update was made from, to state what it had to do
  edits, news, opened

vars == <<source, history, work, latest, screen, force, drop, update, before, edits, news, opened>>
counters == <<edits, news, opened>>

Tip == history[Len(history)].tree
HasUnsavedChanges == GitTree(work) # Tip
\* template_base_commit(), or the merge base with the remote branch
BaseOf(h) == CHOOSE i \in DOMAIN h : ~h[i].own /\ \A j \in i + 1..Len(h) : h[j].own
OwnCommitsCount == Len(history) - BaseOf(history)
NoUpdate == [onto |-> NoFiles, base |-> 0, fastForward |-> FALSE, drop |-> FALSE, changes |-> {}]
NothingBefore == [base |-> ReadVersion(NoFiles), project |-> ReadVersion(NoFiles), new |-> ReadVersion(NoFiles),
                  changes |-> {}, drop |-> FALSE]

Stage(id) == [NoStage EXCEPT !.id = id, !.name = id, !.a = 1, !.file = 1]
Generated == [state |-> 1, top |-> 1, stages |-> [d \in {1} |-> Stage(1)]]

Init ==
  /\ source \in {"template", "repository"}
  /\ history = <<[tree |-> Generated, own |-> FALSE]>> /\ work = Generated /\ latest = Generated
  /\ screen = "closed" /\ force = FALSE /\ drop = FALSE /\ update = NoUpdate /\ before = NothingBefore
  /\ edits = 0 /\ news = 0 /\ opened = 0

(***************************************************************************)
(* The project and the new version                                         *)
(***************************************************************************)
\* What an edit may do to a tree; a date is written with a changed argument.
Edits(tree, values, id, date, name) ==
  {[tree EXCEPT !.top = v] : v \in values}
  \cup {Put(tree, d, [At(tree, d) EXCEPT !.a = v, !.date = date]) : d \in DOMAIN tree.stages, v \in values \ {Missing}}
  \cup {Put(tree, d, [At(tree, d) EXCEPT !.file = v]) : d \in DOMAIN tree.stages, v \in values}
  \cup {Without(Put(tree, name, [At(tree, d) EXCEPT !.name = name]), {d}) : d \in {x \in DOMAIN tree.stages \ {id} : name \notin DOMAIN tree.stages}}
  \cup {Without(tree, {d}) : d \in DOMAIN tree.stages}
  \cup {Put(tree, id, [Stage(id) EXCEPT !.baseline = IF id = Own THEN 1 ELSE Missing]) : d \in {id} \ DOMAIN tree.stages}

\* Without reverts, an edit leaves alone what commits since the base have changed; own stages are free.
Fresh(tree) ==
  LET base == ReadVersion(history[BaseOf(history)].tree)
      head == ReadVersion(Tip)
      now == ReadVersion(tree) IN
  \A k \in Keys : k[1] # Own /\ Changed(head, now, k) => ~Changed(base, head, k)

Edit(tree) ==
  /\ screen \in {"closed"} \cup (IF "meanwhile" \in Cases THEN {"review"} ELSE {})
  /\ edits < MaxEdits /\ edits' = edits + 1
  /\ tree # work /\ ("revert" \in Cases \/ Fresh(tree))
  /\ work' = tree
  /\ UNCHANGED <<source, history, latest, screen, force, drop, update, before, news, opened>>

Commit ==
  /\ HasUnsavedChanges /\ screen \in {"closed", "review"}
  /\ history' = Append(history, [tree |-> GitTree(work), own |-> TRUE])
  /\ UNCHANGED <<source, work, latest, screen, force, drop, update, before, counters>>

Discard ==
  /\ HasUnsavedChanges /\ screen \in {"closed", "review"} /\ work' = Tip
  /\ UNCHANGED <<source, history, latest, screen, force, drop, update, before, counters>>

\* A new commit of the template or of the remote branch; dates come from
\* other users of a repository.  Only preparing looks at it: it is made
\* before, the options of the template may be of an older one.
NewVersion(tree) ==
  /\ screen \in {"closed", "options"}
  /\ news < MaxNews /\ news' = news + 1 /\ latest' = [tree EXCEPT !.state = @ + 1]
  /\ UNCHANGED <<source, history, work, screen, force, drop, update, before, edits, opened>>

(***************************************************************************)
(* The view                                                                *)
(***************************************************************************)
Show(s) == screen' = s
Project == <<source, history, work, latest, before, edits, news>>

\* The button is insensitive with unsaved changes.  A template shows its options first.
Open ==
  /\ screen = "closed" /\ ~HasUnsavedChanges /\ opened < MaxUpdates /\ opened' = opened + 1
  /\ Show(IF source = "template" THEN "loading" ELSE "preparing")
  /\ UNCHANGED <<Project, force, drop, update>>

\* _load_options() downloads the template, which may fail.
LoadOptions ==
  /\ screen = "loading" /\ \E s \in {"options", "failed"} : Show(s)
  /\ UNCHANGED <<Project, force, drop, update, opened>>

\* on_continue(): the row is there for a project with own commits
Continue ==
  /\ screen = "options" /\ Show("preparing")
  /\ \E d \in {FALSE} \cup {OwnCommitsCount > 0} : drop' = d /\ force' = d
  /\ UNCHANGED <<Project, update, opened>>

\* prepare_template_update(): nothing is prepared when the template is the
\* one recorded; the new version is a commit on top of the base, or the base.
PrepareTemplateUpdate ==
  LET base == BaseOf(history) IN
  [none |-> latest.state = history[base].tree.state /\ ~force, onto |-> latest, base |-> base]
\* prepare_repository_update(): fetched, and compared with the merge base
PrepareRepositoryUpdate ==
  LET base == BaseOf(history)
      upToDate == history[base].tree.state = latest.state IN
  [none |-> upToDate /\ ~(force /\ Tip # latest), onto |-> latest, base |-> base]

Prepare ==
  /\ screen = "preparing"
  /\ LET p == IF source = "template" THEN PrepareTemplateUpdate ELSE PrepareRepositoryUpdate
         Version(tree) == ReadVersion(tree) IN
     \/ Show("failed") /\ update' = NoUpdate  \* no connection, unsaved changes, an error of Git
     \/ ~HasUnsavedChanges /\ p.none /\ Show("up to date") /\ update' = NoUpdate
     \/ /\ ~HasUnsavedChanges /\ ~p.none /\ Show("review")
        /\ update' = [onto |-> p.onto, base |-> p.base, fastForward |-> Len(history) = p.base, drop |-> drop,
                      changes |-> CompareVersions(Version(history[p.base].tree), Version(work), Version(p.onto))]
  /\ UNCHANGED <<Project, force, drop, opened>>

\* Up to date, with own commits: "Restore clean template" or repository
RestoreClean ==
  /\ screen = "up to date" /\ OwnCommitsCount > 0
  /\ Show("preparing") /\ force' = TRUE /\ drop' = TRUE
  /\ UNCHANGED <<Project, update, opened>>

\* A conflict row; the rows are hidden while changes of the project are dropped.
Decide(change) ==
  /\ screen = "review" /\ change.conflict /\ ~update.drop
  /\ update' = [update EXCEPT !.changes = (@ \ {change}) \cup {[change EXCEPT !.use = ~@]}]
  /\ UNCHANGED <<Project, screen, force, drop, opened>>
DropToggled ==
  /\ screen = "review" /\ source = "repository" /\ ~update.fastForward
  /\ update' = [update EXCEPT !.drop = ~@]
  /\ UNCHANGED <<Project, screen, force, drop, opened>>

\* _cancel(), or Finish
Close ==
  /\ screen \in {"options", "review", "up to date", "failed", "done"} /\ Show("closed")
  /\ update' = NoUpdate /\ before' = NothingBefore /\ force' = FALSE /\ drop' = FALSE
  /\ UNCHANGED <<source, history, work, latest, edits, news, opened>>

(***************************************************************************)
(* Applying                                                                *)
(***************************************************************************)
\* Fault: a kept stage is not restored, commits write what they change of it.
NotRestored(tree, base, kept) == tree
\* Stages removed by the new version that the user keeps are there as they
\* were at the base, unless their directory is used.
Restored(tree, base, kept) ==
  LET version == ReadVersion(base)
      Restore(t, s) == IF ~Present(version, s) \/ version.dirs[s] \in DOMAIN t.stages THEN t
                       ELSE Put(t, version.dirs[s], base.stages[version.dirs[s]]) IN
  FoldLeft(Restore, tree, SetToSeq(kept))

\* Fault: a commit wins over the new version whatever the user has chosen.
CommitWins(changes, used, removed) ==
  {[c EXCEPT !.use = c.key[1] \notin removed] : c \in changes}
\* One replayed commit: its changes against its parent, on the replayed
\* files; changes of the new version too are decided as the user did.
Decided(changes, used, removed) ==
  {[c EXCEPT !.use = IF c.key[1] \in removed THEN FALSE ELSE IF c.conflict THEN c.key \notin used ELSE @] : c \in changes}
Replay(tree, parent, commit, used, removed) ==
  LET current == ReadVersion(tree)
      changes == Decided(CompareVersions(parent, current, commit), used, removed) IN
  ReplayBaselines(ReplayDates(ApplyChanges(tree, changes, current, commit), parent, commit, changes), parent, commit)

\* rebase_project(): the commits since the base on top of onto; one whose
\* tree is that of the commit before it is skipped.
RebaseProject(h, u) ==
  LET conflicts == {c \in u.changes : c.conflict}
      used == UNION {c.parts \cup {c.key} : c \in {x \in conflicts : x.use}}
      whole == {c \in conflicts : c.key[2] = "stage"}
      removed == {c.key[1] : c \in {x \in whole : x.use}}
      start == Restored(u.onto, h[u.base].tree, {c.key[1] : c \in {x \in whole : ~x.use}})
      ReplayCommit(r, i) ==
        LET tree == Replay(r.tree, ReadVersion(h[i - 1].tree), ReadVersion(h[i].tree), used, removed) IN
        [tree |-> tree,
         log |-> IF GitTree(tree) = r.log[Len(r.log)].tree THEN r.log
                 ELSE Append(r.log, [tree |-> GitTree(tree), own |-> h[i].own])]
      first == [tree |-> start, log |-> <<[tree |-> u.onto, own |-> FALSE]>>] IN
  FoldLeft(ReplayCommit, first, [n \in 1..Len(h) - u.base |-> u.base + n]).log

\* Commits below the new version: a generated one is made on top of the
\* base, unless it has the files of the base; the remote branch has its own.
Below(u) ==
  IF u.onto = history[u.base].tree \/ source = "repository" THEN SubSeq(history, 1, u.base - 1)
  ELSE SubSeq(history, 1, u.base)

\* ProjectUpdate.apply(), and cleanup() of what was prepared
Apply ==
  /\ screen = "review"
  /\ IF HasUnsavedChanges
     THEN Show("failed") /\ UNCHANGED <<history, work, before>>
     ELSE /\ history' = Below(update) \o (IF update.fastForward \/ update.drop THEN <<[tree |-> update.onto, own |-> FALSE]>>
                                         ELSE RebaseProject(history, update))
          /\ work' = history'[Len(history')].tree
          /\ before' = [base |-> ReadVersion(history[update.base].tree), project |-> ReadVersion(Tip),
                        new |-> ReadVersion(update.onto), changes |-> update.changes, drop |-> update.drop]
          /\ Show("done")
  /\ UNCHANGED <<source, latest, force, drop, update, counters>>

Next ==
  \/ \E tree \in Edits(work, OwnValues, Own, 1, 4) : Edit(tree)
  \/ Commit \/ Discard
  \/ \E tree \in Edits(latest, NewValues, FromTemplate, IF source = "repository" THEN 2 ELSE Missing, 5) : NewVersion(tree)
  \/ Open \/ LoadOptions \/ Continue \/ Prepare \/ RestoreClean \/ DropToggled
  \/ \E change \in update.changes : Decide(change)
  \/ Apply \/ Close

Spec == Init /\ [][Next]_vars

(***************************************************************************)
(* Properties                                                              *)
(***************************************************************************)
TypeOK ==
  /\ screen \in Screens /\ {force, drop} \subseteq BOOLEAN
  /\ history # <<>> /\ ~history[1].own
  /\ (update # NoUpdate => screen \in {"review", "done", "failed"})

\* What the documentation of the module promises of every setting and file:
\* changed only in the new version, it is applied; changed only in the
\* project, it is kept; changed in both, the user has decided.  A stage that
\* the new version removes is decided as a whole when it has something of
\* the project, and a stage that the project has removed stays removed.
Promised(b, k) ==
  LET s == k[1]
      theirs == Changed(b.base, b.new, k)
      ours == Changed(b.base, b.project, k)
      wholly == Removed(b.project, b.new, s) /\ Present(b.base, s)
                /\ \E x \in Keys : x[1] = s /\ Changed(b.base, b.project, x) /\ b.project.entries[x] # Missing
      chosen == \E c \in b.changes : c.conflict /\ c.use /\ k \in c.parts IN
  IF wholly \/ (theirs /\ ours /\ Entry(b.project, k) # Entry(b.new, k))
  THEN IF chosen /\ (s = Top \/ Present(b.project, s)) THEN b.new.entries[k] ELSE b.project.entries[k]
  ELSE IF ours THEN b.project.entries[k] ELSE b.new.entries[k]

MergedAsDecided ==
  screen = "done" => LET result == ReadVersion(Tip) IN
    \A k \in Keys : result.entries[k] = IF before.drop THEN before.new.entries[k] ELSE Promised(before, k)

\* An update never leaves a stage in parts: a directory of the saved project
\* has a stage.json with its id and name, no two have the same id.
StagesWhole ==
  LET stages == Tip.stages IN
  /\ \A d \in DOMAIN stages : stages[d].id # Missing /\ stages[d].name # Missing
  /\ \A d, e \in DOMAIN stages : stages[d].id = stages[e].id => d = e
=============================================================================
