---------------------------- MODULE ProjectTree ----------------------------
(***************************************************************************)
(* Files of a project as the update of templates sees them                 *)
(* (project_template_update.py): how a version is read, how three versions *)
(* are compared, and how the changes that are taken are written back.      *)
(* A stage has an id, a name, one more argument with the date the user     *)
(* changed it, one file, and perhaps a snapshot of its creation; 0 stands  *)
(* for what is not there.                                                  *)
(***************************************************************************)
EXTENDS Integers, Sequences, SequencesExt

CONSTANT Ids  \* ids of stages: numbers, compared in their order

Missing == 0
Top == 0      \* "stage" of the file outside of stages

IdsAssumption == Ids \subseteq Nat \ {Top}

\* Keys of ProjectVersion.entries: "path", "stage:<id>#<argument>", "stage:<id>/path"
Keys == {<<Top, "file">>} \cup (Ids \X {"id", "name", "a", "file"})
StageKey(s) == <<s, "stage">>
IsArgument(k) == k[2] \in {"id", "name", "a"}

\* A directory under stages/, and the files of a project
NoStage == [id |-> Missing, name |-> Missing, a |-> Missing, date |-> Missing, file |-> Missing, baseline |-> Missing]
HasJson(dir) == dir.id # Missing \/ dir.name # Missing \/ dir.a # Missing
NoFiles == [state |-> 0, top |-> Missing, stages |-> [d \in {} |-> NoStage]]
At(tree, d) == IF d \in DOMAIN tree.stages THEN tree.stages[d] ELSE NoStage
Put(tree, d, dir) == [tree EXCEPT !.stages = [x \in DOMAIN @ \cup {d} |-> IF x = d THEN dir ELSE @[x]]]
Without(tree, gone) == [tree EXCEPT !.stages = [x \in DOMAIN @ \ gone |-> @[x]]]

(***************************************************************************)
(* Reading and comparing                                                   *)
(***************************************************************************)
\* read_project_version(): only a directory whose stage.json has an id counts
ReadVersion(tree) ==
  LET Holds(s) == {d \in DOMAIN tree.stages : tree.stages[d].id = s}
      dirs == [s \in Ids |-> IF Holds(s) = {} THEN Missing ELSE CHOOSE d \in Holds(s) : \A x \in Holds(s) : x <= d]
      Of(s) == IF dirs[s] = Missing THEN NoStage ELSE tree.stages[dirs[s]] IN
  [dirs |-> dirs,
   entries |-> [k \in Keys |-> IF k[1] = Top THEN tree.top ELSE Of(k[1])[k[2]]],
   dates |-> [s \in Ids |-> Of(s).date],
   baselines |-> [s \in Ids |-> Of(s).baseline]]

Present(version, s) == s # Top /\ version.dirs[s] # Missing
\* A value with its date, which compare_versions() looks at together
Entry(version, k) == <<version.entries[k], IF k[2] = "a" THEN version.dates[k[1]] ELSE Missing>>

\* Changes of the new version to take, single or of a whole stage
Change(key, parts, conflict) == [key |-> key, parts |-> parts, conflict |-> conflict, use |-> ~conflict]
Changed(base, version, k) == Entry(version, k) # Entry(base, k)
Differs(base, project, new) == {k \in Keys : Changed(base, new, k) /\ Entry(project, k) # Entry(new, k)}

\* _group_stage_changes(): a stage that only the new version has, and one it
\* has no more, which is decided as a whole with what the project added to it.
Removed(project, new, s) == Present(project, s) /\ ~Present(new, s)
Added(project, new, s) == s # Top /\ ~Present(project, s) /\ Present(new, s)
GroupStageChanges(keys, base, project, new) ==
  LET Gone(k) == Removed(project, new, k[1])
      New(k) == Added(project, new, k[1]) /\ ~Changed(base, project, k)
      Of(s) == {k \in keys : k[1] = s}
      Whole(s) == Of(s) \cup {k \in Keys : k[1] = s /\ project.entries[k] # Missing /\ base.entries[k] # project.entries[k]} IN
  {Change(k, {k}, Changed(base, project, k)) : k \in {x \in keys : ~Gone(x) /\ ~New(x)}}
  \cup {Change(StageKey(s), {k \in Of(s) : New(k)}, FALSE) : s \in {k[1] : k \in {x \in keys : New(x)}}}
  \cup {Change(StageKey(s), Whole(s), \E k \in Whole(s) : k \notin keys \/ Changed(base, project, k)) :
          s \in {k[1] : k \in {x \in keys : Gone(x)}}}

CompareVersions(base, project, new) == GroupStageChanges(Differs(base, project, new), base, project, new)

(***************************************************************************)
(* Writing                                                                 *)
(***************************************************************************)
Taken(changes) == UNION {c.parts : c \in {x \in changes : x.use}}

\* apply_changes(): files are written as they come, stage.json files after
\* them, each followed by the rename of its directory, empty ones removed.
StageDirectory(project, new, s) == IF Present(project, s) THEN project.dirs[s] ELSE new.dirs[s]
Stored(stage, keys, s, new) ==
  LET Value(x) == IF <<s, x>> \in keys THEN new.entries[<<s, x>>] ELSE stage[x] IN
  [stage EXCEPT !.id = Value("id"), !.name = Value("name"), !.a = Value("a"),
                !.date = IF Value("a") = Missing THEN Missing ELSE IF <<s, "a">> \in keys THEN new.dates[s] ELSE @]
Follows(tree, d) ==
  LET name == tree.stages[d].name IN
  IF name \in {Missing, d} \cup DOMAIN tree.stages THEN tree ELSE Without(Put(tree, name, tree.stages[d]), {d})
IsEmptyDirectory(dir) == ~HasJson(dir) /\ dir.file = Missing /\ dir.baseline = Missing

ApplyChanges(tree, changes, project, new) ==
  LET keys == Taken(changes)
      Dir(s) == StageDirectory(project, new, s)
      WriteFile(t, k) ==
        IF k[1] = Top THEN [t EXCEPT !.top = new.entries[k]]
        ELSE IF new.entries[k] = Missing /\ Dir(k[1]) \notin DOMAIN t.stages THEN t
        ELSE Put(t, Dir(k[1]), [At(t, Dir(k[1])) EXCEPT !.file = new.entries[k]])
      WriteJson(t, s) ==
        LET stage == Stored(At(tree, Dir(s)), keys, s, new)
            written == [At(t, Dir(s)) EXCEPT !.id = stage.id, !.name = stage.name, !.a = stage.a, !.date = stage.date] IN
        IF HasJson(stage) THEN Follows(Put(t, Dir(s), written), Dir(s))
        ELSE IF Dir(s) \in DOMAIN t.stages THEN Put(t, Dir(s), written) ELSE t
      Single(s) == \E c \in changes : c.key # StageKey(s) /\ c.use /\ \E k \in c.parts : k[1] = s /\ IsArgument(k)
      touched == {k[1] : k \in {x \in keys : IsArgument(x)}}
      order == SetToSortSeq({s \in touched : Single(s)}, <) \o SetToSortSeq({s \in touched : ~Single(s)}, <)
      files == FoldLeft(WriteFile, tree, SetToSeq({k \in keys : ~IsArgument(k)}))
      written == FoldLeft(WriteJson, files, order) IN
  Without(written, {d \in DOMAIN written.stages : IsEmptyDirectory(written.stages[d])})

\* _replay_stage_property_dates(): dates of a replayed commit, except of what was taken from it already
ReplayDates(tree, parent, commit, changes) ==
  LET dated == {s \in Ids : commit.dates[s] \notin {Missing, parent.dates[s]} /\ <<s, "a">> \notin Taken(changes)}
      dirs == {commit.dirs[s] : s \in dated} IN
  [tree EXCEPT !.stages = [d \in DOMAIN @ |->
     IF d \in dirs /\ @[d].a # Missing THEN [@[d] EXCEPT !.date = commit.dates[CHOOSE s \in dated : commit.dirs[s] = d]] ELSE @[d]]]

\* _replay_stage_baselines(): snapshots of created stages, written where the commit has the stage
ReplayBaselines(tree, parent, commit) ==
  LET changed == {s \in Ids : commit.baselines[s] # parent.baselines[s]}
      Dir(s) == IF Present(commit, s) THEN commit.dirs[s] ELSE parent.dirs[s]
      Replay(t, s) ==
        IF commit.baselines[s] = Missing /\ Dir(s) \notin DOMAIN t.stages THEN t
        ELSE Put(t, Dir(s), [At(t, Dir(s)) EXCEPT !.baseline = commit.baselines[s]]) IN
  FoldLeft(Replay, tree, SetToSortSeq(changed, <))

\* Files of a tree as Git stores them: no directories without files
GitTree(tree) == Without(tree, {d \in DOMAIN tree.stages : IsEmptyDirectory(tree.stages[d])})
=============================================================================
