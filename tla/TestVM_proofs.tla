---------------------------- MODULE TestVM_proofs ----------------------------
(***************************************************************************)
(* Theorems about TestVM, for any launches and builds, whatever fails, is  *)
(* canceled or ends with the app.                                          *)
(***************************************************************************)
EXTENDS TestVM, TLAPS

-----------------------------------------------------------------------------
(* The inductive invariant.                                                *)

\* Places of the thread of a stage, those with a mount, and all.
MountPlaces == {"mounted", "change", "unmount", "unmount_failed"}
Inside == {"operate", "extract", "mark", "copy", "check", "except", "completed", "failed"} \cup MountPlaces
StagePlaces == {"none", "begin", "enter"} \cup Inside
Images == {"none", "partial", "whole"}
Runs == {"none", "running", "ended", "over", "orphan", "terminated"}
Stops == {"none", "asks", "asks aside", "quit", "terminate", "kill"}
Happenings == {"late", "shared", "refused", "mounted"}

PreparationTypeOK ==
    /\ status \in [Launches -> {"setup", "progress", "completed", "failed", "gone"}]
    /\ at \in [Launches -> Nat] /\ mark \in [Launches -> {"scheduled", "progress", "completed", "failed"}]
    /\ pc \in [Launches -> StagePlaces] /\ event \in [Launches -> BOOLEAN]
    /\ canceled \in [Launches -> BOOLEAN] /\ canceler \in [Launches -> {"none", "work", "join", "finish"}]
    /\ continues \in [Launches -> {0, 1}] /\ notified \in [Launches -> BOOLEAN] /\ byView \in [Launches -> BOOLEAN]

ViewTypeOK ==
    /\ plan \in LaunchPlans
    /\ shows \in [Launches -> {0, 1}] /\ finish \in [Launches -> BOOLEAN]
    /\ run \in [Launches -> Runs] /\ stopper \in [Launches -> Stops]
    /\ app \in {"first", "down", "second"} /\ slip \in [Launches -> SUBSET Happenings]

ImageTypeOK ==
    /\ cache \in [Builds -> [image : Images, ready : BOOLEAN]]
    /\ writer \in [Builds -> Launches \cup {"nobody"}]
    /\ dir \in [Launches -> {"empty"} \cup Images] /\ mounted \in [Launches -> BOOLEAN]

TypeOK == PreparationTypeOK /\ ViewTypeOK /\ ImageTypeOK

Shared(l) == "shared" \in slip[l]
Late(l) == "late" \in slip[l]
CacheWhole(b) == cache[b].ready /\ cache[b].image = "whole"

\* One thread or one callback goes on with a preparation, and what is mounted
\* is that of a thread that will unmount it.
Serial(l) ==
    /\ at[l] <= Len(Stages(l))
    /\ continues[l] > 0 => pc[l] = "none"
    /\ shows[l] > 0 => pc[l] = "none" /\ continues[l] = 0
    /\ status[l] = "progress" => shows[l] = 0 /\ at[l] > 0
    /\ status[l] \in {"setup", "completed", "gone"} => pc[l] = "none" /\ continues[l] = 0
    /\ status[l] \in {"setup", "gone"} => shows[l] = 0 /\ canceler[l] = "none"
    /\ mounted[l] => "mounted" \in slip[l] \/ pc[l] \in MountPlaces
    /\ pc[l] \in MountPlaces => at[l] > 3

\* The launches of a build share its entry, and they know when two have
\* written it at a time.  Otherwise it has one writer and is not ready
\* meanwhile, and it is ready only when it is whole.
SharedByAll == \A l, o \in Launches : Build(l) = Build(o) /\ Shared(l) => Shared(o)
EntryOK(l) ==
    /\ cache[Build(l)].ready => cache[Build(l)].image = "whole" /\ \A w \in Launches : ~Writes(w, Build(l))
    /\ pc[l] \in {"extract", "mark"} => writer[Build(l)] = l /\ \A w \in Launches \ {l} : ~Writes(w, Build(l))
    /\ pc[l] = "mark" => cache[Build(l)].image = "whole"
Entries ==
    /\ SharedByAll
    /\ \A l \in Launches : ~Shared(l) => EntryOK(l)
    /\ \A b \in Builds : (\A l \in Launches : Build(l) # b) => ~cache[b].ready

\* A stage of the preparation is over, and has succeeded.
Done(l, i) ==
    \/ at[l] > i
    \/ at[l] = i /\ (pc[l] \in {"check", "completed"} \/ (pc[l] = "none" /\ mark[l] = "completed"))

\* The preparation of a launch whose entry no other launch has written at the
\* same time: what its stages have made is there, and once it is canceled, only
\* the stage that runs goes on.
Prepares(l) ==
    /\ continues[l] > 0 => mark[l] \in {"completed", "failed"}
    /\ pc[l] # "none" => status[l] \in {"progress", "failed"}
    /\ canceler[l] # "none" => canceled[l]
    /\ ~byView[l]
    /\ status[l] = "setup" => run[l] = "none" /\ dir[l] = "none" /\ ~canceled[l] /\ ~notified[l] /\ at[l] = 0
    /\ status[l] = "progress" =>
        /\ run[l] = "none" /\ ~notified[l] /\ dir[l] # "none" /\ app # "down"
        /\ canceled[l] => canceler[l] # "none"
        /\ pc[l] \in {"begin", "enter"} => mark[l] = "scheduled"
        /\ pc[l] \in Inside => mark[l] = "progress"
        /\ Done(l, 2) => CacheWhole(Build(l))
        /\ Done(l, 3) => Direct(l) \/ dir[l] = "whole"
    /\ canceled[l] /\ pc[l] \notin {"none", "begin"} => Late(l) \/ canceler[l] \in {"work", "join"}
    /\ pc[l] = "enter" => ~canceled[l] \/ Late(l)
    /\ status[l] = "failed" => Late(l) \/ (dir[l] = "none" /\ (pc[l] = "none" \/ (pc[l] = "begin" /\ canceled[l])))

\* It is prepared: its image is whole until its machine has run, and is removed
\* with it.
Prepared(l) ==
    /\ status[l] # "completed" => shows[l] = 0 /\ run[l] \notin {"running", "ended"}
    /\ status[l] = "completed" =>
        /\ notified[l] /\ app # "down"
        /\ canceled[l] => canceler[l] # "none" /\ shows[l] = 0 /\ run[l] = "none" /\ dir[l] = "none"
        /\ ~canceled[l] => run[l] \in {"none", "running", "ended", "over"}
        /\ ~canceled[l] /\ run[l] \in {"none", "running"} => IF Direct(l) THEN CacheWhole(Build(l)) ELSE dir[l] = "whole"
        /\ run[l] # "none" => ~finish[l] /\ shows[l] = 0
        /\ run[l] = "over" => dir[l] = "none"
    /\ status[l] = "gone" => app # "first" /\ (app = "second" => dir[l] = "none")

LaunchOK(l) == Serial(l) /\ (~Shared(l) => Prepares(l) /\ Prepared(l))
IInv == TypeOK /\ Entries /\ \A l \in Launches : LaunchOK(l)

-----------------------------------------------------------------------------
(* Lemmas.                                                                 *)

\* Where the stages of a launch are.
LEMMA StagesAre ==
  ASSUME NEW l \in Launches
  PROVE  /\ Len(Stages(l)) \in 3 .. 5
         /\ Stages(l)[1] = "machine" /\ Stages(l)[2] = "cache" /\ Stages(l)[3] = "image"
         /\ \A i \in 4 .. Len(Stages(l)) : Stages(l)[i] \in {"configure", "shutdown"}
<1>1. CASE plan[l].changes # "nothing" /\ plan[l].apple
  BY <1>1 DEF Stages
<1>2. CASE plan[l].changes # "nothing" /\ ~plan[l].apple
  BY <1>2 DEF Stages
<1>3. CASE plan[l].changes = "nothing" /\ plan[l].apple
  BY <1>3 DEF Stages
<1>4. CASE plan[l].changes = "nothing" /\ ~plan[l].apple
  BY <1>4 DEF Stages
<1> QED BY <1>1, <1>2, <1>3, <1>4

\* A step of one launch leaves the others alone.
Others(l) == \A o \in Launches \ {l} :
    /\ status'[o] = status[o] /\ at'[o] = at[o] /\ mark'[o] = mark[o] /\ pc'[o] = pc[o]
    /\ canceled'[o] = canceled[o] /\ canceler'[o] = canceler[o] /\ continues'[o] = continues[o]
    /\ notified'[o] = notified[o] /\ byView'[o] = byView[o] /\ shows'[o] = shows[o] /\ finish'[o] = finish[o]
    /\ dir'[o] = dir[o] /\ mounted'[o] = mounted[o] /\ run'[o] = run[o]
    /\ Late(o)' = Late(o) /\ ("mounted" \in slip[o]) = ("mounted" \in slip'[o]) /\ (Shared(o) => Shared(o)')

\* An entry that is whole stays so, if not two launches write it.
WholeStays == \A l \in Launches : ~Shared(l)' /\ CacheWhole(Build(l)) => CacheWhole(Build(l))'

\* What a step of one launch is shown to do.
LEMMA OneStep ==
  ASSUME IInv, NEW l \in Launches, plan' = plan, app' = app, TypeOK', Others(l), Entries', WholeStays, LaunchOK(l)'
  PROVE  IInv'
<1> SUFFICES ASSUME NEW o \in Launches, o # l PROVE LaunchOK(o)'
  BY DEF IInv
<1>1. Stages(o)' = Stages(o) /\ Build(o)' = Build(o) /\ Direct(o)' = Direct(o)
  BY DEF Stages, Build, Direct
<1>2. Serial(o)'
  BY <1>1 DEF IInv, LaunchOK, Serial, Others
<1>3. ASSUME ~Shared(o)' PROVE Prepares(o)' /\ Prepared(o)'
  <2>1. ~Shared(o) /\ Prepares(o) /\ Prepared(o)
    BY <1>3 DEF IInv, LaunchOK, Others
  <2>2. Done(o, 2)' = Done(o, 2) /\ Done(o, 3)' = Done(o, 3)
    BY DEF Done, Others
  <2>3. CacheWhole(Build(o)) => CacheWhole(Build(o))'
    BY <1>3 DEF WholeStays
  <2>4. Prepares(o)'
    BY <1>1, <2>1, <2>2, <2>3 DEF Prepares, Others
  <2>5. Prepared(o)'
    BY <1>1, <2>1, <2>3 DEF Prepared, Others
  <2> QED BY <2>4, <2>5
<1> QED BY <1>2, <1>3 DEF LaunchOK

\* A step that does not write the cache.
LEMMA CacheStays ==
  ASSUME IInv, NEW l \in Launches, plan' = plan, cache' = cache, writer' = writer, Others(l),
         \A o \in Launches : Shared(o)' <=> Shared(o),
         pc'[l] \in {"extract", "mark"} => pc'[l] = pc[l]
  PROVE  Entries' /\ WholeStays
<1>1. \A o \in Launches : Build(o)' = Build(o)
  BY DEF Build
<1>2. \A o \in Launches, b \in Builds : Writes(o, b)' => Writes(o, b)
  BY <1>1 DEF Writes, Others
<1>3. \A o \in Launches : EntryOK(o) => EntryOK(o)'
  BY <1>1, <1>2 DEF EntryOK, Others, Writes
<1>4. WholeStays
  BY <1>1 DEF WholeStays, CacheWhole
<1>5. SharedByAll' 
  BY <1>1 DEF SharedByAll, IInv, Entries
<1> QED BY <1>1, <1>3, <1>4, <1>5 DEF Entries, IInv

\* The kinds of what a launch has.
LaunchTypes(l) ==
    /\ status[l] \in {"setup", "progress", "completed", "failed", "gone"} /\ at[l] \in Nat
    /\ mark[l] \in {"scheduled", "progress", "completed", "failed"} /\ pc[l] \in StagePlaces
    /\ canceled[l] \in BOOLEAN /\ canceler[l] \in {"none", "work", "join", "finish"}
    /\ continues[l] \in {0, 1} /\ shows[l] \in {0, 1} /\ notified[l] \in BOOLEAN
    /\ dir[l] \in {"empty"} \cup Images /\ run[l] \in Runs /\ Build(l) \in Builds
LEMMA TypesAt == ASSUME TypeOK, NEW l \in Launches PROVE LaunchTypes(l)
BY DEF TypeOK, PreparationTypeOK, ViewTypeOK, ImageTypeOK, LaunchTypes, Build, LaunchPlans

\* The stage that a thread is in.
LEMMA OperatingAt ==
  ASSUME NEW l \in Launches, Serial(l), at[l] \in Nat
  PROVE  /\ \A place : Operating(l, "cache", place) => at[l] = 2 /\ pc[l] = place
         /\ \A place : Operating(l, "image", place) => at[l] = 3 /\ pc[l] = place
         /\ \A place : Operating(l, "configure", place) => at[l] > 3 /\ pc[l] = place
         /\ \A place : Operating(l, "machine", place) => at[l] \notin {2, 3} /\ pc[l] = place
         /\ \A place : Operating(l, "shutdown", place) => at[l] \notin {2, 3} /\ pc[l] = place
<1>1. at[l] > 0 => at[l] \in 1 .. Len(Stages(l))
  BY StagesAre DEF Serial
<1>2. at[l] \in 4 .. Len(Stages(l)) => Stages(l)[at[l]] \in {"configure", "shutdown"}
  BY StagesAre
<1>3. at[l] > 0 => at[l] \in {1, 2, 3} \/ at[l] \in 4 .. Len(Stages(l))
  BY <1>1, StagesAre
<1>4. /\ at[l] = 1 => Stages(l)[at[l]] = "machine"
      /\ at[l] = 2 => Stages(l)[at[l]] = "cache"
      /\ at[l] = 3 => Stages(l)[at[l]] = "image"
      /\ at[l] \in 4 .. Len(Stages(l)) => Stages(l)[at[l]] \in {"configure", "shutdown"}
  BY <1>2, StagesAre
<1> QED BY <1>3, <1>4, StagesAre DEF Operating

\* What else has happened to a launch does not say that its entry was shared.
LEMMA SlipsOther ==
  ASSUME ViewTypeOK, NEW l \in Launches, NEW what \in {"late", "refused", "mounted"}, Slips(l, what)
  PROVE  /\ \A o \in Launches : Shared(o)' <=> Shared(o)
         /\ slip' \in [Launches -> SUBSET Happenings] /\ slip'[l] = slip[l] \cup {what}
         /\ \A o \in Launches \ {l} : slip'[o] = slip[o]
BY DEF ViewTypeOK, Slips, Shared, Happenings

\* An entry is marked.
LEMMA EntryMarked ==
  ASSUME ImageTypeOK, NEW b \in Builds, cache' = [cache EXCEPT ![b].ready = TRUE]
  PROVE  /\ cache' \in [Builds -> [image : Images, ready : BOOLEAN]]
         /\ cache'[b].ready /\ cache'[b].image = cache[b].image
         /\ \A c \in Builds \ {b} : cache'[c] = cache[c]
<1>1. cache' = [cache EXCEPT ![b] = [cache[b] EXCEPT !.ready = TRUE]] /\ cache[b] \in [image : Images, ready : BOOLEAN]
  BY DEF ImageTypeOK
<1>2. \A e \in [image : Images, ready : BOOLEAN] :
        LET f == [e EXCEPT !.ready = TRUE] IN f \in [image : Images, ready : BOOLEAN] /\ f.ready /\ f.image = e.image
  OBVIOUS
<1> QED BY <1>1, <1>2 DEF ImageTypeOK

\* An entry is written anew.
LEMMA EntrySet ==
  ASSUME ImageTypeOK, NEW b \in Builds, NEW image \in Images, SetCache(b, image, FALSE)
  PROVE  /\ cache' \in [Builds -> [image : Images, ready : BOOLEAN]]
         /\ ~cache'[b].ready /\ cache'[b].image = image
         /\ \A c \in Builds \ {b} : cache'[c] = cache[c]
BY DEF ImageTypeOK, SetCache

\* The writer of an entry goes on, or is ready.
LEMMA WriterStep ==
  ASSUME IInv, NEW l \in Launches, plan' = plan, writer' = writer, Others(l),
         \A o \in Launches : Shared(o)' <=> Shared(o),
         pc[l] \in {"extract", "mark"}, pc'[l] # "extract",
         \A c \in Builds \ {Build(l)} : cache'[c] = cache[c],
         ~Shared(l) /\ pc'[l] = "mark" => cache'[Build(l)].image = "whole" /\ ~cache'[Build(l)].ready,
         ~Shared(l) /\ cache'[Build(l)].ready => cache'[Build(l)].image = "whole"
  PROVE  Entries' /\ WholeStays
<1>1. /\ \A o \in Launches : Build(o)' = Build(o) /\ Build(o) \in Builds
      /\ \A o \in Launches, b \in Builds : Writes(o, b)' => Writes(o, b)
  <2>1. \A o \in Launches : Build(o)' = Build(o) /\ Build(o) \in Builds
    BY TypesAt DEF Build, IInv, LaunchTypes
  <2> QED BY <2>1 DEF Others, Writes
<1>2. ASSUME NEW o \in Launches, ~Shared(o) PROVE EntryOK(o)' /\ (CacheWhole(Build(o)) => CacheWhole(Build(o))')
  <2>1. CASE Build(o) = Build(l)
    <3>1. ~Shared(l) /\ EntryOK(l) /\ Writes(l, Build(l))
      BY <1>2, <2>1 DEF IInv, Entries, SharedByAll, Writes
    <3>2. \A w \in Launches \ {l} : ~Writes(w, Build(l)) /\ ~Writes(w, Build(l))'
      BY <3>1, <1>1 DEF EntryOK
    <3>3. ~cache[Build(l)].ready /\ writer[Build(l)] = l
      BY <3>1 DEF EntryOK, Writes
    <3>4. o # l => pc'[o] \notin {"extract", "mark"}
      BY <1>1, <2>1, <3>2 DEF Writes, Others
    <3>5. cache'[Build(l)].ready => ~Writes(l, Build(l))'
      BY <3>1 DEF Writes
    <3> QED BY <1>1, <2>1, <3>1, <3>2, <3>3, <3>4, <3>5 DEF EntryOK, CacheWhole
  <2>2. CASE Build(o) # Build(l)
    <3>1. EntryOK(o) /\ cache'[Build(o)] = cache[Build(o)] /\ pc'[o] = pc[o]
      BY <1>1, <1>2, <2>2 DEF IInv, Entries, Others
    <3> QED BY <1>1, <3>1 DEF EntryOK, CacheWhole
  <2> QED BY <2>1, <2>2
<1>3. SharedByAll' /\ WholeStays
  BY <1>1, <1>2 DEF IInv, Entries, SharedByAll, WholeStays
<1> QED BY <1>1, <1>2, <1>3 DEF IInv, Entries

LEMMA InitIInv == Init => IInv
<1> SUFFICES ASSUME Init PROVE IInv
  OBVIOUS
<1>1. PreparationTypeOK
  BY DEF Init, PreparationTypeOK, StagePlaces, Inside, MountPlaces
<1>2. ViewTypeOK
  BY Parameters DEF Init, ViewTypeOK, Happenings, Runs, Stops
<1>3. ImageTypeOK
  BY DEF Init, ImageTypeOK, Images, Nothing
<1>4. ASSUME NEW l \in Launches PROVE Build(l) \in Builds /\ Serial(l) /\ Prepares(l) /\ Prepared(l) /\ EntryOK(l) /\ ~Shared(l)
  <2>1. Build(l) \in Builds
    BY <1>2 DEF ViewTypeOK, LaunchPlans, Build
  <2>2. Serial(l)
    BY StagesAre DEF Init, Serial, MountPlaces
  <2>3. Prepares(l) /\ Prepared(l)
    BY DEF Init, Prepares, Prepared, Done, Inside, MountPlaces
  <2>4. EntryOK(l) /\ ~Shared(l)
    BY <2>1 DEF Init, EntryOK, Shared, Nothing, Writes
  <2> QED BY <2>1, <2>2, <2>3, <2>4
<1>5. Entries
  BY <1>4 DEF Entries, SharedByAll, Init, Nothing
<1> QED BY <1>1, <1>2, <1>3, <1>4, <1>5 DEF IInv, LaunchOK, TypeOK

\* The main loop starts, continues and ends a preparation.
LEMMA PreparationStep ==
  ASSUME IInv, NEW l \in Launches, app # "down",
         \/ Launch(l)
         \/ Continue(l) /\ ContinueEnded(l)
         \/ Continue(l) /\ ContinueFails(l)
         \/ Continue(l) /\ ContinueStarts(l)
         \/ Continue(l) /\ ContinueEnds(l)
  PROVE  IInv'
<1>0. TypeOK /\ Entries /\ LaunchOK(l) /\ LaunchTypes(l)
  BY TypesAt DEF IInv
<1>a. Len(Stages(l)) \in Nat /\ Len(Stages(l)) >= 3
  BY StagesAre
<1>1. CASE Launch(l)
  <2>1. plan' = plan /\ app' = app /\ Others(l)
    BY <1>1, <1>0 DEF Launch, Begins, prepVars, imageVars, runVars, Others, Late, Shared, TypeOK, PreparationTypeOK,
       ViewTypeOK, ImageTypeOK
  <2>2. Stages(l)' = Stages(l) /\ Build(l)' = Build(l) /\ (Direct(l)' <=> Direct(l))
    BY <2>1 DEF Stages, Build, Direct
  <2>3. /\ status[l] = "setup"
        /\ status'[l] = "progress" /\ at'[l] = 1 /\ mark'[l] = "scheduled" /\ pc'[l] = "begin" /\ dir'[l] = "empty"
        /\ (canceled'[l] <=> canceled[l]) /\ canceler'[l] = canceler[l] /\ continues'[l] = continues[l] /\ (notified'[l] <=> notified[l])
        /\ (byView'[l] <=> byView[l]) /\ shows'[l] = shows[l] /\ (finish'[l] <=> finish[l]) /\ (mounted'[l] <=> mounted[l])
        /\ run'[l] = run[l] /\ slip'[l] = slip[l]
    BY <1>1, <1>0 DEF Launch, Begins, prepVars, imageVars, runVars, LaunchOK, Serial, TypeOK, PreparationTypeOK,
       ViewTypeOK, ImageTypeOK
  <2>4. PreparationTypeOK'
    BY <1>1, <1>0, <2>3 DEF Launch, Begins, prepVars, imageVars, runVars, TypeOK, PreparationTypeOK, StagePlaces,
       Inside, MountPlaces
  <2>5. ViewTypeOK'
    BY <1>1, <1>0, <2>3 DEF Launch, Begins, prepVars, imageVars, runVars, TypeOK, ViewTypeOK, Happenings, Runs
  <2>6. ImageTypeOK'
    BY <1>1, <1>0, <2>3 DEF Launch, Begins, prepVars, imageVars, runVars, TypeOK, ImageTypeOK, Images
  <2>7. Entries' /\ WholeStays
    BY <1>1, <1>0, <2>1, <2>3, CacheStays DEF Launch, Begins, prepVars, imageVars, runVars, Others, Shared
  <2>8. Serial(l)'
    <3>2. at'[l] = 1
      BY <2>3
    <3>0. at'[l] <= Len(Stages(l))
      BY <1>a, <3>2
    <3>1. (at[l] <= Len(Stages(l)))'
      BY <3>0, <2>2
    <3> QED BY <1>0, <2>3, <3>1 DEF LaunchOK, Serial, LaunchTypes, StagePlaces, Inside, MountPlaces
  <2>9. ~Shared(l)' => Prepares(l)'
    <3>1. ~Done(l, 2)' /\ ~Done(l, 3)'
      BY <2>3 DEF Done
    <3> QED BY <1>0, <2>1, <2>2, <2>3, <2>7, <3>1 DEF LaunchOK, Serial, Prepares, Prepared, Shared, Late,
       LaunchTypes, StagePlaces, Inside, MountPlaces
  <2>10. ~Shared(l)' => Prepared(l)'
    BY <1>0, <2>1, <2>2, <2>3, <2>7 DEF LaunchOK, Serial, Prepares, Prepared, Done, Shared, Late, WholeStays,
       LaunchTypes, StagePlaces, Inside, MountPlaces
  <2> QED BY <2>1, <2>4, <2>5, <2>6, <2>7, <2>8, <2>9, <2>10, OneStep DEF LaunchOK, TypeOK
<1>2. CASE Continue(l) /\ ContinueEnded(l)
  <2>1. plan' = plan /\ app' = app /\ Others(l)
    BY <1>2, <1>0 DEF Continue, ContinueEnded, prepVars, imageVars, runVars, Others, Late, Shared, TypeOK,
       PreparationTypeOK, ViewTypeOK, ImageTypeOK
  <2>2. Stages(l)' = Stages(l) /\ Build(l)' = Build(l) /\ (Direct(l)' <=> Direct(l))
    BY <2>1 DEF Stages, Build, Direct
  <2>3. /\ status[l] # "progress" /\ continues[l] = 1
        /\ continues'[l] = 0
        /\ status'[l] = status[l] /\ at'[l] = at[l] /\ mark'[l] = mark[l] /\ pc'[l] = pc[l]
        /\ (canceled'[l] <=> canceled[l]) /\ canceler'[l] = canceler[l] /\ (notified'[l] <=> notified[l]) /\ (byView'[l] <=> byView[l])
        /\ shows'[l] = shows[l] /\ (finish'[l] <=> finish[l]) /\ dir'[l] = dir[l] /\ (mounted'[l] <=> mounted[l])
        /\ run'[l] = run[l] /\ slip'[l] = slip[l]
    BY <1>2, <1>0 DEF Continue, ContinueEnded, prepVars, imageVars, runVars, LaunchOK, Serial, TypeOK,
       PreparationTypeOK, ViewTypeOK, ImageTypeOK
  <2>4. PreparationTypeOK'
    BY <1>2, <1>0, <2>3 DEF Continue, ContinueEnded, prepVars, imageVars, runVars, TypeOK, PreparationTypeOK,
       StagePlaces, Inside, MountPlaces
  <2>5. ViewTypeOK'
    BY <1>2, <1>0, <2>3 DEF Continue, ContinueEnded, prepVars, imageVars, runVars, TypeOK, ViewTypeOK, Happenings, Runs
  <2>6. ImageTypeOK'
    BY <1>2, <1>0, <2>3 DEF Continue, ContinueEnded, prepVars, imageVars, runVars, TypeOK, ImageTypeOK, Images
  <2>7. Entries' /\ WholeStays
    BY <1>2, <1>0, <2>1, <2>3, CacheStays DEF Continue, ContinueEnded, prepVars, imageVars, runVars, Others, Shared
  <2>8. Serial(l)'
    BY <1>0, <2>2, <2>3 DEF LaunchOK, Serial, LaunchTypes, StagePlaces, Inside, MountPlaces
  <2>9. ~Shared(l)' => Prepares(l)'
    BY <1>0, <2>1, <2>2, <2>3, <2>7 DEF LaunchOK, Serial, Prepares, Prepared, Done, Shared, Late, WholeStays,
       LaunchTypes, StagePlaces, Inside, MountPlaces
  <2>10. ~Shared(l)' => Prepared(l)'
    BY <1>0, <2>1, <2>2, <2>3, <2>7 DEF LaunchOK, Serial, Prepares, Prepared, Done, Shared, Late, WholeStays,
       LaunchTypes, StagePlaces, Inside, MountPlaces
  <2> QED BY <2>1, <2>4, <2>5, <2>6, <2>7, <2>8, <2>9, <2>10, OneStep DEF LaunchOK, TypeOK
<1>3. CASE Continue(l) /\ ContinueFails(l)
  <2>1. plan' = plan /\ app' = app /\ Others(l)
    BY <1>3, <1>0 DEF Continue, ContinueFails, CompleteProcess, prepVars, imageVars, runVars, Others, Late, Shared,
       TypeOK, PreparationTypeOK, ViewTypeOK, ImageTypeOK
  <2>2. Stages(l)' = Stages(l) /\ Build(l)' = Build(l) /\ (Direct(l)' <=> Direct(l))
    BY <2>1 DEF Stages, Build, Direct
  <2>3. /\ status[l] = "progress" /\ continues[l] = 1
        /\ dir'[l] = IF notified[l] THEN dir[l] ELSE "none"
        /\ status'[l] = "failed" /\ continues'[l] = 0 /\ notified'[l]
        /\ at'[l] = at[l] /\ mark'[l] = mark[l] /\ pc'[l] = pc[l] /\ (canceled'[l] <=> canceled[l])
        /\ canceler'[l] = canceler[l] /\ (byView'[l] <=> byView[l]) /\ shows'[l] = shows[l] /\ (finish'[l] <=> finish[l])
        /\ (mounted'[l] <=> mounted[l]) /\ run'[l] = run[l] /\ slip'[l] = slip[l]
    BY <1>3, <1>0 DEF Continue, ContinueFails, CompleteProcess, prepVars, imageVars, runVars, LaunchOK, Serial,
       TypeOK, PreparationTypeOK, ViewTypeOK, ImageTypeOK
  <2>4. PreparationTypeOK'
    BY <1>3, <1>0, <2>3 DEF Continue, ContinueFails, CompleteProcess, prepVars, imageVars, runVars, TypeOK,
       PreparationTypeOK, StagePlaces, Inside, MountPlaces
  <2>5. ViewTypeOK'
    BY <1>3, <1>0, <2>3 DEF Continue, ContinueFails, CompleteProcess, prepVars, imageVars, runVars, TypeOK,
       ViewTypeOK, Happenings, Runs
  <2>6. ImageTypeOK'
    BY <1>3, <1>0, <2>3 DEF Continue, ContinueFails, CompleteProcess, prepVars, imageVars, runVars, TypeOK,
       ImageTypeOK, Images
  <2>7. Entries' /\ WholeStays
    BY <1>3, <1>0, <2>1, <2>3, CacheStays DEF Continue, ContinueFails, CompleteProcess, prepVars, imageVars,
       runVars, Others, Shared
  <2>8. Serial(l)'
    BY <1>0, <2>2, <2>3 DEF LaunchOK, Serial, LaunchTypes, StagePlaces, Inside, MountPlaces
  <2>9. ~Shared(l)' => Prepares(l)'
    BY <1>0, <2>1, <2>2, <2>3, <2>7 DEF LaunchOK, Serial, Prepares, Prepared, Done, Shared, Late, WholeStays,
       LaunchTypes, StagePlaces, Inside, MountPlaces
  <2>10. ~Shared(l)' => Prepared(l)'
    BY <1>0, <2>1, <2>2, <2>3, <2>7 DEF LaunchOK, Serial, Prepares, Prepared, Done, Shared, Late, WholeStays,
       LaunchTypes, StagePlaces, Inside, MountPlaces
  <2> QED BY <2>1, <2>4, <2>5, <2>6, <2>7, <2>8, <2>9, <2>10, OneStep DEF LaunchOK, TypeOK
<1>4. CASE Continue(l) /\ ContinueStarts(l)
  <2>1. plan' = plan /\ app' = app /\ Others(l)
    BY <1>4, <1>0 DEF Continue, ContinueStarts, Begins, prepVars, imageVars, runVars, Others, Late, Shared, TypeOK,
       PreparationTypeOK, ViewTypeOK, ImageTypeOK
  <2>2. Stages(l)' = Stages(l) /\ Build(l)' = Build(l) /\ (Direct(l)' <=> Direct(l))
    BY <2>1 DEF Stages, Build, Direct
  <2>3. /\ status[l] = "progress" /\ continues[l] = 1 /\ mark[l] # "failed" /\ at[l] < Len(Stages(l))
        /\ at'[l] = at[l] + 1 /\ mark'[l] = "scheduled" /\ pc'[l] = "begin" /\ continues'[l] = 0
        /\ status'[l] = status[l] /\ (canceled'[l] <=> canceled[l]) /\ canceler'[l] = canceler[l] /\ (notified'[l] <=> notified[l])
        /\ (byView'[l] <=> byView[l]) /\ shows'[l] = shows[l] /\ (finish'[l] <=> finish[l]) /\ dir'[l] = dir[l]
        /\ (mounted'[l] <=> mounted[l]) /\ run'[l] = run[l] /\ slip'[l] = slip[l]
    BY <1>4, <1>0 DEF Continue, ContinueStarts, Begins, prepVars, imageVars, runVars, LaunchOK, Serial, TypeOK,
       PreparationTypeOK, ViewTypeOK, ImageTypeOK
  <2>4. PreparationTypeOK'
    BY <1>4, <1>0, <2>3 DEF Continue, ContinueStarts, Begins, prepVars, imageVars, runVars, TypeOK,
       PreparationTypeOK, StagePlaces, Inside, MountPlaces
  <2>5. ViewTypeOK'
    BY <1>4, <1>0, <2>3 DEF Continue, ContinueStarts, Begins, prepVars, imageVars, runVars, TypeOK, ViewTypeOK,
       Happenings, Runs
  <2>6. ImageTypeOK'
    BY <1>4, <1>0, <2>3 DEF Continue, ContinueStarts, Begins, prepVars, imageVars, runVars, TypeOK, ImageTypeOK, Images
  <2>7. Entries' /\ WholeStays
    BY <1>4, <1>0, <2>1, <2>3, CacheStays DEF Continue, ContinueStarts, Begins, prepVars, imageVars, runVars,
       Others, Shared
  <2>8. Serial(l)'
    BY <1>0, <2>2, <2>3 DEF LaunchOK, Serial, LaunchTypes, StagePlaces, Inside, MountPlaces
  <2>9. ~Shared(l)' => Prepares(l)'
    BY <1>0, <2>1, <2>2, <2>3, <2>7 DEF LaunchOK, Serial, Prepares, Prepared, Done, Shared, Late, WholeStays,
       LaunchTypes, StagePlaces, Inside, MountPlaces
  <2>10. ~Shared(l)' => Prepared(l)'
    BY <1>0, <2>1, <2>2, <2>3, <2>7 DEF LaunchOK, Serial, Prepares, Prepared, Done, Shared, Late, WholeStays,
       LaunchTypes, StagePlaces, Inside, MountPlaces
  <2> QED BY <2>1, <2>4, <2>5, <2>6, <2>7, <2>8, <2>9, <2>10, OneStep DEF LaunchOK, TypeOK
<1>5. CASE Continue(l) /\ ContinueEnds(l)
  <2>1. plan' = plan /\ app' = app /\ Others(l)
    BY <1>5, <1>0 DEF Continue, ContinueEnds, CompleteProcess, prepVars, imageVars, runVars, Others, Late, Shared,
       TypeOK, PreparationTypeOK, ViewTypeOK, ImageTypeOK
  <2>2. Stages(l)' = Stages(l) /\ Build(l)' = Build(l) /\ (Direct(l)' <=> Direct(l))
    BY <2>1 DEF Stages, Build, Direct
  <2>3. /\ status[l] = "progress" /\ continues[l] = 1 /\ mark[l] # "failed" /\ at[l] = Len(Stages(l))
        /\ shows'[l] \in {shows[l], shows[l] + 1} /\ (canceled[l] /\ ~byView[l] => shows'[l] = shows[l])
        /\ dir'[l] = IF notified[l] \/ ~canceled[l] THEN dir[l] ELSE "none"
        /\ status'[l] = "completed" /\ continues'[l] = 0 /\ notified'[l]
        /\ at'[l] = at[l] /\ mark'[l] = mark[l] /\ pc'[l] = pc[l] /\ (canceled'[l] <=> canceled[l])
        /\ canceler'[l] = canceler[l] /\ (byView'[l] <=> byView[l]) /\ (finish'[l] <=> finish[l]) /\ (mounted'[l] <=> mounted[l])
        /\ run'[l] = run[l] /\ slip'[l] = slip[l]
    BY <1>5, <1>0 DEF Continue, ContinueEnds, CompleteProcess, prepVars, imageVars, runVars, LaunchOK, Serial,
       TypeOK, PreparationTypeOK, ViewTypeOK, ImageTypeOK
  <2>4. PreparationTypeOK'
    BY <1>5, <1>0, <2>3 DEF Continue, ContinueEnds, CompleteProcess, prepVars, imageVars, runVars, TypeOK,
       PreparationTypeOK, StagePlaces, Inside, MountPlaces
  <2>5. ViewTypeOK'
    <3>1. PICK shown \in {0, 1} : shows' = [shows EXCEPT ![l] = @ + shown]
      BY <1>5 DEF Continue, ContinueEnds
    <3>2. shows[l] = 0
      BY <1>0, <2>3 DEF LaunchOK, Serial
    <3>3. shows' \in [Launches -> {0, 1}]
      BY <1>0, <3>1, <3>2 DEF TypeOK, ViewTypeOK
    <3> QED BY <1>5, <1>0, <3>3 DEF Continue, ContinueEnds, CompleteProcess, prepVars, imageVars, runVars, TypeOK,
       ViewTypeOK
  <2>6. ImageTypeOK'
    BY <1>5, <1>0, <2>3 DEF Continue, ContinueEnds, CompleteProcess, prepVars, imageVars, runVars, TypeOK,
       ImageTypeOK, Images
  <2>7. Entries' /\ WholeStays
    BY <1>5, <1>0, <2>1, <2>3, CacheStays DEF Continue, ContinueEnds, CompleteProcess, prepVars, imageVars, runVars,
       Others, Shared
  <2>8. Serial(l)'
    BY <1>0, <2>2, <2>3 DEF LaunchOK, Serial, LaunchTypes, StagePlaces, Inside, MountPlaces
  <2>9. ~Shared(l)' => Prepares(l)'
    BY <1>0, <2>1, <2>2, <2>3, <2>7 DEF LaunchOK, Serial, Prepares, Prepared, Done, Shared, Late, WholeStays,
       LaunchTypes, StagePlaces, Inside, MountPlaces
  <2>10. ~Shared(l)' => Prepared(l)'
    <3>0. ~Shared(l) => pc[l] = "none" /\ mark[l] = "completed"
      BY <1>0, <2>3 DEF LaunchOK, Serial, Prepares
    <3>a. at[l] \in Nat /\ at[l] >= 3
      BY <1>a, <2>3
    <3>1. ~Shared(l) => Done(l, 2) /\ Done(l, 3)
      BY <3>0, <3>a DEF Done
    <3>2. ASSUME ~Shared(l) PROVE Prepared(l)'
      <4>1. CacheWhole(Build(l)) /\ (Direct(l) \/ dir[l] = "whole")
        BY <1>0, <2>3, <3>1, <3>2 DEF LaunchOK, Prepares
      <4>2. CacheWhole(Build(l))'
        BY <2>3, <2>7, <3>2, <4>1 DEF WholeStays, Shared
      <4> QED BY <1>0, <2>1, <2>2, <2>3, <3>2, <4>1, <4>2 DEF LaunchOK, Serial, Prepares, Prepared
    <3> QED BY <2>3, <3>2 DEF Shared
  <2> QED BY <2>1, <2>4, <2>5, <2>6, <2>7, <2>8, <2>9, <2>10, OneStep DEF LaunchOK, TypeOK
<1> QED BY <1>1, <1>2, <1>3, <1>4, <1>5

\* A preparation is canceled.
LEMMA CancelStep ==
  ASSUME IInv, NEW l \in Launches, app # "down",
         \/ CancelAsync(l)
         \/ FinishCancel(l)
         \/ Cancel(l) /\ ~FinishCancel(l)
  PROVE  IInv'
<1>0. TypeOK /\ Entries /\ LaunchOK(l) /\ LaunchTypes(l)
  BY TypesAt DEF IInv
<1>1. CASE CancelAsync(l)
  <2>1. plan' = plan /\ app' = app /\ Others(l)
    BY <1>1, <1>0 DEF CancelAsync, Slips, prepVars, imageVars, runVars, Others, Late, Shared, TypeOK,
       PreparationTypeOK, ViewTypeOK, ImageTypeOK
  <2>2. Stages(l)' = Stages(l) /\ Build(l)' = Build(l) /\ (Direct(l)' <=> Direct(l))
    BY <2>1 DEF Stages, Build, Direct
  <2>3. /\ status[l] = "progress" /\ ~canceled[l]
        /\ canceler'[l] = IF mark[l] = "progress" THEN "work" ELSE "finish"
        /\ slip'[l] = IF mark[l] # "progress" /\ pc[l] = "enter" THEN slip[l] \cup {"late"} ELSE slip[l]
        /\ canceled'[l]
        /\ status'[l] = status[l] /\ at'[l] = at[l] /\ mark'[l] = mark[l] /\ pc'[l] = pc[l]
        /\ continues'[l] = continues[l] /\ (notified'[l] <=> notified[l]) /\ (byView'[l] <=> byView[l]) /\ shows'[l] = shows[l]
        /\ (finish'[l] <=> finish[l]) /\ dir'[l] = dir[l] /\ (mounted'[l] <=> mounted[l]) /\ run'[l] = run[l]
    <3>1. slip'[l] = IF mark[l] # "progress" /\ pc[l] = "enter" THEN slip[l] \cup {"late"} ELSE slip[l]
      BY <1>1, <1>0, SlipsOther DEF CancelAsync, TypeOK
    <3> QED BY <1>1, <1>0, <3>1 DEF CancelAsync, imageVars, runVars, TypeOK, PreparationTypeOK
  <2>4. PreparationTypeOK'
    <3>1. canceler' \in [Launches -> {"none", "work", "join", "finish"}]
      BY <1>1, <1>0 DEF CancelAsync, Slips, prepVars, imageVars, runVars, TypeOK, PreparationTypeOK
    <3>2. event' \in [Launches -> BOOLEAN] /\ canceled' \in [Launches -> BOOLEAN]
      BY <1>1, <1>0 DEF CancelAsync, Slips, prepVars, imageVars, runVars, TypeOK, PreparationTypeOK
    <3> QED BY <1>1, <1>0, <3>1, <3>2 DEF CancelAsync, Slips, prepVars, imageVars, runVars, TypeOK, PreparationTypeOK
  <2>5. ViewTypeOK'
    BY <1>1, <1>0, <2>3 DEF CancelAsync, Slips, prepVars, imageVars, runVars, TypeOK, ViewTypeOK, Happenings, Runs
  <2>6. ImageTypeOK'
    BY <1>1, <1>0, <2>3 DEF CancelAsync, Slips, prepVars, imageVars, runVars, TypeOK, ImageTypeOK, Images
  <2>7. Entries' /\ WholeStays
    <3>1. \A o \in Launches : Shared(o)' <=> Shared(o)
      BY <1>1, <1>0, SlipsOther DEF CancelAsync, TypeOK, Shared
    <3> QED BY <1>1, <1>0, <2>1, <2>3, <3>1, CacheStays DEF CancelAsync, Slips, prepVars, imageVars, runVars
  <2>8. Serial(l)'
    BY <1>0, <2>2, <2>3 DEF LaunchOK, Serial, LaunchTypes, StagePlaces, Inside, MountPlaces
  <2>9. ~Shared(l)' => Prepares(l)'
    BY <1>0, <2>1, <2>2, <2>3, <2>7 DEF LaunchOK, Serial, Prepares, Prepared, Done, Shared, Late, WholeStays,
       LaunchTypes, StagePlaces, Inside, MountPlaces
  <2>10. ~Shared(l)' => Prepared(l)'
    BY <1>0, <2>1, <2>2, <2>3, <2>7 DEF LaunchOK, Serial, Prepares, Prepared, Done, Shared, Late, WholeStays,
       LaunchTypes, StagePlaces, Inside, MountPlaces
  <2> QED BY <2>1, <2>4, <2>5, <2>6, <2>7, <2>8, <2>9, <2>10, OneStep DEF LaunchOK, TypeOK
<1>2. CASE FinishCancel(l)
  <2>1. plan' = plan /\ app' = app /\ Others(l)
    BY <1>2, <1>0 DEF FinishCancel, CompleteProcess, prepVars, imageVars, runVars, Others, Late, Shared, TypeOK,
       PreparationTypeOK, ViewTypeOK, ImageTypeOK
  <2>2. Stages(l)' = Stages(l) /\ Build(l)' = Build(l) /\ (Direct(l)' <=> Direct(l))
    BY <2>1 DEF Stages, Build, Direct
  <2>3. /\ canceler[l] = "finish"
        /\ mark'[l] = IF mark[l] \in {"progress", "scheduled"} THEN "failed" ELSE mark[l]
        /\ dir'[l] = IF notified[l] THEN dir[l] ELSE "none"
        /\ status'[l] = "failed" /\ canceler'[l] = "none" /\ notified'[l]
        /\ at'[l] = at[l] /\ pc'[l] = pc[l] /\ (canceled'[l] <=> canceled[l]) /\ continues'[l] = continues[l]
        /\ (byView'[l] <=> byView[l]) /\ shows'[l] = shows[l] /\ (finish'[l] <=> finish[l]) /\ (mounted'[l] <=> mounted[l])
        /\ run'[l] = run[l] /\ slip'[l] = slip[l]
    BY <1>2, <1>0 DEF FinishCancel, CompleteProcess, prepVars, imageVars, runVars, LaunchOK, Serial, TypeOK,
       PreparationTypeOK, ViewTypeOK, ImageTypeOK
  <2>4. PreparationTypeOK'
    BY <1>2, <1>0, <2>3 DEF FinishCancel, CompleteProcess, prepVars, imageVars, runVars, TypeOK, PreparationTypeOK,
       StagePlaces, Inside, MountPlaces
  <2>5. ViewTypeOK'
    BY <1>2, <1>0, <2>3 DEF FinishCancel, CompleteProcess, prepVars, imageVars, runVars, TypeOK, ViewTypeOK,
       Happenings, Runs
  <2>6. ImageTypeOK'
    BY <1>2, <1>0, <2>3 DEF FinishCancel, CompleteProcess, prepVars, imageVars, runVars, TypeOK, ImageTypeOK, Images
  <2>7. Entries' /\ WholeStays
    BY <1>2, <1>0, <2>1, <2>3, CacheStays DEF FinishCancel, CompleteProcess, prepVars, imageVars, runVars, Others,
       Shared
  <2>8. Serial(l)'
    BY <1>0, <2>2, <2>3 DEF LaunchOK, Serial, LaunchTypes, StagePlaces, Inside, MountPlaces
  <2>9. ~Shared(l)' => Prepares(l)'
    BY <1>0, <2>1, <2>2, <2>3, <2>7 DEF LaunchOK, Serial, Prepares, Prepared, Done, Shared, Late, WholeStays,
       LaunchTypes, StagePlaces, Inside, MountPlaces
  <2>10. ~Shared(l)' => Prepared(l)'
    BY <1>0, <2>1, <2>2, <2>3, <2>7 DEF LaunchOK, Serial, Prepares, Prepared, Done, Shared, Late, WholeStays,
       LaunchTypes, StagePlaces, Inside, MountPlaces
  <2> QED BY <2>1, <2>4, <2>5, <2>6, <2>7, <2>8, <2>9, <2>10, OneStep DEF LaunchOK, TypeOK
<1>3. CASE Cancel(l) /\ ~FinishCancel(l)
  <2>1. plan' = plan /\ app' = app /\ Others(l)
    BY <1>3, <1>0 DEF Cancel, CancelWork, CancelJoins, prepVars, imageVars, runVars, Others, Late, Shared, TypeOK,
       PreparationTypeOK, ViewTypeOK, ImageTypeOK
  <2>2. Stages(l)' = Stages(l) /\ Build(l)' = Build(l) /\ (Direct(l)' <=> Direct(l))
    BY <2>1 DEF Stages, Build, Direct
  <2>3. /\ ((canceler[l] = "work" /\ canceler'[l] = "join") \/ (canceler[l] = "join" /\ pc[l] = "none" /\ canceler'[l] = "finish"))
        /\ status'[l] = status[l] /\ at'[l] = at[l] /\ mark'[l] = mark[l] /\ pc'[l] = pc[l]
        /\ (canceled'[l] <=> canceled[l]) /\ continues'[l] = continues[l] /\ (notified'[l] <=> notified[l]) /\ (byView'[l] <=> byView[l])
        /\ shows'[l] = shows[l] /\ (finish'[l] <=> finish[l]) /\ dir'[l] = dir[l] /\ (mounted'[l] <=> mounted[l])
        /\ run'[l] = run[l] /\ slip'[l] = slip[l]
    BY <1>3, <1>0 DEF Cancel, CancelWork, CancelJoins, prepVars, imageVars, runVars, LaunchOK, Serial, TypeOK,
       PreparationTypeOK, ViewTypeOK, ImageTypeOK
  <2>4. PreparationTypeOK'
    BY <1>3, <1>0, <2>3 DEF Cancel, CancelWork, CancelJoins, prepVars, imageVars, runVars, TypeOK,
       PreparationTypeOK, StagePlaces, Inside, MountPlaces
  <2>5. ViewTypeOK'
    BY <1>3, <1>0, <2>3 DEF Cancel, CancelWork, CancelJoins, prepVars, imageVars, runVars, TypeOK, ViewTypeOK,
       Happenings, Runs
  <2>6. ImageTypeOK'
    BY <1>3, <1>0, <2>3 DEF Cancel, CancelWork, CancelJoins, prepVars, imageVars, runVars, TypeOK, ImageTypeOK, Images
  <2>7. Entries' /\ WholeStays
    BY <1>3, <1>0, <2>1, <2>3, CacheStays DEF Cancel, CancelWork, CancelJoins, prepVars, imageVars, runVars, Others,
       Shared
  <2>8. Serial(l)'
    BY <1>0, <2>2, <2>3 DEF LaunchOK, Serial, LaunchTypes, StagePlaces, Inside, MountPlaces
  <2>9. ~Shared(l)' => Prepares(l)'
    BY <1>0, <2>1, <2>2, <2>3, <2>7 DEF LaunchOK, Serial, Prepares, Prepared, Done, Shared, Late, WholeStays,
       LaunchTypes, StagePlaces, Inside, MountPlaces
  <2>10. ~Shared(l)' => Prepared(l)'
    BY <1>0, <2>1, <2>2, <2>3, <2>7 DEF LaunchOK, Serial, Prepares, Prepared, Done, Shared, Late, WholeStays,
       LaunchTypes, StagePlaces, Inside, MountPlaces
  <2> QED BY <2>1, <2>4, <2>5, <2>6, <2>7, <2>8, <2>9, <2>10, OneStep DEF LaunchOK, TypeOK
<1> QED BY <1>1, <1>2, <1>3

\* A stage begins and ends.
LEMMA StageStep ==
  ASSUME IInv, NEW l \in Launches, app # "down",
         \/ StageStarts(l) /\ StageBegins(l)
         \/ StageStarts(l) /\ StageEnters(l)
         \/ StageEnds(l) /\ StageChecks(l)
         \/ StageEnds(l) /\ StagePublishes(l)
  PROVE  IInv'
<1>0. TypeOK /\ Entries /\ LaunchOK(l) /\ LaunchTypes(l)
  BY TypesAt DEF IInv
<1>1. CASE StageStarts(l) /\ StageBegins(l)
  <2>1. plan' = plan /\ app' = app /\ Others(l)
    BY <1>1, <1>0 DEF StageStarts, StageBegins, Go, prepVars, imageVars, runVars, Others, Late, Shared, TypeOK,
       PreparationTypeOK, ViewTypeOK, ImageTypeOK
  <2>2. Stages(l)' = Stages(l) /\ Build(l)' = Build(l) /\ (Direct(l)' <=> Direct(l))
    BY <2>1 DEF Stages, Build, Direct
  <2>3. /\ pc[l] = "begin"
        /\ mark'[l] = IF canceled[l] THEN "failed" ELSE mark[l]
        /\ pc'[l] = IF canceled[l] THEN "none" ELSE "enter"
        /\ status'[l] = status[l] /\ at'[l] = at[l] /\ (canceled'[l] <=> canceled[l]) /\ canceler'[l] = canceler[l]
        /\ continues'[l] = continues[l] /\ (notified'[l] <=> notified[l]) /\ (byView'[l] <=> byView[l]) /\ shows'[l] = shows[l]
        /\ (finish'[l] <=> finish[l]) /\ dir'[l] = dir[l] /\ (mounted'[l] <=> mounted[l]) /\ run'[l] = run[l]
        /\ slip'[l] = slip[l]
    BY <1>1, <1>0 DEF StageStarts, StageBegins, Go, prepVars, imageVars, runVars, LaunchOK, Serial, TypeOK,
       PreparationTypeOK, ViewTypeOK, ImageTypeOK
  <2>4. PreparationTypeOK'
    BY <1>1, <1>0, <2>3 DEF StageStarts, StageBegins, Go, prepVars, imageVars, runVars, TypeOK, PreparationTypeOK,
       StagePlaces, Inside, MountPlaces
  <2>5. ViewTypeOK'
    BY <1>1, <1>0, <2>3 DEF StageStarts, StageBegins, Go, prepVars, imageVars, runVars, TypeOK, ViewTypeOK,
       Happenings, Runs
  <2>6. ImageTypeOK'
    BY <1>1, <1>0, <2>3 DEF StageStarts, StageBegins, Go, prepVars, imageVars, runVars, TypeOK, ImageTypeOK, Images
  <2>7. Entries' /\ WholeStays
    BY <1>1, <1>0, <2>1, <2>3, CacheStays DEF StageStarts, StageBegins, Go, prepVars, imageVars, runVars, Others, Shared
  <2>8. Serial(l)'
    BY <1>0, <2>2, <2>3 DEF LaunchOK, Serial, LaunchTypes, StagePlaces, Inside, MountPlaces
  <2>9. ~Shared(l)' => Prepares(l)'
    BY <1>0, <2>1, <2>2, <2>3, <2>7 DEF LaunchOK, Serial, Prepares, Prepared, Done, Shared, Late, WholeStays,
       LaunchTypes, StagePlaces, Inside, MountPlaces
  <2>10. ~Shared(l)' => Prepared(l)'
    BY <1>0, <2>1, <2>2, <2>3, <2>7 DEF LaunchOK, Serial, Prepares, Prepared, Done, Shared, Late, WholeStays,
       LaunchTypes, StagePlaces, Inside, MountPlaces
  <2> QED BY <2>1, <2>4, <2>5, <2>6, <2>7, <2>8, <2>9, <2>10, OneStep DEF LaunchOK, TypeOK
<1>2. CASE StageStarts(l) /\ StageEnters(l)
  <2>1. plan' = plan /\ app' = app /\ Others(l)
    BY <1>2, <1>0 DEF StageStarts, StageEnters, Go, Raise, prepVars, imageVars, runVars, Others, Late, Shared,
       TypeOK, PreparationTypeOK, ViewTypeOK, ImageTypeOK
  <2>2. Stages(l)' = Stages(l) /\ Build(l)' = Build(l) /\ (Direct(l)' <=> Direct(l))
    BY <2>1 DEF Stages, Build, Direct
  <2>3. /\ pc[l] = "enter"
        /\ pc'[l] \in {"operate", "except"}
        /\ dir'[l] = IF dir[l] = "none" THEN "empty" ELSE dir[l]
        /\ mark'[l] = "progress"
        /\ status'[l] = status[l] /\ at'[l] = at[l] /\ (canceled'[l] <=> canceled[l]) /\ canceler'[l] = canceler[l]
        /\ continues'[l] = continues[l] /\ (notified'[l] <=> notified[l]) /\ (byView'[l] <=> byView[l]) /\ shows'[l] = shows[l]
        /\ (finish'[l] <=> finish[l]) /\ (mounted'[l] <=> mounted[l]) /\ run'[l] = run[l] /\ slip'[l] = slip[l]
    BY <1>2, <1>0 DEF StageStarts, StageEnters, Go, Raise, prepVars, imageVars, runVars, LaunchOK, Serial, TypeOK,
       PreparationTypeOK, ViewTypeOK, ImageTypeOK
  <2>4. PreparationTypeOK'
    BY <1>2, <1>0, <2>3 DEF StageStarts, StageEnters, Go, Raise, prepVars, imageVars, runVars, TypeOK,
       PreparationTypeOK, StagePlaces, Inside, MountPlaces
  <2>5. ViewTypeOK'
    BY <1>2, <1>0, <2>3 DEF StageStarts, StageEnters, Go, Raise, prepVars, imageVars, runVars, TypeOK, ViewTypeOK,
       Happenings, Runs
  <2>6. ImageTypeOK'
    BY <1>2, <1>0, <2>3 DEF StageStarts, StageEnters, Go, Raise, prepVars, imageVars, runVars, TypeOK, ImageTypeOK,
       Images
  <2>7. Entries' /\ WholeStays
    BY <1>2, <1>0, <2>1, <2>3, CacheStays DEF StageStarts, StageEnters, Go, Raise, prepVars, imageVars, runVars,
       Others, Shared
  <2>8. Serial(l)'
    BY <1>0, <2>2, <2>3 DEF LaunchOK, Serial, LaunchTypes, StagePlaces, Inside, MountPlaces
  <2>9. ~Shared(l)' => Prepares(l)'
    BY <1>0, <2>1, <2>2, <2>3, <2>7 DEF LaunchOK, Serial, Prepares, Prepared, Done, Shared, Late, WholeStays,
       LaunchTypes, StagePlaces, Inside, MountPlaces
  <2>10. ~Shared(l)' => Prepared(l)'
    BY <1>0, <2>1, <2>2, <2>3, <2>7 DEF LaunchOK, Serial, Prepares, Prepared, Done, Shared, Late, WholeStays,
       LaunchTypes, StagePlaces, Inside, MountPlaces
  <2> QED BY <2>1, <2>4, <2>5, <2>6, <2>7, <2>8, <2>9, <2>10, OneStep DEF LaunchOK, TypeOK
<1>3. CASE StageEnds(l) /\ StageChecks(l)
  <2>1. plan' = plan /\ app' = app /\ Others(l)
    BY <1>3, <1>0 DEF StageEnds, StageChecks, Go, prepVars, imageVars, runVars, Others, Late, Shared, TypeOK,
       PreparationTypeOK, ViewTypeOK, ImageTypeOK
  <2>2. Stages(l)' = Stages(l) /\ Build(l)' = Build(l) /\ (Direct(l)' <=> Direct(l))
    BY <2>1 DEF Stages, Build, Direct
  <2>3. /\ ((pc[l] = "check" /\ pc'[l] \in {"none", "completed"}) \/ (pc[l] = "except" /\ pc'[l] \in {"none", "failed"}))
        /\ status'[l] = status[l] /\ at'[l] = at[l] /\ mark'[l] = mark[l] /\ (canceled'[l] <=> canceled[l])
        /\ canceler'[l] = canceler[l] /\ continues'[l] = continues[l] /\ (notified'[l] <=> notified[l]) /\ (byView'[l] <=> byView[l])
        /\ shows'[l] = shows[l] /\ (finish'[l] <=> finish[l]) /\ dir'[l] = dir[l] /\ (mounted'[l] <=> mounted[l])
        /\ run'[l] = run[l] /\ slip'[l] = slip[l]
    BY <1>3, <1>0 DEF StageEnds, StageChecks, Go, prepVars, imageVars, runVars, LaunchOK, Serial, TypeOK,
       PreparationTypeOK, ViewTypeOK, ImageTypeOK
  <2>4. PreparationTypeOK'
    BY <1>3, <1>0, <2>3 DEF StageEnds, StageChecks, Go, prepVars, imageVars, runVars, TypeOK, PreparationTypeOK,
       StagePlaces, Inside, MountPlaces
  <2>5. ViewTypeOK'
    BY <1>3, <1>0, <2>3 DEF StageEnds, StageChecks, Go, prepVars, imageVars, runVars, TypeOK, ViewTypeOK,
       Happenings, Runs
  <2>6. ImageTypeOK'
    BY <1>3, <1>0, <2>3 DEF StageEnds, StageChecks, Go, prepVars, imageVars, runVars, TypeOK, ImageTypeOK, Images
  <2>7. Entries' /\ WholeStays
    BY <1>3, <1>0, <2>1, <2>3, CacheStays DEF StageEnds, StageChecks, Go, prepVars, imageVars, runVars, Others, Shared
  <2>8. Serial(l)'
    BY <1>0, <2>2, <2>3 DEF LaunchOK, Serial, LaunchTypes, StagePlaces, Inside, MountPlaces
  <2>9. ~Shared(l)' => Prepares(l)'
    BY <1>0, <2>1, <2>2, <2>3, <2>7 DEF LaunchOK, Serial, Prepares, Prepared, Done, Shared, Late, WholeStays,
       LaunchTypes, StagePlaces, Inside, MountPlaces
  <2>10. ~Shared(l)' => Prepared(l)'
    BY <1>0, <2>1, <2>2, <2>3, <2>7 DEF LaunchOK, Serial, Prepares, Prepared, Done, Shared, Late, WholeStays,
       LaunchTypes, StagePlaces, Inside, MountPlaces
  <2> QED BY <2>1, <2>4, <2>5, <2>6, <2>7, <2>8, <2>9, <2>10, OneStep DEF LaunchOK, TypeOK
<1>4. CASE StageEnds(l) /\ StagePublishes(l)
  <2>1. plan' = plan /\ app' = app /\ Others(l)
    BY <1>4, <1>0 DEF StageEnds, StagePublishes, Go, prepVars, imageVars, runVars, Others, Late, Shared, TypeOK,
       PreparationTypeOK, ViewTypeOK, ImageTypeOK
  <2>2. Stages(l)' = Stages(l) /\ Build(l)' = Build(l) /\ (Direct(l)' <=> Direct(l))
    BY <2>1 DEF Stages, Build, Direct
  <2>3. /\ pc[l] \in {"completed", "failed"}
        /\ mark'[l] = pc[l] /\ pc'[l] = "none" /\ continues'[l] = 1
        /\ status'[l] = status[l] /\ at'[l] = at[l] /\ (canceled'[l] <=> canceled[l]) /\ canceler'[l] = canceler[l]
        /\ (notified'[l] <=> notified[l]) /\ (byView'[l] <=> byView[l]) /\ shows'[l] = shows[l] /\ (finish'[l] <=> finish[l])
        /\ dir'[l] = dir[l] /\ (mounted'[l] <=> mounted[l]) /\ run'[l] = run[l] /\ slip'[l] = slip[l]
    BY <1>4, <1>0 DEF StageEnds, StagePublishes, Go, prepVars, imageVars, runVars, LaunchOK, Serial, TypeOK,
       PreparationTypeOK, ViewTypeOK, ImageTypeOK
  <2>4. PreparationTypeOK'
    BY <1>4, <1>0, <2>3 DEF StageEnds, StagePublishes, Go, prepVars, imageVars, runVars, TypeOK, PreparationTypeOK,
       StagePlaces, Inside, MountPlaces
  <2>5. ViewTypeOK'
    BY <1>4, <1>0, <2>3 DEF StageEnds, StagePublishes, Go, prepVars, imageVars, runVars, TypeOK, ViewTypeOK,
       Happenings, Runs
  <2>6. ImageTypeOK'
    BY <1>4, <1>0, <2>3 DEF StageEnds, StagePublishes, Go, prepVars, imageVars, runVars, TypeOK, ImageTypeOK, Images
  <2>7. Entries' /\ WholeStays
    BY <1>4, <1>0, <2>1, <2>3, CacheStays DEF StageEnds, StagePublishes, Go, prepVars, imageVars, runVars, Others,
       Shared
  <2>8. Serial(l)'
    BY <1>0, <2>2, <2>3 DEF LaunchOK, Serial, LaunchTypes, StagePlaces, Inside, MountPlaces
  <2>9. ~Shared(l)' => Prepares(l)'
    BY <1>0, <2>1, <2>2, <2>3, <2>7 DEF LaunchOK, Serial, Prepares, Prepared, Done, Shared, Late, WholeStays,
       LaunchTypes, StagePlaces, Inside, MountPlaces
  <2>10. ~Shared(l)' => Prepared(l)'
    BY <1>0, <2>1, <2>2, <2>3, <2>7 DEF LaunchOK, Serial, Prepares, Prepared, Done, Shared, Late, WholeStays,
       LaunchTypes, StagePlaces, Inside, MountPlaces
  <2> QED BY <2>1, <2>4, <2>5, <2>6, <2>7, <2>8, <2>9, <2>10, OneStep DEF LaunchOK, TypeOK
<1> QED BY <1>1, <1>2, <1>3, <1>4

\* The stage that writes the cached image.
LEMMA CacheStep ==
  ASSUME IInv, NEW l \in Launches, app # "down",
         \/ Operate(l) /\ CacheFound(l)
         \/ Operate(l) /\ CacheBegins(l)
         \/ Operate(l) /\ CacheWritten(l)
         \/ Operate(l) /\ CacheFails(l)
         \/ Operate(l) /\ CacheMarked(l)
  PROVE  IInv'
<1>0. TypeOK /\ Entries /\ LaunchOK(l) /\ LaunchTypes(l)
  BY TypesAt DEF IInv
<1>1. CASE Operate(l) /\ CacheFound(l)
  <2>1. plan' = plan /\ app' = app /\ Others(l)
    BY <1>1, <1>0 DEF Operate, CacheFound, Go, CacheReady, prepVars, imageVars, runVars, Others, Late, Shared,
       TypeOK, PreparationTypeOK, ViewTypeOK, ImageTypeOK
  <2>2. Stages(l)' = Stages(l) /\ Build(l)' = Build(l) /\ (Direct(l)' <=> Direct(l))
    BY <2>1 DEF Stages, Build, Direct
  <2>3. /\ pc[l] = "operate" /\ at[l] = 2 /\ cache[Build(l)].ready
        /\ pc'[l] = "check"
        /\ status'[l] = status[l] /\ at'[l] = at[l] /\ mark'[l] = mark[l] /\ (canceled'[l] <=> canceled[l])
        /\ canceler'[l] = canceler[l] /\ continues'[l] = continues[l] /\ (notified'[l] <=> notified[l]) /\ (byView'[l] <=> byView[l])
        /\ shows'[l] = shows[l] /\ (finish'[l] <=> finish[l]) /\ dir'[l] = dir[l] /\ (mounted'[l] <=> mounted[l])
        /\ run'[l] = run[l] /\ slip'[l] = slip[l]
    BY <1>1, <1>0, OperatingAt DEF Operate, CacheFound, Go, CacheReady, prepVars, imageVars, runVars, LaunchOK,
       Serial, TypeOK, PreparationTypeOK, ViewTypeOK, ImageTypeOK
  <2>4. PreparationTypeOK'
    BY <1>1, <1>0, <2>3 DEF Operate, CacheFound, Go, CacheReady, prepVars, imageVars, runVars, TypeOK,
       PreparationTypeOK, StagePlaces, Inside, MountPlaces
  <2>5. ViewTypeOK'
    BY <1>1, <1>0, <2>3 DEF Operate, CacheFound, Go, CacheReady, prepVars, imageVars, runVars, TypeOK, ViewTypeOK,
       Happenings, Runs
  <2>6. ImageTypeOK'
    BY <1>1, <1>0, <2>3 DEF Operate, CacheFound, Go, CacheReady, prepVars, imageVars, runVars, TypeOK, ImageTypeOK,
       Images
  <2>7. Entries' /\ WholeStays
    BY <1>1, <1>0, <2>1, <2>3, CacheStays DEF Operate, CacheFound, Go, CacheReady, prepVars, imageVars, runVars,
       Others, Shared
  <2>8. Serial(l)'
    BY <1>0, <2>2, <2>3 DEF LaunchOK, Serial, LaunchTypes, StagePlaces, Inside, MountPlaces
  <2>9. ~Shared(l)' => Prepares(l)'
    <3>1. ASSUME ~Shared(l), status[l] = "progress", pc'[l] = "check" PROVE CacheWhole(Build(l))'
      BY <1>1, <1>0, <2>2, <2>3, <3>1 DEF Entries, EntryOK, CacheWhole, Operate, imageVars, CacheFound
    <3>2. ~Shared(l) => (Done(l, 2)' /\ status[l] = "progress" => CacheWhole(Build(l))') /\ ~Done(l, 3)'
      BY <1>0, <2>3, <3>1 DEF Done
    <3> QED BY <1>0, <2>1, <2>2, <2>3, <3>2 DEF LaunchOK, Prepares, Shared, Late, LaunchTypes, StagePlaces, Inside,
       MountPlaces
  <2>10. ~Shared(l)' => Prepared(l)'
    BY <1>0, <2>1, <2>2, <2>3, <2>7 DEF LaunchOK, Serial, Prepares, Prepared, Done, Shared, Late, WholeStays,
       LaunchTypes, StagePlaces, Inside, MountPlaces
  <2> QED BY <2>1, <2>4, <2>5, <2>6, <2>7, <2>8, <2>9, <2>10, OneStep DEF LaunchOK, TypeOK
<1>2. CASE Operate(l) /\ CacheBegins(l)
  <2>1. plan' = plan /\ app' = app /\ Others(l)
    BY <1>2, <1>0 DEF Operate, CacheBegins, Go, CacheReady, prepVars, imageVars, runVars, Others, Late, Shared,
       TypeOK, PreparationTypeOK, ViewTypeOK, ImageTypeOK
  <2>2. Stages(l)' = Stages(l) /\ Build(l)' = Build(l) /\ (Direct(l)' <=> Direct(l))
    BY <2>1 DEF Stages, Build, Direct
  <2>3. /\ pc[l] = "operate" /\ at[l] = 2
        /\ (\A x \in {"late", "mounted"} : (x \in slip'[l]) = (x \in slip[l])) /\ (Shared(l) => Shared(l)')
        /\ pc'[l] = "extract"
        /\ status'[l] = status[l] /\ at'[l] = at[l] /\ mark'[l] = mark[l] /\ (canceled'[l] <=> canceled[l])
        /\ canceler'[l] = canceler[l] /\ continues'[l] = continues[l] /\ (notified'[l] <=> notified[l]) /\ (byView'[l] <=> byView[l])
        /\ shows'[l] = shows[l] /\ (finish'[l] <=> finish[l]) /\ dir'[l] = dir[l] /\ (mounted'[l] <=> mounted[l])
        /\ run'[l] = run[l]
    <3>1. pc[l] = "operate" /\ at[l] = 2
      BY <1>2, <1>0, OperatingAt DEF Operate, CacheBegins, LaunchOK, LaunchTypes
    <3>2. (\A x \in {"late", "mounted"} : (x \in slip'[l]) = (x \in slip[l])) /\ (Shared(l) => Shared(l)')
      BY <1>2, <1>0 DEF Operate, CacheBegins, Shared, TypeOK, ViewTypeOK
    <3> QED BY <1>2, <1>0, <3>1, <3>2 DEF Operate, CacheBegins, Go, runVars, TypeOK, PreparationTypeOK, ImageTypeOK,
       ViewTypeOK
  <2>4. PreparationTypeOK'
    BY <1>2, <1>0, <2>3 DEF Operate, CacheBegins, Go, CacheReady, prepVars, imageVars, runVars, TypeOK,
       PreparationTypeOK, StagePlaces, Inside, MountPlaces
  <2>5. ViewTypeOK'
    BY <1>2, <1>0, <2>3 DEF Operate, CacheBegins, Go, CacheReady, prepVars, imageVars, runVars, TypeOK, ViewTypeOK,
       Happenings, Runs
  <2>6. ImageTypeOK'
    <3>1. cache' \in [Builds -> [image : Images, ready : BOOLEAN]]
      BY <1>2, <1>0, EntrySet, EntryMarked DEF Operate, CacheBegins, Go, CacheReady, prepVars, imageVars, runVars,
         TypeOK, ImageTypeOK, Images, LaunchTypes
    <3> QED BY <1>2, <1>0, <3>1 DEF Operate, CacheBegins, Go, CacheReady, prepVars, imageVars, runVars, TypeOK,
       ImageTypeOK, Images
  <2>7. Entries' /\ WholeStays
    <3>1. /\ \A o \in Launches : Build(o) \in Builds /\ Build(o)' = Build(o)
          /\ ~cache'[Build(l)].ready /\ \A c \in Builds \ {Build(l)} : cache'[c] = cache[c]
      <4>1. \A o \in Launches : Build(o) \in Builds /\ Build(o)' = Build(o)
        BY <2>1, TypesAt DEF IInv, LaunchTypes, Build
      <4> QED BY <1>2, <1>0, <4>1, EntrySet DEF Operate, CacheBegins, TypeOK, Images
    <3>2. /\ \A o \in Launches : Shared(o) => Shared(o)'
          /\ \A o \in Launches : Build(o) # Build(l) => (Shared(o)' <=> Shared(o))
          /\ \A o \in Launches : Build(o) = Build(l) =>
               (Shared(o)' <=> Shared(o) \/ \E w \in Launches \ {l} : Writes(w, Build(l)))
      BY <1>2, <1>0 DEF Operate, CacheBegins, Shared, TypeOK, ViewTypeOK
    <3>3. /\ writer'[Build(l)] = l /\ \A c \in Builds \ {Build(l)} : writer'[c] = writer[c]
      BY <1>2, <1>0, <3>1 DEF Operate, CacheBegins, TypeOK, ImageTypeOK
    <3>4. \A w \in Launches \ {l}, b \in Builds : Writes(w, b)' <=> Writes(w, b)
      BY <2>1, <3>1 DEF Others, Writes
    <3>5. ~CacheWhole(Build(l))
      BY <1>2 DEF Operate, CacheBegins, CacheReady, CacheWhole
    <3>6. ASSUME NEW o \in Launches, ~Shared(o)' PROVE EntryOK(o)' /\ (CacheWhole(Build(o)) => CacheWhole(Build(o))')
      <4>1. CASE Build(o) = Build(l)
        <5>1. \A w \in Launches \ {l} : ~Writes(w, Build(l))'
          BY <3>1, <3>2, <3>4, <3>6, <4>1
        <5>2. o # l => pc'[o] \notin {"extract", "mark"}
          BY <3>1, <4>1, <5>1 DEF Writes
        <5> QED BY <2>3, <3>1, <3>3, <3>5, <4>1, <5>1, <5>2 DEF EntryOK
      <4>2. CASE Build(o) # Build(l)
        <5>1. EntryOK(o) /\ cache'[Build(o)] = cache[Build(o)] /\ writer'[Build(o)] = writer[Build(o)] /\ pc'[o] = pc[o]
          BY <1>0, <2>1, <3>1, <3>2, <3>3, <3>6, <4>2 DEF Entries, Others
        <5>2. ~Writes(l, Build(o)) /\ ~Writes(l, Build(o))'
          BY <3>1, <4>2 DEF Writes
        <5> QED BY <3>1, <3>4, <5>1, <5>2 DEF EntryOK, CacheWhole
      <4> QED BY <4>1, <4>2
    <3>7. SharedByAll'
      BY <1>0, <3>1, <3>2 DEF Entries, SharedByAll
    <3>8. \A b \in Builds : (\A o \in Launches : Build(o)' # b) => ~cache'[b].ready
      BY <1>0, <3>1 DEF Entries
    <3> QED BY <3>1, <3>6, <3>7, <3>8 DEF Entries, WholeStays
  <2>8. Serial(l)'
    BY <1>0, <2>2, <2>3 DEF LaunchOK, Serial, LaunchTypes, StagePlaces, Inside, MountPlaces
  <2>9. ~Shared(l)' => Prepares(l)'
    BY <1>0, <2>1, <2>2, <2>3, <2>7 DEF LaunchOK, Serial, Prepares, Prepared, Done, Shared, Late, WholeStays,
       LaunchTypes, StagePlaces, Inside, MountPlaces
  <2>10. ~Shared(l)' => Prepared(l)'
    BY <1>0, <2>1, <2>2, <2>3, <2>7 DEF LaunchOK, Serial, Prepares, Prepared, Done, Shared, Late, WholeStays,
       LaunchTypes, StagePlaces, Inside, MountPlaces
  <2> QED BY <2>1, <2>4, <2>5, <2>6, <2>7, <2>8, <2>9, <2>10, OneStep DEF LaunchOK, TypeOK
<1>3. CASE Operate(l) /\ CacheWritten(l)
  <2>1. plan' = plan /\ app' = app /\ Others(l)
    BY <1>3, <1>0 DEF Operate, CacheWritten, Go, prepVars, imageVars, runVars, Others, Late, Shared, TypeOK,
       PreparationTypeOK, ViewTypeOK, ImageTypeOK
  <2>2. Stages(l)' = Stages(l) /\ Build(l)' = Build(l) /\ (Direct(l)' <=> Direct(l))
    BY <2>1 DEF Stages, Build, Direct
  <2>3. /\ pc[l] = "extract" /\ at[l] = 2
        /\ pc'[l] = "mark"
        /\ status'[l] = status[l] /\ at'[l] = at[l] /\ mark'[l] = mark[l] /\ (canceled'[l] <=> canceled[l])
        /\ canceler'[l] = canceler[l] /\ continues'[l] = continues[l] /\ (notified'[l] <=> notified[l]) /\ (byView'[l] <=> byView[l])
        /\ shows'[l] = shows[l] /\ (finish'[l] <=> finish[l]) /\ dir'[l] = dir[l] /\ (mounted'[l] <=> mounted[l])
        /\ run'[l] = run[l] /\ slip'[l] = slip[l]
    BY <1>3, <1>0, OperatingAt DEF Operate, CacheWritten, Go, prepVars, imageVars, runVars, LaunchOK, Serial,
       TypeOK, PreparationTypeOK, ViewTypeOK, ImageTypeOK
  <2>4. PreparationTypeOK'
    BY <1>3, <1>0, <2>3 DEF Operate, CacheWritten, Go, prepVars, imageVars, runVars, TypeOK, PreparationTypeOK,
       StagePlaces, Inside, MountPlaces
  <2>5. ViewTypeOK'
    BY <1>3, <1>0, <2>3 DEF Operate, CacheWritten, Go, prepVars, imageVars, runVars, TypeOK, ViewTypeOK, Happenings,
       Runs
  <2>6. ImageTypeOK'
    <3>1. cache' \in [Builds -> [image : Images, ready : BOOLEAN]]
      BY <1>3, <1>0, EntrySet, EntryMarked DEF Operate, CacheWritten, Go, prepVars, imageVars, runVars, TypeOK,
         ImageTypeOK, Images, LaunchTypes
    <3> QED BY <1>3, <1>0, <3>1 DEF Operate, CacheWritten, Go, prepVars, imageVars, runVars, TypeOK, ImageTypeOK, Images
  <2>7. Entries' /\ WholeStays
    <3>1. \A o \in Launches : Shared(o)' <=> Shared(o)
      BY <1>3 DEF Operate, CacheWritten, Shared
    <3>2. ~Shared(l) => EntryOK(l)
      BY <1>0 DEF Entries
    <3>3. /\ \A c \in Builds \ {Build(l)} : cache'[c] = cache[c]
          /\ ~Shared(l) /\ pc'[l] = "mark" => cache'[Build(l)].image = "whole" /\ ~cache'[Build(l)].ready
          /\ ~Shared(l) /\ cache'[Build(l)].ready => cache'[Build(l)].image = "whole"
      BY <1>3, <1>0, <2>3, <3>2, EntrySet, EntryMarked DEF Operate, CacheWritten, EntryOK, TypeOK, Images,
         LaunchTypes, Writes
    <3>4. writer' = writer /\ pc[l] \in {"extract", "mark"} /\ pc'[l] # "extract"
      BY <1>3, <2>3 DEF Operate, CacheWritten
    <3> QED BY <2>1, <3>1, <3>3, <3>4, WriterStep
  <2>8. Serial(l)'
    BY <1>0, <2>2, <2>3 DEF LaunchOK, Serial, LaunchTypes, StagePlaces, Inside, MountPlaces
  <2>9. ~Shared(l)' => Prepares(l)'
    BY <1>0, <2>1, <2>2, <2>3, <2>7 DEF LaunchOK, Serial, Prepares, Prepared, Done, Shared, Late, WholeStays,
       LaunchTypes, StagePlaces, Inside, MountPlaces
  <2>10. ~Shared(l)' => Prepared(l)'
    BY <1>0, <2>1, <2>2, <2>3, <2>7 DEF LaunchOK, Serial, Prepares, Prepared, Done, Shared, Late, WholeStays,
       LaunchTypes, StagePlaces, Inside, MountPlaces
  <2> QED BY <2>1, <2>4, <2>5, <2>6, <2>7, <2>8, <2>9, <2>10, OneStep DEF LaunchOK, TypeOK
<1>4. CASE Operate(l) /\ CacheFails(l)
  <2>1. plan' = plan /\ app' = app /\ Others(l)
    BY <1>4, <1>0 DEF Operate, CacheFails, Go, Raise, prepVars, imageVars, runVars, Others, Late, Shared, TypeOK,
       PreparationTypeOK, ViewTypeOK, ImageTypeOK
  <2>2. Stages(l)' = Stages(l) /\ Build(l)' = Build(l) /\ (Direct(l)' <=> Direct(l))
    BY <2>1 DEF Stages, Build, Direct
  <2>3. /\ pc[l] = "extract" /\ at[l] = 2
        /\ pc'[l] = "except"
        /\ status'[l] = status[l] /\ at'[l] = at[l] /\ mark'[l] = mark[l] /\ (canceled'[l] <=> canceled[l])
        /\ canceler'[l] = canceler[l] /\ continues'[l] = continues[l] /\ (notified'[l] <=> notified[l]) /\ (byView'[l] <=> byView[l])
        /\ shows'[l] = shows[l] /\ (finish'[l] <=> finish[l]) /\ dir'[l] = dir[l] /\ (mounted'[l] <=> mounted[l])
        /\ run'[l] = run[l] /\ slip'[l] = slip[l]
    BY <1>4, <1>0, OperatingAt DEF Operate, CacheFails, Go, Raise, prepVars, imageVars, runVars, LaunchOK, Serial,
       TypeOK, PreparationTypeOK, ViewTypeOK, ImageTypeOK
  <2>4. PreparationTypeOK'
    BY <1>4, <1>0, <2>3 DEF Operate, CacheFails, Go, Raise, prepVars, imageVars, runVars, TypeOK, PreparationTypeOK,
       StagePlaces, Inside, MountPlaces
  <2>5. ViewTypeOK'
    BY <1>4, <1>0, <2>3 DEF Operate, CacheFails, Go, Raise, prepVars, imageVars, runVars, TypeOK, ViewTypeOK,
       Happenings, Runs
  <2>6. ImageTypeOK'
    <3>1. cache' \in [Builds -> [image : Images, ready : BOOLEAN]]
      BY <1>4, <1>0, EntrySet, EntryMarked DEF Operate, CacheFails, Go, Raise, prepVars, imageVars, runVars, TypeOK,
         ImageTypeOK, Images, LaunchTypes
    <3> QED BY <1>4, <1>0, <3>1 DEF Operate, CacheFails, Go, Raise, prepVars, imageVars, runVars, TypeOK,
       ImageTypeOK, Images
  <2>7. Entries' /\ WholeStays
    <3>1. \A o \in Launches : Shared(o)' <=> Shared(o)
      BY <1>4 DEF Operate, CacheFails, Shared
    <3>2. ~Shared(l) => EntryOK(l)
      BY <1>0 DEF Entries
    <3>3. /\ \A c \in Builds \ {Build(l)} : cache'[c] = cache[c]
          /\ ~Shared(l) /\ pc'[l] = "mark" => cache'[Build(l)].image = "whole" /\ ~cache'[Build(l)].ready
          /\ ~Shared(l) /\ cache'[Build(l)].ready => cache'[Build(l)].image = "whole"
      BY <1>4, <1>0, <2>3, <3>2, EntrySet, EntryMarked DEF Operate, CacheFails, EntryOK, TypeOK, Images,
         LaunchTypes, Writes
    <3>4. writer' = writer /\ pc[l] \in {"extract", "mark"} /\ pc'[l] # "extract"
      BY <1>4, <2>3 DEF Operate, CacheFails
    <3> QED BY <2>1, <3>1, <3>3, <3>4, WriterStep
  <2>8. Serial(l)'
    BY <1>0, <2>2, <2>3 DEF LaunchOK, Serial, LaunchTypes, StagePlaces, Inside, MountPlaces
  <2>9. ~Shared(l)' => Prepares(l)'
    BY <1>0, <2>1, <2>2, <2>3, <2>7 DEF LaunchOK, Serial, Prepares, Prepared, Done, Shared, Late, WholeStays,
       LaunchTypes, StagePlaces, Inside, MountPlaces
  <2>10. ~Shared(l)' => Prepared(l)'
    BY <1>0, <2>1, <2>2, <2>3, <2>7 DEF LaunchOK, Serial, Prepares, Prepared, Done, Shared, Late, WholeStays,
       LaunchTypes, StagePlaces, Inside, MountPlaces
  <2> QED BY <2>1, <2>4, <2>5, <2>6, <2>7, <2>8, <2>9, <2>10, OneStep DEF LaunchOK, TypeOK
<1>5. CASE Operate(l) /\ CacheMarked(l)
  <2>1. plan' = plan /\ app' = app /\ Others(l)
    BY <1>5, <1>0 DEF Operate, CacheMarked, Go, Raise, prepVars, imageVars, runVars, Others, Late, Shared, TypeOK,
       PreparationTypeOK, ViewTypeOK, ImageTypeOK
  <2>2. Stages(l)' = Stages(l) /\ Build(l)' = Build(l) /\ (Direct(l)' <=> Direct(l))
    BY <2>1 DEF Stages, Build, Direct
  <2>3. /\ pc[l] = "mark" /\ at[l] = 2
        /\ (pc'[l] = "except" \/ (pc'[l] = "check" /\ cache'[Build(l)].ready))
        /\ status'[l] = status[l] /\ at'[l] = at[l] /\ mark'[l] = mark[l] /\ (canceled'[l] <=> canceled[l])
        /\ canceler'[l] = canceler[l] /\ continues'[l] = continues[l] /\ (notified'[l] <=> notified[l]) /\ (byView'[l] <=> byView[l])
        /\ shows'[l] = shows[l] /\ (finish'[l] <=> finish[l]) /\ dir'[l] = dir[l] /\ (mounted'[l] <=> mounted[l])
        /\ run'[l] = run[l] /\ slip'[l] = slip[l]
    <3>1. pc[l] = "mark" /\ at[l] = 2
      BY <1>5, <1>0, OperatingAt DEF Operate, CacheMarked, LaunchOK, LaunchTypes
    <3>2. pc'[l] = "except" \/ (pc'[l] = "check" /\ cache'[Build(l)].ready)
      BY <1>5, <1>0, EntryMarked DEF Operate, CacheMarked, Go, Raise, TypeOK, PreparationTypeOK, LaunchTypes
    <3> QED BY <1>5, <1>0, <3>1, <3>2 DEF Operate, CacheMarked, Go, Raise, runVars, TypeOK, PreparationTypeOK
  <2>4. PreparationTypeOK'
    BY <1>5, <1>0, <2>3 DEF Operate, CacheMarked, Go, Raise, prepVars, imageVars, runVars, TypeOK,
       PreparationTypeOK, StagePlaces, Inside, MountPlaces
  <2>5. ViewTypeOK'
    BY <1>5, <1>0, <2>3 DEF Operate, CacheMarked, Go, Raise, prepVars, imageVars, runVars, TypeOK, ViewTypeOK,
       Happenings, Runs
  <2>6. ImageTypeOK'
    <3>1. cache' \in [Builds -> [image : Images, ready : BOOLEAN]]
      BY <1>5, <1>0, EntrySet, EntryMarked DEF Operate, CacheMarked, Go, Raise, prepVars, imageVars, runVars,
         TypeOK, ImageTypeOK, Images, LaunchTypes
    <3> QED BY <1>5, <1>0, <3>1 DEF Operate, CacheMarked, Go, Raise, prepVars, imageVars, runVars, TypeOK,
       ImageTypeOK, Images
  <2>7. Entries' /\ WholeStays
    <3>1. \A o \in Launches : Shared(o)' <=> Shared(o)
      BY <1>5 DEF Operate, CacheMarked, Shared
    <3>2. ~Shared(l) => EntryOK(l)
      BY <1>0 DEF Entries
    <3>3. /\ \A c \in Builds \ {Build(l)} : cache'[c] = cache[c]
          /\ ~Shared(l) /\ pc'[l] = "mark" => cache'[Build(l)].image = "whole" /\ ~cache'[Build(l)].ready
          /\ ~Shared(l) /\ cache'[Build(l)].ready => cache'[Build(l)].image = "whole"
      BY <1>5, <1>0, <2>3, <3>2, EntrySet, EntryMarked DEF Operate, CacheMarked, EntryOK, TypeOK, Images,
         LaunchTypes, Writes
    <3>4. writer' = writer /\ pc[l] \in {"extract", "mark"} /\ pc'[l] # "extract"
      BY <1>5, <2>3 DEF Operate, CacheMarked
    <3> QED BY <2>1, <3>1, <3>3, <3>4, WriterStep
  <2>8. Serial(l)'
    BY <1>0, <2>2, <2>3 DEF LaunchOK, Serial, LaunchTypes, StagePlaces, Inside, MountPlaces
  <2>9. ~Shared(l)' => Prepares(l)'
    <3>1. ASSUME ~Shared(l), status[l] = "progress", pc'[l] = "check" PROVE CacheWhole(Build(l))'
      BY <1>0, <2>1, <2>2, <2>3, <2>7, <3>1 DEF Entries, EntryOK, CacheWhole, Shared
    <3>2. ~Shared(l) => (Done(l, 2)' /\ status[l] = "progress" => CacheWhole(Build(l))') /\ ~Done(l, 3)'
      BY <1>0, <2>3, <3>1 DEF Done
    <3> QED BY <1>0, <2>1, <2>2, <2>3, <3>2 DEF LaunchOK, Prepares, Shared, Late, LaunchTypes, StagePlaces, Inside,
       MountPlaces
  <2>10. ~Shared(l)' => Prepared(l)'
    BY <1>0, <2>1, <2>2, <2>3, <2>7 DEF LaunchOK, Serial, Prepares, Prepared, Done, Shared, Late, WholeStays,
       LaunchTypes, StagePlaces, Inside, MountPlaces
  <2> QED BY <2>1, <2>4, <2>5, <2>6, <2>7, <2>8, <2>9, <2>10, OneStep DEF LaunchOK, TypeOK
<1> QED BY <1>1, <1>2, <1>3, <1>4, <1>5

\* The stages that wait, and those that copy and change the image.
LEMMA ImageStep ==
  ASSUME IInv, NEW l \in Launches, app # "down",
         \/ Operate(l) /\ Waits(l)
         \/ Operate(l) /\ ImageIsCached(l)
         \/ Operate(l) /\ ImageCopies(l)
         \/ Operate(l) /\ ImageCopied(l)
         \/ Operate(l) /\ ImageMounts(l)
         \/ Operate(l) /\ ImageMounted(l)
         \/ Operate(l) /\ ImageChanged(l)
         \/ Operate(l) /\ ImageUnmounts(l)
         \/ Operate(l) /\ GivesUp(l)
  PROVE  IInv'
<1>0. TypeOK /\ Entries /\ LaunchOK(l) /\ LaunchTypes(l)
  BY TypesAt DEF IInv
<1>1. CASE Operate(l) /\ Waits(l)
  <2>1. plan' = plan /\ app' = app /\ Others(l)
    BY <1>1, <1>0 DEF Operate, Waits, Go, Raise, prepVars, imageVars, runVars, Others, Late, Shared, TypeOK,
       PreparationTypeOK, ViewTypeOK, ImageTypeOK
  <2>2. Stages(l)' = Stages(l) /\ Build(l)' = Build(l) /\ (Direct(l)' <=> Direct(l))
    BY <2>1 DEF Stages, Build, Direct
  <2>3. /\ pc[l] = "operate" /\ at[l] \notin {2, 3}
        /\ pc'[l] \in {"check", "except"}
        /\ status'[l] = status[l] /\ at'[l] = at[l] /\ mark'[l] = mark[l] /\ (canceled'[l] <=> canceled[l])
        /\ canceler'[l] = canceler[l] /\ continues'[l] = continues[l] /\ (notified'[l] <=> notified[l]) /\ (byView'[l] <=> byView[l])
        /\ shows'[l] = shows[l] /\ (finish'[l] <=> finish[l]) /\ dir'[l] = dir[l] /\ (mounted'[l] <=> mounted[l])
        /\ run'[l] = run[l] /\ slip'[l] = slip[l]
    BY <1>1, <1>0, OperatingAt DEF Operate, Waits, Go, Raise, prepVars, imageVars, runVars, LaunchOK, Serial,
       TypeOK, PreparationTypeOK, ViewTypeOK, ImageTypeOK
  <2>4. PreparationTypeOK'
    BY <1>1, <1>0, <2>3 DEF Operate, Waits, Go, Raise, prepVars, imageVars, runVars, TypeOK, PreparationTypeOK,
       StagePlaces, Inside, MountPlaces
  <2>5. ViewTypeOK'
    BY <1>1, <1>0, <2>3 DEF Operate, Waits, Go, Raise, prepVars, imageVars, runVars, TypeOK, ViewTypeOK, Happenings,
       Runs
  <2>6. ImageTypeOK'
    BY <1>1, <1>0, <2>3 DEF Operate, Waits, Go, Raise, prepVars, imageVars, runVars, TypeOK, ImageTypeOK, Images
  <2>7. Entries' /\ WholeStays
    BY <1>1, <1>0, <2>1, <2>3, CacheStays DEF Operate, Waits, Go, Raise, prepVars, imageVars, runVars, Others, Shared
  <2>8. Serial(l)'
    BY <1>0, <2>2, <2>3 DEF LaunchOK, Serial, LaunchTypes, StagePlaces, Inside, MountPlaces
  <2>9. ~Shared(l)' => Prepares(l)'
    BY <1>0, <2>1, <2>2, <2>3, <2>7 DEF LaunchOK, Serial, Prepares, Prepared, Done, Shared, Late, WholeStays,
       LaunchTypes, StagePlaces, Inside, MountPlaces
  <2>10. ~Shared(l)' => Prepared(l)'
    BY <1>0, <2>1, <2>2, <2>3, <2>7 DEF LaunchOK, Serial, Prepares, Prepared, Done, Shared, Late, WholeStays,
       LaunchTypes, StagePlaces, Inside, MountPlaces
  <2> QED BY <2>1, <2>4, <2>5, <2>6, <2>7, <2>8, <2>9, <2>10, OneStep DEF LaunchOK, TypeOK
<1>2. CASE Operate(l) /\ ImageIsCached(l)
  <2>1. plan' = plan /\ app' = app /\ Others(l)
    BY <1>2, <1>0 DEF Operate, ImageIsCached, Go, prepVars, imageVars, runVars, Others, Late, Shared, TypeOK,
       PreparationTypeOK, ViewTypeOK, ImageTypeOK
  <2>2. Stages(l)' = Stages(l) /\ Build(l)' = Build(l) /\ (Direct(l)' <=> Direct(l))
    BY <2>1 DEF Stages, Build, Direct
  <2>3. /\ pc[l] = "operate" /\ at[l] = 3 /\ Direct(l)
        /\ pc'[l] = "check"
        /\ status'[l] = status[l] /\ at'[l] = at[l] /\ mark'[l] = mark[l] /\ (canceled'[l] <=> canceled[l])
        /\ canceler'[l] = canceler[l] /\ continues'[l] = continues[l] /\ (notified'[l] <=> notified[l]) /\ (byView'[l] <=> byView[l])
        /\ shows'[l] = shows[l] /\ (finish'[l] <=> finish[l]) /\ dir'[l] = dir[l] /\ (mounted'[l] <=> mounted[l])
        /\ run'[l] = run[l] /\ slip'[l] = slip[l]
    BY <1>2, <1>0, OperatingAt DEF Operate, ImageIsCached, Go, prepVars, imageVars, runVars, LaunchOK, Serial,
       TypeOK, PreparationTypeOK, ViewTypeOK, ImageTypeOK
  <2>4. PreparationTypeOK'
    BY <1>2, <1>0, <2>3 DEF Operate, ImageIsCached, Go, prepVars, imageVars, runVars, TypeOK, PreparationTypeOK,
       StagePlaces, Inside, MountPlaces
  <2>5. ViewTypeOK'
    BY <1>2, <1>0, <2>3 DEF Operate, ImageIsCached, Go, prepVars, imageVars, runVars, TypeOK, ViewTypeOK,
       Happenings, Runs
  <2>6. ImageTypeOK'
    BY <1>2, <1>0, <2>3 DEF Operate, ImageIsCached, Go, prepVars, imageVars, runVars, TypeOK, ImageTypeOK, Images
  <2>7. Entries' /\ WholeStays
    BY <1>2, <1>0, <2>1, <2>3, CacheStays DEF Operate, ImageIsCached, Go, prepVars, imageVars, runVars, Others, Shared
  <2>8. Serial(l)'
    BY <1>0, <2>2, <2>3 DEF LaunchOK, Serial, LaunchTypes, StagePlaces, Inside, MountPlaces
  <2>9. ~Shared(l)' => Prepares(l)'
    BY <1>0, <2>1, <2>2, <2>3, <2>7 DEF LaunchOK, Serial, Prepares, Prepared, Done, Shared, Late, WholeStays,
       LaunchTypes, StagePlaces, Inside, MountPlaces
  <2>10. ~Shared(l)' => Prepared(l)'
    BY <1>0, <2>1, <2>2, <2>3, <2>7 DEF LaunchOK, Serial, Prepares, Prepared, Done, Shared, Late, WholeStays,
       LaunchTypes, StagePlaces, Inside, MountPlaces
  <2> QED BY <2>1, <2>4, <2>5, <2>6, <2>7, <2>8, <2>9, <2>10, OneStep DEF LaunchOK, TypeOK
<1>3. CASE Operate(l) /\ ImageCopies(l)
  <2>1. plan' = plan /\ app' = app /\ Others(l)
    BY <1>3, <1>0 DEF Operate, ImageCopies, Go, Raise, prepVars, imageVars, runVars, Others, Late, Shared, TypeOK,
       PreparationTypeOK, ViewTypeOK, ImageTypeOK
  <2>2. Stages(l)' = Stages(l) /\ Build(l)' = Build(l) /\ (Direct(l)' <=> Direct(l))
    BY <2>1 DEF Stages, Build, Direct
  <2>3. /\ pc[l] = "operate" /\ at[l] = 3
        /\ ((pc'[l] = "except" /\ dir'[l] = dir[l]) \/ (pc'[l] = "copy" /\ dir'[l] = "partial"))
        /\ status'[l] = status[l] /\ at'[l] = at[l] /\ mark'[l] = mark[l] /\ (canceled'[l] <=> canceled[l])
        /\ canceler'[l] = canceler[l] /\ continues'[l] = continues[l] /\ (notified'[l] <=> notified[l]) /\ (byView'[l] <=> byView[l])
        /\ shows'[l] = shows[l] /\ (finish'[l] <=> finish[l]) /\ (mounted'[l] <=> mounted[l]) /\ run'[l] = run[l]
        /\ slip'[l] = slip[l]
    BY <1>3, <1>0, OperatingAt DEF Operate, ImageCopies, Go, Raise, prepVars, imageVars, runVars, LaunchOK, Serial,
       TypeOK, PreparationTypeOK, ViewTypeOK, ImageTypeOK
  <2>4. PreparationTypeOK'
    BY <1>3, <1>0, <2>3 DEF Operate, ImageCopies, Go, Raise, prepVars, imageVars, runVars, TypeOK,
       PreparationTypeOK, StagePlaces, Inside, MountPlaces
  <2>5. ViewTypeOK'
    BY <1>3, <1>0, <2>3 DEF Operate, ImageCopies, Go, Raise, prepVars, imageVars, runVars, TypeOK, ViewTypeOK,
       Happenings, Runs
  <2>6. ImageTypeOK'
    BY <1>3, <1>0, <2>3 DEF Operate, ImageCopies, Go, Raise, prepVars, imageVars, runVars, TypeOK, ImageTypeOK, Images
  <2>7. Entries' /\ WholeStays
    BY <1>3, <1>0, <2>1, <2>3, CacheStays DEF Operate, ImageCopies, Go, Raise, prepVars, imageVars, runVars, Others,
       Shared
  <2>8. Serial(l)'
    BY <1>0, <2>2, <2>3 DEF LaunchOK, Serial, LaunchTypes, StagePlaces, Inside, MountPlaces
  <2>9. ~Shared(l)' => Prepares(l)'
    BY <1>0, <2>1, <2>2, <2>3, <2>7 DEF LaunchOK, Serial, Prepares, Prepared, Done, Shared, Late, WholeStays,
       LaunchTypes, StagePlaces, Inside, MountPlaces
  <2>10. ~Shared(l)' => Prepared(l)'
    BY <1>0, <2>1, <2>2, <2>3, <2>7 DEF LaunchOK, Serial, Prepares, Prepared, Done, Shared, Late, WholeStays,
       LaunchTypes, StagePlaces, Inside, MountPlaces
  <2> QED BY <2>1, <2>4, <2>5, <2>6, <2>7, <2>8, <2>9, <2>10, OneStep DEF LaunchOK, TypeOK
<1>4. CASE Operate(l) /\ ImageCopied(l)
  <2>1. plan' = plan /\ app' = app /\ Others(l)
    BY <1>4, <1>0 DEF Operate, ImageCopied, Go, Raise, prepVars, imageVars, runVars, Others, Late, Shared, TypeOK,
       PreparationTypeOK, ViewTypeOK, ImageTypeOK
  <2>2. Stages(l)' = Stages(l) /\ Build(l)' = Build(l) /\ (Direct(l)' <=> Direct(l))
    BY <2>1 DEF Stages, Build, Direct
  <2>3. /\ pc[l] = "copy" /\ at[l] = 3
        /\ pc'[l] \in {"check", "except"}
        /\ dir'[l] = IF pc'[l] = "check" /\ dir[l] # "none" /\ cache[Build(l)].image = "whole" THEN "whole" ELSE dir[l]
        /\ status'[l] = status[l] /\ at'[l] = at[l] /\ mark'[l] = mark[l] /\ (canceled'[l] <=> canceled[l])
        /\ canceler'[l] = canceler[l] /\ continues'[l] = continues[l] /\ (notified'[l] <=> notified[l]) /\ (byView'[l] <=> byView[l])
        /\ shows'[l] = shows[l] /\ (finish'[l] <=> finish[l]) /\ (mounted'[l] <=> mounted[l]) /\ run'[l] = run[l]
        /\ slip'[l] = slip[l]
    BY <1>4, <1>0, OperatingAt DEF Operate, ImageCopied, Go, Raise, prepVars, imageVars, runVars, LaunchOK, Serial,
       TypeOK, PreparationTypeOK, ViewTypeOK, ImageTypeOK
  <2>4. PreparationTypeOK'
    BY <1>4, <1>0, <2>3 DEF Operate, ImageCopied, Go, Raise, prepVars, imageVars, runVars, TypeOK,
       PreparationTypeOK, StagePlaces, Inside, MountPlaces
  <2>5. ViewTypeOK'
    BY <1>4, <1>0, <2>3 DEF Operate, ImageCopied, Go, Raise, prepVars, imageVars, runVars, TypeOK, ViewTypeOK,
       Happenings, Runs
  <2>6. ImageTypeOK'
    BY <1>4, <1>0, <2>3 DEF Operate, ImageCopied, Go, Raise, prepVars, imageVars, runVars, TypeOK, ImageTypeOK, Images
  <2>7. Entries' /\ WholeStays
    BY <1>4, <1>0, <2>1, <2>3, CacheStays DEF Operate, ImageCopied, Go, Raise, prepVars, imageVars, runVars, Others,
       Shared
  <2>8. Serial(l)'
    BY <1>0, <2>2, <2>3 DEF LaunchOK, Serial, LaunchTypes, StagePlaces, Inside, MountPlaces
  <2>9. ~Shared(l)' => Prepares(l)'
    <3>1. ~Shared(l) /\ status[l] = "progress" /\ pc'[l] = "check" => dir'[l] = "whole"
      BY <1>0, <2>3 DEF LaunchOK, Prepares, Done, CacheWhole
    <3>2. ~Shared(l) => (Done(l, 3)' /\ status[l] = "progress" => dir'[l] = "whole") /\ Done(l, 2)
      BY <1>0, <2>3, <3>1 DEF Done
    <3> QED BY <1>0, <2>1, <2>2, <2>3, <2>7, <3>2 DEF LaunchOK, Prepares, Shared, Late, WholeStays, LaunchTypes,
       StagePlaces, Inside, MountPlaces
  <2>10. ~Shared(l)' => Prepared(l)'
    BY <1>0, <2>1, <2>2, <2>3, <2>7 DEF LaunchOK, Serial, Prepares, Prepared, Done, Shared, Late, WholeStays,
       LaunchTypes, StagePlaces, Inside, MountPlaces
  <2> QED BY <2>1, <2>4, <2>5, <2>6, <2>7, <2>8, <2>9, <2>10, OneStep DEF LaunchOK, TypeOK
<1>5. CASE Operate(l) /\ ImageMounts(l)
  <2>1. plan' = plan /\ app' = app /\ Others(l)
    BY <1>5, <1>0 DEF Operate, ImageMounts, Go, Raise, prepVars, imageVars, runVars, Others, Late, Shared, TypeOK,
       PreparationTypeOK, ViewTypeOK, ImageTypeOK
  <2>2. Stages(l)' = Stages(l) /\ Build(l)' = Build(l) /\ (Direct(l)' <=> Direct(l))
    BY <2>1 DEF Stages, Build, Direct
  <2>3. /\ pc[l] = "operate" /\ at[l] > 3
        /\ ((pc'[l] = "except" /\ mounted'[l] = mounted[l]) \/ pc'[l] = "mounted")
        /\ status'[l] = status[l] /\ at'[l] = at[l] /\ mark'[l] = mark[l] /\ (canceled'[l] <=> canceled[l])
        /\ canceler'[l] = canceler[l] /\ continues'[l] = continues[l] /\ (notified'[l] <=> notified[l]) /\ (byView'[l] <=> byView[l])
        /\ shows'[l] = shows[l] /\ (finish'[l] <=> finish[l]) /\ dir'[l] = dir[l] /\ run'[l] = run[l]
        /\ slip'[l] = slip[l]
    BY <1>5, <1>0, OperatingAt DEF Operate, ImageMounts, Go, Raise, prepVars, imageVars, runVars, LaunchOK, Serial,
       TypeOK, PreparationTypeOK, ViewTypeOK, ImageTypeOK
  <2>4. PreparationTypeOK'
    BY <1>5, <1>0, <2>3 DEF Operate, ImageMounts, Go, Raise, prepVars, imageVars, runVars, TypeOK,
       PreparationTypeOK, StagePlaces, Inside, MountPlaces
  <2>5. ViewTypeOK'
    BY <1>5, <1>0, <2>3 DEF Operate, ImageMounts, Go, Raise, prepVars, imageVars, runVars, TypeOK, ViewTypeOK,
       Happenings, Runs
  <2>6. ImageTypeOK'
    BY <1>5, <1>0, <2>3 DEF Operate, ImageMounts, Go, Raise, prepVars, imageVars, runVars, TypeOK, ImageTypeOK, Images
  <2>7. Entries' /\ WholeStays
    BY <1>5, <1>0, <2>1, <2>3, CacheStays DEF Operate, ImageMounts, Go, Raise, prepVars, imageVars, runVars, Others,
       Shared
  <2>8. Serial(l)'
    BY <1>0, <2>2, <2>3 DEF LaunchOK, Serial, LaunchTypes, StagePlaces, Inside, MountPlaces
  <2>9. ~Shared(l)' => Prepares(l)'
    BY <1>0, <2>1, <2>2, <2>3, <2>7 DEF LaunchOK, Serial, Prepares, Prepared, Done, Shared, Late, WholeStays,
       LaunchTypes, StagePlaces, Inside, MountPlaces
  <2>10. ~Shared(l)' => Prepared(l)'
    BY <1>0, <2>1, <2>2, <2>3, <2>7 DEF LaunchOK, Serial, Prepares, Prepared, Done, Shared, Late, WholeStays,
       LaunchTypes, StagePlaces, Inside, MountPlaces
  <2> QED BY <2>1, <2>4, <2>5, <2>6, <2>7, <2>8, <2>9, <2>10, OneStep DEF LaunchOK, TypeOK
<1>6. CASE Operate(l) /\ ImageMounted(l)
  <2>1. plan' = plan /\ app' = app /\ Others(l)
    BY <1>6, <1>0 DEF Operate, ImageMounted, Go, Raise, Slips, prepVars, imageVars, runVars, Others, Late, Shared,
       TypeOK, PreparationTypeOK, ViewTypeOK, ImageTypeOK
  <2>2. Stages(l)' = Stages(l) /\ Build(l)' = Build(l) /\ (Direct(l)' <=> Direct(l))
    BY <2>1 DEF Stages, Build, Direct
  <2>3. /\ pc[l] = "mounted" /\ at[l] > 3
        /\ ((pc'[l] = "except" /\ slip'[l] = slip[l] \cup {"mounted"}) \/ (pc'[l] = "change" /\ slip'[l] = slip[l]))
        /\ status'[l] = status[l] /\ at'[l] = at[l] /\ mark'[l] = mark[l] /\ (canceled'[l] <=> canceled[l])
        /\ canceler'[l] = canceler[l] /\ continues'[l] = continues[l] /\ (notified'[l] <=> notified[l]) /\ (byView'[l] <=> byView[l])
        /\ shows'[l] = shows[l] /\ (finish'[l] <=> finish[l]) /\ dir'[l] = dir[l] /\ (mounted'[l] <=> mounted[l])
        /\ run'[l] = run[l]
    BY <1>6, <1>0, OperatingAt DEF Operate, ImageMounted, Go, Raise, Slips, prepVars, imageVars, runVars, LaunchOK,
       Serial, TypeOK, PreparationTypeOK, ViewTypeOK, ImageTypeOK
  <2>4. PreparationTypeOK'
    BY <1>6, <1>0, <2>3 DEF Operate, ImageMounted, Go, Raise, Slips, prepVars, imageVars, runVars, TypeOK,
       PreparationTypeOK, StagePlaces, Inside, MountPlaces
  <2>5. ViewTypeOK'
    BY <1>6, <1>0, <2>3 DEF Operate, ImageMounted, Go, Raise, Slips, prepVars, imageVars, runVars, TypeOK,
       ViewTypeOK, Happenings, Runs
  <2>6. ImageTypeOK'
    BY <1>6, <1>0, <2>3 DEF Operate, ImageMounted, Go, Raise, Slips, prepVars, imageVars, runVars, TypeOK,
       ImageTypeOK, Images
  <2>7. Entries' /\ WholeStays
    <3>1. \A o \in Launches : Shared(o)' <=> Shared(o)
      BY <1>6, <1>0, SlipsOther DEF Operate, ImageMounted, imageVars, TypeOK, Shared
    <3> QED BY <1>6, <1>0, <2>1, <2>3, <3>1, CacheStays DEF Operate, ImageMounted, Go, Raise, Slips, prepVars,
       imageVars, runVars
  <2>8. Serial(l)'
    BY <1>0, <2>2, <2>3 DEF LaunchOK, Serial, LaunchTypes, StagePlaces, Inside, MountPlaces
  <2>9. ~Shared(l)' => Prepares(l)'
    BY <1>0, <2>1, <2>2, <2>3, <2>7 DEF LaunchOK, Serial, Prepares, Prepared, Done, Shared, Late, WholeStays,
       LaunchTypes, StagePlaces, Inside, MountPlaces
  <2>10. ~Shared(l)' => Prepared(l)'
    BY <1>0, <2>1, <2>2, <2>3, <2>7 DEF LaunchOK, Serial, Prepares, Prepared, Done, Shared, Late, WholeStays,
       LaunchTypes, StagePlaces, Inside, MountPlaces
  <2> QED BY <2>1, <2>4, <2>5, <2>6, <2>7, <2>8, <2>9, <2>10, OneStep DEF LaunchOK, TypeOK
<1>7. CASE Operate(l) /\ ImageChanged(l)
  <2>1. plan' = plan /\ app' = app /\ Others(l)
    BY <1>7, <1>0 DEF Operate, ImageChanged, Go, prepVars, imageVars, runVars, Others, Late, Shared, TypeOK,
       PreparationTypeOK, ViewTypeOK, ImageTypeOK
  <2>2. Stages(l)' = Stages(l) /\ Build(l)' = Build(l) /\ (Direct(l)' <=> Direct(l))
    BY <2>1 DEF Stages, Build, Direct
  <2>3. /\ pc[l] = "change" /\ at[l] > 3
        /\ pc'[l] \in {"unmount", "unmount_failed"}
        /\ status'[l] = status[l] /\ at'[l] = at[l] /\ mark'[l] = mark[l] /\ (canceled'[l] <=> canceled[l])
        /\ canceler'[l] = canceler[l] /\ continues'[l] = continues[l] /\ (notified'[l] <=> notified[l]) /\ (byView'[l] <=> byView[l])
        /\ shows'[l] = shows[l] /\ (finish'[l] <=> finish[l]) /\ dir'[l] = dir[l] /\ (mounted'[l] <=> mounted[l])
        /\ run'[l] = run[l] /\ slip'[l] = slip[l]
    BY <1>7, <1>0, OperatingAt DEF Operate, ImageChanged, Go, prepVars, imageVars, runVars, LaunchOK, Serial,
       TypeOK, PreparationTypeOK, ViewTypeOK, ImageTypeOK
  <2>4. PreparationTypeOK'
    BY <1>7, <1>0, <2>3 DEF Operate, ImageChanged, Go, prepVars, imageVars, runVars, TypeOK, PreparationTypeOK,
       StagePlaces, Inside, MountPlaces
  <2>5. ViewTypeOK'
    BY <1>7, <1>0, <2>3 DEF Operate, ImageChanged, Go, prepVars, imageVars, runVars, TypeOK, ViewTypeOK, Happenings,
       Runs
  <2>6. ImageTypeOK'
    BY <1>7, <1>0, <2>3 DEF Operate, ImageChanged, Go, prepVars, imageVars, runVars, TypeOK, ImageTypeOK, Images
  <2>7. Entries' /\ WholeStays
    BY <1>7, <1>0, <2>1, <2>3, CacheStays DEF Operate, ImageChanged, Go, prepVars, imageVars, runVars, Others, Shared
  <2>8. Serial(l)'
    BY <1>0, <2>2, <2>3 DEF LaunchOK, Serial, LaunchTypes, StagePlaces, Inside, MountPlaces
  <2>9. ~Shared(l)' => Prepares(l)'
    BY <1>0, <2>1, <2>2, <2>3, <2>7 DEF LaunchOK, Serial, Prepares, Prepared, Done, Shared, Late, WholeStays,
       LaunchTypes, StagePlaces, Inside, MountPlaces
  <2>10. ~Shared(l)' => Prepared(l)'
    BY <1>0, <2>1, <2>2, <2>3, <2>7 DEF LaunchOK, Serial, Prepares, Prepared, Done, Shared, Late, WholeStays,
       LaunchTypes, StagePlaces, Inside, MountPlaces
  <2> QED BY <2>1, <2>4, <2>5, <2>6, <2>7, <2>8, <2>9, <2>10, OneStep DEF LaunchOK, TypeOK
<1>8. CASE Operate(l) /\ ImageUnmounts(l)
  <2>1. plan' = plan /\ app' = app /\ Others(l)
    BY <1>8, <1>0 DEF Operate, ImageUnmounts, Go, Raise, Slips, prepVars, imageVars, runVars, Others, Late, Shared,
       TypeOK, PreparationTypeOK, ViewTypeOK, ImageTypeOK
  <2>2. Stages(l)' = Stages(l) /\ Build(l)' = Build(l) /\ (Direct(l)' <=> Direct(l))
    BY <2>1 DEF Stages, Build, Direct
  <2>3. /\ pc[l] \in {"unmount", "unmount_failed"}
        /\ (pc'[l] = "except" \/ (pc[l] = "unmount" /\ pc'[l] = "check"))
        /\ (slip'[l] = slip[l] \cup {"mounted"} \/ (slip'[l] = slip[l] /\ ~mounted'[l]))
        /\ status'[l] = status[l] /\ at'[l] = at[l] /\ mark'[l] = mark[l] /\ (canceled'[l] <=> canceled[l])
        /\ canceler'[l] = canceler[l] /\ continues'[l] = continues[l] /\ (notified'[l] <=> notified[l]) /\ (byView'[l] <=> byView[l])
        /\ shows'[l] = shows[l] /\ (finish'[l] <=> finish[l]) /\ dir'[l] = dir[l] /\ run'[l] = run[l]
    BY <1>8, <1>0, OperatingAt DEF Operate, ImageUnmounts, Go, Raise, Slips, prepVars, imageVars, runVars, LaunchOK,
       Serial, TypeOK, PreparationTypeOK, ViewTypeOK, ImageTypeOK
  <2>4. PreparationTypeOK'
    BY <1>8, <1>0, <2>3 DEF Operate, ImageUnmounts, Go, Raise, Slips, prepVars, imageVars, runVars, TypeOK,
       PreparationTypeOK, StagePlaces, Inside, MountPlaces
  <2>5. ViewTypeOK'
    BY <1>8, <1>0, <2>3 DEF Operate, ImageUnmounts, Go, Raise, Slips, prepVars, imageVars, runVars, TypeOK,
       ViewTypeOK, Happenings, Runs
  <2>6. ImageTypeOK'
    BY <1>8, <1>0, <2>3 DEF Operate, ImageUnmounts, Go, Raise, Slips, prepVars, imageVars, runVars, TypeOK,
       ImageTypeOK, Images
  <2>7. Entries' /\ WholeStays
    <3>1. \A o \in Launches : Shared(o)' <=> Shared(o)
      BY <1>8, <1>0, SlipsOther DEF Operate, ImageUnmounts, TypeOK, Shared
    <3> QED BY <1>8, <1>0, <2>1, <2>3, <3>1, CacheStays DEF Operate, ImageUnmounts, Go, Raise, Slips, prepVars,
       imageVars, runVars
  <2>8. Serial(l)'
    BY <1>0, <2>2, <2>3 DEF LaunchOK, Serial, LaunchTypes, StagePlaces, Inside, MountPlaces
  <2>9. ~Shared(l)' => Prepares(l)'
    BY <1>0, <2>1, <2>2, <2>3, <2>7 DEF LaunchOK, Serial, Prepares, Prepared, Done, Shared, Late, WholeStays,
       LaunchTypes, StagePlaces, Inside, MountPlaces
  <2>10. ~Shared(l)' => Prepared(l)'
    BY <1>0, <2>1, <2>2, <2>3, <2>7 DEF LaunchOK, Serial, Prepares, Prepared, Done, Shared, Late, WholeStays,
       LaunchTypes, StagePlaces, Inside, MountPlaces
  <2> QED BY <2>1, <2>4, <2>5, <2>6, <2>7, <2>8, <2>9, <2>10, OneStep DEF LaunchOK, TypeOK
<1>9. CASE Operate(l) /\ GivesUp(l)
  <2>1. plan' = plan /\ app' = app /\ Others(l)
    BY <1>9, <1>0 DEF Operate, GivesUp, Go, Raise, prepVars, imageVars, runVars, Others, Late, Shared, TypeOK,
       PreparationTypeOK, ViewTypeOK, ImageTypeOK
  <2>2. Stages(l)' = Stages(l) /\ Build(l)' = Build(l) /\ (Direct(l)' <=> Direct(l))
    BY <2>1 DEF Stages, Build, Direct
  <2>3. /\ pc[l] = "operate"
        /\ pc'[l] = "except"
        /\ status'[l] = status[l] /\ at'[l] = at[l] /\ mark'[l] = mark[l] /\ (canceled'[l] <=> canceled[l])
        /\ canceler'[l] = canceler[l] /\ continues'[l] = continues[l] /\ (notified'[l] <=> notified[l]) /\ (byView'[l] <=> byView[l])
        /\ shows'[l] = shows[l] /\ (finish'[l] <=> finish[l]) /\ dir'[l] = dir[l] /\ (mounted'[l] <=> mounted[l])
        /\ run'[l] = run[l] /\ slip'[l] = slip[l]
    BY <1>9, <1>0, OperatingAt DEF Operate, GivesUp, Go, Raise, prepVars, imageVars, runVars, LaunchOK, Serial,
       TypeOK, PreparationTypeOK, ViewTypeOK, ImageTypeOK
  <2>4. PreparationTypeOK'
    BY <1>9, <1>0, <2>3 DEF Operate, GivesUp, Go, Raise, prepVars, imageVars, runVars, TypeOK, PreparationTypeOK,
       StagePlaces, Inside, MountPlaces
  <2>5. ViewTypeOK'
    BY <1>9, <1>0, <2>3 DEF Operate, GivesUp, Go, Raise, prepVars, imageVars, runVars, TypeOK, ViewTypeOK,
       Happenings, Runs
  <2>6. ImageTypeOK'
    BY <1>9, <1>0, <2>3 DEF Operate, GivesUp, Go, Raise, prepVars, imageVars, runVars, TypeOK, ImageTypeOK, Images
  <2>7. Entries' /\ WholeStays
    BY <1>9, <1>0, <2>1, <2>3, CacheStays DEF Operate, GivesUp, Go, Raise, prepVars, imageVars, runVars, Others, Shared
  <2>8. Serial(l)'
    BY <1>0, <2>2, <2>3 DEF LaunchOK, Serial, LaunchTypes, StagePlaces, Inside, MountPlaces
  <2>9. ~Shared(l)' => Prepares(l)'
    BY <1>0, <2>1, <2>2, <2>3, <2>7 DEF LaunchOK, Serial, Prepares, Prepared, Done, Shared, Late, WholeStays,
       LaunchTypes, StagePlaces, Inside, MountPlaces
  <2>10. ~Shared(l)' => Prepared(l)'
    BY <1>0, <2>1, <2>2, <2>3, <2>7 DEF LaunchOK, Serial, Prepares, Prepared, Done, Shared, Late, WholeStays,
       LaunchTypes, StagePlaces, Inside, MountPlaces
  <2> QED BY <2>1, <2>4, <2>5, <2>6, <2>7, <2>8, <2>9, <2>10, OneStep DEF LaunchOK, TypeOK
<1> QED BY <1>1, <1>2, <1>3, <1>4, <1>5, <1>6, <1>7, <1>8, <1>9

\* The view shows the machine, or prepares its image again.
LEMMA ViewStep ==
  ASSUME IInv, NEW l \in Launches, app # "down",
         \/ PressFinish(l)
         \/ Show(l) /\ ShowRefused(l)
         \/ Show(l) /\ ShowPrepares(l)
         \/ Show(l) /\ ShowFails(l)
         \/ Show(l) /\ ShowStarts(l)
  PROVE  IInv'
<1>0. TypeOK /\ Entries /\ LaunchOK(l) /\ LaunchTypes(l)
  BY TypesAt DEF IInv
<1>a. Len(Stages(l)) \in Nat /\ Len(Stages(l)) >= 3
  BY StagesAre
<1>1. CASE PressFinish(l)
  <2>1. plan' = plan /\ app' = app /\ Others(l)
    BY <1>1, <1>0 DEF PressFinish, prepVars, imageVars, runVars, Others, Late, Shared, TypeOK, PreparationTypeOK,
       ViewTypeOK, ImageTypeOK
  <2>2. Stages(l)' = Stages(l) /\ Build(l)' = Build(l) /\ (Direct(l)' <=> Direct(l))
    BY <2>1 DEF Stages, Build, Direct
  <2>3. /\ status[l] = "completed" /\ canceler[l] = "none" /\ finish[l] /\ shows[l] = 0
        /\ shows'[l] = 1 /\ ~finish'[l]
        /\ status'[l] = status[l] /\ at'[l] = at[l] /\ mark'[l] = mark[l] /\ pc'[l] = pc[l]
        /\ (canceled'[l] <=> canceled[l]) /\ canceler'[l] = canceler[l] /\ continues'[l] = continues[l] /\ (notified'[l] <=> notified[l])
        /\ (byView'[l] <=> byView[l]) /\ dir'[l] = dir[l] /\ (mounted'[l] <=> mounted[l]) /\ run'[l] = run[l]
        /\ slip'[l] = slip[l]
    BY <1>1, <1>0 DEF PressFinish, prepVars, imageVars, runVars, LaunchOK, Serial, TypeOK, PreparationTypeOK,
       ViewTypeOK, ImageTypeOK
  <2>4. PreparationTypeOK'
    BY <1>1, <1>0, <2>3 DEF PressFinish, prepVars, imageVars, runVars, TypeOK, PreparationTypeOK, StagePlaces,
       Inside, MountPlaces
  <2>5. ViewTypeOK'
    BY <1>1, <1>0, <2>3 DEF PressFinish, prepVars, imageVars, runVars, TypeOK, ViewTypeOK, Happenings, Runs
  <2>6. ImageTypeOK'
    BY <1>1, <1>0, <2>3 DEF PressFinish, prepVars, imageVars, runVars, TypeOK, ImageTypeOK, Images
  <2>7. Entries' /\ WholeStays
    BY <1>1, <1>0, <2>1, <2>3, CacheStays DEF PressFinish, prepVars, imageVars, runVars, Others, Shared
  <2>8. Serial(l)'
    BY <1>0, <2>2, <2>3 DEF LaunchOK, Serial, LaunchTypes, StagePlaces, Inside, MountPlaces
  <2>9. ~Shared(l)' => Prepares(l)'
    BY <1>0, <2>1, <2>2, <2>3, <2>7 DEF LaunchOK, Serial, Prepares, Prepared, Done, Shared, Late, WholeStays,
       LaunchTypes, StagePlaces, Inside, MountPlaces
  <2>10. ~Shared(l)' => Prepared(l)'
    BY <1>0, <2>1, <2>2, <2>3, <2>7 DEF LaunchOK, Serial, Prepares, Prepared, Done, Shared, Late, WholeStays,
       LaunchTypes, StagePlaces, Inside, MountPlaces
  <2> QED BY <2>1, <2>4, <2>5, <2>6, <2>7, <2>8, <2>9, <2>10, OneStep DEF LaunchOK, TypeOK
<1>2. CASE Show(l) /\ ShowRefused(l)
  <2>1. plan' = plan /\ app' = app /\ Others(l)
    BY <1>2, <1>0 DEF Show, ShowRefused, Slips, prepVars, imageVars, runVars, Others, Late, Shared, TypeOK,
       PreparationTypeOK, ViewTypeOK, ImageTypeOK
  <2>2. Stages(l)' = Stages(l) /\ Build(l)' = Build(l) /\ (Direct(l)' <=> Direct(l))
    BY <2>1 DEF Stages, Build, Direct
  <2>3. /\ shows[l] = 1
        /\ slip'[l] = slip[l] \cup {"refused"}
        /\ shows'[l] = 0 /\ ~finish'[l]
        /\ status'[l] = status[l] /\ at'[l] = at[l] /\ mark'[l] = mark[l] /\ pc'[l] = pc[l]
        /\ (canceled'[l] <=> canceled[l]) /\ canceler'[l] = canceler[l] /\ continues'[l] = continues[l] /\ (notified'[l] <=> notified[l])
        /\ (byView'[l] <=> byView[l]) /\ dir'[l] = dir[l] /\ (mounted'[l] <=> mounted[l]) /\ run'[l] = run[l]
    BY <1>2, <1>0 DEF Show, ShowRefused, Slips, prepVars, imageVars, runVars, LaunchOK, Serial, TypeOK,
       PreparationTypeOK, ViewTypeOK, ImageTypeOK
  <2>4. PreparationTypeOK'
    BY <1>2, <1>0, <2>3 DEF Show, ShowRefused, Slips, prepVars, imageVars, runVars, TypeOK, PreparationTypeOK,
       StagePlaces, Inside, MountPlaces
  <2>5. ViewTypeOK'
    BY <1>2, <1>0, <2>3 DEF Show, ShowRefused, Slips, prepVars, imageVars, runVars, TypeOK, ViewTypeOK, Happenings, Runs
  <2>6. ImageTypeOK'
    BY <1>2, <1>0, <2>3 DEF Show, ShowRefused, Slips, prepVars, imageVars, runVars, TypeOK, ImageTypeOK, Images
  <2>7. Entries' /\ WholeStays
    <3>1. \A o \in Launches : Shared(o)' <=> Shared(o)
      BY <1>2, <1>0, SlipsOther DEF Show, ShowRefused, TypeOK, Shared
    <3> QED BY <1>2, <1>0, <2>1, <2>3, <3>1, CacheStays DEF Show, ShowRefused, Slips, prepVars, imageVars, runVars
  <2>8. Serial(l)'
    BY <1>0, <2>2, <2>3 DEF LaunchOK, Serial, LaunchTypes, StagePlaces, Inside, MountPlaces
  <2>9. ~Shared(l)' => Prepares(l)'
    BY <1>0, <2>1, <2>2, <2>3, <2>7 DEF LaunchOK, Serial, Prepares, Prepared, Done, Shared, Late, WholeStays,
       LaunchTypes, StagePlaces, Inside, MountPlaces
  <2>10. ~Shared(l)' => Prepared(l)'
    BY <1>0, <2>1, <2>2, <2>3, <2>7 DEF LaunchOK, Serial, Prepares, Prepared, Done, Shared, Late, WholeStays,
       LaunchTypes, StagePlaces, Inside, MountPlaces
  <2> QED BY <2>1, <2>4, <2>5, <2>6, <2>7, <2>8, <2>9, <2>10, OneStep DEF LaunchOK, TypeOK
<1>3. CASE Show(l) /\ ShowPrepares(l)
  <2>1. plan' = plan /\ app' = app /\ Others(l)
    BY <1>3, <1>0 DEF Show, ShowPrepares, Begins, prepVars, imageVars, runVars, Others, Late, Shared, TypeOK,
       PreparationTypeOK, ViewTypeOK, ImageTypeOK
  <2>2. Stages(l)' = Stages(l) /\ Build(l)' = Build(l) /\ (Direct(l)' <=> Direct(l))
    BY <2>1 DEF Stages, Build, Direct
  <2>3. /\ shows[l] = 1 /\ ~Ready(l)
        /\ status'[l] = "progress" /\ at'[l] = 1 /\ mark'[l] = "scheduled" /\ pc'[l] = "begin" /\ ~canceled'[l] /\ ~notified'[l] /\ byView'[l] /\ shows'[l] = 0 /\ ~finish'[l]
        /\ canceler'[l] = canceler[l] /\ continues'[l] = continues[l] /\ dir'[l] = dir[l] /\ (mounted'[l] <=> mounted[l])
        /\ run'[l] = run[l] /\ slip'[l] = slip[l]
    BY <1>3, <1>0 DEF Show, ShowPrepares, Begins, prepVars, imageVars, runVars, LaunchOK, Serial, TypeOK,
       PreparationTypeOK, ViewTypeOK, ImageTypeOK
  <2>4. PreparationTypeOK'
    BY <1>3, <1>0, <2>3 DEF Show, ShowPrepares, Begins, prepVars, imageVars, runVars, TypeOK, PreparationTypeOK,
       StagePlaces, Inside, MountPlaces
  <2>5. ViewTypeOK'
    BY <1>3, <1>0, <2>3 DEF Show, ShowPrepares, Begins, prepVars, imageVars, runVars, TypeOK, ViewTypeOK,
       Happenings, Runs
  <2>6. ImageTypeOK'
    BY <1>3, <1>0, <2>3 DEF Show, ShowPrepares, Begins, prepVars, imageVars, runVars, TypeOK, ImageTypeOK, Images
  <2>7. Entries' /\ WholeStays
    BY <1>3, <1>0, <2>1, <2>3, CacheStays DEF Show, ShowPrepares, Begins, prepVars, imageVars, runVars, Others, Shared
  <2>8. Serial(l)'
    <3>2. at'[l] = 1
      BY <2>3
    <3>0. at'[l] <= Len(Stages(l))
      BY <1>a, <3>2
    <3>1. (at[l] <= Len(Stages(l)))'
      BY <3>0, <2>2
    <3> QED BY <1>0, <2>3, <3>1 DEF LaunchOK, Serial, LaunchTypes, StagePlaces, Inside, MountPlaces
  <2>9. ~Shared(l)' => Prepares(l)'
    <3>1. ASSUME ~Shared(l) PROVE FALSE
      BY <1>0, <2>3, <3>1 DEF LaunchOK, Prepared, Prepares, Ready, CacheWhole, LaunchTypes, Runs
    <3> QED BY <2>3, <3>1 DEF Shared
  <2>10. ~Shared(l)' => Prepared(l)'
    <3>1. ASSUME ~Shared(l) PROVE FALSE
      BY <1>0, <2>3, <3>1 DEF LaunchOK, Prepared, Prepares, Ready, CacheWhole, LaunchTypes, Runs
    <3> QED BY <2>3, <3>1 DEF Shared
  <2> QED BY <2>1, <2>4, <2>5, <2>6, <2>7, <2>8, <2>9, <2>10, OneStep DEF LaunchOK, TypeOK
<1>4. CASE Show(l) /\ ShowFails(l)
  <2>1. plan' = plan /\ app' = app /\ Others(l)
    BY <1>4, <1>0 DEF Show, ShowFails, prepVars, imageVars, runVars, Others, Late, Shared, TypeOK,
       PreparationTypeOK, ViewTypeOK, ImageTypeOK
  <2>2. Stages(l)' = Stages(l) /\ Build(l)' = Build(l) /\ (Direct(l)' <=> Direct(l))
    BY <2>1 DEF Stages, Build, Direct
  <2>3. /\ shows[l] = 1
        /\ shows'[l] = 0 /\ ~finish'[l] /\ dir'[l] = "none" /\ run'[l] = "over"
        /\ status'[l] = status[l] /\ at'[l] = at[l] /\ mark'[l] = mark[l] /\ pc'[l] = pc[l]
        /\ (canceled'[l] <=> canceled[l]) /\ canceler'[l] = canceler[l] /\ continues'[l] = continues[l] /\ (notified'[l] <=> notified[l])
        /\ (byView'[l] <=> byView[l]) /\ (mounted'[l] <=> mounted[l]) /\ slip'[l] = slip[l]
    BY <1>4, <1>0 DEF Show, ShowFails, prepVars, imageVars, runVars, LaunchOK, Serial, TypeOK, PreparationTypeOK,
       ViewTypeOK, ImageTypeOK
  <2>4. PreparationTypeOK'
    BY <1>4, <1>0, <2>3 DEF Show, ShowFails, prepVars, imageVars, runVars, TypeOK, PreparationTypeOK, StagePlaces,
       Inside, MountPlaces
  <2>5. ViewTypeOK'
    BY <1>4, <1>0, <2>3 DEF Show, ShowFails, prepVars, imageVars, runVars, TypeOK, ViewTypeOK, Happenings, Runs
  <2>6. ImageTypeOK'
    BY <1>4, <1>0, <2>3 DEF Show, ShowFails, prepVars, imageVars, runVars, TypeOK, ImageTypeOK, Images
  <2>7. Entries' /\ WholeStays
    BY <1>4, <1>0, <2>1, <2>3, CacheStays DEF Show, ShowFails, prepVars, imageVars, runVars, Others, Shared
  <2>8. Serial(l)'
    BY <1>0, <2>2, <2>3 DEF LaunchOK, Serial, LaunchTypes, StagePlaces, Inside, MountPlaces
  <2>9. ~Shared(l)' => Prepares(l)'
    BY <1>0, <2>1, <2>2, <2>3, <2>7 DEF LaunchOK, Serial, Prepares, Prepared, Done, Shared, Late, WholeStays,
       LaunchTypes, StagePlaces, Inside, MountPlaces
  <2>10. ~Shared(l)' => Prepared(l)'
    BY <1>0, <2>1, <2>2, <2>3, <2>7 DEF LaunchOK, Serial, Prepares, Prepared, Done, Shared, Late, WholeStays,
       LaunchTypes, StagePlaces, Inside, MountPlaces
  <2> QED BY <2>1, <2>4, <2>5, <2>6, <2>7, <2>8, <2>9, <2>10, OneStep DEF LaunchOK, TypeOK
<1>5. CASE Show(l) /\ ShowStarts(l)
  <2>1. plan' = plan /\ app' = app /\ Others(l)
    BY <1>5, <1>0 DEF Show, ShowStarts, prepVars, imageVars, runVars, Others, Late, Shared, TypeOK,
       PreparationTypeOK, ViewTypeOK, ImageTypeOK
  <2>2. Stages(l)' = Stages(l) /\ Build(l)' = Build(l) /\ (Direct(l)' <=> Direct(l))
    BY <2>1 DEF Stages, Build, Direct
  <2>3. /\ shows[l] = 1
        /\ shows'[l] = 0 /\ ~finish'[l] /\ run'[l] = "running"
        /\ status'[l] = status[l] /\ at'[l] = at[l] /\ mark'[l] = mark[l] /\ pc'[l] = pc[l]
        /\ (canceled'[l] <=> canceled[l]) /\ canceler'[l] = canceler[l] /\ continues'[l] = continues[l] /\ (notified'[l] <=> notified[l])
        /\ (byView'[l] <=> byView[l]) /\ dir'[l] = dir[l] /\ (mounted'[l] <=> mounted[l]) /\ slip'[l] = slip[l]
    BY <1>5, <1>0 DEF Show, ShowStarts, prepVars, imageVars, runVars, LaunchOK, Serial, TypeOK, PreparationTypeOK,
       ViewTypeOK, ImageTypeOK
  <2>4. PreparationTypeOK'
    BY <1>5, <1>0, <2>3 DEF Show, ShowStarts, prepVars, imageVars, runVars, TypeOK, PreparationTypeOK, StagePlaces,
       Inside, MountPlaces
  <2>5. ViewTypeOK'
    BY <1>5, <1>0, <2>3 DEF Show, ShowStarts, prepVars, imageVars, runVars, TypeOK, ViewTypeOK, Happenings, Runs
  <2>6. ImageTypeOK'
    BY <1>5, <1>0, <2>3 DEF Show, ShowStarts, prepVars, imageVars, runVars, TypeOK, ImageTypeOK, Images
  <2>7. Entries' /\ WholeStays
    BY <1>5, <1>0, <2>1, <2>3, CacheStays DEF Show, ShowStarts, prepVars, imageVars, runVars, Others, Shared
  <2>8. Serial(l)'
    BY <1>0, <2>2, <2>3 DEF LaunchOK, Serial, LaunchTypes, StagePlaces, Inside, MountPlaces
  <2>9. ~Shared(l)' => Prepares(l)'
    BY <1>0, <2>1, <2>2, <2>3, <2>7 DEF LaunchOK, Serial, Prepares, Prepared, Done, Shared, Late, WholeStays,
       LaunchTypes, StagePlaces, Inside, MountPlaces
  <2>10. ~Shared(l)' => Prepared(l)'
    BY <1>0, <2>1, <2>2, <2>3, <2>7 DEF LaunchOK, Serial, Prepares, Prepared, Done, Shared, Late, WholeStays,
       LaunchTypes, StagePlaces, Inside, MountPlaces
  <2> QED BY <2>1, <2>4, <2>5, <2>6, <2>7, <2>8, <2>9, <2>10, OneStep DEF LaunchOK, TypeOK
<1> QED BY <1>1, <1>2, <1>3, <1>4, <1>5

\* The machine runs, is stopped and ends.
LEMMA MachineStep ==
  ASSUME IInv, NEW l \in Launches, app # "down",
         \/ RunOnly(StopAnswered(l) \/ Escalate(l))
         \/ RunOnly(Kill(l))
         \/ RunOnly(RunCleans(l))
         \/ RunOnly(MachineEnds(l))
         \/ RunOnly(StopBegins(l))
         \/ OrphanEnds(l)
  PROVE  IInv'
<1>0. TypeOK /\ Entries /\ LaunchOK(l) /\ LaunchTypes(l)
  BY TypesAt DEF IInv
<1>1. CASE RunOnly(StopAnswered(l) \/ Escalate(l))
  <2>1. plan' = plan /\ app' = app /\ Others(l)
    BY <1>1, <1>0 DEF RunOnly, StopAnswered, Escalate, prepVars, imageVars, runVars, Others, Late, Shared, TypeOK,
       PreparationTypeOK, ViewTypeOK, ImageTypeOK
  <2>2. Stages(l)' = Stages(l) /\ Build(l)' = Build(l) /\ (Direct(l)' <=> Direct(l))
    BY <2>1 DEF Stages, Build, Direct
  <2>3. /\ status'[l] = status[l] /\ at'[l] = at[l] /\ mark'[l] = mark[l] /\ pc'[l] = pc[l]
        /\ (canceled'[l] <=> canceled[l]) /\ canceler'[l] = canceler[l] /\ continues'[l] = continues[l] /\ (notified'[l] <=> notified[l])
        /\ (byView'[l] <=> byView[l]) /\ shows'[l] = shows[l] /\ (finish'[l] <=> finish[l]) /\ dir'[l] = dir[l]
        /\ (mounted'[l] <=> mounted[l]) /\ run'[l] = run[l] /\ slip'[l] = slip[l]
    BY <1>1, <1>0 DEF RunOnly, StopAnswered, Escalate, prepVars, imageVars, runVars, LaunchOK, Serial, TypeOK, PreparationTypeOK,
       ViewTypeOK, ImageTypeOK
  <2>4. PreparationTypeOK'
    BY <1>1, <1>0, <2>3 DEF RunOnly, StopAnswered, Escalate, prepVars, imageVars, runVars, TypeOK, PreparationTypeOK, StagePlaces,
       Inside, MountPlaces
  <2>5. ViewTypeOK'
    BY <1>1, <1>0, <2>3 DEF RunOnly, StopAnswered, Escalate, prepVars, imageVars, runVars, TypeOK, ViewTypeOK, Happenings,
       Runs, Stops
  <2>6. ImageTypeOK'
    BY <1>1, <1>0, <2>3 DEF RunOnly, StopAnswered, Escalate, prepVars, imageVars, runVars, TypeOK, ImageTypeOK, Images
  <2>7. Entries' /\ WholeStays
    BY <1>1, <1>0, <2>1, <2>3, CacheStays DEF RunOnly, StopAnswered, Escalate, prepVars, imageVars, runVars, Others, Shared
  <2>8. Serial(l)'
    BY <1>0, <2>2, <2>3 DEF LaunchOK, Serial, LaunchTypes, StagePlaces, Inside, MountPlaces
  <2>9. ~Shared(l)' => Prepares(l)'
    BY <1>0, <2>1, <2>2, <2>3, <2>7 DEF LaunchOK, Serial, Prepares, Prepared, Done, Shared, Late, WholeStays,
       LaunchTypes, StagePlaces, Inside, MountPlaces
  <2>10. ~Shared(l)' => Prepared(l)'
    BY <1>0, <2>1, <2>2, <2>3, <2>7 DEF LaunchOK, Serial, Prepares, Prepared, Done, Shared, Late, WholeStays,
       LaunchTypes, StagePlaces, Inside, MountPlaces
  <2> QED BY <2>1, <2>4, <2>5, <2>6, <2>7, <2>8, <2>9, <2>10, OneStep DEF LaunchOK, TypeOK
<1>2. CASE RunOnly(Kill(l))
  <2>1. plan' = plan /\ app' = app /\ Others(l)
    BY <1>2, <1>0 DEF RunOnly, Kill, prepVars, imageVars, runVars, Others, Late, Shared, TypeOK, PreparationTypeOK,
       ViewTypeOK, ImageTypeOK
  <2>2. Stages(l)' = Stages(l) /\ Build(l)' = Build(l) /\ (Direct(l)' <=> Direct(l))
    BY <2>1 DEF Stages, Build, Direct
  <2>3. /\ run'[l] = IF run[l] = "running" THEN "ended" ELSE run[l]
        /\ status'[l] = status[l] /\ at'[l] = at[l] /\ mark'[l] = mark[l] /\ pc'[l] = pc[l]
        /\ (canceled'[l] <=> canceled[l]) /\ canceler'[l] = canceler[l] /\ continues'[l] = continues[l] /\ (notified'[l] <=> notified[l])
        /\ (byView'[l] <=> byView[l]) /\ shows'[l] = shows[l] /\ (finish'[l] <=> finish[l]) /\ dir'[l] = dir[l]
        /\ (mounted'[l] <=> mounted[l]) /\ slip'[l] = slip[l]
    BY <1>2, <1>0 DEF RunOnly, Kill, prepVars, imageVars, runVars, LaunchOK, Serial, TypeOK, PreparationTypeOK,
       ViewTypeOK, ImageTypeOK
  <2>4. PreparationTypeOK'
    BY <1>2, <1>0, <2>3 DEF RunOnly, Kill, prepVars, imageVars, runVars, TypeOK, PreparationTypeOK, StagePlaces,
       Inside, MountPlaces
  <2>5. ViewTypeOK'
    BY <1>2, <1>0, <2>3 DEF RunOnly, Kill, prepVars, imageVars, runVars, TypeOK, ViewTypeOK, Happenings, Runs, Stops
  <2>6. ImageTypeOK'
    BY <1>2, <1>0, <2>3 DEF RunOnly, Kill, prepVars, imageVars, runVars, TypeOK, ImageTypeOK, Images
  <2>7. Entries' /\ WholeStays
    BY <1>2, <1>0, <2>1, <2>3, CacheStays DEF RunOnly, Kill, prepVars, imageVars, runVars, Others, Shared
  <2>8. Serial(l)'
    BY <1>0, <2>2, <2>3 DEF LaunchOK, Serial, LaunchTypes, StagePlaces, Inside, MountPlaces
  <2>9. ~Shared(l)' => Prepares(l)'
    BY <1>0, <2>1, <2>2, <2>3, <2>7 DEF LaunchOK, Serial, Prepares, Prepared, Done, Shared, Late, WholeStays,
       LaunchTypes, StagePlaces, Inside, MountPlaces
  <2>10. ~Shared(l)' => Prepared(l)'
    BY <1>0, <2>1, <2>2, <2>3, <2>7 DEF LaunchOK, Serial, Prepares, Prepared, Done, Shared, Late, WholeStays,
       LaunchTypes, StagePlaces, Inside, MountPlaces
  <2> QED BY <2>1, <2>4, <2>5, <2>6, <2>7, <2>8, <2>9, <2>10, OneStep DEF LaunchOK, TypeOK
<1>3. CASE RunOnly(RunCleans(l))
  <2>1. plan' = plan /\ app' = app /\ Others(l)
    BY <1>3, <1>0 DEF RunOnly, RunCleans, prepVars, imageVars, runVars, Others, Late, Shared, TypeOK,
       PreparationTypeOK, ViewTypeOK, ImageTypeOK
  <2>2. Stages(l)' = Stages(l) /\ Build(l)' = Build(l) /\ (Direct(l)' <=> Direct(l))
    BY <2>1 DEF Stages, Build, Direct
  <2>3. /\ run[l] = "ended"
        /\ dir'[l] = "none" /\ run'[l] = "over"
        /\ status'[l] = status[l] /\ at'[l] = at[l] /\ mark'[l] = mark[l] /\ pc'[l] = pc[l]
        /\ (canceled'[l] <=> canceled[l]) /\ canceler'[l] = canceler[l] /\ continues'[l] = continues[l] /\ (notified'[l] <=> notified[l])
        /\ (byView'[l] <=> byView[l]) /\ shows'[l] = shows[l] /\ (finish'[l] <=> finish[l]) /\ (mounted'[l] <=> mounted[l])
        /\ slip'[l] = slip[l]
    BY <1>3, <1>0 DEF RunOnly, RunCleans, prepVars, imageVars, runVars, LaunchOK, Serial, TypeOK, PreparationTypeOK,
       ViewTypeOK, ImageTypeOK
  <2>4. PreparationTypeOK'
    BY <1>3, <1>0, <2>3 DEF RunOnly, RunCleans, prepVars, imageVars, runVars, TypeOK, PreparationTypeOK,
       StagePlaces, Inside, MountPlaces
  <2>5. ViewTypeOK'
    BY <1>3, <1>0, <2>3 DEF RunOnly, RunCleans, prepVars, imageVars, runVars, TypeOK, ViewTypeOK, Happenings, Runs
  <2>6. ImageTypeOK'
    BY <1>3, <1>0, <2>3 DEF RunOnly, RunCleans, prepVars, imageVars, runVars, TypeOK, ImageTypeOK, Images
  <2>7. Entries' /\ WholeStays
    BY <1>3, <1>0, <2>1, <2>3, CacheStays DEF RunOnly, RunCleans, prepVars, imageVars, runVars, Others, Shared
  <2>8. Serial(l)'
    BY <1>0, <2>2, <2>3 DEF LaunchOK, Serial, LaunchTypes, StagePlaces, Inside, MountPlaces
  <2>9. ~Shared(l)' => Prepares(l)'
    BY <1>0, <2>1, <2>2, <2>3, <2>7 DEF LaunchOK, Serial, Prepares, Prepared, Done, Shared, Late, WholeStays,
       LaunchTypes, StagePlaces, Inside, MountPlaces
  <2>10. ~Shared(l)' => Prepared(l)'
    BY <1>0, <2>1, <2>2, <2>3, <2>7 DEF LaunchOK, Serial, Prepares, Prepared, Done, Shared, Late, WholeStays,
       LaunchTypes, StagePlaces, Inside, MountPlaces
  <2> QED BY <2>1, <2>4, <2>5, <2>6, <2>7, <2>8, <2>9, <2>10, OneStep DEF LaunchOK, TypeOK
<1>4. CASE RunOnly(MachineEnds(l))
  <2>1. plan' = plan /\ app' = app /\ Others(l)
    BY <1>4, <1>0 DEF RunOnly, MachineEnds, Running, prepVars, imageVars, runVars, Others, Late, Shared, TypeOK,
       PreparationTypeOK, ViewTypeOK, ImageTypeOK
  <2>2. Stages(l)' = Stages(l) /\ Build(l)' = Build(l) /\ (Direct(l)' <=> Direct(l))
    BY <2>1 DEF Stages, Build, Direct
  <2>3. /\ run[l] = "running"
        /\ run'[l] = "ended"
        /\ status'[l] = status[l] /\ at'[l] = at[l] /\ mark'[l] = mark[l] /\ pc'[l] = pc[l]
        /\ (canceled'[l] <=> canceled[l]) /\ canceler'[l] = canceler[l] /\ continues'[l] = continues[l] /\ (notified'[l] <=> notified[l])
        /\ (byView'[l] <=> byView[l]) /\ shows'[l] = shows[l] /\ (finish'[l] <=> finish[l]) /\ dir'[l] = dir[l]
        /\ (mounted'[l] <=> mounted[l]) /\ slip'[l] = slip[l]
    BY <1>4, <1>0 DEF RunOnly, MachineEnds, Running, prepVars, imageVars, runVars, LaunchOK, Serial, TypeOK,
       PreparationTypeOK, ViewTypeOK, ImageTypeOK
  <2>4. PreparationTypeOK'
    BY <1>4, <1>0, <2>3 DEF RunOnly, MachineEnds, Running, prepVars, imageVars, runVars, TypeOK, PreparationTypeOK,
       StagePlaces, Inside, MountPlaces
  <2>5. ViewTypeOK'
    BY <1>4, <1>0, <2>3 DEF RunOnly, MachineEnds, Running, prepVars, imageVars, runVars, TypeOK, ViewTypeOK,
       Happenings, Runs
  <2>6. ImageTypeOK'
    BY <1>4, <1>0, <2>3 DEF RunOnly, MachineEnds, Running, prepVars, imageVars, runVars, TypeOK, ImageTypeOK, Images
  <2>7. Entries' /\ WholeStays
    BY <1>4, <1>0, <2>1, <2>3, CacheStays DEF RunOnly, MachineEnds, Running, prepVars, imageVars, runVars, Others,
       Shared
  <2>8. Serial(l)'
    BY <1>0, <2>2, <2>3 DEF LaunchOK, Serial, LaunchTypes, StagePlaces, Inside, MountPlaces
  <2>9. ~Shared(l)' => Prepares(l)'
    BY <1>0, <2>1, <2>2, <2>3, <2>7 DEF LaunchOK, Serial, Prepares, Prepared, Done, Shared, Late, WholeStays,
       LaunchTypes, StagePlaces, Inside, MountPlaces
  <2>10. ~Shared(l)' => Prepared(l)'
    BY <1>0, <2>1, <2>2, <2>3, <2>7 DEF LaunchOK, Serial, Prepares, Prepared, Done, Shared, Late, WholeStays,
       LaunchTypes, StagePlaces, Inside, MountPlaces
  <2> QED BY <2>1, <2>4, <2>5, <2>6, <2>7, <2>8, <2>9, <2>10, OneStep DEF LaunchOK, TypeOK
<1>5. CASE RunOnly(StopBegins(l))
  <2>1. plan' = plan /\ app' = app /\ Others(l)
    BY <1>5, <1>0 DEF RunOnly, StopBegins, Running, prepVars, imageVars, runVars, Others, Late, Shared, TypeOK,
       PreparationTypeOK, ViewTypeOK, ImageTypeOK
  <2>2. Stages(l)' = Stages(l) /\ Build(l)' = Build(l) /\ (Direct(l)' <=> Direct(l))
    BY <2>1 DEF Stages, Build, Direct
  <2>3. /\ status'[l] = status[l] /\ at'[l] = at[l] /\ mark'[l] = mark[l] /\ pc'[l] = pc[l]
        /\ (canceled'[l] <=> canceled[l]) /\ canceler'[l] = canceler[l] /\ continues'[l] = continues[l] /\ (notified'[l] <=> notified[l])
        /\ (byView'[l] <=> byView[l]) /\ shows'[l] = shows[l] /\ (finish'[l] <=> finish[l]) /\ dir'[l] = dir[l]
        /\ (mounted'[l] <=> mounted[l]) /\ run'[l] = run[l] /\ slip'[l] = slip[l]
    BY <1>5, <1>0 DEF RunOnly, StopBegins, Running, prepVars, imageVars, runVars, LaunchOK, Serial, TypeOK,
       PreparationTypeOK, ViewTypeOK, ImageTypeOK
  <2>4. PreparationTypeOK'
    BY <1>5, <1>0, <2>3 DEF RunOnly, StopBegins, Running, prepVars, imageVars, runVars, TypeOK, PreparationTypeOK,
       StagePlaces, Inside, MountPlaces
  <2>5. ViewTypeOK'
    BY <1>5, <1>0, <2>3 DEF RunOnly, StopBegins, Running, prepVars, imageVars, runVars, TypeOK, ViewTypeOK,
       Happenings, Runs, Stops
  <2>6. ImageTypeOK'
    BY <1>5, <1>0, <2>3 DEF RunOnly, StopBegins, Running, prepVars, imageVars, runVars, TypeOK, ImageTypeOK, Images
  <2>7. Entries' /\ WholeStays
    BY <1>5, <1>0, <2>1, <2>3, CacheStays DEF RunOnly, StopBegins, Running, prepVars, imageVars, runVars, Others, Shared
  <2>8. Serial(l)'
    BY <1>0, <2>2, <2>3 DEF LaunchOK, Serial, LaunchTypes, StagePlaces, Inside, MountPlaces
  <2>9. ~Shared(l)' => Prepares(l)'
    BY <1>0, <2>1, <2>2, <2>3, <2>7 DEF LaunchOK, Serial, Prepares, Prepared, Done, Shared, Late, WholeStays,
       LaunchTypes, StagePlaces, Inside, MountPlaces
  <2>10. ~Shared(l)' => Prepared(l)'
    BY <1>0, <2>1, <2>2, <2>3, <2>7 DEF LaunchOK, Serial, Prepares, Prepared, Done, Shared, Late, WholeStays,
       LaunchTypes, StagePlaces, Inside, MountPlaces
  <2> QED BY <2>1, <2>4, <2>5, <2>6, <2>7, <2>8, <2>9, <2>10, OneStep DEF LaunchOK, TypeOK
<1>6. CASE OrphanEnds(l)
  <2>1. plan' = plan /\ app' = app /\ Others(l)
    BY <1>6, <1>0 DEF OrphanEnds, prepVars, imageVars, runVars, Others, Late, Shared, TypeOK, PreparationTypeOK,
       ViewTypeOK, ImageTypeOK
  <2>2. Stages(l)' = Stages(l) /\ Build(l)' = Build(l) /\ (Direct(l)' <=> Direct(l))
    BY <2>1 DEF Stages, Build, Direct
  <2>3. /\ run[l] = "terminated"
        /\ run'[l] = "over"
        /\ status'[l] = status[l] /\ at'[l] = at[l] /\ mark'[l] = mark[l] /\ pc'[l] = pc[l]
        /\ (canceled'[l] <=> canceled[l]) /\ canceler'[l] = canceler[l] /\ continues'[l] = continues[l] /\ (notified'[l] <=> notified[l])
        /\ (byView'[l] <=> byView[l]) /\ shows'[l] = shows[l] /\ (finish'[l] <=> finish[l]) /\ dir'[l] = dir[l]
        /\ (mounted'[l] <=> mounted[l]) /\ slip'[l] = slip[l]
    BY <1>6, <1>0 DEF OrphanEnds, prepVars, imageVars, runVars, LaunchOK, Serial, TypeOK, PreparationTypeOK,
       ViewTypeOK, ImageTypeOK
  <2>4. PreparationTypeOK'
    BY <1>6, <1>0, <2>3 DEF OrphanEnds, prepVars, imageVars, runVars, TypeOK, PreparationTypeOK, StagePlaces,
       Inside, MountPlaces
  <2>5. ViewTypeOK'
    BY <1>6, <1>0, <2>3 DEF OrphanEnds, prepVars, imageVars, runVars, TypeOK, ViewTypeOK, Happenings, Runs
  <2>6. ImageTypeOK'
    BY <1>6, <1>0, <2>3 DEF OrphanEnds, prepVars, imageVars, runVars, TypeOK, ImageTypeOK, Images
  <2>7. Entries' /\ WholeStays
    BY <1>6, <1>0, <2>1, <2>3, CacheStays DEF OrphanEnds, prepVars, imageVars, runVars, Others, Shared
  <2>8. Serial(l)'
    BY <1>0, <2>2, <2>3 DEF LaunchOK, Serial, LaunchTypes, StagePlaces, Inside, MountPlaces
  <2>9. ~Shared(l)' => Prepares(l)'
    BY <1>0, <2>1, <2>2, <2>3, <2>7 DEF LaunchOK, Serial, Prepares, Prepared, Done, Shared, Late, WholeStays,
       LaunchTypes, StagePlaces, Inside, MountPlaces
  <2>10. ~Shared(l)' => Prepared(l)'
    BY <1>0, <2>1, <2>2, <2>3, <2>7 DEF LaunchOK, Serial, Prepares, Prepared, Done, Shared, Late, WholeStays,
       LaunchTypes, StagePlaces, Inside, MountPlaces
  <2> QED BY <2>1, <2>4, <2>5, <2>6, <2>7, <2>8, <2>9, <2>10, OneStep DEF LaunchOK, TypeOK
<1> QED BY <1>1, <1>2, <1>3, <1>4, <1>5, <1>6

\* The app ends, and starts again.
LEMMA AppStep ==
  ASSUME IInv, Dies \/ Startup
  PROVE  IInv'
<1>0. TypeOK /\ Entries /\ plan' = plan /\ cache' = cache /\ writer' = writer
  BY DEF IInv, Dies, Startup, imageVars
<1>1. \A o \in Launches : Stages(o)' = Stages(o) /\ Build(o)' = Build(o) /\ (Direct(o)' <=> Direct(o)) /\ (Shared(o)' <=> Shared(o))
  BY <1>0 DEF Stages, Build, Direct, Shared, Dies, Startup, TypeOK, ViewTypeOK
<1>2. TypeOK'
  <2>1. CASE Dies
    BY <1>0, <2>1 DEF Dies, imageVars, TypeOK, PreparationTypeOK, ViewTypeOK, ImageTypeOK, Happenings, Runs, Stops,
       StagePlaces, Running
  <2>2. CASE Startup
    BY <1>0, <2>2 DEF Startup, prepVars, TypeOK, PreparationTypeOK, ViewTypeOK, ImageTypeOK, Images, Runs
  <2> QED BY <2>1, <2>2
<1>3. Entries'
  <2>1. \A o \in Launches : pc'[o] \in {"extract", "mark"} => pc'[o] = pc[o]
    BY <1>0 DEF Dies, Startup, prepVars, TypeOK, PreparationTypeOK
  <2>2. \A o \in Launches, b \in Builds : Writes(o, b)' => Writes(o, b)
    BY <1>1, <2>1 DEF Writes
  <2>3. \A o \in Launches : Build(o) \in Builds
    BY <1>0, TypesAt DEF LaunchTypes
  <2> QED BY <1>0, <1>1, <2>1, <2>2, <2>3 DEF Entries, SharedByAll, EntryOK, Writes
<1>4. ASSUME NEW l \in Launches PROVE LaunchOK(l)'
  <2>0. LaunchOK(l) /\ LaunchTypes(l)
    BY <1>0, TypesAt DEF IInv
  <2>1. CASE Dies
    <3>1. /\ status'[l] = (IF status[l] = "setup" THEN "setup" ELSE "gone")
          /\ at'[l] = 0 /\ mark'[l] = "completed" /\ pc'[l] = "none" /\ ~canceled'[l] /\ canceler'[l] = "none"
          /\ continues'[l] = 0 /\ ~notified'[l] /\ ~byView'[l] /\ shows'[l] = 0 /\ finish'[l]
          /\ dir'[l] = dir[l] /\ (mounted'[l] <=> mounted[l])
          /\ run'[l] = (IF run[l] = "running" THEN "orphan" ELSE IF run[l] = "none" THEN "none" ELSE "over")
          /\ mounted[l] => "mounted" \in slip'[l]
          /\ app' = "down"
      BY <2>1, <1>0 DEF Dies, imageVars, Running, TypeOK, ViewTypeOK
    <3>2. at'[l] <= Len(Stages(l))'
      BY <3>1, <1>1, StagesAre
    <3>3. Serial(l)'
      BY <3>1, <3>2 DEF Serial, MountPlaces
    <3>4. ~Shared(l) => Prepares(l)' /\ Prepared(l)'
      BY <2>0, <3>1 DEF LaunchOK, Prepares, Prepared, Inside
    <3> QED BY <1>1, <3>3, <3>4 DEF LaunchOK
  <2>2. CASE Startup
    <3>1. /\ status'[l] = status[l] /\ at'[l] = at[l] /\ mark'[l] = mark[l] /\ pc'[l] = pc[l] /\ canceler'[l] = canceler[l]
          /\ (canceled'[l] <=> canceled[l]) /\ continues'[l] = continues[l] /\ (notified'[l] <=> notified[l])
          /\ (byView'[l] <=> byView[l]) /\ shows'[l] = shows[l] /\ (finish'[l] <=> finish[l])
          /\ dir'[l] = "none" /\ (mounted'[l] <=> mounted[l]) /\ slip'[l] = slip[l]
          /\ run'[l] = (IF run[l] = "orphan" THEN "terminated" ELSE run[l])
          /\ app = "down" /\ app' = "second"
      BY <2>2, <1>0 DEF Startup, prepVars, TypeOK, ViewTypeOK
    <3>2. Serial(l)'
      BY <1>1, <2>0, <3>1 DEF LaunchOK, Serial
    <3>3. ~Shared(l) => Prepares(l)' /\ Prepared(l)'
      BY <1>1, <2>0, <3>1 DEF LaunchOK, Prepares, Prepared, Late, LaunchTypes
    <3> QED BY <1>1, <3>2, <3>3 DEF LaunchOK
  <2> QED BY <2>1, <2>2
<1> QED BY <1>2, <1>3, <1>4 DEF IInv

\* Every step keeps the invariant.
LEMMA NextStep == IInv /\ [Next]_vars => IInv'
<1> SUFFICES ASSUME IInv, [Next]_vars PROVE IInv'
  OBVIOUS
<1>1. CASE UNCHANGED vars
  BY <1>1 DEF vars, prepVars, imageVars, runVars, IInv, TypeOK, PreparationTypeOK, ViewTypeOK, ImageTypeOK, Entries,
     SharedByAll,
     EntryOK, LaunchOK, Serial, Prepares, Prepared, Done, Shared, Late, CacheWhole, Writes, Build, Stages, Direct
<1>2. ASSUME NEW l \in Launches, app # "down", ByItself(l) PROVE IInv'
  <2>1. Continue(l) =>
          Continue(l) /\ (ContinueEnded(l) \/ ContinueFails(l) \/ ContinueStarts(l) \/ ContinueEnds(l))
    BY DEF Continue
  <2>2. Show(l) => Show(l) /\ (ShowRefused(l) \/ ShowPrepares(l) \/ ShowFails(l) \/ ShowStarts(l))
    BY DEF Show
  <2>3. Cancel(l) => FinishCancel(l) \/ (Cancel(l) /\ ~FinishCancel(l))
    BY DEF Cancel
  <2>4. RunThread(l) => RunOnly(StopAnswered(l) \/ Escalate(l)) \/ RunOnly(Kill(l)) \/ RunOnly(RunCleans(l))
    BY DEF RunThread, RunOnly
  <2>5. CASE Thread(l)
    <3>1. StageStarts(l) => StageStarts(l) /\ (StageBegins(l) \/ StageEnters(l))
      BY DEF StageStarts
    <3>2. StageEnds(l) => StageEnds(l) /\ (StageChecks(l) \/ StagePublishes(l))
      BY DEF StageEnds
    <3>3. CASE Operate(l)
      <4>1. \/ CacheFound(l) \/ CacheBegins(l) \/ CacheWritten(l) \/ CacheFails(l) \/ CacheMarked(l)
            \/ Waits(l) \/ ImageIsCached(l) \/ ImageCopies(l) \/ ImageCopied(l) \/ ImageMounts(l)
            \/ ImageMounted(l) \/ ImageChanged(l) \/ ImageUnmounts(l) \/ GivesUp(l)
        BY <3>3 DEF Operate
      <4> QED BY <1>2, <3>3, <4>1, CacheStep, ImageStep
    <3> QED BY <1>2, <2>5, <3>1, <3>2, <3>3, StageStep DEF Thread
  <2> QED BY <1>2, <2>1, <2>2, <2>3, <2>4, <2>5, PreparationStep, CancelStep, ViewStep, MachineStep DEF ByItself
<1>3. ASSUME NEW l \in Launches, app # "down", Happens(l) PROVE IInv'
  <2>1. Machine(l) => RunOnly(MachineEnds(l)) \/ RunOnly(StopBegins(l))
    BY DEF Machine, RunOnly
  <2> QED BY <1>3, <2>1, PreparationStep, CancelStep, ViewStep, MachineStep DEF Happens
<1> QED BY <1>1, <1>2, <1>3, AppStep DEF Next

\* The invariant contains what the properties say.
LEMMA Consequences == IInv => TypeOK /\ ImagesWhole /\ NothingLeft
<1> SUFFICES ASSUME IInv PROVE ImagesWhole /\ NothingLeft
  BY DEF IInv
<1>1. ReadyIsWhole
  <2> SUFFICES ASSUME NEW b \in Builds, cache[b].ready, \A l \in Launches : Build(l) = b => ~Shared(l)
               PROVE  cache[b].image = "whole"
    BY DEF ReadyIsWhole, Shared
  <2>1. PICK l \in Launches : Build(l) = b
    BY DEF IInv, Entries
  <2> QED BY <2>1 DEF IInv, Entries, EntryOK
<1>2. MachineHasImage
  <2> SUFFICES ASSUME NEW l \in Launches, run[l] = "running", ~Shared(l) PROVE Whole(l)
    BY DEF MachineHasImage, Running, Shared
  <2>1. Prepared(l)
    BY DEF IInv, LaunchOK
  <2> QED BY <2>1 DEF Prepared, Whole, CacheWhole
<1>3. NothingLeft
  <2> SUFFICES ASSUME NEW l \in Launches, Over(l)
               PROVE  /\ ~Late(l) /\ ~Shared(l) => dir[l] = "none"
                      /\ mounted[l] => "mounted" \in slip[l]
    BY DEF NothingLeft, Late, Shared
  <2>1. mounted[l] => "mounted" \in slip[l]
    BY DEF IInv, LaunchOK, Serial, Over, MountPlaces
  <2>2. ASSUME ~Late(l), ~Shared(l) PROVE dir[l] = "none"
    BY <2>2 DEF IInv, LaunchOK, Prepares, Prepared, Over
  <2> QED BY <2>1, <2>2
<1> QED BY <1>1, <1>2, <1>3 DEF ImagesWhole

\* An entry of the cache is marked ready only when its image is whole, and a
\* machine has a whole image while it runs, for any number of launches and
\* builds: _prepare_cached_image(), _prepare_writable_image(), start() of the
\* view and the removals of other launches.
THEOREM ImagesAreWhole == Spec => []ImagesWhole
<1> QED BY InitIInv, NextStep, Consequences, PTL DEF Spec

\* What a launch has made, its directory and its mount, is gone when it is over,
\* whether it failed, was canceled, ran or was left by an app that ended.
THEOREM NothingIsLeft == Spec => []NothingLeft
<1> QED BY InitIInv, NextStep, Consequences, PTL DEF Spec

==============================================================================
