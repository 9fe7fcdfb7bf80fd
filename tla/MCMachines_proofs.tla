------------------------- MODULE MCMachines_proofs -------------------------
EXTENDS MCMachines, FiniteSetTheorems, TLAPS

-----------------------------------------------------------------------------
(* The inductive invariant.                                                *)

\* Places of the thread of an operation, and of the one that cleans it.
SpawnPlaces == {"spawn", "enter", "root", "bind", "test", "tested", "unwind", "spawned"}
UnspawnPlaces == {"unspawn", "unmount", "closed"}
Working == SpawnPlaces \cup UnspawnPlaces \cup {"choose", "ready", "running", "ran"}
OwnPlaces == Working \cup {"idle", "pressed", "reserve", "failed", "done"}
CleanPlaces == UnspawnPlaces \cup {"none", "failed", "release", "done"}
LockPlaces == {"root", "bind", "test", "unmount"}

KindOf(o) == Tool!Kind(Tool!Own(o))
RunnerOf(o) == Tool!Runner(Tool!Own(o))
OwnAt(o) == pc[Tool!Own(o)]
CleanAt(o) == pc[Tool!Clean(o)]

Requests == [kind : Kinds, runner : {"vm", "host"}, write : BOOLEAN]
Environments == [reserved : BOOLEAN, spawned : BOOLEAN, inUse : BOOLEAN, store : BOOLEAN, extra : BOOLEAN,
                 root : BOOLEAN, work : BOOLEAN, active : {"none", "vm", "host"}, lease : {"none", "vm"}]
ToolTypeOK ==
  /\ request \in [Operations -> Requests] /\ toolset \in Environments
  /\ lock \in Tool!Threads \cup {<<>>} /\ pc \in [Tool!Threads -> OwnPlaces \cup CleanPlaces]
  /\ did \in [Operations -> BOOLEAN] /\ holds \in [Operations -> BOOLEAN]
  /\ spawner \in [Operations -> BOOLEAN] /\ given \in [Operations -> {"no", "yes", "late"}]
  /\ broke \in BOOLEAN /\ misused \in BOOLEAN

\* Where operations of each kind are, and what they have done by then.
Sharing == {"build", "snapshot"}
PlacesFit(o) ==
  /\ KindOf(o) \in Tool!Views \cup Tool!Processes \cup {"kernel"}
  /\ KindOf(o) \notin Sharing => RunnerOf(o) = "vm"
  /\ OwnAt(o) \in OwnPlaces /\ CleanAt(o) \in CleanPlaces
  /\ OwnAt(o) = "pressed" => KindOf(o) \in Tool!Views
  /\ OwnAt(o) = "reserve" => KindOf(o) \in Sharing
  /\ OwnAt(o) = "choose" => KindOf(o) \in {"snapshot", "update"}
  /\ OwnAt(o) = "done" => KindOf(o) \notin Sharing
  /\ KindOf(o) = "unmount" => OwnAt(o) \in UnspawnPlaces \cup {"idle", "pressed", "failed", "done"} /\ ~did[o]
  /\ CleanAt(o) # "none" => KindOf(o) \in Tool!Processes
  /\ given[o] # "no" => KindOf(o) \in Tool!Processes /\ OwnAt(o) \notin {"idle", "done"}
  /\ CleanAt(o) # "none" /\ given[o] # "late" =>
       OwnAt(o) \in {"ready", "ran", "failed"} /\ (OwnAt(o) = "ready" => given[o] = "yes")
  /\ did[o] => OwnAt(o) \in {"ready", "running", "ran", "failed"} \/ (KindOf(o) = "mount" /\ OwnAt(o) = "done")
  /\ CleanAt(o) \in UnspawnPlaces \cup {"failed"} => KindOf(o) = "update" \/ did[o]
  /\ spawner[o] => KindOf(o) \in Tool!Processes
  /\ KindOf(o) = "update" /\ CleanAt(o) = "none" =>
       (OwnAt(o) \notin {"idle", "failed", "done"} \/ did[o] => spawner[o])

\* access_lock is held by the thread that mounts or unmounts.
Locked == \A o \in Operations :
  /\ lock = Tool!Own(o) <=> OwnAt(o) \in LockPlaces
  /\ lock = Tool!Clean(o) <=> CleanAt(o) \in LockPlaces

\* One command runs at a time, in an environment that nobody mounts or unmounts.
Inhabited ==
  /\ toolset.inUse <=> \E o \in Operations : OwnAt(o) = "running"
  /\ \A o, p \in Operations : OwnAt(o) = "running" /\ OwnAt(p) = "running" => o = p
  /\ toolset.inUse => toolset.spawned /\ lock = <<>>
  /\ \A o \in Operations : /\ OwnAt(o) \in {"root", "bind"} => ~toolset.spawned
                           /\ OwnAt(o) \in {"test", "unmount"} \/ CleanAt(o) = "unmount" => toolset.spawned
                           /\ OwnAt(o) = "bind" => toolset.root
  /\ toolset.spawned /\ ~broke => toolset.root /\ toolset.work

\* The reservation has one holder, who has it at every place where it is needed.
Unfinished(o) == OwnAt(o) \in Working \/ (OwnAt(o) = "failed" /\ (did[o] \/ KindOf(o) \notin Sharing))
OneHolder ==
  /\ toolset.reserved <=> \E o \in Operations : holds[o]
  /\ \A o, p \in Operations : holds[o] /\ holds[p] => o = p
  /\ \A o \in Operations : /\ OwnAt(o) \in {"idle", "pressed", "reserve", "done"} => ~holds[o]
                           /\ CleanAt(o) # "done" /\ Unfinished(o) => holds[o]
Reserved == Tool!Prompt => OneHolder

\* What is mounted, and the use of the runner's working space.
Opens == {"enter", "root", "bind", "unwind"}
EnvironmentFits ==
  /\ users = IF toolset.lease = "vm" THEN 1 ELSE 0
  /\ toolset.spawned => (toolset.lease = "vm" <=> toolset.active = "vm")
  /\ ~toolset.spawned => /\ ~toolset.work
                         /\ toolset.root => \E o \in Operations : OwnAt(o) = "bind"
                         /\ toolset.lease = "vm" => \E o \in Operations : OwnAt(o) \in Opens
  /\ \A o \in Operations :
       /\ OwnAt(o) \in Opens => ~toolset.spawned
       /\ OwnAt(o) \in {"enter", "root", "bind"} =>
            toolset.active = RunnerOf(o) /\ (toolset.lease = "vm" <=> toolset.active = "vm")

\* A spawned toolset is that of the operation which opened it and will close
\* it, or was mounted by the user.
Opened(o) ==
  /\ holds[o] /\ CleanAt(o) \in {"none", "unspawn", "unmount"}
  /\ \/ did[o] \/ OwnAt(o) \in {"test", "tested", "spawned"}
     \/ KindOf(o) = "kernel" /\ OwnAt(o) \in {"unspawn", "unmount"}
LeftMounted == \E o \in Operations : KindOf(o) = "mount" /\ OwnAt(o) = "done"
Accounted ==
  /\ \A o \in Operations :
       /\ Opened(o) => toolset.spawned /\ toolset.active = RunnerOf(o)
       /\ OwnAt(o) = "closed" \/ CleanAt(o) \in {"closed", "failed"} => ~toolset.spawned
       /\ KindOf(o) \in Sharing => CleanAt(o) # "failed" /\ (CleanAt(o) = "done" => ~spawner[o])
       /\ CleanAt(o) = "done" => ~holds[o]
  /\ toolset.spawned => (LeftMounted /\ toolset.active = "vm") \/ \E o \in Operations : Opened(o)
Whole == Tool!Prompt /\ ~broke => EnvironmentFits /\ Accounted

ToolsetInv ==
  /\ ToolTypeOK /\ (\A o \in Operations : PlacesFit(o)) /\ Locked /\ Inhabited /\ Reserved /\ Whole

-----------------------------------------------------------------------------
(* Threads and their places.                                               *)

\* Each operation has two threads, which no other has.
LEMMA ThreadFacts ==
  /\ \A o \in Operations : Tool!Own(o) \in Tool!Threads /\ Tool!Clean(o) \in Tool!Threads /\ Tool!Own(o)[1] = o /\ Tool!Clean(o)[1] = o
  /\ \A o, p \in Operations : Tool!Own(o) # Tool!Clean(p) /\ (Tool!Own(o) = Tool!Own(p) => o = p) /\ (Tool!Clean(o) = Tool!Clean(p) => o = p)
  /\ \A th \in Tool!Threads : \E o \in Operations : th = Tool!Own(o) \/ th = Tool!Clean(o)
  /\ <<>> \notin Tool!Threads
BY DEF Tool!Own, Tool!Clean, Tool!Threads

\* One thread moves.
OwnMoves(o, w) ==
  /\ pc' \in [Tool!Threads -> OwnPlaces \cup CleanPlaces]
  /\ OwnAt(o)' = w
  /\ \A p \in Operations : (p # o => OwnAt(p)' = OwnAt(p)) /\ CleanAt(p)' = CleanAt(p)
CleanMoves(o, w) ==
  /\ pc' \in [Tool!Threads -> OwnPlaces \cup CleanPlaces]
  /\ CleanAt(o)' = w
  /\ \A p \in Operations : (p # o => CleanAt(p)' = CleanAt(p)) /\ OwnAt(p)' = OwnAt(p)
\* A thread goes to another place; the others stay.
LEMMA GoMoves ==
  ASSUME ToolTypeOK, NEW o \in Operations, NEW w \in OwnPlaces \cup CleanPlaces
  PROVE  /\ Tool!Go(Tool!Own(o), w) => OwnMoves(o, w)
         /\ Tool!Go(Tool!Clean(o), w) => CleanMoves(o, w)
<1>1. ASSUME NEW th \in Tool!Threads, Tool!Go(th, w)
      PROVE  /\ pc' \in [Tool!Threads -> OwnPlaces \cup CleanPlaces]
             /\ pc'[th] = w /\ \A s \in Tool!Threads : s # th => pc'[s] = pc[s]
  BY <1>1 DEF ToolTypeOK, Tool!Go
<1>2. QED
  BY <1>1, ThreadFacts DEF OwnMoves, CleanMoves, OwnAt, CleanAt

\* The request of an operation stays, and what is late stays late.
LEMMA KindsStay ==
  ASSUME UNCHANGED request
  PROVE  \A o \in Operations : KindOf(o)' = KindOf(o) /\ RunnerOf(o)' = RunnerOf(o)
BY DEF Tool!Kind, Tool!Runner, KindOf, RunnerOf

\* A request has a kind and a runner.
LEMMA RequestFacts ==
  ASSUME ToolTypeOK, NEW o \in Operations
  PROVE  /\ RunnerOf(o) \in {"vm", "host"} /\ KindOf(o) \in Kinds
         /\ request[o].runner = RunnerOf(o) /\ request[o].write \in BOOLEAN
<1>1. request[o] \in Requests
  BY DEF ToolTypeOK
<1>2. Tool!Own(o)[1] = o
  BY ThreadFacts
<1>3. QED
  BY <1>1, <1>2 DEF Requests, Tool!Runner, Tool!Kind, KindOf, RunnerOf

\* Where the own thread of an operation is between its stages nobody cleans
\* it.  It has the reservation, and so has an operation that is cleaned of a
\* spawned toolset: nobody else does either.
Between == Working \ {"ready", "ran"}
Cleaned == UnspawnPlaces \cup {"failed"}
\* Who works with the toolset holds it, and nobody else does.
LEMMA AtWork ==
  ASSUME ToolsetInv, Tool!Prompt, NEW o \in Operations, OwnAt(o) \in Between \/ CleanAt(o) \in Cleaned
  PROVE  /\ OwnAt(o) \in Between => CleanAt(o) = "none"
         /\ holds[o]
         /\ \A p \in Operations : OwnAt(p) \in Between \/ CleanAt(p) \in Cleaned \/ holds[p] => p = o
<1>1. \A p \in Operations : OwnAt(p) \in Between => CleanAt(p) = "none"
  BY DEF ToolsetInv, PlacesFit, Tool!Prompt, Between, Working, SpawnPlaces, UnspawnPlaces
<1>2. \A p \in Operations : OwnAt(p) \in Between \/ CleanAt(p) \in Cleaned => CleanAt(p) # "done" /\ Unfinished(p)
  BY <1>1 DEF ToolsetInv, PlacesFit, Tool!Prompt, Unfinished, Between, Working, SpawnPlaces, UnspawnPlaces, Cleaned,
     Sharing
<1>3. \A p \in Operations : OwnAt(p) \in Between \/ CleanAt(p) \in Cleaned => holds[p]
  BY <1>2 DEF ToolsetInv, Reserved, OneHolder
<1>4. QED
  BY <1>1, <1>3 DEF ToolsetInv, Reserved, OneHolder

\* spawn() takes the workspace of its runner.
LEMMA SpawnBeginsKeeps ==
  ASSUME ToolsetInv, NEW o \in Operations, Tool!SpawnBegins(Tool!Own(o)) PROVE ToolsetInv'
<1>0. ToolTypeOK /\ PlacesFit(o) /\ OwnAt(o) = "spawn"
  BY DEF ToolsetInv, Tool!SpawnBegins, Tool!Unlocked, OwnAt, CleanAt
<1>1. OwnMoves(o, "enter")
  BY <1>0, GoMoves DEF Tool!SpawnBegins, OwnPlaces, CleanPlaces, Working, SpawnPlaces, UnspawnPlaces
<1>2. /\ UNCHANGED <<request, lock, did, holds, spawner, given, broke>>
      /\ misused' = (misused \/ toolset.spawned)
      /\ users' = IF RunnerOf(o) = "vm" THEN users + 1 ELSE users
      /\ toolset' = [toolset EXCEPT !.active = RunnerOf(o), !.lease = IF RunnerOf(o) = "vm" THEN "vm" ELSE @]
  BY <1>0 DEF Tool!SpawnBegins, KindOf, RunnerOf
<1>3. /\ toolset' \in Environments
      /\ toolset'.active = RunnerOf(o) /\ toolset'.lease = (IF RunnerOf(o) = "vm" THEN "vm" ELSE toolset.lease)
      /\ toolset'.reserved = toolset.reserved /\ toolset'.spawned = toolset.spawned /\ toolset'.inUse = toolset.inUse
      /\ toolset'.root = toolset.root /\ toolset'.work = toolset.work
  <2>1. toolset \in Environments
    BY <1>0 DEF ToolTypeOK
  <2>2. QED
    BY <1>0, <1>1, <1>2, <2>1, RequestFacts DEF Environments, OwnMoves
<1>4. ToolTypeOK'
  BY <1>0, <1>1, <1>2, <1>3 DEF ToolTypeOK, OwnMoves
<1>5. \A p \in Operations : PlacesFit(p)'
  BY <1>0, <1>1, <1>2, KindsStay DEF ToolsetInv, PlacesFit, OwnMoves, OwnPlaces, CleanPlaces, Working, SpawnPlaces,
     UnspawnPlaces
<1>6. Locked'
  BY <1>0, <1>1, <1>2, ThreadFacts DEF ToolsetInv, Locked, OwnMoves, LockPlaces
<1>7. Inhabited'
  BY <1>0, <1>1, <1>2, <1>3, ThreadFacts DEF ToolsetInv, Inhabited, Locked, LockPlaces, OwnMoves
<1>8. Reserved'
  BY <1>0, <1>1, <1>2, <1>3, KindsStay DEF ToolsetInv, Reserved, OneHolder, Unfinished, Tool!Prompt, OwnMoves,
     Working, SpawnPlaces, UnspawnPlaces
<1>9. Whole'
  <2>1. SUFFICES ASSUME Tool!Prompt', ~broke' PROVE EnvironmentFits' /\ Accounted'
    BY DEF Whole
  <2>2. Tool!Prompt /\ ~broke /\ EnvironmentFits /\ Accounted
    BY <2>1, <1>1, <1>2 DEF ToolsetInv, Whole, Tool!Prompt
  <2>3. /\ ~toolset.spawned
        /\ CleanAt(o) = "none" /\ ~did[o] /\ holds[o]
        /\ \A p \in Operations : OwnAt(p) \in Between \/ CleanAt(p) \in Cleaned \/ holds[p] => p = o
    BY <2>2, <1>0, <1>2, <2>1, AtWork DEF Between, Working, SpawnPlaces, UnspawnPlaces, Opens, Tool!Prompt, PlacesFit
  <2>4. EnvironmentFits'
    BY <2>1, <2>2, <2>3, <1>0, <1>1, <1>2, <1>3, KindsStay DEF EnvironmentFits, OwnMoves, Opens, Between, Working,
       SpawnPlaces, UnspawnPlaces
  <2>5. Accounted'
    BY <2>1, <2>2, <2>3, <1>0, <1>1, <1>2, <1>3, KindsStay DEF Accounted, Opened, LeftMounted, OwnMoves, Between,
       Cleaned, Working, SpawnPlaces, UnspawnPlaces
  <2>6. QED
    BY <2>4, <2>5
<1>10. QED
  BY <1>4, <1>5, <1>6, <1>7, <1>8, <1>9 DEF ToolsetInv

\* The workspace is not acquired, and spawn() fails.
LEMMA SpawnHasNoWorkspaceKeeps ==
  ASSUME ToolsetInv, NEW o \in Operations, Tool!SpawnHasNoWorkspace(Tool!Own(o)) PROVE ToolsetInv'
<1>0. ToolTypeOK /\ PlacesFit(o) /\ OwnAt(o) = "spawn" /\ RunnerOf(o) = "vm"
  BY DEF ToolsetInv, Tool!SpawnHasNoWorkspace, Tool!Unlocked, OwnAt, CleanAt, KindOf, RunnerOf
<1>1. OwnMoves(o, "failed")
  BY <1>0, GoMoves DEF Tool!SpawnHasNoWorkspace, OwnPlaces, CleanPlaces, Working, SpawnPlaces, UnspawnPlaces
<1>2. /\ UNCHANGED <<request, lock, users, did, holds, spawner, given, broke, misused>>
      /\ toolset' = [toolset EXCEPT !.active = "vm"]
  BY <1>0 DEF Tool!SpawnHasNoWorkspace
<1>3. /\ toolset' \in Environments /\ toolset'.active = "vm" /\ toolset'.lease = toolset.lease
      /\ toolset'.reserved = toolset.reserved /\ toolset'.spawned = toolset.spawned /\ toolset'.inUse = toolset.inUse
      /\ toolset'.root = toolset.root /\ toolset'.work = toolset.work
  <2>1. toolset \in Environments
    BY <1>0 DEF ToolTypeOK
  <2>2. QED
    BY <1>0, <1>1, <1>2, <2>1, RequestFacts DEF Environments, OwnMoves
<1>4. ToolTypeOK'
  BY <1>0, <1>1, <1>2, <1>3 DEF ToolTypeOK, OwnMoves
<1>5. \A p \in Operations : PlacesFit(p)'
  BY <1>0, <1>1, <1>2, KindsStay DEF ToolsetInv, PlacesFit, OwnMoves, OwnPlaces, CleanPlaces, Working, SpawnPlaces,
     UnspawnPlaces
<1>6. Locked'
  BY <1>0, <1>1, <1>2, ThreadFacts DEF ToolsetInv, Locked, OwnMoves, LockPlaces
<1>7. Inhabited'
  BY <1>0, <1>1, <1>2, <1>3, ThreadFacts DEF ToolsetInv, Inhabited, Locked, LockPlaces, OwnMoves
<1>8. Reserved'
  BY <1>0, <1>1, <1>2, <1>3, KindsStay DEF ToolsetInv, Reserved, OneHolder, Unfinished, Tool!Prompt, OwnMoves,
     Working, SpawnPlaces, UnspawnPlaces
<1>9. Whole'
  <2>1. SUFFICES ASSUME Tool!Prompt', ~broke' PROVE EnvironmentFits' /\ Accounted'
    BY DEF Whole
  <2>2. Tool!Prompt /\ ~broke /\ EnvironmentFits /\ Accounted
    BY <2>1, <1>1, <1>2 DEF ToolsetInv, Whole, Tool!Prompt
  <2>3. /\ toolset.spawned => toolset.active = "vm"
        /\ CleanAt(o) = "none" /\ ~did[o] /\ holds[o]
        /\ \A p \in Operations : OwnAt(p) \in Between \/ CleanAt(p) \in Cleaned \/ holds[p] => p = o
    BY <2>2, <1>0, AtWork DEF Between, Working, SpawnPlaces, UnspawnPlaces, Opens, PlacesFit, Accounted, Opened
  <2>4. EnvironmentFits'
    BY <2>1, <2>2, <2>3, <1>0, <1>1, <1>2, <1>3, KindsStay DEF EnvironmentFits, OwnMoves, Opens, Between, Working,
       SpawnPlaces, UnspawnPlaces
  <2>5. Accounted'
    BY <2>1, <2>2, <2>3, <1>0, <1>1, <1>2, <1>3, KindsStay DEF Accounted, Opened, LeftMounted, OwnMoves, Between,
       Cleaned, Working, SpawnPlaces, UnspawnPlaces
  <2>6. QED
    BY <2>4, <2>5
<1>10. QED
  BY <1>4, <1>5, <1>6, <1>7, <1>8, <1>9 DEF ToolsetInv

\* _spawn() takes the lock, or raises.
LEMMA SpawnEntersKeeps ==
  ASSUME ToolsetInv, NEW o \in Operations, Tool!SpawnEnters(Tool!Own(o)) PROVE ToolsetInv'
<1>0. ToolTypeOK /\ PlacesFit(o) /\ OwnAt(o) = "enter" /\ lock = <<>>
  BY DEF ToolsetInv, Tool!SpawnEnters, Tool!Unlocked, OwnAt, CleanAt
<1>1. \/ toolset.reserved /\ ~toolset.spawned /\ lock' = Tool!Own(o) /\ OwnMoves(o, "root")
      \/ lock' = lock /\ OwnMoves(o, "unwind")
  BY <1>0, GoMoves DEF Tool!SpawnEnters, OwnPlaces, CleanPlaces, Working, SpawnPlaces, UnspawnPlaces
<1>2. UNCHANGED <<request, toolset, users, did, holds, spawner, given, broke, misused>>
  BY <1>0 DEF Tool!SpawnEnters
<1>4. ToolTypeOK'
  BY <1>0, <1>1, <1>2, ThreadFacts DEF ToolTypeOK, OwnMoves
<1>5. \A p \in Operations : PlacesFit(p)'
  BY <1>0, <1>1, <1>2, KindsStay DEF ToolsetInv, PlacesFit, OwnMoves, OwnPlaces, CleanPlaces, Working, SpawnPlaces,
     UnspawnPlaces
<1>6. Locked'
  BY <1>0, <1>1, <1>2, ThreadFacts DEF ToolsetInv, Locked, OwnMoves, LockPlaces
<1>7. Inhabited'
  BY <1>0, <1>1, <1>2, ThreadFacts DEF ToolsetInv, Inhabited, Locked, LockPlaces, OwnMoves
<1>8. Reserved'
  BY <1>0, <1>1, <1>2, KindsStay DEF ToolsetInv, Reserved, OneHolder, Unfinished, Tool!Prompt, OwnMoves, Working,
     SpawnPlaces, UnspawnPlaces
<1>9. Whole'
  <2>1. SUFFICES ASSUME Tool!Prompt', ~broke' PROVE EnvironmentFits' /\ Accounted'
    BY DEF Whole
  <2>2. Tool!Prompt /\ ~broke /\ EnvironmentFits /\ Accounted
    BY <2>1, <1>1, <1>2 DEF ToolsetInv, Whole, Tool!Prompt
  <2>3. /\ CleanAt(o) = "none" /\ ~did[o] /\ holds[o]
        /\ \A p \in Operations : OwnAt(p) \in Between \/ CleanAt(p) \in Cleaned \/ holds[p] => p = o
    BY <2>2, <1>0, AtWork DEF Between, Working, SpawnPlaces, UnspawnPlaces, Opens, PlacesFit
  <2>4. EnvironmentFits'
    BY <2>1, <2>2, <2>3, <1>0, <1>1, <1>2, KindsStay DEF EnvironmentFits, OwnMoves, Opens, Between, Working,
       SpawnPlaces, UnspawnPlaces
  <2>5. Accounted'
    BY <2>1, <2>2, <2>3, <1>0, <1>1, <1>2, KindsStay DEF Accounted, Opened, LeftMounted, OwnMoves, Between, Cleaned,
       Working, SpawnPlaces, UnspawnPlaces
  <2>6. QED
    BY <2>4, <2>5
<1>10. QED
  BY <1>4, <1>5, <1>6, <1>7, <1>8, <1>9 DEF ToolsetInv

\* spawn() mounts the root of the toolset.
LEMMA SpawnMountsKeeps ==
  ASSUME ToolsetInv, NEW o \in Operations, Tool!SpawnMounts(Tool!Own(o)) PROVE ToolsetInv'
<1>0. ToolTypeOK /\ PlacesFit(o) /\ OwnAt(o) = "root" /\ lock = Tool!Own(o)
  BY ThreadFacts DEF ToolsetInv, Tool!SpawnMounts, Tool!Unlocked, OwnAt, CleanAt, Locked, LockPlaces
<1>1. \/ toolset' = [toolset EXCEPT !.root = TRUE] /\ OwnMoves(o, "bind") /\ lock' = lock
      \/ ~toolset.root /\ lock' = <<>> /\ toolset' = toolset /\ OwnMoves(o, "unwind")
  BY <1>0, GoMoves DEF Tool!SpawnMounts, OwnPlaces, CleanPlaces, Working, SpawnPlaces, UnspawnPlaces
<1>2. UNCHANGED <<request, users, did, holds, spawner, given, broke, misused>>
  BY <1>0 DEF Tool!SpawnMounts
<1>3. /\ toolset' \in Environments /\ (OwnAt(o)' = "bind" => toolset'.root) /\ (OwnAt(o)' = "unwind" => ~toolset'.root)
      /\ toolset'.reserved = toolset.reserved /\ toolset'.spawned = toolset.spawned /\ toolset'.inUse = toolset.inUse
      /\ toolset'.work = toolset.work /\ toolset'.active = toolset.active /\ toolset'.lease = toolset.lease
  <2>1. toolset \in Environments
    BY <1>0 DEF ToolTypeOK
  <2>2. QED
    BY <1>0, <1>1, <1>2, <2>1, RequestFacts DEF Environments, OwnMoves
<1>4. ToolTypeOK'
  BY <1>0, <1>1, <1>2, <1>3 DEF ToolTypeOK, OwnMoves
<1>5. \A p \in Operations : PlacesFit(p)'
  BY <1>0, <1>1, <1>2, KindsStay DEF ToolsetInv, PlacesFit, OwnMoves, OwnPlaces, CleanPlaces, Working, SpawnPlaces,
     UnspawnPlaces
<1>6. Locked'
  BY <1>0, <1>1, <1>2, ThreadFacts DEF ToolsetInv, Locked, OwnMoves, LockPlaces
<1>7. Inhabited'
  BY <1>0, <1>1, <1>2, <1>3, ThreadFacts DEF ToolsetInv, Inhabited, Locked, LockPlaces, OwnMoves
<1>8. Reserved'
  BY <1>0, <1>1, <1>2, <1>3, KindsStay DEF ToolsetInv, Reserved, OneHolder, Unfinished, Tool!Prompt, OwnMoves,
     Working, SpawnPlaces, UnspawnPlaces
<1>9. Whole'
  <2>1. SUFFICES ASSUME Tool!Prompt', ~broke' PROVE EnvironmentFits' /\ Accounted'
    BY DEF Whole
  <2>2. Tool!Prompt /\ ~broke /\ EnvironmentFits /\ Accounted
    BY <2>1, <1>1, <1>2 DEF ToolsetInv, Whole, Tool!Prompt
  <2>3. /\ CleanAt(o) = "none" /\ ~did[o] /\ holds[o]
        /\ \A p \in Operations : OwnAt(p) \in Between \/ CleanAt(p) \in Cleaned \/ holds[p] => p = o
    BY <2>2, <1>0, AtWork DEF Between, Working, SpawnPlaces, UnspawnPlaces, Opens, PlacesFit
  <2>4. EnvironmentFits'
    BY <2>1, <2>2, <2>3, <1>0, <1>1, <1>2, <1>3, KindsStay DEF EnvironmentFits, OwnMoves, Opens, Between, Working,
       SpawnPlaces, UnspawnPlaces
  <2>5. Accounted'
    BY <2>1, <2>2, <2>3, <1>0, <1>1, <1>2, <1>3, KindsStay DEF Accounted, Opened, LeftMounted, OwnMoves, Between,
       Cleaned, Working, SpawnPlaces, UnspawnPlaces
  <2>6. QED
    BY <2>4, <2>5
<1>10. QED
  BY <1>4, <1>5, <1>6, <1>7, <1>8, <1>9 DEF ToolsetInv

\* Mounting the root fails, and what was opened is unwound.
LEMMA SpawnHasNoRootKeeps ==
  ASSUME ToolsetInv, NEW o \in Operations, Tool!SpawnHasNoRoot(Tool!Own(o)) PROVE ToolsetInv'
<1>0. ToolTypeOK /\ PlacesFit(o) /\ OwnAt(o) = "bind" /\ lock = Tool!Own(o) /\ ~toolset.spawned
  BY ThreadFacts DEF ToolsetInv, Tool!SpawnHasNoRoot, Tool!Unlocked, OwnAt, CleanAt, Locked, LockPlaces, Inhabited
<1>1. OwnMoves(o, "unwind")
  BY <1>0, GoMoves DEF Tool!SpawnHasNoRoot, OwnPlaces, CleanPlaces, Working, SpawnPlaces, UnspawnPlaces
<1>2. /\ UNCHANGED <<request, users, did, holds, spawner, given, misused>> /\ lock' = <<>>
      /\ \/ toolset' = [toolset EXCEPT !.root = FALSE] /\ broke' = broke
         \/ broke' = TRUE /\ toolset' = toolset
  BY <1>0 DEF Tool!SpawnHasNoRoot
<1>3. /\ toolset' \in Environments /\ (~broke' => ~toolset'.root) /\ (toolset'.root => toolset.root)
      /\ toolset'.reserved = toolset.reserved /\ toolset'.spawned = toolset.spawned /\ toolset'.inUse = toolset.inUse
      /\ toolset'.work = toolset.work /\ toolset'.active = toolset.active /\ toolset'.lease = toolset.lease
  <2>1. toolset \in Environments
    BY <1>0 DEF ToolTypeOK
  <2>2. QED
    BY <1>0, <1>1, <1>2, <2>1, RequestFacts DEF Environments, OwnMoves
<1>4. ToolTypeOK'
  BY <1>0, <1>1, <1>2, <1>3 DEF ToolTypeOK, OwnMoves
<1>5. \A p \in Operations : PlacesFit(p)'
  BY <1>0, <1>1, <1>2, KindsStay DEF ToolsetInv, PlacesFit, OwnMoves, OwnPlaces, CleanPlaces, Working, SpawnPlaces,
     UnspawnPlaces
<1>6. Locked'
  BY <1>0, <1>1, <1>2, ThreadFacts DEF ToolsetInv, Locked, OwnMoves, LockPlaces
<1>7. Inhabited'
  BY <1>0, <1>1, <1>2, <1>3, ThreadFacts DEF ToolsetInv, Inhabited, Locked, LockPlaces, OwnMoves
<1>8. Reserved'
  BY <1>0, <1>1, <1>2, <1>3, KindsStay DEF ToolsetInv, Reserved, OneHolder, Unfinished, Tool!Prompt, OwnMoves,
     Working, SpawnPlaces, UnspawnPlaces
<1>9. Whole'
  <2>1. SUFFICES ASSUME Tool!Prompt', ~broke' PROVE EnvironmentFits' /\ Accounted'
    BY DEF Whole
  <2>2. Tool!Prompt /\ ~broke /\ EnvironmentFits /\ Accounted
    BY <2>1, <1>1, <1>2 DEF ToolsetInv, Whole, Tool!Prompt
  <2>3. /\ CleanAt(o) = "none" /\ ~did[o] /\ holds[o]
        /\ \A p \in Operations : OwnAt(p) \in Between \/ CleanAt(p) \in Cleaned \/ holds[p] => p = o
    BY <2>2, <1>0, AtWork DEF Between, Working, SpawnPlaces, UnspawnPlaces, Opens, PlacesFit
  <2>4. EnvironmentFits'
    BY <2>1, <2>2, <2>3, <1>0, <1>1, <1>2, <1>3, KindsStay DEF EnvironmentFits, OwnMoves, Opens, Between, Working,
       SpawnPlaces, UnspawnPlaces
  <2>5. Accounted'
    BY <2>1, <2>2, <2>3, <1>0, <1>1, <1>2, <1>3, KindsStay DEF Accounted, Opened, LeftMounted, OwnMoves, Between,
       Cleaned, Working, SpawnPlaces, UnspawnPlaces
  <2>6. QED
    BY <2>4, <2>5
<1>10. QED
  BY <1>4, <1>5, <1>6, <1>7, <1>8, <1>9 DEF ToolsetInv

\* spawn() binds the directories of the host.
LEMMA SpawnBindsKeeps ==
  ASSUME ToolsetInv, NEW o \in Operations, Tool!SpawnBinds(Tool!Own(o)) PROVE ToolsetInv'
<1>0. ToolTypeOK /\ PlacesFit(o) /\ OwnAt(o) = "bind" /\ lock = Tool!Own(o) /\ ~toolset.spawned /\ ~toolset.inUse
  BY ThreadFacts DEF ToolsetInv, Tool!SpawnBinds, Tool!Unlocked, OwnAt, CleanAt, Locked, LockPlaces, Inhabited
<1>1. OwnMoves(o, "test")
  BY <1>0, GoMoves DEF Tool!SpawnBinds, OwnPlaces, CleanPlaces, Working, SpawnPlaces, UnspawnPlaces
<1>2. /\ UNCHANGED <<request, lock, users, did, holds, spawner, given, broke, misused>>
      /\ toolset' = [toolset EXCEPT !.work = TRUE, !.spawned = TRUE, !.store = request[o].write,
                                    !.extra = KindOf(o) \in {"build", "snapshot", "kernel"}]
  BY <1>0, ThreadFacts DEF Tool!SpawnBinds, KindOf, RunnerOf
<1>3. /\ toolset' \in Environments /\ toolset'.spawned /\ toolset'.work /\ toolset'.root = toolset.root
      /\ toolset'.reserved = toolset.reserved /\ toolset'.inUse = toolset.inUse /\ toolset'.active = toolset.active
      /\ toolset'.lease = toolset.lease
  <2>1. toolset \in Environments /\ (KindOf(o) \in {"build", "snapshot", "kernel"}) \in BOOLEAN
    BY <1>0 DEF ToolTypeOK
  <2>2. QED
    BY <1>0, <1>2, <2>1, RequestFacts DEF Environments
<1>4. ToolTypeOK'
  BY <1>0, <1>1, <1>2, <1>3 DEF ToolTypeOK, OwnMoves
<1>5. \A p \in Operations : PlacesFit(p)'
  BY <1>0, <1>1, <1>2, KindsStay DEF ToolsetInv, PlacesFit, OwnMoves, OwnPlaces, CleanPlaces, Working, SpawnPlaces,
     UnspawnPlaces
<1>6. Locked'
  BY <1>0, <1>1, <1>2, ThreadFacts DEF ToolsetInv, Locked, OwnMoves, LockPlaces
<1>7. Inhabited'
  BY <1>0, <1>1, <1>2, <1>3, ThreadFacts DEF ToolsetInv, Inhabited, Locked, LockPlaces, OwnMoves
<1>8. Reserved'
  BY <1>0, <1>1, <1>2, <1>3, KindsStay DEF ToolsetInv, Reserved, OneHolder, Unfinished, Tool!Prompt, OwnMoves,
     Working, SpawnPlaces, UnspawnPlaces
<1>9. Whole'
  <2>1. SUFFICES ASSUME Tool!Prompt', ~broke' PROVE EnvironmentFits' /\ Accounted'
    BY DEF Whole
  <2>2. Tool!Prompt /\ ~broke /\ EnvironmentFits /\ Accounted
    BY <2>1, <1>1, <1>2 DEF ToolsetInv, Whole, Tool!Prompt
  <2>3. /\ toolset.active = RunnerOf(o)
        /\ CleanAt(o) = "none" /\ ~did[o] /\ holds[o]
        /\ \A p \in Operations : OwnAt(p) \in Between \/ CleanAt(p) \in Cleaned \/ holds[p] => p = o
    BY <2>2, <1>0, AtWork DEF Between, Working, SpawnPlaces, UnspawnPlaces, Opens, PlacesFit, EnvironmentFits
  <2>4. EnvironmentFits'
    BY <2>1, <2>2, <2>3, <1>0, <1>1, <1>2, <1>3, KindsStay DEF EnvironmentFits, OwnMoves, Opens, Between, Working,
       SpawnPlaces, UnspawnPlaces
  <2>5. Accounted'
    BY <2>1, <2>2, <2>3, <1>0, <1>1, <1>2, <1>3, KindsStay DEF Accounted, Opened, LeftMounted, OwnMoves, Between,
       Cleaned, Working, SpawnPlaces, UnspawnPlaces
  <2>6. QED
    BY <2>4, <2>5
<1>10. QED
  BY <1>4, <1>5, <1>6, <1>7, <1>8, <1>9 DEF ToolsetInv

\* The first commands of a spawned toolset succeed, or it is unspawned.
LEMMA SpawnTestsKeeps ==
  ASSUME ToolsetInv, NEW o \in Operations, Tool!SpawnTests(Tool!Own(o)) PROVE ToolsetInv'
<1>0. ToolTypeOK /\ PlacesFit(o) /\ OwnAt(o) = "test" /\ lock = Tool!Own(o) /\ toolset.spawned /\ ~toolset.inUse
  BY ThreadFacts DEF ToolsetInv, Tool!SpawnTests, Tool!Unlocked, OwnAt, CleanAt, Locked, LockPlaces, Inhabited
<1>1. \/ OwnMoves(o, "tested") /\ toolset' = toolset /\ users' = users /\ broke' = broke
      \/ OwnMoves(o, "unwind") /\ Tool!Unspawned /\ broke' = broke
      \/ OwnMoves(o, "unwind") /\ broke' = TRUE /\ toolset' = toolset /\ users' = users
  BY <1>0, GoMoves DEF Tool!SpawnTests, OwnPlaces, CleanPlaces, Working, SpawnPlaces, UnspawnPlaces
<1>2. UNCHANGED <<request, did, holds, spawner, given, misused>> /\ lock' = <<>>
  BY <1>0 DEF Tool!SpawnTests
<1>3. /\ toolset' \in Environments /\ toolset'.reserved = toolset.reserved /\ toolset'.inUse = toolset.inUse
      /\ \/ toolset' = toolset /\ users' = users /\ (OwnAt(o)' = "tested" \/ broke')
         \/ /\ ~toolset'.spawned /\ ~toolset'.root /\ ~toolset'.work
            /\ toolset'.active = "none" /\ toolset'.lease = "none" /\ OwnAt(o)' = "unwind" /\ broke' = broke
            /\ users' = IF toolset.lease = "vm" THEN users - 1 ELSE users
  <2>1. toolset \in Environments
    BY <1>0 DEF ToolTypeOK
  <2>2. QED
    BY <1>0, <1>1, <2>1 DEF Environments, OwnMoves, Tool!Unspawned, Tool!Closed
<1>4. ToolTypeOK'
  BY <1>0, <1>1, <1>2, <1>3 DEF ToolTypeOK, OwnMoves
<1>5. \A p \in Operations : PlacesFit(p)'
  BY <1>0, <1>1, <1>2, KindsStay DEF ToolsetInv, PlacesFit, OwnMoves, OwnPlaces, CleanPlaces, Working, SpawnPlaces,
     UnspawnPlaces
<1>6. Locked'
  BY <1>0, <1>1, <1>2, ThreadFacts DEF ToolsetInv, Locked, OwnMoves, LockPlaces
<1>7. Inhabited'
  BY <1>0, <1>1, <1>2, <1>3, ThreadFacts DEF ToolsetInv, Inhabited, Locked, LockPlaces, OwnMoves
<1>8. Reserved'
  BY <1>0, <1>1, <1>2, <1>3, KindsStay DEF ToolsetInv, Reserved, OneHolder, Unfinished, Tool!Prompt, OwnMoves,
     Working, SpawnPlaces, UnspawnPlaces
<1>9. Whole'
  <2>1. SUFFICES ASSUME Tool!Prompt', ~broke' PROVE EnvironmentFits' /\ Accounted'
    BY DEF Whole
  <2>2. Tool!Prompt /\ ~broke /\ EnvironmentFits /\ Accounted
    BY <2>1, <1>1, <1>2 DEF ToolsetInv, Whole, Tool!Prompt
  <2>3. /\ CleanAt(o) = "none" /\ ~did[o] /\ holds[o]
        /\ \A p \in Operations : OwnAt(p) \in Between \/ CleanAt(p) \in Cleaned \/ holds[p] => p = o
    BY <2>2, <1>0, AtWork DEF Between, Working, SpawnPlaces, UnspawnPlaces, Opens, PlacesFit
  <2>4. EnvironmentFits'
    BY <2>1, <2>2, <2>3, <1>0, <1>1, <1>2, <1>3, KindsStay DEF EnvironmentFits, OwnMoves, Opens, Between, Working,
       SpawnPlaces, UnspawnPlaces
  <2>5. Accounted'
    BY <2>1, <2>2, <2>3, <1>0, <1>1, <1>2, <1>3, KindsStay DEF Accounted, Opened, LeftMounted, OwnMoves, Between,
       Cleaned, Working, SpawnPlaces, UnspawnPlaces
  <2>6. QED
    BY <2>4, <2>5
<1>10. QED
  BY <1>4, <1>5, <1>6, <1>7, <1>8, <1>9 DEF ToolsetInv

\* The finally of spawn() releases the workspace of what is not spawned.
LEMMA SpawnUnwindsKeeps ==
  ASSUME ToolsetInv, NEW o \in Operations, Tool!SpawnUnwinds(Tool!Own(o)) PROVE ToolsetInv'
<1>0. ToolTypeOK /\ PlacesFit(o) /\ OwnAt(o) \in {"tested", "unwind"}
  BY DEF ToolsetInv, Tool!SpawnUnwinds, Tool!Unlocked, OwnAt, CleanAt
<1>1. OwnMoves(o, IF OwnAt(o) = "tested" THEN "spawned" ELSE "failed")
  BY <1>0, GoMoves DEF Tool!SpawnUnwinds, OwnAt, OwnPlaces, CleanPlaces, Working, SpawnPlaces, UnspawnPlaces
<1>2. /\ UNCHANGED <<request, lock, did, holds, spawner, given, broke, misused>>
      /\ IF toolset.spawned THEN toolset' = toolset /\ users' = users
         ELSE /\ toolset' = [toolset EXCEPT !.lease = "none", !.active = "none"]
              /\ users' = IF toolset.lease = "vm" THEN users - 1 ELSE users
  BY <1>0 DEF Tool!SpawnUnwinds
<1>3. /\ toolset' \in Environments
      /\ toolset'.reserved = toolset.reserved /\ toolset'.spawned = toolset.spawned /\ toolset'.inUse = toolset.inUse
      /\ toolset'.root = toolset.root /\ toolset'.work = toolset.work
      /\ IF toolset.spawned THEN toolset'.active = toolset.active /\ toolset'.lease = toolset.lease
         ELSE toolset'.active = "none" /\ toolset'.lease = "none"
  <2>1. toolset \in Environments
    BY <1>0 DEF ToolTypeOK
  <2>2. QED
    BY <1>0, <1>1, <1>2, <2>1, RequestFacts DEF Environments, OwnMoves
<1>4. ToolTypeOK'
  BY <1>0, <1>1, <1>2, <1>3 DEF ToolTypeOK, OwnMoves
<1>5. \A p \in Operations : PlacesFit(p)'
  BY <1>0, <1>1, <1>2, KindsStay DEF ToolsetInv, PlacesFit, OwnMoves, OwnPlaces, CleanPlaces, Working, SpawnPlaces,
     UnspawnPlaces
<1>6. Locked'
  BY <1>0, <1>1, <1>2, ThreadFacts DEF ToolsetInv, Locked, OwnMoves, LockPlaces
<1>7. Inhabited'
  BY <1>0, <1>1, <1>2, <1>3, ThreadFacts DEF ToolsetInv, Inhabited, Locked, LockPlaces, OwnMoves
<1>8. Reserved'
  BY <1>0, <1>1, <1>2, <1>3, KindsStay DEF ToolsetInv, Reserved, OneHolder, Unfinished, Tool!Prompt, OwnMoves,
     Working, SpawnPlaces, UnspawnPlaces
<1>9. Whole'
  <2>1. SUFFICES ASSUME Tool!Prompt', ~broke' PROVE EnvironmentFits' /\ Accounted'
    BY DEF Whole
  <2>2. Tool!Prompt /\ ~broke /\ EnvironmentFits /\ Accounted
    BY <2>1, <1>1, <1>2 DEF ToolsetInv, Whole, Tool!Prompt
  <2>3. /\ CleanAt(o) = "none" /\ ~did[o] /\ holds[o]
        /\ \A p \in Operations : OwnAt(p) \in Between \/ CleanAt(p) \in Cleaned \/ holds[p] => p = o
    BY <2>2, <1>0, AtWork DEF Between, Working, SpawnPlaces, UnspawnPlaces, Opens, PlacesFit
  <2>4. EnvironmentFits'
    BY <2>1, <2>2, <2>3, <1>0, <1>1, <1>2, <1>3, KindsStay DEF EnvironmentFits, OwnMoves, Opens, Between, Working,
       SpawnPlaces, UnspawnPlaces
  <2>5. Accounted'
    BY <2>1, <2>2, <2>3, <1>0, <1>1, <1>2, <1>3, KindsStay DEF Accounted, Opened, LeftMounted, OwnMoves, Between,
       Cleaned, Working, SpawnPlaces, UnspawnPlaces
  <2>6. QED
    BY <2>4, <2>5
<1>10. QED
  BY <1>4, <1>5, <1>6, <1>7, <1>8, <1>9 DEF ToolsetInv

\* unspawn() of an operation begins to take the chroot down.
LEMMA OwnUnspawnEntersKeeps ==
  ASSUME ToolsetInv, NEW o \in Operations, Tool!UnspawnEnters(Tool!Own(o)) PROVE ToolsetInv'
<1>0. ToolTypeOK /\ PlacesFit(o) /\ OwnAt(o) = "unspawn" /\ lock = <<>>
  BY DEF ToolsetInv, Tool!UnspawnEnters, Tool!Unlocked, OwnAt, CleanAt
<1>1. \/ /\ toolset.reserved /\ toolset.spawned /\ ~toolset.inUse
         /\ lock' = Tool!Own(o) /\ OwnMoves(o, "unmount")
      \/ /\ ~(toolset.reserved /\ toolset.spawned /\ ~toolset.inUse)
         /\ lock' = lock /\ OwnMoves(o, "failed")
  BY <1>0, GoMoves DEF Tool!UnspawnEnters, OwnPlaces, CleanPlaces, Working, SpawnPlaces, UnspawnPlaces
<1>2. UNCHANGED <<request, toolset, users, did, holds, spawner, given, broke, misused>>
  BY <1>0 DEF Tool!UnspawnEnters
<1>4. ToolTypeOK'
  BY <1>0, <1>1, <1>2, ThreadFacts DEF ToolTypeOK, OwnMoves
<1>5. \A p \in Operations : PlacesFit(p)'
  BY <1>0, <1>1, <1>2, KindsStay DEF ToolsetInv, PlacesFit, OwnMoves, OwnPlaces, CleanPlaces, Working, SpawnPlaces,
     UnspawnPlaces
<1>6. Locked'
  BY <1>0, <1>1, <1>2, ThreadFacts DEF ToolsetInv, Locked, OwnMoves, LockPlaces
<1>7. Inhabited'
  BY <1>0, <1>1, <1>2, ThreadFacts DEF ToolsetInv, Inhabited, Locked, LockPlaces, OwnMoves
<1>8. Reserved'
  BY <1>0, <1>1, <1>2, KindsStay DEF ToolsetInv, Reserved, OneHolder, Unfinished, Tool!Prompt, OwnMoves, Working,
     SpawnPlaces, UnspawnPlaces
<1>9. Whole'
  <2>1. SUFFICES ASSUME Tool!Prompt', ~broke' PROVE EnvironmentFits' /\ Accounted'
    BY DEF Whole
  <2>2. Tool!Prompt /\ ~broke /\ EnvironmentFits /\ Accounted
    BY <2>1, <1>1, <1>2 DEF ToolsetInv, Whole, Tool!Prompt
  <2>3. /\ CleanAt(o) = "none" /\ ~did[o] /\ holds[o]
        /\ \A p \in Operations : OwnAt(p) \in Between \/ CleanAt(p) \in Cleaned \/ holds[p] => p = o
        /\ toolset.reserved /\ ~toolset.inUse
    BY <2>2, <1>0, AtWork, <2>1 DEF Between, Working, SpawnPlaces, UnspawnPlaces, Opens, PlacesFit, Cleaned,
       ToolsetInv, Reserved, OneHolder, Inhabited
  <2>4. EnvironmentFits'
    BY <2>1, <2>2, <2>3, <1>0, <1>1, <1>2, KindsStay DEF EnvironmentFits, OwnMoves, Opens, Between, Working,
       SpawnPlaces, UnspawnPlaces
  <2>5. Accounted'
    BY <2>1, <2>2, <2>3, <1>0, <1>1, <1>2, KindsStay DEF Accounted, Opened, LeftMounted, OwnMoves, Between, Cleaned,
       Working, SpawnPlaces, UnspawnPlaces
  <2>6. QED
    BY <2>4, <2>5
<1>10. QED
  BY <1>4, <1>5, <1>6, <1>7, <1>8, <1>9 DEF ToolsetInv

\* unspawn() in the cleaning of an operation begins to take the chroot down.
LEMMA CleanUnspawnEntersKeeps ==
  ASSUME ToolsetInv, NEW o \in Operations, Tool!UnspawnEnters(Tool!Clean(o)) PROVE ToolsetInv'
<1>0. ToolTypeOK /\ PlacesFit(o) /\ CleanAt(o) = "unspawn" /\ lock = <<>>
  BY DEF ToolsetInv, Tool!UnspawnEnters, Tool!Unlocked, OwnAt, CleanAt
<1>1. \/ /\ toolset.reserved /\ toolset.spawned /\ ~toolset.inUse
         /\ lock' = Tool!Clean(o) /\ CleanMoves(o, "unmount")
      \/ /\ ~(toolset.reserved /\ toolset.spawned /\ ~toolset.inUse)
         /\ lock' = lock /\ CleanMoves(o, "failed")
  BY <1>0, GoMoves DEF Tool!UnspawnEnters, OwnPlaces, CleanPlaces, Working, SpawnPlaces, UnspawnPlaces
<1>2. UNCHANGED <<request, toolset, users, did, holds, spawner, given, broke, misused>>
  BY <1>0 DEF Tool!UnspawnEnters
<1>4. ToolTypeOK'
  BY <1>0, <1>1, <1>2, ThreadFacts DEF ToolTypeOK, CleanMoves
<1>5. \A p \in Operations : PlacesFit(p)'
  BY <1>0, <1>1, <1>2, KindsStay DEF ToolsetInv, PlacesFit, CleanMoves, OwnPlaces, CleanPlaces, Working,
     SpawnPlaces, UnspawnPlaces
<1>6. Locked'
  BY <1>0, <1>1, <1>2, ThreadFacts DEF ToolsetInv, Locked, CleanMoves, LockPlaces
<1>7. Inhabited'
  BY <1>0, <1>1, <1>2, ThreadFacts DEF ToolsetInv, Inhabited, Locked, LockPlaces, CleanMoves
<1>8. Reserved'
  BY <1>0, <1>1, <1>2, KindsStay DEF ToolsetInv, Reserved, OneHolder, Unfinished, Tool!Prompt, CleanMoves, Working,
     SpawnPlaces, UnspawnPlaces
<1>9. Whole'
  <2>1. SUFFICES ASSUME Tool!Prompt', ~broke' PROVE EnvironmentFits' /\ Accounted'
    BY DEF Whole
  <2>2. Tool!Prompt /\ ~broke /\ EnvironmentFits /\ Accounted
    BY <2>1, <1>1, <1>2 DEF ToolsetInv, Whole, Tool!Prompt
  <2>3. /\ OwnAt(o) \notin Between /\ holds[o]
        /\ \A p \in Operations : OwnAt(p) \in Between \/ CleanAt(p) \in Cleaned \/ holds[p] => p = o
        /\ toolset.reserved /\ ~toolset.inUse /\ (did[o] \/ KindOf(o) \notin Sharing)
    BY <2>2, <1>0, AtWork, <2>1 DEF Between, Working, SpawnPlaces, UnspawnPlaces, Opens, PlacesFit, Cleaned,
       ToolsetInv, Reserved, OneHolder, Inhabited, Sharing
  <2>4. EnvironmentFits'
    BY <2>1, <2>2, <2>3, <1>0, <1>1, <1>2, KindsStay DEF EnvironmentFits, CleanMoves, Opens, Between, Working,
       SpawnPlaces, UnspawnPlaces
  <2>5. Accounted'
    BY <2>1, <2>2, <2>3, <1>0, <1>1, <1>2, KindsStay DEF Accounted, Opened, LeftMounted, CleanMoves, Between,
       Cleaned, Working, SpawnPlaces, UnspawnPlaces
  <2>6. QED
    BY <2>4, <2>5
<1>10. QED
  BY <1>4, <1>5, <1>6, <1>7, <1>8, <1>9 DEF ToolsetInv

\* unspawn() of an operation ends.
LEMMA OwnUnspawnEndsKeeps ==
  ASSUME ToolsetInv, NEW o \in Operations, Tool!UnspawnEnds(Tool!Own(o)) PROVE ToolsetInv'
<1>0. ToolTypeOK /\ PlacesFit(o) /\ OwnAt(o) = "unmount" /\ lock = Tool!Own(o) /\ toolset.spawned /\ ~toolset.inUse
  BY ThreadFacts DEF ToolsetInv, Tool!UnspawnEnds, Tool!Unlocked, OwnAt, CleanAt, Locked, LockPlaces, Inhabited
<1>1. \/ OwnMoves(o, "closed") /\ Tool!Unspawned /\ broke' = broke
      \/ /\ OwnMoves(o, "failed") /\ broke' /\ users' = users
         /\ \E root \in BOOLEAN : toolset' = [toolset EXCEPT !.root = @ /\ root]
  BY <1>0, GoMoves DEF Tool!UnspawnEnds, OwnPlaces, CleanPlaces, Working, SpawnPlaces, UnspawnPlaces
<1>2. UNCHANGED <<request, did, holds, spawner, given, misused>> /\ lock' = <<>>
  BY <1>0 DEF Tool!UnspawnEnds
<1>3. /\ toolset' \in Environments /\ toolset'.reserved = toolset.reserved /\ toolset'.inUse = toolset.inUse
      /\ \/ broke' /\ toolset'.spawned /\ toolset'.work = toolset.work
         \/ /\ ~toolset'.spawned /\ ~toolset'.root /\ ~toolset'.work
            /\ toolset'.active = "none" /\ toolset'.lease = "none" /\ OwnAt(o)' = "closed" /\ broke' = broke
            /\ users' = IF toolset.lease = "vm" THEN users - 1 ELSE users
  <2>1. toolset \in Environments
    BY <1>0 DEF ToolTypeOK
  <2>2. QED
    BY <1>0, <1>1, <2>1 DEF Environments, OwnMoves, Tool!Unspawned, Tool!Closed
<1>4. ToolTypeOK'
  BY <1>0, <1>1, <1>2, <1>3 DEF ToolTypeOK, OwnMoves
<1>5. \A p \in Operations : PlacesFit(p)'
  BY <1>0, <1>1, <1>2, KindsStay DEF ToolsetInv, PlacesFit, OwnMoves, OwnPlaces, CleanPlaces, Working, SpawnPlaces,
     UnspawnPlaces
<1>6. Locked'
  BY <1>0, <1>1, <1>2, ThreadFacts DEF ToolsetInv, Locked, OwnMoves, LockPlaces
<1>7. Inhabited'
  BY <1>0, <1>1, <1>2, <1>3, ThreadFacts DEF ToolsetInv, Inhabited, Locked, LockPlaces, OwnMoves
<1>8. Reserved'
  BY <1>0, <1>1, <1>2, <1>3, KindsStay DEF ToolsetInv, Reserved, OneHolder, Unfinished, Tool!Prompt, OwnMoves,
     Working, SpawnPlaces, UnspawnPlaces
<1>9. Whole'
  <2>1. SUFFICES ASSUME Tool!Prompt', ~broke' PROVE EnvironmentFits' /\ Accounted'
    BY DEF Whole
  <2>2. Tool!Prompt /\ ~broke /\ EnvironmentFits /\ Accounted
    BY <2>1, <1>1, <1>2 DEF ToolsetInv, Whole, Tool!Prompt
  <2>3. /\ CleanAt(o) = "none" /\ ~did[o] /\ holds[o]
        /\ \A p \in Operations : OwnAt(p) \in Between \/ CleanAt(p) \in Cleaned \/ holds[p] => p = o
    BY <2>2, <1>0, AtWork DEF Between, Working, SpawnPlaces, UnspawnPlaces, Opens, PlacesFit
  <2>4. EnvironmentFits'
    BY <2>1, <2>2, <2>3, <1>0, <1>1, <1>2, <1>3, KindsStay DEF EnvironmentFits, OwnMoves, Opens, Between, Working,
       SpawnPlaces, UnspawnPlaces
  <2>5. Accounted'
    BY <2>1, <2>2, <2>3, <1>0, <1>1, <1>2, <1>3, KindsStay DEF Accounted, Opened, LeftMounted, OwnMoves, Between,
       Cleaned, Working, SpawnPlaces, UnspawnPlaces
  <2>6. QED
    BY <2>4, <2>5
<1>10. QED
  BY <1>4, <1>5, <1>6, <1>7, <1>8, <1>9 DEF ToolsetInv

\* unspawn() in the cleaning of an operation ends.
LEMMA CleanUnspawnEndsKeeps ==
  ASSUME ToolsetInv, NEW o \in Operations, Tool!UnspawnEnds(Tool!Clean(o)) PROVE ToolsetInv'
<1>0. ToolTypeOK /\ PlacesFit(o) /\ CleanAt(o) = "unmount" /\ lock = Tool!Clean(o) /\ toolset.spawned /\ ~toolset.inUse
  BY ThreadFacts DEF ToolsetInv, Tool!UnspawnEnds, Tool!Unlocked, OwnAt, CleanAt, Locked, LockPlaces, Inhabited
<1>1. \/ CleanMoves(o, "closed") /\ Tool!Unspawned /\ broke' = broke
      \/ /\ CleanMoves(o, "failed") /\ broke' /\ users' = users
         /\ \E root \in BOOLEAN : toolset' = [toolset EXCEPT !.root = @ /\ root]
  BY <1>0, GoMoves DEF Tool!UnspawnEnds, OwnPlaces, CleanPlaces, Working, SpawnPlaces, UnspawnPlaces
<1>2. UNCHANGED <<request, did, holds, spawner, given, misused>> /\ lock' = <<>>
  BY <1>0 DEF Tool!UnspawnEnds
<1>3. /\ toolset' \in Environments /\ toolset'.reserved = toolset.reserved /\ toolset'.inUse = toolset.inUse
      /\ \/ broke' /\ toolset'.spawned /\ toolset'.work = toolset.work
         \/ /\ ~toolset'.spawned /\ ~toolset'.root /\ ~toolset'.work
            /\ toolset'.active = "none" /\ toolset'.lease = "none" /\ CleanAt(o)' = "closed" /\ broke' = broke
            /\ users' = IF toolset.lease = "vm" THEN users - 1 ELSE users
  <2>1. toolset \in Environments
    BY <1>0 DEF ToolTypeOK
  <2>2. QED
    BY <1>0, <1>1, <2>1 DEF Environments, CleanMoves, Tool!Unspawned, Tool!Closed
<1>4. ToolTypeOK'
  BY <1>0, <1>1, <1>2, <1>3 DEF ToolTypeOK, CleanMoves
<1>5. \A p \in Operations : PlacesFit(p)'
  BY <1>0, <1>1, <1>2, KindsStay DEF ToolsetInv, PlacesFit, CleanMoves, OwnPlaces, CleanPlaces, Working,
     SpawnPlaces, UnspawnPlaces
<1>6. Locked'
  BY <1>0, <1>1, <1>2, ThreadFacts DEF ToolsetInv, Locked, CleanMoves, LockPlaces
<1>7. Inhabited'
  BY <1>0, <1>1, <1>2, <1>3, ThreadFacts DEF ToolsetInv, Inhabited, Locked, LockPlaces, CleanMoves
<1>8. Reserved'
  BY <1>0, <1>1, <1>2, <1>3, KindsStay DEF ToolsetInv, Reserved, OneHolder, Unfinished, Tool!Prompt, CleanMoves,
     Working, SpawnPlaces, UnspawnPlaces
<1>9. Whole'
  <2>1. SUFFICES ASSUME Tool!Prompt', ~broke' PROVE EnvironmentFits' /\ Accounted'
    BY DEF Whole
  <2>2. Tool!Prompt /\ ~broke /\ EnvironmentFits /\ Accounted
    BY <2>1, <1>1, <1>2 DEF ToolsetInv, Whole, Tool!Prompt
  <2>3. /\ OwnAt(o) \notin Between /\ holds[o]
        /\ \A p \in Operations : OwnAt(p) \in Between \/ CleanAt(p) \in Cleaned \/ holds[p] => p = o
    BY <2>2, <1>0, AtWork DEF Between, Working, SpawnPlaces, UnspawnPlaces, Opens, PlacesFit, Cleaned
  <2>4. EnvironmentFits'
    BY <2>1, <2>2, <2>3, <1>0, <1>1, <1>2, <1>3, KindsStay DEF EnvironmentFits, CleanMoves, Opens, Between, Working,
       SpawnPlaces, UnspawnPlaces
  <2>5. Accounted'
    BY <2>1, <2>2, <2>3, <1>0, <1>1, <1>2, <1>3, KindsStay DEF Accounted, Opened, LeftMounted, CleanMoves, Between,
       Cleaned, Working, SpawnPlaces, UnspawnPlaces
  <2>6. QED
    BY <2>4, <2>5
<1>10. QED
  BY <1>4, <1>5, <1>6, <1>7, <1>8, <1>9 DEF ToolsetInv

\* A command is begun inside of the chroot.
LEMMA CommandBeginsKeeps ==
  ASSUME ToolsetInv, NEW o \in Operations, Tool!CommandBegins(Tool!Own(o)) PROVE ToolsetInv'
<1>0. ToolTypeOK /\ PlacesFit(o) /\ OwnAt(o) = "ready" /\ given[o] = "no" /\ CleanAt(o) = "none" /\ lock = <<>>
  BY ThreadFacts DEF ToolsetInv, Tool!CommandBegins, Tool!Unlocked, OwnAt, CleanAt, PlacesFit, CleanPlaces,
     UnspawnPlaces
<1>1. \/ /\ toolset.reserved /\ toolset.spawned /\ ~toolset.inUse
         /\ OwnMoves(o, "running") /\ toolset' = [toolset EXCEPT !.inUse = TRUE]
      \/ OwnMoves(o, "failed") /\ toolset' = toolset
  BY <1>0, GoMoves DEF Tool!CommandBegins, OwnPlaces, CleanPlaces, Working, SpawnPlaces, UnspawnPlaces
<1>2. UNCHANGED <<request, lock, users, did, holds, spawner, given, broke, misused>>
  BY <1>0 DEF Tool!CommandBegins
<1>3. /\ toolset' \in Environments /\ (toolset'.inUse <=> toolset.inUse \/ OwnAt(o)' = "running")
      /\ toolset'.reserved = toolset.reserved /\ toolset'.spawned = toolset.spawned
      /\ toolset'.root = toolset.root /\ toolset'.work = toolset.work /\ toolset'.active = toolset.active
      /\ toolset'.lease = toolset.lease
  <2>1. toolset \in Environments
    BY <1>0 DEF ToolTypeOK
  <2>2. QED
    BY <1>0, <1>1, <1>2, <2>1, RequestFacts DEF Environments, OwnMoves
<1>4. ToolTypeOK'
  BY <1>0, <1>1, <1>2, <1>3 DEF ToolTypeOK, OwnMoves
<1>5. \A p \in Operations : PlacesFit(p)'
  BY <1>0, <1>1, <1>2, KindsStay DEF ToolsetInv, PlacesFit, OwnMoves, OwnPlaces, CleanPlaces, Working, SpawnPlaces,
     UnspawnPlaces
<1>6. Locked'
  BY <1>0, <1>1, <1>2, ThreadFacts DEF ToolsetInv, Locked, OwnMoves, LockPlaces
<1>7. Inhabited'
  BY <1>0, <1>1, <1>2, <1>3, ThreadFacts DEF ToolsetInv, Inhabited, Locked, LockPlaces, OwnMoves
<1>8. Reserved'
  BY <1>0, <1>1, <1>2, <1>3, KindsStay DEF ToolsetInv, Reserved, OneHolder, Unfinished, Tool!Prompt, OwnMoves,
     Working, SpawnPlaces, UnspawnPlaces
<1>9. Whole'
  <2>1. SUFFICES ASSUME Tool!Prompt', ~broke' PROVE EnvironmentFits' /\ Accounted'
    BY DEF Whole
  <2>2. Tool!Prompt /\ ~broke /\ EnvironmentFits /\ Accounted
    BY <2>1, <1>1, <1>2 DEF ToolsetInv, Whole, Tool!Prompt
  <2>4. EnvironmentFits'
    BY <2>1, <2>2, <1>0, <1>1, <1>2, <1>3, KindsStay DEF EnvironmentFits, OwnMoves, Opens
  <2>5. Accounted'
    BY <2>1, <2>2, <1>0, <1>1, <1>2, <1>3, KindsStay DEF Accounted, Opened, LeftMounted, OwnMoves
  <2>6. QED
    BY <2>4, <2>5
<1>10. QED
  BY <1>4, <1>5, <1>6, <1>7, <1>8, <1>9 DEF ToolsetInv

\* A command ends, or is stopped with its operation.
LEMMA CommandEndsKeeps ==
  ASSUME ToolsetInv, NEW o \in Operations, Tool!CommandEnds(Tool!Own(o)) PROVE ToolsetInv'
<1>0. ToolTypeOK /\ PlacesFit(o) /\ OwnAt(o) = "running" /\ lock = <<>>
  BY ThreadFacts DEF ToolsetInv, Tool!CommandEnds, Tool!Unlocked, OwnAt, CleanAt
<1>1. OwnMoves(o, "failed") \/ (given[o] = "no" /\ OwnMoves(o, "ran"))
  BY <1>0, GoMoves, ThreadFacts DEF Tool!CommandEnds, OwnPlaces, CleanPlaces, Working, SpawnPlaces, UnspawnPlaces
<1>2. /\ UNCHANGED <<request, lock, users, did, holds, spawner, given, broke, misused>>
      /\ toolset' = [toolset EXCEPT !.inUse = FALSE]
  BY <1>0 DEF Tool!CommandEnds
<1>3. /\ toolset' \in Environments /\ ~toolset'.inUse
      /\ toolset'.reserved = toolset.reserved /\ toolset'.spawned = toolset.spawned
      /\ toolset'.root = toolset.root /\ toolset'.work = toolset.work /\ toolset'.active = toolset.active
      /\ toolset'.lease = toolset.lease
  <2>1. toolset \in Environments
    BY <1>0 DEF ToolTypeOK
  <2>2. QED
    BY <1>0, <1>1, <1>2, <2>1, RequestFacts DEF Environments, OwnMoves
<1>4. ToolTypeOK'
  BY <1>0, <1>1, <1>2, <1>3 DEF ToolTypeOK, OwnMoves
<1>5. \A p \in Operations : PlacesFit(p)'
  BY <1>0, <1>1, <1>2, KindsStay DEF ToolsetInv, PlacesFit, OwnMoves, OwnPlaces, CleanPlaces, Working, SpawnPlaces,
     UnspawnPlaces
<1>6. Locked'
  BY <1>0, <1>1, <1>2, ThreadFacts DEF ToolsetInv, Locked, OwnMoves, LockPlaces
<1>7. Inhabited'
  BY <1>0, <1>1, <1>2, <1>3, ThreadFacts DEF ToolsetInv, Inhabited, Locked, LockPlaces, OwnMoves
<1>8. Reserved'
  BY <1>0, <1>1, <1>2, <1>3, KindsStay DEF ToolsetInv, Reserved, OneHolder, Unfinished, Tool!Prompt, OwnMoves,
     Working, SpawnPlaces, UnspawnPlaces
<1>9. Whole'
  <2>1. SUFFICES ASSUME Tool!Prompt', ~broke' PROVE EnvironmentFits' /\ Accounted'
    BY DEF Whole
  <2>2. Tool!Prompt /\ ~broke /\ EnvironmentFits /\ Accounted
    BY <2>1, <1>1, <1>2 DEF ToolsetInv, Whole, Tool!Prompt
  <2>4. EnvironmentFits'
    BY <2>1, <2>2, <1>0, <1>1, <1>2, <1>3, KindsStay DEF EnvironmentFits, OwnMoves, Opens
  <2>5. Accounted'
    BY <2>1, <2>2, <1>0, <1>1, <1>2, <1>3, KindsStay DEF Accounted, Opened, LeftMounted, OwnMoves
  <2>6. QED
    BY <2>4, <2>5
<1>10. QED
  BY <1>4, <1>5, <1>6, <1>7, <1>8, <1>9 DEF ToolsetInv

\* The user presses the button of an operation.
LEMMA PressKeeps ==
  ASSUME ToolsetInv, NEW o \in Operations, Tool!Press(o) PROVE ToolsetInv'
<1>0. ToolTypeOK /\ PlacesFit(o) /\ OwnAt(o) = "idle" /\ KindOf(o) \in Tool!Views
  BY DEF ToolsetInv, Tool!Press, Tool!Unlocked, OwnAt, CleanAt, KindOf, RunnerOf
<1>1. OwnMoves(o, "pressed")
  BY <1>0, GoMoves DEF Tool!Press, OwnPlaces, CleanPlaces, Working, SpawnPlaces, UnspawnPlaces
<1>2. UNCHANGED <<request, toolset, lock, users, did, holds, spawner, given, broke, misused>>
  BY <1>0 DEF Tool!Press
<1>4. ToolTypeOK'
  BY <1>0, <1>1, <1>2 DEF ToolTypeOK, OwnMoves
<1>5. \A p \in Operations : PlacesFit(p)'
  BY <1>0, <1>1, <1>2, KindsStay DEF ToolsetInv, PlacesFit, OwnMoves, OwnPlaces, CleanPlaces, Working, SpawnPlaces,
     UnspawnPlaces, Tool!Views, Tool!Processes
<1>6. Locked'
  BY <1>0, <1>1, <1>2, ThreadFacts DEF ToolsetInv, Locked, OwnMoves, LockPlaces
<1>7. Inhabited'
  BY <1>0, <1>1, <1>2, ThreadFacts DEF ToolsetInv, Inhabited, Locked, LockPlaces, OwnMoves
<1>8. Reserved'
  BY <1>0, <1>1, <1>2, KindsStay DEF ToolsetInv, Reserved, OneHolder, Unfinished, Tool!Prompt, OwnMoves, Working,
     SpawnPlaces, UnspawnPlaces
<1>9. Whole'
  <2>1. SUFFICES ASSUME Tool!Prompt', ~broke' PROVE EnvironmentFits' /\ Accounted'
    BY DEF Whole
  <2>2. Tool!Prompt /\ ~broke /\ EnvironmentFits /\ Accounted
    BY <2>1, <1>1, <1>2 DEF ToolsetInv, Whole, Tool!Prompt
  <2>4. EnvironmentFits'
    BY <2>1, <2>2, <1>0, <1>1, <1>2, KindsStay DEF EnvironmentFits, OwnMoves, Opens
  <2>5. Accounted'
    BY <2>1, <2>2, <1>0, <1>1, <1>2, KindsStay DEF Accounted, Opened, LeftMounted, OwnMoves
  <2>6. QED
    BY <2>4, <2>5
<1>10. QED
  BY <1>4, <1>5, <1>6, <1>7, <1>8, <1>9 DEF ToolsetInv

\* The toolset's view reserves it to mount or unmount.
LEMMA ViewReservesKeeps ==
  ASSUME ToolsetInv, NEW o \in Operations, Tool!ViewReserves(o) PROVE ToolsetInv'
<1>0. /\ ToolTypeOK /\ PlacesFit(o) /\ OwnAt(o) = "pressed" /\ lock = <<>>
      /\ KindOf(o) \in Tool!Views /\ ~did[o] /\ CleanAt(o) = "none"
  BY DEF ToolsetInv, Tool!ViewReserves, Tool!Unlocked, OwnAt, CleanAt, Tool!Reserve, PlacesFit, Tool!Views,
     Tool!Processes
<1>1. OwnMoves(o, IF KindOf(o) = "mount" THEN "spawn" ELSE "unspawn")
  BY <1>0, GoMoves DEF Tool!ViewReserves, OwnPlaces, CleanPlaces, Working, SpawnPlaces, UnspawnPlaces, KindOf, RunnerOf
<1>2. /\ UNCHANGED <<request, lock, users, did, spawner, given, broke>>
      /\ misused' \in BOOLEAN /\ (misused' <=> misused \/ toolset.reserved)
      /\ toolset' = [toolset EXCEPT !.reserved = TRUE]
      /\ holds' = [holds EXCEPT ![o] = ~toolset.reserved]
  BY <1>0 DEF Tool!ViewReserves, Tool!Reserve, ToolTypeOK
<1>3. /\ toolset' \in Environments
      /\ toolset'.spawned = toolset.spawned /\ toolset'.inUse = toolset.inUse
      /\ toolset'.root = toolset.root /\ toolset'.work = toolset.work /\ toolset'.active = toolset.active
      /\ toolset'.lease = toolset.lease
      /\ toolset'.reserved /\ (holds[o]' <=> ~toolset.reserved) /\ holds' \in [Operations -> BOOLEAN]
      /\ \A p \in Operations : p # o => (holds[p]' <=> holds[p])
  <2>1. toolset \in Environments /\ holds \in [Operations -> BOOLEAN]
    BY <1>0 DEF ToolTypeOK
  <2>2. QED
    BY <1>2, <2>1 DEF Environments
<1>4. ToolTypeOK'
  BY <1>0, <1>1, <1>2, <1>3 DEF ToolTypeOK, OwnMoves
<1>5. \A p \in Operations : PlacesFit(p)'
  BY <1>0, <1>1, <1>2, KindsStay DEF ToolsetInv, PlacesFit, OwnMoves, OwnPlaces, CleanPlaces, Working, SpawnPlaces,
     UnspawnPlaces, Tool!Views, Tool!Processes, Sharing
<1>6. Locked'
  BY <1>0, <1>1, <1>2, ThreadFacts DEF ToolsetInv, Locked, OwnMoves, LockPlaces
<1>7. Inhabited'
  BY <1>0, <1>1, <1>2, <1>3, ThreadFacts DEF ToolsetInv, Inhabited, Locked, LockPlaces, OwnMoves
<1>8. Reserved'
  BY <1>0, <1>1, <1>2, <1>3, KindsStay DEF ToolsetInv, Reserved, OneHolder, Unfinished, Tool!Prompt, OwnMoves,
     Working, SpawnPlaces, UnspawnPlaces
<1>9. Whole'
  <2>1. SUFFICES ASSUME Tool!Prompt', ~broke' PROVE EnvironmentFits' /\ Accounted'
    BY DEF Whole
  <2>2. Tool!Prompt /\ ~broke /\ EnvironmentFits /\ Accounted
    BY <2>1, <1>1, <1>2 DEF ToolsetInv, Whole, Tool!Prompt
  <2>3. ~toolset.reserved /\ \A p \in Operations : ~holds[p]
    BY <2>2, <1>0, <2>1, <1>2 DEF Between, Working, SpawnPlaces, UnspawnPlaces, Opens, ToolsetInv, Reserved,
       OneHolder, Tool!Prompt
  <2>4. EnvironmentFits'
    BY <2>1, <2>2, <2>3, <1>0, <1>1, <1>2, <1>3, KindsStay DEF EnvironmentFits, OwnMoves, Opens
  <2>5. Accounted'
    BY <2>1, <2>2, <2>3, <1>0, <1>1, <1>2, <1>3, KindsStay DEF Accounted, Opened, LeftMounted, OwnMoves, Tool!Views
  <2>6. QED
    BY <2>4, <2>5
<1>10. QED
  BY <1>4, <1>5, <1>6, <1>7, <1>8, <1>9 DEF ToolsetInv

\* The toolset's view releases it.
LEMMA ViewReleasesKeeps ==
  ASSUME ToolsetInv, NEW o \in Operations, Tool!ViewReleases(o) PROVE ToolsetInv'
<1>0. /\ ToolTypeOK /\ PlacesFit(o) /\ OwnAt(o) \in {"ran", "failed", "closed"} /\ KindOf(o) \in Tool!Views
      /\ lock = <<>>
      /\ Tool!Prompt => holds[o]
  BY DEF ToolsetInv, Tool!ViewReleases, Tool!Unlocked, OwnAt, CleanAt, Tool!Release, PlacesFit, Tool!Views,
     Tool!Processes, Sharing, Reserved, OneHolder, Unfinished, Working, UnspawnPlaces, KindOf, RunnerOf
<1>1. OwnMoves(o, "done")
  BY <1>0, GoMoves DEF Tool!ViewReleases, OwnPlaces, CleanPlaces, Working, SpawnPlaces, UnspawnPlaces
<1>2. /\ UNCHANGED <<request, lock, users, did, spawner, given, broke, misused>>
      /\ toolset' = [toolset EXCEPT !.reserved = FALSE]
      /\ holds' = [holds EXCEPT ![o] = FALSE]
  BY <1>0 DEF Tool!ViewReleases, Tool!Release
<1>3. /\ toolset' \in Environments
      /\ toolset'.spawned = toolset.spawned /\ toolset'.inUse = toolset.inUse
      /\ toolset'.root = toolset.root /\ toolset'.work = toolset.work /\ toolset'.active = toolset.active
      /\ toolset'.lease = toolset.lease
      /\ ~toolset'.reserved /\ ~holds[o]' /\ holds' \in [Operations -> BOOLEAN]
      /\ \A p \in Operations : p # o => (holds[p]' <=> holds[p])
  <2>1. toolset \in Environments /\ holds \in [Operations -> BOOLEAN]
    BY <1>0 DEF ToolTypeOK
  <2>2. QED
    BY <1>2, <2>1 DEF Environments
<1>4. ToolTypeOK'
  BY <1>0, <1>1, <1>2, <1>3 DEF ToolTypeOK, OwnMoves
<1>5. \A p \in Operations : PlacesFit(p)'
  BY <1>0, <1>1, <1>2, KindsStay DEF ToolsetInv, PlacesFit, OwnMoves, OwnPlaces, CleanPlaces, Working, SpawnPlaces,
     UnspawnPlaces, Tool!Views, Tool!Processes, Sharing
<1>6. Locked'
  BY <1>0, <1>1, <1>2, ThreadFacts DEF ToolsetInv, Locked, OwnMoves, LockPlaces
<1>7. Inhabited'
  BY <1>0, <1>1, <1>2, <1>3, ThreadFacts DEF ToolsetInv, Inhabited, Locked, LockPlaces, OwnMoves
<1>8. Reserved'
  BY <1>0, <1>1, <1>2, <1>3, KindsStay DEF ToolsetInv, Reserved, OneHolder, Unfinished, Tool!Prompt, OwnMoves,
     Working, SpawnPlaces, UnspawnPlaces
<1>9. Whole'
  <2>1. SUFFICES ASSUME Tool!Prompt', ~broke' PROVE EnvironmentFits' /\ Accounted'
    BY DEF Whole
  <2>2. Tool!Prompt /\ ~broke /\ EnvironmentFits /\ Accounted
    BY <2>1, <1>1, <1>2 DEF ToolsetInv, Whole, Tool!Prompt
  <2>3. /\ holds[o] /\ RunnerOf(o) = "vm" /\ (did[o] => KindOf(o) = "mount")
        /\ \A p \in Operations : holds[p] => p = o
    BY <2>2, <1>0 DEF Between, Working, SpawnPlaces, UnspawnPlaces, Opens, ToolsetInv, Reserved, OneHolder,
       PlacesFit, Tool!Views, Sharing
  <2>4. EnvironmentFits'
    BY <2>1, <2>2, <2>3, <1>0, <1>1, <1>2, <1>3, KindsStay DEF EnvironmentFits, OwnMoves, Opens
  <2>5. Accounted'
    BY <2>1, <2>2, <2>3, <1>0, <1>1, <1>2, <1>3, KindsStay DEF Accounted, Opened, LeftMounted, OwnMoves, Tool!Views,
       Sharing, Reserved, OneHolder, ToolsetInv
  <2>6. QED
    BY <2>4, <2>5
<1>10. QED
  BY <1>4, <1>5, <1>6, <1>7, <1>8, <1>9 DEF ToolsetInv

\* A kernel's build reserves the toolset.
LEMMA KernelReservesKeeps ==
  ASSUME ToolsetInv, NEW o \in Operations, Tool!KernelReserves(o) PROVE ToolsetInv'
<1>0. ToolTypeOK /\ PlacesFit(o) /\ OwnAt(o) = "idle" /\ KindOf(o) = "kernel" /\ lock = <<>>
  BY DEF ToolsetInv, Tool!KernelReserves, Tool!Unlocked, OwnAt, CleanAt, Tool!Reserve, KindOf, RunnerOf
<1>1. OwnMoves(o, IF toolset.reserved THEN "done" ELSE "spawn")
  BY <1>0, GoMoves DEF Tool!KernelReserves, OwnPlaces, CleanPlaces, Working, SpawnPlaces, UnspawnPlaces
<1>2. /\ UNCHANGED <<request, lock, users, did, spawner, given, broke, misused>>
      /\ toolset' = [toolset EXCEPT !.reserved = TRUE]
      /\ holds' = [holds EXCEPT ![o] = ~toolset.reserved]
  BY <1>0 DEF Tool!KernelReserves, Tool!Reserve
<1>3. /\ toolset' \in Environments
      /\ toolset'.spawned = toolset.spawned /\ toolset'.inUse = toolset.inUse
      /\ toolset'.root = toolset.root /\ toolset'.work = toolset.work /\ toolset'.active = toolset.active
      /\ toolset'.lease = toolset.lease
      /\ toolset'.reserved /\ (holds[o]' <=> ~toolset.reserved) /\ holds' \in [Operations -> BOOLEAN]
      /\ \A p \in Operations : p # o => (holds[p]' <=> holds[p])
  <2>1. toolset \in Environments /\ holds \in [Operations -> BOOLEAN]
    BY <1>0 DEF ToolTypeOK
  <2>2. QED
    BY <1>2, <2>1 DEF Environments
<1>4. ToolTypeOK'
  BY <1>0, <1>1, <1>2, <1>3 DEF ToolTypeOK, OwnMoves
<1>5. \A p \in Operations : PlacesFit(p)'
  BY <1>0, <1>1, <1>2, KindsStay DEF ToolsetInv, PlacesFit, OwnMoves, OwnPlaces, CleanPlaces, Working, SpawnPlaces,
     UnspawnPlaces, Tool!Views, Tool!Processes, Sharing
<1>6. Locked'
  BY <1>0, <1>1, <1>2, ThreadFacts DEF ToolsetInv, Locked, OwnMoves, LockPlaces
<1>7. Inhabited'
  BY <1>0, <1>1, <1>2, <1>3, ThreadFacts DEF ToolsetInv, Inhabited, Locked, LockPlaces, OwnMoves
<1>8. Reserved'
  BY <1>0, <1>1, <1>2, <1>3, KindsStay DEF ToolsetInv, Reserved, OneHolder, Unfinished, Tool!Prompt, OwnMoves,
     Working, SpawnPlaces, UnspawnPlaces
<1>9. Whole'
  <2>1. SUFFICES ASSUME Tool!Prompt', ~broke' PROVE EnvironmentFits' /\ Accounted'
    BY DEF Whole
  <2>2. Tool!Prompt /\ ~broke /\ EnvironmentFits /\ Accounted
    BY <2>1, <1>1, <1>2 DEF ToolsetInv, Whole, Tool!Prompt
  <2>3. /\ ~did[o] /\ CleanAt(o) = "none"
        /\ ~toolset.reserved => \A p \in Operations : ~holds[p]
    BY <2>2, <1>0 DEF Between, Working, SpawnPlaces, UnspawnPlaces, Opens, ToolsetInv, Reserved, OneHolder,
       PlacesFit, Tool!Processes, Tool!Prompt
  <2>4. EnvironmentFits'
    BY <2>1, <2>2, <2>3, <1>0, <1>1, <1>2, <1>3, KindsStay DEF EnvironmentFits, OwnMoves, Opens
  <2>5. Accounted'
    BY <2>1, <2>2, <2>3, <1>0, <1>1, <1>2, <1>3, KindsStay DEF Accounted, Opened, LeftMounted, OwnMoves, Sharing
  <2>6. QED
    BY <2>4, <2>5
<1>10. QED
  BY <1>4, <1>5, <1>6, <1>7, <1>8, <1>9 DEF ToolsetInv

\* A kernel's build takes down what it had spawned.
LEMMA KernelUnspawnsKeeps ==
  ASSUME ToolsetInv, NEW o \in Operations, Tool!KernelUnspawns(o) PROVE ToolsetInv'
<1>0. ToolTypeOK /\ PlacesFit(o) /\ OwnAt(o) \in {"ran", "failed"} /\ KindOf(o) = "kernel" /\ did[o]
  BY DEF ToolsetInv, Tool!KernelUnspawns, Tool!Unlocked, OwnAt, CleanAt, KindOf, RunnerOf
<1>1. OwnMoves(o, "unspawn")
  BY <1>0, GoMoves DEF Tool!KernelUnspawns, OwnPlaces, CleanPlaces, Working, SpawnPlaces, UnspawnPlaces
<1>2. /\ UNCHANGED <<request, toolset, lock, users, holds, spawner, given, broke, misused>>
      /\ did' \in [Operations -> BOOLEAN] /\ ~did[o]' /\ \A p \in Operations : p # o => (did[p]' <=> did[p])
  BY <1>0 DEF Tool!KernelUnspawns, ToolTypeOK
<1>4. ToolTypeOK'
  BY <1>0, <1>1, <1>2 DEF ToolTypeOK, OwnMoves
<1>5. \A p \in Operations : PlacesFit(p)'
  BY <1>0, <1>1, <1>2, KindsStay DEF ToolsetInv, PlacesFit, OwnMoves, OwnPlaces, CleanPlaces, Working, SpawnPlaces,
     UnspawnPlaces, Tool!Processes, Tool!Views
<1>6. Locked'
  BY <1>0, <1>1, <1>2, ThreadFacts DEF ToolsetInv, Locked, OwnMoves, LockPlaces
<1>7. Inhabited'
  BY <1>0, <1>1, <1>2, ThreadFacts DEF ToolsetInv, Inhabited, Locked, LockPlaces, OwnMoves
<1>8. Reserved'
  BY <1>0, <1>1, <1>2, KindsStay DEF ToolsetInv, Reserved, OneHolder, Unfinished, Tool!Prompt, OwnMoves, Working,
     SpawnPlaces, UnspawnPlaces, Sharing
<1>9. Whole'
  <2>1. SUFFICES ASSUME Tool!Prompt', ~broke' PROVE EnvironmentFits' /\ Accounted'
    BY DEF Whole
  <2>2. Tool!Prompt /\ ~broke /\ EnvironmentFits /\ Accounted
    BY <2>1, <1>1, <1>2 DEF ToolsetInv, Whole, Tool!Prompt
  <2>3. Opened(o)
    BY <2>2, <1>0 DEF Between, Working, SpawnPlaces, UnspawnPlaces, Opens, Opened, ToolsetInv, PlacesFit,
       Tool!Processes, Reserved, OneHolder, Unfinished
  <2>4. EnvironmentFits'
    BY <2>1, <2>2, <2>3, <1>0, <1>1, <1>2, KindsStay DEF EnvironmentFits, OwnMoves, Opens
  <2>5. Accounted'
    BY <2>1, <2>2, <2>3, <1>0, <1>1, <1>2, KindsStay DEF Accounted, Opened, LeftMounted, OwnMoves
  <2>6. QED
    BY <2>4, <2>5
<1>10. QED
  BY <1>4, <1>5, <1>6, <1>7, <1>8, <1>9 DEF ToolsetInv

\* A kernel's build releases the toolset.
LEMMA KernelReleasesKeeps ==
  ASSUME ToolsetInv, NEW o \in Operations, Tool!KernelReleases(o) PROVE ToolsetInv'
<1>0. /\ ToolTypeOK /\ PlacesFit(o) /\ OwnAt(o) \in {"ran", "failed", "closed"} /\ KindOf(o) = "kernel" /\ ~did[o]
      /\ lock = <<>>
      /\ Tool!Prompt => holds[o]
  BY DEF ToolsetInv, Tool!KernelReleases, Tool!Unlocked, OwnAt, CleanAt, Tool!Release, PlacesFit, Tool!Views,
     Tool!Processes, Sharing, Reserved, OneHolder, Unfinished, Working, UnspawnPlaces, KindOf, RunnerOf
<1>1. OwnMoves(o, "done")
  BY <1>0, GoMoves DEF Tool!KernelReleases, OwnPlaces, CleanPlaces, Working, SpawnPlaces, UnspawnPlaces
<1>2. /\ UNCHANGED <<request, lock, users, did, spawner, given, broke, misused>>
      /\ toolset' = [toolset EXCEPT !.reserved = FALSE]
      /\ holds' = [holds EXCEPT ![o] = FALSE]
  BY <1>0 DEF Tool!KernelReleases, Tool!Release
<1>3. /\ toolset' \in Environments
      /\ toolset'.spawned = toolset.spawned /\ toolset'.inUse = toolset.inUse
      /\ toolset'.root = toolset.root /\ toolset'.work = toolset.work /\ toolset'.active = toolset.active
      /\ toolset'.lease = toolset.lease
      /\ ~toolset'.reserved /\ ~holds[o]' /\ holds' \in [Operations -> BOOLEAN]
      /\ \A p \in Operations : p # o => (holds[p]' <=> holds[p])
  <2>1. toolset \in Environments /\ holds \in [Operations -> BOOLEAN]
    BY <1>0 DEF ToolTypeOK
  <2>2. QED
    BY <1>2, <2>1 DEF Environments
<1>4. ToolTypeOK'
  BY <1>0, <1>1, <1>2, <1>3 DEF ToolTypeOK, OwnMoves
<1>5. \A p \in Operations : PlacesFit(p)'
  BY <1>0, <1>1, <1>2, KindsStay DEF ToolsetInv, PlacesFit, OwnMoves, OwnPlaces, CleanPlaces, Working, SpawnPlaces,
     UnspawnPlaces, Tool!Views, Tool!Processes, Sharing
<1>6. Locked'
  BY <1>0, <1>1, <1>2, ThreadFacts DEF ToolsetInv, Locked, OwnMoves, LockPlaces
<1>7. Inhabited'
  BY <1>0, <1>1, <1>2, <1>3, ThreadFacts DEF ToolsetInv, Inhabited, Locked, LockPlaces, OwnMoves
<1>8. Reserved'
  BY <1>0, <1>1, <1>2, <1>3, KindsStay DEF ToolsetInv, Reserved, OneHolder, Unfinished, Tool!Prompt, OwnMoves,
     Working, SpawnPlaces, UnspawnPlaces
<1>9. Whole'
  <2>1. SUFFICES ASSUME Tool!Prompt', ~broke' PROVE EnvironmentFits' /\ Accounted'
    BY DEF Whole
  <2>2. Tool!Prompt /\ ~broke /\ EnvironmentFits /\ Accounted
    BY <2>1, <1>1, <1>2 DEF ToolsetInv, Whole, Tool!Prompt
  <2>3. holds[o] /\ \A p \in Operations : holds[p] => p = o
    BY <2>2, <1>0 DEF Between, Working, SpawnPlaces, UnspawnPlaces, Opens, ToolsetInv, Reserved, OneHolder
  <2>4. EnvironmentFits'
    BY <2>1, <2>2, <2>3, <1>0, <1>1, <1>2, <1>3, KindsStay DEF EnvironmentFits, OwnMoves, Opens
  <2>5. Accounted'
    BY <2>1, <2>2, <2>3, <1>0, <1>1, <1>2, <1>3, KindsStay DEF Accounted, Opened, LeftMounted, OwnMoves, Sharing
  <2>6. QED
    BY <2>4, <2>5
<1>10. QED
  BY <1>4, <1>5, <1>6, <1>7, <1>8, <1>9 DEF ToolsetInv

\* A process is started.
LEMMA ProcessStartsKeeps ==
  ASSUME ToolsetInv, NEW o \in Operations, Tool!ProcessStarts(o) PROVE ToolsetInv'
<1>0. ToolTypeOK /\ PlacesFit(o) /\ OwnAt(o) = "idle" /\ KindOf(o) \in {"build", "snapshot"} /\ ~did[o]
  BY DEF ToolsetInv, Tool!ProcessStarts, Tool!Unlocked, OwnAt, CleanAt, PlacesFit, KindOf, RunnerOf
<1>1. OwnMoves(o, "failed") \/ OwnMoves(o, "reserve")
  BY <1>0, GoMoves DEF Tool!ProcessStarts, OwnPlaces, CleanPlaces, Working, SpawnPlaces, UnspawnPlaces
<1>2. /\ UNCHANGED <<request, toolset, lock, users, did, holds, given, broke, misused>>
      /\ spawner' \in [Operations -> BOOLEAN] /\ \A p \in Operations : p # o => (spawner[p]' <=> spawner[p])
      /\ spawner[o]'
  BY <1>0 DEF Tool!ProcessStarts, ToolTypeOK
<1>4. ToolTypeOK'
  BY <1>0, <1>1, <1>2 DEF ToolTypeOK, OwnMoves
<1>5. \A p \in Operations : PlacesFit(p)'
  BY <1>0, <1>1, <1>2, KindsStay DEF ToolsetInv, PlacesFit, OwnMoves, OwnPlaces, CleanPlaces, Working, SpawnPlaces,
     UnspawnPlaces, Tool!Processes, Tool!Views, Sharing
<1>6. Locked'
  BY <1>0, <1>1, <1>2, ThreadFacts DEF ToolsetInv, Locked, OwnMoves, LockPlaces
<1>7. Inhabited'
  BY <1>0, <1>1, <1>2, ThreadFacts DEF ToolsetInv, Inhabited, Locked, LockPlaces, OwnMoves
<1>8. Reserved'
  BY <1>0, <1>1, <1>2, KindsStay DEF ToolsetInv, Reserved, OneHolder, Unfinished, Tool!Prompt, OwnMoves, Working,
     SpawnPlaces, UnspawnPlaces, Sharing
<1>9. Whole'
  <2>1. SUFFICES ASSUME Tool!Prompt', ~broke' PROVE EnvironmentFits' /\ Accounted'
    BY DEF Whole
  <2>2. Tool!Prompt /\ ~broke /\ EnvironmentFits /\ Accounted
    BY <2>1, <1>1, <1>2 DEF ToolsetInv, Whole, Tool!Prompt
  <2>3. ~did[o] /\ CleanAt(o) = "none"
    BY <2>2, <1>0 DEF Between, Working, SpawnPlaces, UnspawnPlaces, Opens, PlacesFit, Tool!Processes, Tool!Prompt
  <2>4. EnvironmentFits'
    BY <2>1, <2>2, <2>3, <1>0, <1>1, <1>2, KindsStay DEF EnvironmentFits, OwnMoves, Opens
  <2>5. Accounted'
    BY <2>1, <2>2, <2>3, <1>0, <1>1, <1>2, KindsStay DEF Accounted, Opened, LeftMounted, OwnMoves, Sharing
  <2>6. QED
    BY <2>4, <2>5
<1>10. QED
  BY <1>4, <1>5, <1>6, <1>7, <1>8, <1>9 DEF ToolsetInv

\* A process reserves the toolset, or fails when it is taken.
LEMMA ProcessReservesKeeps ==
  ASSUME ToolsetInv, NEW o \in Operations, Tool!ProcessReserves(o) PROVE ToolsetInv'
<1>0. ToolTypeOK /\ PlacesFit(o) /\ OwnAt(o) = "reserve" /\ lock = <<>> /\ KindOf(o) \in {"build", "snapshot"} /\ ~did[o]
  BY DEF ToolsetInv, Tool!ProcessReserves, Tool!Unlocked, OwnAt, CleanAt, Tool!Reserve, PlacesFit, Sharing
<1>1. OwnMoves(o, IF toolset.reserved THEN "failed" ELSE IF KindOf(o) = "build" THEN "spawn" ELSE "choose")
  BY <1>0, GoMoves DEF Tool!ProcessReserves, OwnPlaces, CleanPlaces, Working, SpawnPlaces, UnspawnPlaces, KindOf,
     RunnerOf
<1>2. /\ UNCHANGED <<request, lock, users, did, spawner, given, broke, misused>>
      /\ toolset' = [toolset EXCEPT !.reserved = TRUE]
      /\ holds' = [holds EXCEPT ![o] = ~toolset.reserved]
  BY <1>0 DEF Tool!ProcessReserves, Tool!Reserve
<1>3. /\ toolset' \in Environments
      /\ toolset'.spawned = toolset.spawned /\ toolset'.inUse = toolset.inUse
      /\ toolset'.root = toolset.root /\ toolset'.work = toolset.work /\ toolset'.active = toolset.active
      /\ toolset'.lease = toolset.lease
      /\ toolset'.reserved /\ (holds[o]' <=> ~toolset.reserved) /\ holds' \in [Operations -> BOOLEAN]
      /\ \A p \in Operations : p # o => (holds[p]' <=> holds[p])
  <2>1. toolset \in Environments /\ holds \in [Operations -> BOOLEAN]
    BY <1>0 DEF ToolTypeOK
  <2>2. QED
    BY <1>2, <2>1 DEF Environments
<1>4. ToolTypeOK'
  BY <1>0, <1>1, <1>2, <1>3 DEF ToolTypeOK, OwnMoves
<1>5. \A p \in Operations : PlacesFit(p)'
  BY <1>0, <1>1, <1>2, KindsStay DEF ToolsetInv, PlacesFit, OwnMoves, OwnPlaces, CleanPlaces, Working, SpawnPlaces,
     UnspawnPlaces, Tool!Views, Tool!Processes, Sharing
<1>6. Locked'
  BY <1>0, <1>1, <1>2, ThreadFacts DEF ToolsetInv, Locked, OwnMoves, LockPlaces
<1>7. Inhabited'
  BY <1>0, <1>1, <1>2, <1>3, ThreadFacts DEF ToolsetInv, Inhabited, Locked, LockPlaces, OwnMoves
<1>8. Reserved'
  BY <1>0, <1>1, <1>2, <1>3, KindsStay DEF ToolsetInv, Reserved, OneHolder, Unfinished, Tool!Prompt, OwnMoves,
     Working, SpawnPlaces, UnspawnPlaces, Sharing
<1>9. Whole'
  <2>1. SUFFICES ASSUME Tool!Prompt', ~broke' PROVE EnvironmentFits' /\ Accounted'
    BY DEF Whole
  <2>2. Tool!Prompt /\ ~broke /\ EnvironmentFits /\ Accounted
    BY <2>1, <1>1, <1>2 DEF ToolsetInv, Whole, Tool!Prompt
  <2>3. /\ ~did[o] /\ CleanAt(o) = "none"
        /\ ~toolset.reserved => \A p \in Operations : ~holds[p]
    BY <2>2, <1>0 DEF Between, Working, SpawnPlaces, UnspawnPlaces, Opens, ToolsetInv, Reserved, OneHolder,
       PlacesFit, Tool!Processes, Tool!Prompt
  <2>4. EnvironmentFits'
    BY <2>1, <2>2, <2>3, <1>0, <1>1, <1>2, <1>3, KindsStay DEF EnvironmentFits, OwnMoves, Opens
  <2>5. Accounted'
    BY <2>1, <2>2, <2>3, <1>0, <1>1, <1>2, <1>3, KindsStay DEF Accounted, Opened, LeftMounted, OwnMoves, Sharing
  <2>6. QED
    BY <2>4, <2>5
<1>10. QED
  BY <1>4, <1>5, <1>6, <1>7, <1>8, <1>9 DEF ToolsetInv

\* An update reserves the toolset and takes its runner.
LEMMA UpdateStartsKeeps ==
  ASSUME ToolsetInv, NEW o \in Operations, Tool!UpdateStarts(o) PROVE ToolsetInv'
<1>0. ToolTypeOK /\ PlacesFit(o) /\ OwnAt(o) = "idle" /\ KindOf(o) = "update" /\ lock = <<>>
  BY DEF ToolsetInv, Tool!UpdateStarts, Tool!Unlocked, OwnAt, CleanAt, Tool!Reserve, KindOf, RunnerOf
<1>1. \/ toolset.reserved /\ OwnMoves(o, "done")
      \/ ~toolset.reserved /\ OwnMoves(o, "failed")
      \/ ~toolset.reserved /\ toolset.active # "none" /\ OwnMoves(o, "choose")
  BY <1>0, GoMoves DEF Tool!UpdateStarts, OwnPlaces, CleanPlaces, Working, SpawnPlaces, UnspawnPlaces
<1>2. /\ UNCHANGED <<request, lock, users, did, given, broke, misused>>
      /\ spawner' \in [Operations -> BOOLEAN] /\ \A p \in Operations : p # o => (spawner[p]' <=> spawner[p])
      /\ spawner[o]' <=> ~toolset.reserved /\ toolset.active # "none"
      /\ toolset' = [toolset EXCEPT !.reserved = TRUE]
      /\ holds' = [holds EXCEPT ![o] = ~toolset.reserved]
  BY <1>0 DEF Tool!UpdateStarts, Tool!Reserve, ToolTypeOK
<1>3. /\ toolset' \in Environments
      /\ toolset'.spawned = toolset.spawned /\ toolset'.inUse = toolset.inUse
      /\ toolset'.root = toolset.root /\ toolset'.work = toolset.work /\ toolset'.active = toolset.active
      /\ toolset'.lease = toolset.lease
      /\ toolset'.reserved /\ (holds[o]' <=> ~toolset.reserved) /\ holds' \in [Operations -> BOOLEAN]
      /\ \A p \in Operations : p # o => (holds[p]' <=> holds[p])
  <2>1. toolset \in Environments /\ holds \in [Operations -> BOOLEAN]
    BY <1>0 DEF ToolTypeOK
  <2>2. QED
    BY <1>2, <2>1 DEF Environments
<1>4. ToolTypeOK'
  BY <1>0, <1>1, <1>2, <1>3 DEF ToolTypeOK, OwnMoves
<1>5. \A p \in Operations : PlacesFit(p)'
  BY <1>0, <1>1, <1>2, KindsStay DEF ToolsetInv, PlacesFit, OwnMoves, OwnPlaces, CleanPlaces, Working, SpawnPlaces,
     UnspawnPlaces, Tool!Views, Tool!Processes, Sharing
<1>6. Locked'
  BY <1>0, <1>1, <1>2, ThreadFacts DEF ToolsetInv, Locked, OwnMoves, LockPlaces
<1>7. Inhabited'
  BY <1>0, <1>1, <1>2, <1>3, ThreadFacts DEF ToolsetInv, Inhabited, Locked, LockPlaces, OwnMoves
<1>8. Reserved'
  BY <1>0, <1>1, <1>2, <1>3, KindsStay DEF ToolsetInv, Reserved, OneHolder, Unfinished, Tool!Prompt, OwnMoves,
     Working, SpawnPlaces, UnspawnPlaces
<1>9. Whole'
  <2>1. SUFFICES ASSUME Tool!Prompt', ~broke' PROVE EnvironmentFits' /\ Accounted'
    BY DEF Whole
  <2>2. Tool!Prompt /\ ~broke /\ EnvironmentFits /\ Accounted
    BY <2>1, <1>1, <1>2 DEF ToolsetInv, Whole, Tool!Prompt
  <2>3. /\ ~did[o] /\ CleanAt(o) = "none"
        /\ ~toolset.reserved => \A p \in Operations : ~holds[p]
    BY <2>2, <1>0 DEF Between, Working, SpawnPlaces, UnspawnPlaces, Opens, ToolsetInv, Reserved, OneHolder,
       PlacesFit, Tool!Processes, Tool!Prompt
  <2>4. EnvironmentFits'
    BY <2>1, <2>2, <2>3, <1>0, <1>1, <1>2, <1>3, KindsStay DEF EnvironmentFits, OwnMoves, Opens
  <2>5. Accounted'
    BY <2>1, <2>2, <2>3, <1>0, <1>1, <1>2, <1>3, KindsStay DEF Accounted, Opened, LeftMounted, OwnMoves, Sharing
  <2>6. QED
    BY <2>4, <2>5
<1>10. QED
  BY <1>4, <1>5, <1>6, <1>7, <1>8, <1>9 DEF ToolsetInv

\* A process chooses whether it spawns, uses, or first unspawns the toolset.
LEMMA ChooseKeeps ==
  ASSUME ToolsetInv, NEW o \in Operations, Tool!Choose(o) PROVE ToolsetInv'
<1>0. ToolTypeOK /\ PlacesFit(o) /\ OwnAt(o) \in {"choose", "closed"} /\ KindOf(o) \in {"snapshot", "update"}
  BY DEF ToolsetInv, Tool!Choose, Tool!Unlocked, OwnAt, CleanAt, KindOf, RunnerOf
<1>1. OwnMoves(o, IF ~toolset.spawned THEN "spawn" ELSE IF Tool!Serves(o) THEN "ready" ELSE "unspawn")
  BY <1>0, GoMoves DEF Tool!Choose, OwnPlaces, CleanPlaces, Working, SpawnPlaces, UnspawnPlaces
<1>2. UNCHANGED <<request, toolset, lock, users, did, holds, spawner, given, broke, misused>>
  BY <1>0 DEF Tool!Choose
<1>4. ToolTypeOK'
  BY <1>0, <1>1, <1>2 DEF ToolTypeOK, OwnMoves
<1>5. \A p \in Operations : PlacesFit(p)'
  BY <1>0, <1>1, <1>2, KindsStay DEF ToolsetInv, PlacesFit, OwnMoves, OwnPlaces, CleanPlaces, Working, SpawnPlaces,
     UnspawnPlaces, Tool!Processes, Tool!Views
<1>6. Locked'
  BY <1>0, <1>1, <1>2, ThreadFacts DEF ToolsetInv, Locked, OwnMoves, LockPlaces
<1>7. Inhabited'
  BY <1>0, <1>1, <1>2, ThreadFacts DEF ToolsetInv, Inhabited, Locked, LockPlaces, OwnMoves
<1>8. Reserved'
  BY <1>0, <1>1, <1>2, KindsStay DEF ToolsetInv, Reserved, OneHolder, Unfinished, Tool!Prompt, OwnMoves, Working,
     SpawnPlaces, UnspawnPlaces
<1>9. Whole'
  <2>1. SUFFICES ASSUME Tool!Prompt', ~broke' PROVE EnvironmentFits' /\ Accounted'
    BY DEF Whole
  <2>2. Tool!Prompt /\ ~broke /\ EnvironmentFits /\ Accounted
    BY <2>1, <1>1, <1>2 DEF ToolsetInv, Whole, Tool!Prompt
  <2>3. /\ CleanAt(o) = "none" /\ ~did[o] /\ holds[o]
        /\ \A p \in Operations : OwnAt(p) \in Between \/ CleanAt(p) \in Cleaned \/ holds[p] => p = o
    BY <2>2, <1>0, AtWork DEF Between, Working, SpawnPlaces, UnspawnPlaces, Opens, PlacesFit
  <2>4. EnvironmentFits'
    BY <2>1, <2>2, <2>3, <1>0, <1>1, <1>2, KindsStay DEF EnvironmentFits, OwnMoves, Opens, Between, Working,
       SpawnPlaces, UnspawnPlaces
  <2>5. Accounted'
    BY <2>1, <2>2, <2>3, <1>0, <1>1, <1>2, KindsStay DEF Accounted, Opened, LeftMounted, OwnMoves, Between, Cleaned,
       Working, SpawnPlaces, UnspawnPlaces
  <2>6. QED
    BY <2>4, <2>5
<1>10. QED
  BY <1>4, <1>5, <1>6, <1>7, <1>8, <1>9 DEF ToolsetInv

\* A process goes on when its chroot is spawned.
LEMMA SpawnedKeeps ==
  ASSUME ToolsetInv, NEW o \in Operations, Tool!Spawned(o) PROVE ToolsetInv'
<1>0. ToolTypeOK /\ PlacesFit(o) /\ OwnAt(o) = "spawned"
  BY DEF ToolsetInv, Tool!Spawned, Tool!Unlocked, OwnAt, CleanAt
<1>1. OwnMoves(o, "ready")
  BY <1>0, GoMoves DEF Tool!Spawned, OwnPlaces, CleanPlaces, Working, SpawnPlaces, UnspawnPlaces
<1>2. /\ UNCHANGED <<request, toolset, lock, users, holds, spawner, given, broke, misused>>
      /\ did' \in [Operations -> BOOLEAN] /\ did[o]' /\ \A p \in Operations : p # o => (did[p]' <=> did[p])
  BY <1>0 DEF Tool!Spawned, ToolTypeOK
<1>4. ToolTypeOK'
  BY <1>0, <1>1, <1>2 DEF ToolTypeOK, OwnMoves
<1>5. \A p \in Operations : PlacesFit(p)'
  BY <1>0, <1>1, <1>2, KindsStay DEF ToolsetInv, PlacesFit, OwnMoves, OwnPlaces, CleanPlaces, Working, SpawnPlaces,
     UnspawnPlaces, Tool!Processes, Tool!Views
<1>6. Locked'
  BY <1>0, <1>1, <1>2, ThreadFacts DEF ToolsetInv, Locked, OwnMoves, LockPlaces
<1>7. Inhabited'
  BY <1>0, <1>1, <1>2, ThreadFacts DEF ToolsetInv, Inhabited, Locked, LockPlaces, OwnMoves
<1>8. Reserved'
  BY <1>0, <1>1, <1>2, KindsStay DEF ToolsetInv, Reserved, OneHolder, Unfinished, Tool!Prompt, OwnMoves, Working,
     SpawnPlaces, UnspawnPlaces, Sharing
<1>9. Whole'
  <2>1. SUFFICES ASSUME Tool!Prompt', ~broke' PROVE EnvironmentFits' /\ Accounted'
    BY DEF Whole
  <2>2. Tool!Prompt /\ ~broke /\ EnvironmentFits /\ Accounted
    BY <2>1, <1>1, <1>2 DEF ToolsetInv, Whole, Tool!Prompt
  <2>3. /\ CleanAt(o) = "none" /\ ~did[o] /\ holds[o]
        /\ \A p \in Operations : OwnAt(p) \in Between \/ CleanAt(p) \in Cleaned \/ holds[p] => p = o
    BY <2>2, <1>0, AtWork DEF Between, Working, SpawnPlaces, UnspawnPlaces, Opens, PlacesFit
  <2>4. EnvironmentFits'
    BY <2>1, <2>2, <2>3, <1>0, <1>1, <1>2, KindsStay DEF EnvironmentFits, OwnMoves, Opens, Between, Working,
       SpawnPlaces, UnspawnPlaces
  <2>5. Accounted'
    BY <2>1, <2>2, <2>3, <1>0, <1>1, <1>2, KindsStay DEF Accounted, Opened, LeftMounted, OwnMoves, Between, Cleaned,
       Working, SpawnPlaces, UnspawnPlaces
  <2>6. QED
    BY <2>4, <2>5
<1>10. QED
  BY <1>4, <1>5, <1>6, <1>7, <1>8, <1>9 DEF ToolsetInv

\* The user cancels a process.
LEMMA CancelKeeps ==
  ASSUME ToolsetInv, NEW o \in Operations, Tool!Cancel(o) PROVE ToolsetInv'
<1>0. ToolTypeOK /\ PlacesFit(o) /\ OwnAt(o) \notin {"idle", "done"} /\ KindOf(o) \in Tool!Processes /\ CleanAt(o) = "none"
  BY DEF ToolsetInv, Tool!Cancel, Tool!Unlocked, OwnAt, CleanAt, KindOf, RunnerOf
<1>1. /\ pc' = pc /\ given[o] = "no"
      /\ \A p \in Operations : OwnAt(p)' = OwnAt(p) /\ CleanAt(p)' = CleanAt(p)
  BY <1>0, GoMoves DEF Tool!Cancel, OwnAt, CleanAt
<1>2. /\ UNCHANGED <<request, toolset, lock, users, did, holds, spawner, broke, misused>>
      /\ given' \in [Operations -> {"no", "yes", "late"}] /\ \A p \in Operations : p # o => given'[p] = given[p]
      /\ given'[o] = "yes"
  BY <1>0 DEF Tool!Cancel, ToolTypeOK
<1>4. ToolTypeOK'
  BY <1>0, <1>1, <1>2 DEF ToolTypeOK
<1>5. \A p \in Operations : PlacesFit(p)'
  BY <1>0, <1>1, <1>2, KindsStay DEF ToolsetInv, PlacesFit, OwnPlaces, CleanPlaces, Working, SpawnPlaces, UnspawnPlaces
<1>6. Locked'
  BY <1>0, <1>1, <1>2, ThreadFacts DEF ToolsetInv, Locked, LockPlaces
<1>7. Inhabited'
  BY <1>0, <1>1, <1>2, ThreadFacts DEF ToolsetInv, Inhabited, Locked, LockPlaces
<1>8. Reserved'
  BY <1>0, <1>1, <1>2, KindsStay DEF ToolsetInv, Reserved, OneHolder, Unfinished, Tool!Prompt, Working, SpawnPlaces,
     UnspawnPlaces
<1>9. Whole'
  <2>1. SUFFICES ASSUME Tool!Prompt', ~broke' PROVE EnvironmentFits' /\ Accounted'
    BY DEF Whole
  <2>2. Tool!Prompt /\ ~broke /\ EnvironmentFits /\ Accounted
    BY <2>1, <1>1, <1>2 DEF ToolsetInv, Whole, Tool!Prompt
  <2>4. EnvironmentFits'
    BY <2>1, <2>2, <1>0, <1>1, <1>2, KindsStay DEF EnvironmentFits, Opens
  <2>5. Accounted'
    BY <2>1, <2>2, <1>0, <1>1, <1>2, KindsStay DEF Accounted, Opened, LeftMounted
  <2>6. QED
    BY <2>4, <2>5
<1>10. QED
  BY <1>4, <1>5, <1>6, <1>7, <1>8, <1>9 DEF ToolsetInv

\* The cleaning of a process begins.
LEMMA CleanBeginsKeeps ==
  ASSUME ToolsetInv, NEW o \in Operations, Tool!CleanBegins(o) PROVE ToolsetInv'
<1>0. ToolTypeOK /\ PlacesFit(o) /\ CleanAt(o) = "none" /\ KindOf(o) \in Tool!Processes
  BY DEF ToolsetInv, Tool!CleanBegins, Tool!Unlocked, OwnAt, CleanAt, KindOf, RunnerOf
<1>1. CleanMoves(o, IF IF KindOf(o) = "update" THEN spawner[o] ELSE did[o] THEN "unspawn" ELSE "release")
  BY <1>0, GoMoves DEF Tool!CleanBegins, OwnPlaces, CleanPlaces, Working, SpawnPlaces, UnspawnPlaces, KindOf, RunnerOf
<1>2. /\ UNCHANGED <<request, toolset, lock, users, did, holds, broke, misused>>
      /\ given' \in [Operations -> {"no", "yes", "late"}] /\ \A p \in Operations : p # o => given'[p] = given[p]
      /\ given'[o] = IF Tool!Preparing(o) THEN "late" ELSE given[o]
      /\ spawner' \in [Operations -> BOOLEAN] /\ \A p \in Operations : p # o => (spawner[p]' <=> spawner[p])
      /\ spawner[o]' => spawner[o]
      /\ OwnAt(o) \in {"ran", "failed"} \/ (given[o] = "yes" /\ OwnAt(o) # "running")
  BY <1>0 DEF Tool!CleanBegins, ToolTypeOK, OwnAt
<1>4. ToolTypeOK'
  BY <1>0, <1>1, <1>2 DEF ToolTypeOK, CleanMoves
<1>5. \A p \in Operations : PlacesFit(p)'
  BY <1>0, <1>1, <1>2, KindsStay DEF ToolsetInv, PlacesFit, CleanMoves, OwnPlaces, CleanPlaces, Working,
     SpawnPlaces, UnspawnPlaces, Tool!Preparing, Tool!Processes, Tool!Views, OwnAt
<1>6. Locked'
  BY <1>0, <1>1, <1>2, ThreadFacts DEF ToolsetInv, Locked, CleanMoves, LockPlaces
<1>7. Inhabited'
  BY <1>0, <1>1, <1>2, ThreadFacts DEF ToolsetInv, Inhabited, Locked, LockPlaces, CleanMoves
<1>8. Reserved'
  BY <1>0, <1>1, <1>2, KindsStay DEF ToolsetInv, Reserved, OneHolder, Unfinished, Tool!Prompt, CleanMoves, Working,
     SpawnPlaces, UnspawnPlaces
<1>9. Whole'
  <2>1. SUFFICES ASSUME Tool!Prompt', ~broke' PROVE EnvironmentFits' /\ Accounted'
    BY DEF Whole
  <2>2. Tool!Prompt /\ ~broke /\ EnvironmentFits /\ Accounted
    BY <2>1, <1>1, <1>2 DEF ToolsetInv, Whole, Tool!Prompt
  <2>3. PlacesFit(o) /\ ~Tool!Preparing(o)
    BY <2>2, <1>0, <2>1, <1>2 DEF Between, Working, SpawnPlaces, UnspawnPlaces, Opens, Tool!Prompt
  <2>4. EnvironmentFits'
    BY <2>1, <2>2, <2>3, <1>0, <1>1, <1>2, KindsStay DEF EnvironmentFits, CleanMoves, Opens
  <2>5. Accounted'
    BY <2>1, <2>2, <2>3, <1>0, <1>1, <1>2, KindsStay DEF Accounted, Opened, LeftMounted, CleanMoves, Tool!Preparing,
       OwnAt, PlacesFit, Tool!Processes, Tool!Views
  <2>6. QED
    BY <2>4, <2>5
<1>10. QED
  BY <1>4, <1>5, <1>6, <1>7, <1>8, <1>9 DEF ToolsetInv

\* The cleaning of a process releases the toolset.
LEMMA CleanReleasesKeeps ==
  ASSUME ToolsetInv, NEW o \in Operations, Tool!CleanReleases(o) PROVE ToolsetInv'
<1>0. /\ ToolTypeOK /\ PlacesFit(o) /\ CleanAt(o) \in {"release", "closed"} /\ KindOf(o) \in Tool!Processes
      /\ Tool!Prompt /\ KindOf(o) = "update" => holds[o]
  BY DEF ToolsetInv, Tool!CleanReleases, Tool!Unlocked, OwnAt, CleanAt, PlacesFit, UnspawnPlaces, Reserved,
     OneHolder, Unfinished, Tool!Prompt, Working, Sharing
<1>1. CleanMoves(o, "done")
  BY <1>0, GoMoves DEF Tool!CleanReleases, OwnPlaces, CleanPlaces, Working, SpawnPlaces, UnspawnPlaces
<1>2. /\ UNCHANGED <<request, lock, users, did, given, broke, misused>>
      /\ spawner' \in [Operations -> BOOLEAN] /\ \A p \in Operations : p # o => (spawner[p]' <=> spawner[p])
      /\ ~spawner[o]'
      /\ \/ /\ holds[o] \/ KindOf(o) = "update"
            /\ toolset' = [toolset EXCEPT !.reserved = FALSE] /\ holds' = [holds EXCEPT ![o] = FALSE]
         \/ toolset' = toolset /\ holds' = holds /\ ~holds[o]
  BY <1>0 DEF Tool!CleanReleases, ToolTypeOK, Tool!Release, KindOf, RunnerOf
<1>3. /\ toolset' \in Environments
      /\ toolset'.spawned = toolset.spawned /\ toolset'.inUse = toolset.inUse
      /\ toolset'.root = toolset.root /\ toolset'.work = toolset.work /\ toolset'.active = toolset.active
      /\ toolset'.lease = toolset.lease
      /\ holds' \in [Operations -> BOOLEAN] /\ \A p \in Operations : p # o => (holds[p]' <=> holds[p])
      /\ ~holds[o]' /\ (toolset'.reserved => toolset.reserved /\ ~holds[o]) /\ (toolset.reserved /\ ~toolset'.reserved => holds[o] \/ KindOf(o) = "update")
  <2>1. toolset \in Environments /\ holds \in [Operations -> BOOLEAN]
    BY <1>0 DEF ToolTypeOK
  <2>2. CASE /\ holds[o] \/ KindOf(o) = "update"
             /\ toolset' = [toolset EXCEPT !.reserved = FALSE] /\ holds' = [holds EXCEPT ![o] = FALSE]
    BY <2>1, <2>2 DEF Environments
  <2>3. CASE toolset' = toolset /\ holds' = holds /\ ~holds[o]
    BY <2>1, <2>3 DEF Environments
  <2>4. QED
    BY <1>2, <2>2, <2>3
<1>4. ToolTypeOK'
  BY <1>0, <1>1, <1>2, <1>3 DEF ToolTypeOK, CleanMoves
<1>5. \A p \in Operations : PlacesFit(p)'
  BY <1>0, <1>1, <1>2, KindsStay DEF ToolsetInv, PlacesFit, CleanMoves, OwnPlaces, CleanPlaces, Working,
     SpawnPlaces, UnspawnPlaces
<1>6. Locked'
  BY <1>0, <1>1, <1>2, ThreadFacts DEF ToolsetInv, Locked, CleanMoves, LockPlaces
<1>7. Inhabited'
  BY <1>0, <1>1, <1>2, <1>3, ThreadFacts DEF ToolsetInv, Inhabited, Locked, LockPlaces, CleanMoves
<1>8. Reserved'
  BY <1>0, <1>1, <1>2, <1>3, KindsStay DEF ToolsetInv, Reserved, OneHolder, Unfinished, Tool!Prompt, CleanMoves,
     Working, SpawnPlaces, UnspawnPlaces
<1>9. Whole'
  <2>1. SUFFICES ASSUME Tool!Prompt', ~broke' PROVE EnvironmentFits' /\ Accounted'
    BY DEF Whole
  <2>2. Tool!Prompt /\ ~broke /\ EnvironmentFits /\ Accounted
    BY <2>1, <1>1, <1>2 DEF ToolsetInv, Whole, Tool!Prompt
  <2>4. EnvironmentFits'
    BY <2>1, <2>2, <1>0, <1>1, <1>2, <1>3, KindsStay DEF EnvironmentFits, CleanMoves, Opens
  <2>5. Accounted'
    BY <2>1, <2>2, <1>0, <1>1, <1>2, <1>3, KindsStay DEF Accounted, Opened, LeftMounted, CleanMoves
  <2>6. QED
    BY <2>4, <2>5
<1>10. QED
  BY <1>4, <1>5, <1>6, <1>7, <1>8, <1>9 DEF ToolsetInv

\* The cleaning of a process failed: only an update still releases the toolset.
LEMMA CleanFailsKeeps ==
  ASSUME ToolsetInv, NEW o \in Operations, Tool!CleanFails(o) PROVE ToolsetInv'
<1>0. /\ ToolTypeOK /\ PlacesFit(o) /\ CleanAt(o) = "failed" /\ KindOf(o) \in Tool!Processes
      /\ Tool!Prompt => holds[o] /\ \A p \in Operations : holds[p] => p = o
  BY AtWork DEF ToolsetInv, Tool!CleanFails, Tool!Unlocked, OwnAt, CleanAt, PlacesFit, UnspawnPlaces, Cleaned
<1>1. CleanMoves(o, "done")
  BY <1>0, GoMoves DEF Tool!CleanFails, OwnPlaces, CleanPlaces, Working, SpawnPlaces, UnspawnPlaces
<1>2. /\ UNCHANGED <<request, lock, users, did, spawner, given, broke, misused>>
      /\ IF KindOf(o) = "update" THEN toolset' = [toolset EXCEPT !.reserved = FALSE] /\ holds' = [holds EXCEPT ![o] = FALSE]
         ELSE toolset' = toolset /\ holds' = holds
  BY <1>0 DEF Tool!CleanFails, Tool!Release, KindOf, RunnerOf
<1>3. /\ toolset' \in Environments
      /\ toolset'.spawned = toolset.spawned /\ toolset'.inUse = toolset.inUse
      /\ toolset'.root = toolset.root /\ toolset'.work = toolset.work /\ toolset'.active = toolset.active
      /\ toolset'.lease = toolset.lease
      /\ holds' \in [Operations -> BOOLEAN] /\ \A p \in Operations : p # o => (holds[p]' <=> holds[p])
      /\ IF KindOf(o) = "update" THEN ~holds[o]' /\ ~toolset'.reserved
         ELSE (holds[o]' <=> holds[o]) /\ toolset'.reserved = toolset.reserved
  <2>1. toolset \in Environments /\ holds \in [Operations -> BOOLEAN]
    BY <1>0 DEF ToolTypeOK
  <2>2. QED
    BY <1>2, <2>1 DEF Environments
<1>4. ToolTypeOK'
  BY <1>0, <1>1, <1>2, <1>3 DEF ToolTypeOK, CleanMoves
<1>5. \A p \in Operations : PlacesFit(p)'
  BY <1>0, <1>1, <1>2, KindsStay DEF ToolsetInv, PlacesFit, CleanMoves, OwnPlaces, CleanPlaces, Working,
     SpawnPlaces, UnspawnPlaces
<1>6. Locked'
  BY <1>0, <1>1, <1>2, ThreadFacts DEF ToolsetInv, Locked, CleanMoves, LockPlaces
<1>7. Inhabited'
  BY <1>0, <1>1, <1>2, <1>3, ThreadFacts DEF ToolsetInv, Inhabited, Locked, LockPlaces, CleanMoves
<1>8. Reserved'
  BY <1>0, <1>1, <1>2, <1>3, KindsStay DEF ToolsetInv, Reserved, OneHolder, Unfinished, Tool!Prompt, CleanMoves,
     Working, SpawnPlaces, UnspawnPlaces
<1>9. Whole'
  <2>1. SUFFICES ASSUME Tool!Prompt', ~broke' PROVE EnvironmentFits' /\ Accounted'
    BY DEF Whole
  <2>2. Tool!Prompt /\ ~broke /\ EnvironmentFits /\ Accounted
    BY <2>1, <1>1, <1>2 DEF ToolsetInv, Whole, Tool!Prompt
  <2>3. KindOf(o) = "update"
    BY <2>2, <1>0 DEF Between, Working, SpawnPlaces, UnspawnPlaces, Opens, Accounted, Tool!Processes, Sharing
  <2>4. EnvironmentFits'
    BY <2>1, <2>2, <2>3, <1>0, <1>1, <1>2, <1>3, KindsStay DEF EnvironmentFits, CleanMoves, Opens
  <2>5. Accounted'
    BY <2>1, <2>2, <2>3, <1>0, <1>1, <1>2, <1>3, KindsStay DEF Accounted, Opened, LeftMounted, CleanMoves
  <2>6. QED
    BY <2>4, <2>5
<1>10. QED
  BY <1>4, <1>5, <1>6, <1>7, <1>8, <1>9 DEF ToolsetInv
-----------------------------------------------------------------------------
(* Any step, and what the invariant gives.                                 *)

\* A toolset at the start of the app fits the invariant.
LEMMA ToolsetBegins == ASSUME Tool!ToolsetAssumption, Tool!Init PROVE ToolsetInv
<1>1. ToolTypeOK
  <2>1. toolset \in Environments
    BY DEF Tool!Init, Tool!Closed, Environments
  <2>2. pc \in [Tool!Threads -> OwnPlaces \cup CleanPlaces]
    BY DEF Tool!Init, OwnPlaces, CleanPlaces
  <2>3. QED
    BY <2>1, <2>2 DEF Tool!Init, ToolTypeOK, Requests
<1>2. /\ \A o \in Operations : /\ OwnAt(o) = "idle" /\ CleanAt(o) = "none"
                               /\ KindOf(o) \in Kinds /\ (KindOf(o) \notin {"build", "snapshot"} => RunnerOf(o) = "vm")
                               /\ ~did[o] /\ ~holds[o] /\ ~spawner[o] /\ given[o] = "no"
      /\ ~toolset.spawned /\ ~toolset.inUse /\ ~toolset.root /\ ~toolset.work /\ ~toolset.reserved
      /\ toolset.lease = "none" /\ users = 0 /\ lock = <<>>
  BY <1>1, ThreadFacts, RequestFacts DEF Tool!Init, Tool!Closed, OwnAt, CleanAt, Tool!Own, Tool!Clean, Tool!Runner,
     KindOf, RunnerOf
<1>3. \A o \in Operations : PlacesFit(o)
  BY <1>2 DEF PlacesFit, Tool!ToolsetAssumption, Sharing, OwnPlaces, CleanPlaces, UnspawnPlaces
<1>4. Locked /\ Inhabited /\ Reserved
  BY <1>2, ThreadFacts DEF Locked, LockPlaces, Inhabited, Reserved, OneHolder, Unfinished, Working, SpawnPlaces,
     UnspawnPlaces
<1>5. Whole
  BY <1>2 DEF Whole, EnvironmentFits, Opens, Accounted, Opened
<1>6. QED
  BY <1>1, <1>3, <1>4, <1>5 DEF ToolsetInv

\* Nothing changes.
LEMMA StutterKeeps == ASSUME ToolsetInv, UNCHANGED toolVars PROVE ToolsetInv'
BY DEF ToolsetInv, toolVars, ToolTypeOK, PlacesFit, OwnAt, CleanAt, Tool!Kind, Tool!Runner, Locked, Inhabited,
   Reserved, Tool!Prompt, OneHolder,
       Unfinished, Whole, EnvironmentFits, Accounted, Opened, LeftMounted, KindOf, RunnerOf

\* Every step keeps the invariant of the toolset.
LEMMA ToolsetKeeps == ASSUME ToolsetInv, Tool!Next \/ UNCHANGED toolVars PROVE ToolsetInv'
<1>1. ASSUME NEW th \in Tool!Threads, Tool!Spawn(th) \/ Tool!Unspawn(th) \/ Tool!Command(th) PROVE ToolsetInv'
  <2>1. PICK o \in Operations : th = Tool!Own(o) \/ th = Tool!Clean(o)
    BY ThreadFacts
  <2>2. CASE th = Tool!Own(o)
    BY <1>1, <2>2, SpawnBeginsKeeps, SpawnHasNoWorkspaceKeeps, SpawnEntersKeeps, SpawnMountsKeeps, SpawnHasNoRootKeeps,
       SpawnBindsKeeps, SpawnTestsKeeps, SpawnUnwindsKeeps, OwnUnspawnEntersKeeps, OwnUnspawnEndsKeeps,
       CommandBeginsKeeps, CommandEndsKeeps DEF Tool!Spawn, Tool!Unspawn, Tool!Command
  <2>3. CASE th = Tool!Clean(o)
    <3>1. CleanAt(o) \in CleanPlaces
      BY DEF ToolsetInv, PlacesFit
    <3>2. Tool!Unspawn(Tool!Clean(o))
      BY <1>1, <2>3, <3>1 DEF Tool!Spawn, Tool!Command, CleanAt, CleanPlaces, UnspawnPlaces, Tool!SpawnBegins,
         Tool!SpawnHasNoWorkspace,
         Tool!SpawnEnters, Tool!SpawnMounts, Tool!SpawnHasNoRoot, Tool!SpawnBinds, Tool!SpawnTests,
         Tool!SpawnUnwinds, Tool!CommandBegins, Tool!CommandEnds
    <3>3. QED
      BY <3>2, CleanUnspawnEntersKeeps, CleanUnspawnEndsKeeps DEF Tool!Unspawn
  <2>4. QED
    BY <2>1, <2>2, <2>3
<1>2. ASSUME NEW o \in Operations, Tool!View(o) \/ Tool!Kernel(o) \/ Tool!Stage(o) \/ Tool!Cleanup(o) PROVE ToolsetInv'
  BY <1>2, PressKeeps, ViewReservesKeeps, ViewReleasesKeeps, KernelReservesKeeps, KernelUnspawnsKeeps,
     KernelReleasesKeeps,
     ProcessStartsKeeps, ProcessReservesKeeps, UpdateStartsKeeps, ChooseKeeps, SpawnedKeeps, CancelKeeps, CleanBeginsKeeps,
     CleanReleasesKeeps, CleanFailsKeeps DEF Tool!View, Tool!Kernel, Tool!Stage, Tool!Cleanup
<1>3. QED
  BY <1>1, <1>2, StutterKeeps DEF Tool!Next

\* What the invariant says of a toolset on which nobody works.
LEMMA ToolsetGives == ASSUME ToolsetInv PROVE Tool!Exclusive /\ Tool!EnvironmentWhole /\ Tool!NothingHeld
<1>1. Tool!Exclusive
  <2>1. Tool!Prompt => /\ toolset.reserved <=> \E o \in Operations : holds[o]
                       /\ \A o, p \in Operations : holds[o] /\ holds[p] => o = p
    BY DEF ToolsetInv, Reserved, OneHolder
  <2>2. toolset.reserved \in BOOLEAN
    BY DEF ToolsetInv, ToolTypeOK, Environments
  <2>3. QED
    BY <2>1, <2>2 DEF Tool!Exclusive
<1>2. Tool!CommandsInside
  BY DEF ToolsetInv, Inhabited, Tool!CommandsInside
<1>3. Tool!MountedWhileSpawned
  <2>1. SUFFICES ASSUME Tool!Prompt, ~broke, \A th \in Tool!Threads : pc[th] \notin Tool!Inside
        PROVE  /\ toolset.root = toolset.spawned /\ toolset.work = toolset.spawned
               /\ users = (IF toolset.spawned /\ toolset.active = "vm" THEN 1 ELSE 0)
    BY DEF Tool!MountedWhileSpawned
  <2>2. \A o \in Operations : OwnAt(o) \notin Tool!Inside
    BY <2>1, ThreadFacts DEF OwnAt
  <2>3. EnvironmentFits /\ ToolTypeOK /\ (toolset.spawned => toolset.root /\ toolset.work)
    BY <2>1 DEF ToolsetInv, Whole, Inhabited
  <2>4. (toolset.root <=> toolset.spawned) /\ (toolset.work <=> toolset.spawned)
    BY <2>2, <2>3 DEF EnvironmentFits, Tool!Inside
  <2>5. users = (IF toolset.spawned /\ toolset.active = "vm" THEN 1 ELSE 0)
    BY <2>2, <2>3 DEF EnvironmentFits, Tool!Inside, Opens
  <2>6. toolset.root \in BOOLEAN /\ toolset.work \in BOOLEAN /\ toolset.spawned \in BOOLEAN
    BY <2>3 DEF ToolTypeOK, Environments
  <2>7. QED
    BY <2>4, <2>5, <2>6
<1>4. Tool!NothingHeld
  <2>1. SUFFICES ASSUME Tool!Prompt, ~broke
        PROVE  /\ \A o \in Operations : Tool!Ended(o) => ~holds[o] /\ (spawner[o] => KindOf(o) = "update")
               /\ toolset.spawned /\ ~toolset.reserved =>
                    \E o \in Operations : KindOf(o) = "mount" /\ pc[Tool!Own(o)] = "done"
    BY DEF Tool!NothingHeld, KindOf, RunnerOf
  <2>2. OneHolder /\ Accounted
    BY <2>1 DEF ToolsetInv, Reserved, Whole
  <2>3. ASSUME NEW o \in Operations, Tool!Ended(o) PROVE ~holds[o] /\ (spawner[o] => KindOf(o) = "update")
    <3>1. OwnAt(o) = "done" \/ CleanAt(o) = "done"
      BY <2>3 DEF Tool!Ended, OwnAt, CleanAt
    <3>2. PlacesFit(o)
      BY DEF ToolsetInv
    <3>3. QED
      BY <2>2, <3>1, <3>2 DEF OneHolder, Accounted, PlacesFit, Tool!Processes, Sharing
  <2>4. ASSUME toolset.spawned, ~toolset.reserved PROVE LeftMounted
    BY <2>2, <2>4 DEF OneHolder, Accounted, Opened
  <2>5. QED
    BY <2>3, <2>4 DEF LeftMounted, OwnAt
<1>5. QED
  BY <1>1, <1>2, <1>3, <1>4 DEF Tool!EnvironmentWhole

-----------------------------------------------------------------------------
(* The inductive invariant of the snapshots.                               *)

\* Snapshots with a name.
Items == {s \in [name : Snapshots!Names, date : Nat, from_file : BOOLEAN] :
            s.date >= DateInside[s.name] /\ (s.from_file => s.name \in Imports)}
OpRecords == [kind : Snapshots!OperationKinds, at : Snapshots!Places, target : Snapshots!Names \cup {Snapshots!None}, snapshot : Items \cup {Snapshots!NoSnapshot},
              reused : BOOLEAN, store : BOOLEAN]
Projects == [id : Snapshots!Names \cup {Snapshots!None}, latest : BOOLEAN]
StoreTypeOK ==
  /\ files \in [Snapshots!Names -> {"none", "partial", "whole"}]
  /\ written \in [Snapshots!Names -> Nat] /\ IsFiniteSet({m \in Snapshots!Names : written[m] > 0})
  /\ markers \subseteq Imports /\ listed \subseteq Items /\ project \in Projects /\ commit \in Commits
  /\ auto_clean \in BOOLEAN /\ event_bus \in BOOLEAN /\ scheduled \in BOOLEAN
  /\ adds \subseteq Items /\ stores \subseteq Snapshots!Ops /\ ops \in [Snapshots!Ops -> OpRecords]

\* What an operation has at each place.
Unfetched == {"lookup", "generate", "writing", "copy", "copying", "orphan"}
OpFits(op) ==
  /\ op.at \in {"lookup", "generate", "writing"} => op.kind \in {"generate", "build"}
  /\ op.at = "lookup" => op.target = Snapshots!None
  /\ op.at \in {"generate", "writing"} => op.target \in Commits
  /\ op.at \in {"copy", "copying", "orphan"} => op.kind = "import" /\ op.target \in Imports
  /\ op.at \in {"permissions", "analyze", "done"} => op.kind \in {"generate", "import"} /\ op.snapshot.name # Snapshots!None
  /\ op.at = "using" => op.kind \in {"build", "kernel"} /\ op.snapshot.name # Snapshots!None
  /\ op.at \in Unfetched => op.snapshot = Snapshots!NoSnapshot /\ ~op.reused
  /\ op.kind \in {"generate", "import"} /\ op.snapshot.name # Snapshots!None /\ ~op.reused => op.target = op.snapshot.name
  /\ op.kind = "kernel" \/ op.reused => op.target = Snapshots!None
  /\ op.kind \in {"generate", "build"} => op.target \in Commits \cup {Snapshots!None} \cup disturbed
  /\ op.store => op.kind = "build"
OpsFit == \A o \in Snapshots!Ops : OpFits(ops[o]) /\ (o \in stores => ops[o].at = "using" /\ ops[o].kind = "build")

\* The file of an undisturbed name is made by one operation, which
\* nobody else relies on before it is there.
Intact(n) == files[n] = "whole" \/ (n \in torn /\ files[n] = "partial")
IsListed(n) == \E s \in listed : s.name = n
IsAdded(n) == \E s \in adds : s.name = n
Makes(o, n) ==
  /\ ops[o].target = n
  /\ ops[o].at \in {"generate", "writing", "copying", "orphan"} \/ (Snapshots!Running(o) /\ ops[o].snapshot.name = n)
Kept(n) ==
  /\ \A o, j \in Snapshots!Ops : Makes(o, n) /\ Makes(j, n) => o = j
  /\ \A o \in Snapshots!Ops : Makes(o, n) /\ ops[o].at # "using" => ~IsListed(n) /\ ~IsAdded(n)
  /\ \A o \in Snapshots!Ops : Snapshots!Running(o) /\ ops[o].kind # "kernel" /\ ops[o].snapshot.name = n =>
                      Intact(n) /\ (ops[o].target = n \/ IsListed(n))
  /\ \A o \in Snapshots!Ops : ops[o].at \in {"copying", "orphan"} /\ ops[o].target = n => files[n] = "partial"
  /\ \A o \in Snapshots!Ops : ops[o].at = "using" /\ ops[o].target = n =>
                      ops[o].snapshot.name = n /\ (IsListed(n) \/ IsAdded(n))
  /\ IsListed(n) \/ IsAdded(n) => Intact(n)
  /\ IsAdded(n) => ~IsListed(n)
  /\ \A s, v \in adds : s.name = n /\ v.name = n => s = v
AllKept == \A n \in Snapshots!Names : n \notin disturbed => Kept(n)

Unique == \A s, v \in listed : s.name = v.name => s = v
Selected == project.latest \/ IsListed(project.id) \/ project.id \in disturbed

StoreInv == StoreTypeOK /\ OpsFit /\ AllKept /\ Unique /\ Selected /\ Snapshots!CleanSettles

-----------------------------------------------------------------------------
(* Operations, and what cleaning would take.                               *)

\* Both modules count in the same way.
LEMMA SameCardinality == ASSUME NEW S PROVE Snapshots!Cardinality(S) = Cardinality(S)
BY Zenon DEF Cardinality, Snapshots!Cardinality

\* Names, and the dates in files
LEMMA NamesArePositive ==
  ASSUME Snapshots!SnapshotAssumption
  PROVE  /\ Snapshots!None \notin Snapshots!Names /\ Commits \cap Imports = {} /\ Snapshots!None \notin Commits
         /\ Snapshots!None \notin Imports
         /\ \A n \in Snapshots!Names : n \in Nat /\ DateInside[n] \in 0 .. 10
BY DEF Snapshots!SnapshotAssumption, Snapshots!Names, Snapshots!None

\* None names no snapshot.
LEMMA NoneIsNoName == ASSUME Snapshots!SnapshotAssumption PROVE Snapshots!None \notin Snapshots!Names
BY DEF Snapshots!SnapshotAssumption, Snapshots!Names, Snapshots!None

\* An operation that has not fetched a snapshot has none.
LEMMA UnfetchedHasNone == ASSUME OpsFit, NEW o \in Snapshots!Ops, ops[o].at \in Unfetched PROVE ops[o].snapshot.name = Snapshots!None
<1>1. ops[o].snapshot = Snapshots!NoSnapshot
  BY DEF OpsFit, OpFits
<1>2. QED
  BY <1>1 DEF Snapshots!NoSnapshot, Snapshots!Snapshot

\* An operation that was not begun fits.
LEMMA NoOpFits == Snapshots!NoOp \in OpRecords /\ OpFits(Snapshots!NoOp)
BY DEF Snapshots!NoOp, OpRecords, Snapshots!OperationKinds, Snapshots!Places, Snapshots!None, Snapshots!NoSnapshot,
   OpFits, Unfetched, Snapshots!Snapshot

\* One operation changes.
OpChanges(o, op) == ops' \in [Snapshots!Ops -> OpRecords] /\ ops'[o] = op /\ \A j \in Snapshots!Ops : j # o => ops'[j] = ops[j]
OpGoes(o, place) ==
  /\ ops' \in [Snapshots!Ops -> OpRecords] /\ \A j \in Snapshots!Ops : j # o => ops'[j] = ops[j]
  /\ ops'[o].at = place /\ ops'[o].kind = ops[o].kind /\ ops'[o].target = ops[o].target
  /\ ops'[o].snapshot = ops[o].snapshot
  /\ ops'[o].reused = ops[o].reused /\ ops'[o].store = ops[o].store
\* An operation goes to another place with all it has.
LEMMA ToGoes ==
  ASSUME StoreTypeOK, NEW o \in Snapshots!Ops, NEW place \in Snapshots!Places,
         Snapshots!To(o, place) PROVE OpGoes(o, place)
<1>1. ops[o] \in OpRecords /\ ops' = [ops EXCEPT ![o] = [ops[o] EXCEPT !.at = place]]
  BY DEF StoreTypeOK, Snapshots!To
<1>2. [ops[o] EXCEPT !.at = place] \in OpRecords
  BY <1>1 DEF OpRecords
<1>3. QED
  BY <1>1, <1>2 DEF StoreTypeOK, OpGoes, OpRecords

\* What is not used any more does not grow while the list stays and all that
\* is used is used on.
LEMMA UnusedShrinks ==
  ASSUME StoreTypeOK, listed' = listed, project' = project,
         \A o \in Snapshots!Ops, n \in Snapshots!Names : Snapshots!Uses(o, n) => Snapshots!Uses(o, n)'
  PROVE  Snapshots!unused_snapshots' \subseteq Snapshots!unused_snapshots
<1>1. Snapshots!Newest(listed)' = Snapshots!Newest(listed) /\ Snapshots!ProjectSnapshot' = Snapshots!ProjectSnapshot
  BY DEF Snapshots!Newest, Snapshots!ProjectSnapshot, Snapshots!Named
<1>2. \A s \in listed : s.name \in Snapshots!Names
  BY DEF StoreTypeOK, Items
<1>3. QED
  BY <1>1, <1>2 DEF Snapshots!unused_snapshots

\* What is in the list, or is queued for it, has a name.
LEMMA ListedNames == ASSUME StoreTypeOK PROVE \A s \in listed \cup adds : s.name \in Snapshots!Names /\ s \in Items
BY DEF StoreTypeOK, Items

\* The time of a file is counted by the files there are.
LEMMA WriteTime ==
  ASSUME StoreTypeOK, NEW n \in Snapshots!Names, Snapshots!Write(n)
  PROVE  /\ written' \in [Snapshots!Names -> Nat] /\ IsFiniteSet({m \in Snapshots!Names : written'[m] > 0})
         /\ files' = [files EXCEPT ![n] = "partial"]
<1> DEFINE Timed == {m \in Snapshots!Names : written[m] > 0}
<1>1. Cardinality(Timed) \in Nat
  BY FS_CardinalityType DEF StoreTypeOK
<1>2. written' = [written EXCEPT ![n] = 1 + Cardinality(Timed)] /\ files' = [files EXCEPT ![n] = "partial"]
  BY SameCardinality DEF Snapshots!Write
<1>3. written' \in [Snapshots!Names -> Nat]
  <2> HIDE DEF Timed
  <2>1. QED
    BY <1>1, <1>2 DEF StoreTypeOK
<1>4. IsFiniteSet(Timed \cup {n})
  BY FS_AddElement DEF StoreTypeOK
<1>5. {m \in Snapshots!Names : written'[m] > 0} \subseteq Timed \cup {n}
  BY <1>2 DEF StoreTypeOK
<1>6. QED
  BY <1>2, <1>3, <1>4, <1>5, FS_Subset

\* Nobody has the file that an operation makes before it is there.
LEMMA MakerAlone ==
  ASSUME AllKept, NEW n \in Snapshots!Names, n \notin disturbed, NEW o \in Snapshots!Ops, Makes(o, n), ops[o].at # "using"
  PROVE  /\ ~IsListed(n) /\ ~IsAdded(n)
         /\ \A j \in Snapshots!Ops : j # o => /\ ~Makes(j, n)
                                              /\ Snapshots!Running(j) /\ ops[j].kind # "kernel" => ops[j].snapshot.name # n
<1>1. Kept(n)
  BY DEF AllKept
<1>2. QED
  BY <1>1 DEF Kept, Makes

\* add_snapshot() replaces what has the same name.
LEMMA AddLists ==
  ASSUME StoreTypeOK, Unique, NEW s \in Items, Snapshots!add_snapshot(s)
  PROVE  /\ listed' \subseteq Items /\ markers' \subseteq Imports /\ event_bus' /\ Unique'
         /\ \A n \in Snapshots!Names \cup {Snapshots!None} : IsListed(n)' <=> IsListed(n) \/ n = s.name
<1>1. listed' = {v \in listed : v.name # s.name} \cup {s} /\ markers' = Snapshots!Marked(listed') /\ event_bus'
  BY DEF Snapshots!add_snapshot
<1>2. listed' \subseteq Items /\ Unique'
  BY <1>1 DEF StoreTypeOK, Unique
<1>3. \A n \in Snapshots!Names \cup {Snapshots!None} : IsListed(n)' <=> IsListed(n) \/ n = s.name
  BY <1>1 DEF IsListed
<1>4. \A v \in listed' : v.from_file => v.name \in Imports
  BY <1>2 DEF Items
<1>5. markers' \subseteq Imports
  BY <1>1, <1>4 DEF StoreTypeOK, Snapshots!Marked
<1>6. QED
  BY <1>1, <1>2, <1>3, <1>5

\* fetch, with what is found or what was made
FetchGoes(o, s, reused) ==
  /\ ops' \in [Snapshots!Ops -> OpRecords] /\ \A j \in Snapshots!Ops : j # o => ops'[j] = ops[j]
  /\ ops'[o].at = Snapshots!AfterFetch(o) /\ ops'[o].kind = ops[o].kind /\ ops'[o].target = ops[o].target
  /\ ops'[o].snapshot = s /\ ops'[o].reused = reused /\ ops'[o].store = ops[o].store
  /\ stores' = IF ops[o].store THEN stores \cup {o} ELSE stores
\* An operation goes on with a snapshot it fetched.
LEMMA FetchedGoes ==
  ASSUME StoreTypeOK, NEW o \in Snapshots!Ops, NEW s \in Items, NEW reused \in BOOLEAN, Snapshots!Fetched(o, s, reused)
  PROVE  FetchGoes(o, s, reused)
<1>1. ops[o] \in OpRecords /\ Snapshots!AfterFetch(o) \in Snapshots!Places
  BY DEF StoreTypeOK, Snapshots!AfterFetch, Snapshots!Places
<1>2. ops' = [ops EXCEPT ![o] = [ops[o] EXCEPT !.at = Snapshots!AfterFetch(o), !.snapshot = s, !.reused = reused]]
  BY DEF Snapshots!Fetched
<1> HIDE DEF Snapshots!AfterFetch
<1>3. [ops[o] EXCEPT !.at = Snapshots!AfterFetch(o), !.snapshot = s, !.reused = reused] \in OpRecords
  BY <1>1 DEF OpRecords
<1>4. stores' = IF ops[o].store THEN stores \cup {o} ELSE stores
  BY DEF Snapshots!Fetched
<1>5. QED
  BY <1>1, <1>2, <1>3, <1>4 DEF StoreTypeOK, FetchGoes, OpRecords

\* The file of an operation is whole.
LEMMA FinishedFile ==
  ASSUME StoreTypeOK, NEW n \in Snapshots!Names, Snapshots!Finished(n)
  PROVE  /\ files' \in [Snapshots!Names -> {"none", "partial", "whole"}] /\ files'[n] = "whole" /\ written' = written
         /\ \A m \in Snapshots!Names : m # n => files'[m] = files[m]
BY DEF StoreTypeOK, Snapshots!Finished

\* Snapshots as they are after their file was written, and with their date.
LEMMA TimedItem ==
  ASSUME Snapshots!SnapshotAssumption, StoreTypeOK, NEW n \in Snapshots!Names, NEW from_file \in BOOLEAN,
         from_file => n \in Imports
  PROVE  Snapshots!Snapshot(n, 10 + written[n], from_file) \in Items /\ Snapshots!Snapshot(n, 10 + written[n], from_file).name = n
<1>1. written[n] \in Nat /\ DateInside[n] \in 0 .. 10
  BY NamesArePositive DEF StoreTypeOK
<1>2. 10 + written[n] \in Nat /\ 10 + written[n] >= DateInside[n]
  BY <1>1
<1>3. QED
  BY <1>2 DEF Snapshots!Snapshot, Items
\* A snapshot with the date that is in its file
LEMMA DatedItem ==
  ASSUME Snapshots!SnapshotAssumption, NEW n \in Snapshots!Names
  PROVE  Snapshots!Snapshot(n, DateInside[n], FALSE) \in Items /\ Snapshots!Snapshot(n, DateInside[n], FALSE).name = n
<1>1. DateInside[n] \in Nat
  BY NamesArePositive
<1>2. QED
  BY <1>1 DEF Snapshots!Snapshot, Items

\* cleanup() removes the file that its own operation made.
LEMMA CleanupRemoves ==
  ASSUME StoreTypeOK, NEW o \in Snapshots!Ops, OpFits(ops[o]), Snapshots!Running(o),
         ops[o].kind \in {"generate", "import"}, Snapshots!Cleanup(o)
  PROVE  /\ files' \in [Snapshots!Names -> {"none", "partial", "whole"}]
         /\ \/ files' = files
            \/ /\ ops[o].snapshot.name \in Snapshots!Names /\ Makes(o, ops[o].snapshot.name) /\ ops[o].at # "using"
               /\ files'[ops[o].snapshot.name] = "none"
               /\ \A n \in Snapshots!Names : n # ops[o].snapshot.name => files'[n] = files[n]
<1>1. CASE files' = files
  BY <1>1 DEF StoreTypeOK
<1>2. CASE files' # files
  <2>1. /\ ops[o].snapshot.name # Snapshots!None /\ ~ops[o].reused
        /\ files' = [files EXCEPT ![ops[o].snapshot.name] = "none"]
    BY <1>2 DEF Snapshots!Cleanup
  <2>2. ops[o].target = ops[o].snapshot.name /\ ops[o].at # "using"
    BY <2>1 DEF OpFits
  <2>3. ops[o].snapshot.name \in Snapshots!Names
    BY <2>1, <2>2 DEF StoreTypeOK, OpRecords
  <2>4. QED
    BY <2>1, <2>2, <2>3 DEF StoreTypeOK, Makes
<1>3. QED
  BY <1>1, <1>2

\* What an operation has is a snapshot when it has a name.
LEMMA NamedItem ==
  ASSUME StoreTypeOK, NEW o \in Snapshots!Ops, ops[o].snapshot.name # Snapshots!None
  PROVE  ops[o].snapshot \in Items /\ ops[o].snapshot.name \in Snapshots!Names
<1>1. Snapshots!NoSnapshot.name = Snapshots!None
  BY DEF Snapshots!NoSnapshot, Snapshots!Snapshot
<1>2. ops[o].snapshot \in Items \cup {Snapshots!NoSnapshot}
  BY DEF StoreTypeOK, OpRecords
<1>3. QED
  BY <1>1, <1>2 DEF Items

\* Remove() takes the files and the markers with the snapshots.
LEMMA RemoveTakes ==
  ASSUME StoreTypeOK, NEW S, S \subseteq listed, Snapshots!Remove(S)
  PROVE  /\ files' \in [Snapshots!Names -> {"none", "partial", "whole"}] /\ markers' \subseteq Imports
         /\ written' = written
         /\ listed' = listed \ S /\ (event_bus' <=> event_bus \/ S # {}) /\ event_bus' \in BOOLEAN
         /\ \A n \in Snapshots!Names : files'[n] = files[n] \/ \E s \in S : s.name = n
<1>1. markers' \subseteq Snapshots!Marked(listed \ S) /\ listed' = listed \ S /\ written' = written /\ event_bus' = (event_bus \/ S # {})
  BY DEF Snapshots!Remove
<1>2. Snapshots!Marked(listed \ S) \subseteq Imports
  BY DEF StoreTypeOK, Snapshots!Marked, Items
<1>3. files' = [n \in Snapshots!Names |-> IF n \in {s.name : s \in S} THEN "none" ELSE files[n]]
  BY DEF Snapshots!Remove
<1>4. files' \in [Snapshots!Names -> {"none", "partial", "whole"}] /\ \A n \in Snapshots!Names : files'[n] = files[n] \/ \E s \in S : s.name = n
  BY <1>3 DEF StoreTypeOK
<1>5. event_bus' \in BOOLEAN /\ (event_bus' <=> event_bus \/ S # {})
  BY <1>1 DEF StoreTypeOK
<1>6. QED
  BY <1>1, <1>2, <1>4, <1>5

\* catalyst begins to write the file.
LEMMA CatalystBeginsKeeps ==
  ASSUME Snapshots!SnapshotAssumption, StoreInv, NEW o \in Snapshots!Ops, Snapshots!CatalystBegins(o) PROVE StoreInv'
<1>0. /\ StoreTypeOK /\ OpsFit /\ AllKept /\ Unique /\ Selected /\ Snapshots!CleanSettles
      /\ ops[o].at = "generate" /\ ops[o].target \in Snapshots!Names /\ ops[o].snapshot.name = Snapshots!None
  BY UnfetchedHasNone DEF StoreInv, Snapshots!CatalystBegins, Snapshots!At, OpsFit, OpFits, Unfetched, Snapshots!Names
<1>1. /\ OpGoes(o, "writing")
      /\ Snapshots!Write(ops[o].target)
      /\ UNCHANGED <<markers, listed, project, auto_clean, choices, event_bus, scheduled, adds, stores, commit,
                     restarts, disturbed, torn>>
  BY <1>0, ToGoes DEF Snapshots!CatalystBegins, Snapshots!Places, Snapshots!user, Snapshots!queue, Snapshots!world
<1>2. /\ files' \in [Snapshots!Names -> {"none", "partial", "whole"}] /\ files'[ops[o].target] = "partial"
      /\ \A n \in Snapshots!Names : n # ops[o].target => files'[n] = files[n]
      /\ written' \in [Snapshots!Names -> Nat] /\ IsFiniteSet({m \in Snapshots!Names : written[m] > 0}')
  BY <1>0, <1>1, WriteTime DEF StoreTypeOK, Snapshots!Write
<1>3. StoreTypeOK'
  BY <1>0, <1>1, <1>2 DEF StoreTypeOK, OpGoes, OpChanges
<1>4. OpsFit'
  BY <1>0, <1>1, <1>2 DEF OpsFit, OpFits, Unfetched, OpGoes, OpChanges
<1>5. AllKept'
  <2>1. SUFFICES ASSUME NEW n \in Snapshots!Names, n \notin disturbed' PROVE Kept(n)'
    BY DEF AllKept
  <2>2. Kept(n) /\ n \notin disturbed
    BY <2>1, <1>0, <1>1 DEF AllKept
  <2>3. n = ops[o].target =>
           /\ ~IsListed(n) /\ ~IsAdded(n)
           /\ \A j \in Snapshots!Ops : j # o => ~Makes(j, n) /\ (Snapshots!Running(j) /\ ops[j].kind # "kernel" => ops[j].snapshot.name # n)
    BY <2>2, <1>0, MakerAlone DEF Makes, Snapshots!Running
  <2>9. QED
    BY <2>1, <2>2, <2>3, <1>0, <1>1, <1>2, NoneIsNoName DEF Kept, Makes, Snapshots!Running, Intact, IsListed,
       IsAdded, OpGoes, OpChanges
<1>6. Unique'
  BY <1>0, <1>1, <1>2 DEF Unique
<1>7. Selected'
  BY <1>0, <1>1, <1>2 DEF Selected, IsListed
<1>8. Snapshots!CleanSettles'
  BY <1>0, <1>1, <1>2, UnusedShrinks, NamesArePositive DEF Snapshots!CleanSettles, Snapshots!Uses,
     Snapshots!Running, OpsFit, OpFits, Unfetched, Snapshots!NoSnapshot, Snapshots!Snapshot, OpGoes, OpChanges
<1>9. QED
  BY <1>3, <1>4, <1>5, <1>6, <1>7, <1>8 DEF StoreInv

\* An operation is begun, with whatever it was given.
LEMMA BeginKeeps ==
  ASSUME Snapshots!SnapshotAssumption, StoreInv, NEW o \in Snapshots!Ops, NEW op \in OpRecords, OpFits(op),
         op.at \in {"lookup", "copy", "using"},
         op.at = "using" => op.target = Snapshots!None /\ (op.kind = "build" => IsListed(op.snapshot.name)),
         Snapshots!Begin(o, op) PROVE StoreInv'
<1>0. /\ StoreTypeOK /\ OpsFit /\ AllKept /\ Unique /\ Selected /\ Snapshots!CleanSettles
      /\ ops[o].at = "none" /\ o \notin stores
  BY  DEF StoreInv, Snapshots!Begin, Snapshots!At, OpsFit
<1>1. /\ OpChanges(o, op) /\ event_bus'
      /\ UNCHANGED <<files, written, markers, listed, project, auto_clean, choices, scheduled, adds, stores, commit,
                     restarts, disturbed, torn>>
  BY <1>0 DEF Snapshots!Begin, Snapshots!disk, Snapshots!user, Snapshots!queue, Snapshots!world, StoreTypeOK, OpChanges
<1>2. /\ op.at # "using" => op.snapshot.name = Snapshots!None
      /\ op.at = "using" /\ op.kind # "kernel" => IsListed(op.snapshot.name)
  BY DEF OpFits, Unfetched, Snapshots!NoSnapshot, Snapshots!Snapshot
<1>3. StoreTypeOK'
  BY <1>0, <1>1, <1>2 DEF StoreTypeOK, OpGoes, OpChanges
<1>4. OpsFit'
  BY <1>0, <1>1, <1>2 DEF OpsFit, OpFits, Unfetched, OpGoes, OpChanges
<1>5. AllKept'
  <2>1. SUFFICES ASSUME NEW n \in Snapshots!Names, n \notin disturbed' PROVE Kept(n)'
    BY DEF AllKept
  <2>2. Kept(n) /\ n \notin disturbed
    BY <2>1, <1>0, <1>1 DEF AllKept
  <2>9. QED
    BY <2>1, <2>2, <1>0, <1>1, <1>2, NoneIsNoName DEF Kept, Makes, Snapshots!Running, Intact, IsListed, IsAdded,
       OpGoes, OpChanges
<1>6. Unique'
  BY <1>0, <1>1, <1>2 DEF Unique
<1>7. Selected'
  BY <1>0, <1>1, <1>2 DEF Selected, IsListed
<1>8. Snapshots!CleanSettles'
  BY <1>0, <1>1, <1>2, UnusedShrinks, NamesArePositive DEF Snapshots!CleanSettles, Snapshots!Uses,
     Snapshots!Running, OpsFit, OpFits, Unfetched, Snapshots!NoSnapshot, Snapshots!Snapshot, OpGoes, OpChanges
<1>9. QED
  BY <1>3, <1>4, <1>5, <1>6, <1>7, <1>8 DEF StoreInv

\* Permissions are set up, or the file is missing.
LEMMA SetupPermissionsKeeps ==
  ASSUME Snapshots!SnapshotAssumption, StoreInv, NEW o \in Snapshots!Ops, Snapshots!SetupPermissions(o) PROVE StoreInv'
<1>0. /\ StoreTypeOK /\ OpsFit /\ AllKept /\ Unique /\ Selected /\ Snapshots!CleanSettles
      /\ ops[o].at = "permissions" /\ o \notin stores
  BY  DEF StoreInv, Snapshots!SetupPermissions, Snapshots!At, OpsFit, OpFits, Unfetched, Snapshots!Names
<1>1. /\ OpGoes(o, "failed") \/ OpGoes(o, "analyze")
      /\ UNCHANGED <<files, written, markers, listed, project, auto_clean, choices, event_bus, scheduled, adds,
                     stores, commit, restarts, disturbed, torn>>
  BY <1>0, ToGoes DEF Snapshots!SetupPermissions, Snapshots!disk, Snapshots!user, Snapshots!queue, Snapshots!world,
     Snapshots!Places
<1>3. StoreTypeOK'
  BY <1>0, <1>1 DEF StoreTypeOK, OpGoes, OpChanges
<1>4. OpsFit'
  BY <1>0, <1>1 DEF OpsFit, OpFits, Unfetched, OpGoes, OpChanges
<1>5. AllKept'
  <2>1. SUFFICES ASSUME NEW n \in Snapshots!Names, n \notin disturbed' PROVE Kept(n)'
    BY DEF AllKept
  <2>2. Kept(n) /\ n \notin disturbed
    BY <2>1, <1>0, <1>1 DEF AllKept
  <2>9. QED
    BY <2>1, <2>2, <1>0, <1>1, NoneIsNoName DEF Kept, Makes, Snapshots!Running, Intact, IsListed, IsAdded, OpGoes,
       OpChanges
<1>6. Unique'
  BY <1>0, <1>1 DEF Unique
<1>7. Selected'
  BY <1>0, <1>1 DEF Selected, IsListed
<1>8. Snapshots!CleanSettles'
  BY <1>0, <1>1, UnusedShrinks, NamesArePositive DEF Snapshots!CleanSettles, Snapshots!Uses, Snapshots!Running,
     OpsFit, OpFits, Unfetched, Snapshots!NoSnapshot, Snapshots!Snapshot, OpGoes, OpChanges
<1>9. QED
  BY <1>3, <1>4, <1>5, <1>6, <1>7, <1>8 DEF StoreInv

\* A build, or a kernel's, ends.
LEMMA EndBuildKeeps ==
  ASSUME Snapshots!SnapshotAssumption, StoreInv, NEW o \in Snapshots!Ops, Snapshots!EndBuild(o) PROVE StoreInv'
<1>0. /\ StoreTypeOK /\ OpsFit /\ AllKept /\ Unique /\ Selected /\ Snapshots!CleanSettles
      /\ ops[o].at = "using" /\ o \notin stores
  BY  DEF StoreInv, Snapshots!EndBuild, Snapshots!At, OpsFit, OpFits, Unfetched, Snapshots!Names
<1>1. /\ OpGoes(o, "ended") /\ event_bus'
      /\ UNCHANGED <<files, written, markers, listed, project, auto_clean, choices, scheduled, adds, stores, commit,
                     restarts, disturbed, torn>>
  BY <1>0, ToGoes DEF Snapshots!EndBuild, Snapshots!disk, Snapshots!user, Snapshots!queue, Snapshots!world,
     Snapshots!Places
<1>3. StoreTypeOK'
  BY <1>0, <1>1 DEF StoreTypeOK, OpGoes, OpChanges
<1>4. OpsFit'
  BY <1>0, <1>1 DEF OpsFit, OpFits, Unfetched, OpGoes, OpChanges
<1>5. AllKept'
  <2>1. SUFFICES ASSUME NEW n \in Snapshots!Names, n \notin disturbed' PROVE Kept(n)'
    BY DEF AllKept
  <2>2. Kept(n) /\ n \notin disturbed
    BY <2>1, <1>0, <1>1 DEF AllKept
  <2>9. QED
    BY <2>1, <2>2, <1>0, <1>1, NoneIsNoName DEF Kept, Makes, Snapshots!Running, Intact, IsListed, IsAdded, OpGoes,
       OpChanges
<1>6. Unique'
  BY <1>0, <1>1 DEF Unique
<1>7. Selected'
  BY <1>0, <1>1 DEF Selected, IsListed
<1>8. Snapshots!CleanSettles'
  BY <1>0, <1>1, UnusedShrinks, NamesArePositive DEF Snapshots!CleanSettles, Snapshots!Uses, Snapshots!Running,
     OpsFit, OpFits, Unfetched, Snapshots!NoSnapshot, Snapshots!Snapshot, OpGoes, OpChanges
<1>9. QED
  BY <1>3, <1>4, <1>5, <1>6, <1>7, <1>8 DEF StoreInv

\* A snapshot of the commit is to be made: nobody has its file, or its name is disturbed.
LEMMA LookupMissesKeeps ==
  ASSUME Snapshots!SnapshotAssumption, StoreInv, NEW o \in Snapshots!Ops, ops[o].at = "lookup",
         disturbed' = IF Snapshots!existing_latest_snapshot # {} \/ Snapshots!Making(o) THEN disturbed \cup {commit} ELSE disturbed,
         ops' = [ops EXCEPT ![o] = [@ EXCEPT !.at = "generate", !.target = commit]], stores' = stores,
         UNCHANGED <<files, written, markers, listed, project, auto_clean, choices, event_bus, scheduled, adds,
                     commit, restarts, torn>>
  PROVE  StoreInv'
<1>0. /\ StoreTypeOK /\ OpsFit /\ AllKept /\ Unique /\ Selected /\ Snapshots!CleanSettles
      /\ ops[o] \in OpRecords /\ OpFits(ops[o]) /\ ops[o].snapshot.name = Snapshots!None /\ commit \in Commits
      /\ commit \in Snapshots!Names
  BY UnfetchedHasNone DEF StoreInv, StoreTypeOK, OpsFit, Unfetched, Snapshots!Names
<1>1. /\ ops' \in [Snapshots!Ops -> OpRecords] /\ \A j \in Snapshots!Ops : j # o => ops'[j] = ops[j]
      /\ ops'[o].at = "generate" /\ ops'[o].target = commit /\ ops'[o].kind = ops[o].kind
      /\ ops'[o].snapshot = ops[o].snapshot
      /\ ops'[o].reused = ops[o].reused /\ ops'[o].store = ops[o].store
      /\ disturbed \subseteq disturbed'
  <2>1. [ops[o] EXCEPT !.at = "generate", !.target = commit] \in OpRecords
    BY <1>0 DEF OpRecords, Snapshots!Places, Snapshots!Names
  <2>2. QED
    BY <1>0, <2>1 DEF StoreTypeOK, OpRecords
<1>3. StoreTypeOK'
  BY <1>0, <1>1 DEF StoreTypeOK, OpGoes, OpChanges
<1>4. OpsFit'
  BY <1>0, <1>1 DEF OpsFit, OpFits, Unfetched, OpGoes, OpChanges
<1>5. AllKept'
  <2>1. SUFFICES ASSUME NEW n \in Snapshots!Names, n \notin disturbed' PROVE Kept(n)'
    BY DEF AllKept
  <2>2. Kept(n) /\ n \notin disturbed
    BY <2>1, <1>0, <1>1 DEF AllKept
  <2>20. n = commit => Snapshots!existing_latest_snapshot = {} /\ ~Snapshots!Making(o)
    BY <2>1
  <2>3. n = commit => ~IsListed(n) /\ ~IsAdded(n)
    <3>1. n = commit => ~IsAdded(commit)
      BY <2>20 DEF Snapshots!Making, IsAdded
    <3>2. ASSUME n = commit, NEW s \in listed, s.name = n PROVE FALSE
      <4>1. s \in Items /\ ~s.from_file
        BY <1>0, <3>2, ListedNames, NamesArePositive DEF Items
      <4>2. files[commit] # "none"
        BY <2>2, <3>2 DEF Kept, Intact, IsListed
      <4>3. s \in Snapshots!existing_latest_snapshot
        BY <3>2, <4>1, <4>2 DEF Snapshots!existing_latest_snapshot, Snapshots!Named
      <4>4. QED
        BY <2>20, <3>2, <4>3
    <3>3. QED
      BY <3>1, <3>2 DEF IsListed
  <2>4. n = commit => \A j \in Snapshots!Ops : ~Makes(j, n) /\ (Snapshots!Running(j) /\ ops[j].kind # "kernel" => ops[j].snapshot.name # n)
    BY <2>2, <2>20, <2>3, <1>0, NamesArePositive DEF Snapshots!Making, Makes, Kept, OpsFit, OpFits, Snapshots!Running
  <2>9. QED
    BY <2>1, <2>2, <2>3, <2>4, <1>0, <1>1, NoneIsNoName DEF Kept, Makes, Snapshots!Running, Intact, IsListed,
       IsAdded, OpGoes, OpChanges
<1>6. Unique'
  BY <1>0, <1>1 DEF Unique
<1>7. Selected'
  BY <1>0, <1>1 DEF Selected, IsListed
<1>8. Snapshots!CleanSettles'
  BY <1>0, <1>1, UnusedShrinks, NamesArePositive DEF Snapshots!CleanSettles, Snapshots!Uses, Snapshots!Running,
     OpsFit, OpFits, Unfetched, Snapshots!NoSnapshot, Snapshots!Snapshot, OpGoes, OpChanges
<1>9. QED
  BY <1>3, <1>4, <1>5, <1>6, <1>7, <1>8 DEF StoreInv

\* A snapshot of the commit is found and used.
LEMMA LookupFindsKeeps ==
  ASSUME Snapshots!SnapshotAssumption, StoreInv, NEW o \in Snapshots!Ops,
         NEW s \in Snapshots!existing_latest_snapshot, ops[o].at = "lookup", Snapshots!Fetched(o, s, TRUE),
         UNCHANGED <<files, written, markers, listed, project, auto_clean, choices, event_bus, scheduled, adds,
                     commit, restarts, disturbed, torn>>
  PROVE  StoreInv'
<1>0. /\ StoreTypeOK /\ OpsFit /\ AllKept /\ Unique /\ Selected /\ Snapshots!CleanSettles
      /\ ops[o] \in OpRecords /\ OpFits(ops[o]) /\ s \in listed /\ s \in Items /\ s.name \in Snapshots!Names
      /\ Snapshots!AfterFetch(o) \in {"using", "permissions"} /\ (Snapshots!AfterFetch(o) = "using" <=> ops[o].kind = "build")
      /\ ops[o].target = Snapshots!None /\ ops[o].kind \in {"generate", "build"}
  BY ListedNames DEF StoreInv, StoreTypeOK, OpsFit, OpFits, Snapshots!existing_latest_snapshot, Snapshots!Named,
     Snapshots!AfterFetch
<1>1. FetchGoes(o, s, TRUE)
  BY <1>0, FetchedGoes
<1>3. StoreTypeOK'
  BY <1>0, <1>1 DEF StoreTypeOK, OpGoes, OpChanges, FetchGoes
<1>4. OpsFit'
  BY <1>0, <1>1, NoneIsNoName DEF OpsFit, OpFits, Unfetched, OpGoes, OpChanges, FetchGoes
<1>5. AllKept'
  <2>1. SUFFICES ASSUME NEW n \in Snapshots!Names, n \notin disturbed' PROVE Kept(n)'
    BY DEF AllKept
  <2>2. Kept(n) /\ n \notin disturbed
    BY <2>1, <1>0, <1>1 DEF AllKept
  <2>9. QED
    BY <2>1, <2>2, <1>0, <1>1, NoneIsNoName, UnfetchedHasNone DEF Kept, Makes, Snapshots!Running, Intact, IsListed,
       IsAdded, OpGoes, OpChanges, FetchGoes
<1>6. Unique'
  BY <1>0, <1>1 DEF Unique
<1>7. Selected'
  BY <1>0, <1>1 DEF Selected, IsListed
<1>8. Snapshots!CleanSettles'
  BY <1>0, <1>1, UnusedShrinks, NamesArePositive DEF Snapshots!CleanSettles, Snapshots!Uses, Snapshots!Running,
     OpsFit, OpFits, Unfetched, Snapshots!NoSnapshot, Snapshots!Snapshot, OpGoes, OpChanges, FetchGoes
<1>9. QED
  BY <1>3, <1>4, <1>5, <1>6, <1>7, <1>8 DEF StoreInv

\* A step fails without touching a file.
LEMMA GivesUpKeeps ==
  ASSUME Snapshots!SnapshotAssumption, StoreInv, NEW o \in Snapshots!Ops, Snapshots!Running(o), ops[o].at # "using",
         Snapshots!To(o, "failed"),
         UNCHANGED <<files, written, markers, listed, project, auto_clean, choices, event_bus, scheduled, adds,
                     stores, commit, restarts, disturbed, torn>>
  PROVE  StoreInv'
<1>0. /\ StoreTypeOK /\ OpsFit /\ AllKept /\ Unique /\ Selected /\ Snapshots!CleanSettles
      /\ o \notin stores
  BY  DEF StoreInv, OpsFit
<1>1. OpGoes(o, "failed")
  BY <1>0, ToGoes DEF Snapshots!Places
<1>3. StoreTypeOK'
  BY <1>0, <1>1 DEF StoreTypeOK, OpGoes, OpChanges
<1>4. OpsFit'
  BY <1>0, <1>1 DEF OpsFit, OpFits, Unfetched, OpGoes, OpChanges, Snapshots!Running
<1>5. AllKept'
  <2>1. SUFFICES ASSUME NEW n \in Snapshots!Names, n \notin disturbed' PROVE Kept(n)'
    BY DEF AllKept
  <2>2. Kept(n) /\ n \notin disturbed
    BY <2>1, <1>0, <1>1 DEF AllKept
  <2>9. QED
    BY <2>1, <2>2, <1>0, <1>1, NoneIsNoName DEF Kept, Makes, Snapshots!Running, Intact, IsListed, IsAdded, OpGoes,
       OpChanges
<1>6. Unique'
  BY <1>0, <1>1 DEF Unique
<1>7. Selected'
  BY <1>0, <1>1 DEF Selected, IsListed
<1>8. Snapshots!CleanSettles'
  BY <1>0, <1>1, UnusedShrinks, NamesArePositive DEF Snapshots!CleanSettles, Snapshots!Uses, Snapshots!Running,
     OpsFit, OpFits, Unfetched, Snapshots!NoSnapshot, Snapshots!Snapshot, OpGoes, OpChanges
<1>9. QED
  BY <1>3, <1>4, <1>5, <1>6, <1>7, <1>8 DEF StoreInv

\* The file of an installation is whole.
LEMMA CatalystFinishesKeeps ==
  ASSUME Snapshots!SnapshotAssumption, StoreInv, NEW o \in Snapshots!Ops, NEW s \in Items, s.name = ops[o].target,
         ops[o].at = "writing", ops[o].kind = "generate", Snapshots!Finished(ops[o].target),
         Snapshots!Fetched(o, s, FALSE),
         UNCHANGED <<markers, listed, project, auto_clean, choices, event_bus, scheduled, adds, commit, restarts, disturbed, torn>>
  PROVE  StoreInv'
<1>0. /\ StoreTypeOK /\ OpsFit /\ AllKept /\ Unique /\ Selected /\ Snapshots!CleanSettles
      /\ ops[o].target \in Snapshots!Names /\ ~ops[o].store /\ Snapshots!AfterFetch(o) = "permissions" /\ ~ops[o].reused
  BY  DEF StoreInv, OpsFit, OpFits, Snapshots!Names, Snapshots!AfterFetch, Unfetched
<1>1. FetchGoes(o, s, FALSE) /\ stores' = stores
  BY <1>0, FetchedGoes DEF FetchGoes
<1>2. /\ files' \in [Snapshots!Names -> {"none", "partial", "whole"}] /\ files'[ops[o].target] = "whole"
      /\ written' = written
      /\ \A n \in Snapshots!Names : n # ops[o].target => files'[n] = files[n]
  BY <1>0, <1>1, FinishedFile
<1>3. StoreTypeOK'
  BY <1>0, <1>1, <1>2 DEF StoreTypeOK, OpGoes, OpChanges, FetchGoes
<1>4. OpsFit'
  BY <1>0, <1>1, <1>2, NoneIsNoName DEF OpsFit, OpFits, Unfetched, OpGoes, OpChanges, FetchGoes
<1>5. AllKept'
  <2>1. SUFFICES ASSUME NEW n \in Snapshots!Names, n \notin disturbed' PROVE Kept(n)'
    BY DEF AllKept
  <2>2. Kept(n) /\ n \notin disturbed
    BY <2>1, <1>0, <1>1 DEF AllKept
  <2>3. n = ops[o].target =>
           /\ ~IsListed(n) /\ ~IsAdded(n)
           /\ \A j \in Snapshots!Ops : j # o => ~Makes(j, n) /\ (Snapshots!Running(j) /\ ops[j].kind # "kernel" => ops[j].snapshot.name # n)
    BY <2>2, <1>0, MakerAlone DEF Makes, Snapshots!Running
  <2>9. QED
    BY <2>1, <2>2, <2>3, <1>0, <1>1, <1>2, NoneIsNoName DEF Kept, Makes, Snapshots!Running, Intact, IsListed,
       IsAdded, OpGoes, OpChanges, FetchGoes
<1>6. Unique'
  BY <1>0, <1>1, <1>2 DEF Unique
<1>7. Selected'
  BY <1>0, <1>1, <1>2 DEF Selected, IsListed
<1>8. Snapshots!CleanSettles'
  BY <1>0, <1>1, <1>2, UnusedShrinks, NamesArePositive DEF Snapshots!CleanSettles, Snapshots!Uses,
     Snapshots!Running, OpsFit, OpFits, Unfetched, Snapshots!NoSnapshot, Snapshots!Snapshot, OpGoes, OpChanges,
     FetchGoes
<1>9. QED
  BY <1>3, <1>4, <1>5, <1>6, <1>7, <1>8 DEF StoreInv

\* The file of a build is whole, and its snapshot queued for the list.
LEMMA BuildFetchesKeeps ==
  ASSUME Snapshots!SnapshotAssumption, StoreInv, NEW o \in Snapshots!Ops, NEW s \in Items, s.name \in Snapshots!Names,
         ops[o].at = "writing", ops[o].kind = "build", Snapshots!Finished(ops[o].target),
         ops' = [ops EXCEPT ![o] = [ops[o] EXCEPT !.at = "using", !.target = s.name, !.snapshot = s]],
         stores' = IF ops[o].store THEN stores \cup {o} ELSE stores, adds' = adds \cup {s},
         disturbed' = IF s.name # ops[o].target THEN disturbed \cup {s.name} ELSE disturbed,
         UNCHANGED <<markers, listed, project, auto_clean, choices, event_bus, scheduled, commit, restarts, torn>>
  PROVE  StoreInv'
<1>0. /\ StoreTypeOK /\ OpsFit /\ AllKept /\ Unique /\ Selected /\ Snapshots!CleanSettles
      /\ ops[o].target \in Snapshots!Names /\ ops[o].target \in Commits /\ ~ops[o].reused /\ ops[o] \in OpRecords
  BY DEF StoreInv, StoreTypeOK, OpsFit, OpFits, Snapshots!Names, Unfetched
<1>1. /\ ops' \in [Snapshots!Ops -> OpRecords] /\ \A j \in Snapshots!Ops : j # o => ops'[j] = ops[j]
      /\ ops'[o].at = "using" /\ ops'[o].kind = "build" /\ ops'[o].target = s.name
      /\ ops'[o].snapshot = s /\ ops'[o].reused = ops[o].reused /\ ops'[o].store = ops[o].store
      /\ disturbed \subseteq disturbed' /\ (s.name \notin disturbed' => s.name = ops[o].target)
  <2>1. [ops[o] EXCEPT !.at = "using", !.target = s.name, !.snapshot = s] \in OpRecords
    BY <1>0 DEF OpRecords, Snapshots!Places
  <2>2. QED
    BY <1>0, <2>1 DEF StoreTypeOK, OpRecords
<1>2. /\ files' \in [Snapshots!Names -> {"none", "partial", "whole"}] /\ files'[ops[o].target] = "whole"
      /\ written' = written
      /\ \A n \in Snapshots!Names : n # ops[o].target => files'[n] = files[n]
  BY <1>0, <1>1, FinishedFile
<1>3. StoreTypeOK'
  BY <1>0, <1>1, <1>2 DEF StoreTypeOK, OpGoes, OpChanges
<1>4. OpsFit'
  BY <1>0, <1>1, <1>2, NoneIsNoName DEF OpsFit, OpFits, Unfetched, OpGoes, OpChanges
<1>5. AllKept'
  <2>1. SUFFICES ASSUME NEW n \in Snapshots!Names, n \notin disturbed' PROVE Kept(n)'
    BY DEF AllKept
  <2>2. Kept(n) /\ n \notin disturbed
    BY <2>1, <1>0, <1>1 DEF AllKept
  <2>3. n = ops[o].target =>
           /\ ~IsListed(n) /\ ~IsAdded(n)
           /\ \A j \in Snapshots!Ops : j # o => ~Makes(j, n) /\ (Snapshots!Running(j) /\ ops[j].kind # "kernel" => ops[j].snapshot.name # n)
    BY <2>2, <1>0, MakerAlone DEF Makes, Snapshots!Running
  <2>9. QED
    BY <2>1, <2>2, <2>3, <1>0, <1>1, <1>2, NoneIsNoName DEF Kept, Makes, Snapshots!Running, Intact, IsListed,
       IsAdded, OpGoes, OpChanges
<1>6. Unique'
  BY <1>0, <1>1, <1>2 DEF Unique
<1>7. Selected'
  BY <1>0, <1>1, <1>2 DEF Selected, IsListed
<1>8. Snapshots!CleanSettles'
  BY <1>0, <1>1, <1>2, UnusedShrinks, NamesArePositive DEF Snapshots!CleanSettles, Snapshots!Uses,
     Snapshots!Running, OpsFit, OpFits, Unfetched, Snapshots!NoSnapshot, Snapshots!Snapshot, OpGoes, OpChanges
<1>9. QED
  BY <1>3, <1>4, <1>5, <1>6, <1>7, <1>8 DEF StoreInv

\* Looking for an existing snapshot
LEMMA LookupKeeps ==
  ASSUME Snapshots!SnapshotAssumption, StoreInv, NEW o \in Snapshots!Ops, Snapshots!Lookup(o) PROVE StoreInv'
BY LookupMissesKeeps, LookupFindsKeeps DEF Snapshots!Lookup, Snapshots!At, Snapshots!disk, Snapshots!user,
     Snapshots!world

\* catalyst ends in an installation.
LEMMA CatalystEndsKeeps ==
  ASSUME Snapshots!SnapshotAssumption, StoreInv, NEW o \in Snapshots!Ops, Snapshots!CatalystEnds(o) PROVE StoreInv'
<1>1. ops[o].at = "writing" /\ ops[o].kind = "generate" /\ UNCHANGED <<markers, listed, Snapshots!user, event_bus,
                                                                       scheduled, adds, Snapshots!world>>
  BY DEF Snapshots!CatalystEnds, Snapshots!At
<1>2. StoreTypeOK /\ ops[o].target \in Snapshots!Names
  BY <1>1 DEF StoreInv, OpsFit, OpFits, Snapshots!Names
<1>3. CASE Snapshots!To(o, "failed") /\ UNCHANGED <<files, written, stores>>
  BY <1>1, <1>3, GivesUpKeeps DEF Snapshots!Running, Snapshots!user, Snapshots!world
<1>4. CASE Snapshots!Finished(ops[o].target) /\ Snapshots!Fetched(o, Snapshots!Snapshot(ops[o].target, 10 + written[ops[o].target], FALSE), FALSE)
  BY <1>1, <1>2, <1>4, TimedItem, CatalystFinishesKeeps DEF Snapshots!user, Snapshots!world
<1>5. QED
  BY <1>3, <1>4 DEF Snapshots!CatalystEnds

\* catalyst ends in a build: it takes the file written last.
LEMMA BuildHasFetchedKeeps ==
  ASSUME Snapshots!SnapshotAssumption, StoreInv, NEW o \in Snapshots!Ops, Snapshots!BuildHasFetched(o) PROVE StoreInv'
<1>1. ops[o].at = "writing" /\ ops[o].kind = "build" /\ UNCHANGED <<markers, listed, Snapshots!user, event_bus,
                                                                    scheduled, commit, restarts, torn>>
  BY DEF Snapshots!BuildHasFetched, Snapshots!At
<1>2. StoreTypeOK /\ ops[o].target \in Snapshots!Names
      /\ \A n \in Snapshots!WrittenNow(o) : n \in Snapshots!Names
  BY <1>1 DEF StoreInv, OpsFit, OpFits, Snapshots!Names, Snapshots!WrittenNow
<1>3. CASE Snapshots!To(o, "failed") /\ UNCHANGED <<files, written, Snapshots!queue, disturbed>>
  BY <1>1, <1>3, GivesUpKeeps DEF Snapshots!Running, Snapshots!user, Snapshots!queue
<1>4. ASSUME NEW n \in Snapshots!WrittenNow(o), NEW s, s = Snapshots!Snapshot(n, DateInside[n], FALSE),
             NEW op, op = [ops[o] EXCEPT !.at = "using", !.target = n, !.snapshot = s],
             Snapshots!Finished(ops[o].target), ops' = [ops EXCEPT ![o] = op], adds' = adds \cup {s},
             stores' = IF op.store THEN stores \cup {o} ELSE stores,
             disturbed' = IF n # ops[o].target THEN disturbed \cup {n} ELSE disturbed
      PROVE  StoreInv'
  <2>1. s \in Items /\ s.name = n /\ n \in Snapshots!Names
    BY <1>2, <1>4, DatedItem
  <2>2. op.store = ops[o].store
    BY <1>2, <1>4 DEF StoreTypeOK, OpRecords
  <2>3. /\ ops' = [ops EXCEPT ![o] = [ops[o] EXCEPT !.at = "using", !.target = s.name, !.snapshot = s]]
        /\ stores' = IF ops[o].store THEN stores \cup {o} ELSE stores
        /\ disturbed' = IF s.name # ops[o].target THEN disturbed \cup {s.name} ELSE disturbed
    BY <1>4, <2>1, <2>2
  <2>4. QED
    BY <1>1, <1>4, <2>1, <2>3, BuildFetchesKeeps DEF Snapshots!user
<1>5. QED
  BY <1>3, <1>4 DEF Snapshots!BuildHasFetched

\* A copy begins when no file has its name: nobody has that file.
LEMMA CopyBeginsKeeps ==
  ASSUME Snapshots!SnapshotAssumption, StoreInv, NEW o \in Snapshots!Ops, ops[o].at = "copy",
         files[ops[o].target] = "none", Snapshots!To(o, "copying"), Snapshots!Write(ops[o].target),
         UNCHANGED <<markers, listed, project, auto_clean, choices, event_bus, scheduled, adds, stores, commit,
                     restarts, disturbed, torn>>
  PROVE  StoreInv'
<1>0. /\ StoreTypeOK /\ OpsFit /\ AllKept /\ Unique /\ Selected /\ Snapshots!CleanSettles
      /\ ops[o].target \in Snapshots!Names /\ ops[o].target \in Imports /\ ops[o].snapshot.name = Snapshots!None
      /\ o \notin stores /\ ops[o].kind = "import"
  BY UnfetchedHasNone DEF StoreInv, OpsFit, OpFits, Snapshots!Names, Unfetched
<1>1. OpGoes(o, "copying")
  BY <1>0, ToGoes DEF Snapshots!Places
<1>2. /\ files' \in [Snapshots!Names -> {"none", "partial", "whole"}] /\ files'[ops[o].target] = "partial"
      /\ \A n \in Snapshots!Names : n # ops[o].target => files'[n] = files[n]
      /\ written' \in [Snapshots!Names -> Nat] /\ IsFiniteSet({m \in Snapshots!Names : written[m] > 0}')
  BY <1>0, <1>1, WriteTime DEF StoreTypeOK, Snapshots!Write
<1>3. StoreTypeOK'
  BY <1>0, <1>1, <1>2 DEF StoreTypeOK, OpGoes, OpChanges
<1>4. OpsFit'
  BY <1>0, <1>1, <1>2 DEF OpsFit, OpFits, Unfetched, OpGoes, OpChanges
<1>5. AllKept'
  <2>1. SUFFICES ASSUME NEW n \in Snapshots!Names, n \notin disturbed' PROVE Kept(n)'
    BY DEF AllKept
  <2>2. Kept(n) /\ n \notin disturbed
    BY <2>1, <1>0, <1>1 DEF AllKept
  <2>3. n = ops[o].target =>
           /\ ~IsListed(n) /\ ~IsAdded(n)
           /\ \A j \in Snapshots!Ops : ~Makes(j, n) /\ (Snapshots!Running(j) /\ ops[j].kind # "kernel" => ops[j].snapshot.name # n)
    <3>1. ASSUME n = ops[o].target, NEW j \in Snapshots!Ops, Makes(j, n) PROVE FALSE
      <4>1. ops[j].at \notin {"generate", "writing"} /\ ops[j].kind # "kernel"
        BY <1>0, <3>1, NamesArePositive DEF OpsFit, OpFits, Makes
      <4>2. QED
        BY <2>2, <1>0, <3>1, <4>1 DEF Kept, Makes, Intact
    <3>2. QED
      BY <2>2, <1>0, <3>1 DEF Kept, Intact
  <2>9. QED
    BY <2>1, <2>2, <2>3, <1>0, <1>1, <1>2, NoneIsNoName DEF Kept, Makes, Snapshots!Running, Intact, IsListed,
       IsAdded, OpGoes, OpChanges
<1>6. Unique'
  BY <1>0, <1>1, <1>2 DEF Unique
<1>7. Selected'
  BY <1>0, <1>1, <1>2 DEF Selected, IsListed
<1>8. Snapshots!CleanSettles'
  BY <1>0, <1>1, <1>2, UnusedShrinks, NamesArePositive DEF Snapshots!CleanSettles, Snapshots!Uses,
     Snapshots!Running, OpsFit, OpFits, Unfetched, Snapshots!NoSnapshot, Snapshots!Snapshot, OpGoes, OpChanges
<1>9. QED
  BY <1>3, <1>4, <1>5, <1>6, <1>7, <1>8 DEF StoreInv

\* A copy begins, or fails.
LEMMA BeginCopyKeeps ==
  ASSUME Snapshots!SnapshotAssumption, StoreInv, NEW o \in Snapshots!Ops, Snapshots!BeginCopy(o) PROVE StoreInv'
BY GivesUpKeeps, CopyBeginsKeeps DEF Snapshots!BeginCopy, Snapshots!At, Snapshots!Running, Snapshots!disk,
   Snapshots!user, Snapshots!queue, Snapshots!world

\* The file of a copy is whole.
LEMMA CopyEndsKeeps ==
  ASSUME Snapshots!SnapshotAssumption, StoreInv, NEW o \in Snapshots!Ops, NEW s \in Items, s.name = ops[o].target,
         ops[o].at = "copying", Snapshots!Finished(ops[o].target), Snapshots!Fetched(o, s, FALSE),
         UNCHANGED <<markers, listed, project, auto_clean, choices, event_bus, scheduled, adds, commit, restarts, disturbed, torn>>
  PROVE  StoreInv'
<1>0. /\ StoreTypeOK /\ OpsFit /\ AllKept /\ Unique /\ Selected /\ Snapshots!CleanSettles
      /\ ops[o].target \in Snapshots!Names /\ ~ops[o].store /\ Snapshots!AfterFetch(o) = "permissions"
      /\ ~ops[o].reused /\ ops[o].kind = "import"
  BY  DEF StoreInv, OpsFit, OpFits, Snapshots!Names, Snapshots!AfterFetch, Unfetched
<1>1. FetchGoes(o, s, FALSE) /\ stores' = stores
  BY <1>0, FetchedGoes DEF FetchGoes
<1>2. /\ files' \in [Snapshots!Names -> {"none", "partial", "whole"}] /\ files'[ops[o].target] = "whole"
      /\ written' = written
      /\ \A n \in Snapshots!Names : n # ops[o].target => files'[n] = files[n]
  BY <1>0, <1>1, FinishedFile
<1>3. StoreTypeOK'
  BY <1>0, <1>1, <1>2 DEF StoreTypeOK, OpGoes, OpChanges, FetchGoes
<1>4. OpsFit'
  BY <1>0, <1>1, <1>2, NoneIsNoName DEF OpsFit, OpFits, Unfetched, OpGoes, OpChanges, FetchGoes
<1>5. AllKept'
  <2>1. SUFFICES ASSUME NEW n \in Snapshots!Names, n \notin disturbed' PROVE Kept(n)'
    BY DEF AllKept
  <2>2. Kept(n) /\ n \notin disturbed
    BY <2>1, <1>0, <1>1 DEF AllKept
  <2>3. n = ops[o].target =>
           /\ ~IsListed(n) /\ ~IsAdded(n)
           /\ \A j \in Snapshots!Ops : j # o => ~Makes(j, n) /\ (Snapshots!Running(j) /\ ops[j].kind # "kernel" => ops[j].snapshot.name # n)
    BY <2>2, <1>0, MakerAlone DEF Makes, Snapshots!Running
  <2>9. QED
    BY <2>1, <2>2, <2>3, <1>0, <1>1, <1>2, NoneIsNoName DEF Kept, Makes, Snapshots!Running, Intact, IsListed,
       IsAdded, OpGoes, OpChanges, FetchGoes
<1>6. Unique'
  BY <1>0, <1>1, <1>2 DEF Unique
<1>7. Selected'
  BY <1>0, <1>1, <1>2 DEF Selected, IsListed
<1>8. Snapshots!CleanSettles'
  BY <1>0, <1>1, <1>2, UnusedShrinks, NamesArePositive DEF Snapshots!CleanSettles, Snapshots!Uses,
     Snapshots!Running, OpsFit, OpFits, Unfetched, Snapshots!NoSnapshot, Snapshots!Snapshot, OpGoes, OpChanges,
     FetchGoes
<1>9. QED
  BY <1>3, <1>4, <1>5, <1>6, <1>7, <1>8 DEF StoreInv

\* A copy fails, and its file is removed.
LEMMA CopyFailsKeeps ==
  ASSUME Snapshots!SnapshotAssumption, StoreInv, NEW o \in Snapshots!Ops, ops[o].at = "copying",
         Snapshots!To(o, "failed"), files' = [files EXCEPT ![ops[o].target] = "none"],
         UNCHANGED <<written, markers, listed, project, auto_clean, choices, event_bus, scheduled, adds, stores,
                     commit, restarts, disturbed, torn>>
  PROVE  StoreInv'
<1>0. /\ StoreTypeOK /\ OpsFit /\ AllKept /\ Unique /\ Selected /\ Snapshots!CleanSettles
      /\ ops[o].target \in Snapshots!Names /\ o \notin stores /\ ops[o].snapshot.name = Snapshots!None
  BY UnfetchedHasNone DEF StoreInv, OpsFit, OpFits, Snapshots!Names, Unfetched
<1>1. OpGoes(o, "failed")
  BY <1>0, ToGoes DEF Snapshots!Places
<1>2. /\ files' \in [Snapshots!Names -> {"none", "partial", "whole"}] /\ files'[ops[o].target] = "none"
      /\ \A n \in Snapshots!Names : n # ops[o].target => files'[n] = files[n]
  BY <1>0 DEF StoreTypeOK
<1>3. StoreTypeOK'
  BY <1>0, <1>1, <1>2 DEF StoreTypeOK, OpGoes, OpChanges
<1>4. OpsFit'
  BY <1>0, <1>1, <1>2 DEF OpsFit, OpFits, Unfetched, OpGoes, OpChanges
<1>5. AllKept'
  <2>1. SUFFICES ASSUME NEW n \in Snapshots!Names, n \notin disturbed' PROVE Kept(n)'
    BY DEF AllKept
  <2>2. Kept(n) /\ n \notin disturbed
    BY <2>1, <1>0, <1>1 DEF AllKept
  <2>3. n = ops[o].target =>
           /\ ~IsListed(n) /\ ~IsAdded(n)
           /\ \A j \in Snapshots!Ops : j # o => ~Makes(j, n) /\ (Snapshots!Running(j) /\ ops[j].kind # "kernel" => ops[j].snapshot.name # n)
    BY <2>2, <1>0, MakerAlone DEF Makes, Snapshots!Running
  <2>9. QED
    BY <2>1, <2>2, <2>3, <1>0, <1>1, <1>2, NoneIsNoName DEF Kept, Makes, Snapshots!Running, Intact, IsListed,
       IsAdded, OpGoes, OpChanges
<1>6. Unique'
  BY <1>0, <1>1, <1>2 DEF Unique
<1>7. Selected'
  BY <1>0, <1>1, <1>2 DEF Selected, IsListed
<1>8. Snapshots!CleanSettles'
  BY <1>0, <1>1, <1>2, UnusedShrinks, NamesArePositive DEF Snapshots!CleanSettles, Snapshots!Uses,
     Snapshots!Running, OpsFit, OpFits, Unfetched, Snapshots!NoSnapshot, Snapshots!Snapshot, OpGoes, OpChanges
<1>9. QED
  BY <1>3, <1>4, <1>5, <1>6, <1>7, <1>8 DEF StoreInv

\* The copy of a canceled operation ends in its thread.
LEMMA OrphanEndsKeeps ==
  ASSUME Snapshots!SnapshotAssumption, StoreInv, NEW o \in Snapshots!Ops, ops[o].at = "orphan",
         Snapshots!Finished(ops[o].target), Snapshots!To(o, "ended"),
         UNCHANGED <<markers, listed, project, auto_clean, choices, event_bus, scheduled, adds, stores, commit,
                     restarts, disturbed, torn>>
  PROVE  StoreInv'
<1>0. /\ StoreTypeOK /\ OpsFit /\ AllKept /\ Unique /\ Selected /\ Snapshots!CleanSettles
      /\ ops[o].target \in Snapshots!Names /\ o \notin stores
  BY  DEF StoreInv, OpsFit, OpFits, Snapshots!Names, Unfetched
<1>1. OpGoes(o, "ended")
  BY <1>0, ToGoes DEF Snapshots!Places
<1>2. /\ files' \in [Snapshots!Names -> {"none", "partial", "whole"}] /\ files'[ops[o].target] = "whole"
      /\ written' = written
      /\ \A n \in Snapshots!Names : n # ops[o].target => files'[n] = files[n]
  BY <1>0, <1>1, FinishedFile
<1>3. StoreTypeOK'
  BY <1>0, <1>1, <1>2 DEF StoreTypeOK, OpGoes, OpChanges
<1>4. OpsFit'
  BY <1>0, <1>1, <1>2 DEF OpsFit, OpFits, Unfetched, OpGoes, OpChanges
<1>5. AllKept'
  <2>1. SUFFICES ASSUME NEW n \in Snapshots!Names, n \notin disturbed' PROVE Kept(n)'
    BY DEF AllKept
  <2>2. Kept(n) /\ n \notin disturbed
    BY <2>1, <1>0, <1>1 DEF AllKept
  <2>3. n = ops[o].target =>
           /\ ~IsListed(n) /\ ~IsAdded(n)
           /\ \A j \in Snapshots!Ops : j # o => ~Makes(j, n) /\ (Snapshots!Running(j) /\ ops[j].kind # "kernel" => ops[j].snapshot.name # n)
    BY <2>2, <1>0, MakerAlone DEF Makes, Snapshots!Running
  <2>9. QED
    BY <2>1, <2>2, <2>3, <1>0, <1>1, <1>2, NoneIsNoName DEF Kept, Makes, Snapshots!Running, Intact, IsListed,
       IsAdded, OpGoes, OpChanges
<1>6. Unique'
  BY <1>0, <1>1, <1>2 DEF Unique
<1>7. Selected'
  BY <1>0, <1>1, <1>2 DEF Selected, IsListed
<1>8. Snapshots!CleanSettles'
  BY <1>0, <1>1, <1>2, UnusedShrinks, NamesArePositive DEF Snapshots!CleanSettles, Snapshots!Uses,
     Snapshots!Running, OpsFit, OpFits, Unfetched, Snapshots!NoSnapshot, Snapshots!Snapshot, OpGoes, OpChanges
<1>9. QED
  BY <1>3, <1>4, <1>5, <1>6, <1>7, <1>8 DEF StoreInv

\* A copy ends.
LEMMA EndCopyKeeps ==
  ASSUME Snapshots!SnapshotAssumption, StoreInv, NEW o \in Snapshots!Ops, Snapshots!EndCopy(o) PROVE StoreInv'
<1>1. ops[o].at \in {"copying", "orphan"} /\ UNCHANGED <<markers, listed, Snapshots!user, event_bus, scheduled,
                                                         adds, Snapshots!world>>
  BY DEF Snapshots!EndCopy, Snapshots!At
<1>2. StoreTypeOK /\ ops[o].target \in Imports /\ ops[o].target \in Snapshots!Names
  BY <1>1 DEF StoreInv, OpsFit, OpFits, Snapshots!Names
<1>3. CASE /\ ops[o].at = "copying" /\ Snapshots!To(o, "failed") /\ files' = [files EXCEPT ![ops[o].target] = "none"]
           /\ UNCHANGED <<written, stores>>
  BY <1>1, <1>3, CopyFailsKeeps DEF Snapshots!user, Snapshots!world
<1>4. CASE ops[o].at = "orphan"
  BY <1>1, <1>4, OrphanEndsKeeps DEF Snapshots!EndCopy, Snapshots!At, Snapshots!user, Snapshots!world
<1>5. CASE ops[o].at = "copying" /\ Snapshots!Finished(ops[o].target)
           /\ Snapshots!Fetched(o, Snapshots!Snapshot(ops[o].target, 10 + written[ops[o].target], TRUE), FALSE)
  BY <1>1, <1>2, <1>5, TimedItem, CopyEndsKeeps DEF Snapshots!user, Snapshots!world
<1>6. QED
  BY <1>1, <1>3, <1>4, <1>5 DEF Snapshots!EndCopy, Snapshots!At

\* An installation adds its snapshot to the list.
LEMMA CompletingKeeps ==
  ASSUME Snapshots!SnapshotAssumption, StoreInv, NEW o \in Snapshots!Ops, Snapshots!Complete(o) PROVE StoreInv'
<1>0. /\ StoreTypeOK /\ OpsFit /\ AllKept /\ Unique /\ Selected /\ Snapshots!CleanSettles
      /\ o \notin stores /\ ops[o].at = "done" /\ ops[o].snapshot \in Items /\ ops[o].snapshot.name \in Snapshots!Names
      /\ ops[o].kind \in {"generate", "import"}
  BY NamedItem DEF StoreInv, Snapshots!Complete, Snapshots!At, OpsFit, OpFits
<1>1. /\ OpGoes(o, "ended") /\ Snapshots!add_snapshot(ops[o].snapshot)
      /\ UNCHANGED <<files, written, project, auto_clean, choices, scheduled, adds, stores, commit, restarts,
                     disturbed, torn>>
  BY <1>0, ToGoes DEF Snapshots!Complete, Snapshots!Places, Snapshots!user, Snapshots!queue, Snapshots!world
<1>2. /\ listed' \subseteq Items /\ markers' \subseteq Imports /\ event_bus' /\ Unique'
      /\ \A n \in Snapshots!Names \cup {Snapshots!None} : IsListed(n)' <=> IsListed(n) \/ n = ops[o].snapshot.name
  BY <1>0, <1>1, AddLists
<1>3. StoreTypeOK'
  BY <1>0, <1>1, <1>2 DEF StoreTypeOK, OpGoes, OpChanges
<1>4. OpsFit'
  BY <1>0, <1>1, <1>2 DEF OpsFit, OpFits, Unfetched, OpGoes, OpChanges
<1>5. AllKept'
  <2>1. SUFFICES ASSUME NEW n \in Snapshots!Names, n \notin disturbed' PROVE Kept(n)'
    BY DEF AllKept
  <2>2. Kept(n) /\ n \notin disturbed
    BY <2>1, <1>0, <1>1 DEF AllKept
  <2>9. QED
    BY <2>1, <2>2, <1>0, <1>1, <1>2, NoneIsNoName DEF Kept, Makes, Snapshots!Running, Intact, IsListed, IsAdded,
       OpGoes, OpChanges
<1>6. Unique'
  BY <1>0, <1>1, <1>2 DEF Unique
<1>7. Selected'
  BY <1>0, <1>1, <1>2 DEF Selected, StoreTypeOK, Projects
<1>8. Snapshots!CleanSettles'
  BY <1>0, <1>1, <1>2, UnusedShrinks, NamesArePositive DEF Snapshots!CleanSettles, Snapshots!Uses,
     Snapshots!Running, OpsFit, OpFits, Unfetched, Snapshots!NoSnapshot, Snapshots!Snapshot, OpGoes, OpChanges
<1>9. QED
  BY <1>3, <1>4, <1>5, <1>6, <1>7, <1>8 DEF StoreInv

\* A snapshot that was queued is added to the list.
LEMMA AddQueuedOneKeeps ==
  ASSUME Snapshots!SnapshotAssumption, StoreInv, NEW s \in adds, Snapshots!add_snapshot(s), adds' = adds \ {s},
         UNCHANGED <<files, written, project, auto_clean, choices, scheduled, stores, ops, commit, restarts,
                     disturbed, torn>>
  PROVE  StoreInv'
<1>0. /\ StoreTypeOK /\ OpsFit /\ AllKept /\ Unique /\ Selected /\ Snapshots!CleanSettles
      /\ s \in Items /\ s.name \in Snapshots!Names
  BY  DEF StoreInv, StoreTypeOK, Items
<1>1. /\ listed' \subseteq Items /\ markers' \subseteq Imports /\ event_bus' /\ Unique'
      /\ \A n \in Snapshots!Names \cup {Snapshots!None} : IsListed(n)' <=> IsListed(n) \/ n = s.name
  BY <1>0, AddLists
<1>3. StoreTypeOK'
  BY <1>0, <1>1 DEF StoreTypeOK
<1>4. OpsFit'
  BY <1>0, <1>1 DEF OpsFit, OpFits, Unfetched
<1>5. AllKept'
  <2>1. SUFFICES ASSUME NEW n \in Snapshots!Names, n \notin disturbed' PROVE Kept(n)'
    BY DEF AllKept
  <2>2. Kept(n) /\ n \notin disturbed
    BY <2>1, <1>0, <1>1 DEF AllKept
  <2>9. QED
    BY <2>1, <2>2, <1>0, <1>1, NoneIsNoName DEF Kept, Makes, Snapshots!Running, Intact, IsListed, IsAdded
<1>6. Unique'
  BY <1>0, <1>1 DEF Unique
<1>7. Selected'
  BY <1>0, <1>1 DEF Selected, StoreTypeOK, Projects
<1>8. Snapshots!CleanSettles'
  BY <1>0, <1>1, UnusedShrinks, NamesArePositive DEF Snapshots!CleanSettles, Snapshots!Uses, Snapshots!Running,
     OpsFit, OpFits, Unfetched, Snapshots!NoSnapshot, Snapshots!Snapshot
<1>9. QED
  BY <1>3, <1>4, <1>5, <1>6, <1>7, <1>8 DEF StoreInv

\* A failed operation ends and cleans up.
LEMMA FailingKeeps ==
  ASSUME Snapshots!SnapshotAssumption, StoreInv, NEW o \in Snapshots!Ops, Snapshots!Fail(o) PROVE StoreInv'
<1>0. /\ StoreTypeOK /\ OpsFit /\ AllKept /\ Unique /\ Selected /\ Snapshots!CleanSettles
      /\ o \notin stores /\ ops[o] \in OpRecords /\ OpFits(ops[o]) /\ ops[o].at = "failed"
  BY  DEF StoreInv, Snapshots!Fail, Snapshots!At, OpsFit, StoreTypeOK
<1>1. /\ OpGoes(o, "ended") /\ event_bus'
      /\ UNCHANGED <<written, markers, listed, project, auto_clean, choices, scheduled, adds, stores, commit, restarts, disturbed, torn>>
  BY <1>0, ToGoes DEF Snapshots!Fail, Snapshots!Places, Snapshots!user, Snapshots!queue, Snapshots!world
<1>2. /\ files' \in [Snapshots!Names -> {"none", "partial", "whole"}]
      /\ \/ files' = files
         \/ /\ ops[o].snapshot.name \in Snapshots!Names /\ Makes(o, ops[o].snapshot.name) /\ ops[o].at # "using" /\ Snapshots!Running(o)
            /\ files'[ops[o].snapshot.name] = "none"
            /\ \A n \in Snapshots!Names : n # ops[o].snapshot.name => files'[n] = files[n]
  BY <1>0, CleanupRemoves DEF Snapshots!Fail, Snapshots!Running, StoreTypeOK
<1>3. StoreTypeOK'
  BY <1>0, <1>1, <1>2 DEF StoreTypeOK, OpGoes, OpChanges
<1>4. OpsFit'
  BY <1>0, <1>1, <1>2 DEF OpsFit, OpFits, Unfetched, OpGoes, OpChanges
<1>5. AllKept'
  <2>1. SUFFICES ASSUME NEW n \in Snapshots!Names, n \notin disturbed' PROVE Kept(n)'
    BY DEF AllKept
  <2>2. Kept(n) /\ n \notin disturbed
    BY <2>1, <1>0, <1>1 DEF AllKept
  <2>3. n = ops[o].snapshot.name /\ Makes(o, n) /\ ops[o].at # "using" =>
           /\ ~IsListed(n) /\ ~IsAdded(n)
           /\ \A j \in Snapshots!Ops : j # o => ~Makes(j, n) /\ (Snapshots!Running(j) /\ ops[j].kind # "kernel" => ops[j].snapshot.name # n)
    BY <2>2, <1>0, MakerAlone DEF Makes, Snapshots!Running
  <2>9. QED
    BY <2>1, <2>2, <2>3, <1>0, <1>1, <1>2, NoneIsNoName DEF Kept, Makes, Snapshots!Running, Intact, IsListed,
       IsAdded, OpGoes, OpChanges
<1>6. Unique'
  BY <1>0, <1>1, <1>2 DEF Unique
<1>7. Selected'
  BY <1>0, <1>1, <1>2 DEF Selected, IsListed
<1>8. Snapshots!CleanSettles'
  BY <1>0, <1>1, <1>2, UnusedShrinks, NamesArePositive DEF Snapshots!CleanSettles, Snapshots!Uses,
     Snapshots!Running, OpsFit, OpFits, Unfetched, Snapshots!NoSnapshot, Snapshots!Snapshot, OpGoes, OpChanges
<1>9. QED
  BY <1>3, <1>4, <1>5, <1>6, <1>7, <1>8 DEF StoreInv

\* A canceled operation ends and cleans up.
LEMMA CancelingKeeps ==
  ASSUME Snapshots!SnapshotAssumption, StoreInv, NEW o \in Snapshots!Ops, Snapshots!Cancel(o) PROVE StoreInv'
<1>0. /\ StoreTypeOK /\ OpsFit /\ AllKept /\ Unique /\ Selected /\ Snapshots!CleanSettles
      /\ o \notin stores /\ ops[o] \in OpRecords /\ OpFits(ops[o]) /\ Snapshots!Running(o)
      /\ ops[o].at \notin {"failed", "done"}
  BY  DEF StoreInv, Snapshots!Cancel, Snapshots!At, OpsFit, StoreTypeOK
<1>1. /\ OpGoes(o, IF ops[o].at = "copying" THEN "orphan" ELSE "ended") /\ event_bus'
      /\ UNCHANGED <<written, markers, listed, project, auto_clean, choices, scheduled, adds, stores, commit, restarts, disturbed, torn>>
  BY <1>0, ToGoes DEF Snapshots!Cancel, Snapshots!Places, Snapshots!user, Snapshots!queue, Snapshots!world, Snapshots!At
<1>2. /\ files' \in [Snapshots!Names -> {"none", "partial", "whole"}]
      /\ \/ files' = files
         \/ /\ ops[o].snapshot.name \in Snapshots!Names /\ Makes(o, ops[o].snapshot.name) /\ ops[o].at # "using" /\ Snapshots!Running(o) /\ ops[o].at # "copying"
            /\ files'[ops[o].snapshot.name] = "none"
            /\ \A n \in Snapshots!Names : n # ops[o].snapshot.name => files'[n] = files[n]
  BY <1>0, CleanupRemoves DEF Snapshots!Cancel, Snapshots!At, OpFits, StoreTypeOK
<1>3. StoreTypeOK'
  BY <1>0, <1>1, <1>2 DEF StoreTypeOK, OpGoes, OpChanges
<1>4. OpsFit'
  BY <1>0, <1>1, <1>2 DEF OpsFit, OpFits, Unfetched, OpGoes, OpChanges
<1>5. AllKept'
  <2>1. SUFFICES ASSUME NEW n \in Snapshots!Names, n \notin disturbed' PROVE Kept(n)'
    BY DEF AllKept
  <2>2. Kept(n) /\ n \notin disturbed
    BY <2>1, <1>0, <1>1 DEF AllKept
  <2>3. n = ops[o].snapshot.name /\ Makes(o, n) /\ ops[o].at # "using" =>
           /\ ~IsListed(n) /\ ~IsAdded(n)
           /\ \A j \in Snapshots!Ops : j # o => ~Makes(j, n) /\ (Snapshots!Running(j) /\ ops[j].kind # "kernel" => ops[j].snapshot.name # n)
    BY <2>2, <1>0, MakerAlone DEF Makes, Snapshots!Running
  <2>9. QED
    BY <2>1, <2>2, <2>3, <1>0, <1>1, <1>2, NoneIsNoName DEF Kept, Makes, Snapshots!Running, Intact, IsListed,
       IsAdded, OpGoes, OpChanges
<1>6. Unique'
  BY <1>0, <1>1, <1>2 DEF Unique
<1>7. Selected'
  BY <1>0, <1>1, <1>2 DEF Selected, IsListed
<1>8. Snapshots!CleanSettles'
  BY <1>0, <1>1, <1>2, UnusedShrinks, NamesArePositive DEF Snapshots!CleanSettles, Snapshots!Uses,
     Snapshots!Running, OpsFit, OpFits, Unfetched, Snapshots!NoSnapshot, Snapshots!Snapshot, OpGoes, OpChanges
<1>9. QED
  BY <1>3, <1>4, <1>5, <1>6, <1>7, <1>8 DEF StoreInv

\* the part of store_project_snapshot() that is about one build
StoresOne(o) == /\ \A s \in adds : s.name # ops[o].target
                /\ stores' = stores \ {o} /\ project' = [id |-> ops[o].snapshot.name, latest |-> FALSE]
\* The project gets the snapshot of a build, which is listed by then or disturbed.
LEMMA StoreOneKeeps ==
  ASSUME Snapshots!SnapshotAssumption, StoreInv, NEW o \in stores, StoresOne(o), event_bus' = TRUE,
         UNCHANGED <<files, written, markers, listed, auto_clean, choices, scheduled, adds, ops, commit, restarts, disturbed, torn>>
  PROVE  StoreInv'
<1>0. /\ StoreTypeOK /\ OpsFit /\ AllKept /\ Unique /\ Selected /\ Snapshots!CleanSettles
      /\ o \in Snapshots!Ops /\ ops[o].at = "using" /\ ops[o].kind = "build" /\ ops[o].snapshot.name \in Snapshots!Names
      /\ stores' = stores \ {o} /\ project' = [id |-> ops[o].snapshot.name, latest |-> FALSE] /\ \A s \in adds : s.name # ops[o].target
  BY NamedItem DEF StoreInv, StoreTypeOK, OpsFit, OpFits, StoresOne
<1>1. project' \in Projects /\ project'.id = ops[o].snapshot.name
  BY <1>0 DEF Projects
<1>3. StoreTypeOK'
  BY <1>0, <1>1 DEF StoreTypeOK
<1>4. OpsFit'
  BY <1>0, <1>1 DEF OpsFit, OpFits, Unfetched
<1>5. AllKept'
  <2>1. SUFFICES ASSUME NEW n \in Snapshots!Names, n \notin disturbed' PROVE Kept(n)'
    BY DEF AllKept
  <2>2. Kept(n) /\ n \notin disturbed
    BY <2>1, <1>0, <1>1 DEF AllKept
  <2>9. QED
    BY <2>1, <2>2, <1>0, <1>1, NoneIsNoName DEF Kept, Makes, Snapshots!Running, Intact, IsListed, IsAdded
<1>6. Unique'
  BY <1>0, <1>1 DEF Unique
<1>7. Selected'
  <2>1. ASSUME ops[o].snapshot.name \notin disturbed PROVE IsListed(ops[o].snapshot.name)
    BY <1>0, <2>1 DEF AllKept, Kept, Snapshots!Running, IsAdded
  <2>2. QED
    BY <1>0, <1>1, <2>1 DEF Selected, IsListed
<1>8. Snapshots!CleanSettles'
  BY <1>0, <1>1, UnusedShrinks, NamesArePositive DEF Snapshots!CleanSettles, Snapshots!Uses, Snapshots!Running,
     OpsFit, OpFits, Unfetched, Snapshots!NoSnapshot, Snapshots!Snapshot
<1>9. QED
  BY <1>3, <1>4, <1>5, <1>6, <1>7, <1>8 DEF StoreInv

\* A callback of the event bus schedules the cleaning.
LEMMA ScheduleAutoCleanKeeps ==
  ASSUME Snapshots!SnapshotAssumption, StoreInv, Snapshots!schedule_auto_clean PROVE StoreInv'
<1>0. /\ StoreTypeOK /\ OpsFit /\ AllKept /\ Unique /\ Selected /\ Snapshots!CleanSettles
  BY  DEF StoreInv, Snapshots!schedule_auto_clean
<1>1. /\ event_bus' = FALSE /\ scheduled' \in BOOLEAN /\ (auto_clean => scheduled')
      /\ UNCHANGED <<files, written, markers, listed, project, auto_clean, choices, adds, stores, ops, commit,
                     restarts, disturbed, torn>>
  BY <1>0 DEF Snapshots!schedule_auto_clean, Snapshots!disk, Snapshots!user, Snapshots!queue, Snapshots!world,
     StoreTypeOK
<1>3. StoreTypeOK'
  BY <1>0, <1>1 DEF StoreTypeOK
<1>4. OpsFit'
  BY <1>0, <1>1 DEF OpsFit, OpFits, Unfetched
<1>5. AllKept'
  <2>1. SUFFICES ASSUME NEW n \in Snapshots!Names, n \notin disturbed' PROVE Kept(n)'
    BY DEF AllKept
  <2>2. Kept(n) /\ n \notin disturbed
    BY <2>1, <1>0, <1>1 DEF AllKept
  <2>9. QED
    BY <2>1, <2>2, <1>0, <1>1, NoneIsNoName DEF Kept, Makes, Snapshots!Running, Intact, IsListed, IsAdded
<1>6. Unique'
  BY <1>0, <1>1 DEF Unique
<1>7. Selected'
  BY <1>0, <1>1 DEF Selected, IsListed
<1>8. Snapshots!CleanSettles'
  BY <1>0, <1>1, UnusedShrinks, NamesArePositive DEF Snapshots!CleanSettles, Snapshots!Uses, Snapshots!Running,
     OpsFit, OpFits, Unfetched, Snapshots!NoSnapshot, Snapshots!Snapshot
<1>9. QED
  BY <1>3, <1>4, <1>5, <1>6, <1>7, <1>8 DEF StoreInv

\* The setting is changed.
LEMMA ToggleAutoCleanKeeps ==
  ASSUME Snapshots!SnapshotAssumption, StoreInv, Snapshots!ToggleAutoClean PROVE StoreInv'
<1>0. /\ StoreTypeOK /\ OpsFit /\ AllKept /\ Unique /\ Selected /\ Snapshots!CleanSettles
  BY  DEF StoreInv, Snapshots!ToggleAutoClean
<1>1. /\ event_bus' /\ auto_clean' \in BOOLEAN
      /\ UNCHANGED <<files, written, markers, listed, project, scheduled, adds, stores, ops, commit, restarts, disturbed, torn>>
  BY <1>0 DEF Snapshots!ToggleAutoClean, Snapshots!disk, Snapshots!user, Snapshots!queue, Snapshots!world, StoreTypeOK
<1>3. StoreTypeOK'
  BY <1>0, <1>1 DEF StoreTypeOK
<1>4. OpsFit'
  BY <1>0, <1>1 DEF OpsFit, OpFits, Unfetched
<1>5. AllKept'
  <2>1. SUFFICES ASSUME NEW n \in Snapshots!Names, n \notin disturbed' PROVE Kept(n)'
    BY DEF AllKept
  <2>2. Kept(n) /\ n \notin disturbed
    BY <2>1, <1>0, <1>1 DEF AllKept
  <2>9. QED
    BY <2>1, <2>2, <1>0, <1>1, NoneIsNoName DEF Kept, Makes, Snapshots!Running, Intact, IsListed, IsAdded
<1>6. Unique'
  BY <1>0, <1>1 DEF Unique
<1>7. Selected'
  BY <1>0, <1>1 DEF Selected, IsListed
<1>8. Snapshots!CleanSettles'
  BY <1>0, <1>1, UnusedShrinks, NamesArePositive DEF Snapshots!CleanSettles, Snapshots!Uses, Snapshots!Running,
     OpsFit, OpFits, Unfetched, Snapshots!NoSnapshot, Snapshots!Snapshot
<1>9. QED
  BY <1>3, <1>4, <1>5, <1>6, <1>7, <1>8 DEF StoreInv

\* The user selects a snapshot for the project.
LEMMA SelectSnapshotKeeps ==
  ASSUME Snapshots!SnapshotAssumption, StoreInv, Snapshots!SelectSnapshot PROVE StoreInv'
<1>0. /\ StoreTypeOK /\ OpsFit /\ AllKept /\ Unique /\ Selected /\ Snapshots!CleanSettles
  BY  DEF StoreInv, Snapshots!SelectSnapshot
<1>1. /\ event_bus' /\ project' \in Projects /\ (project'.latest \/ IsListed(project'.id))
      /\ UNCHANGED <<files, written, markers, listed, auto_clean, scheduled, adds, stores, ops, commit, restarts, disturbed, torn>>
  <2>1. CASE project' = [project EXCEPT !.latest = TRUE]
    BY <1>0, <2>1 DEF Snapshots!SelectSnapshot, Snapshots!disk, Snapshots!queue, Snapshots!world, StoreTypeOK, Projects
  <2>2. ASSUME NEW s \in listed, project' = [id |-> s.name, latest |-> FALSE] PROVE project' \in Projects /\ IsListed(project'.id)
    BY <1>0, <2>2, ListedNames DEF Projects, IsListed
  <2>3. QED
    BY <2>1, <2>2 DEF Snapshots!SelectSnapshot, Snapshots!disk, Snapshots!queue, Snapshots!world
<1>3. StoreTypeOK'
  BY <1>0, <1>1 DEF StoreTypeOK
<1>4. OpsFit'
  BY <1>0, <1>1 DEF OpsFit, OpFits, Unfetched
<1>5. AllKept'
  <2>1. SUFFICES ASSUME NEW n \in Snapshots!Names, n \notin disturbed' PROVE Kept(n)'
    BY DEF AllKept
  <2>2. Kept(n) /\ n \notin disturbed
    BY <2>1, <1>0, <1>1 DEF AllKept
  <2>9. QED
    BY <2>1, <2>2, <1>0, <1>1, NoneIsNoName DEF Kept, Makes, Snapshots!Running, Intact, IsListed, IsAdded
<1>6. Unique'
  BY <1>0, <1>1 DEF Unique
<1>7. Selected'
  BY <1>0, <1>1 DEF Selected, IsListed
<1>8. Snapshots!CleanSettles'
  BY <1>0, <1>1, UnusedShrinks, NamesArePositive DEF Snapshots!CleanSettles, Snapshots!Uses, Snapshots!Running,
     OpsFit, OpFits, Unfetched, Snapshots!NoSnapshot, Snapshots!Snapshot
<1>9. QED
  BY <1>3, <1>4, <1>5, <1>6, <1>7, <1>8 DEF StoreInv

\* The repository gets a commit.
LEMMA NewCommitKeeps ==
  ASSUME Snapshots!SnapshotAssumption, StoreInv, Snapshots!NewCommit PROVE StoreInv'
<1>0. /\ StoreTypeOK /\ OpsFit /\ AllKept /\ Unique /\ Selected /\ Snapshots!CleanSettles
  BY  DEF StoreInv, Snapshots!NewCommit
<1>1. /\ commit' \in Commits
      /\ UNCHANGED <<files, written, markers, listed, project, auto_clean, choices, event_bus, scheduled, adds,
                     stores, ops, restarts, disturbed, torn>>
  BY <1>0 DEF Snapshots!NewCommit, Snapshots!disk, Snapshots!user, Snapshots!queue, Snapshots!world
<1>3. StoreTypeOK'
  BY <1>0, <1>1 DEF StoreTypeOK
<1>4. OpsFit'
  BY <1>0, <1>1 DEF OpsFit, OpFits, Unfetched
<1>5. AllKept'
  <2>1. SUFFICES ASSUME NEW n \in Snapshots!Names, n \notin disturbed' PROVE Kept(n)'
    BY DEF AllKept
  <2>2. Kept(n) /\ n \notin disturbed
    BY <2>1, <1>0, <1>1 DEF AllKept
  <2>9. QED
    BY <2>1, <2>2, <1>0, <1>1, NoneIsNoName DEF Kept, Makes, Snapshots!Running, Intact, IsListed, IsAdded
<1>6. Unique'
  BY <1>0, <1>1 DEF Unique
<1>7. Selected'
  BY <1>0, <1>1 DEF Selected, IsListed
<1>8. Snapshots!CleanSettles'
  BY <1>0, <1>1, UnusedShrinks, NamesArePositive DEF Snapshots!CleanSettles, Snapshots!Uses, Snapshots!Running,
     OpsFit, OpFits, Unfetched, Snapshots!NoSnapshot, Snapshots!Snapshot
<1>9. QED
  BY <1>3, <1>4, <1>5, <1>6, <1>7, <1>8 DEF StoreInv

\* The user deletes a file on the Library page.
LEMMA DeleteOnPageKeeps ==
  ASSUME Snapshots!SnapshotAssumption, StoreInv, NEW n \in Snapshots!Names, Snapshots!DeleteOnPage(n) PROVE StoreInv'
<1>0. /\ StoreTypeOK /\ OpsFit /\ AllKept /\ Unique /\ Selected /\ Snapshots!CleanSettles
  BY  DEF StoreInv, Snapshots!DeleteOnPage
<1>1. /\ files' \in [Snapshots!Names -> {"none", "partial", "whole"}] /\ \A m \in Snapshots!Names : m # n => files'[m] = files[m]
      /\ markers' \subseteq Imports /\ disturbed' = disturbed \cup {n}
      /\ UNCHANGED <<written, listed, project, auto_clean, event_bus, scheduled, adds, stores, ops, commit, restarts, torn>>
  BY <1>0 DEF Snapshots!DeleteOnPage, Snapshots!disk, Snapshots!user, Snapshots!queue, Snapshots!world, StoreTypeOK
<1>3. StoreTypeOK'
  BY <1>0, <1>1 DEF StoreTypeOK
<1>4. OpsFit'
  BY <1>0, <1>1 DEF OpsFit, OpFits, Unfetched
<1>5. AllKept'
  <2>1. SUFFICES ASSUME NEW m \in Snapshots!Names, m \notin disturbed' PROVE Kept(m)'
    BY DEF AllKept
  <2>2. Kept(m) /\ m \notin disturbed /\ m # n
    BY <2>1, <1>0, <1>1 DEF AllKept
  <2>9. QED
    BY <2>1, <2>2, <1>0, <1>1, NoneIsNoName DEF Kept, Makes, Snapshots!Running, Intact, IsListed, IsAdded
<1>6. Unique'
  BY <1>0, <1>1 DEF Unique
<1>7. Selected'
  BY <1>0, <1>1 DEF Selected, IsListed
<1>8. Snapshots!CleanSettles'
  BY <1>0, <1>1, UnusedShrinks, NamesArePositive DEF Snapshots!CleanSettles, Snapshots!Uses, Snapshots!Running,
     OpsFit, OpFits, Unfetched, Snapshots!NoSnapshot, Snapshots!Snapshot
<1>9. QED
  BY <1>3, <1>4, <1>5, <1>6, <1>7, <1>8 DEF StoreInv

\* The user removes a snapshot in its view.
LEMMA RemoveOneInViewKeeps ==
  ASSUME Snapshots!SnapshotAssumption, StoreInv, NEW s \in listed, Snapshots!Remove({s}),
         disturbed' = disturbed \cup {s.name},
         UNCHANGED <<project, auto_clean, scheduled, adds, stores, ops, commit, restarts, torn>> PROVE StoreInv'
<1>0. /\ StoreTypeOK /\ OpsFit /\ AllKept /\ Unique /\ Selected /\ Snapshots!CleanSettles
      /\ s.name \in Snapshots!Names
  BY ListedNames DEF StoreInv
<1>1. /\ files' \in [Snapshots!Names -> {"none", "partial", "whole"}] /\ markers' \subseteq Imports /\ event_bus'
      /\ written' = written
      /\ listed' = listed \ {s} /\ \A n \in Snapshots!Names : n # s.name => files'[n] = files[n]
  BY <1>0, RemoveTakes
<1>3. StoreTypeOK'
  BY <1>0, <1>1 DEF StoreTypeOK
<1>4. OpsFit'
  BY <1>0, <1>1 DEF OpsFit, OpFits, Unfetched
<1>5. AllKept'
  <2>1. SUFFICES ASSUME NEW n \in Snapshots!Names, n \notin disturbed' PROVE Kept(n)'
    BY DEF AllKept
  <2>2. Kept(n) /\ n \notin disturbed
    BY <2>1, <1>0, <1>1 DEF AllKept
  <2>9. QED
    BY <2>1, <2>2, <1>0, <1>1, NoneIsNoName DEF Kept, Makes, Snapshots!Running, Intact, IsListed, IsAdded
<1>6. Unique'
  BY <1>0, <1>1 DEF Unique
<1>7. Selected'
  BY <1>0, <1>1 DEF Selected, IsListed
<1>8. Snapshots!CleanSettles'
  BY <1>0, <1>1 DEF Snapshots!CleanSettles
<1>9. QED
  BY <1>3, <1>4, <1>5, <1>6, <1>7, <1>8 DEF StoreInv

\* The same for any snapshot of the list
LEMMA RemoveInViewKeeps == ASSUME Snapshots!SnapshotAssumption, StoreInv, Snapshots!RemoveInView PROVE StoreInv'
BY RemoveOneInViewKeeps DEF Snapshots!RemoveInView, Snapshots!queue

\* Cleaning takes what is not used, and with it no file that anybody has.
LEMMA AutoCleanTakesKeeps ==
  ASSUME Snapshots!SnapshotAssumption, StoreInv, Snapshots!Remove(Snapshots!unused_snapshots), scheduled' = FALSE,
         UNCHANGED <<project, auto_clean, choices, adds, stores, ops, commit, restarts, disturbed, torn>>
  PROVE  StoreInv'
<1>0. /\ StoreTypeOK /\ OpsFit /\ AllKept /\ Unique /\ Selected /\ Snapshots!CleanSettles
  BY  DEF StoreInv
<1>1. /\ files' \in [Snapshots!Names -> {"none", "partial", "whole"}] /\ markers' \subseteq Imports
      /\ written' = written
      /\ listed' = listed \ Snapshots!unused_snapshots /\ (event_bus' <=> event_bus \/ Snapshots!unused_snapshots # {}) /\ event_bus' \in BOOLEAN
      /\ \A n \in Snapshots!Names : files'[n] = files[n] \/ \E s \in Snapshots!unused_snapshots : s.name = n
  <2>1. Snapshots!unused_snapshots \subseteq listed
    BY DEF Snapshots!unused_snapshots
  <2>2. QED
    BY <1>0, <2>1, RemoveTakes
<1>3. StoreTypeOK'
  BY <1>0, <1>1 DEF StoreTypeOK
<1>4. OpsFit'
  BY <1>0, <1>1 DEF OpsFit, OpFits, Unfetched
<1>5. AllKept'
  <2>1. SUFFICES ASSUME NEW n \in Snapshots!Names, n \notin disturbed' PROVE Kept(n)'
    BY DEF AllKept
  <2>2. Kept(n) /\ n \notin disturbed
    BY <2>1, <1>0, <1>1 DEF AllKept
  <2>3. ASSUME NEW s \in Snapshots!unused_snapshots, s.name = n
        PROVE  /\ ~IsListed(n)' /\ \A o \in Snapshots!Ops : ~Makes(o, n)
               /\ \A o \in Snapshots!Ops : Snapshots!Running(o) /\ ops[o].kind # "kernel" => ops[o].snapshot.name # n
    <3>1. s \in listed /\ \A o \in Snapshots!Ops : ~Snapshots!Uses(o, n)
      BY <2>3 DEF Snapshots!unused_snapshots
    <3>2. ~IsListed(n)'
      BY <1>0, <1>1, <2>3, <3>1 DEF Unique, IsListed
    <3>3. ASSUME NEW o \in Snapshots!Ops, Makes(o, n) PROVE FALSE
      <4>1. ops[o].at = "using"
        BY <2>2, <2>3, <3>1, <3>3 DEF Kept, IsListed
      <4>2. ops[o].kind = "build" /\ ops[o].snapshot.name = n
        BY <2>2, <4>1, <3>3, <1>0, NoneIsNoName DEF OpsFit, OpFits, Kept, Makes
      <4>3. QED
        BY <3>1, <4>1, <4>2 DEF Snapshots!Uses, Snapshots!Running
    <3>4. QED
      BY <3>1, <3>2, <3>3 DEF Snapshots!Uses
  <2>4. CASE \E s \in Snapshots!unused_snapshots : s.name = n
    <3>1. IsListed(n) /\ ~IsAdded(n)
      BY <2>2, <2>4 DEF Snapshots!unused_snapshots, Kept, IsListed
    <3>2. ~IsAdded(n)'
      BY <3>1, <1>1 DEF IsAdded
    <3>3. QED
      BY <2>2, <2>3, <2>4, <3>2, <1>0, <1>1 DEF Kept, Makes, Snapshots!Running, IsListed, IsAdded
  <2>5. CASE ~\E s \in Snapshots!unused_snapshots : s.name = n
    <3>1. files'[n] = files[n] /\ (IsListed(n)' <=> IsListed(n))
      BY <2>5, <1>1 DEF IsListed
    <3>2. QED
      BY <2>2, <3>1, <1>1 DEF Kept, Makes, Snapshots!Running, Intact, IsAdded
  <2>9. QED
    BY <2>4, <2>5
<1>6. Unique'
  BY <1>0, <1>1 DEF Unique
<1>7. Selected'
  <2>1. ASSUME NEW s \in listed, s.name = project.id, ~project.latest PROVE s \in listed'
    BY <1>1, <2>1 DEF Snapshots!unused_snapshots, Snapshots!ProjectSnapshot, Snapshots!Named
  <2>2. QED
    BY <1>0, <2>1 DEF Selected, IsListed
<1>8. Snapshots!CleanSettles'
  <2>1. ASSUME ~event_bus' PROVE listed' = listed /\ Snapshots!unused_snapshots = {}
    BY <1>1, <2>1
  <2>2. QED
    BY <1>0, <2>1, UnusedShrinks DEF Snapshots!CleanSettles, Snapshots!Uses, Snapshots!Running
<1>9. QED
  BY <1>3, <1>4, <1>5, <1>6, <1>7, <1>8 DEF StoreInv

\* The scheduled cleaning, with the setting on or off
LEMMA AutoCleanKeeps == ASSUME Snapshots!SnapshotAssumption, StoreInv, Snapshots!AutoClean PROVE StoreInv'
<1>1. scheduled' = FALSE /\ UNCHANGED <<Snapshots!user, Snapshots!queue, ops, Snapshots!world>>
  BY DEF Snapshots!AutoClean
<1>2. CASE auto_clean
  BY <1>1, <1>2, AutoCleanTakesKeeps DEF Snapshots!AutoClean, Snapshots!user, Snapshots!queue, Snapshots!world
<1>3. CASE ~auto_clean
  <2>1. UNCHANGED <<Snapshots!disk, listed, event_bus>>
    BY <1>3 DEF Snapshots!AutoClean
  <2>2. StoreTypeOK /\ OpsFit /\ AllKept /\ Unique /\ Selected
    BY DEF StoreInv
  <2>3. StoreTypeOK' /\ OpsFit'
    BY <1>1, <2>1, <2>2 DEF StoreTypeOK, OpsFit, OpFits, Snapshots!disk, Snapshots!user, Snapshots!queue, Snapshots!world
  <2>4. AllKept'
    BY <1>1, <2>1, <2>2 DEF AllKept, Kept, Makes, Snapshots!Running, Intact, IsListed, IsAdded, Snapshots!disk,
       Snapshots!queue, Snapshots!world
  <2>5. Unique' /\ Selected' /\ Snapshots!CleanSettles'
    BY <1>1, <1>3, <2>1, <2>2 DEF Unique, Selected, IsListed, Snapshots!CleanSettles, Snapshots!user, Snapshots!world
  <2>6. QED
    BY <2>3, <2>4, <2>5 DEF StoreInv
<1>4. QED
  BY <1>2, <1>3

\* A snapshot gets the date that is in its file. The newest of the list stays the newest, as that date is earlier.
LEMMA DatesKeeps ==
  ASSUME Snapshots!SnapshotAssumption, StoreInv, NEW o \in Snapshots!Ops, NEW dated,
         dated = [ops[o].snapshot EXCEPT !.date = DateInside[ops[o].snapshot.name]],
         ops[o].at = "analyze", ops' = [ops EXCEPT ![o] = [@ EXCEPT !.at = "done", !.snapshot = dated]],
         listed' = IF ops[o].reused THEN {IF v = ops[o].snapshot THEN dated ELSE v : v \in listed} ELSE listed,
         UNCHANGED <<files, written, markers, project, auto_clean, choices, event_bus, scheduled, adds, stores,
                     commit, restarts, disturbed, torn>>
  PROVE  StoreInv'
<1>0. /\ StoreTypeOK /\ OpsFit /\ AllKept /\ Unique /\ Selected /\ Snapshots!CleanSettles
      /\ o \notin stores /\ ops[o] \in OpRecords /\ OpFits(ops[o]) /\ ops[o].snapshot \in Items
      /\ ops[o].snapshot.name \in Snapshots!Names
      /\ ops[o].kind \in {"generate", "import"}
  BY NamedItem DEF StoreInv, OpsFit, OpFits, StoreTypeOK
<1>1. /\ dated \in Items /\ dated.name = ops[o].snapshot.name /\ dated.date <= ops[o].snapshot.date
      /\ ops' \in [Snapshots!Ops -> OpRecords] /\ \A j \in Snapshots!Ops : j # o => ops'[j] = ops[j]
      /\ ops'[o].at = "done" /\ ops'[o].kind = ops[o].kind /\ ops'[o].target = ops[o].target
      /\ ops'[o].snapshot = dated /\ ops'[o].reused = ops[o].reused /\ ops'[o].store = ops[o].store
  <2>1. DateInside[ops[o].snapshot.name] \in Nat /\ DateInside[ops[o].snapshot.name] <= ops[o].snapshot.date
    BY <1>0, NamesArePositive DEF Items
  <2>2. /\ dated \in [name : Snapshots!Names, date : Nat, from_file : BOOLEAN] /\ dated.name = ops[o].snapshot.name
        /\ dated.date = DateInside[ops[o].snapshot.name] /\ dated.from_file = ops[o].snapshot.from_file
    BY <1>0, <2>1 DEF Items
  <2>3. dated \in Items
    BY <1>0, <2>1, <2>2, NamesArePositive DEF Items
  <2>4. [ops[o] EXCEPT !.at = "done", !.snapshot = dated] \in OpRecords
    BY <1>0, <2>3 DEF OpRecords, Snapshots!Places
  <2>5. QED
    BY <1>0, <2>1, <2>2, <2>3, <2>4 DEF StoreTypeOK, OpRecords

<1>2. /\ listed' \subseteq Items /\ \A n \in Snapshots!Names \cup {Snapshots!None} : IsListed(n)' <=> IsListed(n)
      /\ \A v \in listed' : (v = dated /\ ops[o].snapshot \in listed) \/ v \in listed
      /\ \A v \in listed : v \in listed' \/ (v = ops[o].snapshot /\ dated \in listed')
  <2>1. CASE ops[o].reused
    <3>1. listed' = {IF v = ops[o].snapshot THEN dated ELSE v : v \in listed} /\ listed \subseteq Items
      BY <1>0, <2>1 DEF StoreTypeOK
    <3>2. \A v \in listed' : (v = dated /\ ops[o].snapshot \in listed) \/ v \in listed
      BY <3>1
    <3>3. \A v \in listed : v \in listed' \/ (v = ops[o].snapshot /\ dated \in listed')
      BY <3>1
    <3>4. listed' \subseteq Items
      BY <1>1, <3>1, <3>2
    <3>5. \A n \in Snapshots!Names \cup {Snapshots!None} : IsListed(n)' <=> IsListed(n)
      <4>1. ASSUME NEW n, NEW v \in listed, v.name = n PROVE \E x \in listed' : x.name = n
        BY <1>1, <3>3, <4>1
      <4>2. ASSUME NEW n, NEW v \in listed', v.name = n PROVE \E x \in listed : x.name = n
        BY <1>1, <3>2, <4>2
      <4>3. QED
        BY <4>1, <4>2 DEF IsListed
    <3>6. QED
      BY <3>2, <3>3, <3>4, <3>5
  <2>2. CASE ~ops[o].reused
    BY <1>0, <1>1, <2>2 DEF StoreTypeOK, IsListed
  <2>3. QED
    BY <2>1, <2>2
<1>3. StoreTypeOK'
  BY <1>0, <1>1, <1>2 DEF StoreTypeOK, OpGoes, OpChanges
<1>4. OpsFit'
  BY <1>0, <1>1, <1>2 DEF OpsFit, OpFits, Unfetched, OpGoes, OpChanges
<1>5. AllKept'
  <2>1. SUFFICES ASSUME NEW n \in Snapshots!Names, n \notin disturbed' PROVE Kept(n)'
    BY DEF AllKept
  <2>2. Kept(n) /\ n \notin disturbed
    BY <2>1, <1>0, <1>1 DEF AllKept
  <2>3. ASSUME NEW j \in Snapshots!Ops
        PROVE  /\ ops'[j].kind = ops[j].kind /\ ops'[j].target = ops[j].target
               /\ ops'[j].snapshot.name = ops[j].snapshot.name
               /\ \A x \in {"using", "generate", "writing", "copying", "orphan"} : ops'[j].at = x <=> ops[j].at = x
               /\ Snapshots!Running(j)' <=> Snapshots!Running(j)
    BY <1>0, <1>1 DEF Snapshots!Running
  <2>4. \A j \in Snapshots!Ops : Makes(j, n)' <=> Makes(j, n)
    BY <2>3 DEF Makes, Snapshots!Running
  <2>5. (IsListed(n)' <=> IsListed(n)) /\ (IsAdded(n)' <=> IsAdded(n)) /\ (Intact(n)' <=> Intact(n))
    BY <1>2 DEF IsAdded, Intact
  <2>9. QED
    BY <2>2, <2>3, <2>4, <2>5 DEF Kept
<1>6. Unique'
  <2>1. ASSUME NEW s \in listed', NEW v \in listed', s.name = v.name PROVE s = v
    <3>1. CASE ~ops[o].reused
      BY <1>0, <2>1, <3>1 DEF Unique
    <3>2. CASE ops[o].reused
      <4>1. PICK x \in listed : s = IF x = ops[o].snapshot THEN dated ELSE x
        BY <2>1, <3>2
      <4>2. PICK y \in listed : v = IF y = ops[o].snapshot THEN dated ELSE y
        BY <2>1, <3>2
      <4>3. x.name = y.name
        BY <1>1, <2>1, <4>1, <4>2
      <4>4. QED
        BY <1>0, <4>1, <4>2, <4>3 DEF Unique
    <3>3. QED
      BY <3>1, <3>2
  <2>2. QED
    BY <2>1 DEF Unique

<1>7. Selected'
  BY <1>0, <1>2 DEF Selected, StoreTypeOK, Projects

<1>8. Snapshots!CleanSettles'
  <2>1. SUFFICES ASSUME auto_clean, ~event_bus, ~scheduled, NEW v \in Snapshots!unused_snapshots' PROVE FALSE
    BY DEF Snapshots!CleanSettles
  <2>2. Snapshots!unused_snapshots = {}
    BY <1>0, <2>1 DEF Snapshots!CleanSettles
  <2>3. /\ v \in listed' /\ v \notin Snapshots!Newest(listed') /\ v \notin Snapshots!ProjectSnapshot'
        /\ \A j \in Snapshots!Ops : ~Snapshots!Uses(j, v.name)'
    BY DEF Snapshots!unused_snapshots
  <2>4. Snapshots!Uses(o, dated.name)' /\ \A j \in Snapshots!Ops, n \in Snapshots!Names : Snapshots!Uses(j, n) => Snapshots!Uses(j, n)'
    BY <1>0, <1>1 DEF Snapshots!Uses, Snapshots!Running
  <2>5. v # dated /\ v \in listed /\ v \in Items /\ v.name \in Snapshots!Names
    BY <1>0, <1>2, <2>3, <2>4, ListedNames
  <2>6. \A j \in Snapshots!Ops : ~Snapshots!Uses(j, v.name)
    BY <2>3, <2>4, <2>5
  <2>7. v \in Snapshots!Newest(listed) \cup Snapshots!ProjectSnapshot
    BY <2>2, <2>5, <2>6 DEF Snapshots!unused_snapshots
  <2>8. v \notin Snapshots!Newest(listed)
    <3>1. SUFFICES ASSUME v \in Snapshots!Newest(listed), NEW u \in listed'
                   PROVE  u.date < v.date \/ (u.date = v.date /\ u.name >= v.name)
      BY <2>3 DEF Snapshots!Newest
    <3>2. \A x \in listed : x.date < v.date \/ (x.date = v.date /\ x.name >= v.name)
      BY <3>1 DEF Snapshots!Newest
    <3>3. v.date \in Nat /\ dated.date \in Nat /\ ops[o].snapshot.date \in Nat
      BY <1>0, <1>1, <2>5 DEF Items
    <3>4. CASE u = dated /\ ops[o].snapshot \in listed
      <4>1. \/ ops[o].snapshot.date < v.date
            \/ ops[o].snapshot.date = v.date /\ ops[o].snapshot.name >= v.name
        BY <3>2, <3>4
      <4>2. dated.date <= ops[o].snapshot.date /\ dated.name = ops[o].snapshot.name
        BY <1>1
      <4>3. QED
        BY <3>3, <3>4, <4>1, <4>2
    <3>5. QED
      BY <1>2, <3>1, <3>2, <3>4
  <2>9. QED
    BY <1>0, <2>3, <2>5, <2>7, <2>8 DEF Snapshots!ProjectSnapshot, Snapshots!Named

<1>9. QED
  BY <1>3, <1>4, <1>5, <1>6, <1>7, <1>8 DEF StoreInv

\* The file of a snapshot is analyzed.
LEMMA AnalyzeKeeps ==
  ASSUME Snapshots!SnapshotAssumption, StoreInv, NEW o \in Snapshots!Ops, Snapshots!Analyze(o) PROVE StoreInv'
BY GivesUpKeeps, DatesKeeps DEF Snapshots!Analyze, Snapshots!At, Snapshots!Running, Snapshots!disk, Snapshots!user,
   Snapshots!queue, Snapshots!world

\* Operations are begun: an installation, a copy, a build, a kernel's build.
LEMMA BeginningsKeep ==
  ASSUME Snapshots!SnapshotAssumption, StoreInv, NEW o \in Snapshots!Ops,
         Snapshots!BeginInstallation(o) \/ Snapshots!BeginFromFile(o) \/ Snapshots!BeginBuild(o) \/ Snapshots!BeginKernel(o)
  PROVE  StoreInv'
<1>1. StoreTypeOK /\ \A s \in listed : s \in Items /\ s.name \in Snapshots!Names /\ s.name # Snapshots!None /\ IsListed(s.name)
  BY ListedNames, NoneIsNoName DEF StoreInv, IsListed
<1>2. Snapshots!ProjectSnapshot \subseteq listed
  BY DEF Snapshots!ProjectSnapshot, Snapshots!Newest, Snapshots!Named
<1>3. CASE Snapshots!BeginInstallation(o)
  <2>1. LET op == [Snapshots!NoOp EXCEPT !.kind = "generate", !.at = "lookup"] IN op \in OpRecords /\ OpFits(op)
    BY DEF Snapshots!NoOp, OpRecords, Snapshots!OperationKinds, Snapshots!Places, Snapshots!None,
       Snapshots!NoSnapshot, OpFits, Unfetched, Snapshots!Snapshot
  <2>2. [Snapshots!NoOp EXCEPT !.kind = "generate", !.at = "lookup"].at = "lookup"
    BY DEF Snapshots!NoOp
  <2>3. QED
    BY <1>3, <2>1, <2>2, BeginKeeps DEF Snapshots!BeginInstallation
<1>4. CASE Snapshots!BeginFromFile(o)
  <2>1. PICK n \in Imports : Snapshots!Begin(o, [Snapshots!NoOp EXCEPT !.kind = "import", !.at = "copy", !.target = n])
    BY <1>4 DEF Snapshots!BeginFromFile
  <2>2. LET op == [Snapshots!NoOp EXCEPT !.kind = "import", !.at = "copy", !.target = n] IN op \in OpRecords /\ OpFits(op)
    BY DEF Snapshots!NoOp, OpRecords, Snapshots!OperationKinds, Snapshots!Places, Snapshots!None,
       Snapshots!NoSnapshot, OpFits, Unfetched, Snapshots!Snapshot, Snapshots!Names
  <2>3. [Snapshots!NoOp EXCEPT !.kind = "import", !.at = "copy", !.target = n].at = "copy"
    BY DEF Snapshots!NoOp
  <2>4. QED
    BY <2>1, <2>2, <2>3, BeginKeeps
<1>5. ASSUME NEW store \in BOOLEAN, Snapshots!Begin(o, [Snapshots!NoOp EXCEPT !.kind = "build", !.at = "lookup", !.store = store])
      PROVE  StoreInv'
  <2>1. LET op == [Snapshots!NoOp EXCEPT !.kind = "build", !.at = "lookup", !.store = store] IN op \in OpRecords /\ OpFits(op)
    BY DEF Snapshots!NoOp, OpRecords, Snapshots!OperationKinds, Snapshots!Places, Snapshots!None,
       Snapshots!NoSnapshot, OpFits, Unfetched, Snapshots!Snapshot
  <2>2. [Snapshots!NoOp EXCEPT !.kind = "build", !.at = "lookup", !.store = store].at = "lookup"
    BY DEF Snapshots!NoOp
  <2>3. QED
    BY <1>5, <2>1, <2>2, BeginKeeps
<1>6. ASSUME NEW s \in listed, NEW kind \in {"build", "kernel"},
             Snapshots!Begin(o, [Snapshots!NoOp EXCEPT !.kind = kind, !.at = "using", !.snapshot = s])
      PROVE  StoreInv'
  <2> DEFINE op == [Snapshots!NoOp EXCEPT !.kind = kind, !.at = "using", !.snapshot = s]
  <2>1. /\ op.kind = kind /\ op.at = "using" /\ op.target = Snapshots!None /\ op.snapshot = s /\ ~op.reused /\ ~op.store
        /\ op \in OpRecords
    BY <1>1 DEF Snapshots!NoOp, OpRecords, Snapshots!OperationKinds, Snapshots!Places, Snapshots!None
  <2> HIDE DEF op
  <2>2. OpFits(op)
    BY <1>1, <2>1 DEF OpFits, Unfetched
  <2>3. Snapshots!Begin(o, op)
    BY <1>6 DEF op
  <2>4. QED
    BY <1>1, <2>1, <2>2, <2>3, BeginKeeps
<1>7. QED
  BY <1>2, <1>3, <1>4, <1>5, <1>6 DEF Snapshots!BeginBuild, Snapshots!BeginKernel

\* What was queued on the main loop is run.
LEMMA QueuedKeeps ==
  ASSUME Snapshots!SnapshotAssumption, StoreInv, Snapshots!AddQueued \/ Snapshots!store_project_snapshot PROVE StoreInv'
<1>1. CASE Snapshots!AddQueued
  <2>1. PICK s \in adds : Snapshots!add_snapshot(s) /\ adds' = adds \ {s}
    BY <1>1 DEF Snapshots!AddQueued
  <2>2. UNCHANGED <<files, written, project, auto_clean, choices, scheduled, stores, ops, commit, restarts,
                    disturbed, torn>>
    BY <1>1 DEF Snapshots!AddQueued, Snapshots!user, Snapshots!world
  <2>3. QED
    BY <2>1, <2>2, AddQueuedOneKeeps
<1>2. CASE Snapshots!store_project_snapshot
  <2>1. PICK o \in stores : StoresOne(o)
    BY <1>2 DEF Snapshots!store_project_snapshot, StoresOne
  <2>2. /\ event_bus' = TRUE
        /\ UNCHANGED <<files, written, markers, listed, auto_clean, choices, scheduled, adds, ops, commit, restarts, disturbed, torn>>
    BY <1>2 DEF Snapshots!store_project_snapshot, Snapshots!disk, Snapshots!world
  <2>3. QED
    BY <2>1, <2>2, StoreOneKeeps
<1>3. QED
  BY <1>1, <1>2

\* The app starts again: every file it finds is listed, and those that were being written are torn.
LEMMA RestartKeeps == ASSUME Snapshots!SnapshotAssumption, StoreInv, Snapshots!Restart PROVE StoreInv'
<1>0. StoreTypeOK /\ OpsFit /\ AllKept /\ Unique /\ Selected /\ Snapshots!NoSnapshot.name = Snapshots!None
  BY DEF StoreInv, Snapshots!NoSnapshot, Snapshots!Snapshot
<1>1. /\ UNCHANGED <<files, written, markers, project, auto_clean, commit, disturbed>>
      /\ adds' = {} /\ stores' = {} /\ event_bus' = FALSE /\ scheduled' = auto_clean
      /\ torn' = {n \in Snapshots!Names : files[n] = "partial"}
      /\ listed' = {Snapshots!Snapshot(n, 10 + written[n], n \in markers) : n \in {m \in Snapshots!Names : files[m] # "none"}}
  BY DEF Snapshots!Restart, Snapshots!disk, Snapshots!user
<1>2. \A o \in Snapshots!Ops : /\ ops'[o] \in OpRecords /\ OpFits(ops'[o]) /\ ops'[o].at \in {"none", "ended"}
                               /\ ops'[o].snapshot = Snapshots!NoSnapshot
  <2>1. ops' = [o \in Snapshots!Ops |-> IF Snapshots!At(o, "none") THEN Snapshots!NoOp ELSE [Snapshots!NoOp EXCEPT !.at = "ended"]]
    BY DEF Snapshots!Restart
  <2>2. [Snapshots!NoOp EXCEPT !.at = "ended"] \in OpRecords /\ OpFits([Snapshots!NoOp EXCEPT !.at = "ended"])
    BY DEF Snapshots!NoOp, OpRecords, Snapshots!OperationKinds, Snapshots!Places, Snapshots!None,
       Snapshots!NoSnapshot, OpFits, Unfetched, Snapshots!Snapshot
  <2>3. /\ Snapshots!NoOp.at = "none" /\ [Snapshots!NoOp EXCEPT !.at = "ended"].at = "ended"
        /\ Snapshots!NoOp.snapshot = Snapshots!NoSnapshot
        /\ [Snapshots!NoOp EXCEPT !.at = "ended"].snapshot = Snapshots!NoSnapshot
    BY DEF Snapshots!NoOp
  <2>4. QED
    BY <2>1, <2>2, <2>3, NoOpFits
<1>3. ops' \in [Snapshots!Ops -> OpRecords]
  <2>1. ops' = [o \in Snapshots!Ops |-> IF Snapshots!At(o, "none") THEN Snapshots!NoOp ELSE [Snapshots!NoOp EXCEPT !.at = "ended"]]
    BY DEF Snapshots!Restart
  <2>2. ops' = [o \in Snapshots!Ops |-> ops'[o]]
    BY <2>1
  <2>3. QED
    BY <1>2, <2>2
<1>4. \A s \in listed' : \E n \in Snapshots!Names : files[n] # "none" /\ s = Snapshots!Snapshot(n, 10 + written[n], n \in markers)
  BY <1>1
<1>5. \A n \in Snapshots!Names : /\ Snapshots!Snapshot(n, 10 + written[n], n \in markers) \in Items
                                  /\ Snapshots!Snapshot(n, 10 + written[n], n \in markers).name = n
  <2>1. ASSUME NEW n \in Snapshots!Names, NEW from_file \in BOOLEAN, from_file => n \in Imports
        PROVE  Snapshots!Snapshot(n, 10 + written[n], from_file) \in Items /\ Snapshots!Snapshot(n, 10 + written[n], from_file).name = n
    BY <1>0, <2>1, TimedItem
  <2>2. ASSUME NEW n \in Snapshots!Names PROVE (n \in markers) \in BOOLEAN /\ (n \in markers => n \in Imports)
    BY <1>0 DEF StoreTypeOK
  <2>3. QED
    BY <2>1, <2>2
<1>6. \A n \in Snapshots!Names : IsListed(n)' <=> files[n] # "none"
  <2>1. ASSUME NEW n \in Snapshots!Names, files[n] # "none" PROVE IsListed(n)'
    <3>1. Snapshots!Snapshot(n, 10 + written[n], n \in markers) \in listed'
      BY <1>1, <2>1
    <3>2. QED
      BY <1>5, <3>1 DEF IsListed
  <2>2. ASSUME NEW n \in Snapshots!Names, NEW s \in listed', s.name = n PROVE files[n] # "none"
    BY <1>4, <1>5, <2>2
  <2>3. QED
    BY <2>1, <2>2 DEF IsListed
<1>7. StoreTypeOK'
  <2>1. listed' \subseteq Items
    BY <1>4, <1>5
  <2>2. IsFiniteSet({m \in Snapshots!Names : written[m] > 0}')
    BY <1>0, <1>1 DEF StoreTypeOK
  <2>3. QED
    BY <1>0, <1>1, <1>3, <2>1, <2>2 DEF StoreTypeOK
<1>8. OpsFit'
  BY <1>1, <1>2 DEF OpsFit, OpFits
<1>9. AllKept'
  <2>1. SUFFICES ASSUME NEW n \in Snapshots!Names PROVE Kept(n)'
    BY DEF AllKept
  <2>2. IsListed(n)' => Intact(n)'
    <3>1. files[n] \in {"none", "partial", "whole"}
      BY <1>0 DEF StoreTypeOK
    <3>2. QED
      BY <1>1, <1>6, <3>1 DEF Intact
  <2>3. ~IsAdded(n)' /\ \A s, v \in adds' : FALSE
    BY <1>1 DEF IsAdded
  <2>4. \A o \in Snapshots!Ops : ~Snapshots!Running(o)' /\ ~Makes(o, n)'
    BY <1>2 DEF Snapshots!Running, Makes
  <2>5. QED
    BY <1>2, <2>2, <2>3, <2>4 DEF Kept
<1>10. Unique'
  <2>1. ASSUME NEW s \in listed', NEW v \in listed', s.name = v.name PROVE s = v
    <3>1. PICK n \in Snapshots!Names : s = Snapshots!Snapshot(n, 10 + written[n], n \in markers)
      BY <1>4, <2>1
    <3>2. PICK m \in Snapshots!Names : v = Snapshots!Snapshot(m, 10 + written[m], m \in markers)
      BY <1>4, <2>1
    <3>3. QED
      BY <1>5, <2>1, <3>1, <3>2
  <2>2. QED
    BY <2>1 DEF Unique
<1>11. Selected'
  <2>1. ASSUME ~project.latest, project.id \notin disturbed PROVE \E s \in listed' : s.name = project.id
    <3>1. IsListed(project.id) /\ project.id \in Snapshots!Names
      BY <1>0, <2>1, ListedNames DEF Selected, IsListed
    <3>2. Intact(project.id)
      BY <1>0, <2>1, <3>1 DEF AllKept, Kept
    <3>3. QED
      BY <1>6, <3>1, <3>2 DEF Intact, IsListed
  <2>2. QED
    BY <1>1, <2>1 DEF Selected, IsListed
<1>12. Snapshots!CleanSettles'
  BY <1>1 DEF Snapshots!CleanSettles
<1>13. QED
  BY <1>7, <1>8, <1>9, <1>10, <1>11, <1>12 DEF StoreInv

\* Nothing changes.
LEMMA StoreStutters == ASSUME StoreInv, UNCHANGED snapshotVars PROVE StoreInv'
<1>1. StoreTypeOK /\ OpsFit /\ AllKept /\ Unique /\ Selected /\ Snapshots!CleanSettles
  BY DEF StoreInv
<1>2. UNCHANGED <<files, written, markers, listed, project, auto_clean, choices, event_bus, scheduled, adds, stores,
                  ops,
                  commit, restarts, disturbed, torn>>
  BY DEF snapshotVars, Snapshots!disk, Snapshots!user, Snapshots!queue, Snapshots!world
<1>3. StoreTypeOK' /\ OpsFit'
  BY <1>1, <1>2 DEF StoreTypeOK, OpsFit, OpFits
<1>4. AllKept'
  BY <1>1, <1>2 DEF AllKept, Kept, Makes, Snapshots!Running, Intact, IsListed, IsAdded
<1>5. Unique' /\ Selected' /\ Snapshots!CleanSettles'
  BY <1>1, <1>2 DEF Unique, Selected, IsListed, Snapshots!CleanSettles, Snapshots!unused_snapshots,
     Snapshots!ProjectSnapshot, Snapshots!Newest, Snapshots!Named, Snapshots!Uses,
                    Snapshots!Running
<1>6. QED
  BY <1>3, <1>4, <1>5 DEF StoreInv

\* Every step keeps the invariant of the snapshots.
LEMMA StoreKeeps == ASSUME Snapshots!SnapshotAssumption, StoreInv, Snapshots!Next \/ UNCHANGED snapshotVars
  PROVE  StoreInv'
<1>1. ASSUME NEW o \in Snapshots!Ops, Snapshots!Operation(o) PROVE StoreInv'
  BY <1>1, BeginningsKeep, LookupKeeps, CatalystBeginsKeeps, CatalystEndsKeeps, BuildHasFetchedKeeps, BeginCopyKeeps,
     EndCopyKeeps, SetupPermissionsKeeps, AnalyzeKeeps, CompletingKeeps, FailingKeeps, CancelingKeeps, EndBuildKeeps
     DEF Snapshots!Operation
<1>2. QED
  BY <1>1, QueuedKeeps, ScheduleAutoCleanKeeps, AutoCleanKeeps, ToggleAutoCleanKeeps, SelectSnapshotKeeps,
     DeleteOnPageKeeps, RemoveInViewKeeps, NewCommitKeeps, RestartKeeps, StoreStutters DEF Snapshots!Next

\* The app starts without snapshots.
LEMMA StoreBegins == ASSUME Snapshots!SnapshotAssumption, Snapshots!Init PROVE StoreInv
<1>1. /\ files = [n \in Snapshots!Names |-> "none"] /\ written = [n \in Snapshots!Names |-> 0] /\ markers = {}
      /\ listed = {}
      /\ project = [id |-> Snapshots!None, latest |-> TRUE] /\ auto_clean \in BOOLEAN
      /\ commit \in Commits
      /\ event_bus = FALSE /\ scheduled = auto_clean /\ adds = {} /\ stores = {}
      /\ ops = [o \in Snapshots!Ops |-> Snapshots!NoOp]
  BY DEF Snapshots!Init
<1>3. StoreTypeOK
  <2>1. {m \in Snapshots!Names : written[m] > 0} = {}
    BY <1>1
  <2>2. IsFiniteSet({m \in Snapshots!Names : written[m] > 0})
    BY <2>1, FS_EmptySet
  <2>3. QED
    BY <1>1, <2>2, NoOpFits DEF StoreTypeOK, Projects
<1>4. OpsFit
  BY <1>1, NoOpFits DEF OpsFit
<1>5. AllKept
  BY <1>1 DEF AllKept, Kept, Makes, Snapshots!Running, Intact, IsListed, IsAdded, Snapshots!NoOp
<1>6. Unique /\ Selected /\ Snapshots!CleanSettles
  BY <1>1 DEF Unique, Selected, Snapshots!CleanSettles
<1>7. QED
  BY <1>3, <1>4, <1>5, <1>6 DEF StoreInv

\* What the invariant says of files, builds, projects and cleaning
LEMMA StoreGives ==
  ASSUME Snapshots!SnapshotAssumption, StoreInv PROVE Snapshots!TypeOK /\ Snapshots!ListedWhole /\ Snapshots!UsedKept /\ Snapshots!SelectedListed /\ Snapshots!CleanSettles
<1>1. StoreTypeOK /\ OpsFit /\ AllKept /\ Unique /\ Selected /\ Snapshots!CleanSettles
  BY DEF StoreInv
<1>2. Snapshots!TypeOK
  <2>1. Items \subseteq Snapshots!Snapshots /\ Snapshots!NoSnapshot \in Snapshots!Snapshots
    BY DEF Items, Snapshots!Snapshots, Snapshots!NoSnapshot, Snapshots!Snapshot
  <2>2. OpRecords \subseteq [kind : Snapshots!OperationKinds, at : Snapshots!Places, target : Snapshots!Names \cup {Snapshots!None}, snapshot : Snapshots!Snapshots,
                             reused : BOOLEAN, store : BOOLEAN]
    BY <2>1 DEF OpRecords
  <2>3. QED
    BY <1>1, <2>1, <2>2 DEF Snapshots!TypeOK, StoreTypeOK, Projects, Snapshots!Names
<1>3. Snapshots!ListedWhole
  <2>1. SUFFICES ASSUME NEW s \in listed
                 PROVE  Cardinality(Snapshots!Named(s.name)) = 1 /\ (s.name \in disturbed \cup torn \/ files[s.name] = "whole")
    BY SameCardinality DEF Snapshots!ListedWhole
  <2>2. Snapshots!Named(s.name) = {s}
    BY <1>1 DEF Snapshots!Named, Unique
  <2>3. Cardinality(Snapshots!Named(s.name)) = 1
    BY <2>2, FS_Singleton
  <2>4. s.name \in Snapshots!Names /\ IsListed(s.name)
    BY <1>1, ListedNames DEF IsListed
  <2>5. QED
    BY <1>1, <2>3, <2>4 DEF AllKept, Kept, Intact
<1>4. Snapshots!UsedKept
  <2>1. SUFFICES ASSUME NEW o \in Snapshots!Ops, ops[o].at = "using", ops[o].kind = "build", ops[o].snapshot.name \notin disturbed
                 PROVE  ops[o].snapshot.name \in torn \/ files[ops[o].snapshot.name] = "whole"
    BY DEF Snapshots!UsedKept, Snapshots!At
  <2>2. ops[o].snapshot.name \in Snapshots!Names
    BY <1>1, <2>1, NamedItem DEF OpsFit, OpFits
  <2>3. QED
    BY <1>1, <2>1, <2>2 DEF AllKept, Kept, Intact, Snapshots!Running
<1>5. Snapshots!SelectedListed
  BY <1>1 DEF Selected, Snapshots!SelectedListed, IsListed, Snapshots!Named
<1>6. QED
  BY <1>1, <1>2, <1>3, <1>4, <1>5

-----------------------------------------------------------------------------
(* Theorems: every behaviour of the toolset and of the snapshots.          *)

\* The invariant of the toolset in the run's specification
LEMMA ToolsetAlways == ASSUME Tool!ToolsetAssumption PROVE AllSpec => []ToolsetInv
<1>1. AllInit => ToolsetInv
  BY ToolsetBegins DEF AllInit
<1>2. ToolsetInv /\ [AllNext]_<<mcvars, toolVars, snapshotVars>> => ToolsetInv'
  <2>1. [AllNext]_<<mcvars, toolVars, snapshotVars>> => Tool!Next \/ UNCHANGED toolVars
    BY DEF AllNext
  <2>2. QED
    BY <2>1, ToolsetKeeps
<1>3. QED
  BY <1>1, <1>2, PTL DEF AllSpec

\* While no button and no cancellation was late and the executor itself raised nothing, no operation that has ended
\* holds the toolset (reserve, release) or has left it spawned, and what is spawned without being reserved was mounted
\* by the user.
THEOREM NothingIsHeld == AllSpec => []NothingHeld
<1>1. Tool!ToolsetAssumption
  BY MachinesAssumption
<1>2. ToolsetInv => NothingHeld
  BY ToolsetGives DEF NothingHeld
<1>3. QED
  BY <1>1, <1>2, ToolsetAlways, PTL

\* The invariant of the snapshots in the run's specification
LEMMA SnapshotsAlways ==
  ASSUME Snapshots!SnapshotAssumption PROVE AllSpec => []StoreInv
<1>1. AllInit => StoreInv
  BY StoreBegins DEF AllInit
<1>2. StoreInv /\ [AllNext]_<<mcvars, toolVars, snapshotVars>> => StoreInv'
  <2>1. [AllNext]_<<mcvars, toolVars, snapshotVars>> => Snapshots!Next \/ UNCHANGED snapshotVars
    BY DEF AllNext
  <2>2. QED
    BY <2>1, StoreKeeps
<1>3. QED
  BY <1>1, <1>2, PTL DEF AllSpec

\* Where no button and no cancellation was late, one operation at a time has the toolset; unless the executor itself
\* raised, commands run inside of a spawned one, and between calls it is mounted, and its workspace used, exactly while
\* it is spawned.  Of the snapshots, what is listed and what a running build uses is whole and a selected one stays,
\* except for names the user deleted, two operations had at a time, or the app stopped writing; and cleaning settles with
\* nothing left that is not used.
THEOREM EnvironmentStaysWhole == AllSpec => []EnvironmentWhole
<1>1. Tool!ToolsetAssumption /\ Snapshots!SnapshotAssumption
  BY MachinesAssumption
<1>2. ToolsetInv /\ StoreInv => EnvironmentWhole
  BY <1>1, ToolsetGives, StoreGives DEF EnvironmentWhole
<1>3. QED
  BY <1>1, <1>2, ToolsetAlways, SnapshotsAlways, PTL
=============================================================================
