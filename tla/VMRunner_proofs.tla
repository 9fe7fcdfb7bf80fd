--------------------------- MODULE VMRunner_proofs ---------------------------
(***************************************************************************)
(* Theorems about VMRunner, for any number of operations, whoever else     *)
(* starts and stops the machine.                                           *)
(***************************************************************************)
EXTENDS MCVMRunner, TLAPS, FiniteSetTheorems

-----------------------------------------------------------------------------
(* Where threads are, and what they hold there.                            *)

HoldPlaces == {"decide", "starting", "started", "return", "stopping", "stopped", "clean", "unlock",
               "editing"}

\* What a thread is called for, and that only operations work in the machine.
ThreadOK(t) ==
  /\ pc[t] \in StartPlaces => back[t] # "none"
  /\ pc[t] \in {"run", "ended"} => back[t] \in Reasons
  /\ pc[t] \notin StartPlaces \cup {"run", "ended"} => back[t] = "none"
  /\ back[t] = "unlock" => pc[t] = "lock"
  /\ t \in Operations => back[t] \notin {"start", "unlock"} /\ pc[t] \notin StopPlaces
  /\ t \notin Operations => /\ back[t] \in {"none", "start", "unlock"}
                            /\ pc[t] \in {"idle"} \cup StartPlaces \cup StopPlaces

\* A command that stop() would run for the working space never gets further
\* than the lock, which its thread holds.
Holds(t) == pc[t] \in HoldPlaces \/ (pc[t] = "lock" /\ back[t] = "unlock")

LockOK(t) ==
  /\ lock = t <=> Holds(t)
  /\ wlock = t <=> back[t] \in {"create", "delete"}

PlacesOK == TypeOK /\ \A t \in Threads : ThreadOK(t) /\ LockOK(t)

\* The names of threads and of commands are different.
LEMMA NamesDiffer ==
  /\ Operations \subseteq Threads /\ "timer" \in Threads /\ "none" \notin Threads
  /\ "timer" \notin Operations /\ "button" \notin Operations /\ "quit" \notin Operations
  /\ "Command" \in Names /\ "Command" \notin Operations /\ Operations \subseteq Names
  /\ "button" \in Actors => "button" \in Threads
  /\ "quit" \in Actors => "quit" \in Threads
BY VMAssumption DEF Threads, Names

\* Nothing is held and no thread is anywhere at first.
LEMMA PlacesInit == Init => PlacesOK
<1> SUFFICES ASSUME Init PROVE PlacesOK
  OBVIOUS
<1>1. /\ vm \in Statuses /\ status \in Statuses \cup {"Starting", "Stopping"}
      /\ lock \in Threads \cup {"none"} /\ wlock \in Operations \cup {"none"}
      /\ wusers \in Nat /\ seen \in Statuses \cup {"none"}
  BY DEF Init, Statuses
<1>2. users \in [Names -> Nat] /\ auto \in BOOLEAN /\ timer \in BOOLEAN /\ image \in BOOLEAN
  BY DEF Init
<1>3. /\ pc \in [Threads -> Places] /\ back \in [Threads -> Callers] /\ ok \in [Threads -> BOOLEAN]
  BY DEF Init, Places, Callers
<1>4. \A t \in Threads : ThreadOK(t) /\ LockOK(t)
  BY NamesDiffer DEF Init, ThreadOK, LockOK, Holds, StartPlaces, StopPlaces, HoldPlaces
<1> QED BY <1>1, <1>2, <1>3, <1>4 DEF PlacesOK, TypeOK

\* A use begins or ends under a name.
LEMMA UseType ==
  ASSUME NEW name \in Names, TypeOK, BeginUse(name) \/ EndUse(name)
  PROVE  users' \in [Names -> Nat] /\ auto' \in BOOLEAN /\ timer' \in BOOLEAN
<1>1. users \in [Names -> Nat] /\ auto \in BOOLEAN /\ timer \in BOOLEAN
  BY DEF TypeOK
<1>2. users' \in [Names -> Nat]
  BY <1>1 DEF BeginUse, EndUse
<1>3. auto' \in BOOLEAN
  BY <1>1 DEF BeginUse, EndUse
<1>4. timer' \in BOOLEAN
  <2>1. CASE BeginUse(name)
    BY <2>1 DEF BeginUse
  <2>2. CASE EndUse(name)
    BY <1>1, <2>2 DEF EndUse
  <2> QED BY <2>1, <2>2
<1> QED BY <1>2, <1>3, <1>4

ThreadVarsOK ==
  pc \in [Threads -> Places] /\ back \in [Threads -> Callers] /\ ok \in [Threads -> BOOLEAN]

\* start() returns.
LEMMA ReturnsType ==
  ASSUME NEW t \in Threads, NEW result \in BOOLEAN, ThreadVarsOK, Returns(t, result)
  PROVE  ThreadVarsOK'
<1>1. pc' \in [Threads -> Places]
  BY DEF ThreadVarsOK, Returns, Forget, Go, Places
<1>2. back' \in [Threads -> Callers]
  BY DEF ThreadVarsOK, Returns, Forget, Callers
<1>3. ok' \in [Threads -> BOOLEAN]
  <2>1. ok' = [ok EXCEPT ![t] = TRUE] \/ ok' = [ok EXCEPT ![t] = result]
    BY DEF Returns, Forget
  <2>2. ok \in [Threads -> BOOLEAN]
    BY DEF ThreadVarsOK
  <2> QED BY <2>1, <2>2, Zenon
<1> QED BY <1>1, <1>2, <1>3 DEF ThreadVarsOK

\* Where the thread that start() returns in is then.
LEMMA ReturnsPlace ==
  ASSUME NEW t \in Threads, NEW result, ThreadVarsOK, Returns(t, result)
  PROVE  /\ \A s \in Threads \ {t} : pc'[s] = pc[s] /\ back'[s] = back[s]
         /\ \/ back[t] = "start" /\ pc'[t] = "idle" /\ back'[t] = "none"
            \/ back[t] = "prepare" /\ pc'[t] \in {"prepared", "leave"} /\ back'[t] = "none"
            \/ back[t] \notin {"start", "prepare"} /\ pc'[t] \in {"run", "ended"} /\ back'[t] = back[t]
<1>1. CASE back[t] = "start"
  BY <1>1 DEF Returns, Forget, Go, ThreadVarsOK
<1>2. CASE back[t] = "prepare"
  BY <1>2 DEF Returns, Forget, Go, ThreadVarsOK
<1>3. CASE back[t] \notin {"start", "prepare"}
  BY <1>3 DEF Returns, Forget, Go, ThreadVarsOK
<1> QED BY <1>1, <1>2, <1>3

\* Every step keeps the types.
LEMMA TypeStep == PlacesOK /\ [Next]_vars => TypeOK'
<1> SUFFICES ASSUME PlacesOK, [Next]_vars PROVE TypeOK'
  OBVIOUS
<1>1. ASSUME NEW t \in Operations, Prepare(t) PROVE TypeOK'
  <2>1. users' \in [Names -> Nat] /\ auto' \in BOOLEAN /\ timer' \in BOOLEAN
    BY <1>1, NamesDiffer, UseType DEF Prepare, PlacesOK
  <2> QED BY <1>1, <2>1, NamesDiffer
       DEF Prepare, Go, PlacesOK, ThreadOK, TypeOK, Statuses, Reasons, Callers, Places,
           StartPlaces, StopPlaces, usageVars, spaceVars
<1>2. ASSUME NEW t \in Operations, AcquireWorkspace(t) PROVE TypeOK'
  <2>1. users' \in [Names -> Nat] /\ auto' \in BOOLEAN /\ timer' \in BOOLEAN
    BY <1>2, NamesDiffer, UseType DEF AcquireWorkspace, PlacesOK
  <2> QED BY <1>2, <2>1, NamesDiffer
       DEF AcquireWorkspace, Go, PlacesOK, ThreadOK, TypeOK, Statuses, Reasons, Callers, Places,
           StartPlaces, StopPlaces, usageVars, spaceVars
<1>3. ASSUME NEW t \in Operations, RunCommand(t) PROVE TypeOK'
  <2>1. users' \in [Names -> Nat] /\ auto' \in BOOLEAN /\ timer' \in BOOLEAN
    BY <1>3, NamesDiffer, UseType DEF RunCommand, BeginCommand, PlacesOK
  <2> QED BY <1>3, <2>1, NamesDiffer
       DEF RunCommand, BeginCommand, Go, PlacesOK, ThreadOK, TypeOK, Statuses, Reasons, Callers,
           Places, StartPlaces, StopPlaces, usageVars, spaceVars
<1>4. ASSUME NEW t \in Operations, Finish(t) PROVE TypeOK'
  BY <1>4, NamesDiffer
       DEF Finish, Go, PlacesOK, ThreadOK, StopPlaces, StartPlaces, TypeOK, Statuses, Reasons,
           Callers, Places, usageVars, spaceVars
<1>5. ASSUME NEW t \in Threads, LockStart(t) PROVE TypeOK'
  BY <1>5, NamesDiffer
       DEF LockStart, Go, Refreshed, PlacesOK, ThreadOK, StopPlaces, StartPlaces, TypeOK,
           Statuses, Reasons, Callers, Places, usageVars, spaceVars
<1>6. ASSUME NEW t \in Threads, LockStop(t) PROVE TypeOK'
  BY <1>6, NamesDiffer
       DEF LockStop, Go, PlacesOK, ThreadOK, StopPlaces, StartPlaces, TypeOK, Statuses, Reasons,
           Callers, Places, usageVars, spaceVars
<1>7. ASSUME NEW t \in Threads, LockApply(t) PROVE TypeOK'
  BY <1>7, NamesDiffer
       DEF LockApply, Go, Refreshed, PlacesOK, ThreadOK, StopPlaces, StartPlaces, TypeOK,
           Statuses, Reasons, Callers, Places, usageVars, spaceVars
<1>8. ASSUME NEW t \in Threads, EnterWorkspace(t) PROVE TypeOK'
  <2>1. users' \in [Names -> Nat] /\ auto' \in BOOLEAN /\ timer' \in BOOLEAN
    BY <1>8, NamesDiffer, UseType DEF EnterWorkspace, BeginCommand, PlacesOK, TypeOK, usageVars
  <2>2. image' \in BOOLEAN
    BY <1>8 DEF EnterWorkspace, PlacesOK, TypeOK, spaceVars
  <2> QED BY <1>8, <2>1, <2>2, NamesDiffer
       DEF EnterWorkspace, BeginCommand, Go, PlacesOK, ThreadOK, TypeOK, Statuses, Reasons,
           Callers, Places, StartPlaces, StopPlaces, usageVars, spaceVars
<1>9. ASSUME NEW t \in Threads, ReleaseWorkspace(t) PROVE TypeOK'
  <2>1. users' \in [Names -> Nat] /\ auto' \in BOOLEAN /\ timer' \in BOOLEAN
    BY <1>9, NamesDiffer, UseType DEF ReleaseWorkspace, BeginCommand, PlacesOK, TypeOK, usageVars
  <2>2. image' \in BOOLEAN
    BY <1>9 DEF ReleaseWorkspace, PlacesOK, TypeOK, spaceVars
  <2> QED BY <1>9, <2>1, <2>2, NamesDiffer
       DEF ReleaseWorkspace, BeginCommand, Go, PlacesOK, ThreadOK, TypeOK, Statuses, Reasons,
           Callers, Places, StartPlaces, StopPlaces, usageVars, spaceVars
<1>10. ASSUME NEW t \in Threads, CommandEnds(t) PROVE TypeOK'
  <2>1. PICK success \in BOOLEAN : ok' = [ok EXCEPT ![t] = success]
    BY <1>10 DEF CommandEnds
  <2>2. ok' \in [Threads -> BOOLEAN]
    BY <2>1, Zenon DEF PlacesOK, TypeOK
  <2>3. image' \in BOOLEAN
    BY <1>10 DEF CommandEnds, PlacesOK, TypeOK
  <2> QED BY <1>10, <2>2, <2>3, NamesDiffer
       DEF CommandEnds, Go, PlacesOK, ThreadOK, TypeOK, Statuses, Reasons, Callers, Places,
           StartPlaces, StopPlaces, usageVars, spaceVars
<1>11. ASSUME NEW t \in Threads, EndCommand(t) PROVE TypeOK'
  BY <1>11, NamesDiffer
       DEF EndCommand, Go, EndUse, Continue, Forget, PlacesOK, ThreadOK, StopPlaces, StartPlaces,
           TypeOK, Statuses, Reasons, Callers, Places, usageVars, spaceVars
<1>12. ASSUME NEW t \in Threads, Leave(t) PROVE TypeOK'
  BY <1>12, NamesDiffer
       DEF Leave, Go, EndUse, PlacesOK, ThreadOK, StopPlaces, StartPlaces, TypeOK, Statuses,
           Reasons, Callers, Places, usageVars, spaceVars
<1>13. ASSUME NEW t \in Threads, StartRunning(t) PROVE TypeOK'
  <2>1. \E result \in BOOLEAN : Returns(t, result)
    BY <1>13 DEF StartRunning
  <2>2. ThreadVarsOK'
    BY <2>1, ReturnsType DEF PlacesOK, TypeOK, ThreadVarsOK
  <2>3. auto' \in BOOLEAN /\ timer' \in BOOLEAN
    BY <1>13 DEF StartRunning, PlacesOK, TypeOK, usageVars
  <2> QED BY <1>13, <2>2, <2>3, NamesDiffer
       DEF StartRunning, ThreadVarsOK, PlacesOK, ThreadOK, TypeOK, Statuses, Reasons, Callers,
           Places, StartPlaces, StopPlaces, usageVars, spaceVars
<1>14. ASSUME NEW t \in Threads, StartStopped(t) PROVE TypeOK'
  BY <1>14, NamesDiffer
       DEF StartStopped, Go, PlacesOK, ThreadOK, StopPlaces, StartPlaces, TypeOK, Statuses,
           Reasons, Callers, Places, usageVars, spaceVars
<1>15. ASSUME NEW t \in Threads, LimactlStarts(t) PROVE TypeOK'
  BY <1>15, NamesDiffer
       DEF LimactlStarts, Go, PlacesOK, ThreadOK, StopPlaces, StartPlaces, TypeOK, Statuses,
           Reasons, Callers, Places, usageVars, spaceVars
<1>16. ASSUME NEW t \in Threads, ReadStarted(t) PROVE TypeOK'
  BY <1>16, NamesDiffer
       DEF ReadStarted, Go, PlacesOK, ThreadOK, StopPlaces, StartPlaces, TypeOK, Statuses,
           Reasons, Callers, Places, usageVars, spaceVars
<1>17. ASSUME NEW t \in Threads, StartReturns(t) PROVE TypeOK'
  <2>1. \E result \in BOOLEAN : Returns(t, result)
    BY <1>17 DEF StartReturns
  <2>2. ThreadVarsOK'
    BY <2>1, ReturnsType DEF PlacesOK, TypeOK, ThreadVarsOK
  <2>3. auto' \in BOOLEAN /\ timer' \in BOOLEAN
    BY <1>17 DEF StartReturns, PlacesOK, TypeOK, usageVars
  <2> QED BY <1>17, <2>2, <2>3, NamesDiffer
       DEF StartReturns, ThreadVarsOK, PlacesOK, ThreadOK, TypeOK, Statuses, Reasons, Callers,
           Places, StartPlaces, StopPlaces, usageVars, spaceVars
<1>18. ASSUME NEW t \in Threads, StopBegins(t) PROVE TypeOK'
  BY <1>18, NamesDiffer
       DEF StopBegins, Go, PlacesOK, ThreadOK, StopPlaces, StartPlaces, TypeOK, Statuses, Reasons,
           Callers, Places, usageVars, spaceVars
<1>19. ASSUME NEW t \in Threads, LimactlStops(t) PROVE TypeOK'
  BY <1>19, NamesDiffer
       DEF LimactlStops, Go, PlacesOK, ThreadOK, StopPlaces, StartPlaces, TypeOK, Statuses,
           Reasons, Callers, Places, usageVars, spaceVars
<1>20. ASSUME NEW t \in Threads, ReadStopped(t) PROVE TypeOK'
  BY <1>20, NamesDiffer
       DEF ReadStopped, Go, PlacesOK, ThreadOK, StopPlaces, StartPlaces, TypeOK, Statuses,
           Reasons, Callers, Places, usageVars, spaceVars
<1>21. ASSUME NEW t \in Threads, CleanStopped(t) PROVE TypeOK'
  <2>1. users' \in [Names -> Nat] /\ auto' \in BOOLEAN /\ timer' \in BOOLEAN
    BY <1>21, NamesDiffer, UseType DEF CleanStopped, BeginCommand, PlacesOK, TypeOK, usageVars
  <2>2. image' \in BOOLEAN
    BY <1>21 DEF CleanStopped, PlacesOK, TypeOK, spaceVars
  <2> QED BY <1>21, <2>1, <2>2, NamesDiffer
       DEF CleanStopped, BeginCommand, Go, PlacesOK, ThreadOK, TypeOK, Statuses, Reasons, Callers,
           Places, StartPlaces, StopPlaces, usageVars, spaceVars
<1>22. ASSUME NEW t \in Threads, StopReturns(t) PROVE TypeOK'
  BY <1>22, NamesDiffer
       DEF StopReturns, Go, PlacesOK, ThreadOK, StopPlaces, StartPlaces, TypeOK, Statuses,
           Reasons, Callers, Places, usageVars, spaceVars
<1>23. ASSUME NEW t \in Threads, LimactlEdits(t) PROVE TypeOK'
  BY <1>23, NamesDiffer
       DEF LimactlEdits, Go, PlacesOK, ThreadOK, StopPlaces, StartPlaces, TypeOK, Statuses,
           Reasons, Callers, Places, usageVars, spaceVars
<1>24. ASSUME TimerDue PROVE TypeOK'
  BY <1>24, NamesDiffer
       DEF TimerDue, Go, PlacesOK, ThreadOK, StopPlaces, StartPlaces, TypeOK, Statuses, Reasons,
           Callers, Places, usageVars, spaceVars
<1>25. ASSUME StopIfIdle PROVE TypeOK'
  BY <1>25, NamesDiffer
       DEF StopIfIdle, Go, PlacesOK, ThreadOK, StopPlaces, StartPlaces, TypeOK, Statuses, Reasons,
           Callers, Places, usageVars, spaceVars
<1>26. ASSUME StopIfStartedAutomatically PROVE TypeOK'
  BY <1>26, NamesDiffer
       DEF StopIfStartedAutomatically, Go, PlacesOK, ThreadOK, StopPlaces, StartPlaces, TypeOK,
           Statuses, Reasons, Callers, Places, usageVars, spaceVars
<1>27. ASSUME PressStart PROVE TypeOK'
  BY <1>27, NamesDiffer
       DEF PressStart, Go, PlacesOK, ThreadOK, StopPlaces, StartPlaces, TypeOK, Statuses, Reasons,
           Callers, Places, usageVars, spaceVars
<1>28. ASSUME PressStop PROVE TypeOK'
  BY <1>28, NamesDiffer
       DEF PressStop, Go, PlacesOK, ThreadOK, StopPlaces, StartPlaces, TypeOK, Statuses, Reasons,
           Callers, Places, usageVars, spaceVars
<1>29. ASSUME PressApply PROVE TypeOK'
  BY <1>29, NamesDiffer
       DEF PressApply, Go, PlacesOK, ThreadOK, StopPlaces, StartPlaces, TypeOK, Statuses, Reasons,
           Callers, Places, usageVars, spaceVars
<1>30. ASSUME ViewReads PROVE TypeOK'
  BY <1>30, NamesDiffer
       DEF ViewReads, Go, PlacesOK, ThreadOK, StopPlaces, StartPlaces, TypeOK, Statuses, Reasons,
           Callers, Places, usageVars, spaceVars
<1>31. ASSUME ViewSets PROVE TypeOK'
  BY <1>31, NamesDiffer
       DEF ViewSets, Go, PlacesOK, ThreadOK, StopPlaces, StartPlaces, TypeOK, Statuses, Reasons,
           Callers, Places, usageVars, spaceVars
<1>32. CASE UNCHANGED vars
  BY <1>32, NamesDiffer
       DEF vars, usageVars, spaceVars, PlacesOK, ThreadOK, StopPlaces, StartPlaces, TypeOK,
           Statuses, Reasons, Callers, Places, usageVars, spaceVars
<1> QED BY <1>1, <1>2, <1>3, <1>4, <1>5, <1>6, <1>7, <1>8, <1>9, <1>10, <1>11, <1>12, <1>13,
     <1>14, <1>15, <1>16, <1>17, <1>18, <1>19, <1>20, <1>21, <1>22, <1>23, <1>24, <1>25, <1>26,
     <1>27, <1>28, <1>29, <1>30, <1>31, <1>32
     DEF Next, Operate, TakeLock, TakeWorkspaceLock, Proceed, Control

\* Every step keeps threads at their places, holding what they hold there.
LEMMA ThreadsStep == PlacesOK /\ [Next]_vars => \A s \in Threads : ThreadOK(s)' /\ LockOK(s)'
<1> SUFFICES ASSUME PlacesOK, [Next]_vars PROVE \A s \in Threads : ThreadOK(s)' /\ LockOK(s)'
  OBVIOUS
<1>1. ASSUME NEW t \in Operations, Prepare(t) PROVE \A s \in Threads : ThreadOK(s)' /\ LockOK(s)'
  BY <1>1, NamesDiffer
       DEF Prepare, Go, BeginUse, PlacesOK, TypeOK, ThreadOK, LockOK, Holds, Reasons, StartPlaces,
           StopPlaces, HoldPlaces, usageVars, spaceVars
<1>2. ASSUME NEW t \in Operations, AcquireWorkspace(t)
      PROVE  \A s \in Threads : ThreadOK(s)' /\ LockOK(s)'
  BY <1>2, NamesDiffer
       DEF AcquireWorkspace, Go, BeginUse, PlacesOK, TypeOK, ThreadOK, LockOK, Holds, Reasons,
           StartPlaces, StopPlaces, HoldPlaces, usageVars, spaceVars
<1>3. ASSUME NEW t \in Operations, RunCommand(t) PROVE \A s \in Threads : ThreadOK(s)' /\ LockOK(s)'
  BY <1>3, NamesDiffer
       DEF RunCommand, Go, BeginCommand, BeginUse, PlacesOK, TypeOK, ThreadOK, LockOK, Holds,
           Reasons, StartPlaces, StopPlaces, HoldPlaces, usageVars, spaceVars
<1>4. ASSUME NEW t \in Operations, Finish(t) PROVE \A s \in Threads : ThreadOK(s)' /\ LockOK(s)'
  BY <1>4, NamesDiffer
       DEF Finish, Go, PlacesOK, TypeOK, ThreadOK, LockOK, Holds, Reasons, StartPlaces,
           StopPlaces, HoldPlaces, usageVars, spaceVars
<1>5. ASSUME NEW t \in Threads, LockStart(t) PROVE \A s \in Threads : ThreadOK(s)' /\ LockOK(s)'
  BY <1>5, NamesDiffer
       DEF LockStart, Go, Refreshed, PlacesOK, TypeOK, ThreadOK, LockOK, Holds, Reasons,
           StartPlaces, StopPlaces, HoldPlaces, usageVars, spaceVars
<1>6. ASSUME NEW t \in Threads, LockStop(t) PROVE \A s \in Threads : ThreadOK(s)' /\ LockOK(s)'
  BY <1>6, NamesDiffer
       DEF LockStop, Go, PlacesOK, TypeOK, ThreadOK, LockOK, Holds, Reasons, StartPlaces,
           StopPlaces, HoldPlaces, usageVars, spaceVars
<1>7. ASSUME NEW t \in Threads, LockApply(t) PROVE \A s \in Threads : ThreadOK(s)' /\ LockOK(s)'
  BY <1>7, NamesDiffer
       DEF LockApply, Go, Refreshed, PlacesOK, TypeOK, ThreadOK, LockOK, Holds, Reasons,
           StartPlaces, StopPlaces, HoldPlaces, usageVars, spaceVars
<1>8. ASSUME NEW t \in Threads, EnterWorkspace(t)
      PROVE  \A s \in Threads : ThreadOK(s)' /\ LockOK(s)'
  BY <1>8, NamesDiffer
       DEF EnterWorkspace, Go, BeginCommand, BeginUse, PlacesOK, TypeOK, ThreadOK, LockOK, Holds,
           Reasons, StartPlaces, StopPlaces, HoldPlaces, usageVars, spaceVars
<1>9. ASSUME NEW t \in Threads, ReleaseWorkspace(t)
      PROVE  \A s \in Threads : ThreadOK(s)' /\ LockOK(s)'
  BY <1>9, NamesDiffer
       DEF ReleaseWorkspace, Go, BeginCommand, BeginUse, PlacesOK, TypeOK, ThreadOK, LockOK,
           Holds, Reasons, StartPlaces, StopPlaces, HoldPlaces, usageVars, spaceVars
<1>10. ASSUME NEW t \in Threads, CommandEnds(t) PROVE \A s \in Threads : ThreadOK(s)' /\ LockOK(s)'
  BY <1>10, NamesDiffer
       DEF CommandEnds, Go, PlacesOK, TypeOK, ThreadOK, LockOK, Holds, Reasons, StartPlaces,
           StopPlaces, HoldPlaces, usageVars, spaceVars
<1>11. ASSUME NEW t \in Threads, EndCommand(t) PROVE \A s \in Threads : ThreadOK(s)' /\ LockOK(s)'
  BY <1>11, NamesDiffer
       DEF EndCommand, Go, EndUse, Continue, Forget, PlacesOK, TypeOK, ThreadOK, LockOK, Holds,
           Reasons, StartPlaces, StopPlaces, HoldPlaces, usageVars, spaceVars
<1>12. ASSUME NEW t \in Threads, Leave(t) PROVE \A s \in Threads : ThreadOK(s)' /\ LockOK(s)'
  BY <1>12, NamesDiffer
       DEF Leave, Go, EndUse, PlacesOK, TypeOK, ThreadOK, LockOK, Holds, Reasons, StartPlaces,
           StopPlaces, HoldPlaces, usageVars, spaceVars
<1>13. ASSUME NEW t \in Threads, StartRunning(t) PROVE \A s \in Threads : ThreadOK(s)' /\ LockOK(s)'
  <2>1. ThreadVarsOK /\ \E result : Returns(t, result)
    BY <1>13 DEF StartRunning, PlacesOK, TypeOK, ThreadVarsOK
  <2>2. /\ \A s \in Threads \ {t} : pc'[s] = pc[s] /\ back'[s] = back[s]
        /\ \/ back[t] = "start" /\ pc'[t] = "idle" /\ back'[t] = "none"
           \/ back[t] = "prepare" /\ pc'[t] \in {"prepared", "leave"} /\ back'[t] = "none"
           \/ /\ back[t] \notin {"start", "prepare"}
              /\ pc'[t] \in {"run", "ended"} /\ back'[t] = back[t]
    BY <2>1, ReturnsPlace
  <2>3. pc[t] \in {"decide", "return"} /\ lock' = "none" /\ UNCHANGED wlock
    BY <1>13 DEF StartRunning, spaceVars
  <2> QED BY <2>2, <2>3, NamesDiffer
       DEF PlacesOK, TypeOK, Callers, ThreadOK, LockOK, Holds, Reasons, StartPlaces, StopPlaces,
           HoldPlaces, usageVars, spaceVars
<1>14. ASSUME NEW t \in Threads, StartStopped(t) PROVE \A s \in Threads : ThreadOK(s)' /\ LockOK(s)'
  BY <1>14, NamesDiffer
       DEF StartStopped, Go, PlacesOK, TypeOK, ThreadOK, LockOK, Holds, Reasons, StartPlaces,
           StopPlaces, HoldPlaces, usageVars, spaceVars
<1>15. ASSUME NEW t \in Threads, LimactlStarts(t)
       PROVE  \A s \in Threads : ThreadOK(s)' /\ LockOK(s)'
  BY <1>15, NamesDiffer
       DEF LimactlStarts, Go, PlacesOK, TypeOK, ThreadOK, LockOK, Holds, Reasons, StartPlaces,
           StopPlaces, HoldPlaces, usageVars, spaceVars
<1>16. ASSUME NEW t \in Threads, ReadStarted(t) PROVE \A s \in Threads : ThreadOK(s)' /\ LockOK(s)'
  BY <1>16, NamesDiffer
       DEF ReadStarted, Go, PlacesOK, TypeOK, ThreadOK, LockOK, Holds, Reasons, StartPlaces,
           StopPlaces, HoldPlaces, usageVars, spaceVars
<1>17. ASSUME NEW t \in Threads, StartReturns(t) PROVE \A s \in Threads : ThreadOK(s)' /\ LockOK(s)'
  <2>1. ThreadVarsOK /\ \E result : Returns(t, result)
    BY <1>17 DEF StartReturns, PlacesOK, TypeOK, ThreadVarsOK
  <2>2. /\ \A s \in Threads \ {t} : pc'[s] = pc[s] /\ back'[s] = back[s]
        /\ \/ back[t] = "start" /\ pc'[t] = "idle" /\ back'[t] = "none"
           \/ back[t] = "prepare" /\ pc'[t] \in {"prepared", "leave"} /\ back'[t] = "none"
           \/ /\ back[t] \notin {"start", "prepare"}
              /\ pc'[t] \in {"run", "ended"} /\ back'[t] = back[t]
    BY <2>1, ReturnsPlace
  <2>3. pc[t] \in {"decide", "return"} /\ lock' = "none" /\ UNCHANGED wlock
    BY <1>17 DEF StartReturns, spaceVars
  <2> QED BY <2>2, <2>3, NamesDiffer
       DEF PlacesOK, TypeOK, Callers, ThreadOK, LockOK, Holds, Reasons, StartPlaces, StopPlaces,
           HoldPlaces, usageVars, spaceVars
<1>18. ASSUME NEW t \in Threads, StopBegins(t) PROVE \A s \in Threads : ThreadOK(s)' /\ LockOK(s)'
  BY <1>18, NamesDiffer
       DEF StopBegins, Go, PlacesOK, TypeOK, ThreadOK, LockOK, Holds, Reasons, StartPlaces,
           StopPlaces, HoldPlaces, usageVars, spaceVars
<1>19. ASSUME NEW t \in Threads, LimactlStops(t) PROVE \A s \in Threads : ThreadOK(s)' /\ LockOK(s)'
  BY <1>19, NamesDiffer
       DEF LimactlStops, Go, PlacesOK, TypeOK, ThreadOK, LockOK, Holds, Reasons, StartPlaces,
           StopPlaces, HoldPlaces, usageVars, spaceVars
<1>20. ASSUME NEW t \in Threads, ReadStopped(t) PROVE \A s \in Threads : ThreadOK(s)' /\ LockOK(s)'
  BY <1>20, NamesDiffer
       DEF ReadStopped, Go, PlacesOK, TypeOK, ThreadOK, LockOK, Holds, Reasons, StartPlaces,
           StopPlaces, HoldPlaces, usageVars, spaceVars
<1>21. ASSUME NEW t \in Threads, CleanStopped(t) PROVE \A s \in Threads : ThreadOK(s)' /\ LockOK(s)'
  BY <1>21, NamesDiffer
       DEF CleanStopped, Go, BeginCommand, BeginUse, PlacesOK, TypeOK, ThreadOK, LockOK, Holds,
           Reasons, StartPlaces, StopPlaces, HoldPlaces, usageVars, spaceVars
<1>22. ASSUME NEW t \in Threads, StopReturns(t) PROVE \A s \in Threads : ThreadOK(s)' /\ LockOK(s)'
  BY <1>22, NamesDiffer
       DEF StopReturns, Go, PlacesOK, TypeOK, ThreadOK, LockOK, Holds, Reasons, StartPlaces,
           StopPlaces, HoldPlaces, usageVars, spaceVars
<1>23. ASSUME NEW t \in Threads, LimactlEdits(t) PROVE \A s \in Threads : ThreadOK(s)' /\ LockOK(s)'
  BY <1>23, NamesDiffer
       DEF LimactlEdits, Go, PlacesOK, TypeOK, ThreadOK, LockOK, Holds, Reasons, StartPlaces,
           StopPlaces, HoldPlaces, usageVars, spaceVars
<1>24. ASSUME TimerDue PROVE \A s \in Threads : ThreadOK(s)' /\ LockOK(s)'
  BY <1>24, NamesDiffer
       DEF TimerDue, Go, PlacesOK, TypeOK, ThreadOK, LockOK, Holds, Reasons, StartPlaces,
           StopPlaces, HoldPlaces, usageVars, spaceVars
<1>25. ASSUME StopIfIdle PROVE \A s \in Threads : ThreadOK(s)' /\ LockOK(s)'
  BY <1>25, NamesDiffer
       DEF StopIfIdle, Go, PlacesOK, TypeOK, ThreadOK, LockOK, Holds, Reasons, StartPlaces,
           StopPlaces, HoldPlaces, usageVars, spaceVars
<1>26. ASSUME StopIfStartedAutomatically PROVE \A s \in Threads : ThreadOK(s)' /\ LockOK(s)'
  BY <1>26, NamesDiffer
       DEF StopIfStartedAutomatically, Go, PlacesOK, TypeOK, ThreadOK, LockOK, Holds, Reasons,
           StartPlaces, StopPlaces, HoldPlaces, usageVars, spaceVars
<1>27. ASSUME PressStart PROVE \A s \in Threads : ThreadOK(s)' /\ LockOK(s)'
  BY <1>27, NamesDiffer
       DEF PressStart, Go, PlacesOK, TypeOK, ThreadOK, LockOK, Holds, Reasons, StartPlaces,
           StopPlaces, HoldPlaces, usageVars, spaceVars
<1>28. ASSUME PressStop PROVE \A s \in Threads : ThreadOK(s)' /\ LockOK(s)'
  BY <1>28, NamesDiffer
       DEF PressStop, Go, PlacesOK, TypeOK, ThreadOK, LockOK, Holds, Reasons, StartPlaces,
           StopPlaces, HoldPlaces, usageVars, spaceVars
<1>29. ASSUME PressApply PROVE \A s \in Threads : ThreadOK(s)' /\ LockOK(s)'
  BY <1>29, NamesDiffer
       DEF PressApply, Go, PlacesOK, TypeOK, ThreadOK, LockOK, Holds, Reasons, StartPlaces,
           StopPlaces, HoldPlaces, usageVars, spaceVars
<1>30. ASSUME ViewReads PROVE \A s \in Threads : ThreadOK(s)' /\ LockOK(s)'
  BY <1>30, NamesDiffer
       DEF ViewReads, Go, PlacesOK, TypeOK, ThreadOK, LockOK, Holds, Reasons, StartPlaces,
           StopPlaces, HoldPlaces, usageVars, spaceVars
<1>31. ASSUME ViewSets PROVE \A s \in Threads : ThreadOK(s)' /\ LockOK(s)'
  BY <1>31, NamesDiffer
       DEF ViewSets, Go, PlacesOK, TypeOK, ThreadOK, LockOK, Holds, Reasons, StartPlaces,
           StopPlaces, HoldPlaces, usageVars, spaceVars
<1>32. CASE UNCHANGED vars
  BY <1>32, NamesDiffer
       DEF vars, usageVars, spaceVars, PlacesOK, TypeOK, ThreadOK, LockOK, Holds, Reasons,
           StartPlaces, StopPlaces, HoldPlaces, usageVars, spaceVars
<1> QED BY <1>1, <1>2, <1>3, <1>4, <1>5, <1>6, <1>7, <1>8, <1>9, <1>10, <1>11, <1>12, <1>13,
     <1>14, <1>15, <1>16, <1>17, <1>18, <1>19, <1>20, <1>21, <1>22, <1>23, <1>24, <1>25, <1>26,
     <1>27, <1>28, <1>29, <1>30, <1>31, <1>32
     DEF Next, Operate, TakeLock, TakeWorkspaceLock, Proceed, Control

\* Threads are always at such places.
LEMMA PlacesInvariant == Spec => []PlacesOK
<1>1. PlacesOK /\ [Next]_vars => PlacesOK'
  BY TypeStep, ThreadsStep DEF PlacesOK
<1> QED BY PlacesInit, <1>1, PTL DEF Spec

\* The fields of the machine keep their types, whatever fails and whoever
\* starts or stops it at the same time.
THEOREM TypeCorrect == Spec => []TypeOK
<1>1. PlacesOK => TypeOK
  BY DEF PlacesOK
<1> QED BY PlacesInvariant, <1>1, PTL

-----------------------------------------------------------------------------
(* The machine and its status.                                             *)

\* What the thread at each place knows of the machine, if no other sets the
\* status.
StatusOK(t) ==
  /\ pc[t] \in {"decide", "return", "unlock"} => status = vm
  /\ pc[t] = "starting" => status = "Starting"
  /\ pc[t] = "stopping" => status = "Stopping"
  /\ pc[t] = "clean" => status = "Stopped" /\ vm = "Stopped"
  /\ pc[t] = "editing" => status = vm
  /\ back[t] # "unlock"

MachineOK ==
  /\ \A t \in Threads : pc[t] = "editing" => vm = "Stopped"
  /\ ~Refreshes => /\ seen = "none"
                   /\ lock = "none" => status = vm
                   /\ \A t \in Threads : StatusOK(t)

\* The status that is read at first is that of the machine.
LEMMA MachineInit == Init => MachineOK
BY DEF Init, MachineOK, StatusOK

\* Only who holds _lock changes the machine and its status.
LEMMA MachineStep == PlacesOK /\ MachineOK /\ [Next]_vars => MachineOK'
<1> SUFFICES ASSUME PlacesOK, MachineOK, [Next]_vars PROVE MachineOK'
  OBVIOUS
<1>1. ASSUME NEW t \in Operations, Prepare(t) PROVE MachineOK'
  BY <1>1, NamesDiffer
       DEF Prepare, Go, BeginUse, PlacesOK, TypeOK, ThreadVarsOK, Statuses, ThreadOK, LockOK,
           Holds, HoldPlaces, MachineOK, StatusOK, usageVars, spaceVars
<1>2. ASSUME NEW t \in Operations, AcquireWorkspace(t) PROVE MachineOK'
  BY <1>2, NamesDiffer
       DEF AcquireWorkspace, Go, BeginUse, PlacesOK, TypeOK, ThreadVarsOK, Statuses, ThreadOK,
           LockOK, Holds, HoldPlaces, MachineOK, StatusOK, usageVars, spaceVars
<1>3. ASSUME NEW t \in Operations, RunCommand(t) PROVE MachineOK'
  BY <1>3, NamesDiffer
       DEF RunCommand, Go, BeginCommand, BeginUse, PlacesOK, TypeOK, ThreadVarsOK, Statuses,
           ThreadOK, LockOK, Holds, HoldPlaces, MachineOK, StatusOK, usageVars, spaceVars
<1>4. ASSUME NEW t \in Operations, Finish(t) PROVE MachineOK'
  BY <1>4, NamesDiffer
       DEF Finish, Go, PlacesOK, TypeOK, ThreadVarsOK, Statuses, ThreadOK, LockOK, Holds,
           HoldPlaces, MachineOK, StatusOK, usageVars, spaceVars
<1>5. ASSUME NEW t \in Threads, LockStart(t) PROVE MachineOK'
  BY <1>5, NamesDiffer
       DEF LockStart, Go, Refreshed, PlacesOK, TypeOK, ThreadVarsOK, Statuses, ThreadOK, LockOK,
           Holds, HoldPlaces, MachineOK, StatusOK, usageVars, spaceVars
<1>6. ASSUME NEW t \in Threads, LockStop(t) PROVE MachineOK'
  BY <1>6, NamesDiffer
       DEF LockStop, Go, PlacesOK, TypeOK, ThreadVarsOK, Statuses, ThreadOK, LockOK, Holds,
           HoldPlaces, MachineOK, StatusOK, usageVars, spaceVars
<1>7. ASSUME NEW t \in Threads, LockApply(t) PROVE MachineOK'
  BY <1>7, NamesDiffer
       DEF LockApply, Go, Refreshed, PlacesOK, TypeOK, ThreadVarsOK, Statuses, ThreadOK, LockOK,
           Holds, HoldPlaces, MachineOK, StatusOK, usageVars, spaceVars
<1>8. ASSUME NEW t \in Threads, EnterWorkspace(t) PROVE MachineOK'
  BY <1>8, NamesDiffer
       DEF EnterWorkspace, Go, BeginCommand, BeginUse, PlacesOK, TypeOK, ThreadVarsOK, Statuses,
           ThreadOK, LockOK, Holds, HoldPlaces, MachineOK, StatusOK, usageVars, spaceVars
<1>9. ASSUME NEW t \in Threads, ReleaseWorkspace(t) PROVE MachineOK'
  BY <1>9, NamesDiffer
       DEF ReleaseWorkspace, Go, BeginCommand, BeginUse, PlacesOK, TypeOK, ThreadVarsOK, Statuses,
           ThreadOK, LockOK, Holds, HoldPlaces, MachineOK, StatusOK, usageVars, spaceVars
<1>10. ASSUME NEW t \in Threads, CommandEnds(t) PROVE MachineOK'
  BY <1>10, NamesDiffer
       DEF CommandEnds, Go, PlacesOK, TypeOK, ThreadVarsOK, Statuses, ThreadOK, LockOK, Holds,
           HoldPlaces, MachineOK, StatusOK, usageVars, spaceVars
<1>11. ASSUME NEW t \in Threads, EndCommand(t) PROVE MachineOK'
  <2>1. back[t] \in Reasons \ {"unlock"} /\ pc[t] = "ended"
    BY <1>11 DEF EndCommand, PlacesOK, ThreadOK
  <2>2. /\ \A s \in Threads \ {t} : pc'[s] = pc[s] /\ back'[s] = back[s]
        /\ pc'[t] \in {"idle", "prepared", "working", "leave"} /\ back'[t] = "none"
    BY <1>11, <2>1 DEF EndCommand, Continue, Forget, Go, Reasons, PlacesOK, TypeOK
  <2> QED BY <1>11, <2>2, NamesDiffer
       DEF EndCommand, PlacesOK, TypeOK, ThreadVarsOK, Statuses, ThreadOK, LockOK, Holds,
           HoldPlaces, MachineOK, StatusOK, usageVars, spaceVars
<1>12. ASSUME NEW t \in Threads, Leave(t) PROVE MachineOK'
  BY <1>12, NamesDiffer
       DEF Leave, Go, EndUse, PlacesOK, TypeOK, ThreadVarsOK, Statuses, ThreadOK, LockOK, Holds,
           HoldPlaces, MachineOK, StatusOK, usageVars, spaceVars
<1>13. ASSUME NEW t \in Threads, StartRunning(t) PROVE MachineOK'
  <2>1. ThreadVarsOK /\ \E result : Returns(t, result)
    BY <1>13 DEF StartRunning, PlacesOK, TypeOK, ThreadVarsOK
  <2>2. /\ \A s \in Threads \ {t} : pc'[s] = pc[s] /\ back'[s] = back[s]
        /\ pc'[t] \in {"idle", "prepared", "leave", "run", "ended"}
        /\ back'[t] \in {"none", back[t]}
    BY <2>1, ReturnsPlace
  <2>3. pc[t] \in {"decide", "return"} /\ lock' = "none" /\ UNCHANGED <<vm, status, seen>>
    BY <1>13 DEF StartRunning
  <2> QED BY <2>2, <2>3, NamesDiffer
       DEF PlacesOK, TypeOK, ThreadVarsOK, Statuses, ThreadOK, LockOK, Holds, HoldPlaces,
           MachineOK, StatusOK, usageVars, spaceVars
<1>14. ASSUME NEW t \in Threads, StartStopped(t) PROVE MachineOK'
  BY <1>14, NamesDiffer
       DEF StartStopped, Go, PlacesOK, TypeOK, ThreadVarsOK, Statuses, ThreadOK, LockOK, Holds,
           HoldPlaces, MachineOK, StatusOK, usageVars, spaceVars
<1>15. ASSUME NEW t \in Threads, LimactlStarts(t) PROVE MachineOK'
  BY <1>15, NamesDiffer
       DEF LimactlStarts, Go, PlacesOK, TypeOK, ThreadVarsOK, Statuses, ThreadOK, LockOK, Holds,
           HoldPlaces, MachineOK, StatusOK, usageVars, spaceVars
<1>16. ASSUME NEW t \in Threads, ReadStarted(t) PROVE MachineOK'
  BY <1>16, NamesDiffer
       DEF ReadStarted, Go, PlacesOK, TypeOK, ThreadVarsOK, Statuses, ThreadOK, LockOK, Holds,
           HoldPlaces, MachineOK, StatusOK, usageVars, spaceVars
<1>17. ASSUME NEW t \in Threads, StartReturns(t) PROVE MachineOK'
  <2>1. ThreadVarsOK /\ \E result : Returns(t, result)
    BY <1>17 DEF StartReturns, PlacesOK, TypeOK, ThreadVarsOK
  <2>2. /\ \A s \in Threads \ {t} : pc'[s] = pc[s] /\ back'[s] = back[s]
        /\ pc'[t] \in {"idle", "prepared", "leave", "run", "ended"}
        /\ back'[t] \in {"none", back[t]}
    BY <2>1, ReturnsPlace
  <2>3. pc[t] \in {"decide", "return"} /\ lock' = "none" /\ UNCHANGED <<vm, status, seen>>
    BY <1>17 DEF StartReturns
  <2> QED BY <2>2, <2>3, NamesDiffer
       DEF PlacesOK, TypeOK, ThreadVarsOK, Statuses, ThreadOK, LockOK, Holds, HoldPlaces,
           MachineOK, StatusOK, usageVars, spaceVars
<1>18. ASSUME NEW t \in Threads, StopBegins(t) PROVE MachineOK'
  BY <1>18, NamesDiffer
       DEF StopBegins, Go, PlacesOK, TypeOK, ThreadVarsOK, Statuses, ThreadOK, LockOK, Holds,
           HoldPlaces, MachineOK, StatusOK, usageVars, spaceVars
<1>19. ASSUME NEW t \in Threads, LimactlStops(t) PROVE MachineOK'
  BY <1>19, NamesDiffer
       DEF LimactlStops, Go, PlacesOK, TypeOK, ThreadVarsOK, Statuses, ThreadOK, LockOK, Holds,
           HoldPlaces, MachineOK, StatusOK, usageVars, spaceVars
<1>20. ASSUME NEW t \in Threads, ReadStopped(t) PROVE MachineOK'
  BY <1>20, NamesDiffer
       DEF ReadStopped, Go, PlacesOK, TypeOK, ThreadVarsOK, Statuses, ThreadOK, LockOK, Holds,
           HoldPlaces, MachineOK, StatusOK, usageVars, spaceVars
<1>21. ASSUME NEW t \in Threads, CleanStopped(t) PROVE MachineOK'
  BY <1>21, NamesDiffer
       DEF CleanStopped, Go, BeginCommand, BeginUse, PlacesOK, TypeOK, ThreadVarsOK, Statuses,
           ThreadOK, LockOK, Holds, HoldPlaces, MachineOK, StatusOK, usageVars, spaceVars
<1>22. ASSUME NEW t \in Threads, StopReturns(t) PROVE MachineOK'
  BY <1>22, NamesDiffer
       DEF StopReturns, Go, PlacesOK, TypeOK, ThreadVarsOK, Statuses, ThreadOK, LockOK, Holds,
           HoldPlaces, MachineOK, StatusOK, usageVars, spaceVars
<1>23. ASSUME NEW t \in Threads, LimactlEdits(t) PROVE MachineOK'
  BY <1>23, NamesDiffer
       DEF LimactlEdits, Go, PlacesOK, TypeOK, ThreadVarsOK, Statuses, ThreadOK, LockOK, Holds,
           HoldPlaces, MachineOK, StatusOK, usageVars, spaceVars
<1>24. ASSUME TimerDue PROVE MachineOK'
  BY <1>24, NamesDiffer
       DEF TimerDue, Go, PlacesOK, TypeOK, ThreadVarsOK, Statuses, ThreadOK, LockOK, Holds,
           HoldPlaces, MachineOK, StatusOK, usageVars, spaceVars
<1>25. ASSUME StopIfIdle PROVE MachineOK'
  BY <1>25, NamesDiffer
       DEF StopIfIdle, Go, PlacesOK, TypeOK, ThreadVarsOK, Statuses, ThreadOK, LockOK, Holds,
           HoldPlaces, MachineOK, StatusOK, usageVars, spaceVars
<1>26. ASSUME StopIfStartedAutomatically PROVE MachineOK'
  BY <1>26, NamesDiffer
       DEF StopIfStartedAutomatically, Go, PlacesOK, TypeOK, ThreadVarsOK, Statuses, ThreadOK,
           LockOK, Holds, HoldPlaces, MachineOK, StatusOK, usageVars, spaceVars
<1>27. ASSUME PressStart PROVE MachineOK'
  BY <1>27, NamesDiffer
       DEF PressStart, Go, PlacesOK, TypeOK, ThreadVarsOK, Statuses, ThreadOK, LockOK, Holds,
           HoldPlaces, MachineOK, StatusOK, usageVars, spaceVars
<1>28. ASSUME PressStop PROVE MachineOK'
  BY <1>28, NamesDiffer
       DEF PressStop, Go, PlacesOK, TypeOK, ThreadVarsOK, Statuses, ThreadOK, LockOK, Holds,
           HoldPlaces, MachineOK, StatusOK, usageVars, spaceVars
<1>29. ASSUME PressApply PROVE MachineOK'
  BY <1>29, NamesDiffer
       DEF PressApply, Go, PlacesOK, TypeOK, ThreadVarsOK, Statuses, ThreadOK, LockOK, Holds,
           HoldPlaces, MachineOK, StatusOK, usageVars, spaceVars
<1>30. ASSUME ViewReads PROVE MachineOK'
  BY <1>30, NamesDiffer
       DEF ViewReads, Go, PlacesOK, TypeOK, ThreadVarsOK, Statuses, ThreadOK, LockOK, Holds,
           HoldPlaces, MachineOK, StatusOK, usageVars, spaceVars
<1>31. ASSUME ViewSets PROVE MachineOK'
  BY <1>31, NamesDiffer
       DEF ViewSets, Go, PlacesOK, TypeOK, ThreadVarsOK, Statuses, ThreadOK, LockOK, Holds,
           HoldPlaces, MachineOK, StatusOK, usageVars, spaceVars
<1>32. CASE UNCHANGED vars
  BY <1>32, NamesDiffer
       DEF vars, usageVars, spaceVars, PlacesOK, TypeOK, ThreadVarsOK, Statuses, ThreadOK, LockOK,
           Holds, HoldPlaces, MachineOK, StatusOK, usageVars, spaceVars
<1> QED BY <1>1, <1>2, <1>3, <1>4, <1>5, <1>6, <1>7, <1>8, <1>9, <1>10, <1>11, <1>12, <1>13,
     <1>14, <1>15, <1>16, <1>17, <1>18, <1>19, <1>20, <1>21, <1>22, <1>23, <1>24, <1>25, <1>26,
     <1>27, <1>28, <1>29, <1>30, <1>31, <1>32
     DEF Next, Operate, TakeLock, TakeWorkspaceLock, Proceed, Control

\* Whoever holds _lock finds the machine as it left it.
LEMMA MachineInvariant == Spec => [](PlacesOK /\ MachineOK)
BY PlacesInvariant, MachineInit, MachineStep, PTL DEF Spec

\* The status is the machine's own, or says what is being done with it,
\* while no thread sets it without the lock.
THEOREM StatusTold == Spec => []StatusHonest
<1>1. PlacesOK /\ MachineOK => StatusHonest
  BY DEF PlacesOK, MachineOK, StatusOK, StatusHonest
<1> QED BY MachineInvariant, <1>1, PTL

\* limactl is not called for two changes of the machine at the same time.
THEOREM OneChangeAtATime == Spec => []OneAtATime
<1>1. PlacesOK /\ MachineOK => OneAtATime
  BY DEF PlacesOK, LockOK, Holds, HoldPlaces, MachineOK, OneAtATime
<1> QED BY MachineInvariant, <1>1, PTL

\* _lock and _workspace_lock are taken in one order: no threads wait for
\* each other, whether a view refreshes the status or not.  A thread waits
\* for a lock of its own in one case only, which needs such a view: stop()
\* removes the working space of a machine that the view has called running.
THEOREM LocksOrdered == Spec => []LockOrder
<1>1. PlacesOK /\ MachineOK => LockOrder
  BY DEF PlacesOK, ThreadOK, LockOK, Holds, HoldPlaces, StartPlaces, MachineOK, StatusOK, LockOrder
<1> QED BY MachineInvariant, <1>1, PTL

-----------------------------------------------------------------------------
(* The same where the view of the machine may be open.  It takes no lock,  *)
(* so threads are at the same places with it; all its other steps are      *)
(* those without it.                                                       *)

LEMMA ViewedThreads ==
  ASSUME NEW t \in Threads
  PROVE  (Viewed!TakeLock(t) \/ Viewed!TakeWorkspaceLock(t) \/ Viewed!Proceed(t)) =>
           TakeLock(t) \/ TakeWorkspaceLock(t) \/ Proceed(t)
<1>1. Viewed!LockStart(t) => LockStart(t)
  BY DEF LockStart, Refreshed, Go, usageVars, spaceVars,
       Viewed!LockStart, Viewed!Refreshed, Viewed!Go, Viewed!usageVars, Viewed!spaceVars
<1>2. Viewed!LockStop(t) => LockStop(t)
  BY DEF LockStop, Go, usageVars, spaceVars,
       Viewed!LockStop, Viewed!Go, Viewed!usageVars, Viewed!spaceVars
<1>3. Viewed!LockApply(t) => LockApply(t)
  BY DEF LockApply, Refreshed, Go, usageVars, spaceVars,
       Viewed!LockApply, Viewed!Refreshed, Viewed!Go, Viewed!usageVars, Viewed!spaceVars
<1>4. Viewed!EnterWorkspace(t) => EnterWorkspace(t)
  BY DEF EnterWorkspace, BeginCommand, BeginUse, Go, usageVars, spaceVars,
       Viewed!EnterWorkspace, Viewed!BeginCommand, Viewed!BeginUse, Viewed!Go, Viewed!usageVars, Viewed!spaceVars
<1>5. Viewed!ReleaseWorkspace(t) => ReleaseWorkspace(t)
  BY DEF ReleaseWorkspace, BeginCommand, BeginUse, Go, usageVars, spaceVars,
       Viewed!ReleaseWorkspace, Viewed!BeginCommand, Viewed!BeginUse, Viewed!Go, Viewed!usageVars, Viewed!spaceVars
<1>6. Viewed!CommandEnds(t) => CommandEnds(t)
  BY DEF CommandEnds, Go, usageVars, spaceVars,
       Viewed!CommandEnds, Viewed!Go, Viewed!usageVars, Viewed!spaceVars
<1>7. Viewed!EndCommand(t) => EndCommand(t)
  BY DEF EndCommand, EndUse, Names, Continue, Forget, Go, usageVars, spaceVars,
       Viewed!EndCommand, Viewed!EndUse, Viewed!Names, Viewed!Continue, Viewed!Forget, Viewed!Go, Viewed!usageVars, Viewed!spaceVars
<1>8. Viewed!Leave(t) => Leave(t)
  BY DEF Leave, EndUse, Names, Go, usageVars, spaceVars,
       Viewed!Leave, Viewed!EndUse, Viewed!Names, Viewed!Go, Viewed!usageVars, Viewed!spaceVars
<1>9. Viewed!StartRunning(t) => StartRunning(t)
  BY DEF StartRunning, Returns, Forget, Go, usageVars, spaceVars,
       Viewed!StartRunning, Viewed!Returns, Viewed!Forget, Viewed!Go, Viewed!usageVars, Viewed!spaceVars
<1>10. Viewed!StartStopped(t) => StartStopped(t)
  BY DEF StartStopped, Go, usageVars, spaceVars,
       Viewed!StartStopped, Viewed!Go, Viewed!usageVars, Viewed!spaceVars
<1>11. Viewed!LimactlStarts(t) => LimactlStarts(t)
  BY DEF LimactlStarts, Go, usageVars, spaceVars,
       Viewed!LimactlStarts, Viewed!Go, Viewed!usageVars, Viewed!spaceVars
<1>12. Viewed!ReadStarted(t) => ReadStarted(t)
  BY DEF ReadStarted, Go, usageVars, spaceVars,
       Viewed!ReadStarted, Viewed!Go, Viewed!usageVars, Viewed!spaceVars
<1>13. Viewed!StartReturns(t) => StartReturns(t)
  BY DEF StartReturns, Returns, Forget, Go, usageVars, spaceVars,
       Viewed!StartReturns, Viewed!Returns, Viewed!Forget, Viewed!Go, Viewed!usageVars, Viewed!spaceVars
<1>14. Viewed!StopBegins(t) => StopBegins(t)
  BY DEF StopBegins, Go, usageVars, spaceVars,
       Viewed!StopBegins, Viewed!Go, Viewed!usageVars, Viewed!spaceVars
<1>15. Viewed!LimactlStops(t) => LimactlStops(t)
  BY DEF LimactlStops, Go, usageVars, spaceVars,
       Viewed!LimactlStops, Viewed!Go, Viewed!usageVars, Viewed!spaceVars
<1>16. Viewed!ReadStopped(t) => ReadStopped(t)
  BY DEF ReadStopped, Go, usageVars, spaceVars,
       Viewed!ReadStopped, Viewed!Go, Viewed!usageVars, Viewed!spaceVars
<1>17. Viewed!CleanStopped(t) => CleanStopped(t)
  BY DEF CleanStopped, BeginCommand, BeginUse, Go, usageVars, spaceVars,
       Viewed!CleanStopped, Viewed!BeginCommand, Viewed!BeginUse, Viewed!Go, Viewed!usageVars, Viewed!spaceVars
<1>18. Viewed!StopReturns(t) => StopReturns(t)
  BY DEF StopReturns, Go, usageVars, spaceVars,
       Viewed!StopReturns, Viewed!Go, Viewed!usageVars, Viewed!spaceVars
<1>19. Viewed!LimactlEdits(t) => LimactlEdits(t)
  BY DEF LimactlEdits, Go, usageVars, spaceVars,
       Viewed!LimactlEdits, Viewed!Go, Viewed!usageVars, Viewed!spaceVars
<1>20. QED
  BY <1>1, <1>2, <1>3, <1>4, <1>5, <1>6, <1>7, <1>8, <1>9, <1>10, <1>11, <1>12, <1>13, <1>14, <1>15, <1>16, <1>17, <1>18, <1>19
  DEF TakeLock, TakeWorkspaceLock, Proceed, Viewed!TakeLock, Viewed!TakeWorkspaceLock, Viewed!Proceed

LEMMA ViewedOperations == ASSUME NEW t \in Operations PROVE Viewed!Operate(t) => Operate(t)
<1>1. Viewed!Prepare(t) => Prepare(t)
  BY DEF Prepare, BeginUse, Go, usageVars, spaceVars,
       Viewed!Prepare, Viewed!BeginUse, Viewed!Go, Viewed!usageVars, Viewed!spaceVars
<1>2. Viewed!AcquireWorkspace(t) => AcquireWorkspace(t)
  BY DEF AcquireWorkspace, BeginUse, Go, usageVars, spaceVars,
       Viewed!AcquireWorkspace, Viewed!BeginUse, Viewed!Go, Viewed!usageVars, Viewed!spaceVars
<1>3. Viewed!RunCommand(t) => RunCommand(t)
  BY DEF RunCommand, BeginCommand, BeginUse, Go, usageVars, spaceVars,
       Viewed!RunCommand, Viewed!BeginCommand, Viewed!BeginUse, Viewed!Go, Viewed!usageVars, Viewed!spaceVars
<1>4. Viewed!Finish(t) => Finish(t)
  BY DEF Finish, Go, usageVars, spaceVars,
       Viewed!Finish, Viewed!Go, Viewed!usageVars, Viewed!spaceVars
<1>5. QED
  BY <1>1, <1>2, <1>3, <1>4 DEF Operate, Viewed!Operate

LEMMA ViewedControl ==
  Viewed!TimerDue \/ Viewed!StopIfIdle \/ Viewed!Control \/ Viewed!ViewSets => TimerDue \/ StopIfIdle \/ Control \/ ViewSets
<1>1. Viewed!TimerDue => TimerDue
  BY DEF TimerDue, Go, usageVars, spaceVars,
       Viewed!TimerDue, Viewed!Go, Viewed!usageVars, Viewed!spaceVars
<1>2. Viewed!StopIfIdle => StopIfIdle
  BY DEF StopIfIdle, Unused, Names, Go, usageVars, spaceVars,
       Viewed!StopIfIdle, Viewed!Unused, Viewed!Names, Viewed!Go, Viewed!usageVars, Viewed!spaceVars
<1>3. Viewed!StopIfStartedAutomatically => StopIfStartedAutomatically
  BY DEF StopIfStartedAutomatically, Go, usageVars, spaceVars,
       Viewed!StopIfStartedAutomatically, Viewed!Go, Viewed!usageVars, Viewed!spaceVars
<1>4. Viewed!PressStart => PressStart
  BY DEF PressStart, Go, usageVars, spaceVars,
       Viewed!PressStart, Viewed!Go, Viewed!usageVars, Viewed!spaceVars
<1>5. Viewed!PressStop => PressStop
  BY DEF PressStop, Unused, Names, Go, usageVars, spaceVars,
       Viewed!PressStop, Viewed!Unused, Viewed!Names, Viewed!Go, Viewed!usageVars, Viewed!spaceVars
<1>6. Viewed!PressApply => PressApply
  BY DEF PressApply, Go, usageVars, spaceVars,
       Viewed!PressApply, Viewed!Go, Viewed!usageVars, Viewed!spaceVars
<1>7. Viewed!ViewSets => ViewSets
  BY DEF ViewSets, usageVars, spaceVars,
       Viewed!ViewSets, Viewed!usageVars, Viewed!spaceVars
<1>8. QED
  BY <1>1, <1>2, <1>3, <1>4, <1>5, <1>6, <1>7 DEF Control, Viewed!Control

\* A step with the view open is one without it, or the view reads the status.
LEMMA ViewedStep == ASSUME PlacesOK, [Viewed!Next]_vars PROVE PlacesOK'
<1>1. CASE [Next]_vars
  BY <1>1, TypeStep, ThreadsStep DEF PlacesOK
<1>2. CASE Viewed!ViewReads
  <2>1. UNCHANGED <<vm, lock, usageVars, spaceVars, pc, back, ok>> /\ UNCHANGED status /\ seen' = vm
    BY <1>2 DEF Viewed!ViewReads, Viewed!usageVars, Viewed!spaceVars, usageVars, spaceVars
  <2>2. TypeOK'
    BY <2>1 DEF PlacesOK, TypeOK, usageVars, spaceVars
  <2>3. \A t \in Threads : ThreadOK(t)' /\ LockOK(t)'
    BY <2>1 DEF PlacesOK, ThreadOK, LockOK, Holds, spaceVars
  <2>4. QED
    BY <2>2, <2>3 DEF PlacesOK
<1>3. Viewed!Threads = Threads
  BY DEF Viewed!Threads, Threads
<1>4. QED
  BY <1>1, <1>2, <1>3, ViewedThreads, ViewedOperations, ViewedControl DEF Viewed!Next, Next

\* While the view is closed no step of it sets the status, so that what the
\* holders of _lock know of it stays true.
UnseenOK == PlacesOK /\ (~viewed => MachineOK)

LEMMA UnseenStep == UnseenOK /\ [MCNext]_mcvars => UnseenOK'
<1> SUFFICES ASSUME UnseenOK, [MCNext]_mcvars PROVE UnseenOK'
  OBVIOUS
<1>1. viewed' = viewed /\ ([Next]_vars \/ (viewed /\ Viewed!Next))
  <2>1. CASE MCNext
    BY <2>1 DEF MCNext
  <2>2. CASE UNCHANGED mcvars
    BY <2>2 DEF mcvars
  <2>3. QED
    BY <2>1, <2>2
<1>2. PlacesOK'
  BY <1>1, TypeStep, ThreadsStep, ViewedStep DEF PlacesOK, UnseenOK
<1>3. ~viewed' => MachineOK'
  BY <1>1, MachineStep DEF UnseenOK
<1> QED BY <1>2, <1>3 DEF UnseenOK

\* Unseen, the status that the app acts on is honest, in every run of the
\* machine that MCVMRunner composes; and seen or not, no threads wait for
\* each other.
THEOREM UnseenStatusTold == MCSpec => []UnseenHonest
<1>1. MCInit => UnseenOK
  BY PlacesInit, MachineInit DEF MCInit, UnseenOK
<1>2. UnseenOK => UnseenHonest
  <2>1. ASSUME PlacesOK PROVE Viewed!LockOrder
    BY <2>1 DEF PlacesOK, ThreadOK, LockOK, Holds, HoldPlaces, StartPlaces, Viewed!LockOrder, Viewed!Threads, Threads
  <2>2. ASSUME PlacesOK, MachineOK PROVE StatusHonest /\ LockOrder
    BY <2>2 DEF PlacesOK, ThreadOK, LockOK, Holds, HoldPlaces, StartPlaces, MachineOK, StatusOK, StatusHonest, LockOrder
  <2>3. QED
    BY <2>1, <2>2 DEF UnseenOK, UnseenHonest
<1> QED BY <1>1, <1>2, UnseenStep, PTL DEF MCSpec

-----------------------------------------------------------------------------
(* Uses of the machine.                                                    *)

CommandThreads == {t \in Threads : Commands(t)}
WorkspaceThreads == {t \in Operations : HasWorkspace(t)}
UsersOK == \A t \in Operations : users[t] = IF Outside(t) THEN 0 ELSE 1

\* What the uses are counted for, as sets.
LEMMA BalanceParts ==
  UsesBalanced <=> /\ users["Command"] = Cardinality(CommandThreads)
                   /\ wusers = Cardinality(WorkspaceThreads) /\ UsersOK
BY DEF UsesBalanced, CommandThreads, WorkspaceThreads, UsersOK

\* Only finitely many threads can be counted.
LEMMA FiniteThreads ==
  /\ IsFiniteSet(CommandThreads) /\ Cardinality(CommandThreads) \in Nat
  /\ IsFiniteSet(WorkspaceThreads) /\ Cardinality(WorkspaceThreads) \in Nat
<1>1. IsFiniteSet(Operations) /\ IsFiniteSet({"timer"}) /\ IsFiniteSet({"button"} \cup {"quit"})
  BY VMAssumption, FS_Singleton, FS_Union
<1>2. IsFiniteSet(Actors)
  <2>1. Actors \in SUBSET ({"button"} \cup {"quit"})
    BY VMAssumption
  <2> QED BY <1>1, <2>1, FS_Subset
<1>3. IsFiniteSet(Threads)
  BY <1>1, <1>2, FS_Union DEF Threads
<1>4. CommandThreads \in SUBSET Threads /\ WorkspaceThreads \in SUBSET Operations
  BY DEF CommandThreads, WorkspaceThreads
<1> QED BY <1>1, <1>3, <1>4, FS_Subset, FS_CardinalityType

\* A thread that is in a finite set is counted.
LEMMA OneCounted ==
  ASSUME NEW S, NEW t \in S, IsFiniteSet(S)
  PROVE  Cardinality(S) \in Nat /\ Cardinality(S) > 0
<1>1. Cardinality(S) \in Nat /\ Cardinality(S \ {t}) \in Nat
  BY FS_CardinalityType, FS_RemoveElement
<1>2. Cardinality(S \ {t}) = Cardinality(S) - 1
  BY FS_RemoveElement
<1> QED BY <1>1, <1>2

\* What a step does to the uses of commands: none begins or ends, or that of
\* one thread does.
CommandBegins(t) ==
  /\ ~Commands(t) /\ users'["Command"] = users["Command"] + 1
  /\ \A s \in Threads : Commands(s)' <=> (Commands(s) \/ s = t)
CommandIsOver(t) ==
  /\ Commands(t) /\ users'["Command"] = users["Command"] - 1
  /\ \A s \in Threads : Commands(s)' <=> (Commands(s) /\ s # t)
CommandsKept ==
  users'["Command"] = users["Command"] /\ \A s \in Threads : Commands(s)' <=> Commands(s)
CommandsCounted ==
  CommandsKept \/ \E t \in Threads : CommandBegins(t) \/ CommandIsOver(t)

\* The same for the working space.
Enters(t) ==
  /\ ~HasWorkspace(t) /\ wusers' = wusers + 1
  /\ \A s \in Operations : HasWorkspace(s)' <=> (HasWorkspace(s) \/ s = t)
Exits(t) ==
  /\ HasWorkspace(t) /\ wusers' = wusers - 1
  /\ \A s \in Operations : HasWorkspace(s)' <=> (HasWorkspace(s) /\ s # t)
WorkspaceKept ==
  wusers' = wusers /\ \A s \in Operations : HasWorkspace(s)' <=> HasWorkspace(s)
WorkspaceCounted ==
  WorkspaceKept \/ \E t \in Operations : Enters(t) \/ Exits(t)

\* Uses that are counted stay in balance.
LEMMA CountedBalance ==
  ASSUME UsesBalanced, UsersOK', CommandsCounted, WorkspaceCounted
  PROVE  UsesBalanced'
<1>1. users'["Command"] = Cardinality(CommandThreads')
  <2>1. CASE CommandsKept
    <3>1. CommandThreads' = CommandThreads
      BY <2>1 DEF CommandsKept, CommandThreads
    <3> QED BY <2>1, <3>1, BalanceParts DEF CommandsKept
  <2>2. ASSUME NEW t \in Threads, CommandBegins(t)
        PROVE  users'["Command"] = Cardinality(CommandThreads')
    <3>1. CommandThreads' = CommandThreads \cup {t} /\ t \notin CommandThreads
      BY <2>2 DEF CommandBegins, CommandThreads
    <3> QED BY <2>2, <3>1, BalanceParts, FiniteThreads, FS_AddElement DEF CommandBegins
  <2>3. ASSUME NEW t \in Threads, CommandIsOver(t)
        PROVE  users'["Command"] = Cardinality(CommandThreads')
    <3>1. CommandThreads' = CommandThreads \ {t} /\ t \in CommandThreads
      BY <2>3 DEF CommandIsOver, CommandThreads
    <3> QED BY <2>3, <3>1, BalanceParts, FiniteThreads, FS_RemoveElement DEF CommandIsOver
  <2> QED BY <2>1, <2>2, <2>3 DEF CommandsCounted
<1>2. wusers' = Cardinality(WorkspaceThreads')
  <2>1. CASE WorkspaceKept
    <3>1. WorkspaceThreads' = WorkspaceThreads
      BY <2>1 DEF WorkspaceKept, WorkspaceThreads
    <3> QED BY <2>1, <3>1, BalanceParts DEF WorkspaceKept
  <2>2. ASSUME NEW t \in Operations, Enters(t) PROVE wusers' = Cardinality(WorkspaceThreads')
    <3>1. WorkspaceThreads' = WorkspaceThreads \cup {t} /\ t \notin WorkspaceThreads
      BY <2>2 DEF Enters, WorkspaceThreads
    <3> QED BY <2>2, <3>1, BalanceParts, FiniteThreads, FS_AddElement DEF Enters
  <2>3. ASSUME NEW t \in Operations, Exits(t) PROVE wusers' = Cardinality(WorkspaceThreads')
    <3>1. WorkspaceThreads' = WorkspaceThreads \ {t} /\ t \in WorkspaceThreads
      BY <2>3 DEF Exits, WorkspaceThreads
    <3> QED BY <2>3, <3>1, BalanceParts, FiniteThreads, FS_RemoveElement DEF Exits
  <2> QED BY <2>1, <2>2, <2>3 DEF WorkspaceCounted
<1> QED BY <1>1, <1>2 DEF UsesBalanced, CommandThreads, WorkspaceThreads, UsersOK

\* There are no uses at first.
LEMMA BalanceInit == Init => UsesBalanced
<1> SUFFICES ASSUME Init PROVE UsesBalanced
  OBVIOUS
<1>1. CommandThreads = {} /\ WorkspaceThreads = {}
  BY NamesDiffer
       DEF Init, CommandThreads, WorkspaceThreads, Commands, HasWorkspace, Starts, StartPlaces,
           Reasons
<1>2. users["Command"] = 0 /\ wusers = 0 /\ UsersOK
  BY NamesDiffer DEF Init, UsersOK, Outside
<1> QED BY <1>1, <1>2, FS_EmptySet, BalanceParts

\* Every step counts the uses that it begins or ends.
LEMMA StepCounts == PlacesOK /\ UsesBalanced /\ [Next]_vars =>
                      CommandsCounted /\ WorkspaceCounted /\ UsersOK'
<1> SUFFICES ASSUME PlacesOK, UsesBalanced, [Next]_vars
             PROVE  CommandsCounted /\ WorkspaceCounted /\ UsersOK'
  OBVIOUS
<1> DEFINE Counts == CommandsCounted /\ WorkspaceCounted /\ UsersOK'
<1>a. CommandsKept /\ WorkspaceKept /\ UsersOK' => Counts
  BY DEF CommandsCounted, WorkspaceCounted
<1>b. UsersOK /\ users \in [Names -> Nat] /\ wusers \in Nat
  BY BalanceParts DEF PlacesOK, TypeOK
<1>1. ASSUME NEW t \in Operations, Prepare(t) PROVE Counts
  <2>1. CommandsKept /\ WorkspaceKept /\ UsersOK'
    BY <1>1, <1>b, NamesDiffer
         DEF Prepare, Go, BeginUse, PlacesOK, TypeOK, ThreadVarsOK, ThreadOK, UsersOK, Outside,
             Commands, Starts, HasWorkspace, StartPlaces, StopPlaces, Reasons, Callers, usageVars,
         spaceVars, CommandsKept, WorkspaceKept
  <2> QED BY <2>1, <1>a
<1>2. ASSUME NEW t \in Operations, AcquireWorkspace(t) PROVE Counts
  <2>1. CommandsKept /\ WorkspaceKept /\ UsersOK'
    BY <1>2, <1>b, NamesDiffer
         DEF AcquireWorkspace, Go, BeginUse, PlacesOK, TypeOK, ThreadVarsOK, ThreadOK, UsersOK,
             Outside, Commands, Starts, HasWorkspace, StartPlaces, StopPlaces, Reasons, Callers,
         usageVars, spaceVars, CommandsKept, WorkspaceKept
  <2> QED BY <2>1, <1>a
<1>3. ASSUME NEW t \in Operations, RunCommand(t) PROVE Counts
  <2>1. CommandBegins(t)
    BY <1>3, <1>b, NamesDiffer
         DEF RunCommand, BeginCommand, BeginUse, Go, CommandBegins, PlacesOK, TypeOK,
             ThreadVarsOK, ThreadOK, UsersOK, Outside, Commands, Starts, HasWorkspace,
         StartPlaces, StopPlaces, Reasons, Callers, usageVars, spaceVars
  <2>2. WorkspaceKept /\ UsersOK'
    BY <1>3, <1>b, NamesDiffer
         DEF RunCommand, BeginCommand, BeginUse, Go, WorkspaceKept, PlacesOK, TypeOK,
             ThreadVarsOK, ThreadOK, UsersOK, Outside, Commands, Starts, HasWorkspace,
         StartPlaces, StopPlaces, Reasons, Callers, usageVars, spaceVars
  <2> QED BY <2>1, <2>2, NamesDiffer DEF CommandsCounted, WorkspaceCounted
<1>4. ASSUME NEW t \in Operations, Finish(t) PROVE Counts
  <2>1. CommandsKept /\ WorkspaceKept /\ UsersOK'
    BY <1>4, <1>b, NamesDiffer
         DEF Finish, Go, PlacesOK, TypeOK, ThreadVarsOK, ThreadOK, UsersOK, Outside, Commands,
             Starts, HasWorkspace, StartPlaces, StopPlaces, Reasons, Callers, usageVars,
         spaceVars, CommandsKept, WorkspaceKept
  <2> QED BY <2>1, <1>a
<1>5. ASSUME NEW t \in Threads, LockStart(t) PROVE Counts
  <2>1. CommandsKept /\ WorkspaceKept /\ UsersOK'
    BY <1>5, <1>b, NamesDiffer
         DEF LockStart, Go, Refreshed, PlacesOK, TypeOK, ThreadVarsOK, ThreadOK, UsersOK, Outside,
             Commands, Starts, HasWorkspace, StartPlaces, StopPlaces, Reasons, Callers, usageVars,
         spaceVars, CommandsKept, WorkspaceKept
  <2> QED BY <2>1, <1>a
<1>6. ASSUME NEW t \in Threads, LockStop(t) PROVE Counts
  <2>1. CommandsKept /\ WorkspaceKept /\ UsersOK'
    BY <1>6, <1>b, NamesDiffer
         DEF LockStop, Go, PlacesOK, TypeOK, ThreadVarsOK, ThreadOK, UsersOK, Outside, Commands,
             Starts, HasWorkspace, StartPlaces, StopPlaces, Reasons, Callers, usageVars,
         spaceVars, CommandsKept, WorkspaceKept
  <2> QED BY <2>1, <1>a
<1>7. ASSUME NEW t \in Threads, LockApply(t) PROVE Counts
  <2>1. CommandsKept /\ WorkspaceKept /\ UsersOK'
    BY <1>7, <1>b, NamesDiffer
         DEF LockApply, Go, Refreshed, PlacesOK, TypeOK, ThreadVarsOK, ThreadOK, UsersOK, Outside,
             Commands, Starts, HasWorkspace, StartPlaces, StopPlaces, Reasons, Callers, usageVars,
         spaceVars, CommandsKept, WorkspaceKept
  <2> QED BY <2>1, <1>a
<1>8. ASSUME NEW t \in Threads, EnterWorkspace(t) PROVE Counts
  <2>1. t \in Operations /\ pc[t] = "enter" /\ back[t] = "none"
    BY <1>8 DEF EnterWorkspace, PlacesOK, ThreadOK, StopPlaces, StartPlaces
  <2>2. CASE wusers = 0
    <3>1. CommandBegins(t)
      BY <1>8, <2>1, <2>2, <1>b, NamesDiffer
           DEF EnterWorkspace, BeginCommand, BeginUse, Go, CommandBegins, PlacesOK, TypeOK,
               ThreadVarsOK, ThreadOK, UsersOK, Outside, Commands, Starts, HasWorkspace,
           StartPlaces, StopPlaces, Reasons, Callers, usageVars, spaceVars
    <3>2. WorkspaceKept /\ UsersOK'
      BY <1>8, <2>1, <2>2, <1>b, NamesDiffer
           DEF EnterWorkspace, BeginCommand, BeginUse, Go, WorkspaceKept, PlacesOK, TypeOK,
               ThreadVarsOK, ThreadOK, UsersOK, Outside, Commands, Starts, HasWorkspace,
           StartPlaces, StopPlaces, Reasons, Callers, usageVars, spaceVars
    <3> QED BY <3>1, <3>2 DEF CommandsCounted, WorkspaceCounted
  <2>3. CASE wusers # 0
    <3>1. Enters(t)
      BY <1>8, <2>1, <2>3, <1>b, NamesDiffer
           DEF EnterWorkspace, Go, Enters, PlacesOK, TypeOK, ThreadVarsOK, ThreadOK, UsersOK,
               Outside, Commands, Starts, HasWorkspace, StartPlaces, StopPlaces, Reasons, Callers,
           usageVars, spaceVars
    <3>2. CommandsKept /\ UsersOK'
      BY <1>8, <2>1, <2>3, <1>b, NamesDiffer
           DEF EnterWorkspace, Go, CommandsKept, PlacesOK, TypeOK, ThreadVarsOK, ThreadOK,
               UsersOK, Outside, Commands, Starts, HasWorkspace, StartPlaces, StopPlaces, Reasons,
           Callers, usageVars, spaceVars
    <3> QED BY <2>1, <3>1, <3>2 DEF CommandsCounted, WorkspaceCounted
  <2> QED BY <2>2, <2>3
<1>9. ASSUME NEW t \in Threads, ReleaseWorkspace(t) PROVE Counts
  <2>1. t \in Operations /\ pc[t] = "release" /\ back[t] = "none"
    BY <1>9 DEF ReleaseWorkspace, PlacesOK, ThreadOK, StopPlaces, StartPlaces
  <2>2. wusers > 0
    <3>1. t \in WorkspaceThreads
      BY <2>1 DEF WorkspaceThreads, HasWorkspace
    <3> QED BY <3>1, OneCounted, FiniteThreads, BalanceParts
  <2>3. CASE wusers = 1 /\ image /\ status = "Running"
    <3>1. wusers' = wusers - 1 /\ BeginCommand(t, "delete")
      BY <1>9, <2>2, <2>3 DEF ReleaseWorkspace
    <3>2. CommandBegins(t)
      BY <2>1, <3>1, <1>b, NamesDiffer
           DEF BeginCommand, BeginUse, Go, CommandBegins, PlacesOK, TypeOK, ThreadVarsOK,
               ThreadOK, UsersOK, Outside, Commands, Starts, HasWorkspace, StartPlaces,
           StopPlaces, Reasons, Callers, usageVars, spaceVars
    <3>3. Exits(t) /\ UsersOK'
      BY <2>1, <3>1, <1>b, NamesDiffer
           DEF BeginCommand, BeginUse, Go, Exits, PlacesOK, TypeOK, ThreadVarsOK, ThreadOK,
               UsersOK, Outside, Commands, Starts, HasWorkspace, StartPlaces, StopPlaces, Reasons,
           Callers, usageVars, spaceVars
    <3> QED BY <2>1, <3>2, <3>3 DEF CommandsCounted, WorkspaceCounted
  <2>4. CASE ~(wusers = 1 /\ image /\ status = "Running")
    <3>1. wusers' = wusers - 1 /\ Go(t, "leave") /\ UNCHANGED <<usageVars, back>>
      BY <1>9, <2>2, <2>4, <1>b DEF ReleaseWorkspace
    <3>2. CommandsKept
      BY <2>1, <3>1, <1>b, NamesDiffer
           DEF Go, CommandsKept, PlacesOK, TypeOK, ThreadVarsOK, ThreadOK, UsersOK, Outside,
               Commands, Starts, HasWorkspace, StartPlaces, StopPlaces, Reasons, Callers,
           usageVars, spaceVars
    <3>3. Exits(t) /\ UsersOK'
      BY <2>1, <3>1, <1>b, NamesDiffer
           DEF Go, Exits, PlacesOK, TypeOK, ThreadVarsOK, ThreadOK, UsersOK, Outside, Commands,
               Starts, HasWorkspace, StartPlaces, StopPlaces, Reasons, Callers, usageVars, spaceVars
    <3> QED BY <2>1, <3>2, <3>3 DEF CommandsCounted, WorkspaceCounted
  <2> QED BY <2>3, <2>4
<1>10. ASSUME NEW t \in Threads, CommandEnds(t) PROVE Counts
  <2>1. CommandsKept /\ WorkspaceKept /\ UsersOK'
    BY <1>10, <1>b, NamesDiffer
         DEF CommandEnds, Go, PlacesOK, TypeOK, ThreadVarsOK, ThreadOK, UsersOK, Outside,
             Commands, Starts, HasWorkspace, StartPlaces, StopPlaces, Reasons, Callers, usageVars,
         spaceVars, CommandsKept, WorkspaceKept
  <2> QED BY <2>1, <1>a
<1>11. ASSUME NEW t \in Threads, EndCommand(t) PROVE Counts
  <2>1. pc[t] = "ended" /\ back[t] \in Reasons \ {"unlock"} /\ t \in Operations
    BY <1>11 DEF EndCommand, PlacesOK, ThreadOK, Reasons, StartPlaces, StopPlaces
  <2>2. users["Command"] > 0
    <3>1. t \in CommandThreads
      BY <2>1 DEF CommandThreads, Commands
    <3> QED BY <3>1, OneCounted, FiniteThreads, BalanceParts
  <2>3. users' = [users EXCEPT !["Command"] = @ - 1]
    BY <1>11, <2>2 DEF EndCommand, EndUse
  <2>4. /\ back' = [back EXCEPT ![t] = "none"]
        /\ \E place \in {"working", "leave", "idle", "prepared"} :
             /\ Go(t, place)
             /\ back[t] \in {"idle", "prepared", "working"} => place = back[t] /\ wusers' = wusers
             /\ back[t] = "create" =>
                  /\ place \in {"working", "leave"}
                  /\ wusers' = IF place = "working" THEN wusers + 1 ELSE wusers
             /\ back[t] = "delete" => place = "leave" /\ wusers' = wusers
    <3>1. Continue(t) /\ Forget(t)
      BY <1>11 DEF EndCommand
    <3> QED BY <2>1, <3>1 DEF Continue, Forget, Reasons
  <2>5. CommandIsOver(t)
    BY <2>1, <2>3, <2>4, <1>b, NamesDiffer
         DEF Go, CommandIsOver, PlacesOK, TypeOK, ThreadVarsOK, ThreadOK, UsersOK, Outside,
             Commands, Starts, HasWorkspace, StartPlaces, StopPlaces, Reasons, Callers, usageVars,
         spaceVars
  <2>6. UsersOK'
    BY <2>1, <2>3, <2>4, <1>b, NamesDiffer
         DEF Go, PlacesOK, TypeOK, ThreadVarsOK, ThreadOK, UsersOK, Outside, Commands, Starts,
             HasWorkspace, StartPlaces, StopPlaces, Reasons, Callers, usageVars, spaceVars
  <2>7. Enters(t) \/ WorkspaceKept
    BY <2>1, <2>4, <1>b, NamesDiffer
         DEF Go, Enters, WorkspaceKept, PlacesOK, TypeOK, ThreadVarsOK, ThreadOK, UsersOK,
             Outside, Commands, Starts, HasWorkspace, StartPlaces, StopPlaces, Reasons, Callers,
         usageVars, spaceVars
  <2> QED BY <2>1, <2>5, <2>6, <2>7, NamesDiffer DEF CommandsCounted, WorkspaceCounted
<1>12. ASSUME NEW t \in Threads, Leave(t) PROVE Counts
  <2>1. CommandsKept /\ WorkspaceKept /\ UsersOK'
    BY <1>12, <1>b, NamesDiffer
         DEF Leave, Go, EndUse, PlacesOK, TypeOK, ThreadVarsOK, ThreadOK, UsersOK, Outside,
             Commands, Starts, HasWorkspace, StartPlaces, StopPlaces, Reasons, Callers, usageVars,
         spaceVars, CommandsKept, WorkspaceKept
  <2> QED BY <2>1, <1>a
<1>13. ASSUME NEW t \in Threads, StartRunning(t) PROVE Counts
  <2>1. ThreadVarsOK /\ \E result : Returns(t, result)
    BY <1>13 DEF StartRunning, PlacesOK, TypeOK, ThreadVarsOK
  <2>2. /\ \A s \in Threads \ {t} : pc'[s] = pc[s] /\ back'[s] = back[s]
        /\ \/ back[t] = "start" /\ pc'[t] = "idle" /\ back'[t] = "none"
           \/ back[t] = "prepare" /\ pc'[t] \in {"prepared", "leave"} /\ back'[t] = "none"
           \/ /\ back[t] \notin {"start", "prepare"}
              /\ pc'[t] \in {"run", "ended"} /\ back'[t] = back[t]
    BY <2>1, ReturnsPlace
  <2>3. pc[t] \in {"decide", "return"} /\ UNCHANGED <<users, wusers>>
    BY <1>13 DEF StartRunning, usageVars, spaceVars
  <2>4. CommandsKept /\ WorkspaceKept /\ UsersOK'
    BY <2>2, <2>3, <1>b, NamesDiffer
         DEF PlacesOK, TypeOK, ThreadVarsOK, ThreadOK, UsersOK, Outside, Commands, Starts,
             HasWorkspace, StartPlaces, StopPlaces, Reasons, Callers, usageVars, spaceVars,
         CommandsKept, WorkspaceKept
  <2> QED BY <2>4, <1>a
<1>14. ASSUME NEW t \in Threads, StartStopped(t) PROVE Counts
  <2>1. CommandsKept /\ WorkspaceKept /\ UsersOK'
    BY <1>14, <1>b, NamesDiffer
         DEF StartStopped, Go, PlacesOK, TypeOK, ThreadVarsOK, ThreadOK, UsersOK, Outside,
             Commands, Starts, HasWorkspace, StartPlaces, StopPlaces, Reasons, Callers, usageVars,
         spaceVars, CommandsKept, WorkspaceKept
  <2> QED BY <2>1, <1>a
<1>15. ASSUME NEW t \in Threads, LimactlStarts(t) PROVE Counts
  <2>1. CommandsKept /\ WorkspaceKept /\ UsersOK'
    BY <1>15, <1>b, NamesDiffer
         DEF LimactlStarts, Go, PlacesOK, TypeOK, ThreadVarsOK, ThreadOK, UsersOK, Outside,
             Commands, Starts, HasWorkspace, StartPlaces, StopPlaces, Reasons, Callers, usageVars,
         spaceVars, CommandsKept, WorkspaceKept
  <2> QED BY <2>1, <1>a
<1>16. ASSUME NEW t \in Threads, ReadStarted(t) PROVE Counts
  <2>1. CommandsKept /\ WorkspaceKept /\ UsersOK'
    BY <1>16, <1>b, NamesDiffer
         DEF ReadStarted, Go, PlacesOK, TypeOK, ThreadVarsOK, ThreadOK, UsersOK, Outside,
             Commands, Starts, HasWorkspace, StartPlaces, StopPlaces, Reasons, Callers, usageVars,
         spaceVars, CommandsKept, WorkspaceKept
  <2> QED BY <2>1, <1>a
<1>17. ASSUME NEW t \in Threads, StartReturns(t) PROVE Counts
  <2>1. ThreadVarsOK /\ \E result : Returns(t, result)
    BY <1>17 DEF StartReturns, PlacesOK, TypeOK, ThreadVarsOK
  <2>2. /\ \A s \in Threads \ {t} : pc'[s] = pc[s] /\ back'[s] = back[s]
        /\ \/ back[t] = "start" /\ pc'[t] = "idle" /\ back'[t] = "none"
           \/ back[t] = "prepare" /\ pc'[t] \in {"prepared", "leave"} /\ back'[t] = "none"
           \/ /\ back[t] \notin {"start", "prepare"}
              /\ pc'[t] \in {"run", "ended"} /\ back'[t] = back[t]
    BY <2>1, ReturnsPlace
  <2>3. pc[t] \in {"decide", "return"} /\ UNCHANGED <<users, wusers>>
    BY <1>17 DEF StartReturns, usageVars, spaceVars
  <2>4. CommandsKept /\ WorkspaceKept /\ UsersOK'
    BY <2>2, <2>3, <1>b, NamesDiffer
         DEF PlacesOK, TypeOK, ThreadVarsOK, ThreadOK, UsersOK, Outside, Commands, Starts,
             HasWorkspace, StartPlaces, StopPlaces, Reasons, Callers, usageVars, spaceVars,
         CommandsKept, WorkspaceKept
  <2> QED BY <2>4, <1>a
<1>18. ASSUME NEW t \in Threads, StopBegins(t) PROVE Counts
  <2>1. CommandsKept /\ WorkspaceKept /\ UsersOK'
    BY <1>18, <1>b, NamesDiffer
         DEF StopBegins, Go, PlacesOK, TypeOK, ThreadVarsOK, ThreadOK, UsersOK, Outside, Commands,
             Starts, HasWorkspace, StartPlaces, StopPlaces, Reasons, Callers, usageVars,
         spaceVars, CommandsKept, WorkspaceKept
  <2> QED BY <2>1, <1>a
<1>19. ASSUME NEW t \in Threads, LimactlStops(t) PROVE Counts
  <2>1. CommandsKept /\ WorkspaceKept /\ UsersOK'
    BY <1>19, <1>b, NamesDiffer
         DEF LimactlStops, Go, PlacesOK, TypeOK, ThreadVarsOK, ThreadOK, UsersOK, Outside,
             Commands, Starts, HasWorkspace, StartPlaces, StopPlaces, Reasons, Callers, usageVars,
         spaceVars, CommandsKept, WorkspaceKept
  <2> QED BY <2>1, <1>a
<1>20. ASSUME NEW t \in Threads, ReadStopped(t) PROVE Counts
  <2>1. CommandsKept /\ WorkspaceKept /\ UsersOK'
    BY <1>20, <1>b, NamesDiffer
         DEF ReadStopped, Go, PlacesOK, TypeOK, ThreadVarsOK, ThreadOK, UsersOK, Outside,
             Commands, Starts, HasWorkspace, StartPlaces, StopPlaces, Reasons, Callers, usageVars,
         spaceVars, CommandsKept, WorkspaceKept
  <2> QED BY <2>1, <1>a
<1>21. ASSUME NEW t \in Threads, CleanStopped(t) PROVE Counts
  <2>1. t \notin Operations /\ pc[t] = "clean" /\ wusers' = wusers /\ back[t] = "none"
    BY <1>21 DEF CleanStopped, PlacesOK, ThreadOK, StopPlaces, StartPlaces
  <2>2. CASE image /\ status = "Running"
    <3>1. CommandBegins(t)
      BY <1>21, <2>1, <2>2, <1>b, NamesDiffer
           DEF CleanStopped, BeginCommand, BeginUse, Go, CommandBegins, PlacesOK, TypeOK,
               ThreadVarsOK, ThreadOK, UsersOK, Outside, Commands, Starts, HasWorkspace,
           StartPlaces, StopPlaces, Reasons, Callers, usageVars, spaceVars
    <3>2. WorkspaceKept /\ UsersOK'
      BY <1>21, <2>1, <2>2, <1>b, NamesDiffer
           DEF CleanStopped, BeginCommand, BeginUse, Go, WorkspaceKept, PlacesOK, TypeOK,
               ThreadVarsOK, ThreadOK, UsersOK, Outside, Commands, Starts, HasWorkspace,
           StartPlaces, StopPlaces, Reasons, Callers, usageVars, spaceVars
    <3> QED BY <3>1, <3>2 DEF CommandsCounted, WorkspaceCounted
  <2>3. CASE ~(image /\ status = "Running")
    <3>1. CommandsKept /\ WorkspaceKept /\ UsersOK'
      BY <1>21, <2>1, <2>3, <1>b, NamesDiffer
           DEF CleanStopped, Go, PlacesOK, TypeOK, ThreadVarsOK, ThreadOK, UsersOK, Outside,
               Commands, Starts, HasWorkspace, StartPlaces, StopPlaces, Reasons, Callers,
           usageVars, spaceVars, CommandsKept, WorkspaceKept
    <3> QED BY <3>1, <1>a
  <2> QED BY <2>2, <2>3
<1>22. ASSUME NEW t \in Threads, StopReturns(t) PROVE Counts
  <2>1. CommandsKept /\ WorkspaceKept /\ UsersOK'
    BY <1>22, <1>b, NamesDiffer
         DEF StopReturns, Go, PlacesOK, TypeOK, ThreadVarsOK, ThreadOK, UsersOK, Outside,
             Commands, Starts, HasWorkspace, StartPlaces, StopPlaces, Reasons, Callers, usageVars,
         spaceVars, CommandsKept, WorkspaceKept
  <2> QED BY <2>1, <1>a
<1>23. ASSUME NEW t \in Threads, LimactlEdits(t) PROVE Counts
  <2>1. CommandsKept /\ WorkspaceKept /\ UsersOK'
    BY <1>23, <1>b, NamesDiffer
         DEF LimactlEdits, Go, PlacesOK, TypeOK, ThreadVarsOK, ThreadOK, UsersOK, Outside,
             Commands, Starts, HasWorkspace, StartPlaces, StopPlaces, Reasons, Callers, usageVars,
         spaceVars, CommandsKept, WorkspaceKept
  <2> QED BY <2>1, <1>a
<1>24. ASSUME TimerDue PROVE Counts
  <2>1. CommandsKept /\ WorkspaceKept /\ UsersOK'
    BY <1>24, <1>b, NamesDiffer
         DEF TimerDue, Go, PlacesOK, TypeOK, ThreadVarsOK, ThreadOK, UsersOK, Outside, Commands,
             Starts, HasWorkspace, StartPlaces, StopPlaces, Reasons, Callers, usageVars,
         spaceVars, CommandsKept, WorkspaceKept
  <2> QED BY <2>1, <1>a
<1>25. ASSUME StopIfIdle PROVE Counts
  <2>1. CommandsKept /\ WorkspaceKept /\ UsersOK'
    BY <1>25, <1>b, NamesDiffer
         DEF StopIfIdle, Go, PlacesOK, TypeOK, ThreadVarsOK, ThreadOK, UsersOK, Outside, Commands,
             Starts, HasWorkspace, StartPlaces, StopPlaces, Reasons, Callers, usageVars,
         spaceVars, CommandsKept, WorkspaceKept
  <2> QED BY <2>1, <1>a
<1>26. ASSUME StopIfStartedAutomatically PROVE Counts
  <2>1. CommandsKept /\ WorkspaceKept /\ UsersOK'
    BY <1>26, <1>b, NamesDiffer
         DEF StopIfStartedAutomatically, Go, PlacesOK, TypeOK, ThreadVarsOK, ThreadOK, UsersOK,
             Outside, Commands, Starts, HasWorkspace, StartPlaces, StopPlaces, Reasons, Callers,
         usageVars, spaceVars, CommandsKept, WorkspaceKept
  <2> QED BY <2>1, <1>a
<1>27. ASSUME PressStart PROVE Counts
  <2>1. CommandsKept /\ WorkspaceKept /\ UsersOK'
    BY <1>27, <1>b, NamesDiffer
         DEF PressStart, Go, PlacesOK, TypeOK, ThreadVarsOK, ThreadOK, UsersOK, Outside, Commands,
             Starts, HasWorkspace, StartPlaces, StopPlaces, Reasons, Callers, usageVars,
         spaceVars, CommandsKept, WorkspaceKept
  <2> QED BY <2>1, <1>a
<1>28. ASSUME PressStop PROVE Counts
  <2>1. CommandsKept /\ WorkspaceKept /\ UsersOK'
    BY <1>28, <1>b, NamesDiffer
         DEF PressStop, Go, PlacesOK, TypeOK, ThreadVarsOK, ThreadOK, UsersOK, Outside, Commands,
             Starts, HasWorkspace, StartPlaces, StopPlaces, Reasons, Callers, usageVars,
         spaceVars, CommandsKept, WorkspaceKept
  <2> QED BY <2>1, <1>a
<1>29. ASSUME PressApply PROVE Counts
  <2>1. CommandsKept /\ WorkspaceKept /\ UsersOK'
    BY <1>29, <1>b, NamesDiffer
         DEF PressApply, Go, PlacesOK, TypeOK, ThreadVarsOK, ThreadOK, UsersOK, Outside, Commands,
             Starts, HasWorkspace, StartPlaces, StopPlaces, Reasons, Callers, usageVars,
         spaceVars, CommandsKept, WorkspaceKept
  <2> QED BY <2>1, <1>a
<1>30. ASSUME ViewReads PROVE Counts
  <2>1. CommandsKept /\ WorkspaceKept /\ UsersOK'
    BY <1>30, <1>b, NamesDiffer
         DEF ViewReads, Go, PlacesOK, TypeOK, ThreadVarsOK, ThreadOK, UsersOK, Outside, Commands,
             Starts, HasWorkspace, StartPlaces, StopPlaces, Reasons, Callers, usageVars,
         spaceVars, CommandsKept, WorkspaceKept
  <2> QED BY <2>1, <1>a
<1>31. ASSUME ViewSets PROVE Counts
  <2>1. CommandsKept /\ WorkspaceKept /\ UsersOK'
    BY <1>31, <1>b, NamesDiffer
         DEF ViewSets, Go, PlacesOK, TypeOK, ThreadVarsOK, ThreadOK, UsersOK, Outside, Commands,
             Starts, HasWorkspace, StartPlaces, StopPlaces, Reasons, Callers, usageVars,
         spaceVars, CommandsKept, WorkspaceKept
  <2> QED BY <2>1, <1>a
<1>32. CASE UNCHANGED vars
  <2>1. CommandsKept /\ WorkspaceKept /\ UsersOK'
    BY <1>32, <1>b, NamesDiffer
         DEF vars, PlacesOK, TypeOK, ThreadVarsOK, ThreadOK, UsersOK, Outside, Commands, Starts,
             HasWorkspace, StartPlaces, StopPlaces, Reasons, Callers, usageVars, spaceVars,
         CommandsKept, WorkspaceKept
  <2> QED BY <2>1, <1>a
<1> QED BY <1>1, <1>2, <1>3, <1>4, <1>5, <1>6, <1>7, <1>8, <1>9, <1>10, <1>11, <1>12, <1>13,
     <1>14, <1>15, <1>16, <1>17, <1>18, <1>19, <1>20, <1>21, <1>22, <1>23, <1>24, <1>25, <1>26,
     <1>27, <1>28, <1>29, <1>30, <1>31, <1>32
     DEF Next, Operate, TakeLock, TakeWorkspaceLock, Proceed, Control

\* So every step keeps the uses in balance.
LEMMA BalanceStep == PlacesOK /\ UsesBalanced /\ [Next]_vars => UsesBalanced'
BY StepCounts, CountedBalance

\* The uses are in balance, with threads at their places.
LEMMA BalanceInvariant == Spec => [](PlacesOK /\ UsesBalanced)
BY PlacesInvariant, BalanceInit, BalanceStep, PTL DEF Spec

\* Every use that began ends once: the names in the list are those of the
\* commands that run and of the operations that have begun, and the working
\* space is counted for those who work in it.
THEOREM UsesInBalance == Spec => []UsesBalanced
BY BalanceInvariant, PTL

-----------------------------------------------------------------------------
(* The stop of a machine that is not used.                                 *)

\* start() remembers that it was for an operation while that one still has
\* its use, so that the end of the use finds it.
LEMMA IdleStopStep == PlacesOK /\ UsesBalanced /\ IdleStopArmed /\ [Next]_vars => IdleStopArmed'
<1> SUFFICES ASSUME PlacesOK, UsesBalanced, IdleStopArmed, [Next]_vars PROVE IdleStopArmed'
  OBVIOUS
<1>a. ASSUME NEW name \in Names, BeginUse(name) PROVE IdleStopArmed'
  <2>1. users \in [Names -> Nat]
    BY DEF PlacesOK, TypeOK
  <2>2. users'[name] = users[name] + 1 /\ users[name] \in Nat
    BY <1>a, <2>1 DEF BeginUse
  <2>3. users'[name] # 0
    BY <2>2
  <2> QED BY <2>3 DEF IdleStopArmed, Unused
<1>b. ASSUME NEW name \in Names, EndUse(name) PROVE IdleStopArmed'
  BY <1>b DEF EndUse, IdleStopArmed, Unused
<1>c. ASSUME UNCHANGED <<users, auto, timer>> PROVE IdleStopArmed'
  BY <1>c DEF IdleStopArmed, Unused
<1>1. ASSUME NEW t \in Operations, Prepare(t) PROVE IdleStopArmed'
  <2>1. BeginUse(t)
    BY <1>1 DEF Prepare
  <2> QED BY <2>1, <1>a, NamesDiffer
<1>2. ASSUME NEW t \in Operations, AcquireWorkspace(t) PROVE IdleStopArmed'
  <2>1. BeginUse(t)
    BY <1>2 DEF AcquireWorkspace
  <2> QED BY <2>1, <1>a, NamesDiffer
<1>3. ASSUME NEW t \in Operations, RunCommand(t) PROVE IdleStopArmed'
  <2>1. BeginUse("Command")
    BY <1>3 DEF RunCommand, BeginCommand
  <2> QED BY <2>1, <1>a, NamesDiffer
<1>4. ASSUME NEW t \in Operations, Finish(t) PROVE IdleStopArmed'
  BY <1>4, <1>c DEF Finish, usageVars
<1>5. ASSUME NEW t \in Threads, LockStart(t) PROVE IdleStopArmed'
  BY <1>5, <1>c DEF LockStart, usageVars
<1>6. ASSUME NEW t \in Threads, LockStop(t) PROVE IdleStopArmed'
  BY <1>6, <1>c DEF LockStop, usageVars
<1>7. ASSUME NEW t \in Threads, LockApply(t) PROVE IdleStopArmed'
  BY <1>7, <1>c DEF LockApply, usageVars
<1>8. ASSUME NEW t \in Threads, EnterWorkspace(t) PROVE IdleStopArmed'
  <2>1. BeginUse("Command") \/ UNCHANGED <<users, auto, timer>>
    BY <1>8 DEF EnterWorkspace, BeginCommand, usageVars
  <2> QED BY <2>1, <1>a, <1>c, NamesDiffer
<1>9. ASSUME NEW t \in Threads, ReleaseWorkspace(t) PROVE IdleStopArmed'
  <2>1. BeginUse("Command") \/ UNCHANGED <<users, auto, timer>>
    BY <1>9 DEF ReleaseWorkspace, BeginCommand, usageVars
  <2> QED BY <2>1, <1>a, <1>c, NamesDiffer
<1>10. ASSUME NEW t \in Threads, CommandEnds(t) PROVE IdleStopArmed'
  BY <1>10, <1>c DEF CommandEnds, usageVars
<1>11. ASSUME NEW t \in Threads, EndCommand(t) PROVE IdleStopArmed'
  <2>1. EndUse("Command")
    BY <1>11 DEF EndCommand
  <2> QED BY <2>1, <1>b, NamesDiffer
<1>12. ASSUME NEW t \in Threads, Leave(t) PROVE IdleStopArmed'
  <2>1. EndUse(t) /\ t \in Operations
    BY <1>12 DEF Leave, PlacesOK, ThreadOK, StartPlaces, StopPlaces
  <2> QED BY <2>1, <1>b, NamesDiffer
<1>13. ASSUME NEW t \in Threads, StartRunning(t) PROVE IdleStopArmed'
  BY <1>13, <1>c DEF StartRunning, usageVars
<1>14. ASSUME NEW t \in Threads, StartStopped(t) PROVE IdleStopArmed'
  BY <1>14, <1>c DEF StartStopped, usageVars
<1>15. ASSUME NEW t \in Threads, LimactlStarts(t) PROVE IdleStopArmed'
  BY <1>15, <1>c DEF LimactlStarts, usageVars
<1>16. ASSUME NEW t \in Threads, ReadStarted(t) PROVE IdleStopArmed'
  BY <1>16, <1>c DEF ReadStarted, usageVars
<1>17. ASSUME NEW t \in Threads, StartReturns(t) PROVE IdleStopArmed'
  <2>1. UNCHANGED <<users, timer>>
    BY <1>17 DEF StartReturns
  <2>2. CASE back[t] = "start"
    <3>1. auto' = auto
      BY <1>17, <2>2 DEF StartReturns, PlacesOK, TypeOK
    <3> QED BY <2>1, <3>1, <1>c
  <2>3. CASE back[t] # "start"
    <3>1. pc[t] = "return" /\ back[t] \in Reasons \cup {"prepare"}
      BY <1>17, <2>3 DEF StartReturns, PlacesOK, TypeOK, ThreadOK, Callers, StartPlaces
    <3>2. CASE back[t] \in Reasons
      <4>1. t \in CommandThreads
        BY <3>1, <3>2 DEF CommandThreads, Commands, Starts, StartPlaces
      <4>2. users["Command"] # 0
        BY <4>1, OneCounted, FiniteThreads, BalanceParts
      <4> QED BY <2>1, <4>2, NamesDiffer DEF IdleStopArmed, Unused
    <3>3. CASE back[t] = "prepare"
      <4>1. t \in Operations /\ users[t] = 1
        BY <3>1, <3>3, BalanceParts DEF PlacesOK, ThreadOK, UsersOK, Outside, Commands, Starts
      <4> QED BY <2>1, <4>1, NamesDiffer DEF IdleStopArmed, Unused
    <3> QED BY <3>1, <3>2, <3>3
  <2> QED BY <2>2, <2>3
<1>18. ASSUME NEW t \in Threads, StopBegins(t) PROVE IdleStopArmed'
  BY <1>18 DEF StopBegins, IdleStopArmed
<1>19. ASSUME NEW t \in Threads, LimactlStops(t) PROVE IdleStopArmed'
  BY <1>19, <1>c DEF LimactlStops, usageVars
<1>20. ASSUME NEW t \in Threads, ReadStopped(t) PROVE IdleStopArmed'
  BY <1>20, <1>c DEF ReadStopped, usageVars
<1>21. ASSUME NEW t \in Threads, CleanStopped(t) PROVE IdleStopArmed'
  <2>1. BeginUse("Command") \/ UNCHANGED <<users, auto, timer>>
    BY <1>21 DEF CleanStopped, BeginCommand, usageVars
  <2> QED BY <2>1, <1>a, <1>c, NamesDiffer
<1>22. ASSUME NEW t \in Threads, StopReturns(t) PROVE IdleStopArmed'
  BY <1>22, <1>c DEF StopReturns, usageVars
<1>23. ASSUME NEW t \in Threads, LimactlEdits(t) PROVE IdleStopArmed'
  BY <1>23, <1>c DEF LimactlEdits, usageVars
<1>24. ASSUME TimerDue PROVE IdleStopArmed'
  BY <1>24, <1>c DEF TimerDue, usageVars
<1>25. ASSUME StopIfIdle PROVE IdleStopArmed'
  BY <1>25 DEF StopIfIdle, IdleStopArmed, Unused
<1>26. ASSUME StopIfStartedAutomatically PROVE IdleStopArmed'
  BY <1>26 DEF StopIfStartedAutomatically, IdleStopArmed
<1>27. ASSUME PressStart PROVE IdleStopArmed'
  BY <1>27 DEF PressStart, IdleStopArmed
<1>28. ASSUME PressStop PROVE IdleStopArmed'
  BY <1>28 DEF PressStop, IdleStopArmed
<1>29. ASSUME PressApply PROVE IdleStopArmed'
  BY <1>29, <1>c DEF PressApply, usageVars
<1>30. ASSUME ViewReads PROVE IdleStopArmed'
  BY <1>30, <1>c DEF ViewReads, usageVars
<1>31. ASSUME ViewSets PROVE IdleStopArmed'
  BY <1>31, <1>c DEF ViewSets, usageVars
<1>32. CASE UNCHANGED vars
  BY <1>32, <1>c DEF vars, usageVars
<1> QED BY <1>1, <1>2, <1>3, <1>4, <1>5, <1>6, <1>7, <1>8, <1>9, <1>10, <1>11, <1>12, <1>13,
     <1>14, <1>15, <1>16, <1>17, <1>18, <1>19, <1>20, <1>21, <1>22, <1>23, <1>24, <1>25, <1>26,
     <1>27, <1>28, <1>29, <1>30, <1>31, <1>32
     DEF Next, Operate, TakeLock, TakeWorkspaceLock, Proceed, Control

\* A machine that was started for operations and is not used has its stop
\* on the way, whatever ended the last use.
THEOREM IdleStopNotForgotten == Spec => []IdleStopArmed
<1>1. Init => IdleStopArmed
  BY DEF Init, IdleStopArmed
<1> QED BY BalanceInvariant, <1>1, IdleStopStep, PTL DEF Spec
=============================================================================
