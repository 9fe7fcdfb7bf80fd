------------------------ MODULE BuildAndStages_proofs ------------------------
(***************************************************************************)
(* Theorems about the plan of a build and about the build, for the         *)
(* specification of both.                                                  *)
(*                                                                         *)
(* The plan: for projects of any number of stages with any parents, also   *)
(* cyclic ones, every stage to build has a seed, and the order has every   *)
(* such stage once, after its parent.                                      *)
(*                                                                         *)
(* The build, for any number of stages with any parents: its steps run one *)
(* at a time and in order, a stage that had a usable build keeps one,      *)
(* success is whole, a failure skips what is built on it and nothing else, *)
(* and a build that ends gives back what it held.  These are about commands*)
(* that report failures and do not raise: one that raises completes its    *)
(* step twice (CommandRaises), and steps overlap.                          *)
(*                                                                         *)
(* And, after them, about the stages of a project that is edited           *)
(* (MCEditing): for any stages, names and numbers of edits, what is saved  *)
(* of a stage is what was chosen for it, whatever a thread calculates for  *)
(* the view at the same time.                                              *)
(***************************************************************************)
EXTENDS MCProjectBuild, MCEditing, TLAPS, SequenceTheorems, WellFoundedInduction

-----------------------------------------------------------------------------
(* The build.                                                              *)

States == {"SCHEDULED", "IN_PROGRESS", "COMPLETED", "FAILED", "CANCELED"}
Places == {"spawned", "started", "reserved", "building", "broken", "COMPLETED", "FAILED", "done"}
Records == {"none", "SCHEDULED", "IN_PROGRESS", "COMPLETED", "FAILED", "SKIPPED", "CANCELED", "STOPPED"}

Last == threads[Len(threads)]
AllDone == \A i \in DOMAIN threads : ~Running(i)
Threaded(k) == \E i \in DOMAIN threads : threads[i].step = k

\* What the status says of the end of the build.
Phases ==
  /\ status = "SETUP" => /\ threads = <<>> /\ previous = HasPrevious
                         /\ \A k \in Steps : stepState[k] = "SCHEDULED"
  /\ status # "SETUP" => \A s \in Stages : record[s] # "none"
  /\ status \in {"SETUP", "IN_PROGRESS"} => ending = "no" /\ ~canceled /\ reports = <<>>
  /\ status = "COMPLETED" => ~canceled
  /\ ending = "success" => status = "COMPLETED"
  /\ ending # "no" => reports = <<>>
  /\ \A n \in DOMAIN reports : reports[n] = "success" => status = "COMPLETED"
  /\ ~canceled => cancelEvent = {}

\* Steps are looked at once: none before the last thread's is scheduled.
Ordered ==
  /\ StepsInOrder
  /\ \A k \in Steps : threads # <<>> /\ k <= Last.step =>
       stepState[k] # "SCHEDULED" \/ (k = Last.step /\ Last.at = "spawned")

\* A continuation is queued only when the step before has returned.
OneToken == status = "IN_PROGRESS" /\ idle > 0 => AllDone /\ idle = 1

\* Records that fit the place of the thread which builds the stage.
Fitting(at) ==
  CASE at \in {"spawned", "started"} -> {"SCHEDULED", "SKIPPED", "CANCELED"}
    [] at \in {"building", "broken"} -> {"IN_PROGRESS"}
    [] at = "COMPLETED" -> {"COMPLETED"}
    [] at = "FAILED" -> {"FAILED", "STOPPED"}
    [] OTHER -> {"COMPLETED", "FAILED", "STOPPED"}

ThreadFits(i) ==
  LET k == threads[i].step
      at == threads[i].at IN
  /\ at = "spawned" => stepState[k] \in {"SCHEDULED", "CANCELED"}
  /\ at \notin {"spawned", "done"} /\ ~canceled => stepState[k] = "IN_PROGRESS"
  /\ at # "done" => stepState[k] # "COMPLETED"
  /\ at = "done" /\ ~canceled => stepState[k] \in {"COMPLETED", "FAILED"}
  /\ at = "reserved" => k = PrepareToolset
  /\ at \in {"building", "broken"} => k \in Builds
  /\ k \in Builds => record[StageOf(k)] \in Fitting(at)
  /\ k \in Builds /\ at = "done" /\ ~canceled =>
       (stepState[k] = "COMPLETED" <=> record[StageOf(k)] = "COMPLETED")
ThreadsFit == \A i \in DOMAIN threads : ThreadFits(i)

StatesFit == \A k \in Steps :
  /\ stepState[k] = "COMPLETED" => Threaded(k)
  /\ stepState[k] = "IN_PROGRESS" /\ ~canceled => \E i \in DOMAIN threads : threads[i].step = k /\ Running(i)
  /\ stepState[k] = "CANCELED" => k \in Cleanups
  /\ k \in Builds /\ stepState[k] = "COMPLETED" => record[StageOf(k)] = "COMPLETED"

RecordsFit == \A s \in Stages :
  /\ ~Threaded(Build(s)) => record[s] \in {"none", "SCHEDULED", "SKIPPED", "CANCELED"}
  /\ ~canceled => record[s] \notin {"STOPPED", "CANCELED"}
  /\ reports # <<>> => record[s] # "SCHEDULED"
  /\ s \in HasPrevious \ previous => stepState[Build(s)] = "COMPLETED"

\* A build that nobody canceled has ended with all steps behind it, and
\* cleanup() gives back what it holds.
Ended ==
  /\ ~canceled /\ status \in {"COMPLETED", "FAILED"} =>
       /\ AllDone /\ \A k \in Steps : stepState[k] # "SCHEDULED"
       /\ ~raised /\ (ending = "no" \/ cursor < PrepareToolset) => ~reserved /\ ~spawned
       /\ ~raised /\ (ending = "no" \/ cursor < PrepareRunner) => ~runnerUsed
  /\ status = "COMPLETED" => /\ stepState[StopRunner] = "COMPLETED"
                              /\ \A s \in Stages : stepState[Build(s)] = "COMPLETED"

\* Which stages have been built, and which passed over, until a cancel.
Broken == {s \in Stages : stepState[Build(s)] = "FAILED" \/ SeedFailed(s)}
Ahead(s) == {r \in Lineage[s] : r < s}
AheadBuilt(s) == \A r \in Ahead(s) : stepState[Build(r)] = "COMPLETED"
AheadFailed(s) == \E r \in Ahead(s) : stepState[Build(r)] = "FAILED"
Decided == ~canceled =>
  /\ failedStages \subseteq Broken
  /\ \A s \in Stages :
       IF Threaded(Build(s)) THEN ~SeedFailed(s) /\ AheadBuilt(s)
       ELSE stepState[Build(s)] = "FAILED" => SeedFailed(s) \/ AheadFailed(s)

IInv ==
  /\ TypeOK /\ Phases /\ Ordered /\ OneToken /\ ThreadsFit /\ StatesFit /\ RecordsFit
  /\ Ended /\ Decided

\* While the build goes on, no step after the last thread's was looked at.
LookedAt == status = "IN_PROGRESS" =>
  \A k \in Steps : stepState[k] # "SCHEDULED" => threads # <<>> /\ k <= Last.step

\* The step that stops the runner leaves it released.
RunnerStopped == \A i \in DOMAIN threads :
  threads[i].step = StopRunner /\ (threads[i].at = "COMPLETED" \/ stepState[StopRunner] = "COMPLETED") =>
    ~runnerUsed

-----------------------------------------------------------------------------
(* Facts about steps and threads.                                          *)

LEMMA StepFacts ==
  ASSUME BuildAssumption
  PROVE  /\ Steps \subseteq Nat \ {0}
         /\ {PrepareRunner, PrepareToolset, StopRunner} \subseteq Steps
         /\ Builds \subseteq Steps /\ Downloads \subseteq Steps /\ Cleanups \subseteq Steps
         /\ Builds \cap Downloads = {} /\ Builds \cap Cleanups = {} /\ Downloads \cap Cleanups = {}
         /\ {PrepareRunner, PrepareToolset, Snapshot, StopRunner} \cap (Builds \cup Downloads \cup Cleanups) = {}
         /\ \A k \in Steps : k <= StopRunner
         /\ StopRunner \in Nat /\ StopRunner > PrepareToolset
<1>1. NumStages \in Nat /\ NumStages >= 1 /\ Stages \subseteq 1 .. NumStages
  BY DEF BuildAssumption, Stages
<1>2. \A s \in Stages : s \in Nat /\ s >= 1 /\ s <= NumStages
  BY <1>1
<1>3. Builds \subseteq {3 * s + 2 : s \in Stages} /\ Downloads \subseteq {3 * s + 1 : s \in Stages}
       /\ Cleanups \subseteq {3 * s + 3 : s \in Stages}
  BY DEF Builds, Downloads, Cleanups, Build, Download, Cleanup
<1>4. Builds \subseteq Steps /\ Downloads \subseteq Steps /\ Cleanups \subseteq Steps
      /\ {PrepareRunner, PrepareToolset, StopRunner} \subseteq Steps
  BY DEF Steps
<1>5. \A k \in Steps : k \in {1, 2, 3, 3 * NumStages + 4} \/ k \in Builds \/ k \in Downloads \/ k \in Cleanups
  BY DEF Steps, PrepareRunner, PrepareToolset, Snapshot, StopRunner
<1>6. \A k \in Builds \cup Downloads \cup Cleanups : k \in Nat /\ k >= 4 /\ k < 3 * NumStages + 4
  BY <1>1, <1>2, <1>3
<1>7. Steps \subseteq Nat \ {0} /\ \A k \in Steps : k <= StopRunner
  BY <1>1, <1>5, <1>6 DEF StopRunner
<1>8. Builds \cap Downloads = {} /\ Builds \cap Cleanups = {} /\ Downloads \cap Cleanups = {}
  BY <1>2, <1>3
<1>9. {PrepareRunner, PrepareToolset, Snapshot, StopRunner} \cap (Builds \cup Downloads \cup Cleanups) = {}
  BY <1>1, <1>6 DEF PrepareRunner, PrepareToolset, Snapshot, StopRunner
<1>10. StopRunner \in Nat /\ StopRunner > PrepareToolset
  BY <1>1 DEF StopRunner, PrepareToolset
<1>11. QED
  BY <1>4, <1>7, <1>8, <1>9, <1>10

LEMMA StageFacts ==
  ASSUME BuildAssumption
  PROVE  /\ \A s \in Stages : Build(s) \in Builds /\ StageOf(Build(s)) = s /\ Stage(Build(s)) = {s}
         /\ \A k \in Builds : StageOf(k) \in Stages /\ k = Build(StageOf(k))
         /\ \A k \in Cleanups : StageOf(k) \in Stages /\ Stage(k) = {}
                                /\ Build(StageOf(k)) \in Builds /\ Build(StageOf(k)) < k
         /\ \A s \in Stages : Download(s) \in Downloads => Stage(Download(s)) = {s} /\ Download(s) < Build(s)
         /\ \A k \in Downloads : StageOf(k) \in Stages /\ k = Download(StageOf(k)) /\ Stage(k) = {StageOf(k)}
         /\ \A s \in Stages : Parent[s] # 0 => Parent[s] \in Stages
         /\ \A r, s \in Stages : r < s => Build(r) < Build(s)
         /\ \A r, s \in Stages : r # s /\ ~(r < s) => Build(s) < Build(r) /\ Build(s) < Download(r)
         /\ \A k : k \notin Builds \cup Downloads => Stage(k) = {}
<1>1. \A s \in Stages : s \in Nat /\ s >= 1
  BY DEF BuildAssumption, Stages
<1>2. \A s \in Nat : StageOf(3 * s + 1) = s /\ StageOf(3 * s + 2) = s /\ StageOf(3 * s + 3) = s
  BY DEF StageOf
<1>3. \A s \in Stages : Build(s) \in Builds /\ StageOf(Build(s)) = s /\ StageOf(Download(s)) = s
  BY <1>1, <1>2 DEF Builds, Build, Download
<1>4. \A k \in Builds : StageOf(k) \in Stages /\ k = Build(StageOf(k))
  BY <1>1, <1>2 DEF Builds, Build
<1>5. \A k \in Cleanups : /\ StageOf(k) \in Stages /\ Build(StageOf(k)) \in Builds
                          /\ Build(StageOf(k)) < k
  <2>1. \A s \in Stages : StageOf(Cleanup(s)) = s
    BY <1>1, <1>2 DEF Cleanup
  <2>2. \A s \in Stages : Build(s) < Cleanup(s)
    BY <1>1 DEF Build, Cleanup
  <2>3. QED
    BY <1>3, <2>1, <2>2 DEF Cleanups
<1>6. \A k \in Downloads : StageOf(k) \in Stages /\ k = Download(StageOf(k))
  BY <1>1, <1>2 DEF Downloads, Download
<1>7. \A s \in Stages : Download(s) < Build(s)
  BY <1>1 DEF Download, Build
<1>8. \A s \in Stages : Parent[s] # 0 => Parent[s] \in Stages
  BY DEF BuildAssumption, Stages
<1>8a. /\ \A r, s \in Stages : r < s => Build(r) < Build(s)
       /\ \A r, s \in Stages : r # s /\ ~(r < s) => Build(s) < Build(r) /\ Build(s) < Download(r)
  BY <1>1 DEF Build, Download
<1>9. \A k \in Builds \cup Downloads : Stage(k) = {StageOf(k)}
  BY DEF Stage
<1>10. \A k : k \notin Builds \cup Downloads => Stage(k) = {}
  BY DEF Stage
<1>11. \A k \in Cleanups : Stage(k) = {}
  BY <1>10, StepFacts
<1>12. QED
  BY <1>3, <1>4, <1>5, <1>6, <1>7, <1>8, <1>8a, <1>9, <1>10, <1>11

\* A lineage has its stage, goes on to parents, and is the smallest such set.
LEMMA LineageFacts ==
  ASSUME BuildAssumption, NEW s \in Stages
  PROVE  /\ s \in Lineage[s] /\ Lineage[s] \subseteq Stages
         /\ \A q \in Lineage[s] : Parent[q] \in Lineage[s] \cup {0}
         /\ \A S \in SUBSET Stages : s \in S /\ (\A q \in S : Parent[q] \in S \cup {0}) => Lineage[s] \subseteq S
<1>1. Lineage[s] = {r \in Stages : \A S \in SUBSET Stages :
                      s \in S /\ (\A q \in S : Parent[q] \in S \cup {0}) => r \in S}
  BY DEF Lineage
<1>2. s \in Lineage[s] /\ Lineage[s] \subseteq Stages
  BY <1>1
<1>3. ASSUME NEW q \in Lineage[s] PROVE Parent[q] \in Lineage[s] \cup {0}
  <2>1. CASE Parent[q] = 0
    BY <2>1
  <2>2. CASE Parent[q] # 0
    <3>1. q \in Stages
      BY <1>1
    <3>2. Parent[q] \in Stages
      BY <3>1, <2>2, StageFacts
    <3>3. ASSUME NEW S \in SUBSET Stages, s \in S, \A p \in S : Parent[p] \in S \cup {0}
          PROVE  Parent[q] \in S
      <4>1. q \in S
        BY <1>1, <3>3
      <4>2. QED
        BY <4>1, <3>3, <2>2
    <3>4. QED
      BY <3>2, <3>3, <1>1
  <2>3. QED
    BY <2>1, <2>2
<1>4. \A S \in SUBSET Stages : s \in S /\ (\A q \in S : Parent[q] \in S \cup {0}) => Lineage[s] \subseteq S
  BY <1>1
<1>5. QED
  BY <1>2, <1>3, <1>4

\* The lineages of what is in one are part of it; so what is ahead of a stage
\* that is ahead of another is ahead of that one.
LEMMA LineageWithin ==
  ASSUME BuildAssumption, NEW s \in Stages, NEW r \in Lineage[s]
  PROVE  Lineage[r] \subseteq Lineage[s] /\ r \in Stages
<1>1. Lineage[s] \in SUBSET Stages /\ \A q \in Lineage[s] : Parent[q] \in Lineage[s] \cup {0}
  BY LineageFacts
<1>2. r \in Stages
  BY <1>1
<1>3. QED
  BY <1>1, <1>2, LineageFacts

\* The steps of the stages ahead of one come before its step.
LEMMA AheadFacts ==
  ASSUME BuildAssumption, NEW s \in Stages, NEW r \in Ahead(s)
  PROVE  /\ r \in Stages /\ r \in Lineage[s] /\ r < s /\ Lineage[r] \subseteq Lineage[s]
         /\ Build(r) \in Steps /\ Build(r) \in Builds /\ Build(r) \notin Cleanups /\ Build(r) < Build(s)
         /\ Stage(Build(r)) = {r}
<1>1. r \in Lineage[s] /\ r < s
  BY DEF Ahead
<1>2. r \in Stages /\ Lineage[r] \subseteq Lineage[s]
  BY <1>1, LineageWithin
<1>3. QED
  BY <1>1, <1>2, StageFacts, StepFacts

ThreadSet == [step : Steps, at : Places]

LEMMA ThreadTypes ==
  ASSUME TypeOK
  PROVE  /\ threads \in Seq(ThreadSet) /\ Len(threads) \in Nat /\ DOMAIN threads = 1 .. Len(threads)
         /\ \A i \in DOMAIN threads :
              threads[i] \in ThreadSet /\ threads[i].step \in Steps /\ threads[i].at \in Places
         /\ threads # <<>> <=> Len(threads) > 0
         /\ threads # <<>> => Len(threads) \in DOMAIN threads
<1>1. threads \in Seq(ThreadSet)
  BY DEF TypeOK, ThreadSet, Places
<1>2. Len(threads) \in Nat /\ DOMAIN threads = 1 .. Len(threads)
      /\ \A i \in DOMAIN threads : threads[i] \in ThreadSet
  BY <1>1
<1>3. threads # <<>> <=> Len(threads) > 0
  BY <1>1, <1>2
<1>4. QED
  BY <1>1, <1>2, <1>3 DEF ThreadSet

\* Only the last thread runs, and when it goes on the others stay.
LEMMA ThreadMoves ==
  ASSUME BuildAssumption, TypeOK, StepsInOrder,
         NEW i \in DOMAIN threads, Running(i), NEW w \in Places, Go(i, w)
  PROVE  /\ threads' \in Seq(ThreadSet) /\ DOMAIN threads' = DOMAIN threads /\ threads' # <<>>
         /\ threads'[i].step = threads[i].step /\ threads'[i].at = w
         /\ \A j \in DOMAIN threads : j # i =>
              threads'[j] = threads[j] /\ threads[j].at = "done" /\ threads[j].step < threads[i].step
         /\ \A j \in DOMAIN threads : threads'[j].step = threads[j].step
         /\ threads # <<>> /\ Last = threads[i] /\ Last' = threads'[i]
         /\ StepsInOrder'
         /\ \A k : Threaded(k)' <=> Threaded(k)
         /\ Threaded(threads[i].step)
<1>1. /\ threads \in Seq(ThreadSet) /\ Len(threads) \in Nat /\ DOMAIN threads = 1 .. Len(threads)
      /\ \A j \in DOMAIN threads : threads[j] \in ThreadSet /\ threads[j].step \in Steps
      /\ Steps \subseteq Nat
  BY ThreadTypes, StepFacts
<1>2. threads' = [threads EXCEPT ![i].at = w]
  BY DEF Go
<1>3. threads' = [threads EXCEPT ![i] = [threads[i] EXCEPT !.at = w]]
  BY <1>2
<1>4. [threads[i] EXCEPT !.at = w] \in ThreadSet /\ [threads[i] EXCEPT !.at = w].step = threads[i].step
      /\ [threads[i] EXCEPT !.at = w].at = w
  BY <1>1 DEF ThreadSet
<1>5. /\ threads' \in Seq(ThreadSet) /\ DOMAIN threads' = DOMAIN threads /\ Len(threads') = Len(threads)
      /\ threads'[i] = [threads[i] EXCEPT !.at = w]
      /\ \A j \in DOMAIN threads : j # i => threads'[j] = threads[j]
  BY <1>1, <1>3, <1>4
<1>6. i = Len(threads)
  <2>1. CASE i < Len(threads)
    BY <2>1, <1>1 DEF StepsInOrder
  <2>2. QED
    BY <2>1, <1>1
<1>7. \A j \in DOMAIN threads : j # i => threads[j].at = "done" /\ threads[j].step < threads[i].step
  BY <1>1, <1>6 DEF StepsInOrder, Running
<1>8. \A j \in DOMAIN threads : threads'[j].step = threads[j].step
  BY <1>4, <1>5
<1>9. StepsInOrder'
  BY <1>1, <1>5, <1>6, <1>7, <1>8 DEF StepsInOrder, Running
<1>10. \A k : Threaded(k)' <=> Threaded(k)
  BY <1>5, <1>8 DEF Threaded
<1>11. threads # <<>> /\ threads' # <<>> /\ Last = threads[i] /\ Last' = threads'[i]
  BY <1>1, <1>5, <1>6 DEF Last
<1>12. Threaded(threads[i].step)
  BY DEF Threaded
<1>13. QED
  BY <1>4, <1>5, <1>7, <1>8, <1>9, <1>10, <1>11, <1>12

-----------------------------------------------------------------------------
(* The main loop.                                                          *)

LEMMA Initially == ASSUME BuildAssumption, Init PROVE IInv
<1>1. DOMAIN threads = {} /\ reports = <<>> /\ DOMAIN reports = {} /\ threads \in Seq(ThreadSet)
  BY DEF Init
<1>2. TypeOK
  <2>1. /\ status = "SETUP" /\ idle = 0 /\ cursor \in 0 .. StopRunner /\ ending = "no"
        /\ stepState \in [Steps -> States] /\ record \in [Stages -> Records]
        /\ reports \in Seq({"success", "failure", "canceled"})
    BY <1>1, StepFacts DEF Init, States, Records
  <2>2. {runnerUsed, reserved, spawned, canceled, raised, listed} \subseteq BOOLEAN /\ previous \subseteq HasPrevious
        /\ failedStages = {} /\ seeds = {} /\ built = {} /\ cancelEvent = {}
    BY DEF Init
  <2>3. QED
    BY <1>1, <2>1, <2>2 DEF TypeOK, ThreadSet, Places, States, Records
<1>3. Phases /\ OneToken /\ ThreadsFit /\ Ended
  BY <1>1 DEF Init, Phases, OneToken, ThreadsFit, Ended
<1>4. Ordered
  BY <1>1 DEF Init, Ordered, StepsInOrder
<1>5. StatesFit
  BY DEF Init, StatesFit
<1>6. RecordsFit
  BY <1>1 DEF Init, RecordsFit
<1>7. Decided
  <2>1. \A s \in Stages : stepState[Build(s)] = "SCHEDULED" /\ ~Threaded(Build(s)) /\ ~SeedFailed(s)
    BY <1>1, StageFacts, StepFacts DEF Init, Threaded, SeedFailed
  <2>2. QED
    BY <2>1 DEF Decided, Init
<1>8. QED
  BY <1>2, <1>3, <1>4, <1>5, <1>6, <1>7 DEF IInv

LEMMA StartKeeps == ASSUME BuildAssumption, IInv, Start PROVE IInv'
<1>1. /\ status = "SETUP" /\ status' = "IN_PROGRESS" /\ idle' = 1
      /\ record' = [s \in Stages |-> "SCHEDULED"]
      /\ UNCHANGED <<stepState, cancelEvent, threads, failedStages, seeds, built, previous, runnerUsed,
                     reserved, spawned, canceled, ending, cursor, raised, reports>>
      /\ listed' = TRUE
  BY DEF Start
<1>2. /\ threads = <<>> /\ DOMAIN threads = {} /\ previous = HasPrevious
      /\ \A k \in Steps : stepState[k] = "SCHEDULED"
      /\ ending = "no" /\ ~canceled /\ reports = <<>> /\ cancelEvent = {}
  BY <1>1 DEF IInv, Phases
<1>3. TypeOK'
  BY <1>1 DEF IInv, TypeOK
<1>4. Phases' /\ OneToken' /\ ThreadsFit' /\ Ended'
  BY <1>1, <1>2 DEF Phases, OneToken, ThreadsFit, Ended, AllDone
<1>5. Ordered'
  BY <1>1, <1>2 DEF Ordered, StepsInOrder
<1>6. StatesFit' /\ RecordsFit'
  BY <1>1, <1>2 DEF StatesFit, RecordsFit
<1>7. Decided'
  BY <1>1 DEF IInv, Decided, Broken, SeedFailed, AheadBuilt, AheadFailed, Threaded
<1>8. QED
  BY <1>3, <1>4, <1>5, <1>6, <1>7 DEF IInv

\* What does not depend on the status or the continuations stays when only
\* these change.
LEMMA ContinueEndedKeeps == ASSUME BuildAssumption, IInv, ContinueEnded PROVE IInv'
<1>1. /\ status # "IN_PROGRESS" /\ idle > 0 /\ idle' = idle - 1
      /\ UNCHANGED <<status, stepState, cancelEvent, threads, failedStages, seeds, built, record, previous,
                     runnerUsed, reserved, spawned, canceled, ending, cursor, raised, listed, reports>>
  BY DEF ContinueEnded, heldVars, endVars
<1>2. TypeOK' /\ OneToken'
  BY <1>1 DEF IInv, TypeOK, OneToken
<1>3. Phases' /\ Ordered' /\ ThreadsFit'
  BY <1>1 DEF IInv, Phases, Ordered, StepsInOrder, Running, Last, ThreadsFit, ThreadFits
<1>4. StatesFit' /\ RecordsFit'
  BY <1>1 DEF IInv, StatesFit, RecordsFit, Threaded, Running
<1>5. Ended' /\ Decided'
  BY <1>1 DEF IInv, Ended, AllDone, Running, Decided, Broken, SeedFailed, AheadBuilt, AheadFailed, Threaded
<1>6. QED
  BY <1>2, <1>3, <1>4, <1>5 DEF IInv

\* Where no step is canceled, what _continue_process() finds: the failed
\* stages are those of failed steps, and what is blocked is built on one.
LEMMA KnownIsBroken ==
  ASSUME BuildAssumption, IInv, ~canceled PROVE KnownFailed = Broken
<1>1. failedStages \subseteq Broken /\ failedStages \subseteq Stages
  BY DEF IInv, Decided, TypeOK
<1>2. ASSUME NEW k \in Steps, stepState[k] = "FAILED", NEW s \in Stage(k) PROVE s \in Broken
  <2>1. CASE k \in Builds
    BY <1>2, <2>1, StageFacts DEF Broken
  <2>2. CASE k \in Downloads
    BY <1>2, <2>2, StageFacts DEF Broken, SeedFailed
  <2>3. QED
    BY <1>2, <2>1, <2>2, StageFacts
<1>3. ASSUME NEW s \in Broken PROVE \E k \in Steps : stepState[k] = "FAILED" /\ s \in Stage(k)
  <2>1. CASE stepState[Build(s)] = "FAILED"
    BY <2>1, StageFacts, StepFacts DEF Broken
  <2>2. CASE SeedFailed(s)
    BY <2>2, StageFacts, StepFacts DEF Broken, SeedFailed
  <2>3. QED
    BY <2>1, <2>2 DEF Broken
<1>4. KnownFailed \subseteq Broken
  BY <1>1, <1>2 DEF KnownFailed
<1>5. Broken \subseteq KnownFailed
  BY <1>3 DEF KnownFailed
<1>6. QED
  BY <1>4, <1>5

\* A continuation that is handled while the build goes on finds that no step
\* is in progress.
LEMMA NothingRuns ==
  ASSUME BuildAssumption, IInv, ending = "no", idle > 0, status = "IN_PROGRESS"
  PROVE  /\ ~canceled /\ cancelEvent = {} /\ reports = <<>> /\ AllDone /\ idle = 1
         /\ \A k \in Steps : stepState[k] # "IN_PROGRESS"
         /\ \A k \in Steps : Threaded(k) => stepState[k] # "SCHEDULED"
         /\ \A s \in Stages : record[s] # "none"
<1>1. ~canceled /\ cancelEvent = {} /\ reports = <<>> /\ AllDone /\ idle = 1 /\ \A s \in Stages : record[s] # "none"
  BY DEF IInv, Phases, OneToken
<1>2. \A k \in Steps : stepState[k] # "IN_PROGRESS"
  BY <1>1 DEF IInv, StatesFit, AllDone
<1>3. \A k \in Steps : Threaded(k) => stepState[k] # "SCHEDULED"
  BY <1>1 DEF IInv, ThreadsFit, ThreadFits, AllDone, Running, Threaded
<1>4. QED
  BY <1>1, <1>2, <1>3

\* Steps that are passed over: nobody ran them, and what is true of the
\* stages stays.
LEMMA PassedOver ==
  ASSUME BuildAssumption, IInv, LookedAt, ending = "no", idle > 0, status = "IN_PROGRESS",
         NEW passed \in SUBSET Steps, PassOver(passed),
         \A k \in passed : Scheduled(k) /\ ~Runnable(k),
         \A k \in passed : \A j \in Steps : j < k /\ Scheduled(j) => j \in passed
  PROVE  /\ stepState' \in [Steps -> States] /\ failedStages' \subseteq Stages
         /\ \A k \in Steps : k \notin passed => stepState'[k] = stepState[k]
         /\ \A k \in passed : /\ stepState'[k] \in {"FAILED", "CANCELED"} /\ ~Threaded(k)
                              /\ k \in Cleanups \/ stepState'[k] = "FAILED"
                              /\ stepState'[k] = "CANCELED" => k \in Cleanups
         /\ failedStages' \subseteq Broken'
         /\ \A s \in Stages : Build(s) \in passed => SeedFailed(s)' \/ AheadFailed(s)'
         /\ \A s \in Stages : Build(s) \notin passed /\ stepState[Build(s)] = "FAILED" /\ ~Threaded(Build(s)) =>
              SeedFailed(s)' \/ AheadFailed(s)'
         /\ \A s \in Stages : Threaded(Build(s)) => ~SeedFailed(s)' /\ AheadBuilt(s)'
<1>0. /\ stepState \in [Steps -> States] /\ failedStages \subseteq Stages /\ ~canceled
      /\ \A k \in Steps : stepState[k] # "IN_PROGRESS"
      /\ \A k \in Steps : Threaded(k) => stepState[k] # "SCHEDULED"
  BY NothingRuns DEF IInv, TypeOK, States
<1>1. /\ stepState' = [k \in Steps |-> IF k \notin passed THEN stepState[k]
                                       ELSE IF BuildFailed(k) THEN "CANCELED" ELSE "FAILED"]
      /\ failedStages' = KnownFailed \cup UNION {Stage(k) : k \in passed}
  BY DEF PassOver
<1>2. /\ stepState' \in [Steps -> States]
      /\ \A k \in Steps : k \notin passed => stepState'[k] = stepState[k]
  BY <1>0, <1>1 DEF States
<1>3. \A k \in passed : /\ stepState'[k] \in {"FAILED", "CANCELED"} /\ ~Threaded(k)
                        /\ k \in Cleanups \/ stepState'[k] = "FAILED"
                        /\ stepState'[k] = "CANCELED" => k \in Cleanups
  BY <1>0, <1>1 DEF BuildFailed, Scheduled
<1>4. \A k \in Steps : stepState[k] = "FAILED" => stepState'[k] = "FAILED"
  BY <1>2 DEF Scheduled
<1>5. \A k \in Steps : stepState[k] = "COMPLETED" => stepState'[k] = "COMPLETED"
  BY <1>2 DEF Scheduled
<1>6. Builds \subseteq Steps /\ Downloads \subseteq Steps /\ Builds \cap Cleanups = {} /\ Downloads \cap Cleanups = {}
      /\ \A s \in Stages : Build(s) \in Builds
  BY StepFacts, StageFacts
<1>7. \A s \in Stages : SeedFailed(s) => SeedFailed(s)'
  BY <1>4, <1>6 DEF SeedFailed
<1>8. \A s \in Stages : AheadFailed(s) => AheadFailed(s)'
  BY <1>4, AheadFacts DEF AheadFailed
<1>9. \A s \in Broken : s \in Broken'
  BY <1>4, <1>6, <1>7 DEF Broken
<1>10. KnownFailed = Broken
  BY <1>0, KnownIsBroken
<1>11. ASSUME NEW k \in passed, NEW s \in Stage(k) PROVE s \in Broken'
  <2>1. CASE k \in Builds
    BY <1>3, <1>6, <2>1, <1>11, StageFacts DEF Broken
  <2>2. CASE k \in Downloads
    BY <1>3, <1>6, <2>2, <1>11, StageFacts DEF Broken, SeedFailed
  <2>3. QED
    BY <1>11, <2>1, <2>2, StageFacts
<1>12. failedStages' \subseteq Broken' /\ failedStages' \subseteq Stages
  <2>1. failedStages' \subseteq Broken'
    BY <1>1, <1>9, <1>10, <1>11
  <2>2. Broken' \subseteq Stages
    BY DEF Broken
  <2>3. QED
    BY <2>1, <2>2
<1>13. ASSUME NEW s \in Stages, Build(s) \in passed PROVE SeedFailed(s)' \/ AheadFailed(s)'
  <2>1. Blocked(Build(s)) /\ Scheduled(Build(s))
    BY <1>6, <1>13 DEF Runnable, BuildFailed
  <2>2. PICK r \in Lineage[s] : r \in Broken
    BY <2>1, <1>10, StageFacts DEF Blocked
  <2>3. CASE r = s
    BY <2>1, <2>2, <2>3, <1>7 DEF Broken, Scheduled
  <2>4. CASE r # s /\ r < s
    <3>1. r \in Ahead(s)
      BY <2>2, <2>4 DEF Ahead
    <3>2. r \in Stages /\ Build(r) \in Steps /\ Build(r) < Build(s) /\ Build(r) \notin Cleanups
      BY <3>1, AheadFacts
    <3>3. stepState[Build(r)] # "COMPLETED"
      <4>1. stepState[Build(r)] = "COMPLETED" => ~SeedFailed(r)
        BY <3>2, <1>0 DEF IInv, StatesFit, Decided
      <4>2. QED
        BY <2>2, <4>1 DEF Broken
    <3>4. stepState[Build(r)] # "CANCELED"
      BY <3>2 DEF IInv, StatesFit
    <3>5. CASE stepState[Build(r)] = "FAILED"
      BY <3>1, <3>2, <3>5, <1>4 DEF AheadFailed
    <3>6. CASE stepState[Build(r)] = "SCHEDULED"
      <4>1. Build(r) \in passed
        BY <3>2, <3>6, <1>13 DEF Scheduled
      <4>2. QED
        BY <4>1, <3>1, <3>2, <1>3 DEF AheadFailed
    <3>7. QED
      BY <3>2, <3>3, <3>4, <3>5, <3>6, <1>0 DEF States
  <2>5. CASE r # s /\ ~(r < s)
    <3>1. r \in Stages /\ Build(s) < Build(r) /\ Build(s) < Download(r)
      BY <2>2, <2>5, LineageFacts, StageFacts
    <3>2. PICK k \in Steps : Build(s) < k /\ stepState[k] = "FAILED"
      <4>1. CASE stepState[Build(r)] = "FAILED"
        BY <3>1, <4>1, <1>6
      <4>2. CASE SeedFailed(r)
        BY <3>1, <4>2, <1>6 DEF SeedFailed
      <4>3. QED
        BY <2>2, <4>1, <4>2 DEF Broken
    <3>3. threads # <<>> /\ k <= Last.step
      BY <3>2 DEF LookedAt
    <3>4. Last.step \in Nat /\ k \in Nat /\ Build(s) \in Nat /\ Build(s) \in Steps
      BY <3>3, ThreadTypes, StepFacts, <1>6 DEF IInv, Last
    <3>5. Build(s) < Last.step
      BY <3>2, <3>3, <3>4
    <3>6. QED
      BY <2>1, <3>3, <3>4, <3>5 DEF IInv, Ordered, Scheduled
  <2>6. QED
    BY <2>3, <2>4, <2>5
<1>14. \A s \in Stages : stepState[Build(s)] = "FAILED" /\ ~Threaded(Build(s)) =>
          SeedFailed(s)' \/ AheadFailed(s)'
  BY <1>0, <1>7, <1>8 DEF IInv, Decided
<1>15. ASSUME NEW s \in Stages, Threaded(Build(s)) PROVE ~SeedFailed(s)' /\ AheadBuilt(s)'
  <2>1. ~SeedFailed(s) /\ AheadBuilt(s)
    BY <1>0, <1>15 DEF IInv, Decided
  <2>2. AheadBuilt(s)'
    BY <2>1, <1>5, AheadFacts DEF AheadBuilt
  <2>3. ASSUME Download(s) \in Downloads PROVE stepState'[Download(s)] # "FAILED"
    <3>1. stepState[Download(s)] # "FAILED" /\ Download(s) \in Steps /\ Download(s) < Build(s)
      BY <2>1, <2>3, <1>6, StageFacts DEF SeedFailed
    <3>2. ~Scheduled(Download(s))
      <4>1. PICK i \in DOMAIN threads : threads[i].step = Build(s)
        BY <1>15 DEF Threaded
      <4>2. threads # <<>> /\ Build(s) <= Last.step /\ Last.step \in Nat /\ Download(s) \in Nat /\ Last.at = "done"
        <5>1. /\ Len(threads) \in Nat /\ DOMAIN threads = 1 .. Len(threads)
              /\ \A j \in DOMAIN threads : threads[j].step \in Nat
          BY ThreadTypes, StepFacts DEF IInv
        <5>2. threads # <<>> /\ Len(threads) \in DOMAIN threads
          BY <4>1, ThreadTypes DEF IInv
        <5>3. i = Len(threads) \/ threads[i].step < threads[Len(threads)].step
          BY <5>1, <5>2, <4>1 DEF IInv, Ordered, StepsInOrder
        <5>4. threads[Len(threads)].at = "done"
          BY <5>2, NothingRuns DEF AllDone, Running
        <5>5. QED
          BY <5>1, <5>2, <5>3, <5>4, <4>1, <3>1, StepFacts DEF Last
      <4>3. Download(s) < Last.step /\ Build(s) \in Nat
        BY <4>2, <3>1, StepFacts, <1>6
      <4>4. QED
        BY <4>2, <4>3, <3>1 DEF IInv, Ordered, Scheduled
    <3>3. QED
      BY <3>1, <3>2, <1>2
  <2>4. QED
    BY <2>2, <2>3 DEF SeedFailed
<1>16. QED
  BY <1>2, <1>3, <1>12, <1>13, <1>14, <1>15

LEMMA SpawnKeeps == ASSUME BuildAssumption, IInv, LookedAt, ContinueSpawn PROVE IInv'
<1>0. /\ ending = "no" /\ idle > 0 /\ status = "IN_PROGRESS" /\ idle' = idle - 1
      /\ UNCHANGED <<status, cancelEvent, seeds, built, record, previous, runnerUsed, reserved, spawned,
                     canceled, ending, cursor, raised, listed, reports>>
  BY DEF ContinueSpawn, heldVars, endVars
<1>1. PICK k \in Steps :
        /\ Runnable(k) /\ \A j \in Steps : j < k => ~Runnable(j)
        /\ PassOver({j \in Steps : j < k /\ Scheduled(j)})
        /\ threads' = Append(threads, [step |-> k, at |-> "spawned"])
  BY DEF ContinueSpawn
<1> DEFINE passed == {j \in Steps : j < k /\ Scheduled(j)}
<1>2. /\ ~canceled /\ cancelEvent = {} /\ reports = <<>> /\ AllDone /\ idle = 1
      /\ \A j \in Steps : stepState[j] # "IN_PROGRESS"
      /\ \A j \in Steps : Threaded(j) => stepState[j] # "SCHEDULED"
      /\ \A s \in Stages : record[s] # "none"
  BY <1>0, NothingRuns
<1>3. passed \in SUBSET Steps /\ PassOver(passed) /\ k \notin passed /\ k \in Nat /\ Steps \subseteq Nat
  BY <1>1, StepFacts
<1>4. \A j \in passed : Scheduled(j) /\ ~Runnable(j) /\ j < k
  BY <1>1
<1>5. \A j \in passed : \A l \in Steps : l < j /\ Scheduled(l) => l \in passed
  BY <1>3, <1>4
<1>5a. \A l \in Steps : l < k /\ Scheduled(l) => l \in passed
  OBVIOUS
<1> HIDE DEF passed
<1>6. /\ stepState' \in [Steps -> States] /\ failedStages' \subseteq Stages
      /\ \A j \in Steps : j \notin passed => stepState'[j] = stepState[j]
      /\ \A j \in passed : /\ stepState'[j] \in {"FAILED", "CANCELED"} /\ ~Threaded(j)
                           /\ j \in Cleanups \/ stepState'[j] = "FAILED"
                           /\ stepState'[j] = "CANCELED" => j \in Cleanups
      /\ failedStages' \subseteq Broken'
  BY <1>0, <1>3, <1>4, <1>5, PassedOver
<1>7. /\ \A s \in Stages : Build(s) \in passed => SeedFailed(s)' \/ AheadFailed(s)'
      /\ \A s \in Stages : Build(s) \notin passed /\ stepState[Build(s)] = "FAILED" /\ ~Threaded(Build(s)) =>
           SeedFailed(s)' \/ AheadFailed(s)'
      /\ \A s \in Stages : Threaded(Build(s)) => ~SeedFailed(s)' /\ AheadBuilt(s)'
  BY <1>0, <1>3, <1>4, <1>5, PassedOver
<1>8. stepState[k] = "SCHEDULED" /\ stepState'[k] = "SCHEDULED" /\ ~Threaded(k) /\ ~Blocked(k)
  BY <1>1, <1>2, <1>3, <1>6 DEF Runnable, Scheduled
<1>9. /\ threads \in Seq(ThreadSet) /\ Len(threads) \in Nat /\ DOMAIN threads = 1 .. Len(threads)
      /\ \A i \in DOMAIN threads : threads[i].step \in Nat /\ threads[i].at = "done"
      /\ threads # <<>> <=> Len(threads) > 0
  BY <1>2, ThreadTypes, StepFacts DEF IInv, AllDone, Running
<1>10. [step |-> k, at |-> "spawned"] \in ThreadSet
  BY DEF ThreadSet, Places
<1>11. /\ threads' \in Seq(ThreadSet) /\ Len(threads') = Len(threads) + 1 /\ DOMAIN threads' = 1 .. Len(threads) + 1
       /\ \A i \in DOMAIN threads : threads'[i] = threads[i]
       /\ threads'[Len(threads) + 1] = [step |-> k, at |-> "spawned"] /\ threads' # <<>>
  BY <1>1, <1>9, <1>10
<1>12. Last' = [step |-> k, at |-> "spawned"]
  BY <1>11 DEF Last
<1>13. \A i \in DOMAIN threads : threads[i].step < k
  <2>1. SUFFICES ASSUME NEW i \in DOMAIN threads PROVE threads[i].step < k
    OBVIOUS
  <2>2. threads # <<>> /\ Last.step \in Nat /\ Last.at = "done" /\ threads[i].step <= Last.step
    <3>1. i = Len(threads) \/ (i < Len(threads) /\ Len(threads) \in DOMAIN threads)
      BY <1>9
    <3>2. threads[i].step <= threads[Len(threads)].step
      BY <3>1, <1>9 DEF IInv, Ordered, StepsInOrder
    <3>3. QED
      BY <1>9, <3>2 DEF Last
  <2>3. ~(k <= Last.step)
    BY <2>2, <1>8 DEF IInv, Ordered
  <2>4. QED
    BY <2>2, <2>3, <1>3, <1>9
<1>14. \A j : Threaded(j)' <=> (Threaded(j) \/ j = k)
  BY <1>9, <1>11 DEF Threaded
<1>15. TypeOK'
  <2>1. threads' \in Seq([step : Steps, at : Places])
    BY <1>11 DEF ThreadSet
  <2>2. idle' \in Nat
    BY <1>0, <1>2
  <2>3. QED
    BY <1>0, <1>6, <2>1, <2>2 DEF IInv, TypeOK, States, Places
<1>16. Phases' /\ OneToken' /\ Ended'
  BY <1>0, <1>2 DEF IInv, Phases, OneToken, Ended
<1>17. Ordered'
  <2>1. StepsInOrder'
    BY <1>9, <1>11, <1>13 DEF IInv, Ordered, StepsInOrder, Running
  <2>2. \A j \in Steps : j <= k => stepState'[j] # "SCHEDULED" \/ j = k
    BY <1>3, <1>5a, <1>6 DEF Scheduled
  <2>3. QED
    BY <2>1, <2>2, <1>12 DEF Ordered
<1>18. ThreadsFit'
  <2>1. SUFFICES ASSUME NEW i \in DOMAIN threads' PROVE ThreadFits(i)'
    BY DEF ThreadsFit
  <2>2. CASE i \in DOMAIN threads
    <3>1. ThreadFits(i) /\ threads'[i] = threads[i] /\ Threaded(threads[i].step) /\ threads[i].step \in Steps
      BY <2>2, <1>11, ThreadTypes DEF IInv, ThreadsFit, Threaded
    <3>2. stepState'[threads[i].step] = stepState[threads[i].step]
      BY <3>1, <1>6
    <3>3. QED
      BY <3>1, <3>2, <1>0 DEF ThreadFits
  <2>3. CASE i \notin DOMAIN threads
    <3>1. threads'[i] = [step |-> k, at |-> "spawned"]
      BY <2>3, <1>9, <1>11
    <3>2. k \in Builds => record[StageOf(k)] \in {"SCHEDULED", "SKIPPED", "CANCELED"}
      BY <1>2, <1>8, StageFacts DEF IInv, RecordsFit
    <3>3. QED
      BY <3>1, <3>2, <1>0, <1>8, StepFacts DEF ThreadFits, Fitting
  <2>4. QED
    BY <2>2, <2>3
<1>19. StatesFit'
  <2>1. SUFFICES ASSUME NEW j \in Steps
                 PROVE  /\ stepState'[j] = "COMPLETED" => Threaded(j)'
                        /\ stepState'[j] # "IN_PROGRESS"
                        /\ stepState'[j] = "CANCELED" => j \in Cleanups
                        /\ j \in Builds /\ stepState'[j] = "COMPLETED" => record'[StageOf(j)] = "COMPLETED"
    BY DEF StatesFit
  <2>2. CASE j \in passed
    BY <2>2, <1>6
  <2>3. CASE j \notin passed
    BY <2>3, <1>0, <1>2, <1>6, <1>14 DEF IInv, StatesFit
  <2>4. QED
    BY <2>2, <2>3
<1>20. RecordsFit'
  <2>1. \A s \in Stages : stepState[Build(s)] = "COMPLETED" => stepState'[Build(s)] = "COMPLETED"
    BY <1>4, <1>6, StageFacts, StepFacts DEF Scheduled
  <2>2. QED
    BY <1>0, <1>14, <2>1 DEF IInv, RecordsFit
<1>21. Decided'
  <2>1. ASSUME NEW s \in Stages
        PROVE  IF Threaded(Build(s))' THEN ~SeedFailed(s)' /\ AheadBuilt(s)'
               ELSE stepState'[Build(s)] = "FAILED" => SeedFailed(s)' \/ AheadFailed(s)'
    <3>1. Build(s) \in Steps /\ Build(s) \in Builds
      BY StageFacts, StepFacts
    <3>2. CASE Threaded(Build(s))
      BY <3>2, <1>7, <1>14
    <3>3. CASE ~Threaded(Build(s)) /\ Build(s) # k
      <4>1. CASE Build(s) \in passed
        BY <4>1, <3>3, <1>7, <1>14
      <4>2. CASE Build(s) \notin passed
        BY <4>2, <3>1, <3>3, <1>6, <1>7, <1>14
      <4>3. QED
        BY <4>1, <4>2
    <3>4. CASE Build(s) = k
      <4>1. Lineage[s] \cap KnownFailed = {} /\ KnownFailed = Broken /\ s \in Lineage[s] /\ s \notin Broken
        BY <3>4, <1>2, <1>8, StageFacts, KnownIsBroken, LineageFacts DEF Blocked
      <4>2. ~SeedFailed(s)'
        <5>1. SUFFICES ASSUME Download(s) \in Downloads PROVE stepState'[Download(s)] # "FAILED"
          BY DEF SeedFailed
        <5>2. stepState[Download(s)] # "FAILED" /\ Download(s) \in Steps /\ Stage(Download(s)) = {s}
              /\ Download(s) \notin Cleanups
          BY <4>1, <5>1, StageFacts, StepFacts DEF Broken, SeedFailed
        <5>3. Download(s) \notin passed
          BY <4>1, <5>2, <1>4 DEF Runnable, Blocked, BuildFailed
        <5>4. QED
          BY <5>2, <5>3, <1>6
      <4>3. AheadBuilt(s)'
        <5>1. SUFFICES ASSUME NEW r \in Ahead(s) PROVE stepState'[Build(r)] = "COMPLETED"
          BY DEF AheadBuilt
        <5>2. r \in Stages /\ r \in Lineage[s] /\ Build(r) \in Steps /\ Build(r) < k
              /\ Build(r) \in Builds /\ Build(r) \notin Cleanups /\ Stage(Build(r)) = {r}
              /\ Lineage[r] \subseteq Lineage[s]
          BY <3>4, AheadFacts
        <5>4. stepState[Build(r)] # "FAILED"
          BY <4>1, <5>2 DEF Broken
        <5>5. stepState[Build(r)] # "CANCELED"
          BY <5>2 DEF IInv, StatesFit
        <5>6. ~Blocked(Build(r))
          BY <4>1, <5>2 DEF Blocked
        <5>7. stepState[Build(r)] # "SCHEDULED"
          BY <5>2, <5>6, <1>1 DEF Runnable, BuildFailed, Scheduled
        <5>8. stepState[Build(r)] = "COMPLETED"
          BY <5>2, <5>4, <5>5, <5>7, <1>2 DEF IInv, TypeOK
        <5>9. Build(r) \notin passed
          BY <5>8, <1>4 DEF Scheduled
        <5>10. QED
          BY <5>2, <5>8, <5>9, <1>6
      <4>4. QED
        BY <4>2, <4>3, <3>4, <1>14
    <3>5. QED
      BY <3>2, <3>3, <3>4
  <2>2. QED
    BY <2>1, <1>6 DEF Decided
<1>22. QED
  BY <1>15, <1>16, <1>17, <1>18, <1>19, <1>20, <1>21 DEF IInv

LEMMA FinishedKeeps == ASSUME BuildAssumption, IInv, LookedAt, ContinueFinish PROVE IInv'
<1>0. /\ ending = "no" /\ idle > 0 /\ status = "IN_PROGRESS" /\ idle' = idle - 1 /\ cursor' = StopRunner
      /\ \A k \in Steps : ~Runnable(k)
      /\ PassOver({k \in Steps : Scheduled(k)})
      /\ LET success == \A k \in Steps : stepState'[k] # "FAILED"
         IN /\ status' = IF success THEN "COMPLETED" ELSE "FAILED"
            /\ ending' = IF success THEN "success" ELSE "failure"
      /\ UNCHANGED <<cancelEvent, threads, seeds, built, record, previous, runnerUsed, reserved, spawned,
                     canceled, raised, listed, reports>>
  BY DEF ContinueFinish, heldVars
<1> DEFINE passed == {k \in Steps : Scheduled(k)}
<1>1. status' \in {"COMPLETED", "FAILED"} /\ ending' \in {"success", "failure"}
      /\ (ending' = "success" => status' = "COMPLETED")
      /\ (status' = "COMPLETED" => \A k \in Steps : stepState'[k] # "FAILED")
  BY <1>0
<1>2. /\ ~canceled /\ cancelEvent = {} /\ reports = <<>> /\ AllDone /\ idle = 1
      /\ \A j \in Steps : stepState[j] # "IN_PROGRESS"
      /\ \A j \in Steps : Threaded(j) => stepState[j] # "SCHEDULED"
      /\ \A s \in Stages : record[s] # "none"
  BY <1>0, NothingRuns
<1>3. passed \in SUBSET Steps /\ PassOver(passed) /\ \A j \in passed : Scheduled(j) /\ ~Runnable(j)
      /\ \A k \in passed : \A l \in Steps : l < k /\ Scheduled(l) => l \in passed
  BY <1>0
<1>4. \A j \in Steps : j \notin passed => stepState[j] # "SCHEDULED"
  BY DEF Scheduled
<1> HIDE DEF passed
<1>6. /\ stepState' \in [Steps -> States] /\ failedStages' \subseteq Stages
      /\ \A j \in Steps : j \notin passed => stepState'[j] = stepState[j]
      /\ \A j \in passed : /\ stepState'[j] \in {"FAILED", "CANCELED"} /\ ~Threaded(j)
                           /\ j \in Cleanups \/ stepState'[j] = "FAILED"
                           /\ stepState'[j] = "CANCELED" => j \in Cleanups
      /\ failedStages' \subseteq Broken'
  BY <1>0, <1>3, PassedOver
<1>7. /\ \A s \in Stages : Build(s) \in passed => SeedFailed(s)' \/ AheadFailed(s)'
      /\ \A s \in Stages : Build(s) \notin passed /\ stepState[Build(s)] = "FAILED" /\ ~Threaded(Build(s)) =>
           SeedFailed(s)' \/ AheadFailed(s)'
      /\ \A s \in Stages : Threaded(Build(s)) => ~SeedFailed(s)' /\ AheadBuilt(s)'
  BY <1>0, <1>3, PassedOver
<1>8. \A k \in Steps : stepState'[k] \notin {"SCHEDULED", "IN_PROGRESS"}
  BY <1>2, <1>4, <1>6
<1>9. \A k : Threaded(k)' <=> Threaded(k)
  BY <1>0 DEF Threaded
<1>10. StopRunner \in Nat /\ StopRunner > PrepareToolset /\ PrepareToolset = 2 /\ PrepareRunner = 1
  BY StepFacts DEF PrepareToolset, PrepareRunner
<1>11. TypeOK'
  BY <1>0, <1>1, <1>2, <1>6, <1>10 DEF IInv, TypeOK, States
<1>12. Phases' /\ OneToken'
  BY <1>0, <1>1, <1>2 DEF IInv, Phases, OneToken
<1>13. Ordered'
  BY <1>0, <1>8 DEF IInv, Ordered, StepsInOrder, Running, Last
<1>14. ThreadsFit'
  <2>1. ASSUME NEW i \in DOMAIN threads PROVE ThreadFits(i)'
    <3>1. ThreadFits(i) /\ Threaded(threads[i].step) /\ threads[i].step \in Steps
      BY ThreadTypes DEF IInv, ThreadsFit, Threaded
    <3>2. stepState'[threads[i].step] = stepState[threads[i].step]
      BY <3>1, <1>6
    <3>3. QED
      BY <3>1, <3>2, <1>0 DEF ThreadFits
  <2>2. QED
    BY <2>1, <1>0 DEF ThreadsFit
<1>15. StatesFit'
  <2>1. SUFFICES ASSUME NEW j \in Steps
                 PROVE  /\ stepState'[j] = "COMPLETED" => Threaded(j)'
                        /\ stepState'[j] # "IN_PROGRESS"
                        /\ stepState'[j] = "CANCELED" => j \in Cleanups
                        /\ j \in Builds /\ stepState'[j] = "COMPLETED" => record'[StageOf(j)] = "COMPLETED"
    BY DEF StatesFit
  <2>2. CASE j \in passed
    BY <2>2, <1>6
  <2>3. CASE j \notin passed
    BY <2>3, <1>0, <1>2, <1>6, <1>9 DEF IInv, StatesFit
  <2>4. QED
    BY <2>2, <2>3
<1>16. RecordsFit'
  <2>1. \A s \in Stages : stepState[Build(s)] = "COMPLETED" => stepState'[Build(s)] = "COMPLETED"
    BY <1>3, <1>6, StageFacts, StepFacts DEF Scheduled
  <2>2. QED
    BY <1>0, <1>9, <2>1 DEF IInv, RecordsFit
<1>17. Ended'
  <2>1. AllDone'
    BY <1>0, <1>2 DEF AllDone, Running
  <2>2. ~(ending' = "no" \/ cursor' < PrepareToolset) /\ ~(ending' = "no" \/ cursor' < PrepareRunner)
    BY <1>0, <1>1, <1>10
  <2>3. ASSUME status' = "COMPLETED", NEW s \in Stages PROVE stepState'[Build(s)] = "COMPLETED"
    <3>1. Build(s) \in Steps /\ Build(s) \notin Cleanups
      BY StageFacts, StepFacts
    <3>2. stepState'[Build(s)] # "CANCELED"
      BY <3>1, <1>15 DEF StatesFit
    <3>3. stepState'[Build(s)] # "FAILED"
      BY <2>3, <3>1, <1>1
    <3>4. QED
      BY <3>1, <3>2, <3>3, <1>6, <1>8 DEF States
  <2>3a. ASSUME status' = "COMPLETED" PROVE stepState'[StopRunner] = "COMPLETED"
    <3>1. StopRunner \in Steps /\ StopRunner \notin Cleanups
      BY StepFacts
    <3>2. stepState'[StopRunner] \notin {"CANCELED", "FAILED", "SCHEDULED", "IN_PROGRESS"}
      BY <2>3a, <3>1, <1>1, <1>8, <1>15 DEF StatesFit
    <3>3. QED
      BY <3>1, <3>2, <1>6 DEF States
  <2>4. QED
    BY <2>1, <2>2, <2>3, <2>3a, <1>8 DEF Ended
<1>18. Decided'
  <2>1. ASSUME NEW s \in Stages
        PROVE  IF Threaded(Build(s))' THEN ~SeedFailed(s)' /\ AheadBuilt(s)'
               ELSE stepState'[Build(s)] = "FAILED" => SeedFailed(s)' \/ AheadFailed(s)'
    <3>1. Build(s) \in Steps
      BY StageFacts, StepFacts
    <3>2. CASE Threaded(Build(s))
      BY <3>2, <1>7, <1>9
    <3>3. CASE ~Threaded(Build(s))
      <4>1. CASE Build(s) \in passed
        BY <4>1, <3>3, <1>7, <1>9
      <4>2. CASE Build(s) \notin passed
        BY <4>2, <3>1, <3>3, <1>6, <1>7, <1>9
      <4>3. QED
        BY <4>1, <4>2
    <3>4. QED
      BY <3>2, <3>3
  <2>2. QED
    BY <2>1, <1>6 DEF Decided
<1>19. QED
  BY <1>11, <1>12, <1>13, <1>14, <1>15, <1>16, <1>17, <1>18 DEF IInv

\* What a cancel does to the steps leaves what is true of threads, states and
\* records: steps in progress fail, scheduled removals are canceled.
Canceling ==
  /\ stepState' \in [Steps -> States] /\ cancelEvent' \subseteq Steps /\ idle' \in Nat
  /\ \A k \in Steps :
       \/ stepState'[k] = stepState[k]
       \/ stepState[k] = "IN_PROGRESS" /\ stepState'[k] = "FAILED"
       \/ stepState[k] \in {"SCHEDULED", "IN_PROGRESS"} /\ stepState'[k] = "CANCELED" /\ k \in Cleanups

LEMMA CancelEffectFacts ==
  ASSUME NEW k \in Steps, NEW state \in [Steps -> States], CancelEffect(k, state),
         cancelEvent \subseteq Steps, idle \in Nat
  PROVE  /\ stepState' \in [Steps -> States] /\ cancelEvent' \subseteq Steps /\ idle' \in Nat
         /\ \A j \in Steps :
              \/ stepState'[j] = state[j]
              \/ state[j] = "IN_PROGRESS" /\ stepState'[j] = "FAILED"
              \/ state[j] = "IN_PROGRESS" /\ stepState'[j] = "CANCELED" /\ j \in Cleanups
         /\ state[k] # "IN_PROGRESS" =>
              stepState' = state /\ cancelEvent' = cancelEvent /\ idle' = idle
<1>1. CASE state[k] = "IN_PROGRESS"
  <2>1. stepState' = [state EXCEPT ![k] = IF k \in Cleanups THEN "CANCELED" ELSE "FAILED"]
        /\ cancelEvent' = cancelEvent \cup {k} /\ idle' = IF k \notin Cleanups THEN idle + 1 ELSE idle
    BY <1>1 DEF CancelEffect
  <2>2. QED
    BY <1>1, <2>1 DEF States
<1>2. CASE state[k] # "IN_PROGRESS"
  BY <1>2 DEF CancelEffect
<1>3. QED
  BY <1>1, <1>2

LEMMA CancelingKeeps ==
  ASSUME BuildAssumption, IInv, Canceling, canceled', reports' = reports,
         UNCHANGED <<threads, record, previous>>
  PROVE  Ordered' /\ ThreadsFit' /\ StatesFit' /\ RecordsFit'
<1>1. \A k \in Steps :
       /\ stepState'[k] = "SCHEDULED" => stepState[k] = "SCHEDULED"
       /\ stepState'[k] = "IN_PROGRESS" => stepState[k] = "IN_PROGRESS"
       /\ stepState'[k] = "COMPLETED" <=> stepState[k] = "COMPLETED"
       /\ stepState'[k] = "CANCELED" => k \in Cleanups
       /\ stepState[k] \in {"SCHEDULED", "CANCELED"} => stepState'[k] \in {"SCHEDULED", "CANCELED"}
  BY DEF Canceling, IInv, StatesFit
<1>2. Ordered'
  BY <1>1 DEF IInv, Ordered, StepsInOrder, Running, Last
<1>3. ThreadsFit'
  <2>1. ASSUME NEW i \in DOMAIN threads PROVE ThreadFits(i)'
    <3>1. ThreadFits(i) /\ threads[i].step \in Steps
      BY ThreadTypes DEF IInv, ThreadsFit
    <3>2. QED
      BY <3>1, <1>1 DEF ThreadFits
  <2>2. QED
    BY <2>1 DEF ThreadsFit
<1>4. StatesFit'
  BY <1>1 DEF IInv, StatesFit, Threaded
<1>5. RecordsFit'
  <2>1. \A s \in Stages : stepState[Build(s)] = "COMPLETED" => stepState'[Build(s)] = "COMPLETED"
    BY <1>1, StageFacts, StepFacts
  <2>2. QED
    BY <2>1 DEF IInv, RecordsFit, Threaded
<1>6. QED
  BY <1>2, <1>3, <1>4, <1>5

LEMMA CancelKeeps == ASSUME BuildAssumption, IInv, Cancel PROVE IInv'
<1> DEFINE state == [k \in Steps |-> IF k \in Cleanups /\ Scheduled(k) THEN "CANCELED" ELSE stepState[k]]
           running == {k \in Steps : state[k] = "IN_PROGRESS"}
           first == CHOOSE k \in running : \A j \in running : k <= j
<1>1. /\ ending = "no" /\ status = "IN_PROGRESS"
      /\ canceled' = TRUE /\ status' = "FAILED" /\ ending' = "canceled" /\ cursor' = StopRunner
      /\ UNCHANGED <<threads, failedStages, seeds, built, record, previous, runnerUsed, reserved, spawned,
                     raised, listed, reports>>
      /\ IF running = {} THEN stepState' = state /\ UNCHANGED <<cancelEvent, idle>>
         ELSE CancelEffect(first, state)
  BY DEF Cancel, heldVars
<1>2. reports = <<>> /\ \A s \in Stages : record[s] # "none"
  BY <1>1 DEF IInv, Phases
<1>3. /\ stepState \in [Steps -> States] /\ state \in [Steps -> States]
      /\ cancelEvent \subseteq Steps /\ idle \in Nat
  BY DEF IInv, TypeOK, States
<1>4. \A k \in Steps : state[k] = stepState[k]
                       \/ (stepState[k] = "SCHEDULED" /\ state[k] = "CANCELED" /\ k \in Cleanups)
  BY DEF Scheduled
<1>5. Canceling
  <2>1. CASE running = {}
    <3>1. stepState' = state /\ cancelEvent' = cancelEvent /\ idle' = idle
      BY <1>1, <2>1
    <3> HIDE DEF state
    <3>2. QED
      BY <1>3, <1>4, <3>1 DEF Canceling
  <2>2. CASE running # {}
    <3>1. first \in running
      <4>1. running \subseteq Nat
        BY StepFacts
      <4>2. \A k \in running : k \in Steps /\ stepState[k] = "IN_PROGRESS"
        BY DEF Scheduled
      <4>3. ASSUME NEW k \in running, NEW j \in running PROVE k = j
        <5>1. PICK i \in DOMAIN threads : threads[i].step = k /\ Running(i)
          BY <1>1, <4>2 DEF IInv, StatesFit, Phases
        <5>2. PICK l \in DOMAIN threads : threads[l].step = j /\ Running(l)
          BY <1>1, <4>2 DEF IInv, StatesFit, Phases
        <5>3. i = l
          <6>1. i \in Nat /\ l \in Nat
            BY <5>1, <5>2, ThreadTypes DEF IInv
          <6>2. ~(i < l) /\ ~(l < i)
            BY <5>1, <5>2 DEF IInv, Ordered, StepsInOrder
          <6>3. QED
            BY <6>1, <6>2
        <5>4. QED
          BY <5>1, <5>2, <5>3
      <4>4. PICK k \in running : TRUE
        BY <2>2
      <4>5. k \in Nat /\ \A j \in running : j = k
        BY <4>1, <4>3, <4>4
      <4> HIDE DEF running
      <4>6. \A j \in running : k <= j
        BY <4>5
      <4>7. QED
        BY <4>4, <4>6
    <3>2. CancelEffect(first, state) /\ first \in Steps
      BY <1>1, <2>2, <3>1
    <3> HIDE DEF state, first
    <3>3. /\ stepState' \in [Steps -> States] /\ cancelEvent' \subseteq Steps /\ idle' \in Nat
          /\ \A j \in Steps :
               \/ stepState'[j] = state[j]
               \/ state[j] = "IN_PROGRESS" /\ stepState'[j] = "FAILED"
               \/ state[j] = "IN_PROGRESS" /\ stepState'[j] = "CANCELED" /\ j \in Cleanups
      BY <1>3, <3>2, CancelEffectFacts
    <3>4. QED
      BY <1>3, <1>4, <3>3 DEF Canceling
  <2>3. QED
    BY <2>1, <2>2
<1> HIDE DEF state, running, first
<1>6. Ordered' /\ ThreadsFit' /\ StatesFit' /\ RecordsFit'
  BY <1>1, <1>5, CancelingKeeps
<1>7. TypeOK'
  BY <1>1, <1>5, StepFacts DEF IInv, TypeOK, Canceling, States
<1>8. Phases' /\ OneToken' /\ Ended' /\ Decided'
  BY <1>1, <1>2 DEF Phases, OneToken, Ended, Decided
<1>9. QED
  BY <1>6, <1>7, <1>8 DEF IInv

LEMMA CleanupKeeps == ASSUME BuildAssumption, IInv, CleanupStep PROVE IInv'
<1>1. /\ ending # "no" /\ cursor > 0 /\ cursor' = cursor - 1 /\ cursor \in Nat
      /\ UNCHANGED <<status, threads, failedStages, seeds, built, record, previous, canceled, ending,
                     raised, listed, reports>>
  BY StepFacts DEF CleanupStep, IInv, TypeOK
<1>2. \/ /\ cursor \notin Steps \/ stepState[cursor] = "SCHEDULED"
         /\ UNCHANGED <<stepState, cancelEvent, idle, spawned, reserved, runnerUsed>>
      \/ /\ cursor \in Steps
         /\ CancelEffect(cursor, stepState)
         /\ IF cursor = PrepareToolset
            THEN spawned' = FALSE /\ reserved' = FALSE
            ELSE UNCHANGED <<spawned, reserved>>
         /\ runnerUsed' = IF cursor = PrepareRunner THEN FALSE ELSE runnerUsed
  BY DEF CleanupStep
<1>3. stepState \in [Steps -> States] /\ cancelEvent \subseteq Steps /\ idle \in Nat
  BY DEF IInv, TypeOK, States
<1>4. Canceling
  <2>1. CASE UNCHANGED <<stepState, cancelEvent, idle>>
    BY <1>3, <2>1 DEF Canceling
  <2>2. CASE cursor \in Steps /\ CancelEffect(cursor, stepState)
    <3>1. /\ stepState' \in [Steps -> States] /\ cancelEvent' \subseteq Steps /\ idle' \in Nat
          /\ \A j \in Steps :
               \/ stepState'[j] = stepState[j]
               \/ stepState[j] = "IN_PROGRESS" /\ stepState'[j] = "FAILED"
               \/ stepState[j] = "IN_PROGRESS" /\ stepState'[j] = "CANCELED" /\ j \in Cleanups
      BY <1>3, <2>2, CancelEffectFacts
    <3>2. QED
      BY <3>1 DEF Canceling
  <2>3. QED
    BY <1>2, <2>1, <2>2
<1>5. TypeOK'
  <2>1. {runnerUsed', reserved', spawned'} \subseteq BOOLEAN
    BY <1>2 DEF IInv, TypeOK
  <2>2. cursor' \in 0 .. StopRunner
    BY <1>1, StepFacts DEF IInv, TypeOK
  <2>3. QED
    BY <1>1, <1>4, <2>1, <2>2 DEF IInv, TypeOK, Canceling, States
<1>6. reports = <<>> /\ status \notin {"SETUP", "IN_PROGRESS"}
  BY <1>1 DEF IInv, Phases
<1>7. OneToken'
  BY <1>1, <1>6 DEF OneToken
<1>8. CASE canceled
  <2>1. canceled'
    BY <1>1, <1>8
  <2>2. Ordered' /\ ThreadsFit' /\ StatesFit' /\ RecordsFit'
    BY <1>1, <1>4, <2>1, CancelingKeeps
  <2>3. status # "COMPLETED"
    BY <1>8 DEF IInv, Phases
  <2>4. Phases'
    BY <1>1, <1>6, <2>1, <2>3 DEF IInv, Phases
  <2>5. Ended' /\ Decided'
    BY <1>1, <2>1, <2>3 DEF Ended, Decided
  <2>6. QED
    BY <1>5, <1>7, <2>2, <2>4, <2>5 DEF IInv
<1>9. CASE ~canceled
  <2>1. /\ AllDone /\ \A k \in Steps : stepState[k] # "SCHEDULED"
        /\ ~raised /\ cursor < PrepareToolset => ~reserved /\ ~spawned
        /\ ~raised /\ cursor < PrepareRunner => ~runnerUsed
    BY <1>6, <1>9 DEF IInv, Ended, TypeOK
  <2>2. \A k \in Steps : stepState[k] # "IN_PROGRESS"
    BY <1>9, <2>1 DEF IInv, StatesFit, AllDone
  <2>3. stepState' = stepState /\ cancelEvent' = cancelEvent /\ idle' = idle
    <3>1. CASE cursor \in Steps /\ CancelEffect(cursor, stepState)
      BY <3>1, <2>2, <1>3, CancelEffectFacts
    <3>2. QED
      BY <1>2, <3>1
  <2>4. Phases' /\ Ordered' /\ ThreadsFit'
    BY <1>1, <2>3 DEF IInv, Phases, Ordered, StepsInOrder, Running, Last, ThreadsFit, ThreadFits
  <2>5. StatesFit' /\ RecordsFit'
    BY <1>1, <2>3 DEF IInv, StatesFit, RecordsFit, Threaded, Running
  <2>6. Decided'
    BY <1>1, <2>3 DEF IInv, Decided, Broken, SeedFailed, AheadBuilt, AheadFailed, Threaded
  <2>7. ~raised /\ cursor' < PrepareToolset => ~reserved' /\ ~spawned'
    <3>1. CASE cursor = PrepareToolset
      <4>1. cursor \in Steps /\ stepState[cursor] # "SCHEDULED"
        BY <3>1, <2>1, StepFacts
      <4>2. QED
        BY <4>1, <3>1, <1>2
    <3>2. CASE cursor # PrepareToolset
      <4>1. reserved' = reserved /\ spawned' = spawned
        BY <3>2, <1>2
      <4>2. QED
        BY <4>1, <3>2, <1>1, <2>1 DEF PrepareToolset
    <3>3. QED
      BY <3>1, <3>2
  <2>8. ~raised /\ cursor' < PrepareRunner => ~runnerUsed'
    <3>1. CASE cursor = PrepareRunner
      <4>1. cursor \in Steps /\ stepState[cursor] # "SCHEDULED"
        BY <3>1, <2>1, StepFacts
      <4>2. QED
        BY <4>1, <3>1, <1>2
    <3>2. CASE cursor # PrepareRunner
      <4>1. runnerUsed' = runnerUsed
        BY <3>2, <1>2
      <4>2. QED
        BY <4>1, <3>2, <1>1, <2>1 DEF PrepareRunner
    <3>3. QED
      BY <3>1, <3>2
  <2>9. Ended'
    BY <1>1, <2>1, <2>3, <2>7, <2>8 DEF IInv, Ended, AllDone, Running
  <2>10. QED
    BY <1>5, <1>7, <2>4, <2>5, <2>6, <2>9 DEF IInv
<1>10. QED
  BY <1>8, <1>9

LEMMA CleanupRaisesKeeps == ASSUME BuildAssumption, IInv, CleanupRaises PROVE IInv'
<1>1. /\ ending # "no" /\ cursor' = 0 /\ raised' = TRUE /\ cursor \in Steps
      /\ CancelEffect(cursor, stepState) /\ spawned' \in {spawned, FALSE}
      /\ UNCHANGED <<status, threads, failedStages, seeds, built, record, previous, runnerUsed, reserved,
                     canceled, ending, listed, reports>>
  BY StepFacts DEF CleanupRaises
<1>2. stepState \in [Steps -> States] /\ cancelEvent \subseteq Steps /\ idle \in Nat
  BY DEF IInv, TypeOK, States
<1>3. /\ stepState' \in [Steps -> States] /\ cancelEvent' \subseteq Steps /\ idle' \in Nat
      /\ \A j \in Steps :
           \/ stepState'[j] = stepState[j]
           \/ stepState[j] = "IN_PROGRESS" /\ stepState'[j] = "FAILED"
           \/ stepState[j] = "IN_PROGRESS" /\ stepState'[j] = "CANCELED" /\ j \in Cleanups
      /\ stepState[cursor] # "IN_PROGRESS" =>
           stepState' = stepState /\ cancelEvent' = cancelEvent /\ idle' = idle
  BY <1>1, <1>2, CancelEffectFacts
<1>4. Canceling
  BY <1>3 DEF Canceling
<1>5. TypeOK'
  <2>1. {runnerUsed', reserved', spawned', raised'} \subseteq BOOLEAN
    BY <1>1 DEF IInv, TypeOK
  <2>2. cursor' \in 0 .. StopRunner
    BY <1>1, StepFacts
  <2>3. QED
    BY <1>1, <1>3, <2>1, <2>2 DEF IInv, TypeOK, States
<1>6. reports = <<>> /\ status \notin {"SETUP", "IN_PROGRESS"} /\ (canceled => status # "COMPLETED")
  BY <1>1 DEF IInv, Phases
<1>7. OneToken'
  BY <1>1, <1>6 DEF OneToken
<1>8. CASE canceled
  <2>1. canceled'
    BY <1>1, <1>8
  <2>2. Ordered' /\ ThreadsFit' /\ StatesFit' /\ RecordsFit'
    BY <1>1, <1>4, <2>1, CancelingKeeps
  <2>3. Phases'
    BY <1>1, <1>6, <1>8, <2>1 DEF IInv, Phases
  <2>4. Ended' /\ Decided'
    BY <1>1, <1>6, <1>8, <2>1 DEF Ended, Decided
  <2>5. QED
    BY <1>5, <1>7, <2>2, <2>3, <2>4 DEF IInv
<1>9. CASE ~canceled
  <2>1. AllDone /\ \A k \in Steps : stepState[k] # "SCHEDULED"
    BY <1>6, <1>9 DEF IInv, Ended, TypeOK
  <2>2. \A k \in Steps : stepState[k] # "IN_PROGRESS"
    BY <1>9, <2>1 DEF IInv, StatesFit, AllDone
  <2>3. stepState' = stepState /\ cancelEvent' = cancelEvent /\ idle' = idle
    BY <2>2, <1>1, <1>3
  <2>4. Phases' /\ Ordered' /\ ThreadsFit'
    BY <1>1, <2>3 DEF IInv, Phases, Ordered, StepsInOrder, Running, Last, ThreadsFit, ThreadFits
  <2>5. StatesFit' /\ RecordsFit'
    BY <1>1, <2>3 DEF IInv, StatesFit, RecordsFit, Threaded, Running
  <2>6. Decided'
    BY <1>1, <2>3 DEF IInv, Decided, Broken, SeedFailed, AheadBuilt, AheadFailed, Threaded
  <2>7. Ended'
    BY <1>1, <2>1, <2>3 DEF IInv, Ended, AllDone, Running
  <2>8. QED
    BY <1>5, <1>7, <2>4, <2>5, <2>6, <2>7 DEF IInv
<1>10. QED
  BY <1>8, <1>9

LEMMA FinishKeeps == ASSUME BuildAssumption, IInv, Finish PROVE IInv'
<1>1. /\ ending # "no" /\ cursor = 0 /\ listed' = (ending = "failure")
      /\ reports' = Append(reports, ending) /\ ending' = "no"
      /\ record' = [s \in Stages |-> IF record[s] # "SCHEDULED" THEN record[s]
                                     ELSE IF canceled THEN "CANCELED" ELSE "SKIPPED"]
      /\ UNCHANGED <<status, stepState, cancelEvent, threads, idle, failedStages, seeds, built, previous,
                     runnerUsed, reserved, spawned, canceled, cursor, raised>>
  BY DEF Finish
<1>2. /\ reports = <<>> /\ status \notin {"SETUP", "IN_PROGRESS"} /\ (ending = "success" => status = "COMPLETED")
      /\ ending \in {"success", "failure", "canceled"} /\ status \in {"COMPLETED", "FAILED"}
      /\ \A s \in Stages : record[s] # "none"
  BY <1>1 DEF IInv, Phases, TypeOK
<1>3. reports' = <<ending>> /\ reports' # <<>> /\ DOMAIN reports' = {1} /\ reports'[1] = ending
      /\ reports' \in Seq({"success", "failure", "canceled"})
  BY <1>1, <1>2
<1>4. \A s \in Stages :
        /\ record[s] # "SCHEDULED" => record'[s] = record[s]
        /\ record[s] = "SCHEDULED" => record'[s] \in {"CANCELED", "SKIPPED"} /\ (~canceled => record'[s] = "SKIPPED")
        /\ record'[s] = "COMPLETED" <=> record[s] = "COMPLETED"
        /\ record'[s] # "SCHEDULED" /\ record'[s] # "none"
  BY <1>1, <1>2
<1>5. record' \in [Stages -> Records]
  BY <1>1, <1>4 DEF IInv, TypeOK, Records
<1>6. TypeOK'
  BY <1>1, <1>3, <1>5 DEF IInv, TypeOK, Records
<1>7. Phases' /\ OneToken'
  BY <1>1, <1>2, <1>3, <1>4 DEF IInv, Phases, OneToken
<1>8. Ordered'
  BY <1>1 DEF IInv, Ordered, StepsInOrder, Running, Last
<1>9. ThreadsFit'
  <2>1. ASSUME NEW i \in DOMAIN threads PROVE ThreadFits(i)'
    <3>1. ThreadFits(i)
      BY DEF IInv, ThreadsFit
    <3>2. threads[i].step \in Builds => StageOf(threads[i].step) \in Stages
      BY StageFacts
    <3>3. threads[i].step \in Builds /\ record[StageOf(threads[i].step)] \in Fitting(threads[i].at) =>
            record'[StageOf(threads[i].step)] \in Fitting(threads[i].at)
      BY <1>4, <3>2 DEF Fitting
    <3>4. threads[i].step \in Builds =>
            (record'[StageOf(threads[i].step)] = "COMPLETED" <=> record[StageOf(threads[i].step)] = "COMPLETED")
      BY <1>4, <3>2
    <3>5. QED
      BY <3>1, <3>3, <3>4, <1>1 DEF ThreadFits
  <2>2. QED
    BY <2>1, <1>1 DEF ThreadsFit
<1>10. StatesFit'
  BY <1>1, <1>4, StageFacts DEF IInv, StatesFit, Threaded, Running
<1>11. RecordsFit'
  BY <1>1, <1>4 DEF IInv, RecordsFit, Threaded
<1>12. Ended'
  BY <1>1, StepFacts DEF IInv, Ended, AllDone, Running, PrepareToolset, PrepareRunner
<1>13. Decided'
  BY <1>1 DEF IInv, Decided, Broken, SeedFailed, AheadBuilt, AheadFailed, Threaded
<1>14. QED
  BY <1>6, <1>7, <1>8, <1>9, <1>10, <1>11, <1>12, <1>13 DEF IInv

-----------------------------------------------------------------------------
(* The threads of steps.                                                   *)

\* A thread that goes on and leaves the states of steps alone, with what
\* that changes of the record of its stage (to) and of the older builds.
Goes(i, w) ==
  /\ Go(i, w) /\ w \in {"reserved", "building", "broken", "COMPLETED", "FAILED"}
  /\ threads[i].at \notin {"spawned", "done"}
  /\ w = "reserved" => threads[i].step = PrepareToolset
  /\ w \in {"building", "broken"} => threads[i].step \in Builds
  /\ UNCHANGED <<stepState, cancelEvent, idle, status, failedStages, canceled, ending, cursor, raised, listed, reports>>
  /\ seeds' \subseteq Stages /\ built' \subseteq Stages
  /\ {runnerUsed', reserved', spawned'} \subseteq BOOLEAN

GoesOutside(i, w) ==
  /\ Goes(i, w) /\ threads[i].step \notin Builds /\ record' = record
  /\ \/ previous' = previous
     \/ \E s \in Stages : stepState[Build(s)] = "COMPLETED" /\ previous' = previous \ {s}

GoesBuilding(i, w, to) ==
  /\ Goes(i, w) /\ threads[i].step \in Builds /\ previous' = previous
  /\ record' = [record EXCEPT ![StageOf(threads[i].step)] = to]
  /\ to \in Fitting(w) /\ to \in Records
  /\ ~canceled => to \notin {"STOPPED", "CANCELED"}

LEMMA GoesFacts ==
  ASSUME BuildAssumption, IInv, NEW i \in DOMAIN threads, NEW w, Goes(i, w)
  PROVE  /\ Running(i) /\ w \in Places /\ ~AllDone /\ Go(i, w)
         /\ threads[i].step \in Steps
         /\ \A k : Threaded(k)' <=> Threaded(k)
         /\ status # "SETUP"
         /\ ~(status = "IN_PROGRESS" /\ idle > 0)
         /\ ~canceled => status = "IN_PROGRESS"
         /\ status # "COMPLETED"
<1>1. Running(i) /\ w \in Places /\ ~AllDone /\ Go(i, w)
  BY DEF Goes, Running, AllDone, Places
<1>2. status # "SETUP"
  BY ThreadTypes DEF IInv, Phases
<1>3. ~(status = "IN_PROGRESS" /\ idle > 0)
  BY <1>1 DEF IInv, OneToken
<1>4. ~canceled => status = "IN_PROGRESS"
  BY <1>1, <1>2 DEF IInv, Ended, TypeOK
<1>5. status # "COMPLETED"
  BY <1>4 DEF IInv, Phases
<1>6. \A k : Threaded(k)' <=> Threaded(k)
  BY <1>1, ThreadMoves DEF IInv, Ordered
<1>7. threads[i].step \in Steps
  BY ThreadTypes DEF IInv
<1>8. QED
  BY <1>1, <1>2, <1>3, <1>4, <1>5, <1>6, <1>7

\* What holds of a thread that goes on whatever it does to records.
LEMMA GoesKeeps ==
  ASSUME BuildAssumption, IInv, NEW i \in DOMAIN threads, NEW w, Goes(i, w),
         record' \in [Stages -> Records], previous' \subseteq previous,
         \A s \in Stages : record[s] # "none" => record'[s] # "none"
  PROVE  TypeOK' /\ Phases' /\ Ordered' /\ OneToken' /\ Ended' /\ Decided'
<1>1. /\ Running(i) /\ w \in Places /\ ~AllDone /\ Go(i, w)
      /\ \A k : Threaded(k)' <=> Threaded(k)
      /\ status # "SETUP" /\ ~(status = "IN_PROGRESS" /\ idle > 0)
      /\ ~canceled => status = "IN_PROGRESS"
      /\ status # "COMPLETED"
  BY GoesFacts
<1>2. /\ UNCHANGED <<stepState, cancelEvent, idle, status, failedStages, canceled, ending, cursor, raised, listed, reports>>
      /\ seeds' \subseteq Stages /\ built' \subseteq Stages
      /\ {runnerUsed', reserved', spawned'} \subseteq BOOLEAN
      /\ w \notin {"spawned", "done"} /\ threads[i].at # "spawned"
  BY DEF Goes
<1>3. /\ threads' \in Seq(ThreadSet) /\ DOMAIN threads' = DOMAIN threads /\ threads' # <<>>
      /\ threads # <<>> /\ Last = threads[i] /\ Last' = threads'[i]
      /\ threads'[i].step = threads[i].step /\ threads'[i].at = w
      /\ StepsInOrder'
  BY <1>1, ThreadMoves DEF IInv, Ordered
<1>4. TypeOK'
  BY <1>2, <1>3 DEF IInv, TypeOK, ThreadSet, Places, Records
<1>5. Phases'
  BY <1>1, <1>2 DEF IInv, Phases
<1>6. Ordered'
  BY <1>2, <1>3 DEF IInv, Ordered
<1>7. OneToken' /\ Ended'
  BY <1>1, <1>2 DEF OneToken, Ended
<1>8. Decided'
  BY <1>1, <1>2 DEF IInv, Decided, Broken, SeedFailed, AheadBuilt, AheadFailed
<1>9. QED
  BY <1>4, <1>5, <1>6, <1>7, <1>8

LEMMA OutsideKeeps ==
  ASSUME BuildAssumption, IInv, NEW i \in DOMAIN threads, NEW w, GoesOutside(i, w)
  PROVE  IInv'
<1>1. /\ Goes(i, w) /\ threads[i].step \notin Builds /\ record' = record
      /\ w \notin {"spawned", "done"} /\ threads[i].at \notin {"spawned", "done"}
      /\ w = "reserved" => threads[i].step = PrepareToolset
      /\ w \notin {"building", "broken"}
      /\ UNCHANGED <<stepState, canceled, reports>>
      /\ \/ previous' = previous
         \/ \E s \in Stages : stepState[Build(s)] = "COMPLETED" /\ previous' = previous \ {s}
  BY DEF GoesOutside, Goes
<1>2. TypeOK' /\ Phases' /\ Ordered' /\ OneToken' /\ Ended' /\ Decided'
  BY <1>1, GoesKeeps DEF IInv, TypeOK, Records
<1>3. /\ Running(i) /\ w \in Places /\ Go(i, w) /\ \A k : Threaded(k)' <=> Threaded(k)
  BY <1>1, GoesFacts
<1>4. /\ DOMAIN threads' = DOMAIN threads
      /\ threads'[i].step = threads[i].step /\ threads'[i].at = w
      /\ \A j \in DOMAIN threads : j # i => threads'[j] = threads[j]
  BY <1>3, ThreadMoves DEF IInv, Ordered
<1>5. ThreadsFit'
  <2>1. SUFFICES ASSUME NEW j \in DOMAIN threads PROVE ThreadFits(j)'
    BY <1>4 DEF ThreadsFit
  <2>2. ThreadFits(j) /\ ThreadFits(i)
    BY DEF IInv, ThreadsFit
  <2>3. CASE j # i
    BY <2>2, <2>3, <1>1, <1>4 DEF ThreadFits
  <2>4. CASE j = i
    BY <2>2, <2>4, <1>1, <1>4 DEF ThreadFits
  <2>5. QED
    BY <2>3, <2>4
<1>6. StatesFit'
  <2>1. \A k \in Steps : (\E j \in DOMAIN threads : threads[j].step = k /\ Running(j)) =>
                           (\E j \in DOMAIN threads' : threads'[j].step = k /\ Running(j)')
    BY <1>1, <1>4 DEF Running
  <2>2. QED
    BY <1>1, <1>3, <2>1 DEF IInv, StatesFit
<1>7. RecordsFit'
  BY <1>1, <1>3 DEF IInv, RecordsFit
<1>8. QED
  BY <1>2, <1>5, <1>6, <1>7 DEF IInv

LEMMA BuildingKeeps ==
  ASSUME BuildAssumption, IInv, NEW i \in DOMAIN threads, NEW w, NEW to, GoesBuilding(i, w, to)
  PROVE  IInv'
<1> DEFINE k == threads[i].step
           s == StageOf(k)
<1>1. /\ Goes(i, w) /\ k \in Builds /\ previous' = previous
      /\ record' = [record EXCEPT ![s] = to] /\ to \in Fitting(w) /\ to \in Records
      /\ w \notin {"spawned", "done"} /\ threads[i].at \notin {"spawned", "done"}
      /\ w = "reserved" => k = PrepareToolset
      /\ UNCHANGED <<stepState, canceled, reports>>
      /\ ~canceled => to \notin {"STOPPED", "CANCELED"}
  BY DEF GoesBuilding, Goes
<1>2. to \notin {"none", "SCHEDULED"} /\ s \in Stages /\ k \in Steps /\ k = Build(s)
  <2>1. w \in {"reserved", "building", "broken", "COMPLETED", "FAILED"}
    BY <1>1 DEF Goes
  <2>2. to \notin {"none", "SCHEDULED"}
    BY <1>1, <2>1 DEF Fitting
  <2>3. QED
    BY <1>1, <2>2, StageFacts, StepFacts
<1>3. /\ record \in [Stages -> Records] /\ record' \in [Stages -> Records] /\ record'[s] = to
      /\ \A r \in Stages : r # s => record'[r] = record[r]
  BY <1>1, <1>2 DEF IInv, TypeOK, Records
<1>4. TypeOK' /\ Phases' /\ Ordered' /\ OneToken' /\ Ended' /\ Decided'
  BY <1>1, <1>2, <1>3, GoesKeeps
<1>5. /\ Running(i) /\ w \in Places /\ Go(i, w) /\ \A j : Threaded(j)' <=> Threaded(j)
  BY <1>1, GoesFacts
<1>6. /\ DOMAIN threads' = DOMAIN threads
      /\ threads'[i].step = k /\ threads'[i].at = w
      /\ \A j \in DOMAIN threads : j # i => threads'[j] = threads[j] /\ threads[j].step < k
      /\ Threaded(k)
  BY <1>5, ThreadMoves DEF IInv, Ordered
<1>7. stepState[k] # "COMPLETED"
  BY <1>1 DEF IInv, ThreadsFit, ThreadFits
<1> HIDE DEF k, s
<1>8. ASSUME NEW j \in DOMAIN threads, j # i, threads[j].step \in Builds
      PROVE  StageOf(threads[j].step) \in Stages /\ StageOf(threads[j].step) # s
  <2>1. threads[j].step < k /\ k \in Nat
    BY <1>2, <1>6, <1>8, StepFacts
  <2>2. threads[j].step = Build(StageOf(threads[j].step)) /\ StageOf(threads[j].step) \in Stages
    BY <1>8, StageFacts
  <2>3. QED
    BY <2>1, <2>2, <1>2
<1>9. ThreadsFit'
  <2>1. SUFFICES ASSUME NEW j \in DOMAIN threads PROVE ThreadFits(j)'
    BY <1>6 DEF ThreadsFit
  <2>2. ThreadFits(j) /\ ThreadFits(i)
    BY DEF IInv, ThreadsFit
  <2>3. CASE j # i
    <3>1. threads[j].step \in Builds => record'[StageOf(threads[j].step)] = record[StageOf(threads[j].step)]
      BY <1>3, <1>8, <2>3
    <3>2. QED
      BY <2>2, <2>3, <3>1, <1>1, <1>6 DEF ThreadFits
  <2>4. CASE j = i
    BY <2>2, <2>4, <1>1, <1>3, <1>6 DEF ThreadFits, k, s
  <2>5. QED
    BY <2>3, <2>4
<1>10. StatesFit'
  <2>1. \A j \in Steps : (\E l \in DOMAIN threads : threads[l].step = j /\ Running(l)) =>
                           (\E l \in DOMAIN threads' : threads'[l].step = j /\ Running(l)')
    BY <1>1, <1>6 DEF Running, k
  <2>2. \A j \in Builds : stepState[j] = "COMPLETED" => record'[StageOf(j)] = record[StageOf(j)]
    BY <1>2, <1>3, <1>7, StageFacts
  <2>3. QED
    BY <1>1, <1>5, <2>1, <2>2 DEF IInv, StatesFit
<1>11. RecordsFit'
  BY <1>1, <1>2, <1>3, <1>5, <1>6 DEF IInv, RecordsFit
<1>12. QED
  BY <1>4, <1>9, <1>10, <1>11 DEF IInv

LEMMA PassingKeeps ==
  ASSUME BuildAssumption, IInv, NEW i \in DOMAIN threads,
         \/ StepFails(i) \/ TakeRunner(i) \/ ReleaseRunner(i) \/ ReserveToolset(i) \/ SpawnToolset(i)
         \/ SnapshotFetched(i) \/ SeedDownloaded(i)
  PROVE  IInv'
<1>1. /\ seeds \subseteq Stages /\ built \subseteq Stages /\ {runnerUsed, reserved, spawned} \subseteq BOOLEAN
      /\ threads[i].at = "reserved" => threads[i].step = PrepareToolset
      /\ \A k \in Downloads : Stage(k) \subseteq Stages
      /\ Builds \cap Downloads = {} /\ {PrepareRunner, PrepareToolset, Snapshot, StopRunner} \cap Builds = {}
  <2>1. \A k \in Downloads : Stage(k) \subseteq Stages
    BY StageFacts
  <2>2. QED
    BY <2>1, StepFacts DEF IInv, TypeOK, ThreadsFit, ThreadFits
<1>2. CASE StepFails(i)
  <2>1. GoesOutside(i, "FAILED")
    BY <1>1, <1>2 DEF StepFails, GoesOutside, Goes, StepAt, Places, heldVars, mainVars, endVars
  <2>2. QED
    BY <2>1, OutsideKeeps
<1>3. CASE TakeRunner(i) \/ ReleaseRunner(i) \/ SpawnToolset(i) \/ SnapshotFetched(i) \/ SeedDownloaded(i)
  <2>1. GoesOutside(i, "COMPLETED")
    <3>1. CASE TakeRunner(i)
      BY <1>1, <3>1 DEF TakeRunner, GoesOutside, Goes, StepAt, Places, mainVars, endVars
    <3>2. CASE ReleaseRunner(i)
      BY <1>1, <3>2 DEF ReleaseRunner, GoesOutside, Goes, StepAt, Places, mainVars, endVars
    <3>3. CASE SpawnToolset(i)
      BY <1>1, <3>3 DEF SpawnToolset, GoesOutside, Goes, StepAt, Places, mainVars, endVars
    <3>4. CASE SnapshotFetched(i)
      BY <1>1, <3>4 DEF SnapshotFetched, GoesOutside, Goes, StepAt, Places, heldVars, mainVars, endVars
    <3>5. CASE SeedDownloaded(i)
      BY <1>1, <3>5 DEF SeedDownloaded, GoesOutside, Goes, StepAt, Places, mainVars, endVars
    <3>6. QED
      BY <1>3, <3>1, <3>2, <3>3, <3>4, <3>5
  <2>2. QED
    BY <2>1, OutsideKeeps
<1>4. CASE ReserveToolset(i)
  <2>1. GoesOutside(i, "reserved")
    BY <1>1, <1>4 DEF ReserveToolset, GoesOutside, Goes, StepAt, Places, mainVars, endVars
  <2>2. QED
    BY <2>1, OutsideKeeps
<1>5. QED
  BY <1>2, <1>3, <1>4

LEMMA BuildStepKeeps ==
  ASSUME BuildAssumption, IInv, ~CommandRaises, NEW i \in DOMAIN threads,
         BuildBegin(i) \/ BuildSucceeds(i) \/ CommandFails(i) \/ BuildBroken(i)
  PROVE  IInv'
<1> DEFINE k == threads[i].step
           s == StageOf(k)
<1>1. /\ seeds \subseteq Stages /\ built \subseteq Stages /\ {runnerUsed, reserved, spawned} \subseteq BOOLEAN
      /\ threads[i].at \in {"building", "broken"} => k \in Builds
      /\ k \in Builds => record[s] \in Fitting(threads[i].at)
      /\ k \in Builds => s \in Stages
      /\ record \in [Stages -> Records]
  BY StageFacts DEF IInv, TypeOK, ThreadsFit, ThreadFits, Records
<1> HIDE DEF k, s
<1>2. CASE BuildBegin(i)
  <2>1. \/ GoesBuilding(i, "building", "IN_PROGRESS")
        \/ GoesBuilding(i, "broken", "IN_PROGRESS")
    BY <1>1, <1>2 DEF BuildBegin, GoesBuilding, Goes, StepAt, Places, Fitting, Records, mainVars, endVars, k, s
  <2>2. QED
    BY <2>1, BuildingKeeps
<1>3. CASE BuildSucceeds(i)
  <2>1. GoesBuilding(i, "COMPLETED", "COMPLETED")
    BY <1>1, <1>3 DEF BuildSucceeds, GoesBuilding, Goes, StepAt, Places, Fitting, Records, mainVars, endVars, k, s
  <2>2. QED
    BY <2>1, BuildingKeeps
<1>4. CASE CommandFails(i)
  <2>1. k \in Builds /\ threads[i].at = "building"
    BY <1>1, <1>4 DEF CommandFails, StepAt
  <2>2. record[s] = "IN_PROGRESS"
    BY <1>1, <2>1 DEF Fitting
  <2>3. record = [record EXCEPT ![s] = "IN_PROGRESS"]
    BY <1>1, <2>1, <2>2
  <2>4. GoesBuilding(i, "broken", "IN_PROGRESS")
    BY <1>1, <1>4, <2>1, <2>3
    DEF CommandFails, GoesBuilding, Goes, StepAt, Places, Fitting, Records, heldVars, mainVars, endVars, k, s
  <2>5. QED
    BY <2>4, BuildingKeeps
<1>5. CASE BuildBroken(i)
  <2>1. CASE canceled
    <3>1. GoesBuilding(i, "FAILED", "STOPPED")
      BY <1>1, <1>5, <2>1
      DEF BuildBroken, GoesBuilding, Goes, StepAt, Places, Fitting, Records, mainVars, endVars, k, s
    <3>2. QED
      BY <3>1, BuildingKeeps
  <2>2. CASE ~canceled
    <3>1. GoesBuilding(i, "FAILED", "FAILED")
      BY <1>1, <1>5, <2>2
      DEF BuildBroken, GoesBuilding, Goes, StepAt, Places, Fitting, Records, mainVars, endVars, k, s
    <3>2. QED
      BY <3>1, BuildingKeeps
  <2>3. QED
    BY <2>1, <2>2
<1>6. QED
  BY <1>2, <1>3, <1>4, <1>5

LEMMA StepStartKeeps == ASSUME BuildAssumption, IInv, NEW i \in DOMAIN threads, StepStart(i) PROVE IInv'
<1> DEFINE k == threads[i].step
<1>1. /\ threads[i].at = "spawned" /\ stepState' = [stepState EXCEPT ![k] = "IN_PROGRESS"]
      /\ cancelEvent' = cancelEvent \ {k} /\ Go(i, "started")
      /\ UNCHANGED <<idle, seeds, built, record, previous, runnerUsed, reserved, spawned,
                     status, failedStages, canceled, ending, cursor, raised, listed, reports>>
  BY DEF StepStart, StepAt, heldVars, mainVars, endVars
<1>2. Running(i) /\ ~AllDone /\ "started" \in Places
  BY <1>1 DEF Running, AllDone, Places
<1>3. status # "SETUP" /\ ~(status = "IN_PROGRESS" /\ idle > 0) /\ (~canceled => status = "IN_PROGRESS")
      /\ status # "COMPLETED"
  <2>1. status # "SETUP"
    BY ThreadTypes DEF IInv, Phases
  <2>2. QED
    BY <1>2, <2>1 DEF IInv, OneToken, Ended, TypeOK, Phases
<1>4. /\ threads' \in Seq(ThreadSet) /\ DOMAIN threads' = DOMAIN threads /\ threads' # <<>>
      /\ threads'[i].step = k /\ threads'[i].at = "started"
      /\ \A j \in DOMAIN threads : j # i =>
           threads'[j] = threads[j] /\ threads[j].at = "done" /\ threads[j].step < k
      /\ threads # <<>> /\ Last = threads[i] /\ Last' = threads'[i]
      /\ StepsInOrder'
      /\ \A j : Threaded(j)' <=> Threaded(j)
      /\ Threaded(k)
  BY <1>1, <1>2, ThreadMoves DEF IInv, Ordered
<1>5. k \in Steps /\ k \in Nat
  BY ThreadTypes, StepFacts DEF IInv
<1>6. /\ ThreadFits(i) /\ stepState[k] \in {"SCHEDULED", "CANCELED"} /\ stepState \in [Steps -> States]
      /\ (~canceled => stepState[k] = "SCHEDULED" \/ k \in Cleanups)
  BY <1>1, <1>5 DEF IInv, ThreadsFit, ThreadFits, TypeOK, States, StatesFit
<1>7. /\ stepState'[k] = "IN_PROGRESS" /\ stepState' \in [Steps -> States]
      /\ \A j \in Steps : j # k => stepState'[j] = stepState[j]
  BY <1>1, <1>5, <1>6 DEF States
<1> HIDE DEF k
<1>8. TypeOK'
  BY <1>1, <1>4, <1>7 DEF IInv, TypeOK, ThreadSet, Places, States
<1>9. Phases' /\ OneToken' /\ Ended'
  BY <1>1, <1>3 DEF IInv, Phases, OneToken, Ended
<1>10. Ordered'
  BY <1>1, <1>4, <1>7 DEF IInv, Ordered, k
<1>11. ThreadsFit'
  <2>1. SUFFICES ASSUME NEW j \in DOMAIN threads PROVE ThreadFits(j)'
    BY <1>4 DEF ThreadsFit
  <2>2. ThreadFits(j)
    BY DEF IInv, ThreadsFit
  <2>3. CASE j # i
    <3>1. threads[j].step \in Steps /\ threads[j].step # k
      BY <2>3, <1>4, <1>5, ThreadTypes DEF IInv
    <3>2. QED
      BY <2>2, <2>3, <3>1, <1>1, <1>4, <1>7 DEF ThreadFits
  <2>4. CASE j = i
    BY <2>2, <2>4, <1>1, <1>4, <1>7 DEF ThreadFits, Fitting, k
  <2>5. QED
    BY <2>3, <2>4
<1>12. StatesFit'
  <2>1. SUFFICES ASSUME NEW j \in Steps
                 PROVE  /\ stepState'[j] = "COMPLETED" => Threaded(j)'
                        /\ stepState'[j] = "IN_PROGRESS" /\ ~canceled' =>
                             \E l \in DOMAIN threads' : threads'[l].step = j /\ Running(l)'
                        /\ stepState'[j] = "CANCELED" => j \in Cleanups
                        /\ j \in Builds /\ stepState'[j] = "COMPLETED" => record'[StageOf(j)] = "COMPLETED"
    BY DEF StatesFit
  <2>2. CASE j = k
    BY <2>2, <1>4, <1>7 DEF Running
  <2>3. CASE j # k
    <3>1. (\E l \in DOMAIN threads : threads[l].step = j /\ Running(l)) =>
            \E l \in DOMAIN threads' : threads'[l].step = j /\ Running(l)'
      BY <2>3, <1>4 DEF Running, k
    <3>2. QED
      BY <2>3, <3>1, <1>1, <1>4, <1>7 DEF IInv, StatesFit
  <2>4. QED
    BY <2>2, <2>3
<1>13. \A j \in Steps : (stepState[j] = "COMPLETED" <=> stepState'[j] = "COMPLETED")
                        /\ (stepState[j] = "FAILED" <=> stepState'[j] = "FAILED")
  BY <1>6, <1>7
<1>14. RecordsFit'
  BY <1>1, <1>4, <1>13, StageFacts, StepFacts DEF IInv, RecordsFit
<1>15. Decided'
  <2>1. \A s \in Stages : (SeedFailed(s)' <=> SeedFailed(s)) /\ (AheadBuilt(s)' <=> AheadBuilt(s))
                          /\ (AheadFailed(s)' <=> AheadFailed(s))
    BY <1>13, StageFacts, StepFacts, AheadFacts DEF SeedFailed, AheadBuilt, AheadFailed
  <2>2. Broken' = Broken
    BY <1>13, <2>1, StageFacts, StepFacts DEF Broken
  <2>3. \A s \in Stages : stepState'[Build(s)] = "FAILED" <=> stepState[Build(s)] = "FAILED"
    BY <1>13, StageFacts, StepFacts
  <2>4. QED
    BY <1>1, <1>4, <2>1, <2>2, <2>3 DEF IInv, Decided
<1>16. QED
  BY <1>8, <1>9, <1>10, <1>11, <1>12, <1>14, <1>15 DEF IInv

LEMMA CompleteKeeps == ASSUME BuildAssumption, IInv, NEW i \in DOMAIN threads, Complete(i) PROVE IInv'
<1> DEFINE k == threads[i].step
           a == threads[i].at
<1>1. /\ a \in {"COMPLETED", "FAILED"} /\ Go(i, "done")
      /\ UNCHANGED <<cancelEvent, seeds, built, record, previous, runnerUsed, reserved, spawned,
                     status, failedStages, canceled, ending, cursor, raised, listed, reports>>
      /\ IF k \in cancelEvent
         THEN stepState' = stepState /\ idle' = idle
         ELSE stepState' = [stepState EXCEPT ![k] = a] /\ idle' = idle + 1
  BY DEF Complete, heldVars, mainVars, endVars
<1>2. Running(i) /\ ~AllDone /\ "done" \in Places
  BY <1>1 DEF Running, AllDone, Places
<1>3. status # "SETUP" /\ ~(status = "IN_PROGRESS" /\ idle > 0) /\ (~canceled => status = "IN_PROGRESS")
      /\ status # "COMPLETED" /\ (~canceled => k \notin cancelEvent)
  <2>1. status # "SETUP"
    BY ThreadTypes DEF IInv, Phases
  <2>2. QED
    BY <1>2, <2>1 DEF IInv, OneToken, Ended, TypeOK, Phases
<1>4. /\ threads' \in Seq(ThreadSet) /\ DOMAIN threads' = DOMAIN threads /\ threads' # <<>>
      /\ threads'[i].step = k /\ threads'[i].at = "done"
      /\ \A j \in DOMAIN threads : j # i =>
           threads'[j] = threads[j] /\ threads[j].at = "done" /\ threads[j].step < k
      /\ threads # <<>> /\ Last = threads[i] /\ Last' = threads'[i]
      /\ StepsInOrder'
      /\ \A j : Threaded(j)' <=> Threaded(j)
      /\ Threaded(k)
  BY <1>1, <1>2, ThreadMoves DEF IInv, Ordered
<1>5. k \in Steps /\ k \in Nat /\ idle \in Nat
  BY ThreadTypes, StepFacts DEF IInv, TypeOK
<1>6. /\ ThreadFits(i) /\ stepState \in [Steps -> States] /\ stepState[k] # "COMPLETED"
      /\ ~canceled => stepState[k] = "IN_PROGRESS"
      /\ k \in Builds => record[StageOf(k)] \in Fitting(a)
  BY <1>1, <1>5 DEF IInv, ThreadsFit, ThreadFits, TypeOK, States
<1>7. /\ stepState'[k] = stepState[k] \/ stepState'[k] = a
      /\ ~canceled => stepState'[k] = a
      /\ stepState' \in [Steps -> States]
      /\ \A j \in Steps : j # k => stepState'[j] = stepState[j]
      /\ idle' \in Nat
  BY <1>1, <1>3, <1>5, <1>6 DEF States
<1>8. k \in Builds => (a = "COMPLETED" <=> record[StageOf(k)] = "COMPLETED")
                      /\ record[StageOf(k)] \in {"COMPLETED", "FAILED", "STOPPED"}
  BY <1>1, <1>6 DEF Fitting
<1> HIDE DEF k, a
<1>9. TypeOK'
  BY <1>1, <1>4, <1>7 DEF IInv, TypeOK, ThreadSet, Places, States
<1>10. AllDone'
  BY <1>4 DEF AllDone, Running
<1>11. Phases' /\ Ended'
  BY <1>1, <1>3 DEF IInv, Phases, Ended
<1>12. OneToken'
  <2>1. status = "IN_PROGRESS" => idle = 0
    BY <1>3, <1>5
  <2>2. QED
    BY <2>1, <1>1, <1>10 DEF OneToken
<1>13. Ordered'
  <2>1. stepState'[k] # "SCHEDULED"
    BY <1>1, <1>4, <1>5, <1>7 DEF IInv, Ordered, k, a
  <2>2. QED
    BY <1>1, <1>4, <1>7, <2>1 DEF IInv, Ordered, k, a
<1>14. ThreadsFit'
  <2>1. SUFFICES ASSUME NEW j \in DOMAIN threads PROVE ThreadFits(j)'
    BY <1>4 DEF ThreadsFit
  <2>2. ThreadFits(j)
    BY DEF IInv, ThreadsFit
  <2>3. CASE j # i
    <3>1. threads[j].step \in Steps /\ threads[j].step # k
      BY <2>3, <1>4, <1>5, ThreadTypes DEF IInv
    <3>2. QED
      BY <2>2, <2>3, <3>1, <1>1, <1>4, <1>7 DEF ThreadFits
  <2>4. CASE j = i
    BY <2>4, <1>1, <1>4, <1>7, <1>8 DEF ThreadFits, Fitting
  <2>5. QED
    BY <2>3, <2>4
<1>15. StatesFit'
  <2>1. SUFFICES ASSUME NEW j \in Steps
                 PROVE  /\ stepState'[j] = "COMPLETED" => Threaded(j)'
                        /\ stepState'[j] = "IN_PROGRESS" /\ ~canceled' =>
                             \E l \in DOMAIN threads' : threads'[l].step = j /\ Running(l)'
                        /\ stepState'[j] = "CANCELED" => j \in Cleanups
                        /\ j \in Builds /\ stepState'[j] = "COMPLETED" => record'[StageOf(j)] = "COMPLETED"
    BY DEF StatesFit
  <2>2. CASE j = k
    <3>1. stepState[k] = "CANCELED" => k \in Cleanups
      BY <1>5 DEF IInv, StatesFit
    <3>2. QED
      BY <2>2, <3>1, <1>1, <1>4, <1>6, <1>7, <1>8
  <2>3. CASE j # k
    <3>1. (\E l \in DOMAIN threads : threads[l].step = j /\ Running(l)) =>
            \E l \in DOMAIN threads' : threads'[l].step = j /\ Running(l)'
      BY <2>3, <1>4 DEF Running, k
    <3>2. QED
      BY <2>3, <3>1, <1>1, <1>4, <1>7 DEF IInv, StatesFit
  <2>4. QED
    BY <2>2, <2>3
<1>16. \A j \in Steps : (stepState[j] = "COMPLETED" => stepState'[j] = "COMPLETED")
  BY <1>6, <1>7
<1>17. RecordsFit'
  BY <1>1, <1>4, <1>16, StageFacts, StepFacts DEF IInv, RecordsFit
<1>18. Decided'
  <2>1. SUFFICES ASSUME ~canceled
                 PROVE  /\ failedStages \subseteq Broken'
                        /\ \A s \in Stages :
                             IF Threaded(Build(s)) THEN ~SeedFailed(s)' /\ AheadBuilt(s)'
                             ELSE stepState'[Build(s)] = "FAILED" => SeedFailed(s)' \/ AheadFailed(s)'
    BY <1>1, <1>4 DEF Decided
  <2>2. \A j \in Steps : stepState[j] = "FAILED" => stepState'[j] = "FAILED"
    BY <2>1, <1>6, <1>7
  <2>3. \A s \in Stages : (SeedFailed(s) => SeedFailed(s)') /\ (AheadBuilt(s) => AheadBuilt(s)')
                          /\ (AheadFailed(s) => AheadFailed(s)')
    BY <1>16, <2>2, StageFacts, StepFacts, AheadFacts DEF SeedFailed, AheadBuilt, AheadFailed
  <2>4. \A s \in Broken : s \in Broken'
    BY <2>2, <2>3, StageFacts, StepFacts DEF Broken
  <2>5. ASSUME NEW s \in Stages, Threaded(Build(s)) PROVE ~SeedFailed(s)'
    <3>1. PICK j \in DOMAIN threads : threads[j].step = Build(s)
      BY <2>5 DEF Threaded
    <3>2. Build(s) = k \/ Build(s) < k
      BY <3>1, <1>4 DEF k
    <3>3. ASSUME Download(s) \in Downloads PROVE Download(s) \in Steps /\ Download(s) # k
      <4>1. Download(s) < Build(s) /\ Download(s) \in Nat /\ Build(s) \in Nat /\ Download(s) \in Steps
        BY <3>3, StageFacts, StepFacts
      <4>2. QED
        BY <4>1, <3>2, <1>5
    <3>4. ~SeedFailed(s)
      BY <2>1, <2>5 DEF IInv, Decided
    <3>5. QED
      BY <3>3, <3>4, <1>7 DEF SeedFailed
  <2>6. ASSUME NEW s \in Stages, ~Threaded(Build(s)), stepState'[Build(s)] = "FAILED"
        PROVE  SeedFailed(s)' \/ AheadFailed(s)'
    <3>1. Build(s) # k /\ Build(s) \in Steps
      BY <2>6, <1>4, StageFacts, StepFacts
    <3>2. stepState[Build(s)] = "FAILED"
      BY <3>1, <2>6, <1>7
    <3>3. QED
      BY <3>2, <2>1, <2>3, <2>6 DEF IInv, Decided
  <2>7. \A s \in Stages : Threaded(Build(s)) => AheadBuilt(s)'
    BY <2>1, <2>3 DEF IInv, Decided
  <2>8. QED
    BY <2>1, <2>4, <2>5, <2>6, <2>7 DEF IInv, Decided
<1>19. QED
  BY <1>9, <1>11, <1>12, <1>13, <1>14, <1>15, <1>17, <1>18 DEF IInv

LEMMA RemoveKeeps == ASSUME BuildAssumption, IInv, NEW i \in DOMAIN threads, RemovePrevious(i) PROVE IInv'
<1> DEFINE k == threads[i].step
           s == StageOf(k)
<1>1. /\ threads[i].at = "started" /\ k \in Cleanups
      /\ UNCHANGED <<cancelEvent, idle, seeds, built, record, runnerUsed, reserved, spawned,
                     status, failedStages, canceled, ending, cursor, raised, listed, reports>>
      /\ \/ /\ k \in cancelEvent \/ canceled
            /\ stepState' = [stepState EXCEPT ![k] = "CANCELED"]
            /\ Go(i, "done") /\ previous' = previous
         \/ /\ stepState[Build(s)] = "COMPLETED"
            /\ previous' = previous \ {s} /\ Go(i, "COMPLETED") /\ stepState' = stepState
         \/ Go(i, "COMPLETED") /\ previous' = previous /\ stepState' = stepState
  BY DEF RemovePrevious, StepAt, mainVars, endVars
<1>2. s \in Stages /\ k \in Steps /\ k \in Nat /\ k \notin Builds
  BY <1>1, StageFacts, StepFacts
<1>3. CASE Go(i, "COMPLETED") /\ stepState' = stepState
           /\ (previous' = previous \/ (stepState[Build(s)] = "COMPLETED" /\ previous' = previous \ {s}))
  <2>1. Goes(i, "COMPLETED")
    BY <1>1, <1>3 DEF Goes, IInv, TypeOK
  <2>2. GoesOutside(i, "COMPLETED")
    BY <2>1, <1>1, <1>2, <1>3 DEF GoesOutside
  <2>3. QED
    BY <2>2, OutsideKeeps
<1>4. CASE /\ k \in cancelEvent \/ canceled
           /\ stepState' = [stepState EXCEPT ![k] = "CANCELED"]
           /\ Go(i, "done") /\ previous' = previous
  <2>1. Running(i) /\ "done" \in Places
    BY <1>1 DEF Running, Places
  <2>2. canceled /\ status # "COMPLETED" /\ status \notin {"SETUP", "IN_PROGRESS"}
    BY <1>4 DEF IInv, Phases
  <2>3. /\ threads' \in Seq(ThreadSet) /\ DOMAIN threads' = DOMAIN threads /\ threads' # <<>>
        /\ threads'[i].step = k /\ threads'[i].at = "done"
        /\ \A j \in DOMAIN threads : j # i =>
             threads'[j] = threads[j] /\ threads[j].at = "done" /\ threads[j].step < k
        /\ threads # <<>> /\ Last = threads[i] /\ Last' = threads'[i]
        /\ StepsInOrder'
        /\ \A j : Threaded(j)' <=> Threaded(j)
    BY <1>4, <2>1, ThreadMoves DEF IInv, Ordered
  <2>4. stepState \in [Steps -> States] /\ stepState[k] # "COMPLETED"
    BY <1>1 DEF IInv, TypeOK, States, ThreadsFit, ThreadFits
  <2>5. /\ stepState' \in [Steps -> States] /\ stepState'[k] = "CANCELED"
        /\ \A j \in Steps : j # k => stepState'[j] = stepState[j]
    BY <1>2, <1>4, <2>4 DEF States
  <2> HIDE DEF k, s
  <2>6. TypeOK'
    BY <1>1, <1>4, <2>3, <2>5 DEF IInv, TypeOK, ThreadSet, Places, States
  <2>7. Phases' /\ OneToken' /\ Ended' /\ Decided'
    BY <1>1, <2>2 DEF IInv, Phases, OneToken, Ended, Decided
  <2>8. Ordered'
    BY <1>1, <2>3, <2>5 DEF IInv, Ordered, k
  <2>9. ThreadsFit'
    <3>1. SUFFICES ASSUME NEW j \in DOMAIN threads PROVE ThreadFits(j)'
      BY <2>3 DEF ThreadsFit
    <3>2. CASE j # i
      <4>1. threads[j].step \in Steps /\ threads[j].step # k /\ ThreadFits(j)
        BY <3>2, <1>2, <2>3, ThreadTypes DEF IInv, ThreadsFit
      <4>2. QED
        BY <3>2, <4>1, <1>1, <2>3, <2>5 DEF ThreadFits
    <3>3. CASE j = i
      BY <3>3, <1>1, <1>2, <2>2, <2>3 DEF ThreadFits
    <3>4. QED
      BY <3>2, <3>3
  <2>10. \A j \in Steps : (stepState[j] = "COMPLETED" <=> stepState'[j] = "COMPLETED")
    BY <2>4, <2>5
  <2>11. StatesFit'
    BY <1>1, <2>2, <2>3, <2>5, <2>10 DEF IInv, StatesFit
  <2>12. RecordsFit'
    BY <1>1, <1>4, <2>3, <2>10, StageFacts, StepFacts DEF IInv, RecordsFit
  <2>13. QED
    BY <2>6, <2>7, <2>8, <2>9, <2>11, <2>12 DEF IInv
<1>5. QED
  BY <1>1, <1>3, <1>4

LEMMA ThreadKeeps ==
  ASSUME BuildAssumption, IInv, ~CommandRaises, NEW i \in DOMAIN threads, ThreadStep(i)
  PROVE  IInv'
<1>1. CASE StepStart(i)
  BY <1>1, StepStartKeeps
<1>2. CASE Complete(i)
  BY <1>2, CompleteKeeps
<1>3. CASE \/ StepFails(i) \/ TakeRunner(i) \/ ReleaseRunner(i) \/ ReserveToolset(i) \/ SpawnToolset(i)
           \/ SnapshotFetched(i) \/ SeedDownloaded(i)
  BY <1>3, PassingKeeps
<1>4. CASE BuildBegin(i) \/ BuildSucceeds(i) \/ CommandFails(i) \/ BuildBroken(i)
  BY <1>4, BuildStepKeeps
<1>5. CASE RemovePrevious(i)
  BY <1>5, RemoveKeeps
<1>6. QED
  BY <1>1, <1>2, <1>3, <1>4, <1>5 DEF ThreadStep

LEMMA StutterKeeps == ASSUME IInv, UNCHANGED vars PROVE IInv'
<1>1. UNCHANGED <<status, stepState, cancelEvent, threads, idle, failedStages, seeds, built, record, previous,
                  runnerUsed, reserved, spawned, canceled, ending, cursor, raised, listed, reports>>
  BY DEF vars, heldVars, endVars
<1>2. TypeOK' /\ OneToken'
  BY <1>1 DEF IInv, TypeOK, OneToken, AllDone, Running
<1>3. Phases' /\ Ordered' /\ ThreadsFit'
  BY <1>1 DEF IInv, Phases, Ordered, StepsInOrder, Running, Last, ThreadsFit, ThreadFits
<1>4. StatesFit' /\ RecordsFit'
  BY <1>1 DEF IInv, StatesFit, RecordsFit, Threaded, Running
<1>5. Ended' /\ Decided'
  BY <1>1 DEF IInv, Ended, AllDone, Running, Decided, Broken, SeedFailed, AheadBuilt, AheadFailed, Threaded
<1>6. QED
  BY <1>2, <1>3, <1>4, <1>5 DEF IInv

\* A step of a thread moves the thread, and changes at most the state of its
\* step.
LEMMA ThreadStepFacts ==
  ASSUME BuildAssumption, IInv, NEW i \in DOMAIN threads, ThreadStep(i)
  PROVE  /\ Running(i) /\ \E w \in Places : Go(i, w)
         /\ \A k \in Steps : k # threads[i].step => stepState'[k] = stepState[k]
         /\ status' = status
<1>1. /\ Running(i) /\ \E w \in Places : Go(i, w)
      /\ stepState' = stepState \/ \E to : stepState' = [stepState EXCEPT ![threads[i].step] = to]
      /\ status' = status
  <2>1. CASE StepStart(i) \/ StepFails(i) \/ Complete(i) \/ CommandFails(i) \/ RemovePrevious(i)
    BY <2>1 DEF StepStart, StepFails, Complete, CommandFails, RemovePrevious, StepAt, Running, Places, heldVars, mainVars
  <2>2. CASE \/ TakeRunner(i) \/ ReleaseRunner(i) \/ ReserveToolset(i) \/ SpawnToolset(i)
             \/ SnapshotFetched(i) \/ SeedDownloaded(i)
    BY <2>2 DEF TakeRunner, ReleaseRunner, ReserveToolset, SpawnToolset, SnapshotFetched, SeedDownloaded,
                StepAt, Running, Places, mainVars
  <2>3. CASE BuildBegin(i) \/ BuildSucceeds(i) \/ BuildBroken(i)
    BY <2>3 DEF BuildBegin, BuildSucceeds, BuildBroken, StepAt, Running, Places, mainVars
  <2>4. QED
    BY <2>1, <2>2, <2>3 DEF ThreadStep
<1>2. stepState \in [Steps -> States]
  BY DEF IInv, TypeOK, States
<1>3. QED
  BY <1>1, <1>2

LEMMA LookedAtKeeps == ASSUME BuildAssumption, IInv, LookedAt, [Next]_vars PROVE LookedAt'
<1>1. SUFFICES ASSUME status' = "IN_PROGRESS"
               PROVE  \A k \in Steps : stepState'[k] # "SCHEDULED" => threads' # <<>> /\ k <= Last'.step
  BY DEF LookedAt
<1>2. CASE Start
  BY <1>2 DEF Start, IInv, Phases
<1>3. CASE Cancel \/ ContinueFinish
  BY <1>1, <1>3 DEF Cancel, ContinueFinish
<1>4. CASE ContinueEnded
  BY <1>1, <1>4 DEF ContinueEnded
<1>5. CASE CleanupStep \/ CleanupRaises \/ Finish
  <2>1. ending # "no" /\ status' = status
    BY <1>5 DEF CleanupStep, CleanupRaises, Finish
  <2>2. QED
    BY <1>1, <2>1 DEF IInv, Phases
<1>6. CASE ContinueSpawn
  <2>1. PICK k \in Steps :
          /\ Runnable(k) /\ PassOver({j \in Steps : j < k /\ Scheduled(j)})
          /\ threads' = Append(threads, [step |-> k, at |-> "spawned"])
    BY <1>6 DEF ContinueSpawn
  <2>2. /\ threads \in Seq(ThreadSet) /\ Len(threads) \in Nat /\ [step |-> k, at |-> "spawned"] \in ThreadSet
        /\ threads # <<>> <=> Len(threads) > 0
        /\ threads # <<>> => Len(threads) \in DOMAIN threads
        /\ \A i \in DOMAIN threads : threads[i].step \in Steps
    BY ThreadTypes DEF IInv, ThreadSet, Places
  <2>3. threads' # <<>> /\ Last' = [step |-> k, at |-> "spawned"]
    BY <2>1, <2>2 DEF Last
  <2>4. AllDone
    BY <1>6, NothingRuns DEF ContinueSpawn
  <2>5. threads # <<>> => Last.step \in Nat /\ ~(k <= Last.step)
    <3>1. SUFFICES ASSUME threads # <<>> PROVE Last.step \in Nat /\ ~(k <= Last.step)
      OBVIOUS
    <3>2. Last.step \in Nat /\ Last.at = "done"
      BY <3>1, <2>2, <2>4, StepFacts DEF Last, AllDone, Running
    <3>3. QED
      BY <3>1, <3>2, <2>1 DEF IInv, Ordered, Runnable, Scheduled
  <2>6. ASSUME NEW j \in Steps, stepState'[j] # "SCHEDULED" PROVE j <= k
    <3>1. j \in Nat /\ k \in Nat /\ (j < k \/ stepState'[j] = stepState[j])
      BY <2>1, StepFacts DEF PassOver
    <3>2. CASE stepState'[j] = stepState[j]
      <4>1. threads # <<>> /\ j <= Last.step
        BY <3>2, <2>6, <1>6 DEF LookedAt, ContinueSpawn
      <4>2. QED
        BY <4>1, <2>5, <3>1
    <3>3. QED
      BY <3>1, <3>2
  <2>7. QED
    BY <2>3, <2>6
<1>7. ASSUME NEW i \in DOMAIN threads, ThreadStep(i)
      PROVE  \A k \in Steps : stepState'[k] # "SCHEDULED" => threads' # <<>> /\ k <= Last'.step
  <2>1. PICK w \in Places : Go(i, w)
    BY <1>7, ThreadStepFacts
  <2>2. Running(i) /\ status' = status /\ \A k \in Steps : k # threads[i].step => stepState'[k] = stepState[k]
    BY <1>7, ThreadStepFacts
  <2>3. threads' # <<>> /\ Last = threads[i] /\ Last' = threads'[i] /\ threads'[i].step = threads[i].step
    BY <2>1, <2>2, ThreadMoves DEF IInv, Ordered
  <2>4. threads[i].step \in Nat
    BY ThreadTypes, StepFacts DEF IInv
  <2>5. QED
    BY <1>1, <2>2, <2>3, <2>4 DEF LookedAt
<1>8. CASE UNCHANGED vars
  BY <1>1, <1>8 DEF LookedAt, vars, Last
<1>9. QED
  BY <1>2, <1>3, <1>4, <1>5, <1>6, <1>7, <1>8 DEF Next, MainStep

LEMMA RunnerStoppedKeeps == ASSUME BuildAssumption, IInv, RunnerStopped, [Next]_vars PROVE RunnerStopped'
<1>0. StopRunner \in Steps /\ StopRunner # PrepareRunner /\ PrepareRunner \in Steps /\ PrepareRunner < StopRunner
      /\ StopRunner \notin Cleanups /\ stepState \in [Steps -> States]
  BY StepFacts DEF PrepareRunner, PrepareToolset, IInv, TypeOK, States
<1>1. CASE Start \/ ContinueEnded \/ Finish \/ UNCHANGED vars
  BY <1>1 DEF Start, ContinueEnded, Finish, vars, heldVars, RunnerStopped
<1>2. CASE Cancel \/ CleanupStep \/ CleanupRaises
  <2>1. threads' = threads /\ (runnerUsed' => runnerUsed)
    <3>1. CASE Cancel \/ CleanupRaises
      <4>1. UNCHANGED <<threads, runnerUsed>>
        BY <3>1 DEF Cancel, CleanupRaises, heldVars
      <4>2. QED
        BY <4>1
    <3>2. CASE CleanupStep
      <4>1. threads' = threads /\ (runnerUsed' = runnerUsed \/ runnerUsed' = FALSE)
        BY <3>2 DEF CleanupStep
      <4>2. QED
        BY <4>1
    <3>3. QED
      BY <1>2, <3>1, <3>2
  <2>2. stepState'[StopRunner] = "COMPLETED" => stepState[StopRunner] = "COMPLETED"
    BY <1>0, <1>2 DEF Cancel, CleanupStep, CleanupRaises, CancelEffect
  <2>3. QED
    BY <2>1, <2>2 DEF RunnerStopped
<1>3. CASE ContinueFinish
  <2>1. threads' = threads /\ runnerUsed' = runnerUsed
        /\ (stepState'[StopRunner] = "COMPLETED" => stepState[StopRunner] = "COMPLETED")
    BY <1>0, <1>3 DEF ContinueFinish, PassOver, heldVars
  <2>2. QED
    BY <2>1 DEF RunnerStopped
<1>4. CASE ContinueSpawn
  <2>1. PICK k \in Steps :
          /\ Runnable(k) /\ PassOver({j \in Steps : j < k /\ Scheduled(j)})
          /\ threads' = Append(threads, [step |-> k, at |-> "spawned"])
    BY <1>4 DEF ContinueSpawn
  <2>2. runnerUsed' = runnerUsed /\ (stepState'[StopRunner] = "COMPLETED" => stepState[StopRunner] = "COMPLETED")
    BY <1>0, <1>4, <2>1 DEF ContinueSpawn, PassOver, heldVars
  <2>3. threads \in Seq(ThreadSet) /\ [step |-> k, at |-> "spawned"] \in ThreadSet
    BY ThreadTypes DEF IInv, ThreadSet, Places
  <2>4. ASSUME NEW i \in DOMAIN threads', threads'[i].step = StopRunner,
               threads'[i].at = "COMPLETED" \/ stepState'[StopRunner] = "COMPLETED"
        PROVE  ~runnerUsed'
    <3>1. CASE i \in DOMAIN threads
      <4>1. threads'[i] = threads[i]
        BY <3>1, <2>1, <2>3
      <4>2. QED
        BY <3>1, <4>1, <2>2, <2>4 DEF RunnerStopped
    <3>2. CASE i \notin DOMAIN threads
      <4>1. threads'[i] = [step |-> k, at |-> "spawned"]
        BY <3>2, <2>1, <2>3, <2>4
      <4>2. k = StopRunner /\ stepState[StopRunner] = "COMPLETED"
        BY <4>1, <2>2, <2>4
      <4>3. QED
        BY <4>2, <2>1 DEF Runnable, Scheduled
    <3>3. QED
      BY <3>1, <3>2
  <2>5. QED
    BY <2>4 DEF RunnerStopped
<1>5. ASSUME NEW i \in DOMAIN threads, ThreadStep(i) PROVE RunnerStopped'
  <2>1. PICK w \in Places : Go(i, w)
    BY <1>5, ThreadStepFacts
  <2>2. Running(i) /\ \A k \in Steps : k # threads[i].step => stepState'[k] = stepState[k]
    BY <1>5, ThreadStepFacts
  <2>3. /\ DOMAIN threads' = DOMAIN threads
        /\ threads'[i].step = threads[i].step /\ threads'[i].at = w
        /\ \A j \in DOMAIN threads : j # i =>
             threads'[j] = threads[j] /\ threads[j].at = "done" /\ threads[j].step < threads[i].step
    BY <2>1, <2>2, ThreadMoves DEF IInv, Ordered
  <2>4. threads[i].step \in Steps /\ \A k \in Steps : k <= StopRunner /\ k \in Nat
    BY ThreadTypes, StepFacts DEF IInv
  <2>5. CASE threads[i].step # StopRunner
    <3>1. \A j \in DOMAIN threads : threads[j].step # StopRunner
      BY <2>3, <2>4, <2>5, <1>0
    <3>2. QED
      BY <2>3, <3>1 DEF RunnerStopped
  <2>6. CASE threads[i].step = StopRunner
    <3>1. SUFFICES ASSUME w = "COMPLETED" \/ stepState'[StopRunner] = "COMPLETED" PROVE ~runnerUsed'
      <4>1. \A j \in DOMAIN threads : j # i => threads'[j].step # StopRunner
        BY <2>3, <2>4, <2>6, <1>0
      <4>2. QED
        BY <2>3, <2>6, <3>1, <4>1 DEF RunnerStopped
    <3>2. ThreadFits(i)
      BY DEF IInv, ThreadsFit
    <3>3. StopRunner \notin Builds \cup Downloads \cup Cleanups \cup {PrepareRunner, PrepareToolset, Snapshot}
      BY StepFacts DEF PrepareToolset, PrepareRunner, Snapshot, StopRunner, BuildAssumption
    <3>4. ASSUME NEW v \in Places, Go(i, v) PROVE v = w
      BY <3>4, <2>2, <2>3, ThreadMoves DEF IInv, Ordered
    <3>5. CASE ReleaseRunner(i)
      BY <3>5 DEF ReleaseRunner
    <3>6. CASE StepStart(i)
      <4>1. Go(i, "started") /\ stepState' = [stepState EXCEPT ![StopRunner] = "IN_PROGRESS"]
        BY <3>6, <2>6 DEF StepStart
      <4>2. w = "started"
        BY <4>1, <3>4 DEF Places
      <4>3. QED
        BY <4>1, <4>2, <3>1, <1>0
    <3>7. CASE StepFails(i)
      <4>1. stepState' = stepState /\ threads[i].at # "done" /\ Go(i, "FAILED")
        BY <3>7 DEF StepFails, StepAt
      <4>2. w = "FAILED"
        BY <4>1, <3>4 DEF Places
      <4>3. QED
        BY <4>1, <4>2, <3>1, <3>2, <2>6 DEF ThreadFits
    <3>8. CASE Complete(i)
      <4>1. /\ threads[i].at \in {"COMPLETED", "FAILED"} /\ runnerUsed' = runnerUsed /\ w = "done"
            /\ stepState' = stepState \/ stepState' = [stepState EXCEPT ![StopRunner] = threads[i].at]
        <5>1. Go(i, "done")
          BY <3>8 DEF Complete
        <5>2. w = "done"
          BY <5>1, <3>4 DEF Places
        <5>3. QED
          BY <3>8, <5>2, <2>6 DEF Complete, heldVars
      <4>2. stepState[StopRunner] # "COMPLETED"
        BY <4>1, <3>2, <2>6 DEF ThreadFits
      <4>3. threads[i].at = "COMPLETED"
        BY <4>1, <4>2, <3>1, <1>0
      <4>4. QED
        BY <4>1, <4>3, <2>6 DEF RunnerStopped
    <3>9. ~(\/ TakeRunner(i) \/ ReserveToolset(i) \/ SpawnToolset(i) \/ SnapshotFetched(i) \/ SeedDownloaded(i)
            \/ BuildBegin(i) \/ BuildSucceeds(i) \/ CommandFails(i) \/ BuildBroken(i) \/ RemovePrevious(i))
      BY <3>2, <3>3, <2>6 DEF TakeRunner, ReserveToolset, SpawnToolset, SnapshotFetched, SeedDownloaded,
         BuildBegin, BuildSucceeds, CommandFails, BuildBroken, RemovePrevious, StepAt, ThreadFits
    <3>10. QED
      BY <1>5, <3>5, <3>6, <3>7, <3>8, <3>9 DEF ThreadStep
  <2>7. QED
    BY <2>5, <2>6
<1>6. QED
  BY <1>1, <1>2, <1>3, <1>4, <1>5 DEF Next, MainStep

\* The invariant the other theorems follow from.
THEOREM Invariance ==
  ASSUME BuildAssumption, ~CommandRaises PROVE Init /\ [][Next]_vars => [](IInv /\ RunnerStopped)
<1>1. Init => IInv /\ LookedAt /\ RunnerStopped
  BY Initially DEF Init, LookedAt, RunnerStopped
<1>2. IInv /\ LookedAt /\ [Next]_vars => IInv'
  <2>1. SUFFICES ASSUME IInv, LookedAt, [Next]_vars PROVE IInv'
    OBVIOUS
  <2>2. CASE Start
    BY <2>1, <2>2, StartKeeps
  <2>3. CASE Cancel
    BY <2>1, <2>3, CancelKeeps
  <2>4. CASE MainStep
    BY <2>1, <2>4, ContinueEndedKeeps, SpawnKeeps, FinishedKeeps, CleanupKeeps, CleanupRaisesKeeps, FinishKeeps DEF MainStep
  <2>5. CASE \E i \in DOMAIN threads : ThreadStep(i)
    BY <2>1, <2>5, ThreadKeeps
  <2>6. CASE UNCHANGED vars
    BY <2>1, <2>6, StutterKeeps
  <2>7. QED
    BY <2>1, <2>2, <2>3, <2>4, <2>5, <2>6 DEF Next
<1>3. IInv /\ LookedAt /\ RunnerStopped /\ [Next]_vars => LookedAt' /\ RunnerStopped'
  BY LookedAtKeeps, RunnerStoppedKeeps
<1>4. QED
  BY <1>1, <1>2, <1>3, PTL

-----------------------------------------------------------------------------
(* What follows.                                                           *)

LEMMA OrderlyOfInvariant ==
  ASSUME BuildAssumption, IInv, RunnerStopped
  PROVE  StepsInOrder /\ SuccessMeansBuilt /\ HeldWhileRunning
<1>1. StepsInOrder
  BY DEF IInv, Ordered
<1>2. SuccessMeansBuilt
  <2>1. SUFFICES ASSUME NEW n \in DOMAIN reports, reports[n] = "success"
                 PROVE  ~canceled /\ \A s \in Stages : record[s] = "COMPLETED"
    BY DEF SuccessMeansBuilt
  <2>2. status = "COMPLETED" /\ ~canceled
    BY <2>1 DEF IInv, Phases
  <2>3. \A s \in Stages : stepState[Build(s)] = "COMPLETED"
    BY <2>2 DEF IInv, Ended
  <2>4. QED
    BY <2>2, <2>3, StageFacts, StepFacts DEF IInv, StatesFit
<1>3. HeldWhileRunning
  <2>1. SUFFICES ASSUME reports # <<>>
                 PROVE  /\ ~canceled /\ ~raised => ~reserved /\ ~spawned /\ ~runnerUsed
                        /\ reports[1] = "success" => ~runnerUsed
    BY DEF HeldWhileRunning
  <2>2. ~canceled /\ ~raised => ~reserved /\ ~spawned /\ ~runnerUsed
    <3>1. SUFFICES ASSUME ~canceled, ~raised PROVE ~reserved /\ ~spawned /\ ~runnerUsed
      OBVIOUS
    <3>2. status \in {"COMPLETED", "FAILED"} /\ ending = "no"
      BY <2>1, <3>1 DEF IInv, Phases, TypeOK
    <3>3. QED
      BY <3>1, <3>2 DEF IInv, Ended
  <2>3. ASSUME reports[1] = "success" PROVE ~runnerUsed
    <3>1. 1 \in DOMAIN reports
      BY <2>1 DEF IInv, TypeOK
    <3>2. status = "COMPLETED"
      BY <2>3, <3>1 DEF IInv, Phases
    <3>3. stepState[StopRunner] = "COMPLETED" /\ StopRunner \in Steps
      BY <3>2, StepFacts DEF IInv, Ended
    <3>4. PICK i \in DOMAIN threads : threads[i].step = StopRunner
      BY <3>3 DEF IInv, StatesFit, Threaded
    <3>5. QED
      BY <3>3, <3>4 DEF RunnerStopped
  <2>4. QED
    BY <2>2, <2>3
<1>4. QED
  BY <1>1, <1>2, <1>3

LEMMA UsableOfInvariant == ASSUME BuildAssumption, IInv PROVE UsableBuildKept
<1>1. ASSUME NEW s \in HasPrevious, s \notin previous PROVE record[s] = "COMPLETED"
  <2>1. s \in Stages /\ Build(s) \in Builds /\ Build(s) \in Steps /\ StageOf(Build(s)) = s
    BY StageFacts, StepFacts DEF BuildAssumption
  <2>2. stepState[Build(s)] = "COMPLETED"
    BY <1>1, <2>1 DEF IInv, RecordsFit
  <2>3. QED
    BY <2>1, <2>2 DEF IInv, StatesFit
<1>2. QED
  BY <1>1 DEF UsableBuildKept

LEMMA ContainedOfInvariant == ASSUME BuildAssumption, IInv PROVE OnlyDependentsSkipped /\ RecordsClosed
<1>1. SUFFICES ASSUME Quiet PROVE OnlyDependentsSkipped /\ RecordsClosed
  BY DEF OnlyDependentsSkipped, RecordsClosed
<1>2. AllDone /\ reports # <<>> /\ status \notin {"SETUP", "IN_PROGRESS"} /\ status \in {"COMPLETED", "FAILED"}
  BY <1>1 DEF Quiet, AllDone, IInv, Phases, TypeOK
<1>3. ASSUME NEW s \in Stages
      PROVE  /\ Threaded(Build(s)) => record[s] \in {"COMPLETED", "FAILED", "STOPPED"}
             /\ ~Threaded(Build(s)) => record[s] \in {"SKIPPED", "CANCELED"}
  <2>1. ASSUME Threaded(Build(s)) PROVE record[s] \in {"COMPLETED", "FAILED", "STOPPED"}
    <3>1. PICK i \in DOMAIN threads : threads[i].step = Build(s)
      BY <2>1 DEF Threaded
    <3>2. ThreadFits(i) /\ threads[i].at = "done"
      BY <1>2 DEF IInv, ThreadsFit, AllDone, Running
    <3>3. QED
      BY <3>1, <3>2, StageFacts DEF ThreadFits, Fitting
  <2>2. ASSUME ~Threaded(Build(s)) PROVE record[s] \in {"SKIPPED", "CANCELED"}
    BY <1>2, <2>2 DEF IInv, RecordsFit, Phases
  <2>3. QED
    BY <2>1, <2>2
<1>4. RecordsClosed
  BY <1>3 DEF RecordsClosed
<1>5. ASSUME ~canceled, NEW s \in Stages
      PROVE  /\ record[s] \in {"COMPLETED", "FAILED", "SKIPPED"}
             /\ record[s] = "SKIPPED" <=> ~Threaded(Build(s))
             /\ record[s] = "COMPLETED" <=> stepState[Build(s)] = "COMPLETED"
             /\ ~Threaded(Build(s)) => stepState[Build(s)] = "FAILED"
  <2>1. /\ record[s] \in {"COMPLETED", "FAILED", "SKIPPED"}
        /\ record[s] = "SKIPPED" <=> ~Threaded(Build(s))
    BY <1>3, <1>5 DEF IInv, RecordsFit
  <2>2. Build(s) \in Steps /\ Build(s) \in Builds /\ StageOf(Build(s)) = s /\ Build(s) \notin Cleanups
    BY StageFacts, StepFacts
  <2>3. stepState[Build(s)] = "COMPLETED" => record[s] = "COMPLETED"
    BY <2>2 DEF IInv, StatesFit
  <2>4. Threaded(Build(s)) /\ record[s] = "COMPLETED" => stepState[Build(s)] = "COMPLETED"
    <3>1. SUFFICES ASSUME Threaded(Build(s)), record[s] = "COMPLETED" PROVE stepState[Build(s)] = "COMPLETED"
      OBVIOUS
    <3>2. PICK i \in DOMAIN threads : threads[i].step = Build(s)
      BY <3>1 DEF Threaded
    <3>3. ThreadFits(i) /\ threads[i].at = "done"
      BY <1>2 DEF IInv, ThreadsFit, AllDone, Running
    <3>4. QED
      BY <1>5, <2>2, <3>1, <3>2, <3>3 DEF ThreadFits
  <2>5. ~Threaded(Build(s)) => stepState[Build(s)] = "FAILED"
    <3>1. stepState[Build(s)] \in States /\ stepState[Build(s)] # "SCHEDULED" /\ stepState[Build(s)] # "CANCELED"
      BY <1>2, <1>5, <2>2 DEF IInv, TypeOK, States, Ended, StatesFit
    <3>2. ~Threaded(Build(s)) => stepState[Build(s)] \notin {"IN_PROGRESS", "COMPLETED"}
      BY <1>5, <2>2 DEF IInv, StatesFit, Threaded
    <3>3. QED
      BY <3>1, <3>2 DEF States
  <2>6. QED
    BY <2>1, <2>3, <2>4, <2>5
<1>6. OnlyDependentsSkipped
  <2>1. SUFFICES ASSUME ~canceled, NEW s \in Stages
                 PROVE  /\ record[s] \in {"COMPLETED", "FAILED", "SKIPPED"}
                        /\ record[s] = "SKIPPED" <=>
                             SeedFailed(s) \/ \E r \in Lineage[s] : r < s /\ record[r] # "COMPLETED"
    BY DEF OnlyDependentsSkipped
  <2>2. \A r : r \in Ahead(s) <=> r \in Lineage[s] /\ r < s
    BY DEF Ahead
  <2>2a. \A r \in Ahead(s) : r \in Stages
    BY AheadFacts
  <2>3. CASE Threaded(Build(s))
    <3>1. ~SeedFailed(s) /\ AheadBuilt(s)
      BY <2>1, <2>3 DEF IInv, Decided
    <3>2. QED
      BY <2>1, <2>2, <2>2a, <2>3, <3>1, <1>5 DEF AheadBuilt
  <2>4. CASE ~Threaded(Build(s))
    <3>1. SeedFailed(s) \/ AheadFailed(s)
      BY <2>1, <2>4, <1>5 DEF IInv, Decided
    <3>2. AheadFailed(s) => \E r \in Lineage[s] : r < s /\ record[r] # "COMPLETED"
      BY <2>1, <2>2, <2>2a, <1>5 DEF AheadFailed
    <3>3. record[s] = "SKIPPED" /\ record[s] \in {"COMPLETED", "FAILED", "SKIPPED"}
      BY <2>1, <2>4, <1>5
    <3>4. QED
      BY <3>1, <3>2, <3>3
  <2>5. QED
    BY <2>3, <2>4
<1>7. QED
  BY <1>4, <1>6

LEMMA BuildOfSpec == MCSpec => Init /\ [][Next]_vars
<1>1. MCInit => Init
  BY DEF MCInit
<1>2. [MCNext]_mcvars => [Next]_vars
  BY DEF MCNext, mcvars
<1>3. QED
  BY <1>1, <1>2, PTL DEF MCSpec

LEMMA InvariantOfSpec == ASSUME ~CommandRaises PROVE MCSpec => [](IInv /\ RunnerStopped)
<1>1. BuildAssumption
  BY RunAssumption
<1>2. Init /\ [][Next]_vars => [](IInv /\ RunnerStopped)
  BY <1>1, Invariance
<1>3. QED
  BY <1>2, BuildOfSpec, PTL

\* The types of the fields of a build and its steps.
THEOREM TypeCorrect == ASSUME ~CommandRaises PROVE MCSpec => []TypeOK
<1>1. IInv => TypeOK
  BY DEF IInv
<1>2. QED
  BY <1>1, InvariantOfSpec, PTL

\* _continue_process() starts steps one after another and in order, success is
\* reported when every stage was built, with the runner released; and a build
\* nobody canceled gives back all it holds before it reports, if no cleanup()
\* raised.
THEOREM BuildIsOrderly == ASSUME ~CommandRaises PROVE MCSpec => []RunIsOrderly
<1>1. IInv /\ RunnerStopped => RunIsOrderly
  BY RunAssumption, OrderlyOfInvariant DEF RunIsOrderly
<1>2. QED
  BY <1>1, InvariantOfSpec, PTL

\* ProjectBuildStepCleanupPreviousBuilds removes the older builds of a stage
\* only when this build's is complete and recorded, whatever is canceled.
THEOREM UsableBuildStays == ASSUME ~CommandRaises PROVE MCSpec => []UsableBuildKept
<1>1. IInv => UsableBuildKept
  BY RunAssumption, UsableOfInvariant
<1>2. QED
  BY <1>1, InvariantOfSpec, PTL

\* is_blocked() skips the stages which have a failed one before them up their
\* parents, reused ones included, and no others, and complete_process() and the
\* threads leave no record open.
THEOREM FailureStaysContained == ASSUME ~CommandRaises PROVE MCSpec => []FailureContained
<1>1. IInv => FailureContained
  BY RunAssumption, ContainedOfInvariant DEF FailureContained
<1>2. QED
  BY <1>1, InvariantOfSpec, PTL

-----------------------------------------------------------------------------
(* The plan.                                                               *)

LEMMA PlanSize == PlanStages \in Nat
BY RunAssumption DEF Plan!PlanAssumption

LEMMA PlanOfSpec == MCSpec => Plan!Init /\ [][Plan!Step]_(Plan!vars)
<1>1. MCInit => Plan!Init
  BY DEF MCInit
<1>2. [MCNext]_mcvars => [Plan!Step]_(Plan!vars)
  BY DEF MCNext, mcvars, planVars, Plan!vars, Plan!inputVars, Plan!resolveVars, Plan!orderVars
<1>3. QED
  BY <1>1, <1>2, PTL DEF MCSpec

Modes == {"NONE", "BUILD", "REQUIRED", "REUSE"}

InputsOK ==
  /\ parent \in [Plan!Stages -> 0 .. PlanStages]
  /\ usable \subseteq Plan!Stages /\ selected \subseteq Plan!Stages
ResolveOK ==
  /\ todo \subseteq selected
  /\ current \in {0} \cup Plan!Stages /\ stage \in {0} \cup Plan!Stages /\ (current = 0 <=> stage = 0)
  /\ visited \subseteq Plan!Stages
  /\ mode \in [Plan!Stages -> Modes]
  /\ requiredBy \in [Plan!Stages -> SUBSET Plan!Stages]
OrderOK ==
  /\ phase \in {"resolve", "order", "done", "cycle"}
  /\ entry \in 1 .. PlanStages + 1
  /\ stack \in Seq(Plan!Stages) /\ added \subseteq Plan!Stages /\ order \in Seq(Plan!Stages)

LEMMA PlanTypeParts == Plan!TypeOK <=> InputsOK /\ ResolveOK /\ OrderOK
BY DEF Plan!TypeOK, InputsOK, ResolveOK, OrderOK, Modes

LEMMA StagesPositive == 0 \notin Plan!Stages /\ Plan!Stages \subseteq Nat
BY PlanSize DEF Plan!Stages

\* The last stage of a stack, and the stack without it.
LEMMA StackTop ==
  ASSUME stack \in Seq(Plan!Stages), stack # <<>>
  PROVE  /\ Len(stack) \in Nat /\ Len(stack) > 0
         /\ Plan!Top \in Plan!Stages /\ Plan!Visiting(Plan!Top)
         /\ SubSeq(stack, 1, Len(stack) - 1) \in Seq(Plan!Stages)
         /\ Len(SubSeq(stack, 1, Len(stack) - 1)) = Len(stack) - 1
         /\ \A i \in 1 .. Len(stack) - 1 : SubSeq(stack, 1, Len(stack) - 1)[i] = stack[i]
<1>1. Len(stack) \in Nat /\ Len(stack) > 0 /\ \A i \in 1 .. Len(stack) : stack[i] \in Plan!Stages
  BY LenProperties, ElementOfSeq, EmptySeq
<1>2. Plan!Top \in Plan!Stages /\ Plan!Visiting(Plan!Top)
  BY <1>1 DEF Plan!Top, Plan!Visiting
<1>3. 1 \in Int /\ Len(stack) - 1 \in Int /\ \A i \in 1 .. Len(stack) - 1 : stack[i] \in Plan!Stages
  BY <1>1
<1>4. /\ SubSeq(stack, 1, Len(stack) - 1) \in Seq(Plan!Stages)
      /\ Len(SubSeq(stack, 1, Len(stack) - 1)) =
           IF 1 <= Len(stack) - 1 THEN Len(stack) - 1 - 1 + 1 ELSE 0
      /\ \A i \in 1 .. (Len(stack) - 1) - 1 + 1 :
           SubSeq(stack, 1, Len(stack) - 1)[i] = stack[1 + i - 1]
  BY <1>3, SubSeqProperties
<1>5. Len(SubSeq(stack, 1, Len(stack) - 1)) = Len(stack) - 1
  <2>1. (IF 1 <= Len(stack) - 1 THEN Len(stack) - 1 - 1 + 1 ELSE 0) = Len(stack) - 1
    <3> DEFINE n == Len(stack)
    <3>1. n \in Nat /\ n > 0
      BY <1>1
    <3> HIDE DEF n
    <3>2. (IF 1 <= n - 1 THEN n - 1 - 1 + 1 ELSE 0) = n - 1
      BY <3>1
    <3> QED BY <3>2 DEF n
  <2> QED BY <1>4, <2>1
<1>6. \A i \in 1 .. Len(stack) - 1 : SubSeq(stack, 1, Len(stack) - 1)[i] = stack[i]
  BY <1>1, <1>4
<1> QED BY <1>1, <1>2, <1>4, <1>5, <1>6

-----------------------------------------------------------------------------
(* Types.                                                                  *)

LEMMA PlanInitTyped == Plan!Init => Plan!TypeOK
<1> SUFFICES ASSUME Plan!Init PROVE Plan!TypeOK
  OBVIOUS
<1>1. stack \in Seq(Plan!Stages) /\ order \in Seq(Plan!Stages)
  BY EmptySeq DEF Plan!Init
<1>2. InputsOK /\ ResolveOK
  BY DEF Plan!Init, InputsOK, ResolveOK, Modes
<1>3. OrderOK
  BY <1>1, PlanSize DEF Plan!Init, OrderOK
<1> QED BY <1>2, <1>3, PlanTypeParts

LEMMA PlanTypeStep == Plan!TypeOK /\ [Plan!Step]_(Plan!vars) => Plan!TypeOK'
<1> SUFFICES ASSUME Plan!TypeOK, [Plan!Step]_(Plan!vars) PROVE Plan!TypeOK'
  OBVIOUS
<1>ok. InputsOK /\ ResolveOK /\ OrderOK
  BY PlanTypeParts
<1>goal. SUFFICES InputsOK' /\ ResolveOK' /\ OrderOK'
  BY DEF Plan!TypeOK, InputsOK, ResolveOK, OrderOK, Modes
<1> USE <1>ok, StagesPositive
<1>1. CASE Plan!Select
  <2>1. \A s \in todo : s \in Plan!Stages
    BY DEF InputsOK, ResolveOK
  <2> QED BY <1>1, <2>1 DEF Plan!Select, InputsOK, ResolveOK, OrderOK, Plan!inputVars, Plan!orderVars
<1>2. CASE Plan!ResolveParent
  <2>1. stage \in Plan!Stages /\ parent[stage] \in Plan!Stages
    BY <1>2, PlanSize DEF Plan!ResolveParent, InputsOK, ResolveOK, Plan!Stages
  <2>2. InputsOK' /\ OrderOK'
    BY <1>2 DEF Plan!ResolveParent, InputsOK, OrderOK, Plan!inputVars, Plan!orderVars
  <2>3. mode' \in [Plan!Stages -> Modes] /\ requiredBy' \in [Plan!Stages -> SUBSET Plan!Stages]
    BY <1>2, <2>1 DEF Plan!ResolveParent, ResolveOK, Modes
  <2>4. todo' \subseteq selected'
    BY <1>2 DEF Plan!ResolveParent, ResolveOK, Plan!inputVars
  <2>5. /\ current' \in {0} \cup Plan!Stages /\ stage' \in {0} \cup Plan!Stages
        /\ (current' = 0 <=> stage' = 0) /\ visited' \subseteq Plan!Stages
    <3>1. CASE parent[stage] \in usable
      BY <1>2, <3>1 DEF Plan!ResolveParent, Plan!Return, ResolveOK
    <3>2. CASE parent[stage] \notin usable
      <4>1. current' = current /\ stage' = parent[stage] /\ visited' = visited \cup {parent[stage]}
        BY <1>2, <3>2 DEF Plan!ResolveParent
      <4> QED BY <4>1, <2>1, <1>2 DEF Plan!ResolveParent, ResolveOK
    <3> QED BY <3>1, <3>2
  <2> QED BY <2>2, <2>3, <2>4, <2>5 DEF ResolveOK
<1>3. CASE Plan!ParentResolved
  <2>1. stage \in Plan!Stages /\ parent[stage] \in Plan!Stages
    BY <1>3, PlanSize DEF Plan!ParentResolved, InputsOK, ResolveOK, Plan!Stages
  <2>2. requiredBy' \in [Plan!Stages -> SUBSET Plan!Stages]
    BY <1>3, <2>1 DEF Plan!ParentResolved, ResolveOK
  <2> QED
    BY <1>3, <2>2 DEF Plan!ParentResolved, Plan!Return, InputsOK, ResolveOK, OrderOK, Plan!inputVars, Plan!orderVars
<1>4. CASE Plan!NoMoreParents
  BY <1>4 DEF Plan!NoMoreParents, Plan!Return, InputsOK, ResolveOK, OrderOK, Plan!inputVars, Plan!orderVars
<1>5. CASE Plan!Resolved
  BY <1>5 DEF Plan!Resolved, InputsOK, ResolveOK, OrderOK, Plan!inputVars, Plan!resolveVars, Plan!orderVars
<1>6. CASE Plan!NextEntry
  <2>1. entry \in Plan!Stages
    BY <1>6, PlanSize DEF Plan!NextEntry, OrderOK, Plan!Stages
  <2>2. stack' \in Seq(Plan!Stages)
    BY <1>6, <2>1, EmptySeq DEF Plan!NextEntry
  <2>3. entry' \in 1 .. PlanStages + 1
    BY <1>6, PlanSize DEF Plan!NextEntry, OrderOK
  <2> QED BY <1>6, <2>2, <2>3 DEF Plan!NextEntry, InputsOK, ResolveOK, OrderOK, Plan!inputVars, Plan!resolveVars
<1>7. CASE Plan!AddParent
  <2>1. Plan!Top \in Plan!Stages
    BY <1>7, StackTop DEF Plan!AddParent, OrderOK
  <2>2. parent[Plan!Top] \in Plan!Stages
    BY <1>7, <2>1, PlanSize DEF Plan!AddParent, Plan!Calls, InputsOK, Plan!Stages
  <2>3. Append(stack, parent[Plan!Top]) \in Seq(Plan!Stages)
    BY <2>2, AppendProperties DEF OrderOK
  <2> QED BY <1>7, <2>3 DEF Plan!AddParent, InputsOK, ResolveOK, OrderOK, Plan!inputVars, Plan!resolveVars
<1>8. CASE Plan!AddStage
  <2>1. Plan!Top \in Plan!Stages /\ SubSeq(stack, 1, Len(stack) - 1) \in Seq(Plan!Stages)
    BY <1>8, StackTop DEF Plan!AddStage, OrderOK
  <2>2. Append(order, Plan!Top) \in Seq(Plan!Stages)
    BY <2>1, AppendProperties DEF OrderOK
  <2> QED BY <1>8, <2>1, <2>2 DEF Plan!AddStage, InputsOK, ResolveOK, OrderOK, Plan!inputVars, Plan!resolveVars
<1>9. CASE Plan!Ordered
  BY <1>9 DEF Plan!Ordered, InputsOK, ResolveOK, OrderOK, Plan!inputVars, Plan!resolveVars, Plan!orderVars
<1>10. CASE UNCHANGED Plan!vars
  BY <1>10 DEF Plan!vars, InputsOK, ResolveOK, OrderOK, Plan!inputVars, Plan!resolveVars, Plan!orderVars
<1> QED BY <1>1, <1>2, <1>3, <1>4, <1>5, <1>6, <1>7, <1>8, <1>9, <1>10 DEF Plan!Step

\* The plan, the walk up and the stack of add() keep their types.
THEOREM PlanTypeCorrect == MCSpec => []Plan!TypeOK
<1>1. Plan!Init => Plan!TypeOK
  BY PlanInitTyped
<1>2. Plan!TypeOK /\ [Plan!Step]_(Plan!vars) => Plan!TypeOK'
  BY PlanTypeStep
<1> QED BY <1>1, <1>2, PlanOfSpec, PTL

-----------------------------------------------------------------------------
(* Seeds.                                                                  *)

\* Exactly the selected stages are in mode BUILD; what is reused exists.
ModesRight == \A s \in Plan!Stages :
  /\ mode[s] = "BUILD" <=> s \in selected
  /\ mode[s] = "REUSE" => s \in usable

\* The walk up from a selected stage has passed stages that are built.
WalkRight ==
  /\ current # 0 => phase = "resolve" /\ stage \in visited /\ \A s \in visited : Plan!IsBuilt(s)
  /\ phase # "resolve" => todo = {} /\ current = 0

\* Only the selected stages that are not resolved yet, and the stage the
\* walk has come to, may have a parent that nothing is decided about.
ParentsDecided == \A s \in Plan!Stages :
  Plan!IsBuilt(s) /\ parent[s] # 0 /\ mode[parent[s]] = "NONE" =>
    s \in todo \/ (current # 0 /\ s = stage)

ResolveInv == ModesRight /\ WalkRight /\ ParentsDecided

LEMMA ResolveInit == Plan!Init => ResolveInv
BY StagesPositive DEF Plan!Init, ResolveInv, ModesRight, WalkRight, ParentsDecided, Plan!IsBuilt

LEMMA ResolveStep == Plan!TypeOK /\ ResolveInv /\ [Plan!Step]_(Plan!vars) => ResolveInv'
<1> SUFFICES ASSUME Plan!TypeOK, ResolveInv, [Plan!Step]_(Plan!vars) PROVE ResolveInv'
  OBVIOUS
<1>ok. InputsOK /\ ResolveOK /\ ModesRight /\ WalkRight /\ ParentsDecided
  BY PlanTypeParts DEF ResolveInv
<1>goal. SUFFICES ModesRight' /\ WalkRight' /\ ParentsDecided'
  BY DEF ResolveInv
<1> USE <1>ok, StagesPositive
<1>1. CASE Plan!Select
  <2> USE <1>1 DEF Plan!Select, Plan!inputVars, Plan!orderVars
  <2>1. PICK s \in todo : todo' = todo \ {s} /\ current' = s /\ stage' = s /\ visited' = {s}
    OBVIOUS
  <2>2. s \in Plan!Stages /\ Plan!IsBuilt(s)
    BY DEF ModesRight, InputsOK, ResolveOK, Plan!IsBuilt
  <2>3. ModesRight'
    BY DEF ModesRight
  <2>4. WalkRight'
    BY <2>1, <2>2 DEF WalkRight, Plan!IsBuilt
  <2>5. ParentsDecided'
    BY <2>1, <2>2 DEF ParentsDecided, Plan!IsBuilt
  <2> QED BY <2>3, <2>4, <2>5
<1>2. CASE Plan!ResolveParent
  <2> DEFINE p == parent[stage]
  <2> USE <1>2 DEF Plan!ResolveParent, Plan!inputVars, Plan!orderVars
  <2>1. stage \in Plan!Stages /\ p \in Plan!Stages
    BY PlanSize DEF InputsOK, ResolveOK, Plan!Stages
  <2>2. mode[p] = "NONE" /\ p # 0 /\ p \notin visited
    OBVIOUS
  <2>3. mode' = [mode EXCEPT ![p] = IF p \in usable THEN "REUSE" ELSE "REQUIRED"]
    OBVIOUS
  <2> HIDE DEF p
  <2>4. \A s \in Plan!Stages : mode'[s] = IF s = p THEN IF p \in usable THEN "REUSE" ELSE "REQUIRED"
                                     ELSE mode[s]
    BY <2>1, <2>3 DEF ResolveOK
  <2>5. ModesRight'
    BY <2>1, <2>2, <2>4 DEF ModesRight
  <2>6. CASE p \in usable
    <3>1. current' = 0 /\ phase' = phase /\ phase = "resolve"
      BY <2>6 DEF Plan!Return, p, WalkRight
    <3>2. WalkRight'
      BY <3>1 DEF WalkRight
    <3>3. ParentsDecided'
      <4> SUFFICES ASSUME NEW s \in Plan!Stages, Plan!IsBuilt(s)', parent[s] # 0, mode'[parent[s]] = "NONE"
                   PROVE  s \in todo \/ (current' # 0 /\ s = stage')
        BY DEF ParentsDecided
      <4>1. parent[s] \in Plan!Stages /\ parent[s] # p /\ mode[parent[s]] = "NONE"
        BY <2>4, <2>1, PlanSize DEF InputsOK, Plan!Stages
      <4>2. s # stage
        BY <4>1 DEF p
      <4>3. CASE s = p
        BY <4>3, <2>1, <2>4, <2>6 DEF Plan!IsBuilt
      <4>4. CASE s # p
        <5>1. mode'[s] = mode[s]
          BY <4>4, <2>4
        <5>2. Plan!IsBuilt(s)
          BY <5>1 DEF Plan!IsBuilt
        <5> QED BY <5>2, <4>1, <4>2 DEF ParentsDecided
      <4> QED BY <4>3, <4>4
    <3> QED BY <2>5, <3>2, <3>3
  <2>7. CASE p \notin usable
    <3>1. stage' = p /\ visited' = visited \cup {p} /\ current' = current /\ phase' = phase
      BY <2>7 DEF p
    <3>2. WalkRight'
      BY <2>1, <2>2, <2>4, <2>7, <3>1 DEF WalkRight, Plan!IsBuilt, ResolveOK
    <3>3. ParentsDecided'
      <4> SUFFICES ASSUME NEW s \in Plan!Stages, Plan!IsBuilt(s)', parent[s] # 0, mode'[parent[s]] = "NONE"
                   PROVE  s \in todo \/ (current' # 0 /\ s = stage')
        BY DEF ParentsDecided
      <4>1. parent[s] \in Plan!Stages /\ parent[s] # p /\ mode[parent[s]] = "NONE"
        BY <2>4, <2>1, PlanSize DEF InputsOK, Plan!Stages
      <4>2. s # stage
        BY <4>1 DEF p
      <4>3. CASE s = p
        BY <4>3, <2>1, <2>4, <2>7, <3>1 DEF Plan!IsBuilt
      <4>4. CASE s # p
        <5>1. mode'[s] = mode[s]
          BY <4>4, <2>4
        <5>2. Plan!IsBuilt(s)
          BY <5>1 DEF Plan!IsBuilt
        <5> QED BY <5>2, <4>1, <4>2 DEF ParentsDecided
      <4> QED BY <4>3, <4>4
    <3> QED BY <2>5, <3>2, <3>3
  <2> QED BY <2>6, <2>7
<1>3. CASE Plan!ParentResolved
  <2> USE <1>3 DEF Plan!ParentResolved, Plan!Return, Plan!inputVars, Plan!orderVars
  <2>1. ModesRight'
    BY DEF ModesRight
  <2>2. WalkRight'
    BY DEF WalkRight
  <2>3. ParentsDecided'
    BY DEF ParentsDecided, Plan!IsBuilt
  <2> QED BY <2>1, <2>2, <2>3
<1>4. CASE Plan!NoMoreParents
  <2> USE <1>4 DEF Plan!NoMoreParents, Plan!Return, Plan!inputVars, Plan!orderVars
  <2>1. ModesRight'
    BY DEF ModesRight
  <2>2. WalkRight'
    BY DEF WalkRight
  <2>3. parent[stage] # 0 => mode[parent[stage]] # "NONE"
    BY DEF WalkRight, Plan!IsBuilt
  <2>4. ParentsDecided'
    BY <2>3 DEF ParentsDecided, Plan!IsBuilt
  <2> QED BY <2>1, <2>2, <2>4
<1>5. CASE Plan!Resolved
  BY <1>5 DEF Plan!Resolved, Plan!inputVars, Plan!resolveVars, Plan!orderVars, ModesRight, WalkRight,
     ParentsDecided, Plan!IsBuilt
<1>6. CASE Plan!NextEntry \/ Plan!AddParent \/ Plan!AddStage \/ Plan!Ordered
  <2>1. UNCHANGED <<Plan!inputVars, Plan!resolveVars>> /\ phase # "resolve" /\ phase' # "resolve"
    BY <1>6 DEF Plan!NextEntry, Plan!AddParent, Plan!AddStage, Plan!Ordered
  <2> QED BY <2>1 DEF Plan!inputVars, Plan!resolveVars, ModesRight, WalkRight, ParentsDecided, Plan!IsBuilt
<1>7. CASE UNCHANGED Plan!vars
  BY <1>7 DEF Plan!vars, Plan!inputVars, Plan!resolveVars, ModesRight, WalkRight, ParentsDecided, Plan!IsBuilt
<1> QED BY <1>1, <1>2, <1>3, <1>4, <1>5, <1>6, <1>7 DEF Plan!Step

LEMMA ResolveAlways == MCSpec => []ResolveInv
<1>1. Plan!Init => ResolveInv
  BY ResolveInit
<1>2. Plan!TypeOK /\ ResolveInv /\ [Plan!Step]_(Plan!vars) => ResolveInv'
  BY ResolveStep
<1> QED BY <1>1, <1>2, PlanTypeCorrect, PlanOfSpec, PTL

LEMMA SeedsFollow == Plan!TypeOK /\ ResolveInv => Plan!SeedsProvided
<1> SUFFICES ASSUME Plan!TypeOK, ResolveInv, phase # "resolve",
                    NEW s \in Plan!Stages, Plan!IsBuilt(s), parent[s] # 0
             PROVE  Plan!IsBuilt(parent[s]) \/ (mode[parent[s]] = "REUSE" /\ parent[s] \in usable)
  BY DEF Plan!SeedsProvided
<1>1. parent[s] \in Plan!Stages
  BY PlanSize DEF Plan!TypeOK, Plan!Stages
<1>2. mode[parent[s]] # "NONE"
  BY DEF ResolveInv, WalkRight, ParentsDecided
<1> QED BY <1>1, <1>2 DEF Plan!TypeOK, ResolveInv, ModesRight, Plan!IsBuilt

\* Whatever stages are selected, in whatever order they are resolved and
\* whatever builds exist, a stage to build is a root, or its parent is built
\* in the same run or has a build to reuse.
THEOREM EveryStageHasSeed == MCSpec => []Plan!SeedsProvided
<1>1. Plan!TypeOK /\ ResolveInv => Plan!SeedsProvided
  BY SeedsFollow
<1> QED BY <1>1, PlanTypeCorrect, ResolveAlways, PTL

-----------------------------------------------------------------------------
(* Order.                                                                  *)

\* Nothing is ordered while ancestors are resolved.
NotYet == phase = "resolve" => entry = 1 /\ stack = <<>> /\ added = {} /\ order = <<>>

\* The stages added are those of the order, without repetition.
AddedOnce ==
  /\ \A s \in Plan!Stages : s \in added <=> \E i \in 1 .. Len(order) : order[i] = s
  /\ \A i, j \in 1 .. Len(order) : order[i] = order[j] => i = j

\* The stages that are being added are to be built, distinct and not added.
StackRight ==
  /\ \A i \in 1 .. Len(stack) : Plan!IsBuilt(stack[i]) /\ stack[i] \notin added
  /\ \A i, j \in 1 .. Len(stack) : stack[i] = stack[j] => i = j

\* No stage that was looked at is lost.
Covered ==
  /\ \A s \in added : Plan!IsBuilt(s)
  /\ \A s \in Plan!Stages : s < entry /\ Plan!IsBuilt(s) => s \in added \/ Plan!Visiting(s)
  /\ phase = "done" => stack = <<>> /\ entry > PlanStages

OrderInv == NotYet /\ AddedOnce /\ StackRight /\ Covered /\ Plan!ParentsFirst

LEMMA EmptyFacts == Len(<<>>) = 0 /\ 1 .. 0 = {}
OBVIOUS

LEMMA OrderInit == Plan!Init => OrderInv
BY EmptyFacts, PlanSize
   DEF Plan!Init, OrderInv, NotYet, AddedOnce, StackRight, Covered, Plan!ParentsFirst, Plan!Stages

\* While ancestors are resolved the order is empty, whatever they become.
LEMMA OrderResolve ==
  ASSUME phase = "resolve", UNCHANGED Plan!orderVars, phase' \in {"resolve", "order"}, OrderInv
  PROVE  OrderInv'
<1>1. entry' = 1 /\ stack' = <<>> /\ added' = {} /\ order' = <<>>
  BY DEF OrderInv, NotYet, Plan!orderVars
<1> QED
  BY <1>1, EmptyFacts, PlanSize
  DEF OrderInv, NotYet, AddedOnce, StackRight, Covered, Plan!ParentsFirst, Plan!Stages

LEMMA OrderStep == Plan!TypeOK /\ ResolveInv /\ OrderInv /\ [Plan!Step]_(Plan!vars) => OrderInv'
<1> SUFFICES ASSUME Plan!TypeOK, ResolveInv, OrderInv, [Plan!Step]_(Plan!vars) PROVE OrderInv'
  OBVIOUS
<1>ok. InputsOK /\ ResolveOK /\ OrderOK /\ NotYet /\ AddedOnce /\ StackRight /\ Covered /\ Plan!ParentsFirst
  BY PlanTypeParts DEF OrderInv
<1>goal. SUFFICES NotYet' /\ AddedOnce' /\ StackRight' /\ Covered' /\ Plan!ParentsFirst'
  BY DEF OrderInv
<1> USE <1>ok, StagesPositive
<1>1. CASE Plan!Select \/ Plan!ResolveParent \/ Plan!ParentResolved \/ Plan!NoMoreParents \/ Plan!Resolved
  <2>1. phase = "resolve" /\ UNCHANGED Plan!orderVars /\ phase' \in {"resolve", "order"}
    BY <1>1 DEF Plan!Select, Plan!ResolveParent, Plan!ParentResolved, Plan!NoMoreParents, Plan!Resolved, ResolveInv,
       WalkRight
  <2> QED BY <2>1, OrderResolve DEF OrderInv
<1>2. CASE Plan!NextEntry
  <2> USE <1>2 DEF Plan!NextEntry, Plan!inputVars, Plan!resolveVars
  <2>1. entry \in Plan!Stages /\ entry \in Nat /\ entry' = entry + 1
    BY PlanSize DEF OrderOK, Plan!Stages
  <2>2. phase = "order" /\ phase' = "order" /\ NotYet'
    BY DEF NotYet
  <2>3. AddedOnce' /\ Plan!ParentsFirst'
    BY DEF AddedOnce, Plan!ParentsFirst, Plan!IsBuilt
  <2>4. CASE Plan!IsBuilt(entry) /\ entry \notin added
    <3>1. stack' = <<entry>> /\ Len(stack') = 1 /\ stack'[1] = entry
      BY <2>4
    <3>2. \A i \in 1 .. Len(stack') : i = 1
      BY <3>1
    <3>3. StackRight'
      BY <3>1, <3>2, <2>4 DEF StackRight, Plan!IsBuilt
    <3>4. \A s \in Plan!Stages : s < entry + 1 => s < entry \/ s = entry
      BY <2>1 DEF Plan!Stages
    <3>5. \A s \in Plan!Stages : s = entry => Plan!Visiting(s)'
      <4>1. 1 \in 1 .. Len(stack')
        BY <3>1
      <4> QED BY <3>1, <4>1 DEF Plan!Visiting
    <3>6. \A s \in Plan!Stages : ~Plan!Visiting(s)
      BY EmptyFacts DEF Plan!Visiting
    <3>7. Covered'
      BY <2>1, <2>2, <3>4, <3>5, <3>6 DEF Covered, Plan!IsBuilt
    <3> QED BY <2>2, <2>3, <3>3, <3>7
  <2>5. CASE ~(Plan!IsBuilt(entry) /\ entry \notin added)
    <3>1. stack' = <<>>
      BY <2>5
    <3>2. StackRight'
      BY <3>1, EmptyFacts DEF StackRight
    <3>3. \A s \in Plan!Stages : s < entry + 1 => s < entry \/ s = entry
      BY <2>1 DEF Plan!Stages
    <3>4. \A s \in Plan!Stages : ~Plan!Visiting(s)
      BY EmptyFacts DEF Plan!Visiting
    <3>5. Covered'
      BY <2>1, <2>2, <2>5, <3>3, <3>4 DEF Covered, Plan!IsBuilt
    <3> QED BY <2>2, <2>3, <3>2, <3>5
  <2> QED BY <2>4, <2>5
<1>3. CASE Plan!AddParent
  <2> DEFINE p == parent[Plan!Top]
  <2> USE <1>3 DEF Plan!AddParent, Plan!inputVars, Plan!resolveVars
  <2>1. Plan!Top \in Plan!Stages /\ p \in Plan!Stages /\ Plan!IsBuilt(p) /\ p \notin added
    <3>1. Plan!Top \in Plan!Stages
      BY StackTop DEF OrderOK
    <3> QED BY <3>1, PlanSize DEF Plan!Calls, InputsOK, Plan!Stages
  <2>2. NotYet' /\ AddedOnce' /\ Plan!ParentsFirst'
    BY DEF NotYet, AddedOnce, Plan!ParentsFirst, Plan!IsBuilt
  <2>3. CASE Plan!Visiting(p)
    <3>1. UNCHANGED stack /\ phase' = "cycle"
      BY <2>3
    <3> QED BY <2>2, <3>1 DEF StackRight, Covered, Plan!IsBuilt, Plan!Visiting
  <2>4. CASE ~Plan!Visiting(p)
    <3>1. stack' = Append(stack, p) /\ phase' = "order"
      BY <2>4
    <3> HIDE DEF p
    <3>2. /\ Len(stack) \in Nat /\ Len(stack') = Len(stack) + 1
          /\ \A i \in 1 .. Len(stack) : stack'[i] = stack[i]
          /\ stack'[Len(stack) + 1] = p
      BY <3>1, <2>1, AppendProperties, LenProperties DEF OrderOK
    <3>3. \A i \in 1 .. Len(stack') : i \in 1 .. Len(stack) \/ i = Len(stack) + 1
      BY <3>2
    <3>4. \A i \in 1 .. Len(stack) : stack[i] # p
      BY <2>4 DEF Plan!Visiting
    <3>5. StackRight'
      BY <2>1, <3>2, <3>3, <3>4 DEF StackRight, Plan!IsBuilt
    <3>6. \A i \in 1 .. Len(stack) : i \in 1 .. Len(stack')
      BY <3>2
    <3>7. \A s \in Plan!Stages : Plan!Visiting(s) => Plan!Visiting(s)'
      BY <3>2, <3>6 DEF Plan!Visiting
    <3>8. Covered'
      BY <3>1, <3>7 DEF Covered, Plan!IsBuilt
    <3> QED BY <2>2, <3>5, <3>8
  <2> QED BY <2>3, <2>4
<1>4. CASE Plan!AddStage
  <2> DEFINE t == Plan!Top
             n == Len(order)
  <2> USE <1>4 DEF Plan!AddStage, Plan!inputVars, Plan!resolveVars
  <2>1. /\ Len(stack) \in Nat /\ Len(stack) > 0 /\ t \in Plan!Stages /\ Plan!Visiting(t)
        /\ Len(stack') = Len(stack) - 1
        /\ \A i \in 1 .. Len(stack) - 1 : stack'[i] = stack[i]
    BY StackTop DEF OrderOK
  <2>2. t = stack[Len(stack)] /\ Plan!IsBuilt(t) /\ t \notin added
    BY <2>1 DEF Plan!Top, StackRight
  <2>3. /\ n \in Nat /\ Len(order') = n + 1 /\ order'[n + 1] = t
        /\ \A i \in 1 .. n : order'[i] = order[i]
    BY <2>1, AppendProperties, LenProperties DEF OrderOK
  <2>4. added' = added \cup {t} /\ ~Plan!Calls(t) /\ phase = "order"
    OBVIOUS
  <2> HIDE DEF t, n
  <2>5. \A i \in 1 .. Len(order') : i \in 1 .. n \/ i = n + 1
    BY <2>3
  <2>6. \A i \in 1 .. n :
          i \in 1 .. Len(order') /\ order'[i] = order[i] /\ order[i] \in added /\ order[i] \in Plan!Stages
    <3>1. \A i \in 1 .. n : order[i] \in Plan!Stages /\ i \in 1 .. n + 1
      BY <2>3, ElementOfSeq DEF OrderOK, n
    <3> QED BY <3>1, <2>3 DEF AddedOnce, n
  <2>7. NotYet'
    BY <2>4 DEF NotYet
  <2>8. AddedOnce'
    <3>1. n + 1 \in 1 .. Len(order')
      BY <2>3
    <3>2. \A s \in Plan!Stages : s \in added' <=> \E i \in 1 .. Len(order') : order'[i] = s
      BY <3>1, <2>3, <2>4, <2>5, <2>6 DEF AddedOnce, n
    <3>3. \A i, j \in 1 .. Len(order') : order'[i] = order'[j] => i = j
      BY <2>2, <2>3, <2>5, <2>6 DEF AddedOnce, n
    <3> QED BY <3>2, <3>3 DEF AddedOnce
  <2>9. StackRight'
    <3>1. \A i \in 1 .. Len(stack') : i \in 1 .. Len(stack) /\ i # Len(stack) /\ stack'[i] = stack[i]
      BY <2>1
    <3>2. Len(stack) \in 1 .. Len(stack)
      BY <2>1
    <3>3. \A i \in 1 .. Len(stack') : Plan!IsBuilt(stack[i]) /\ stack[i] \notin added'
      BY <3>1, <3>2, <2>2, <2>4 DEF StackRight
    <3>4. \A i \in 1 .. Len(stack') : Plan!IsBuilt(stack'[i]) /\ stack'[i] \notin added'
      BY <3>1, <3>3
    <3>5. \A i, j \in 1 .. Len(stack') : stack'[i] = stack'[j] => i = j
      BY <3>1 DEF StackRight
    <3> QED BY <3>4, <3>5 DEF StackRight, Plan!IsBuilt
  <2>10. Covered'
    <3>1. \A i \in 1 .. Len(stack) : i \in 1 .. Len(stack') \/ i = Len(stack)
      BY <2>1
    <3>2. \A s \in Plan!Stages : Plan!Visiting(s) => s = t \/ Plan!Visiting(s)'
      <4> SUFFICES ASSUME NEW s \in Plan!Stages, NEW i \in 1 .. Len(stack), stack[i] = s, s # t
                   PROVE  \E j \in 1 .. Len(stack') : stack'[j] = s
        BY DEF Plan!Visiting
      <4>1. i # Len(stack)
        BY <2>2
      <4>2. i \in 1 .. Len(stack) - 1
        BY <4>1, <2>1
      <4>3. i \in 1 .. Len(stack') /\ stack'[i] = s
        BY <4>1, <4>2, <2>1, <3>1
      <4> QED BY <4>3
    <3>3. \A s \in added' : Plan!IsBuilt(s)'
      BY <2>2, <2>4 DEF Covered, Plan!IsBuilt
    <3>4. \A s \in Plan!Stages : s < entry' /\ Plan!IsBuilt(s)' => s \in added' \/ Plan!Visiting(s)'
      BY <3>2, <2>4 DEF Covered, Plan!IsBuilt
    <3> QED BY <3>3, <3>4, <2>4 DEF Covered
  <2>11. Plan!ParentsFirst'
    <3> SUFFICES ASSUME NEW i \in 1 .. Len(order'), parent[order'[i]] # 0,
                        Plan!IsBuilt(parent[order'[i]])
                 PROVE  \E j \in 1 .. i - 1 : order'[j] = parent[order'[i]]
      BY DEF Plan!ParentsFirst, Plan!IsBuilt
    <3>1. CASE i \in 1 .. n
      <4>1. PICK j \in 1 .. i - 1 : order[j] = parent[order[i]]
        BY <3>1, <2>6 DEF Plan!ParentsFirst, n
      <4>2. j \in 1 .. n
        BY <3>1, <2>3
      <4> QED BY <3>1, <4>1, <4>2, <2>6
    <3>2. CASE i = n + 1
      <4>1. order'[i] = t /\ parent[t] \in added
        BY <3>2, <2>3, <2>4 DEF Plan!Calls
      <4>2. parent[t] \in Plan!Stages
        BY <4>1 DEF OrderOK
      <4>3. PICK j \in 1 .. n : order[j] = parent[t]
        BY <4>1, <4>2 DEF AddedOnce, n
      <4>4. j \in 1 .. i - 1
        BY <3>2, <2>3
      <4> QED BY <4>1, <4>3, <4>4, <2>6
    <3> QED BY <3>1, <3>2, <2>5
  <2> QED BY <2>7, <2>8, <2>9, <2>10, <2>11
<1>5. CASE Plan!Ordered
  BY <1>5 DEF Plan!Ordered, Plan!inputVars, Plan!resolveVars, Plan!orderVars, NotYet, AddedOnce, StackRight, Covered,
              Plan!ParentsFirst, Plan!IsBuilt, Plan!Visiting
<1>6. CASE UNCHANGED Plan!vars
  BY <1>6 DEF Plan!vars, Plan!inputVars, Plan!resolveVars, Plan!orderVars, NotYet, AddedOnce, StackRight, Covered,
              Plan!ParentsFirst, Plan!IsBuilt, Plan!Visiting
<1> QED BY <1>1, <1>2, <1>3, <1>4, <1>5, <1>6 DEF Plan!Step

LEMMA OrderAlways == MCSpec => []OrderInv
<1>1. Plan!Init => OrderInv
  BY OrderInit
<1>2. Plan!TypeOK /\ ResolveInv /\ OrderInv /\ [Plan!Step]_(Plan!vars) => OrderInv'
  BY OrderStep
<1> QED BY <1>1, <1>2, PlanTypeCorrect, ResolveAlways, PlanOfSpec, PTL

\* A stage is ordered after the parent it is built on, in every project.
THEOREM ParentsOrderedFirst == MCSpec => []ParentsFirst
<1>1. OrderInv => ParentsFirst
  BY DEF OrderInv, ParentsFirst
<1> QED BY <1>1, OrderAlways, PTL

\* The order is without repetition and, once it is complete, has exactly the
\* stages that are built.
THEOREM OrderComplete == MCSpec => []Plan!OrderIsWhole
<1>1. Plan!TypeOK /\ OrderInv => Plan!OrderIsWhole
  <2> SUFFICES ASSUME Plan!TypeOK, OrderInv PROVE Plan!OrderIsWhole
    OBVIOUS
  <2>ok. OrderOK /\ AddedOnce /\ Covered
    BY PlanTypeParts DEF OrderInv
  <2>1. \A i \in 1 .. Len(order) : order[i] \in Plan!Stages
    BY <2>ok, ElementOfSeq DEF OrderOK
  <2>2. ASSUME phase = "done" PROVE {order[i] : i \in 1 .. Len(order)} = {s \in Plan!Stages : Plan!IsBuilt(s)}
    <3>1. stack = <<>> /\ entry > PlanStages
      BY <2>ok, <2>2 DEF Covered
    <3>2. \A s \in Plan!Stages : ~Plan!Visiting(s) /\ s < entry
      BY <3>1, <2>ok, EmptyFacts, PlanSize DEF Plan!Visiting, Plan!Stages, OrderOK
    <3>3. \A s \in Plan!Stages : Plan!IsBuilt(s) <=> s \in added
      BY <2>ok, <3>2 DEF Covered
    <3> QED BY <2>ok, <2>1, <3>3 DEF AddedOnce
  <2> QED BY <2>ok, <2>2 DEF Plan!OrderIsWhole, AddedOnce
<1> QED BY <1>1, PlanTypeCorrect, OrderAlways, PTL

-----------------------------------------------------------------------------
(* The reference definitions.                                              *)

\* ToBuild has the selected stages and is closed, and is the least such set.
LEMMA ToBuildFacts ==
  ASSUME Plan!TypeOK
  PROVE  /\ selected \subseteq Plan!ToBuild /\ Plan!ToBuild \subseteq Plan!Stages
         /\ \A s \in Plan!ToBuild : parent[s] \in Plan!ToBuild \cup usable \cup {0}
         /\ \A T \in SUBSET Plan!Stages : Plan!Needs(T) => Plan!ToBuild \subseteq T
<1>1. selected \subseteq Plan!ToBuild /\ Plan!ToBuild \subseteq Plan!Stages
  BY DEF Plan!TypeOK, Plan!ToBuild, Plan!Needs
<1>2. ASSUME NEW s \in Plan!ToBuild, parent[s] # 0, parent[s] \notin usable PROVE parent[s] \in Plan!ToBuild
  <2>1. s \in Plan!Stages /\ parent[s] \in Plan!Stages
    BY <1>1, <1>2, PlanSize DEF Plan!TypeOK, Plan!Stages
  <2>2. ASSUME NEW T \in SUBSET Plan!Stages, Plan!Needs(T) PROVE parent[s] \in T
    <3>1. s \in T
      BY <2>2 DEF Plan!ToBuild
    <3> QED BY <3>1, <2>2, <1>2 DEF Plan!Needs
  <2> QED BY <2>1, <2>2 DEF Plan!ToBuild
<1>3. \A T \in SUBSET Plan!Stages : Plan!Needs(T) => Plan!ToBuild \subseteq T
  BY DEF Plan!ToBuild
<1> QED BY <1>1, <1>2, <1>3

\* From s, and from what is above s, one step up to a stage that is built is
\* above s; and there is nothing else above s.
LEMMA AboveFacts ==
  ASSUME Plan!TypeOK, NEW s \in Plan!Stages
  PROVE  /\ Plan!Above(s) \subseteq Plan!Stages
         /\ \A q \in {s} \cup Plan!Above(s) :
              parent[q] # 0 /\ Plan!IsBuilt(parent[q]) => parent[q] \in Plan!Above(s)
         /\ \A T \in SUBSET Plan!Stages : Plan!GoesUp(s, T) => Plan!Above(s) \subseteq T
<1>1. Plan!Above(s) \subseteq Plan!Stages
  BY DEF Plan!Above
<1>2. ASSUME NEW q \in {s} \cup Plan!Above(s), parent[q] # 0, Plan!IsBuilt(parent[q])
      PROVE  parent[q] \in Plan!Above(s)
  <2>1. q \in Plan!Stages /\ parent[q] \in Plan!Stages
    BY <1>1, <1>2, PlanSize DEF Plan!TypeOK, Plan!Stages
  <2>2. ASSUME NEW T \in SUBSET Plan!Stages, Plan!GoesUp(s, T) PROVE parent[q] \in T
    <3>1. q \in {s} \cup T
      BY <2>2 DEF Plan!Above
    <3> QED BY <3>1, <2>2, <1>2 DEF Plan!GoesUp
  <2> QED BY <2>1, <2>2 DEF Plan!Above
<1>3. \A T \in SUBSET Plan!Stages : Plan!GoesUp(s, T) => Plan!Above(s) \subseteq T
  BY DEF Plan!Above
<1> QED BY <1>1, <1>2, <1>3

\* More stages that are built leave what was above a stage above it.
LEMMA AboveGrows ==
  ASSUME NEW s \in Plan!Stages, parent' = parent, \A p \in Plan!Stages : Plan!IsBuilt(p) => Plan!IsBuilt(p)',
         Plan!TypeOK
  PROVE  Plan!Above(s) \subseteq Plan!Above(s)'
<1> SUFFICES ASSUME NEW p \in Plan!Above(s), NEW T \in SUBSET Plan!Stages, Plan!GoesUp(s, T)' PROVE p \in T
  BY DEF Plan!Above
<1>1. Plan!GoesUp(s, T)
  <2> SUFFICES ASSUME NEW r \in {s} \cup T, parent[r] # 0, Plan!IsBuilt(parent[r]) PROVE parent[r] \in T
    BY DEF Plan!GoesUp
  <2>1. parent[r] \in Plan!Stages
    BY PlanSize DEF Plan!TypeOK, Plan!Stages
  <2>2. Plan!IsBuilt(parent[r])'
    BY <2>1
  <2> QED BY <2>2 DEF Plan!GoesUp, Plan!IsBuilt
<1> QED BY <1>1 DEF Plan!Above

\* Nothing is built that is not needed, nor reused.
OnlyNeeded == \A s \in Plan!Stages :
  /\ Plan!IsBuilt(s) => s \in Plan!ToBuild
  /\ mode[s] = "REUSE" => \E c \in Plan!Stages : Plan!IsBuilt(c) /\ parent[c] = s

\* required_by names selected stages that are below, and the stage that the
\* walk has come to is above the one it began with.
NamesRight == \A s \in Plan!Stages :
  /\ mode[s] \in {"REQUIRED", "REUSE"} <=> requiredBy[s] # {}
  /\ \A r \in requiredBy[s] : r \in selected /\ \E c \in {r} \cup Plan!Above(r) : parent[c] = s
WalkAbove == current # 0 => current \in selected /\ stage \in {current} \cup Plan!Above(current)

\* In the recursion every stage is above those it was called for.
StackAbove == \A i, j \in 1 .. Len(stack), s \in Plan!Stages :
  i < j /\ s = stack[i] => stack[j] \in Plan!Above(s)
CycleFound == phase = "cycle" => \E s \in Plan!Stages : Plan!IsBuilt(s) /\ s \in Plan!Above(s)

ReferenceInv == OnlyNeeded /\ NamesRight /\ WalkAbove /\ StackAbove /\ CycleFound

LEMMA ReferenceInit == Plan!Init => ReferenceInv
<1> SUFFICES ASSUME Plan!Init PROVE ReferenceInv
  OBVIOUS
<1>1. Plan!TypeOK
  BY PlanInitTyped
<1>2. selected \subseteq Plan!ToBuild
  BY <1>1, ToBuildFacts
<1>3. OnlyNeeded
  BY <1>2 DEF OnlyNeeded, Plan!Init, Plan!IsBuilt
<1>4. NamesRight
  BY DEF NamesRight, Plan!Init
<1>5. WalkAbove /\ StackAbove /\ CycleFound
  BY EmptyFacts DEF WalkAbove, StackAbove, CycleFound, Plan!Init
<1> QED BY <1>3, <1>4, <1>5 DEF ReferenceInv

\* What stays when a step leaves the plan as it is.
LEMMA SamePlan ==
  ASSUME UNCHANGED <<parent, usable, selected, mode, requiredBy>>, ReferenceInv
  PROVE  OnlyNeeded' /\ NamesRight' /\ \A s : Plan!Above(s)' = Plan!Above(s)
<1>1. \A s : Plan!Above(s)' = Plan!Above(s)
  BY DEF Plan!Above, Plan!GoesUp, Plan!IsBuilt
<1>2. Plan!ToBuild' = Plan!ToBuild
  BY DEF Plan!ToBuild, Plan!Needs
<1>3. OnlyNeeded'
  BY <1>2 DEF ReferenceInv, OnlyNeeded, Plan!IsBuilt
<1>4. NamesRight'
  BY <1>1 DEF ReferenceInv, NamesRight
<1> QED BY <1>1, <1>3, <1>4

\* A parent that nothing was decided about is decided about.
LEMMA ParentReferenced ==
  ASSUME Plan!TypeOK, ResolveInv, OrderInv, ReferenceInv, Plan!ResolveParent
  PROVE  ReferenceInv'
<1> USE DEF Plan!ResolveParent, Plan!inputVars, Plan!orderVars
<1>0. PICK p \in Plan!Stages, w \in Plan!Stages : p = parent[stage] /\ w = current
  BY PlanSize, StagesPositive DEF Plan!TypeOK, Plan!Stages
<1>1. /\ stage \in Plan!Stages /\ w # 0
      /\ phase = "resolve" /\ stack = <<>> /\ Plan!IsBuilt(stage) /\ mode[p] = "NONE" /\ p \notin visited
  BY <1>0, PlanSize, StagesPositive
     DEF Plan!TypeOK, Plan!Stages, ResolveInv, WalkRight, OrderInv, NotYet
<1>2. /\ mode' = [mode EXCEPT ![p] = IF p \in usable THEN "REUSE" ELSE "REQUIRED"]
      /\ requiredBy' = [requiredBy EXCEPT ![p] = @ \cup {w}]
      /\ UNCHANGED <<parent, usable, selected, phase, todo, stack>>
      /\ IF p \in usable THEN current' = 0
         ELSE stage' = p /\ visited' = visited \cup {p} /\ current' = w
  BY <1>0 DEF Plan!Return
<1>3. parent[stage] = p
  BY <1>0
<1>4. \A s \in Plan!Stages :
        /\ mode'[s] = IF s = p THEN IF p \in usable THEN "REUSE" ELSE "REQUIRED" ELSE mode[s]
        /\ requiredBy'[s] = IF s = p THEN requiredBy[p] \cup {w} ELSE requiredBy[s]
  BY <1>1, <1>2 DEF Plan!TypeOK
<1>5. \A s \in Plan!Stages : Plan!IsBuilt(s) => Plan!IsBuilt(s)'
  BY <1>1, <1>4 DEF Plan!IsBuilt
<1>6. \A s \in Plan!Stages : Plan!Above(s) \subseteq Plan!Above(s)'
  BY <1>2, <1>5, AboveGrows
<1>7. Plan!ToBuild' = Plan!ToBuild
  BY <1>2 DEF Plan!ToBuild, Plan!Needs
<1>8. OnlyNeeded'
  <2>1. stage \in Plan!ToBuild
    BY <1>1 DEF ReferenceInv, OnlyNeeded
  <2>2. p \in Plan!ToBuild \/ p \in usable
    <3>1. p # 0
      BY <1>1, StagesPositive
    <3> QED BY <2>1, <3>1, <1>3, ToBuildFacts
  <2>3. \A s \in Plan!Stages : Plan!IsBuilt(s)' => s \in Plan!ToBuild'
    BY <1>1, <1>4, <1>7, <2>2 DEF ReferenceInv, OnlyNeeded, Plan!IsBuilt
  <2>4. ASSUME NEW s \in Plan!Stages, mode'[s] = "REUSE"
        PROVE  \E c \in Plan!Stages : Plan!IsBuilt(c)' /\ parent'[c] = s
    <3>1. CASE s = p
      BY <3>1, <1>1, <1>2, <1>3, <1>5
    <3>2. CASE s # p
      <4>1. mode[s] = "REUSE"
        BY <3>2, <2>4, <1>4
      <4> QED BY <4>1, <1>2, <1>5 DEF ReferenceInv, OnlyNeeded
    <3> QED BY <3>1, <3>2
  <2> QED BY <2>3, <2>4 DEF OnlyNeeded
<1>9. stage \in {w} \cup Plan!Above(w)' /\ w \in selected
  BY <1>0, <1>1, <1>6 DEF ReferenceInv, WalkAbove
<1>10. NamesRight'
  <2> SUFFICES ASSUME NEW s \in Plan!Stages
               PROVE  /\ mode'[s] \in {"REQUIRED", "REUSE"} <=> requiredBy'[s] # {}
                      /\ \A r \in requiredBy'[s] :
                           r \in selected' /\ \E c \in {r} \cup Plan!Above(r)' : parent'[c] = s
    BY DEF NamesRight
  <2>1. mode'[s] \in {"REQUIRED", "REUSE"} <=> requiredBy'[s] # {}
    BY <1>4 DEF ReferenceInv, NamesRight
  <2>2. ASSUME NEW r \in requiredBy'[s] PROVE r \in selected' /\ \E c \in {r} \cup Plan!Above(r)' : parent'[c] = s
    <3>1. CASE r \in requiredBy[s]
      <4>1. r \in selected /\ \E c \in {r} \cup Plan!Above(r) : parent[c] = s
        BY <3>1 DEF ReferenceInv, NamesRight
      <4>2. r \in Plan!Stages
        BY <4>1 DEF Plan!TypeOK
      <4> QED BY <4>1, <4>2, <1>2, <1>6
    <3>2. CASE r \notin requiredBy[s]
      <4>1. s = p /\ r = w
        BY <3>2, <1>4
      <4> QED BY <4>1, <1>2, <1>3, <1>9
    <3> QED BY <3>1, <3>2
  <2> QED BY <2>1, <2>2
<1>11. WalkAbove'
  <2>1. CASE p \in usable
    BY <2>1, <1>2 DEF WalkAbove
  <2>2. CASE p \notin usable
    <3>1. Plan!IsBuilt(p)' /\ parent' = parent /\ p # 0
      BY <1>1, <1>2, <1>4, <2>2, StagesPositive DEF Plan!IsBuilt
    <3>2. ASSUME NEW T \in SUBSET Plan!Stages, Plan!GoesUp(w, T)' PROVE p \in T
      <4>1. stage \in {w} \cup T
        BY <1>9, <3>2 DEF Plan!Above
      <4> QED BY <3>1, <3>2, <4>1, <1>3 DEF Plan!GoesUp
    <3>4. p \in Plan!Above(w)'
      BY <3>2 DEF Plan!Above
    <3> QED BY <3>4, <1>2, <1>9, <2>2 DEF WalkAbove
  <2> QED BY <2>1, <2>2
<1>12. StackAbove' /\ CycleFound'
  BY <1>1, <1>2, EmptyFacts DEF StackAbove, CycleFound
<1> QED BY <1>8, <1>10, <1>11, <1>12 DEF ReferenceInv

\* A walk that ends, or a step of the recursion, leaves the plan as it is.
LEMMA WalkReferenced ==
  ASSUME Plan!TypeOK, ResolveInv, OrderInv, ReferenceInv,
         Plan!Select \/ Plan!NoMoreParents \/ Plan!Resolved
  PROVE  ReferenceInv'
<1>1. UNCHANGED <<parent, usable, selected, mode, requiredBy, stack>> /\ phase = "resolve" /\ phase' # "cycle"
  BY DEF Plan!Select, Plan!NoMoreParents, Plan!Resolved, Plan!inputVars, Plan!resolveVars, Plan!orderVars, ResolveInv,
         WalkRight
<1>2. OnlyNeeded' /\ NamesRight'
  BY <1>1, SamePlan
<1>3. WalkAbove'
  BY DEF WalkAbove, Plan!Select, Plan!NoMoreParents, Plan!Resolved, Plan!Return, Plan!resolveVars, Plan!TypeOK,
         Plan!inputVars
<1>4. StackAbove' /\ CycleFound'
  BY <1>1, EmptyFacts DEF StackAbove, CycleFound, OrderInv, NotYet
<1> QED BY <1>2, <1>3, <1>4 DEF ReferenceInv

\* The walk has come to a parent that is decided about.
LEMMA DecidedReferenced ==
  ASSUME Plan!TypeOK, ResolveInv, OrderInv, ReferenceInv, Plan!ParentResolved
  PROVE  ReferenceInv'
<1> USE DEF Plan!ParentResolved, Plan!inputVars, Plan!orderVars
<1>0. PICK p \in Plan!Stages, w \in Plan!Stages : p = parent[stage] /\ w = current
  BY PlanSize, StagesPositive DEF Plan!TypeOK, Plan!Stages
<1>1. /\ UNCHANGED <<parent, usable, selected, mode, phase, stack>> /\ phase = "resolve" /\ current' = 0
      /\ mode[p] # "NONE" /\ w \in selected /\ stage \in {w} \cup Plan!Above(w)
  BY <1>0, StagesPositive DEF ResolveInv, WalkRight, Plan!Return, ReferenceInv, WalkAbove
<1>2. requiredBy' = IF mode[p] = "BUILD" THEN requiredBy ELSE [requiredBy EXCEPT ![p] = @ \cup {w}]
  BY <1>0
<1>3. \A s : Plan!Above(s)' = Plan!Above(s)
  BY <1>1 DEF Plan!Above, Plan!GoesUp, Plan!IsBuilt
<1>4. Plan!ToBuild' = Plan!ToBuild
  BY <1>1 DEF Plan!ToBuild, Plan!Needs
<1>5. OnlyNeeded'
  BY <1>1, <1>4 DEF ReferenceInv, OnlyNeeded, Plan!IsBuilt
<1>6. CASE mode[p] = "BUILD"
  <2>1. NamesRight'
    BY <1>6, <1>1, <1>2, <1>3 DEF ReferenceInv, NamesRight
  <2> QED BY <2>1, <1>1, <1>5, EmptyFacts DEF ReferenceInv, WalkAbove, StackAbove, CycleFound, OrderInv, NotYet
<1>7. CASE mode[p] # "BUILD"
  <2>1. \A s \in Plan!Stages : requiredBy'[s] = IF s = p THEN requiredBy[p] \cup {w} ELSE requiredBy[s]
    BY <1>0, <1>2, <1>7 DEF Plan!TypeOK
  <2>2. mode[p] \in {"REQUIRED", "REUSE"}
    BY <1>1, <1>7 DEF Plan!TypeOK
  <2>3. \A s \in Plan!Stages : mode'[s] \in {"REQUIRED", "REUSE"} <=> requiredBy'[s] # {}
    BY <1>1, <2>1, <2>2 DEF ReferenceInv, NamesRight
  <2>4. ASSUME NEW s \in Plan!Stages, NEW r \in requiredBy'[s]
        PROVE  r \in selected' /\ \E c \in {r} \cup Plan!Above(r)' : parent'[c] = s
    <3>1. CASE r \in requiredBy[s]
      BY <3>1, <1>1, <1>3 DEF ReferenceInv, NamesRight
    <3>2. CASE r \notin requiredBy[s]
      <4>1. s = p /\ r = w
        BY <3>2, <2>1, <2>4
      <4> QED BY <4>1, <1>0, <1>1, <1>3
    <3> QED BY <3>1, <3>2
  <2>5. NamesRight'
    BY <2>3, <2>4 DEF NamesRight
  <2> QED BY <2>5, <1>1, <1>5, EmptyFacts DEF ReferenceInv, WalkAbove, StackAbove, CycleFound, OrderInv, NotYet
<1> QED BY <1>6, <1>7

\* The recursion goes on to the parent of the last stage, or finds it in the
\* stages it is in.
LEMMA RecursionReferenced ==
  ASSUME Plan!TypeOK, ResolveInv, OrderInv, ReferenceInv, Plan!AddParent
  PROVE  ReferenceInv'
<1> USE DEF Plan!AddParent, Plan!inputVars, Plan!resolveVars
<1>1. /\ Plan!Top \in Plan!Stages /\ stack \in Seq(Plan!Stages) /\ Len(stack) \in Nat /\ Len(stack) > 0
      /\ Plan!Top = stack[Len(stack)]
  BY StackTop DEF Plan!TypeOK, Plan!Top
<1>2. PICK p \in Plan!Stages : p = parent[Plan!Top] /\ p # 0 /\ Plan!IsBuilt(p)
  BY <1>1, PlanSize DEF Plan!TypeOK, Plan!Calls, Plan!Stages
<1>3. UNCHANGED <<parent, usable, selected, mode, requiredBy, current, stage>>
  OBVIOUS
<1>4. OnlyNeeded' /\ NamesRight' /\ \A s : Plan!Above(s)' = Plan!Above(s)
  BY <1>3, SamePlan
<1>5. WalkAbove'
  BY <1>3, <1>4 DEF ReferenceInv, WalkAbove
<1>6. \A i \in 1 .. Len(stack) : stack[i] \in Plan!Stages /\ p \in Plan!Above(stack[i])
  <2> SUFFICES ASSUME NEW i \in 1 .. Len(stack) PROVE stack[i] \in Plan!Stages /\ p \in Plan!Above(stack[i])
    OBVIOUS
  <2>1. stack[i] \in Plan!Stages
    BY <1>1, ElementOfSeq
  <2>2. Plan!Top \in {stack[i]} \cup Plan!Above(stack[i])
    <3>1. i = Len(stack) \/ i < Len(stack)
      BY <1>1
    <3>2. Len(stack) \in 1 .. Len(stack)
      BY <1>1
    <3> QED BY <3>1, <3>2, <1>1 DEF ReferenceInv, StackAbove
  <2> QED BY <2>1, <2>2, <1>2, AboveFacts
<1>7. CASE Plan!Visiting(p)
  <2>1. stack' = stack /\ phase' = "cycle"
    BY <1>2, <1>7
  <2>2. p \in Plan!Above(p)
    BY <1>6, <1>7 DEF Plan!Visiting
  <2>3. CycleFound'
    BY <2>2, <1>2, <1>3, <1>4 DEF CycleFound, Plan!IsBuilt
  <2>4. StackAbove'
    BY <2>1, <1>4 DEF ReferenceInv, StackAbove
  <2> QED BY <2>3, <2>4, <1>4, <1>5 DEF ReferenceInv
<1>8. CASE ~Plan!Visiting(p)
  <2>1. stack' = Append(stack, p) /\ phase' = phase /\ phase = "order"
    BY <1>2, <1>8
  <2>2. /\ Len(stack') = Len(stack) + 1
        /\ \A i \in 1 .. Len(stack) : stack'[i] = stack[i]
        /\ stack'[Len(stack) + 1] = p
    BY <2>1, <1>1, AppendProperties
  <2>3. \A i, j \in 1 .. Len(stack') : i < j => i \in 1 .. Len(stack) /\ (j \in 1 .. Len(stack) \/ j = Len(stack) + 1)
    BY <2>2, <1>1
  <2>4. StackAbove'
    <3> SUFFICES ASSUME NEW i \in 1 .. Len(stack'), NEW j \in 1 .. Len(stack'), NEW s \in Plan!Stages,
                        i < j, s = stack'[i]
                 PROVE  stack'[j] \in Plan!Above(s)'
      BY DEF StackAbove
    <3>1. stack'[i] = stack[i] /\ i \in 1 .. Len(stack)
      BY <2>2, <2>3
    <3>2. stack'[j] \in Plan!Above(stack[i])
      BY <3>1, <2>2, <2>3, <1>6 DEF ReferenceInv, StackAbove
    <3> QED BY <3>1, <3>2, <1>4
  <2>5. CycleFound'
    BY <2>1 DEF CycleFound
  <2> QED BY <2>4, <2>5, <1>4, <1>5 DEF ReferenceInv
<1> QED BY <1>7, <1>8

\* The other steps of the recursion take the last stage off, or begin with one.
LEMMA OrderReferenced ==
  ASSUME Plan!TypeOK, ResolveInv, OrderInv, ReferenceInv, Plan!NextEntry \/ Plan!AddStage \/ Plan!Ordered
  PROVE  ReferenceInv'
<1>1. /\ UNCHANGED <<parent, usable, selected, mode, requiredBy, current, stage>> /\ phase' # "cycle"
  BY DEF Plan!NextEntry, Plan!AddStage, Plan!Ordered, Plan!inputVars, Plan!resolveVars, Plan!orderVars
<1>2. OnlyNeeded' /\ NamesRight' /\ \A s : Plan!Above(s)' = Plan!Above(s)
  BY <1>1, SamePlan
<1>3. WalkAbove'
  BY <1>1, <1>2 DEF ReferenceInv, WalkAbove
<1>4. CycleFound'
  BY <1>1 DEF CycleFound
<1>5. StackAbove'
  <2>1. CASE Plan!NextEntry
    <3>1. Len(stack') \in {0, 1}
      BY <2>1, EmptyFacts DEF Plan!NextEntry
    <3>2. \A n \in {0, 1} : \A i, j \in 1 .. n : ~(i < j)
      OBVIOUS
    <3> QED BY <3>1, <3>2 DEF StackAbove
  <2>2. CASE Plan!AddStage
    <3>1. /\ Len(stack) \in Nat /\ Len(stack') = Len(stack) - 1
          /\ \A i \in 1 .. Len(stack) - 1 : stack'[i] = stack[i]
      BY <2>2, StackTop DEF Plan!AddStage, Plan!TypeOK
    <3> SUFFICES ASSUME NEW i \in 1 .. Len(stack'), NEW j \in 1 .. Len(stack'), NEW s \in Plan!Stages,
                        i < j, s = stack'[i]
                 PROVE  stack'[j] \in Plan!Above(s)'
      BY DEF StackAbove
    <3>2. stack'[j] \in Plan!Above(stack[i])
      BY <3>1 DEF ReferenceInv, StackAbove
    <3> QED BY <3>1, <3>2, <1>2
  <2>3. CASE Plan!Ordered
    BY <2>3, EmptyFacts DEF Plan!Ordered, Plan!orderVars, StackAbove
  <2> QED BY <2>1, <2>2, <2>3
<1> QED BY <1>2, <1>3, <1>4, <1>5 DEF ReferenceInv

LEMMA ReferenceStep ==
  Plan!TypeOK /\ ResolveInv /\ OrderInv /\ ReferenceInv /\ [Plan!Step]_(Plan!vars) => ReferenceInv'
<1> SUFFICES ASSUME Plan!TypeOK, ResolveInv, OrderInv, ReferenceInv, [Plan!Step]_(Plan!vars) PROVE ReferenceInv'
  OBVIOUS
<1>1. CASE Plan!Select \/ Plan!NoMoreParents \/ Plan!Resolved
  BY <1>1, WalkReferenced
<1>2. CASE Plan!ResolveParent
  BY <1>2, ParentReferenced
<1>3. CASE Plan!ParentResolved
  BY <1>3, DecidedReferenced
<1>4. CASE Plan!AddParent
  BY <1>4, RecursionReferenced
<1>5. CASE Plan!NextEntry \/ Plan!AddStage \/ Plan!Ordered
  BY <1>5, OrderReferenced
<1>6. CASE UNCHANGED Plan!vars
  <2>1. /\ UNCHANGED <<parent, usable, selected, mode, requiredBy, current, stage, stack, phase>>
    BY <1>6 DEF Plan!vars, Plan!inputVars, Plan!resolveVars, Plan!orderVars
  <2>2. OnlyNeeded' /\ NamesRight' /\ \A s : Plan!Above(s)' = Plan!Above(s)
    BY <2>1, SamePlan
  <2> QED BY <2>1, <2>2 DEF ReferenceInv, WalkAbove, StackAbove, CycleFound, Plan!IsBuilt
<1> QED BY <1>1, <1>2, <1>3, <1>4, <1>5, <1>6 DEF Plan!Step

LEMMA ReferenceAlways == MCSpec => []ReferenceInv
<1>1. Plan!Init => ReferenceInv
  BY ReferenceInit
<1>2. Plan!TypeOK /\ ResolveInv /\ OrderInv /\ ReferenceInv /\ [Plan!Step]_(Plan!vars) => ReferenceInv'
  BY ReferenceStep
<1> QED BY <1>1, <1>2, PlanTypeCorrect, ResolveAlways, OrderAlways, PlanOfSpec, PTL

\* What is built is closed, and so it is the least such set.
LEMMA ReferenceFollows ==
  ASSUME Plan!TypeOK, ResolveInv, ReferenceInv PROVE Plan!PlanIsReference /\ Plan!RequiredByIsTrue
<1>1. Plan!SeedsProvided
  BY SeedsFollow
<1>2. ASSUME phase # "resolve", NEW s \in Plan!Stages
      PROVE  /\ Plan!IsBuilt(s) <=> s \in Plan!ToBuild
             /\ mode[s] = "REUSE" <=>
                  ~Plan!IsBuilt(s) /\ s \in usable /\ \E c \in Plan!ToBuild : parent[c] = s
  <2> DEFINE Built == {q \in Plan!Stages : Plan!IsBuilt(q)}
  <2>1. Plan!Needs(Built)
    <3>1. selected \subseteq Built
      BY DEF Plan!TypeOK, ResolveInv, ModesRight, Plan!IsBuilt
    <3>2. ASSUME NEW q \in Built, parent[q] # 0 PROVE parent[q] \in Built \cup usable
      <4>1. parent[q] \in Plan!Stages
        BY <3>2, PlanSize DEF Plan!TypeOK, Plan!Stages
      <4> QED BY <4>1, <3>2, <1>1, <1>2 DEF Plan!SeedsProvided
    <3> QED BY <3>1, <3>2 DEF Plan!Needs
  <2>2. \A q \in Plan!Stages : Plan!IsBuilt(q) <=> q \in Plan!ToBuild
    <3>1. Plan!ToBuild \subseteq Built
      <4>1. Built \in SUBSET Plan!Stages
        OBVIOUS
      <4> HIDE DEF Built
      <4> QED BY <2>1, <4>1, ToBuildFacts
    <3> QED BY <3>1 DEF ReferenceInv, OnlyNeeded
  <2>3. ASSUME mode[s] = "REUSE"
        PROVE  ~Plan!IsBuilt(s) /\ s \in usable /\ \E c \in Plan!ToBuild : parent[c] = s
    BY <2>2, <2>3 DEF ReferenceInv, OnlyNeeded, ResolveInv, ModesRight, Plan!IsBuilt
  <2>4. ASSUME ~Plan!IsBuilt(s), NEW c \in Plan!ToBuild, parent[c] = s PROVE mode[s] = "REUSE"
    <3>1. c \in Plan!Stages /\ Plan!IsBuilt(c) /\ parent[c] # 0
      BY <2>2, <2>4, ToBuildFacts, StagesPositive
    <3> QED BY <3>1, <2>4, <1>1, <1>2 DEF Plan!SeedsProvided
  <2> QED BY <2>2, <2>3, <2>4
<1>3. Plan!RequiredByIsTrue
  BY DEF Plan!RequiredByIsTrue, ReferenceInv, NamesRight
<1> QED BY <1>2, <1>3 DEF Plan!PlanIsReference

\* In an order that is complete, the stages before the first of a cycle are
\* closed, and do not have it.
LEMMA CycleFollows ==
  ASSUME Plan!TypeOK, OrderInv, ReferenceInv, Plan!OrderIsWhole PROVE Plan!CycleReported
<1>1. ASSUME phase = "done", NEW s \in Plan!Stages, Plan!IsBuilt(s), s \in Plan!Above(s) PROVE FALSE
  <2>1. \A q \in Plan!Stages : Plan!IsBuilt(q) <=> \E i \in 1 .. Len(order) : order[i] = q
    BY <1>1 DEF Plan!OrderIsWhole
  <2>2. PICK n \in 1 .. Len(order) : order[n] = s
    BY <1>1, <2>1
  <2> DEFINE Before == {q \in Plan!Stages : \E j \in 1 .. n - 1 : order[j] = q}
  <2>3. Len(order) \in Nat
    BY LenProperties DEF Plan!TypeOK
  <2>4. Plan!GoesUp(s, Before)
    <3> SUFFICES ASSUME NEW r \in {s} \cup Before, parent[r] # 0, Plan!IsBuilt(parent[r]) PROVE parent[r] \in Before
      BY DEF Plan!GoesUp
    <3>1. PICK i \in 1 .. n : order[i] = r
      <4>1. n \in 1 .. n /\ \A j \in 1 .. n - 1 : j \in 1 .. n
        BY <2>3
      <4> QED BY <4>1, <2>2
    <3>2. i \in 1 .. Len(order)
      BY <2>3
    <3>3. PICK j \in 1 .. i - 1 : order[j] = parent[r]
      BY <3>1, <3>2 DEF OrderInv, Plan!ParentsFirst
    <3>4. j \in 1 .. n - 1
      BY <2>3
    <3>5. parent[r] \in Plan!Stages
      BY PlanSize DEF Plan!TypeOK, Plan!Stages
    <3> QED BY <3>3, <3>4, <3>5
  <2>5. s \in Before
    <3>1. Before \in SUBSET Plan!Stages
      OBVIOUS
    <3> HIDE DEF Before
    <3> QED BY <1>1, <2>4, <3>1, AboveFacts
  <2>6. PICK j \in 1 .. n - 1 : order[j] = order[n]
    BY <2>2, <2>5
  <2>7. j \in 1 .. Len(order) /\ j # n
    BY <2>3
  <2> QED BY <2>6, <2>7 DEF Plan!OrderIsWhole
<1> QED BY <1>1 DEF Plan!CycleReported, ReferenceInv, CycleFound

\* For all parents, selections and usable builds, and whatever order the
\* selected stages are resolved in: the plan builds what is needed and
\* nothing else, its order is whole, a cycle is reported exactly if there is
\* one, and required_by is true.
THEOREM PlanIsTheReference == MCSpec => []PlanIsRight
<1>1. Plan!TypeOK /\ ResolveInv /\ OrderInv /\ ReferenceInv /\ Plan!OrderIsWhole => PlanIsRight
  BY ReferenceFollows, CycleFollows DEF PlanIsRight
<1> QED BY <1>1, PlanTypeCorrect, ResolveAlways, OrderAlways, ReferenceAlways, OrderComplete, PTL

-----------------------------------------------------------------------------
(* Stages that are edited.                                                 *)

StageValue == Editing!Given \cup {"inherit", "unset"}
StageObjects ==
  [id : Ids, name : Names, parent : Ids \cup {"none"}, val : StageValue, explicit : BOOLEAN,
   default : {"absent", "none", "inherit"}, user : BOOLEAN, date : Dates]
Loaders ==
  [kind : {"load", "check"}, id : Ids, generation : Nat, pc : {"baseline", "drop", "apply", "record", "required", "deliver"},
   stale : BOOLEAN, base : Editing!Baselines, missing : BOOLEAN]
Views ==
  [id : Ids \cup {Editing!Nobody}, generation : Nat, required : Nat, base : Editing!Baselines, shown : StageValue,
   missing : BOOLEAN, loading : BOOLEAN, edited : BOOLEAN]
Creations == [pc : {"check", "save", "baseline", "end"}, id : Ids, parent : Ids \cup {"none"}, name : Names]

EditingTypeOK ==
  /\ disk \in [Names -> {Editing!Free} \cup Editing!Entries]
  /\ mem \in [Ids -> {Editing!Gone} \cup StageObjects]
  /\ view \in Views /\ loads \subseteq Loaders
  /\ creation \in {Editing!NoCreation} \cup Creations
  /\ chosen \in [Ids -> StageValue \cup {"none", "deleted"}]

Is(i) == mem[i] # Editing!Gone
\* What is inherited from the stage above, and what a value is by default
DefaultOf(i) == IF mem[i].parent = "none" THEN "none" ELSE "inherit"
ValueOf(default) == IF default = "inherit" THEN "inherit" ELSE "unset"
BaseOf(i) ==
  LET own == disk[mem[i].name].base IN
  IF Origin[i].kind = "template" \/ own = Editing!NoBaseline THEN Origin[i] ELSE own
\* A stage whose file is written, and that is not among the others yet
Written == creation.pc \in {"baseline", "end"}

\* What the user has chosen is explicit, and nothing else is; what was
\* calculated is what the default is, unless a thread is between two steps.
ObjectFits(i) ==
  /\ mem[i].id = i /\ chosen[i] \notin {"none", "deleted"} /\ mem[i].explicit = (chosen[i] # "unset")
  /\ mem[i].explicit => mem[i].val = chosen[i]
  /\ ~mem[i].explicit => mem[i].date = "none"
  /\ mem[i].user => mem[i].date # "none"
  /\ ~mem[i].explicit /\ mem[i].default # "absent" => mem[i].val = ValueOf(mem[i].default)
  /\ ~mem[i].explicit /\ mem[i].default = "absent" =>
       mem[i].val = "unset" \/ \E w \in loads : w.pc = "record" /\ w.id = i /\ ~w.stale
ObjectsFit == \A i \in Ids : Is(i) => ObjectFits(i)

\* Directories and objects have each other.
FileFits(i) ==
  LET saved == disk[mem[i].name] IN
  /\ saved # Editing!Free /\ saved.id = i /\ saved.parent = mem[i].parent /\ saved.date = mem[i].date
  /\ saved.val = chosen[i]
  /\ mem[i].parent # "none" => Is(mem[i].parent)
FilesFit == \A i \in Ids : Is(i) => FileFits(i)
OwnersFit ==
  \A n \in Names : disk[n] # Editing!Free =>
    \/ Is(disk[n].id) /\ mem[disk[n].id].name = n
    \/ Written /\ creation.id = disk[n].id /\ creation.name = n
GoneFits == \A i \in Ids : ~Is(i) => chosen[i] \in {"none", "deleted"} \/ (Written /\ creation.id = i)

CreationFits == creation.pc # "none" =>
  /\ ~Is(creation.id) /\ (creation.parent # "none" => Is(creation.parent))
  /\ creation.pc \in {"check", "save"} => chosen[creation.id] = "none"
  /\ creation.pc = "save" => disk[creation.name] = Editing!Free
  /\ Written => LET saved == disk[creation.name] IN
       /\ saved # Editing!Free /\ saved.id = creation.id /\ saved.parent = creation.parent /\ saved.val = "unset"
       /\ saved.date = "none" /\ chosen[creation.id] = "unset"

\* One thread calculates, and what it has done is still so.
OneLoader == \A v, w \in loads : v.kind = "load" /\ ~v.stale /\ w.kind = "load" /\ ~w.stale => v = w
LoaderFits(w) ==
  /\ w.kind = "check" => w.pc \in {"required", "deliver"}
  /\ ~w.stale /\ Is(w.id) /\ w.pc \in {"apply", "record"} =>
       /\ mem[w.id].default = "absent"
       /\ ~mem[w.id].explicit => mem[w.id].val = IF w.pc = "apply" THEN "unset" ELSE ValueOf(DefaultOf(w.id))
LoadersFit == \A w \in loads : LoaderFits(w)
\* No thread is of a stage that was not there yet.
KnownFits == \A w \in loads : chosen[w.id] # "none" /\ (creation.pc # "none" => creation.id # w.id)

\* The view shows a stage that is there; it has the values of the baseline,
\* and the stage its defaults, or the thread that will say so.
AwaitedFits(w) ==
  /\ w.generation <= view.generation
  /\ view.id # Editing!Nobody /\ ~w.stale => w.generation = view.generation
  /\ w.generation = view.generation =>
       /\ view.id = w.id /\ ~w.stale /\ view.loading
       /\ w.pc # "baseline" => w.base = BaseOf(w.id)
       /\ w.pc \in {"required", "deliver"} => mem[w.id].default = DefaultOf(w.id)
AwaitedFit == \A w \in loads : w.kind = "load" => AwaitedFits(w)
ViewFits == view.id # Editing!Nobody =>
  /\ Is(view.id)
  /\ ~view.loading => view.base = BaseOf(view.id) /\ mem[view.id].default = DefaultOf(view.id)

StagesFit == ObjectsFit /\ FilesFit /\ OwnersFit /\ GoneFits /\ CreationFits
LoadsFit == OneLoader /\ LoadersFit /\ KnownFits /\ AwaitedFit /\ ViewFits
EditingInv == EditingTypeOK /\ StagesFit /\ LoadsFit

LEMMA EditingConstants ==
  /\ Editing!Nobody \notin Ids /\ Editing!Nobody \notin Names /\ "none" \notin Ids
  /\ {"none", "edit"} \subseteq Dates /\ Origin \in [Ids -> Editing!Baselines]
  /\ Committed \in [Names -> {Editing!Free} \cup Editing!Entries]
  /\ \A n \in Names : Committed[n] # Editing!Free =>
       /\ \A other \in Names \ {n} : Committed[other].id # Committed[n].id
       /\ Committed[n].parent # "none" => \E other \in Names : Committed[other].id = Committed[n].parent
       /\ Committed[n].val = "unset" => Committed[n].date = "none"
BY MCEditingAssumption DEF Editing!EditingAssumption

\* What is not free has an owner.
LEMMA EntriesOwned ==
  /\ \A e \in Editing!Entries : e.id \in Ids /\ e # Editing!Free
  /\ \A s \in StageObjects : s.id \in Ids /\ s # Editing!Gone
  /\ Editing!Free.id \notin Ids
<1>1. ASSUME NEW e \in Editing!Entries PROVE e.id \in Ids
  BY DEF Editing!Entries
<1>2. ASSUME NEW s \in StageObjects PROVE s.id \in Ids
  BY DEF StageObjects
<1>3. Editing!Free.id \notin Ids /\ Editing!Gone.id \notin Ids
  BY EditingConstants DEF Editing!Free, Editing!Gone
<1> QED BY <1>1, <1>2, <1>3

\* Types of a stage and of its entry.
LEMMA ObjectIs ==
  ASSUME EditingTypeOK, NEW i \in Ids, Is(i)
  PROVE  /\ mem[i] \in StageObjects /\ mem[i].name \in Names /\ mem[i].parent \in Ids \cup {"none"}
         /\ mem[i].val \in StageValue /\ mem[i].explicit \in BOOLEAN /\ mem[i].default \in {"absent", "none", "inherit"}
         /\ mem[i].user \in BOOLEAN /\ mem[i].date \in Dates
<1>1. mem[i] \in StageObjects
  BY DEF EditingTypeOK, Is
<1> QED BY <1>1 DEF StageObjects

LEMMA EntryIs ==
  ASSUME EditingTypeOK, NEW n \in Names, disk[n] # Editing!Free
  PROVE  /\ disk[n] \in Editing!Entries /\ disk[n].id \in Ids /\ disk[n].parent \in Ids \cup {"none"}
         /\ disk[n].val \in StageValue /\ disk[n].date \in Dates /\ disk[n].base \in Editing!Baselines
<1>1. disk[n] \in Editing!Entries
  BY DEF EditingTypeOK
<1> QED BY <1>1 DEF Editing!Entries, StageValue

\* The default of a stage depends on whether it has a stage above.
LEMMA DefaultIs ==
  ASSUME EditingTypeOK, NEW i \in Ids, Is(i), mem[i].parent # "none" => Is(mem[i].parent)
  PROVE  Editing!Default(mem, i) = DefaultOf(i)
BY ObjectIs, EditingConstants DEF Editing!Default, Editing!Live, DefaultOf, Is

\* The baseline of a stage is found in its directory.
LEMMA BaselineIs ==
  ASSUME EditingTypeOK, StagesFit, NEW i \in Ids, Is(i)
  PROVE  Editing!Baseline(i) = BaseOf(i)
<1> DEFINE own == {n \in Editing!Dirs : disk[n].id = i /\ disk[n].base # Editing!NoBaseline}
           name == mem[i].name
<1>1. name \in Names /\ disk[name] # Editing!Free /\ disk[name].id = i
  BY ObjectIs DEF StagesFit, FilesFit, FileFits
<1>2. ASSUME NEW n \in Names, disk[n] # Editing!Free, disk[n].id = i PROVE n = name
  <2>1. ~(Written /\ creation.id = i)
    BY DEF StagesFit, CreationFits, Written
  <2> QED BY <1>2, <2>1 DEF StagesFit, OwnersFit
<1>3. own = IF disk[name].base # Editing!NoBaseline THEN {name} ELSE {}
  BY <1>1, <1>2 DEF Editing!Dirs
<1>4. Editing!Baseline(i) = IF Origin[i].kind = "template" \/ own = {} THEN Origin[i] ELSE disk[CHOOSE n \in own : TRUE].base
  BY DEF Editing!Baseline
<1> HIDE DEF own
<1>5. own # {} => own = {name} /\ (CHOOSE n \in own : TRUE) = name
  BY <1>3
<1> QED BY <1>3, <1>4, <1>5 DEF BaseOf

\* Calculating the default of a stage changes what is not explicit.
LEMMA RefreshedStage ==
  ASSUME NEW s \in StageObjects, NEW d \in {"none", "inherit"}, s.explicit => s.val # "unset",
         ~s.explicit /\ s.default = "absent" => s.val = "unset"
  PROVE  Editing!Record(Editing!Apply(Editing!Drop(s), d), d) =
           [s EXCEPT !.val = IF s.explicit THEN s.val ELSE ValueOf(d), !.default = d]
<1>1. s = [id |-> s.id, name |-> s.name, parent |-> s.parent, val |-> s.val, explicit |-> s.explicit, default |-> s.default,
           user |-> s.user, date |-> s.date] /\ s.explicit \in BOOLEAN
  BY DEF StageObjects
<1>2. PICK a, b, c, v, e, f, g, h : s = [id |-> a, name |-> b, parent |-> c, val |-> v, explicit |-> e, default |-> f,
           user |-> g, date |-> h]
  BY <1>1
<1> QED BY <1>1, <1>2 DEF Editing!Record, Editing!Apply, Editing!Drop, ValueOf

\* Saving a stage writes its directory, beside the baseline.
LEMMA SavedEntry ==
  ASSUME NEW dirs \in [Names -> {Editing!Free} \cup Editing!Entries], NEW s \in StageObjects
  PROVE  LET saved == Editing!SaveStage(dirs, s)[s.name] IN
         /\ Editing!SaveStage(dirs, s) \in [Names -> {Editing!Free} \cup Editing!Entries]
         /\ saved \in Editing!Entries /\ saved # Editing!Free
         /\ saved.id = s.id /\ saved.parent = s.parent /\ saved.val = Editing!Serialized(s) /\ saved.date = Editing!SavedDate(s)
         /\ saved.base = IF dirs[s.name] = Editing!Free THEN Editing!NoBaseline ELSE dirs[s.name].base
         /\ \A n \in Names \ {s.name} : Editing!SaveStage(dirs, s)[n] = dirs[n]
<1> DEFINE saved == [id |-> s.id, parent |-> s.parent, val |-> Editing!Serialized(s), date |-> Editing!SavedDate(s),
                     base |-> IF dirs[s.name] = Editing!Free THEN Editing!NoBaseline ELSE dirs[s.name].base]
<1>1. s.id \in Ids /\ s.name \in Names /\ s.parent \in Ids \cup {"none"} /\ s.val \in StageValue /\ s.date \in Dates
  BY DEF StageObjects
<1>2. Editing!Serialized(s) \in StageValue /\ Editing!SavedDate(s) \in Dates
  BY <1>1, EditingConstants DEF Editing!Serialized, Editing!SavedDate, StageValue
<1>3. saved.base \in Editing!Baselines
  <2>1. Editing!NoBaseline \in Editing!Baselines
    BY EditingConstants DEF Editing!NoBaseline, Editing!Baselines
  <2>2. dirs[s.name] # Editing!Free => dirs[s.name].base \in Editing!Baselines
    BY <1>1 DEF Editing!Entries
  <2> QED BY <2>1, <2>2
<1>4. saved \in Editing!Entries
  BY <1>1, <1>2, <1>3 DEF Editing!Entries, StageValue
<1>5. Editing!SaveStage(dirs, s) = [dirs EXCEPT ![s.name] = saved]
  BY DEF Editing!SaveStage
<1> HIDE DEF saved
<1>6. Editing!SaveStage(dirs, s)[s.name] = saved /\ \A n \in Names \ {s.name} : Editing!SaveStage(dirs, s)[n] = dirs[n]
  BY <1>1, <1>5
<1>7. Editing!SaveStage(dirs, s) \in [Names -> {Editing!Free} \cup Editing!Entries]
  BY <1>4, <1>5
<1> QED BY <1>4, <1>6, <1>7, EntriesOwned DEF saved

\* A project that has just been read from its files.
Read ==
  /\ disk \in [Names -> {Editing!Free} \cup Editing!Entries] /\ mem = Editing!LoadedStages(disk)
  /\ creation = Editing!NoCreation
  /\ \A n \in Names : disk[n] # Editing!Free =>
       /\ \A other \in Names \ {n} : disk[other].id # disk[n].id
       /\ disk[n].parent # "none" => \E other \in Names : disk[other].id = disk[n].parent
       /\ disk[n].val = "unset" => disk[n].date = "none"
       /\ chosen[disk[n].id] = disk[n].val
  /\ \A i \in Ids : (\A n \in Names : disk[n].id # i) => chosen[i] \in {"none", "deleted"}

LEMMA LoadedObjects ==
  ASSUME NEW dirs \in [Names -> {Editing!Free} \cup Editing!Entries],
         \A n, other \in Names : dirs[n] # Editing!Free /\ n # other => dirs[other].id # dirs[n].id
  PROVE  /\ Editing!LoadedStages(dirs) \in [Ids -> {Editing!Gone} \cup StageObjects]
         /\ \A n \in Names : dirs[n] # Editing!Free =>
              Editing!LoadedStages(dirs)[dirs[n].id] = Editing!LoadedStage(dirs[n], n)
         /\ \A i \in Ids : (\A n \in Names : dirs[n].id # i) => Editing!LoadedStages(dirs)[i] = Editing!Gone
         /\ \A n \in Names : dirs[n] # Editing!Free =>
              Editing!LoadedStage(dirs[n], n) \in StageObjects /\ Editing!LoadedStage(dirs[n], n) # Editing!Gone
<1> DEFINE all == Editing!LoadedStages(dirs)
<1>1. ASSUME NEW n \in Names, dirs[n] # Editing!Free
      PROVE  /\ dirs[n].id \in Ids /\ Editing!LoadedStage(dirs[n], n) \in StageObjects
             /\ Editing!LoadedStage(dirs[n], n) # Editing!Gone
  <2>1. dirs[n] \in Editing!Entries
    BY <1>1
  <2>2. dirs[n].id \in Ids /\ dirs[n].parent \in Ids \cup {"none"} /\ dirs[n].val \in StageValue /\ dirs[n].date \in Dates
    BY <2>1 DEF Editing!Entries, StageValue
  <2>3. Editing!LoadedStage(dirs[n], n) \in StageObjects
    BY <2>2 DEF Editing!LoadedStage, StageObjects
  <2> QED BY <2>2, <2>3, EntriesOwned
<1>2. all = [i \in Ids |-> IF \E n \in Names : dirs[n].id = i
                           THEN Editing!LoadedStage(dirs[CHOOSE n \in Names : dirs[n].id = i], CHOOSE n \in Names : dirs[n].id = i)
                           ELSE Editing!Gone]
  BY DEF Editing!LoadedStages
<1>3. ASSUME NEW i \in Ids, NEW n \in Names, dirs[n].id = i
      PROVE  /\ dirs[n] # Editing!Free /\ (CHOOSE m \in Names : dirs[m].id = i) = n
             /\ all[i] = Editing!LoadedStage(dirs[n], n)
  <2>1. dirs[n] # Editing!Free
    BY <1>3, EntriesOwned
  <2>2. \A m \in Names : dirs[m].id = i => m = n
    BY <1>3, <2>1
  <2>3. (CHOOSE m \in Names : dirs[m].id = i) = n
    BY <1>3, <2>2
  <2>4. all[i] = Editing!LoadedStage(dirs[CHOOSE m \in Names : dirs[m].id = i], CHOOSE m \in Names : dirs[m].id = i)
    <3> HIDE DEF all
    <3> QED BY <1>2, <1>3
  <2> QED BY <2>1, <2>3, <2>4
<1>4. ASSUME NEW i \in Ids, \A n \in Names : dirs[n].id # i PROVE all[i] = Editing!Gone
  <2> HIDE DEF all
  <2> QED BY <1>2, <1>4
<1>5. all \in [Ids -> {Editing!Gone} \cup StageObjects]
  <2>1. ASSUME NEW i \in Ids PROVE all[i] \in {Editing!Gone} \cup StageObjects
    BY <1>1, <1>3, <1>4
  <2> HIDE DEF all
  <2> QED BY <1>2, <2>1
<1>6. ASSUME NEW n \in Names, dirs[n] # Editing!Free PROVE all[dirs[n].id] = Editing!LoadedStage(dirs[n], n)
  <2>1. dirs[n].id \in Ids
    BY <1>1, <1>6
  <2> QED BY <1>3, <2>1
<1> HIDE DEF all
<1>7. /\ all \in [Ids -> {Editing!Gone} \cup StageObjects]
      /\ \A n \in Names : dirs[n] # Editing!Free => all[dirs[n].id] = Editing!LoadedStage(dirs[n], n)
      /\ \A i \in Ids : (\A n \in Names : dirs[n].id # i) => all[i] = Editing!Gone
  BY <1>4, <1>5, <1>6
<1> QED BY <1>1, <1>7 DEF all

LEMMA ReadFits == Read => mem \in [Ids -> {Editing!Gone} \cup StageObjects] /\ StagesFit
<1> SUFFICES ASSUME Read PROVE mem \in [Ids -> {Editing!Gone} \cup StageObjects] /\ StagesFit
  OBVIOUS
<1>1. /\ mem \in [Ids -> {Editing!Gone} \cup StageObjects]
      /\ \A n \in Names : disk[n] # Editing!Free => mem[disk[n].id] = Editing!LoadedStage(disk[n], n) /\ Is(disk[n].id)
      /\ \A i \in Ids : (\A n \in Names : disk[n].id # i) => mem[i] = Editing!Gone
  BY LoadedObjects DEF Read, Is
<1>2. \A n \in Names : disk[n].id \in Ids => disk[n] # Editing!Free
  BY EntriesOwned
<1>3. ~Written /\ creation.pc = "none"
  BY DEF Read, Editing!NoCreation, Written
<1>4. ASSUME NEW i \in Ids, Is(i) PROVE ObjectFits(i) /\ FileFits(i)
  <2>1. PICK n \in Names : disk[n].id = i
    BY <1>1, <1>4 DEF Is
  <2>2. disk[n] # Editing!Free /\ mem[i] = Editing!LoadedStage(disk[n], n) /\ disk[n] \in Editing!Entries
    BY <1>1, <1>2, <2>1 DEF Read
  <2>3. disk[n].id \in Ids /\ disk[n].parent \in Ids \cup {"none"} /\ disk[n].val \in StageValue /\ chosen[i] = disk[n].val
    BY <2>1, <2>2 DEF Editing!Entries, StageValue, Read
  <2>4. /\ mem[i].id = i /\ mem[i].name = n /\ mem[i].parent = disk[n].parent /\ mem[i].val = disk[n].val
        /\ mem[i].explicit = (disk[n].val # "unset") /\ mem[i].default = "absent" /\ mem[i].user = FALSE
        /\ mem[i].date = disk[n].date
    BY <2>1, <2>2 DEF Editing!LoadedStage
  <2>5. disk[n].parent # "none" => Is(disk[n].parent)
    <3>1. disk[n].parent # "none" => \E other \in Names : disk[other].id = disk[n].parent
      BY <2>2 DEF Read
    <3> QED BY <1>1, <1>2, <2>3, <3>1
  <2>6. disk[n].val = "unset" => disk[n].date = "none"
    BY <2>2 DEF Read
  <2>7. ObjectFits(i)
    BY <2>3, <2>4, <2>6 DEF ObjectFits, StageValue, Editing!Given
  <2>8. FileFits(i)
    BY <2>1, <2>2, <2>3, <2>4, <2>5 DEF FileFits
  <2> QED BY <2>7, <2>8
<1>5. OwnersFit
  <2> SUFFICES ASSUME NEW n \in Names, disk[n] # Editing!Free PROVE Is(disk[n].id) /\ mem[disk[n].id].name = n
    BY DEF OwnersFit
  <2>1. Editing!LoadedStage(disk[n], n).name = n
    BY DEF Editing!LoadedStage
  <2> QED BY <1>1, <2>1
<1>6. GoneFits
  <2> SUFFICES ASSUME NEW i \in Ids, ~Is(i) PROVE chosen[i] \in {"none", "deleted"}
    BY DEF GoneFits
  <2>1. \A n \in Names : disk[n].id # i
    BY <1>1, <1>2
  <2> QED BY <2>1 DEF Read
<1> QED BY <1>1, <1>3, <1>4, <1>5, <1>6 DEF StagesFit, ObjectsFit, FilesFit, CreationFits

LEMMA ClosedFits == loads = {} /\ view = Editing!Closed => LoadsFit /\ view \in Views /\ loads \subseteq Loaders
<1>1. Editing!Closed \in Views
  BY EditingConstants DEF Editing!Closed, Views, Editing!Baselines, Editing!NoBaseline, StageValue
<1>2. Editing!Closed.id = Editing!Nobody
  BY DEF Editing!Closed
<1> QED BY <1>1, <1>2 DEF LoadsFit, OneLoader, LoadersFit, KnownFits, AwaitedFit, ViewFits

\* What Git has committed is such a project.
LEMMA CommittedRead ==
  ASSUME disk = Committed, mem = Editing!LoadedStages(Committed), creation = Editing!NoCreation,
         \E gone \in {"none", "deleted"} : chosen = [i \in Ids |-> IF mem[i] = Editing!Gone THEN gone ELSE mem[i].val]
  PROVE  Read /\ chosen \in [Ids -> StageValue \cup {"none", "deleted"}]
<1>1. /\ mem \in [Ids -> {Editing!Gone} \cup StageObjects]
      /\ \A n \in Names : disk[n] # Editing!Free => mem[disk[n].id] = Editing!LoadedStage(disk[n], n) /\ Is(disk[n].id)
      /\ \A i \in Ids : (\A n \in Names : disk[n].id # i) => mem[i] = Editing!Gone
  BY LoadedObjects, EditingConstants DEF Is
<1>2. \A n \in Names : disk[n] # Editing!Free => chosen[disk[n].id] = disk[n].val
  <2> SUFFICES ASSUME NEW n \in Names, disk[n] # Editing!Free PROVE chosen[disk[n].id] = disk[n].val
    OBVIOUS
  <2>1. disk[n] \in Editing!Entries
    BY EditingConstants
  <2>2. disk[n].id \in Ids /\ chosen[disk[n].id] = mem[disk[n].id].val
    BY <1>1, <2>1, EntriesOwned DEF Is
  <2>3. Editing!LoadedStage(disk[n], n).val = disk[n].val
    BY DEF Editing!LoadedStage
  <2> QED BY <1>1, <2>2, <2>3
<1>3. \A i \in Ids : Is(i) => mem[i].val \in StageValue
  BY <1>1 DEF Is, StageObjects
<1>4. chosen \in [Ids -> StageValue \cup {"none", "deleted"}]
  BY <1>3 DEF Is
<1> QED BY <1>1, <1>2, <1>4, EditingConstants DEF Read

LEMMA EditingStarts == ASSUME Made = {}, Editing!Init PROVE EditingInv
<1>1. mem = Editing!LoadedStages(Committed) /\ disk = Committed /\ creation = Editing!NoCreation
      /\ view = Editing!Closed /\ loads = {}
      /\ chosen = [i \in Ids |-> IF mem[i] = Editing!Gone THEN "none" ELSE mem[i].val]
  <2>1. Editing!LoadedStages(Committed) = [i \in Ids |-> Editing!LoadedStages(Committed)[i]]
    BY DEF Editing!LoadedStages
  <2>2. mem = [i \in Ids |-> Editing!LoadedStages(Committed)[i]]
    BY DEF Editing!Init
  <2> QED BY <2>1, <2>2 DEF Editing!Init
<1>2. Read /\ chosen \in [Ids -> StageValue \cup {"none", "deleted"}]
  BY <1>1, CommittedRead
<1> QED BY <1>1, <1>2, ReadFits, ClosedFits DEF EditingInv, EditingTypeOK, Read

LEMMA RestartKeepsStages == ASSUME EditingInv, Editing!Restart PROVE EditingInv'
<1>1. disk' = disk /\ chosen' = chosen /\ mem' = Editing!LoadedStages(disk) /\ view' = Editing!Closed /\ loads' = {}
      /\ creation' = Editing!NoCreation
  BY DEF Editing!Restart
<1>2. EditingTypeOK /\ StagesFit
  BY DEF EditingInv
<1>3. ASSUME NEW n \in Names, disk[n] # Editing!Free
      PROVE  /\ \A other \in Names \ {n} : disk[other].id # disk[n].id
             /\ disk[n].parent # "none" => \E other \in Names : disk[other].id = disk[n].parent
             /\ disk[n].val = "unset" => disk[n].date = "none"
             /\ chosen[disk[n].id] = disk[n].val
  <2>1. disk[n].id \in Ids /\ disk[n].parent \in Ids \cup {"none"}
    BY <1>2, <1>3, EntryIs
  <2>2. \A i \in Ids : Is(i) => \E other \in Names : disk[other].id = i
    BY <1>2, ObjectIs DEF StagesFit, FilesFit, FileFits
  <2>3. CASE Is(disk[n].id) /\ mem[disk[n].id].name = n
    <3>1. \A other \in Names \ {n} : disk[other] # Editing!Free => disk[other].id # disk[n].id
      BY <1>2, <2>1, <2>3 DEF StagesFit, OwnersFit, CreationFits, Written
    <3>2. ObjectFits(disk[n].id) /\ FileFits(disk[n].id)
      BY <1>2, <2>1, <2>3 DEF StagesFit, ObjectsFit, FilesFit
    <3> QED BY <2>1, <2>2, <2>3, <3>1, <3>2, EntriesOwned, EditingConstants DEF ObjectFits, FileFits
  <2>4. CASE Written /\ creation.id = disk[n].id /\ creation.name = n
    <3>1. CreationFits /\ creation.pc # "none"
      BY <1>2, <2>4 DEF StagesFit, Written
    <3>2. /\ ~Is(disk[n].id) /\ (creation.parent # "none" => Is(creation.parent)) /\ disk[n].parent = creation.parent
          /\ disk[n].val = "unset" /\ disk[n].date = "none" /\ chosen[disk[n].id] = "unset"
      BY <2>4, <3>1 DEF CreationFits
    <3>3. \A other \in Names \ {n} : disk[other] # Editing!Free => disk[other].id # disk[n].id
      BY <1>2, <2>1, <2>4, <3>2 DEF StagesFit, OwnersFit
    <3> QED BY <2>1, <2>2, <3>2, <3>3, EntriesOwned
  <2> QED BY <1>2, <1>3, <2>3, <2>4 DEF StagesFit, OwnersFit
<1>4. ASSUME NEW i \in Ids, \A n \in Names : disk[n].id # i PROVE chosen[i] \in {"none", "deleted"}
  <2>1. ~Is(i)
    BY <1>2, <1>4, ObjectIs DEF StagesFit, FilesFit, FileFits
  <2>2. ~(Written /\ creation.id = i)
    <3> SUFFICES ASSUME Written PROVE creation.id # i
      OBVIOUS
    <3>1. creation.name \in Names
      BY <1>2 DEF EditingTypeOK, Creations, Written, Editing!NoCreation
    <3>2. disk[creation.name].id = creation.id
      BY <1>2 DEF StagesFit, CreationFits, Written
    <3> QED BY <1>4, <3>1, <3>2
  <2> QED BY <1>2, <2>1, <2>2 DEF StagesFit, GoneFits
<1>5. Read'
  BY <1>1, <1>2, <1>3, <1>4 DEF Read, EditingTypeOK
<1>6. (mem \in [Ids -> {Editing!Gone} \cup StageObjects] /\ StagesFit)'
  BY <1>5, ReadFits, PTL
<1>7. (LoadsFit /\ view \in Views /\ loads \subseteq Loaders)'
  <2>1. (loads = {} /\ view = Editing!Closed)'
    BY <1>1
  <2> QED BY <2>1, ClosedFits, PTL
<1> QED BY <1>1, <1>2, <1>6, <1>7 DEF EditingInv, EditingTypeOK

\* What is told of a stage by its object alone stays with the object.
LEMMA SameFits ==
  ASSUME EditingTypeOK, NEW i \in Ids, Is(i), ObjectFits(i), FileFits(i),
         mem'[i] = mem[i], chosen'[i] = chosen[i], disk'[mem[i].name] = disk[mem[i].name],
         mem[i].parent # "none" /\ Is(mem[i].parent) => Is(mem[i].parent)',
         \A w \in loads : w.pc = "record" /\ w.id = i /\ ~w.stale => \E v \in loads' : v.pc = "record" /\ v.id = i /\ ~v.stale
  PROVE  Is(i)' /\ ObjectFits(i)' /\ FileFits(i)' /\ DefaultOf(i)' = DefaultOf(i) /\ BaseOf(i)' = BaseOf(i)
<1>1. Is(i)' /\ DefaultOf(i)' = DefaultOf(i) /\ BaseOf(i)' = BaseOf(i)
  BY DEF Is, DefaultOf, BaseOf
<1>2. ObjectFits(i)'
  BY DEF ObjectFits
<1>3. FileFits(i)'
  BY DEF FileFits
<1> QED BY <1>1, <1>2, <1>3

\* A stage is changed in the view, saved, and its default is the one of its
\* parent.
LEMMA SavedKeeps ==
  ASSUME EditingInv, ~Editing!Busy, NEW i \in Ids, i = view.id, Is(i),
         NEW s \in StageObjects, s.id = i, s.name = mem[i].name, s.parent = "none" \/ Is(s.parent),
         NEW c \in StageValue, Editing!Serialized(s) = c, Editing!SavedDate(s) = s.date,
         NEW r \in StageObjects, r.id = i, r.name = s.name, r.parent = s.parent, r.date = s.date,
         r.explicit = (c # "unset"), r.explicit => r.val = c, ~r.explicit => r.date = "none", r.user => r.date # "none",
         ~r.explicit => r.default # "absent" /\ r.val = ValueOf(r.default),
         \/ r.default = mem[i].default /\ r.parent = mem[i].parent
         \/ r.default = IF r.parent = "none" THEN "none" ELSE "inherit",
         disk' = Editing!SaveStage(disk, s), mem' = [mem EXCEPT ![i] = r], chosen' = [chosen EXCEPT ![i] = c],
         view' \in Views, view'.id = view.id, view'.generation = view.generation, view'.base = view.base,
         view'.loading = view.loading,
         NEW checker \in Loaders, checker.kind = "check", checker.pc = "required", checker.id = i,
         loads' = loads \cup {checker},
         creation' = creation
  PROVE  EditingInv'
<1>1. EditingTypeOK /\ StagesFit /\ LoadsFit /\ ObjectFits(i) /\ FileFits(i)
  BY DEF EditingInv, StagesFit, ObjectsFit, FilesFit
<1>2. /\ mem[i].name \in Names /\ disk' \in [Names -> {Editing!Free} \cup Editing!Entries]
      /\ disk'[mem[i].name] # Editing!Free /\ disk'[mem[i].name].id = i /\ disk'[mem[i].name].parent = r.parent
      /\ disk'[mem[i].name].val = c /\ disk'[mem[i].name].date = r.date
      /\ disk'[mem[i].name].base = disk[mem[i].name].base
      /\ \A n \in Names \ {mem[i].name} : disk'[n] = disk[n]
  BY <1>1, SavedEntry, ObjectIs DEF EditingTypeOK, FileFits
<1>3. /\ mem' \in [Ids -> {Editing!Gone} \cup StageObjects] /\ mem'[i] = r /\ Is(i)'
      /\ \A j \in Ids \ {i} : mem'[j] = mem[j]
      /\ chosen' \in [Ids -> StageValue \cup {"none", "deleted"}] /\ chosen'[i] = c
      /\ \A j \in Ids \ {i} : chosen'[j] = chosen[j]
  BY <1>1, EntriesOwned DEF EditingTypeOK, Is
<1>4. \A j \in Ids : Is(j) <=> Is(j)'
  BY <1>3 DEF Is
<1>5. EditingTypeOK'
  BY <1>1, <1>2, <1>3 DEF EditingTypeOK
<1>6. \A j \in Ids : Is(j) /\ j # i => mem[j].name # mem[i].name
  BY <1>1 DEF StagesFit, FilesFit, FileFits
<1>7. ASSUME NEW j \in Ids, Is(j), j # i
      PROVE  Is(j)' /\ ObjectFits(j)' /\ FileFits(j)' /\ DefaultOf(j)' = DefaultOf(j) /\ BaseOf(j)' = BaseOf(j)
  <2>1. ObjectFits(j) /\ FileFits(j) /\ mem[j].name \in Names /\ mem[j].parent \in Ids \cup {"none"}
    BY <1>1, <1>7, ObjectIs DEF StagesFit, ObjectsFit, FilesFit
  <2>2. disk'[mem[j].name] = disk[mem[j].name] /\ (mem[j].parent # "none" /\ Is(mem[j].parent) => Is(mem[j].parent)')
    BY <1>2, <1>3, <1>4, <1>6, <1>7, <2>1 DEF FileFits, Is
  <2>3. mem'[j] = mem[j] /\ chosen'[j] = chosen[j]
    BY <1>3, <1>7
  <2> QED BY <1>1, <1>7, <2>1, <2>2, <2>3, SameFits
<1>8. ObjectFits(i)' /\ FileFits(i)'
  <2>1. ObjectFits(i)'
    BY <1>3 DEF ObjectFits, StageValue, Editing!Given
  <2>2. r.parent \in Ids \cup {"none"}
    BY DEF StageObjects
  <2>3. FileFits(i)'
    BY <1>2, <1>3, <1>4, <2>2 DEF FileFits
  <2> QED BY <2>1, <2>3
<1>9. ObjectsFit' /\ FilesFit'
  BY <1>4, <1>7, <1>8 DEF ObjectsFit, FilesFit
<1>10. OwnersFit'
  <2> SUFFICES ASSUME NEW n \in Names, disk'[n] # Editing!Free
               PROVE  \/ Is(disk[n].id)' /\ mem'[disk'[n].id].name = n
                      \/ Written' /\ creation'.id = disk'[n].id /\ creation'.name = n
    BY DEF OwnersFit
  <2>1. CASE n = mem[i].name
    BY <1>2, <1>3, <2>1
  <2>2. CASE n # mem[i].name
    <3>1. disk'[n] = disk[n] /\ disk[n].id \in Ids
      BY <1>1, <1>2, <2>2, EntryIs
    <3>2. Is(disk[n].id) /\ mem[disk[n].id].name = n => Is(disk[n].id)' /\ mem'[disk'[n].id].name = n
      BY <1>3, <1>4, <2>2, <3>1 DEF Is
    <3> QED BY <1>1, <3>1, <3>2 DEF StagesFit, OwnersFit, Written
  <2> QED BY <2>1, <2>2
<1>11. GoneFits'
  BY <1>1, <1>3, <1>4 DEF StagesFit, GoneFits, Written
<1>12. CreationFits'
  <2> SUFFICES ASSUME creation.pc # "none" PROVE CreationFits'
    BY DEF CreationFits
  <2>1. creation \in Creations
    BY <1>1 DEF EditingTypeOK, Editing!NoCreation
  <2>2. creation.id \in Ids /\ creation.parent \in Ids \cup {"none"} /\ creation.name \in Names
    BY <2>1 DEF Creations
  <2>3. creation.id # i /\ ~Is(creation.id)
    BY <1>1 DEF StagesFit, CreationFits
  <2>4. creation.pc = "save" \/ Written => creation.name # mem[i].name
    BY <1>1, <2>3 DEF StagesFit, CreationFits, FileFits
  <2>5. chosen'[creation.id] = chosen[creation.id] /\ ~Is(creation.id)' /\ (creation.parent # "none" => Is(creation.parent)')
    BY <1>1, <1>3, <1>4, <2>2, <2>3 DEF StagesFit, CreationFits
  <2>6. creation.pc = "save" \/ Written => disk'[creation.name] = disk[creation.name]
    BY <1>2, <2>2, <2>4
  <2> QED BY <1>1, <2>5, <2>6 DEF StagesFit, CreationFits, Written
<1>13. \A w \in loads : w.pc \notin {"apply", "record"}
  BY DEF Editing!Busy
<1>14. OneLoader' /\ LoadersFit'
  <2>1. OneLoader'
    BY <1>1 DEF LoadsFit, OneLoader
  <2>2. ASSUME NEW w \in loads' PROVE LoaderFits(w)'
    BY <1>1, <1>13 DEF LoadsFit, LoadersFit, LoaderFits
  <2> QED BY <2>1, <2>2 DEF LoadersFit
<1>15. BaseOf(i)' = BaseOf(i)
  BY <1>2, <1>3 DEF BaseOf
<1>16. mem[i].default = DefaultOf(i) => mem'[i].default = DefaultOf(i)'
  BY <1>3 DEF DefaultOf
<1>17. AwaitedFit'
  <2> SUFFICES ASSUME NEW w \in loads', w.kind = "load" PROVE AwaitedFits(w)'
    BY DEF AwaitedFit
  <2>1. AwaitedFits(w)
    BY <1>1 DEF LoadsFit, AwaitedFit
  <2>2. w.generation = view.generation => w.id = i
    BY <2>1 DEF AwaitedFits
  <2> QED BY <1>15, <1>16, <2>1, <2>2 DEF AwaitedFits
<1>18. ViewFits'
  BY <1>1, <1>3, <1>15, <1>16 DEF LoadsFit, ViewFits
<1>19. KnownFits'
  <2> SUFFICES ASSUME NEW w \in loads' PROVE chosen'[w.id] # "none" /\ (creation.pc # "none" => creation.id # w.id)
    BY DEF KnownFits
  <2>1. CASE w \in loads
    <3>1. w.id \in Ids
      BY <1>1, <2>1 DEF EditingTypeOK, Loaders
    <3>2. c # "none"
      BY DEF StageValue, Editing!Given
    <3> QED BY <1>1, <1>3, <2>1, <3>1, <3>2 DEF LoadsFit, KnownFits
  <2>2. CASE w = checker
    BY <1>1, <1>3, <2>2 DEF StagesFit, CreationFits, StageValue, Editing!Given
  <2> QED BY <2>1, <2>2
<1> QED BY <1>5, <1>9, <1>10, <1>11, <1>12, <1>14, <1>17, <1>18, <1>19 DEF EditingInv, StagesFit, LoadsFit

LEMMA RefreshedIs ==
  ASSUME EditingTypeOK, NEW i \in Ids, Is(i), NEW s \in StageObjects, s.id = i, s.parent = "none" \/ Is(s.parent),
         s.explicit => s.val # "unset", ~s.explicit /\ s.default = "absent" => s.val = "unset"
  PROVE  LET d == IF s.parent = "none" THEN "none" ELSE "inherit" IN
         Editing!Refreshed([mem EXCEPT ![i] = s], i) =
           [mem EXCEPT ![i] = [s EXCEPT !.val = IF s.explicit THEN s.val ELSE ValueOf(d), !.default = d]]
<1> DEFINE d == IF s.parent = "none" THEN "none" ELSE "inherit"
           m == [mem EXCEPT ![i] = s]
<1>1. m \in [Ids -> {Editing!Gone} \cup StageObjects] /\ m[i] = s /\ \A j \in Ids : m[j] # Editing!Gone <=> Is(j)
  BY EntriesOwned DEF EditingTypeOK, Is
<1>2. s.parent \in Ids \cup {"none"}
  BY DEF StageObjects
<1>3. Editing!Default(m, i) = d
  <2> HIDE DEF m
  <2> QED BY <1>1, <1>2, EditingConstants DEF Editing!Default, Editing!Live
<1>4. Editing!Refreshed(m, i) =
        [m EXCEPT ![i] = Editing!Record(Editing!Apply(Editing!Drop(m[i]), Editing!Default(m, i)), Editing!Default(m, i))]
  BY Zenon DEF Editing!Refreshed
<1>5. Editing!Refreshed(m, i) = [m EXCEPT ![i] = Editing!Record(Editing!Apply(Editing!Drop(s), d), d)]
  <2> HIDE DEF m
  <2> QED BY <1>1, <1>3, <1>4
<1>6. Editing!Record(Editing!Apply(Editing!Drop(s), d), d) =
        [s EXCEPT !.val = IF s.explicit THEN s.val ELSE ValueOf(d), !.default = d]
  BY RefreshedStage
<1> HIDE DEF d
<1>7. \A x : [m EXCEPT ![i] = x] = [mem EXCEPT ![i] = x]
  BY DEF EditingTypeOK
<1> QED BY <1>5, <1>6, <1>7 DEF d, m

\* The view after a change, and the thread that looks for what is missing.
LEMMA CheckStarts ==
  ASSUME EditingTypeOK, view.id \in Ids, NEW v \in Views, v.id = view.id
  PROVE  /\ Editing!CheckWorker(v) \in Loaders
         /\ Editing!CheckWorker(v).kind = "check" /\ Editing!CheckWorker(v).pc = "required"
         /\ Editing!CheckWorker(v).id = view.id
BY EditingConstants DEF Editing!CheckWorker, Editing!LoadWorker, Loaders, Views, Editing!NoBaseline, Editing!Baselines

LEMMA ViewAfterChange ==
  ASSUME EditingTypeOK, NEW shown \in StageValue, NEW missing \in BOOLEAN, NEW edited \in BOOLEAN,
         view' = [view EXCEPT !.required = @ + 1, !.shown = shown, !.missing = missing, !.edited = edited]
  PROVE  /\ view' \in Views /\ view'.id = view.id /\ view'.generation = view.generation /\ view'.base = view.base
         /\ view'.loading = view.loading
<1>1. view \in Views
  BY DEF EditingTypeOK
<1>2. view = [id |-> view.id, generation |-> view.generation, required |-> view.required, base |-> view.base,
              shown |-> view.shown, missing |-> view.missing, loading |-> view.loading, edited |-> view.edited]
  BY <1>1 DEF Views
<1>3. view' = [id |-> view.id, generation |-> view.generation, required |-> view.required + 1, base |-> view.base,
               shown |-> shown, missing |-> missing, loading |-> view.loading, edited |-> edited]
  BY <1>2
<1>4. view.id \in Ids \cup {Editing!Nobody} /\ view.generation \in Nat /\ view.required + 1 \in Nat
      /\ view.base \in Editing!Baselines /\ view.loading \in BOOLEAN
  BY <1>1 DEF Views
<1> QED BY <1>3, <1>4 DEF Views

\* What the view can change, and that it is alone.
LEMMA MayEditIs ==
  ASSUME EditingInv, ~Overlap, Editing!MayEdit
  PROVE  /\ EditingTypeOK /\ ~Editing!Busy /\ view.id \in Ids /\ Is(view.id) /\ ObjectFits(view.id) /\ FileFits(view.id)
         /\ mem[view.id].explicit => mem[view.id].val # "unset"
         /\ ~mem[view.id].explicit /\ mem[view.id].default = "absent" => mem[view.id].val = "unset"
<1>1. EditingTypeOK /\ ~Editing!Busy /\ view.id \in Ids /\ Is(view.id)
  BY DEF EditingInv, EditingTypeOK, Views, Editing!MayEdit, LoadsFit, ViewFits
<1>2. ObjectFits(view.id) /\ FileFits(view.id)
  BY <1>1 DEF EditingInv, StagesFit, ObjectsFit, FilesFit
<1> QED BY <1>1, <1>2 DEF ObjectFits, Editing!Busy

LEMMA SavesKeeps ==
  ASSUME EditingInv, ~Overlap, Editing!MayEdit,
         NEW s \in StageObjects, s.id = view.id, s.name = mem[view.id].name, s.parent = "none" \/ Is(s.parent),
         NEW c \in StageValue, s.explicit = (c # "unset"), s.explicit => s.val = c, ~s.explicit => s.date = "none",
         ~s.explicit /\ s.default = "absent" => s.val = "unset", s.user => s.date # "none",
         Editing!Saves(s), chosen' = [chosen EXCEPT ![view.id] = c], creation' = creation
  PROVE  EditingInv'
<1> DEFINE d == IF s.parent = "none" THEN "none" ELSE "inherit"
           r == [s EXCEPT !.val = IF s.explicit THEN s.val ELSE ValueOf(d), !.default = d]
<1>1. EditingTypeOK /\ ~Editing!Busy /\ view.id \in Ids /\ Is(view.id)
  BY MayEditIs
<1>2. mem' = [mem EXCEPT ![view.id] = r]
  <2>1. s.explicit => s.val # "unset"
    OBVIOUS
  <2>2. mem' = Editing!Refreshed([mem EXCEPT ![view.id] = s], view.id)
    BY DEF Editing!Saves
  <2> QED BY <1>1, <2>1, <2>2, RefreshedIs
<1>3. /\ r \in StageObjects /\ r.id = s.id /\ r.name = s.name /\ r.parent = s.parent /\ r.date = s.date /\ r.user = s.user
      /\ r.explicit = s.explicit /\ r.val = (IF s.explicit THEN s.val ELSE ValueOf(d)) /\ r.default = d
  BY DEF StageObjects, ValueOf, StageValue
<1> HIDE DEF r
<1>4. mem'[view.id] = r
  BY <1>1, <1>2 DEF EditingTypeOK
<1>5. view' = [view EXCEPT !.required = @ + 1, !.shown = r.val, !.missing = view.missing, !.edited = view.edited \/ view.loading]
  BY <1>1, <1>4 DEF Editing!Saves, Editing!StartCheck, EditingTypeOK, Views
<1>6. r.val \in StageValue /\ view.missing \in BOOLEAN /\ (view.edited \/ view.loading) \in BOOLEAN
  BY <1>1, <1>3 DEF StageObjects, EditingTypeOK, Views
<1>7. /\ view' \in Views /\ view'.id = view.id /\ view'.generation = view.generation /\ view'.base = view.base
      /\ view'.loading = view.loading
  BY <1>1, <1>5, <1>6, ViewAfterChange
<1>8. loads' = loads \cup {Editing!CheckWorker(view')}
  BY DEF Editing!Saves
<1>9. disk' = Editing!SaveStage(disk, s)
  BY DEF Editing!Saves
<1>10. Editing!Serialized(s) = c /\ Editing!SavedDate(s) = s.date
  BY DEF Editing!Serialized, Editing!SavedDate, StageObjects
<1>11. /\ Editing!CheckWorker(view') \in Loaders /\ Editing!CheckWorker(view').kind = "check"
       /\ Editing!CheckWorker(view').pc = "required" /\ Editing!CheckWorker(view').id = view.id
  BY <1>1, <1>7, CheckStarts
<1>12. r.id = view.id /\ r.explicit = (c # "unset") /\ (r.explicit => r.val = c) /\ (~r.explicit => r.date = "none")
       /\ (r.user => r.date # "none") /\ (~r.explicit => r.default # "absent" /\ r.val = ValueOf(r.default))
       /\ r.default = IF r.parent = "none" THEN "none" ELSE "inherit"
  BY <1>3
<1> QED BY <1>1, <1>2, <1>3, <1>7, <1>8, <1>9, <1>10, <1>11, <1>12, SavedKeeps

LEMMA EditKeeps == ASSUME EditingInv, ~Overlap, NEW val \in Editing!Given, Editing!Edit(val) PROVE EditingInv'
<1> DEFINE i == view.id
           s == Editing!Changed(mem[i], val)
<1>1. Editing!MayEdit /\ Editing!Saves(s) /\ chosen' = [chosen EXCEPT ![i] = val] /\ creation' = creation
  BY DEF Editing!Edit
<1>2. EditingTypeOK /\ i \in Ids /\ Is(i) /\ ObjectFits(i) /\ FileFits(i)
  BY <1>1, MayEditIs
<1>3. mem[i] \in StageObjects /\ mem[i].parent \in Ids \cup {"none"} /\ val \in StageValue /\ val # "unset"
  BY <1>2, ObjectIs DEF StageValue, Editing!Given
<1>4. /\ s \in StageObjects /\ s.id = mem[i].id /\ s.name = mem[i].name /\ s.parent = mem[i].parent /\ s.val = val
      /\ s.explicit = TRUE /\ s.date = "edit"
  BY <1>3, EditingConstants DEF Editing!Changed, StageObjects
<1> HIDE DEF s, i
<1>5. s.id = i /\ (s.parent = "none" \/ Is(s.parent))
  BY <1>2, <1>4 DEF ObjectFits, FileFits
<1> QED BY <1>1, <1>3, <1>4, <1>5, SavesKeeps DEF i

LEMMA EditParentKeeps ==
  ASSUME EditingInv, ~Overlap, NEW seed \in Editing!PossibleSeeds(mem, view.id), Editing!EditParent(seed)
  PROVE  EditingInv'
<1> DEFINE i == view.id
           s == [mem[i] EXCEPT !.parent = seed]
<1>1. Editing!MayEdit /\ Editing!Saves(s) /\ chosen' = chosen /\ creation' = creation
  BY DEF Editing!EditParent
<1>2. EditingTypeOK /\ i \in Ids /\ Is(i) /\ ObjectFits(i) /\ FileFits(i)
      /\ (~mem[i].explicit /\ mem[i].default = "absent" => mem[i].val = "unset")
  BY <1>1, MayEditIs
<1>3. mem[i] \in StageObjects /\ seed \in Ids /\ Is(seed)
  BY <1>2, ObjectIs DEF Editing!PossibleSeeds, Editing!Live, Is
<1>4. /\ s \in StageObjects /\ s.id = mem[i].id /\ s.name = mem[i].name /\ s.parent = seed /\ s.val = mem[i].val
      /\ s.explicit = mem[i].explicit /\ s.date = mem[i].date /\ s.user = mem[i].user /\ s.default = mem[i].default
  BY <1>3 DEF StageObjects
<1> HIDE DEF s, i
<1>5. chosen[i] \in StageValue /\ chosen' = [chosen EXCEPT ![i] = chosen[i]]
  BY <1>1, <1>2 DEF EditingTypeOK, ObjectFits
<1>6. /\ s.id = i /\ s.explicit = (chosen[i] # "unset") /\ (s.explicit => s.val = chosen[i])
      /\ (~s.explicit => s.date = "none") /\ (s.user => s.date # "none")
      /\ (~s.explicit /\ s.default = "absent" => s.val = "unset")
  BY <1>2, <1>4 DEF ObjectFits
<1> QED BY <1>1, <1>3, <1>4, <1>5, <1>6, SavesKeeps DEF i

LEMMA RestoreKeeps == ASSUME EditingInv, ~Overlap, Editing!Restore PROVE EditingInv'
<1> DEFINE i == view.id
           base == view.base
           s == IF base.val # "missing" THEN Editing!RestoredSource(mem[i], base) ELSE Editing!Removed(mem[i])
           d == IF s.parent = "none" THEN "none" ELSE "inherit"
           absent == [s EXCEPT !.default = "absent"]
           r == IF base.val # "missing" THEN s ELSE [s EXCEPT !.val = ValueOf(d), !.default = d]
<1>1. /\ Editing!MayEdit /\ chosen' = [chosen EXCEPT ![i] = s.val] /\ creation' = creation /\ disk' = Editing!SaveStage(disk, s)
      /\ mem' = IF base.val # "missing" THEN [mem EXCEPT ![i] = s]
                ELSE Editing!Refreshed([[mem EXCEPT ![i] = s] EXCEPT ![i].default = "absent"], i)
      /\ view' = [Editing!StartCheck(Editing!LoadRows(view, mem', FALSE)) EXCEPT !.edited = view.edited \/ view.loading]
      /\ loads' = loads \cup {Editing!CheckWorker(view')}
  BY DEF Editing!Restore
<1>2. EditingTypeOK /\ ~Editing!Busy /\ i \in Ids /\ Is(i) /\ ObjectFits(i) /\ FileFits(i)
  BY <1>1, MayEditIs
<1>3. mem[i] \in StageObjects /\ base \in Editing!Baselines /\ base.val \in Editing!Given \cup {"inherit", "missing"}
      /\ base.date \in Dates
  BY <1>2, ObjectIs DEF EditingTypeOK, Views, Editing!Baselines
<1>4. /\ s \in StageObjects /\ s.id = i /\ s.name = mem[i].name /\ s.parent = mem[i].parent
      /\ s.default = mem[i].default /\ s.user = FALSE
      /\ base.val # "missing" => s.val = base.val /\ s.explicit = TRUE
      /\ base.val = "missing" => s.val = "unset" /\ s.explicit = FALSE /\ s.date = "none"
  <2>1. CASE base.val # "missing"
    <3>1. s = [mem[i] EXCEPT !.val = base.val, !.explicit = TRUE, !.user = FALSE, !.date = base.date]
      BY <1>3, <2>1 DEF Editing!RestoredSource, Editing!Changed, StageObjects
    <3>2. base.val \in StageValue
      BY <1>3, <2>1 DEF StageValue
    <3> QED BY <1>2, <1>3, <2>1, <3>1, <3>2 DEF StageObjects, ObjectFits
  <2>2. CASE base.val = "missing"
    <3>1. s = [mem[i] EXCEPT !.val = "unset", !.explicit = FALSE, !.user = FALSE, !.date = "none"]
      BY <2>2 DEF Editing!Removed
    <3>2. "unset" \in StageValue /\ "none" \in Dates
      BY EditingConstants DEF StageValue
    <3> QED BY <1>2, <1>3, <2>2, <3>1, <3>2 DEF StageObjects, ObjectFits
  <2> QED BY <2>1, <2>2
<1> HIDE DEF s
<1>5. s.parent = "none" \/ Is(s.parent)
  BY <1>2, <1>4 DEF FileFits
<1>6. /\ absent \in StageObjects /\ absent.id = s.id /\ absent.name = s.name /\ absent.parent = s.parent /\ absent.val = s.val
      /\ absent.explicit = s.explicit /\ absent.default = "absent"
      /\ [absent EXCEPT !.val = ValueOf(d), !.default = d] = [s EXCEPT !.val = ValueOf(d), !.default = d]
  BY <1>4 DEF StageObjects
<1>7. mem' = [mem EXCEPT ![i] = r]
  <2>1. CASE base.val # "missing"
    BY <1>1, <2>1
  <2>2. CASE base.val = "missing"
    <3>1. [[mem EXCEPT ![i] = s] EXCEPT ![i].default = "absent"] = [mem EXCEPT ![i] = absent]
      BY <1>2 DEF EditingTypeOK
    <3> HIDE DEF absent
    <3>2. /\ absent \in StageObjects /\ absent.id = i /\ absent.parent = s.parent /\ ~absent.explicit
          /\ (absent.parent = "none" \/ Is(absent.parent)) /\ (absent.explicit => absent.val # "unset")
          /\ ~absent.explicit /\ absent.default = "absent" => absent.val = "unset"
      BY <1>4, <1>5, <1>6, <2>2
    <3>3. d = IF absent.parent = "none" THEN "none" ELSE "inherit"
      BY <3>2
    <3> HIDE DEF d
    <3>4. Editing!Refreshed([mem EXCEPT ![i] = absent], i) =
            [mem EXCEPT ![i] = [absent EXCEPT !.val = IF absent.explicit THEN absent.val ELSE ValueOf(d), !.default = d]]
      BY <1>2, <3>2, <3>3, RefreshedIs
    <3>5. [absent EXCEPT !.val = IF absent.explicit THEN absent.val ELSE ValueOf(d), !.default = d] =
            [absent EXCEPT !.val = ValueOf(d), !.default = d]
      BY <3>2
    <3> QED BY <1>1, <1>6, <2>2, <3>1, <3>4, <3>5
  <2> QED BY <2>1, <2>2
<1>8. /\ r \in StageObjects /\ r.id = s.id /\ r.name = s.name /\ r.parent = s.parent /\ r.date = s.date /\ r.user = FALSE
      /\ r.explicit = s.explicit
      /\ base.val # "missing" => r.val = s.val /\ r.default = mem[i].default
      /\ base.val = "missing" => r.val = ValueOf(d) /\ r.default = d
  BY <1>4 DEF StageObjects, ValueOf, StageValue
<1> HIDE DEF r
<1>9. mem'[i] = r
  BY <1>2, <1>7 DEF EditingTypeOK
<1>10. view' = [view EXCEPT !.required = @ + 1, !.shown = r.val, !.missing = FALSE, !.edited = view.edited \/ view.loading]
  BY <1>1, <1>2, <1>9 DEF Editing!StartCheck, Editing!LoadRows, EditingTypeOK, Views
<1>11. /\ view' \in Views /\ view'.id = view.id /\ view'.generation = view.generation /\ view'.base = view.base
       /\ view'.loading = view.loading
  <2>1. r.val \in StageValue /\ (view.edited \/ view.loading) \in BOOLEAN
    BY <1>2, <1>8 DEF StageObjects, EditingTypeOK, Views
  <2> QED BY <1>2, <1>10, <2>1, ViewAfterChange
<1>12. Editing!Serialized(s) = s.val /\ Editing!SavedDate(s) = s.date /\ s.val \in StageValue
       /\ s.explicit = (s.val # "unset")
  BY <1>3, <1>4 DEF Editing!Serialized, Editing!SavedDate, StageObjects, Editing!Given
<1>13. /\ Editing!CheckWorker(view') \in Loaders /\ Editing!CheckWorker(view').kind = "check"
       /\ Editing!CheckWorker(view').pc = "required" /\ Editing!CheckWorker(view').id = i
  BY <1>2, <1>11, CheckStarts
<1>14. /\ r.explicit = (s.val # "unset") /\ (r.explicit => r.val = s.val) /\ (~r.explicit => r.date = "none")
       /\ ~r.user /\ (~r.explicit => r.default # "absent" /\ r.val = ValueOf(r.default))
       /\ \/ r.default = mem[i].default /\ r.parent = mem[i].parent
          \/ r.default = IF r.parent = "none" THEN "none" ELSE "inherit"
  BY <1>3, <1>4, <1>8, <1>12 DEF StageObjects, Editing!Given
<1> HIDE DEF d, base, absent
<1>15. s \in StageObjects /\ s.id = i /\ s.name = mem[i].name /\ r.id = i /\ r.name = s.name /\ r.parent = s.parent /\ r.date = s.date
  BY <1>4, <1>8
<1>16. disk' = Editing!SaveStage(disk, s) /\ chosen' = [chosen EXCEPT ![i] = s.val] /\ creation' = creation
       /\ loads' = loads \cup {Editing!CheckWorker(view')}
  BY <1>1
<1> QED BY <1>2, <1>5, <1>7, <1>8, <1>11, <1>12, <1>13, <1>14, <1>15, <1>16, SavedKeeps

\* A thread goes on, and has changed nothing.
LEMMA LoaderPasses ==
  ASSUME EditingInv, NEW w \in loads, NEW v \in Loaders, loads' = (loads \ {w}) \cup {v},
         v.kind = w.kind, v.id = w.id, v.generation = w.generation, v.stale = w.stale,
         UNCHANGED <<disk, mem, view, creation, chosen>>,
         w.pc = "record" => w.stale \/ ~Is(w.id), v.pc \in {"apply", "record"} => v.stale \/ ~Is(v.id),
         w.kind = "check" => v.pc \in {"required", "deliver"},
         w.kind = "load" /\ w.generation = view.generation =>
           /\ v.pc # "baseline" => v.base = BaseOf(w.id)
           /\ v.pc \in {"required", "deliver"} => mem[w.id].default = DefaultOf(w.id)
  PROVE  EditingInv'
<1>1. EditingTypeOK /\ StagesFit /\ LoadsFit
  BY DEF EditingInv
<1>2. EditingTypeOK'
  BY <1>1 DEF EditingTypeOK
<1>3. \A i : Is(i)' <=> Is(i)
  BY DEF Is
<1>4. \A i : DefaultOf(i)' = DefaultOf(i) /\ BaseOf(i)' = BaseOf(i)
  BY DEF DefaultOf, BaseOf
<1>5. StagesFit'
  <2>1. ObjectsFit'
    <3> SUFFICES ASSUME NEW i \in Ids, Is(i) PROVE ObjectFits(i)'
      BY <1>3 DEF ObjectsFit
    <3>1. ObjectFits(i)
      BY <1>1 DEF StagesFit, ObjectsFit
    <3>2. \A x \in loads : x.pc = "record" /\ x.id = i /\ ~x.stale => x \in loads'
      OBVIOUS
    <3> QED BY <3>1, <3>2 DEF ObjectFits
  <2>2. FilesFit' /\ OwnersFit' /\ GoneFits' /\ CreationFits'
    BY <1>1 DEF StagesFit, FilesFit, FileFits, OwnersFit, GoneFits, CreationFits, Written, Is
  <2> QED BY <2>1, <2>2 DEF StagesFit
<1>6. OneLoader'
  BY <1>1 DEF LoadsFit, OneLoader
<1>7. LoadersFit'
  <2> SUFFICES ASSUME NEW x \in loads' PROVE LoaderFits(x)'
    BY DEF LoadersFit
  <2>1. CASE x \in loads
    BY <1>1, <2>1 DEF LoadsFit, LoadersFit, LoaderFits, Is, DefaultOf
  <2>2. CASE x = v
    BY <2>2 DEF LoaderFits, Is
  <2> QED BY <2>1, <2>2
<1>8. AwaitedFit'
  <2> SUFFICES ASSUME NEW x \in loads', x.kind = "load" PROVE AwaitedFits(x)'
    BY DEF AwaitedFit
  <2>1. CASE x \in loads
    <3>1. AwaitedFits(x)
      BY <1>1, <2>1 DEF LoadsFit, AwaitedFit
    <3> QED BY <1>4, <3>1 DEF AwaitedFits
  <2>2. CASE x = v
    <3>1. AwaitedFits(w)
      BY <1>1, <2>2 DEF LoadsFit, AwaitedFit
    <3> QED BY <1>4, <2>2, <3>1 DEF AwaitedFits
  <2> QED BY <2>1, <2>2
<1>9. ViewFits'
  BY <1>1, <1>3, <1>4 DEF LoadsFit, ViewFits
<1>10. KnownFits'
  BY <1>1 DEF LoadsFit, KnownFits
<1> QED BY <1>2, <1>5, <1>6, <1>7, <1>8, <1>9, <1>10 DEF EditingInv, LoadsFit

\* The one thread that calculates takes a step of the calculation.
LEMMA LoaderChanges ==
  ASSUME EditingInv, NEW w \in loads, w.kind = "load", ~w.stale, Is(w.id), w.pc # "baseline",
         NEW pc \in {"apply", "record", "required"}, loads' = (loads \ {w}) \cup {[w EXCEPT !.pc = pc]},
         UNCHANGED <<disk, view, creation, chosen>>,
         NEW t \in StageObjects, mem' = [mem EXCEPT ![w.id] = t],
         t.id = mem[w.id].id, t.name = mem[w.id].name, t.parent = mem[w.id].parent, t.explicit = mem[w.id].explicit,
         t.user = mem[w.id].user, t.date = mem[w.id].date, t.explicit => t.val = mem[w.id].val,
         t.default = IF pc = "required" THEN DefaultOf(w.id) ELSE "absent",
         ~t.explicit => t.val = IF pc = "apply" THEN "unset" ELSE ValueOf(DefaultOf(w.id))
  PROVE  EditingInv'
<1> DEFINE i == w.id
           v == [w EXCEPT !.pc = pc]
<1>1. EditingTypeOK /\ StagesFit /\ LoadsFit
  BY DEF EditingInv
<1>2. w \in Loaders /\ i \in Ids
  BY <1>1 DEF EditingTypeOK, Loaders
<1>3. /\ v \in Loaders /\ v.kind = "load" /\ v.id = i /\ v.generation = w.generation /\ v.stale = w.stale /\ v.pc = pc
      /\ v.base = w.base
  BY <1>2 DEF Loaders
<1>4. /\ mem' \in [Ids -> {Editing!Gone} \cup StageObjects] /\ mem'[i] = t /\ Is(i)'
      /\ \A j \in Ids \ {i} : mem'[j] = mem[j]
  BY <1>1, <1>2, EntriesOwned DEF EditingTypeOK, Is
<1>5. \A j \in Ids : Is(j) <=> Is(j)'
  BY <1>4 DEF Is
<1>6. EditingTypeOK'
  BY <1>1, <1>3, <1>4 DEF EditingTypeOK
<1>7. \A x \in loads : x.kind = "load" /\ ~x.stale => x = w
  BY <1>1 DEF LoadsFit, OneLoader
<1>8. \A x \in loads : x.pc \in {"apply", "record"} /\ ~x.stale => x = w
  BY <1>1, <1>7 DEF LoadsFit, LoadersFit, LoaderFits, EditingTypeOK, Loaders
<1>9. \A j \in Ids : DefaultOf(j)' = DefaultOf(j) /\ BaseOf(j)' = BaseOf(j)
  BY <1>4 DEF DefaultOf, BaseOf
<1>10. ObjectsFit' /\ FilesFit'
  <2> SUFFICES ASSUME NEW j \in Ids, Is(j) PROVE ObjectFits(j)' /\ FileFits(j)'
    BY <1>5 DEF ObjectsFit, FilesFit
  <2>1. ObjectFits(j) /\ FileFits(j) /\ mem[j].parent \in Ids \cup {"none"}
    BY <1>1, ObjectIs DEF StagesFit, ObjectsFit, FilesFit
  <2>2. CASE j # i
    <3>1. \A x \in loads : x.pc = "record" /\ x.id = j /\ ~x.stale => \E y \in loads' : y.pc = "record" /\ y.id = j /\ ~y.stale
      BY <1>8, <2>2
    <3>2. mem'[j] = mem[j] /\ chosen'[j] = chosen[j] /\ disk'[mem[j].name] = disk[mem[j].name]
      BY <1>4, <2>2
    <3>3. mem[j].parent # "none" /\ Is(mem[j].parent) => Is(mem[j].parent)'
      BY <1>5, <2>1
    <3> QED BY <1>1, <2>1, <3>1, <3>2, <3>3, SameFits
  <2>3. CASE j = i
    <3>1. pc = "record" => \E x \in loads' : x.pc = "record" /\ x.id = i /\ ~x.stale
      BY <1>3
    <3>2. ObjectFits(i)'
      BY <1>4, <2>1, <2>3, <3>1 DEF ObjectFits, DefaultOf, ValueOf
    <3>3. FileFits(i)'
      BY <1>4, <1>5, <2>1, <2>3 DEF FileFits
    <3> QED BY <2>3, <3>2, <3>3
  <2> QED BY <2>2, <2>3
<1>11. OwnersFit'
  <2> SUFFICES ASSUME NEW n \in Names, disk[n] # Editing!Free
               PROVE  \/ Is(disk[n].id)' /\ mem'[disk[n].id].name = n
                      \/ Written /\ creation.id = disk[n].id /\ creation.name = n
    BY DEF OwnersFit, Written
  <2>1. disk[n].id \in Ids
    BY <1>1, EntryIs
  <2>2. mem'[disk[n].id].name = mem[disk[n].id].name \/ ~Is(disk[n].id)
    BY <1>4, <2>1
  <2> QED BY <1>1, <1>5, <2>1, <2>2 DEF StagesFit, OwnersFit
<1>12. GoneFits'
  BY <1>1, <1>5 DEF StagesFit, GoneFits, Written
<1>13. CreationFits'
  <2> SUFFICES ASSUME creation.pc # "none" PROVE CreationFits'
    BY DEF CreationFits
  <2>1. creation.id \in Ids /\ creation.parent \in Ids \cup {"none"}
    BY <1>1 DEF EditingTypeOK, Editing!NoCreation, Creations
  <2> QED BY <1>1, <1>5, <2>1 DEF StagesFit, CreationFits, Written
<1>14. OneLoader'
  BY <1>7 DEF OneLoader
<1>15. LoadersFit'
  <2> SUFFICES ASSUME NEW x \in loads' PROVE LoaderFits(x)'
    BY DEF LoadersFit
  <2>1. CASE x \in loads /\ x # w
    BY <1>1, <1>8, <2>1 DEF LoadsFit, LoadersFit, LoaderFits
  <2>2. CASE x = v
    BY <1>2, <1>3, <1>4, <1>9, <2>2 DEF LoaderFits
  <2> QED BY <2>1, <2>2
<1>16. AwaitedFit'
  <2> SUFFICES ASSUME NEW x \in loads', x.kind = "load" PROVE AwaitedFits(x)'
    BY DEF AwaitedFit
  <2>1. CASE x \in loads /\ x # w
    BY <1>1, <1>7, <2>1 DEF LoadsFit, AwaitedFit, AwaitedFits
  <2>2. CASE x = v
    <3>1. AwaitedFits(w)
      BY <1>1 DEF LoadsFit, AwaitedFit
    <3> QED BY <1>2, <1>3, <1>4, <1>9, <2>2, <3>1 DEF AwaitedFits
  <2> QED BY <2>1, <2>2
<1>17. ViewFits'
  <2>1. view.id # Editing!Nobody => view.loading
    BY <1>1 DEF LoadsFit, AwaitedFit, AwaitedFits
  <2>2. view.id \in Ids \cup {Editing!Nobody}
    BY <1>1 DEF EditingTypeOK, Views
  <2> QED BY <1>1, <1>5, <2>1, <2>2 DEF LoadsFit, ViewFits
<1>18. KnownFits'
  <2> SUFFICES ASSUME NEW x \in loads' PROVE chosen[x.id] # "none" /\ (creation.pc # "none" => creation.id # x.id)
    BY DEF KnownFits
  <2>1. x \in loads \/ x.id = i
    BY <1>3
  <2> QED BY <1>1, <2>1 DEF LoadsFit, KnownFits
<1> QED BY <1>6, <1>10, <1>11, <1>12, <1>13, <1>14, <1>15, <1>16, <1>17, <1>18 DEF EditingInv, StagesFit, LoadsFit

LEMMA BaselineTyped == ASSUME EditingTypeOK, NEW i \in Ids PROVE Editing!Baseline(i) \in Editing!Baselines
<1> DEFINE own == {n \in Editing!Dirs : disk[n].id = i /\ disk[n].base # Editing!NoBaseline}
<1>1. Editing!Baseline(i) = IF Origin[i].kind = "template" \/ own = {} THEN Origin[i] ELSE disk[CHOOSE n \in own : TRUE].base
  BY DEF Editing!Baseline
<1>2. own # {} => (CHOOSE n \in own : TRUE) \in own
  OBVIOUS
<1>3. \A n \in own : disk[n].base \in Editing!Baselines
  BY EntryIs DEF Editing!Dirs
<1> HIDE DEF own
<1> QED BY <1>1, <1>2, <1>3, EditingConstants

LEMMA LoaderKeeps == ASSUME EditingInv, Editing!Thread PROVE EditingInv'
<1>1. EditingTypeOK /\ StagesFit /\ LoadsFit /\ UNCHANGED <<disk, view, creation, chosen>>
  BY DEF EditingInv, Editing!Thread
<1>2. PICK w \in loads : \/ Editing!LoadsBaseline(w) \/ Editing!LoadDrops(w) \/ Editing!LoadApplies(w) \/ Editing!LoadRecords(w)
                         \/ Editing!ChecksRequired(w)
  BY DEF Editing!Thread
<1> DEFINE i == w.id
<1>3. w \in Loaders /\ i \in Ids /\ LoaderFits(w) /\ (w.kind = "load" => AwaitedFits(w)) /\ w.kind \in {"load", "check"}
  BY <1>1 DEF EditingTypeOK, Loaders, LoadsFit, LoadersFit, AwaitedFit
<1>4. Is(i) => mem[i] \in StageObjects /\ ObjectFits(i) /\ Editing!Default(mem, i) = DefaultOf(i)
  BY <1>1, <1>3, DefaultIs, ObjectIs DEF StagesFit, ObjectsFit, FilesFit, FileFits
<1>5. \A pc \in {"apply", "record", "required"} :
        LET v == [w EXCEPT !.pc = pc] IN
        v \in Loaders /\ v.kind = w.kind /\ v.id = i /\ v.generation = w.generation /\ v.stale = w.stale /\ v.pc = pc /\ v.base = w.base
  BY <1>3 DEF Loaders
\* A thread of a stage that is gone, or of an old object, changes nothing.
<1>6. ASSUME NEW pc \in {"apply", "record", "required"}, ~Editing!Current(w), mem' = mem, w.kind = "load", w.pc # "baseline",
             loads' = (loads \ {w}) \cup {[w EXCEPT !.pc = pc]}
      PROVE  EditingInv'
  <2>1. w.stale \/ ~Is(i)
    BY <1>6 DEF Editing!Current, Is
  <2>2. w.generation # view.generation
    <3> SUFFICES ASSUME w.generation = view.generation PROVE FALSE
      OBVIOUS
    <3>1. view.id = i /\ ~w.stale
      BY <1>3, <1>6 DEF AwaitedFits
    <3>2. view.id # Editing!Nobody
      BY <1>3, <3>1, EditingConstants
    <3> QED BY <1>1, <2>1, <3>1, <3>2 DEF LoadsFit, ViewFits
  <2> DEFINE v == [w EXCEPT !.pc = pc]
  <2>3. v \in Loaders /\ v.kind = w.kind /\ v.id = i /\ v.generation = w.generation /\ v.stale = w.stale /\ loads' = (loads \ {w}) \cup {v}
    BY <1>5, <1>6
  <2> HIDE DEF v
  <2> QED BY <1>1, <1>6, <2>1, <2>2, <2>3, LoaderPasses
<1>7. CASE Editing!LoadsBaseline(w)
  <2> DEFINE v == [w EXCEPT !.base = Editing!Baseline(i), !.pc = "drop"]
  <2>1. w.pc = "baseline" /\ loads' = (loads \ {w}) \cup {v} /\ mem' = mem /\ w.kind = "load"
    BY <1>3, <1>7 DEF Editing!LoadsBaseline, LoaderFits
  <2>2. Editing!Baseline(i) \in Editing!Baselines
    BY <1>1, <1>3, BaselineTyped
  <2>3. /\ v \in Loaders /\ v.kind = w.kind /\ v.id = i /\ v.generation = w.generation /\ v.stale = w.stale /\ v.pc = "drop"
        /\ v.base = Editing!Baseline(i)
    BY <1>3, <2>2 DEF Loaders
  <2>4. w.generation = view.generation => v.base = BaseOf(i)
    <3> SUFFICES ASSUME w.generation = view.generation PROVE v.base = BaseOf(i)
      OBVIOUS
    <3>1. view.id = i /\ view.id # Editing!Nobody
      BY <1>3, <2>1, EditingConstants DEF AwaitedFits
    <3>2. Is(i)
      BY <1>1, <3>1 DEF LoadsFit, ViewFits
    <3> QED BY <1>1, <1>3, <2>3, <3>2, BaselineIs
  <2> HIDE DEF v
  <2> QED BY <1>1, <2>1, <2>3, <2>4, LoaderPasses
<1>8. CASE Editing!LoadDrops(w)
  <2> DEFINE t == Editing!Drop(mem[i])
  <2>1. w.pc = "drop" /\ loads' = (loads \ {w}) \cup {[w EXCEPT !.pc = "apply"]} /\ w.kind = "load"
        /\ mem' = IF Editing!Current(w) THEN [mem EXCEPT ![i] = t] ELSE mem
    BY <1>3, <1>8 DEF Editing!LoadDrops, Editing!Step, LoaderFits
  <2>2. CASE Editing!Current(w)
    <3>1. ~w.stale /\ Is(i)
      BY <2>2 DEF Editing!Current, Is
    <3>2. t = [mem[i] EXCEPT !.val = IF mem[i].default # "absent" /\ ~mem[i].explicit THEN "unset" ELSE mem[i].val, !.default = "absent"]
      BY <1>4, <3>1 DEF Editing!Drop, StageObjects
    <3>3. ~mem[i].explicit /\ mem[i].default = "absent" => mem[i].val = "unset"
      <4>1. \A x \in loads : x.pc = "record" /\ ~x.stale => x.kind = "load"
        BY <1>1 DEF LoadsFit, LoadersFit, LoaderFits, EditingTypeOK, Loaders
      <4>2. \A x \in loads : ~(x.pc = "record" /\ x.id = i /\ ~x.stale)
        BY <1>1, <2>1, <3>1, <4>1 DEF LoadsFit, OneLoader
      <4> QED BY <1>4, <3>1, <4>2 DEF ObjectFits
    <3>4. /\ t \in StageObjects /\ t.id = mem[i].id /\ t.name = mem[i].name /\ t.parent = mem[i].parent
          /\ t.explicit = mem[i].explicit /\ t.user = mem[i].user /\ t.date = mem[i].date /\ t.default = "absent"
          /\ t.val = IF mem[i].default # "absent" /\ ~mem[i].explicit THEN "unset" ELSE mem[i].val
      <4>1. "unset" \in StageValue
        BY DEF StageValue
      <4> HIDE DEF t
      <4> QED BY <1>4, <3>1, <3>2, <4>1 DEF StageObjects
    <3> HIDE DEF t
    <3>5. mem' = [mem EXCEPT ![i] = t]
      BY <2>1, <2>2
    <3>6. ~t.explicit => t.val = "unset"
      BY <1>4, <3>1, <3>3, <3>4 DEF StageObjects
    <3>7. t.explicit => t.val = mem[i].val
      BY <3>4
    <3> QED BY <1>1, <2>1, <3>1, <3>4, <3>5, <3>6, <3>7, LoaderChanges
  <2>3. CASE ~Editing!Current(w)
    BY <1>6, <2>1, <2>3
  <2> QED BY <2>2, <2>3
<1>9. CASE Editing!LoadApplies(w)
  <2> DEFINE t == Editing!Apply(mem[i], Editing!Default(mem, i))
  <2>1. w.pc = "apply" /\ loads' = (loads \ {w}) \cup {[w EXCEPT !.pc = "record"]} /\ w.kind = "load"
        /\ mem' = IF Editing!Current(w) THEN [mem EXCEPT ![i] = t] ELSE mem
    BY <1>3, <1>9 DEF Editing!LoadApplies, Editing!Step, LoaderFits
  <2>2. CASE Editing!Current(w)
    <3>1. ~w.stale /\ Is(i)
      BY <2>2 DEF Editing!Current, Is
    <3>2. t = [mem[i] EXCEPT !.val = IF mem[i].val = "unset" /\ DefaultOf(i) # "none" THEN DefaultOf(i) ELSE mem[i].val]
      BY <1>4, <3>1 DEF Editing!Apply, StageObjects
    <3>3. mem[i].default = "absent" /\ (~mem[i].explicit => mem[i].val = "unset") /\ (mem[i].explicit => mem[i].val # "unset")
      BY <1>3, <1>4, <2>1, <3>1 DEF LoaderFits, ObjectFits
    <3>4. /\ t \in StageObjects /\ t.id = mem[i].id /\ t.name = mem[i].name /\ t.parent = mem[i].parent
          /\ t.explicit = mem[i].explicit /\ t.user = mem[i].user /\ t.date = mem[i].date /\ t.default = "absent"
          /\ t.val = IF mem[i].val = "unset" /\ DefaultOf(i) # "none" THEN DefaultOf(i) ELSE mem[i].val
      <4>1. DefaultOf(i) \in {"none", "inherit"} /\ "inherit" \in StageValue
        BY DEF StageValue, DefaultOf
      <4> HIDE DEF t
      <4> QED BY <1>4, <3>1, <3>2, <3>3, <4>1 DEF StageObjects
    <3> HIDE DEF t
    <3>5. mem' = [mem EXCEPT ![i] = t]
      BY <2>1, <2>2
    <3>6. ~t.explicit => t.val = ValueOf(DefaultOf(i))
      BY <3>3, <3>4 DEF ValueOf, DefaultOf
    <3>7. t.explicit => t.val = mem[i].val
      BY <3>3, <3>4
    <3> QED BY <1>1, <2>1, <3>1, <3>4, <3>5, <3>6, <3>7, LoaderChanges
  <2>3. CASE ~Editing!Current(w)
    BY <1>6, <2>1, <2>3
  <2> QED BY <2>2, <2>3
<1>10. CASE Editing!LoadRecords(w)
  <2> DEFINE t == Editing!Record(mem[i], Editing!Default(mem, i))
  <2>1. w.pc = "record" /\ loads' = (loads \ {w}) \cup {[w EXCEPT !.pc = "required"]} /\ w.kind = "load"
        /\ mem' = IF Editing!Current(w) THEN [mem EXCEPT ![i] = t] ELSE mem
    BY <1>3, <1>10 DEF Editing!LoadRecords, Editing!Step, LoaderFits
  <2>2. CASE Editing!Current(w)
    <3>1. ~w.stale /\ Is(i)
      BY <2>2 DEF Editing!Current, Is
    <3>2. t = [mem[i] EXCEPT !.default = DefaultOf(i)]
      BY <1>4, <3>1 DEF Editing!Record
    <3>3. ~mem[i].explicit => mem[i].val = ValueOf(DefaultOf(i))
      BY <1>3, <1>4, <2>1, <3>1 DEF LoaderFits
    <3>4. /\ t \in StageObjects /\ t.id = mem[i].id /\ t.name = mem[i].name /\ t.parent = mem[i].parent
          /\ t.explicit = mem[i].explicit /\ t.user = mem[i].user /\ t.date = mem[i].date /\ t.default = DefaultOf(i)
          /\ t.val = mem[i].val
      <4>1. DefaultOf(i) \in {"absent", "none", "inherit"}
        BY DEF DefaultOf
      <4> HIDE DEF t
      <4> QED BY <1>4, <3>1, <3>2, <4>1 DEF StageObjects
    <3> HIDE DEF t
    <3>5. mem' = [mem EXCEPT ![i] = t]
      BY <2>1, <2>2
    <3>6. ~t.explicit => t.val = ValueOf(DefaultOf(i))
      BY <3>3, <3>4
    <3> QED BY <1>1, <2>1, <3>1, <3>4, <3>5, <3>6, LoaderChanges
  <2>3. CASE ~Editing!Current(w)
    BY <1>6, <2>1, <2>3
  <2> QED BY <2>2, <2>3
<1>11. CASE Editing!ChecksRequired(w)
  <2> DEFINE missing == mem[i] # Editing!Gone /\ Editing!IsMissing(mem, i)
             v == [w EXCEPT !.missing = missing, !.pc = "deliver"]
  <2>1. w.pc = "required" /\ loads' = (loads \ {w}) \cup {v} /\ mem' = mem
    BY <1>11 DEF Editing!ChecksRequired
  <2>2. missing \in BOOLEAN
    OBVIOUS
  <2> HIDE DEF missing
  <2>3. /\ v \in Loaders /\ v.kind = w.kind /\ v.id = i /\ v.generation = w.generation /\ v.stale = w.stale /\ v.pc = "deliver"
        /\ v.base = w.base
    BY <1>3, <2>2 DEF Loaders
  <2> HIDE DEF v
  <2>4. w.kind = "load" /\ w.generation = view.generation => w.base = BaseOf(i) /\ mem[i].default = DefaultOf(i)
    BY <1>3, <2>1 DEF AwaitedFits
  <2> QED BY <1>1, <2>1, <2>3, <2>4, LoaderPasses
<1> QED BY <1>2, <1>7, <1>8, <1>9, <1>10, <1>11


\* The view and its threads stay as they are while nothing is calculated.
LEMMA ViewStays ==
  ASSUME EditingTypeOK, LoadsFit, ~Editing!Busy, UNCHANGED <<view, loads>>,
         \A j \in Ids : Is(j) => Is(j)' /\ BaseOf(j)' = BaseOf(j) /\ (mem[j].default = DefaultOf(j) => mem'[j].default = DefaultOf(j)'),
         \A w \in loads : chosen'[w.id] # "none" /\ (creation'.pc # "none" => creation'.id # w.id)
  PROVE  LoadsFit'
<1>1. OneLoader'
  BY DEF LoadsFit, OneLoader
<1>2. LoadersFit'
  BY DEF LoadsFit, LoadersFit, LoaderFits, Editing!Busy
<1>3. KnownFits'
  BY DEF KnownFits
<1>4. view.id \in Ids \cup {Editing!Nobody} /\ (view.id # Editing!Nobody => Is(view.id))
  BY DEF EditingTypeOK, Views, LoadsFit, ViewFits
<1>5. AwaitedFit'
  <2> SUFFICES ASSUME NEW w \in loads, w.kind = "load" PROVE AwaitedFits(w)'
    BY DEF AwaitedFit
  <2>1. AwaitedFits(w)
    BY DEF LoadsFit, AwaitedFit
  <2>2. w.id \in Ids
    BY DEF EditingTypeOK, Loaders
  <2>3. w.generation = view.generation => Is(w.id)
    BY <1>4, <2>1, <2>2, EditingConstants DEF AwaitedFits
  <2> QED BY <2>1, <2>2, <2>3 DEF AwaitedFits
<1>6. ViewFits'
  BY <1>4 DEF LoadsFit, ViewFits
<1> QED BY <1>1, <1>2, <1>3, <1>5, <1>6 DEF LoadsFit

\* The view is opened or left: what was loaded for it is no longer awaited.
LEMMA ViewChanges ==
  ASSUME EditingTypeOK, LoadsFit, UNCHANGED <<disk, mem, chosen, creation>>, view' \in Views,
         view'.generation = view.generation + 1,
         \/ view'.id = Editing!Nobody /\ loads' = loads
         \/ /\ view'.loading /\ Is(view'.id) /\ view'.id \in Ids /\ chosen[view'.id] # "none"
            /\ creation.pc # "none" => creation.id # view'.id
            /\ \A w \in loads : w.kind = "load" => w.stale
            /\ \E v \in Loaders : /\ v.kind = "load" /\ v.id = view'.id /\ v.generation = view'.generation
                                  /\ v.pc = "baseline" /\ ~v.stale /\ loads' = loads \cup {v}
  PROVE  LoadsFit' /\ loads' \subseteq Loaders
<1>1. loads' \subseteq Loaders /\ \A w \in loads : w.generation \in Nat /\ w.kind \in {"load", "check"}
  BY DEF EditingTypeOK, Loaders
<1>2. \A i : (Is(i)' <=> Is(i)) /\ DefaultOf(i)' = DefaultOf(i) /\ BaseOf(i)' = BaseOf(i)
  BY DEF Is, DefaultOf, BaseOf
<1>3. view.generation \in Nat
  BY DEF EditingTypeOK, Views
<1>4. OneLoader'
  BY DEF LoadsFit, OneLoader
<1>5. LoadersFit'
  BY <1>2 DEF LoadsFit, LoadersFit, LoaderFits
<1>6. KnownFits'
  BY DEF LoadsFit, KnownFits
<1>7. AwaitedFit'
  <2> SUFFICES ASSUME NEW w \in loads', w.kind = "load" PROVE AwaitedFits(w)'
    BY DEF AwaitedFit
  <2>1. CASE w \in loads
    <3>1. AwaitedFits(w)
      BY <2>1 DEF LoadsFit, AwaitedFit
    <3>2. w.generation <= view.generation /\ w.generation # view'.generation
      BY <1>1, <1>3, <2>1, <3>1 DEF AwaitedFits
    <3> QED BY <1>1, <1>3, <2>1, <3>2 DEF AwaitedFits
  <2>2. CASE w \notin loads
    <3>1. w.generation = view'.generation /\ view'.id = w.id /\ ~w.stale /\ view'.loading /\ w.pc = "baseline"
      BY <2>2
    <3> QED BY <1>3, <3>1 DEF AwaitedFits
  <2> QED BY <2>1, <2>2
<1>8. ViewFits'
  BY <1>2 DEF ViewFits
<1> QED BY <1>1, <1>4, <1>5, <1>6, <1>7, <1>8 DEF LoadsFit

\* What is told of the stages when they stay and no thread records.
LEMMA StagesStay ==
  ASSUME StagesFit, UNCHANGED <<disk, mem, chosen, creation>>,
         \A w \in loads : w.pc = "record" => \E v \in loads' : v.pc = "record" /\ v.id = w.id /\ v.stale = w.stale
  PROVE  StagesFit'
<1>1. \A i : (Is(i)' <=> Is(i))
  BY DEF Is
<1>2. ObjectsFit'
  <2> SUFFICES ASSUME NEW i \in Ids, Is(i) PROVE ObjectFits(i)'
    BY <1>1 DEF ObjectsFit
  <2>1. ObjectFits(i)
    BY DEF StagesFit, ObjectsFit
  <2> QED BY <2>1 DEF ObjectFits
<1> QED BY <1>1, <1>2 DEF StagesFit, FilesFit, FileFits, OwnersFit, GoneFits, CreationFits, Written

\* The view starts to load a stage, in a thread.
LEMMA StartLoadIs ==
  ASSUME EditingTypeOK, NEW i \in Ids, NEW v, v = Editing!StartLoad(view, i)
  PROVE  /\ v \in Views /\ v.id = i /\ v.generation = view.generation + 1 /\ v.loading
         /\ \E w \in Loaders : /\ w = Editing!LoadWorker(v) /\ w.kind = "load" /\ w.id = i /\ w.generation = v.generation
                               /\ w.pc = "baseline" /\ ~w.stale
<1>1. view = [id |-> view.id, generation |-> view.generation, required |-> view.required, base |-> view.base,
              shown |-> view.shown, missing |-> view.missing, loading |-> view.loading, edited |-> view.edited]
      /\ view.generation \in Nat /\ view.required \in Nat /\ view.base \in Editing!Baselines /\ view.shown \in StageValue
      /\ view.missing \in BOOLEAN
  BY DEF EditingTypeOK, Views
<1>2. v = [id |-> i, generation |-> view.generation + 1, required |-> view.required + 1, base |-> view.base,
           shown |-> view.shown, missing |-> view.missing, loading |-> TRUE, edited |-> FALSE]
  BY <1>1 DEF Editing!StartLoad
<1>3. v \in Views /\ v.id = i /\ v.generation = view.generation + 1 /\ v.loading
  BY <1>1, <1>2 DEF Views
<1> DEFINE w == [kind |-> "load", id |-> v.id, generation |-> v.generation, pc |-> "baseline", stale |-> FALSE,
                 base |-> Editing!NoBaseline, missing |-> FALSE]
<1>4. Editing!NoBaseline \in Editing!Baselines
  BY EditingConstants DEF Editing!NoBaseline, Editing!Baselines
<1>5. w = Editing!LoadWorker(v)
  BY DEF Editing!LoadWorker
<1>6. w \in Loaders /\ w.kind = "load" /\ w.id = i /\ w.generation = v.generation /\ w.pc = "baseline" /\ ~w.stale
  BY <1>1, <1>3, <1>4 DEF Loaders
<1> HIDE DEF w
<1> QED BY <1>3, <1>5, <1>6

LEMMA OpenKeeps == ASSUME EditingInv, ~Overlap, NEW i \in Ids, Editing!Open(i) PROVE EditingInv'
<1>1. EditingTypeOK /\ StagesFit /\ LoadsFit
  BY DEF EditingInv
<1>2. /\ view' = Editing!StartLoad(view, i) /\ loads' = loads \cup {Editing!LoadWorker(view')}
      /\ UNCHANGED <<disk, mem, creation, chosen>> /\ Is(i) /\ \A w \in loads : w.kind = "load" => w.stale
  BY DEF Editing!Open, Editing!Live, Is
<1>3. /\ view' \in Views /\ view'.id = i /\ view'.generation = view.generation + 1 /\ view'.loading
      /\ \E w \in Loaders : /\ w = Editing!LoadWorker(view') /\ w.kind = "load" /\ w.id = i
                            /\ w.generation = view'.generation /\ w.pc = "baseline" /\ ~w.stale
  BY <1>1, <1>2, StartLoadIs
<1>4. chosen[i] # "none" /\ (creation.pc # "none" => creation.id # i)
  BY <1>1, <1>2 DEF StagesFit, ObjectsFit, ObjectFits, CreationFits
<1>5. LoadsFit' /\ loads' \subseteq Loaders
  BY <1>1, <1>2, <1>3, <1>4, ViewChanges
<1>6. StagesFit'
  BY <1>1, <1>2, StagesStay
<1> QED BY <1>1, <1>2, <1>3, <1>5, <1>6 DEF EditingInv, EditingTypeOK

\* The view is closed.
LEMMA ClosesIs ==
  ASSUME EditingTypeOK, NEW v,
         v = [Editing!Closed EXCEPT !.generation = view.generation + 1, !.required = view.required + 1]
  PROVE  v \in Views /\ v.id = Editing!Nobody /\ v.generation = view.generation + 1
<1>1. view.generation + 1 \in Nat /\ view.required + 1 \in Nat
  BY DEF EditingTypeOK, Views
<1>2. ASSUME NEW c, NEW n, NEW b, NEW z, NEW g, NEW r, NEW s, NEW f, v = [c EXCEPT !.generation = g, !.required = r],
             c = [id |-> n, generation |-> z, required |-> z, base |-> b, shown |-> s, missing |-> f, loading |-> f,
                  edited |-> f]
      PROVE  v = [id |-> n, generation |-> g, required |-> r, base |-> b, shown |-> s, missing |-> f, loading |-> f,
                  edited |-> f]
  BY <1>2
<1>3. v = [id |-> Editing!Nobody, generation |-> view.generation + 1, required |-> view.required + 1,
           base |-> Editing!NoBaseline, shown |-> "unset", missing |-> FALSE, loading |-> FALSE, edited |-> FALSE]
  BY <1>2 DEF Editing!Closed
<1>4. Editing!NoBaseline \in Editing!Baselines /\ "unset" \in StageValue
  BY EditingConstants DEF Editing!NoBaseline, Editing!Baselines, StageValue
<1>5. ASSUME NEW w, NEW g \in Nat, NEW r \in Nat,
             w = [id |-> Editing!Nobody, generation |-> g, required |-> r, base |-> Editing!NoBaseline, shown |-> "unset",
                  missing |-> FALSE, loading |-> FALSE, edited |-> FALSE]
      PROVE  w \in Views /\ w.id = Editing!Nobody /\ w.generation = g
  BY <1>4, <1>5 DEF Views
<1> QED BY <1>1, <1>3, <1>5, Zenon

LEMMA LeaveKeeps == ASSUME EditingInv, Editing!Leave PROVE EditingInv'
<1>1. EditingTypeOK /\ StagesFit /\ LoadsFit /\ UNCHANGED <<disk, mem, loads, creation, chosen>>
  BY DEF EditingInv, Editing!Leave
<1>2. view' \in Views /\ view'.id = Editing!Nobody /\ view'.generation = view.generation + 1
  BY <1>1, ClosesIs DEF Editing!Leave
<1>3. LoadsFit' /\ StagesFit'
  BY <1>1, <1>2, ViewChanges, StagesStay
<1> QED BY <1>1, <1>2, <1>3 DEF EditingInv, EditingTypeOK

LEMMA DeliversKeeps == ASSUME EditingInv, Editing!Delivers PROVE EditingInv'
<1>1. EditingTypeOK /\ StagesFit /\ LoadsFit /\ UNCHANGED <<disk, mem, creation, chosen>>
  BY DEF EditingInv, Editing!Delivers
<1>2. PICK w \in loads : Editing!Deliver(w) \/ Editing!DeliverRequired(w)
  BY DEF Editing!Delivers
<1>3. w.pc = "deliver" /\ loads' = loads \ {w} /\ w \in Loaders /\ w.base \in Editing!Baselines /\ w.missing \in BOOLEAN
  BY <1>1, <1>2 DEF Editing!Deliver, Editing!DeliverRequired, EditingTypeOK, Loaders
<1>4. StagesFit'
  BY <1>1, <1>3, StagesStay
<1>5. OneLoader' /\ LoadersFit' /\ KnownFits'
  BY <1>1, <1>3 DEF LoadsFit, OneLoader, LoadersFit, LoaderFits, KnownFits, Is, DefaultOf
<1>6. \A i : (Is(i)' <=> Is(i)) /\ DefaultOf(i)' = DefaultOf(i) /\ BaseOf(i)' = BaseOf(i)
  BY <1>1 DEF Is, DefaultOf, BaseOf
<1>7. view \in Views /\ view = [id |-> view.id, generation |-> view.generation, required |-> view.required, base |-> view.base,
              shown |-> view.shown, missing |-> view.missing, loading |-> view.loading, edited |-> view.edited]
  BY <1>1 DEF EditingTypeOK, Views
<1>8. CASE Editing!Deliver(w) /\ w.generation = view.generation
  <2>1. AwaitedFits(w) /\ w.kind = "load"
    BY <1>1, <1>8 DEF LoadsFit, AwaitedFit, Editing!Deliver
  <2>2. view.id = w.id /\ ~w.stale /\ w.base = BaseOf(w.id) /\ mem[w.id].default = DefaultOf(w.id) /\ w.id \in Ids
    BY <1>3, <1>8, <2>1 DEF AwaitedFits, Loaders
  <2>3. Is(w.id) /\ mem[w.id].val \in StageValue
    BY <1>1, <2>2, ObjectIs, EditingConstants DEF LoadsFit, ViewFits
  <2>4. view' = [view EXCEPT !.base = w.base, !.loading = FALSE, !.shown = mem[w.id].val, !.missing = w.missing]
    BY <1>7, <1>8, <2>2 DEF Editing!Deliver, Editing!LoadRows
  <2>5. view' = [id |-> view.id, generation |-> view.generation, required |-> view.required, base |-> w.base,
                 shown |-> mem[w.id].val, missing |-> w.missing, loading |-> FALSE, edited |-> view.edited]
    BY <1>7, <2>4
  <2>6. view' \in Views /\ view'.id = w.id /\ view'.generation = view.generation /\ view'.base = w.base /\ ~view'.loading
    BY <1>3, <1>7, <2>2, <2>3, <2>5 DEF Views
  <2>7. AwaitedFit'
    <3> SUFFICES ASSUME NEW x \in loads', x.kind = "load" PROVE AwaitedFits(x)'
      BY DEF AwaitedFit
    <3>1. AwaitedFits(x) /\ x # w /\ x \in loads
      BY <1>1, <1>3 DEF LoadsFit, AwaitedFit
    <3>2. x.stale
      BY <1>1, <2>1, <2>2, <3>1 DEF LoadsFit, OneLoader
    <3> QED BY <2>6, <3>1, <3>2 DEF AwaitedFits
  <2>8. ViewFits'
    BY <1>1, <1>6, <2>2, <2>3, <2>6 DEF ViewFits
  <2> QED BY <1>1, <1>3, <1>4, <1>5, <2>6, <2>7, <2>8 DEF EditingInv, EditingTypeOK, LoadsFit
<1>9. CASE ~(Editing!Deliver(w) /\ w.generation = view.generation)
  <2>1. /\ view' \in Views /\ view'.id = view.id /\ view'.generation = view.generation /\ view'.base = view.base
        /\ view'.loading = view.loading
    <3>1. view' = view \/ view' = [view EXCEPT !.missing = w.missing]
      BY <1>2, <1>9 DEF Editing!Deliver, Editing!DeliverRequired
    <3>2. [view EXCEPT !.missing = w.missing] \in Views
      BY <1>3, <1>7 DEF Views
    <3> QED BY <1>7, <3>1, <3>2
  <2>2. AwaitedFit'
    <3> SUFFICES ASSUME NEW x \in loads', x.kind = "load" PROVE AwaitedFits(x)'
      BY DEF AwaitedFit
    <3>1. AwaitedFits(x)
      BY <1>1, <1>3 DEF LoadsFit, AwaitedFit
    <3> QED BY <1>1, <1>6, <2>1, <3>1 DEF AwaitedFits
  <2>3. ViewFits'
    BY <1>1, <1>6, <2>1 DEF LoadsFit, ViewFits
  <2> QED BY <1>1, <1>3, <1>4, <1>5, <2>1, <2>2, <2>3 DEF EditingInv, EditingTypeOK, LoadsFit
<1> QED BY <1>8, <1>9

\* What is written of a stage is what was chosen, while nothing is calculated.
LEMMA SerializedIs ==
  ASSUME EditingTypeOK, NEW i \in Ids, Is(i), ObjectFits(i), ~Editing!Busy,
         NEW s, s.val = mem[i].val, s.explicit = mem[i].explicit, s.default = mem[i].default, s.date = mem[i].date
  PROVE  Editing!Serialized(s) = chosen[i] /\ Editing!SavedDate(s) = s.date
<1>1. mem[i].explicit \in BOOLEAN
  BY ObjectIs
<1>2. ~mem[i].explicit /\ mem[i].default = "absent" => mem[i].val = "unset"
  BY DEF ObjectFits, Editing!Busy
<1>3. Editing!Serialized(s) = chosen[i]
  BY <1>1, <1>2 DEF ObjectFits, Editing!Serialized
<1>4. Editing!SavedDate(s) = s.date
  BY <1>1, <1>3 DEF ObjectFits, Editing!SavedDate
<1> QED BY <1>3, <1>4

\* A build calculates the defaults of all stages.
LEMMA BuildKeeps == ASSUME EditingInv, ~Overlap, Editing!Build PROVE EditingInv'
<1>1. EditingTypeOK /\ StagesFit /\ LoadsFit /\ ~Editing!Busy /\ UNCHANGED <<disk, view, loads, creation, chosen>>
      /\ mem' = Editing!RefreshedAll(mem)
  BY DEF EditingInv, Editing!Build
<1>2. ASSUME NEW i \in Ids, Is(i)
      PROVE  /\ mem'[i] \in StageObjects /\ mem'[i].id = mem[i].id /\ mem'[i].name = mem[i].name
             /\ mem'[i].parent = mem[i].parent /\ mem'[i].explicit = mem[i].explicit /\ mem'[i].user = mem[i].user
             /\ mem'[i].date = mem[i].date /\ mem'[i].default = DefaultOf(i)
             /\ mem'[i].val = IF mem[i].explicit THEN mem[i].val ELSE ValueOf(DefaultOf(i))
  <2> DEFINE d == DefaultOf(i)
             s == mem[i]
  <2>1. ObjectFits(i) /\ FileFits(i) /\ s \in StageObjects
    BY <1>1, <1>2, ObjectIs DEF StagesFit, ObjectsFit, FilesFit
  <2>2. Editing!Default(mem, i) = d
    BY <1>1, <1>2, <2>1, DefaultIs DEF FileFits
  <2>3. d \in {"none", "inherit"} /\ (s.explicit => s.val # "unset") /\ (~s.explicit /\ s.default = "absent" => s.val = "unset")
    BY <1>1, <2>1 DEF DefaultOf, ObjectFits, Editing!Busy
  <2>4. Editing!Record(Editing!Apply(Editing!Drop(s), d), d) =
          [s EXCEPT !.val = IF s.explicit THEN s.val ELSE ValueOf(d), !.default = d]
    BY <2>1, <2>3, RefreshedStage
  <2>5. mem'[i] = Editing!Record(Editing!Apply(Editing!Drop(s), d), d)
    BY <1>1, <1>2, <2>2 DEF Editing!RefreshedAll, Editing!Refreshed, Is, EditingTypeOK
  <2> DEFINE t == mem'[i]
  <2>6. t = [s EXCEPT !.val = IF s.explicit THEN s.val ELSE ValueOf(d), !.default = d]
    BY <2>4, <2>5
  <2>7. ValueOf(d) \in StageValue
    BY DEF ValueOf, StageValue
  <2> HIDE DEF s, d, t
  <2>8. /\ t \in StageObjects /\ t.id = s.id /\ t.name = s.name /\ t.parent = s.parent /\ t.explicit = s.explicit
        /\ t.user = s.user /\ t.date = s.date /\ t.default = d /\ t.val = IF s.explicit THEN s.val ELSE ValueOf(d)
    BY <2>1, <2>3, <2>6, <2>7 DEF StageObjects
  <2> QED BY <2>8 DEF s, d, t
<1>3. \A i \in Ids : ~Is(i) => mem'[i] = Editing!Gone
  BY <1>1 DEF Editing!RefreshedAll, Is
<1>4. mem' \in [Ids -> {Editing!Gone} \cup StageObjects]
  <2>1. \A i \in Ids : mem'[i] \in {Editing!Gone} \cup StageObjects
    BY <1>2, <1>3
  <2>2. mem' = [i \in Ids |-> IF mem[i] = Editing!Gone THEN Editing!Gone ELSE Editing!Refreshed(mem, i)[i]]
    BY <1>1 DEF Editing!RefreshedAll
  <2>3. mem' = [i \in Ids |-> mem'[i]]
    BY <2>2
  <2> QED BY <2>1, <2>3
<1>5. \A i \in Ids : Is(i) <=> Is(i)'
  BY <1>2, <1>3, EntriesOwned DEF Is
<1>6. \A i \in Ids : Is(i) => DefaultOf(i)' = DefaultOf(i) /\ BaseOf(i)' = BaseOf(i)
  BY <1>1, <1>2 DEF DefaultOf, BaseOf
<1>7. ObjectsFit' /\ FilesFit'
  <2> SUFFICES ASSUME NEW i \in Ids, Is(i) PROVE ObjectFits(i)' /\ FileFits(i)'
    BY <1>5 DEF ObjectsFit, FilesFit
  <2>1. ObjectFits(i) /\ FileFits(i) /\ mem[i].parent \in Ids \cup {"none"}
    BY <1>1, ObjectIs DEF StagesFit, ObjectsFit, FilesFit
  <2>2. ObjectFits(i)'
    BY <1>1, <1>2, <2>1 DEF ObjectFits, DefaultOf
  <2>3. FileFits(i)'
    BY <1>1, <1>2, <1>5, <2>1 DEF FileFits
  <2> QED BY <2>2, <2>3
<1>8. OwnersFit'
  <2> SUFFICES ASSUME NEW n \in Names, disk[n] # Editing!Free
               PROVE  \/ Is(disk[n].id)' /\ mem'[disk[n].id].name = n
                      \/ Written /\ creation.id = disk[n].id /\ creation.name = n
    BY <1>1 DEF OwnersFit, Written
  <2>1. disk[n].id \in Ids
    BY <1>1, EntryIs
  <2> QED BY <1>1, <1>2, <1>5, <2>1 DEF StagesFit, OwnersFit
<1>9. GoneFits'
  BY <1>1, <1>5 DEF StagesFit, GoneFits, Written
<1>10. CreationFits'
  <2> SUFFICES ASSUME creation.pc # "none" PROVE CreationFits'
    BY <1>1 DEF CreationFits
  <2>1. creation.id \in Ids /\ creation.parent \in Ids \cup {"none"}
    BY <1>1 DEF EditingTypeOK, Editing!NoCreation, Creations
  <2> QED BY <1>1, <1>5, <2>1 DEF StagesFit, CreationFits, Written
<1>11. \A i \in Ids : Is(i) => Is(i)' /\ BaseOf(i)' = BaseOf(i) /\ mem'[i].default = DefaultOf(i)'
  BY <1>2, <1>5, <1>6
<1>12. LoadsFit'
  BY <1>1, <1>11, ViewStays DEF LoadsFit, KnownFits
<1> QED BY <1>1, <1>4, <1>7, <1>8, <1>9, <1>10, <1>12 DEF EditingInv, EditingTypeOK, StagesFit

\* A stage is renamed with its directory, and its baseline in it.
LEMMA RenameKeeps == ASSUME EditingInv, ~Overlap, NEW name \in Names, Editing!Rename(name) PROVE EditingInv'
<1> PICK i : i = view.id
  OBVIOUS
<1> DEFINE old == mem[i].name
           s == [mem[i] EXCEPT !.name = name]
           moved == [disk EXCEPT ![name] = disk[old], ![old] = Editing!Free]
<1>1. /\ Editing!MayEdit /\ disk[name] = Editing!Free /\ creation.name # name /\ disk' = Editing!SaveStage(moved, s)
      /\ mem' = [mem EXCEPT ![i] = s] /\ UNCHANGED <<view, loads, creation, chosen>>
  BY DEF Editing!Rename, Editing!IsAvailable
<1>2. EditingTypeOK /\ StagesFit /\ LoadsFit /\ ~Editing!Busy /\ i \in Ids /\ Is(i) /\ ObjectFits(i) /\ FileFits(i)
  BY <1>1, MayEditIs DEF EditingInv
<1>3. mem[i] \in StageObjects /\ old \in Names /\ disk[old] # Editing!Free /\ old # name /\ mem[i].parent \in Ids \cup {"none"}
  BY <1>1, <1>2, ObjectIs DEF FileFits
<1>4. /\ s \in StageObjects /\ s.id = mem[i].id /\ s.name = name /\ s.parent = mem[i].parent /\ s.val = mem[i].val
      /\ s.explicit = mem[i].explicit /\ s.default = mem[i].default /\ s.user = mem[i].user /\ s.date = mem[i].date
  BY <1>3 DEF StageObjects
<1>5. /\ moved \in [Names -> {Editing!Free} \cup Editing!Entries] /\ moved[name] = disk[old] /\ moved[old] = Editing!Free
      /\ \A n \in Names : n # old /\ n # name => moved[n] = disk[n]
  BY <1>2, <1>3 DEF EditingTypeOK
<1> HIDE DEF s, moved
<1>6. Editing!Serialized(s) = chosen[i] /\ Editing!SavedDate(s) = s.date
  BY <1>2, <1>4, SerializedIs
<1>7. /\ disk' \in [Names -> {Editing!Free} \cup Editing!Entries] /\ disk'[name] # Editing!Free
      /\ disk'[name].id = s.id /\ disk'[name].parent = s.parent /\ disk'[name].val = Editing!Serialized(s)
      /\ disk'[name].date = Editing!SavedDate(s) /\ disk'[name].base = moved[name].base
      /\ \A n \in Names \ {name} : disk'[n] = moved[n]
  BY <1>1, <1>3, <1>4, <1>5, SavedEntry
<1>8. /\ disk'[name].id = i /\ disk'[name].parent = mem[i].parent /\ disk'[name].val = chosen[i]
      /\ disk'[name].date = mem[i].date /\ disk'[name].base = disk[old].base /\ disk'[old] = Editing!Free
      /\ \A n \in Names : n # old /\ n # name => disk'[n] = disk[n]
  BY <1>2, <1>3, <1>4, <1>5, <1>6, <1>7 DEF ObjectFits
<1>9. /\ mem' \in [Ids -> {Editing!Gone} \cup StageObjects] /\ mem'[i] = s /\ \A j \in Ids \ {i} : mem'[j] = mem[j]
  BY <1>1, <1>2, <1>4 DEF EditingTypeOK
<1>10. \A j \in Ids : Is(j) <=> Is(j)'
  BY <1>2, <1>4, <1>9, EntriesOwned DEF Is
<1>11. EditingTypeOK'
  BY <1>1, <1>2, <1>7, <1>9 DEF EditingTypeOK
<1>12. ASSUME NEW j \in Ids, Is(j), j # i
       PROVE  Is(j)' /\ ObjectFits(j)' /\ FileFits(j)' /\ DefaultOf(j)' = DefaultOf(j) /\ BaseOf(j)' = BaseOf(j)
  <2>1. ObjectFits(j) /\ FileFits(j) /\ mem[j].name \in Names /\ mem[j].parent \in Ids \cup {"none"}
    BY <1>2, <1>12, ObjectIs DEF StagesFit, ObjectsFit, FilesFit
  <2>2. mem[j].name # old /\ mem[j].name # name
    BY <1>1, <1>2, <1>12, <2>1 DEF FileFits
  <2>3. mem'[j] = mem[j] /\ chosen'[j] = chosen[j] /\ disk'[mem[j].name] = disk[mem[j].name]
    BY <1>1, <1>8, <1>9, <1>12, <2>1, <2>2
  <2>4. mem[j].parent # "none" /\ Is(mem[j].parent) => Is(mem[j].parent)'
    BY <1>10, <2>1, <2>3
  <2>5. \A w \in loads : w.pc = "record" /\ w.id = j /\ ~w.stale => \E v \in loads' : v.pc = "record" /\ v.id = j /\ ~v.stale
    BY <1>1
  <2> QED BY <1>2, <1>12, <2>1, <2>3, <2>4, <2>5, SameFits
<1>13. ObjectFits(i)' /\ FileFits(i)' /\ DefaultOf(i)' = DefaultOf(i) /\ BaseOf(i)' = BaseOf(i)
  <2>1. ObjectFits(i)'
    BY <1>1, <1>2, <1>4, <1>9 DEF ObjectFits
  <2>2. FileFits(i)'
    BY <1>1, <1>2, <1>3, <1>4, <1>7, <1>8, <1>9, <1>10 DEF FileFits
  <2>3. DefaultOf(i)' = DefaultOf(i) /\ BaseOf(i)' = BaseOf(i)
    BY <1>4, <1>8, <1>9 DEF DefaultOf, BaseOf
  <2> QED BY <2>1, <2>2, <2>3
<1>14. ObjectsFit' /\ FilesFit'
  BY <1>10, <1>12, <1>13 DEF ObjectsFit, FilesFit
<1>15. OwnersFit'
  <2> SUFFICES ASSUME NEW n \in Names, disk'[n] # Editing!Free
               PROVE  \/ Is(disk[n].id)' /\ mem'[disk'[n].id].name = n
                      \/ Written' /\ creation'.id = disk'[n].id /\ creation'.name = n
    BY DEF OwnersFit
  <2>1. CASE n = name
    <3>1. disk'[n].id = i /\ Is(i)' /\ mem'[i].name = n
      BY <1>2, <1>4, <1>8, <1>9, <1>10, <2>1
    <3> QED BY <3>1 DEF Is
  <2>2. CASE n # name
    <3>1. n # old /\ disk'[n] = disk[n] /\ disk[n].id \in Ids
      BY <1>2, <1>8, <2>2, EntryIs
    <3>2. Is(disk[n].id) /\ mem[disk[n].id].name = n => Is(disk[n].id)' /\ mem'[disk'[n].id].name = n
      BY <1>9, <1>10, <3>1 DEF Is
    <3> QED BY <1>1, <1>2, <3>1, <3>2 DEF StagesFit, OwnersFit, Written
  <2> QED BY <2>1, <2>2
<1>16. GoneFits'
  BY <1>1, <1>2, <1>10 DEF StagesFit, GoneFits, Written
<1>17. CreationFits'
  <2> SUFFICES ASSUME creation.pc # "none" PROVE CreationFits'
    BY <1>1 DEF CreationFits
  <2>1. creation.id \in Ids /\ creation.parent \in Ids \cup {"none"} /\ creation.name \in Names
    BY <1>2 DEF EditingTypeOK, Editing!NoCreation, Creations
  <2>2. ~Is(creation.id)
    BY <1>2 DEF StagesFit, CreationFits
  <2>3. creation.pc = "save" \/ Written => creation.name # old
    BY <1>2, <2>2 DEF StagesFit, CreationFits, FileFits
  <2>4. creation.pc = "save" \/ Written => disk'[creation.name] = disk[creation.name]
    BY <1>1, <1>8, <2>1, <2>3
  <2> QED BY <1>1, <1>2, <1>10, <2>1, <2>4 DEF StagesFit, CreationFits, Written
<1>18. \A j \in Ids : Is(j) => Is(j)' /\ BaseOf(j)' = BaseOf(j) /\ (mem[j].default = DefaultOf(j) => mem'[j].default = DefaultOf(j)')
  BY <1>4, <1>9, <1>10, <1>12, <1>13
<1>19. LoadsFit'
  BY <1>1, <1>2, <1>18, ViewStays DEF LoadsFit, KnownFits
<1> QED BY <1>11, <1>14, <1>15, <1>16, <1>17, <1>19 DEF EditingInv, StagesFit

\* Git discards the changes: threads that are left have old objects.
LEMMA DiscardKeeps == ASSUME EditingInv, Editing!Discard PROVE EditingInv'
<1> DEFINE stale == {[w EXCEPT !.stale = TRUE] : w \in loads}
           shown == view.id # Editing!Nobody /\ mem'[view.id] # Editing!Gone
<1>1. /\ EditingTypeOK /\ LoadsFit /\ disk' = Committed /\ mem' = Editing!LoadedStages(Committed) /\ creation' = creation
      /\ creation.pc = "none" /\ chosen' = [j \in Ids |-> IF mem'[j] = Editing!Gone THEN "deleted" ELSE mem'[j].val]
      /\ shown => view' = Editing!StartLoad(view, view.id) /\ loads' = stale \cup {Editing!LoadWorker(view')}
      /\ ~shown => /\ view' = [Editing!Closed EXCEPT !.generation = view.generation + 1, !.required = view.required + 1]
                   /\ loads' = stale
  BY DEF EditingInv, Editing!Discard
<1>2. creation = Editing!NoCreation
  BY <1>1 DEF EditingTypeOK, Creations
<1>3. (Read /\ chosen \in [Ids -> StageValue \cup {"none", "deleted"}])'
  <2>1. (/\ disk = Committed /\ mem = Editing!LoadedStages(Committed) /\ creation = Editing!NoCreation
         /\ \E gone \in {"none", "deleted"} : chosen = [i \in Ids |-> IF mem[i] = Editing!Gone THEN gone ELSE mem[i].val])'
    BY <1>1, <1>2
  <2> QED BY <2>1, CommittedRead, PTL
<1>4. (mem \in [Ids -> {Editing!Gone} \cup StageObjects] /\ StagesFit)'
  BY <1>3, ReadFits, PTL
<1>5. \A i \in Ids : chosen'[i] # "none"
  <2>1. \A i \in Ids : mem'[i] # Editing!Gone => mem'[i].val \in StageValue
    BY <1>4 DEF StageObjects
  <2> QED BY <1>1, <2>1 DEF StageValue, Editing!Given
<1>6. ASSUME NEW v \in stale
      PROVE  /\ v \in Loaders /\ v.stale /\ v.generation \in Nat /\ v.kind \in {"load", "check"}
             /\ v.kind = "check" => v.pc \in {"required", "deliver"}
             /\ v.kind = "load" => v.generation <= view.generation
  <2>1. PICK w \in loads : v = [w EXCEPT !.stale = TRUE]
    BY <1>6
  <2>2. w \in Loaders
    BY <1>1, <2>1 DEF EditingTypeOK
  <2>3. /\ v \in Loaders /\ v.stale /\ v.generation = w.generation /\ v.kind = w.kind /\ v.pc = w.pc
        /\ w.generation \in Nat /\ w.kind \in {"load", "check"}
    BY <2>1, <2>2 DEF Loaders
  <2> QED BY <1>1, <2>1, <2>3 DEF LoadsFit, LoadersFit, LoaderFits, AwaitedFit, AwaitedFits
<1>7. view' \in Views /\ view'.generation = view.generation + 1 /\ view.generation \in Nat
      /\ (view'.id # Editing!Nobody => Is(view.id)' /\ view'.loading /\ view'.id \in Ids)
      /\ \/ view'.id = Editing!Nobody /\ loads' = stale
         \/ \E v \in Loaders : /\ v.kind = "load" /\ v.id = view'.id /\ v.generation = view'.generation
                               /\ v.pc = "baseline" /\ ~v.stale /\ loads' = stale \cup {v}
  <2>1. view.generation \in Nat /\ view.id \in Ids \cup {Editing!Nobody}
    BY <1>1 DEF EditingTypeOK, Views
  <2>2. CASE shown
    <3>1. /\ view' \in Views /\ view'.id = view.id /\ view'.generation = view.generation + 1 /\ view'.loading
          /\ \E w \in Loaders : /\ w = Editing!LoadWorker(view') /\ w.kind = "load" /\ w.id = view.id
                                /\ w.generation = view'.generation /\ w.pc = "baseline" /\ ~w.stale
      BY <1>1, <2>1, <2>2, StartLoadIs
    <3> QED BY <1>1, <2>1, <2>2, <3>1 DEF Is
  <2>3. CASE ~shown
    <3>1. view' \in Views /\ view'.id = Editing!Nobody /\ view'.generation = view.generation + 1
      BY <1>1, <2>3, ClosesIs
    <3> QED BY <1>1, <2>1, <2>3, <3>1
  <2> QED BY <2>2, <2>3
<1> HIDE DEF stale, shown
<1>8. loads' \subseteq Loaders
  BY <1>6, <1>7
<1>9. OneLoader'
  BY <1>6, <1>7 DEF OneLoader
<1>10. LoadersFit'
  BY <1>6, <1>7 DEF LoadersFit, LoaderFits
<1>11. KnownFits'
  BY <1>1, <1>5, <1>8 DEF KnownFits, Loaders
<1>12. AwaitedFit'
  <2> SUFFICES ASSUME NEW w \in loads', w.kind = "load" PROVE AwaitedFits(w)'
    BY DEF AwaitedFit
  <2>1. CASE w \in stale
    BY <1>6, <1>7, <2>1 DEF AwaitedFits
  <2>2. CASE w \notin stale
    <3>1. w.generation = view'.generation /\ view'.id = w.id /\ ~w.stale /\ w.pc = "baseline" /\ w.id \in Ids
      BY <1>7, <1>8, <2>2 DEF Loaders
    <3>2. w.id # Editing!Nobody
      BY <3>1, EditingConstants
    <3> QED BY <1>7, <3>1, <3>2 DEF AwaitedFits
  <2> QED BY <2>1, <2>2
<1>13. ViewFits'
  BY <1>7 DEF ViewFits
<1> QED BY <1>3, <1>4, <1>1, <1>2, <1>7, <1>8, <1>9, <1>10, <1>11, <1>12, <1>13
        DEF EditingInv, EditingTypeOK, LoadsFit, Read

\* A stage is deleted; its children have no parent any more, in their files,
\* too.
LEMMA DeleteKeeps == ASSUME EditingInv, ~Overlap, Editing!Delete PROVE EditingInv'
<1> PICK i : i = view.id
  OBVIOUS
<1> DEFINE children == {j \in Editing!Live(mem) : mem[j].parent = i}
           detached == [j \in Ids |-> IF j \in children THEN [mem[j] EXCEPT !.parent = "none"] ELSE mem[j]]
           Owner(n) == CHOOSE j \in children : mem[j].name = n
<1>1. /\ Editing!MayEdit /\ creation.parent # i /\ UNCHANGED <<loads, creation>>
      /\ disk' = [n \in Names |-> IF n = mem[i].name THEN Editing!Free
                                  ELSE IF \E j \in children : mem[j].name = n
                                  THEN Editing!SaveStage(disk, detached[Owner(n)])[n] ELSE disk[n]]
      /\ mem' = [detached EXCEPT ![i] = Editing!Gone]
      /\ chosen' = [chosen EXCEPT ![i] = "deleted"]
      /\ view' = [Editing!Closed EXCEPT !.generation = view.generation + 1, !.required = view.required + 1]
  BY DEF Editing!Delete
<1>2. EditingTypeOK /\ StagesFit /\ LoadsFit /\ ~Editing!Busy /\ i \in Ids /\ Is(i) /\ ObjectFits(i) /\ FileFits(i)
  BY <1>1, MayEditIs DEF EditingInv
<1>3. \A j : j \in children <=> j \in Ids /\ Is(j) /\ mem[j].parent = i
  BY DEF Editing!Live, Is
<1>4. ASSUME NEW j \in Ids, Is(j)
      PROVE  /\ mem[j] \in StageObjects /\ ObjectFits(j) /\ FileFits(j) /\ mem[j].name \in Names
             /\ mem[j].parent \in Ids \cup {"none"} /\ (j # i => mem[j].name # mem[i].name)
             /\ \A k \in Ids : Is(k) /\ mem[k].name = mem[j].name => k = j
  <2>1. mem[j] \in StageObjects /\ ObjectFits(j) /\ FileFits(j) /\ mem[j].name \in Names /\ mem[j].parent \in Ids \cup {"none"}
    BY <1>2, <1>4, ObjectIs DEF StagesFit, ObjectsFit, FilesFit
  <2>2. \A k \in Ids : Is(k) => FileFits(k)
    BY <1>2 DEF StagesFit, FilesFit
  <2> QED BY <1>2, <2>1, <2>2 DEF FileFits
<1>5. ASSUME NEW j \in Ids, Is(j)
      PROVE  /\ detached[j] \in StageObjects /\ detached[j].id = mem[j].id /\ detached[j].name = mem[j].name
             /\ detached[j].val = mem[j].val /\ detached[j].explicit = mem[j].explicit
             /\ detached[j].default = mem[j].default /\ detached[j].user = mem[j].user /\ detached[j].date = mem[j].date
             /\ detached[j].parent = IF mem[j].parent = i THEN "none" ELSE mem[j].parent
  <2>1. CASE j \in children
    <3> DEFINE t == detached[j]
    <3>1. t = [mem[j] EXCEPT !.parent = "none"]
      BY <2>1
    <3> HIDE DEF t, children, detached
    <3>2. mem[j].parent = i
      BY <1>3, <2>1
    <3>3. /\ t \in StageObjects /\ t.id = mem[j].id /\ t.name = mem[j].name /\ t.val = mem[j].val
          /\ t.explicit = mem[j].explicit /\ t.default = mem[j].default /\ t.user = mem[j].user /\ t.date = mem[j].date
          /\ t.parent = "none"
      BY <1>4, <1>5, <3>1 DEF StageObjects
    <3> QED BY <3>2, <3>3 DEF t
  <2>2. CASE j \notin children
    <3>1. detached[j] = mem[j] /\ mem[j].parent # i
      BY <1>3, <1>5, <2>2
    <3> HIDE DEF children, detached
    <3> QED BY <1>4, <1>5, <3>1
  <2> QED BY <2>1, <2>2
<1>6. \A j \in Ids : ~Is(j) => detached[j] = Editing!Gone
  BY <1>3 DEF Is
<1>7. detached \in [Ids -> {Editing!Gone} \cup StageObjects]
  <2>1. \A j \in Ids : detached[j] \in {Editing!Gone} \cup StageObjects
    <3> HIDE DEF detached
    <3> QED BY <1>5, <1>6
  <2>2. detached = [j \in Ids |-> detached[j]]
    OBVIOUS
  <2> HIDE DEF detached
  <2> QED BY <2>1, <2>2
<1>8. ASSUME NEW j \in children PROVE Owner(mem[j].name) = j
  <2>1. j \in Ids /\ Is(j)
    BY <1>3, <1>8
  <2>2. \A k \in children : mem[k].name = mem[j].name => k = j
    BY <1>3, <1>4, <2>1
  <2> HIDE DEF children
  <2> QED BY <1>8, <2>2
<1>9. ASSUME NEW j \in Ids, Is(j), mem[j].parent = i, j # i
      PROVE  LET saved == disk'[mem[j].name] IN
             /\ saved \in Editing!Entries /\ saved # Editing!Free /\ saved.id = j /\ saved.parent = "none"
             /\ saved.val = chosen[j] /\ saved.date = mem[j].date /\ saved.base = disk[mem[j].name].base
  <2>1. j \in children /\ mem[j].name # mem[i].name /\ mem[j].name \in Names
    BY <1>3, <1>4, <1>9
  <2>2. disk'[mem[j].name] = Editing!SaveStage(disk, detached[j])[mem[j].name]
    <3>1. Owner(mem[j].name) = j
      BY <1>8, <2>1
    <3> HIDE DEF children, detached, Owner
    <3> QED BY <1>1, <2>1, <3>1
  <2> HIDE DEF children, detached, Owner
  <2>3. detached[j] \in StageObjects /\ detached[j].name = mem[j].name
    BY <1>5, <1>9
  <2>4. disk \in [Names -> {Editing!Free} \cup Editing!Entries]
    BY <1>2 DEF EditingTypeOK
  <2>5. Editing!Serialized(detached[j]) = chosen[j] /\ Editing!SavedDate(detached[j]) = detached[j].date
    BY <1>2, <1>4, <1>5, <1>9, SerializedIs
  <2>6. LET saved == Editing!SaveStage(disk, detached[j])[detached[j].name] IN
        /\ saved \in Editing!Entries /\ saved # Editing!Free /\ saved.id = detached[j].id /\ saved.parent = detached[j].parent
        /\ saved.val = Editing!Serialized(detached[j]) /\ saved.date = Editing!SavedDate(detached[j])
        /\ saved.base = IF disk[detached[j].name] = Editing!Free THEN Editing!NoBaseline ELSE disk[detached[j].name].base
    <3> PICK t : t = detached[j]
      OBVIOUS
    <3>1. t \in StageObjects
      BY <2>3
    <3> QED BY <2>4, <3>1, SavedEntry
  <2>7. disk[mem[j].name] # Editing!Free /\ mem[j].id = j
    BY <1>4, <1>9 DEF FileFits, ObjectFits
  <2> QED BY <1>5, <1>9, <2>2, <2>3, <2>5, <2>6, <2>7
<1>10. ASSUME NEW n \in Names
       PROVE  \/ n = mem[i].name /\ disk'[n] = Editing!Free
              \/ \E j \in Ids : Is(j) /\ mem[j].parent = i /\ mem[j].name = n /\ j # i
              \/ n # mem[i].name /\ disk'[n] = disk[n]
  <2>1. CASE n = mem[i].name
    <3> HIDE DEF children, detached, Owner
    <3> QED BY <1>1, <2>1
  <2>2. CASE n # mem[i].name /\ \E j \in children : mem[j].name = n
    BY <1>3, <2>2
  <2>3. CASE n # mem[i].name /\ ~\E j \in children : mem[j].name = n
    <3> HIDE DEF children, detached, Owner
    <3> QED BY <1>1, <2>3
  <2> QED BY <2>1, <2>2, <2>3
<1>11. ASSUME NEW j \in Ids, Is(j), j # i
       PROVE  /\ mem'[j] \in StageObjects /\ mem'[j].id = mem[j].id /\ mem'[j].name = mem[j].name
              /\ mem'[j].val = mem[j].val /\ mem'[j].explicit = mem[j].explicit
              /\ mem'[j].default = mem[j].default /\ mem'[j].user = mem[j].user /\ mem'[j].date = mem[j].date
              /\ mem'[j].parent = IF mem[j].parent = i THEN "none" ELSE mem[j].parent
  <2> HIDE DEF detached
  <2>1. mem'[j] = detached[j]
    BY <1>1, <1>7, <1>11
  <2> QED BY <1>5, <1>11, <2>1
<1>12. mem' \in [Ids -> {Editing!Gone} \cup StageObjects] /\ mem'[i] = Editing!Gone /\ \A j \in Ids : ~Is(j) => mem'[j] = Editing!Gone
  <2> HIDE DEF detached
  <2> QED BY <1>1, <1>2, <1>6, <1>7
<1>13. \A j \in Ids : Is(j)' <=> Is(j) /\ j # i
  BY <1>11, <1>12, EntriesOwned DEF Is
<1>14. disk' \in [Names -> {Editing!Free} \cup Editing!Entries]
  <2>1. \A n \in Names : disk'[n] \in {Editing!Free} \cup Editing!Entries
    BY <1>2, <1>9, <1>10 DEF EditingTypeOK
  <2>2. disk' = [n \in Names |-> disk'[n]]
    <3> HIDE DEF children, detached, Owner
    <3> QED BY <1>1
  <2> QED BY <2>1, <2>2
<1> HIDE DEF children, detached, Owner
<1>15. chosen' \in [Ids -> StageValue \cup {"none", "deleted"}] /\ chosen'[i] = "deleted" /\ \A j \in Ids \ {i} : chosen'[j] = chosen[j]
  BY <1>1, <1>2 DEF EditingTypeOK
<1>16. view' \in Views /\ view'.id = Editing!Nobody /\ view'.generation = view.generation + 1 /\ view.generation \in Nat
  BY <1>1, <1>2, ClosesIs DEF EditingTypeOK, Views
<1>17. EditingTypeOK'
  BY <1>1, <1>2, <1>12, <1>14, <1>15, <1>16 DEF EditingTypeOK
<1>18. ASSUME NEW j \in Ids, Is(j)' PROVE ObjectFits(j)' /\ FileFits(j)'
  <2>1. Is(j) /\ j # i
    BY <1>13, <1>18
  <2>2. ObjectFits(j)'
    BY <1>1, <1>4, <1>11, <1>15, <2>1 DEF ObjectFits
  <2>3. CASE mem[j].parent = i
    <3> DEFINE saved == disk'[mem[j].name]
    <3>1. saved # Editing!Free /\ saved.id = j /\ saved.parent = "none" /\ saved.val = chosen'[j] /\ saved.date = mem'[j].date
      BY <1>9, <1>11, <1>15, <2>1, <2>3
    <3>2. mem'[j].name = mem[j].name /\ mem'[j].parent = "none"
      BY <1>11, <2>1, <2>3
    <3> QED BY <2>2, <3>1, <3>2 DEF FileFits
  <2>4. CASE mem[j].parent # i
    <3>1. disk'[mem[j].name] = disk[mem[j].name]
      BY <1>4, <1>10, <2>1, <2>4
    <3>2. mem'[j].parent # "none" => Is(mem[j].parent)'
      BY <1>4, <1>11, <1>13, <2>1, <2>4 DEF FileFits
    <3> QED BY <1>4, <1>11, <1>15, <2>1, <2>2, <2>4, <3>1, <3>2 DEF FileFits
  <2> QED BY <2>2, <2>3, <2>4
<1>19. ObjectsFit' /\ FilesFit'
  BY <1>18 DEF ObjectsFit, FilesFit
<1>20. OwnersFit'
  <2> SUFFICES ASSUME NEW n \in Names, disk'[n] # Editing!Free
               PROVE  \/ Is(disk[n].id)' /\ mem'[disk'[n].id].name = n
                      \/ Written' /\ creation'.id = disk'[n].id /\ creation'.name = n
    BY DEF OwnersFit
  <2>1. CASE \E j \in Ids : Is(j) /\ mem[j].parent = i /\ mem[j].name = n /\ j # i
    <3>1. PICK j \in Ids : Is(j) /\ mem[j].parent = i /\ mem[j].name = n /\ j # i
      BY <2>1
    <3>2. disk'[n].id = j /\ Is(j)' /\ mem'[j].name = n
      BY <1>9, <1>11, <1>13, <3>1
    <3> QED BY <3>2 DEF Is
  <2>2. CASE n # mem[i].name /\ disk'[n] = disk[n]
    <3>1. disk[n].id \in Ids
      BY <1>2, <2>2, EntryIs
    <3>2. Is(disk[n].id) /\ mem[disk[n].id].name = n => Is(disk[n].id)' /\ mem'[disk'[n].id].name = n
      BY <1>11, <1>13, <2>2, <3>1 DEF Is
    <3> QED BY <1>1, <1>2, <2>2, <3>1, <3>2 DEF StagesFit, OwnersFit, Written
  <2> QED BY <1>10, <2>1, <2>2
<1>21. GoneFits'
  BY <1>1, <1>2, <1>13, <1>15 DEF StagesFit, GoneFits, Written
<1>22. CreationFits'
  <2> SUFFICES ASSUME creation.pc # "none" PROVE CreationFits'
    BY <1>1 DEF CreationFits
  <2>1. creation.id \in Ids /\ creation.parent \in Ids \cup {"none"} /\ creation.name \in Names
    BY <1>2 DEF EditingTypeOK, Editing!NoCreation, Creations
  <2>2. ~Is(creation.id) /\ creation.id # i
    BY <1>2 DEF StagesFit, CreationFits
  <2>3. creation.pc = "save" \/ Written => \A j \in Ids : Is(j) => mem[j].name # creation.name
    BY <1>2, <1>4, <2>2 DEF StagesFit, CreationFits, FileFits
  <2>4. creation.pc = "save" \/ Written => disk'[creation.name] = disk[creation.name]
    BY <1>2, <1>10, <2>1, <2>3
  <2> QED BY <1>1, <1>2, <1>13, <1>15, <2>1, <2>2, <2>4 DEF StagesFit, CreationFits, Written
<1>23. LoadsFit'
  <2>1. OneLoader' /\ KnownFits' /\ ViewFits'
    BY <1>1, <1>2, <1>15, <1>16 DEF LoadsFit, OneLoader, KnownFits, ViewFits, EditingTypeOK, Loaders
  <2>2. LoadersFit'
    BY <1>1, <1>2 DEF LoadsFit, LoadersFit, LoaderFits, Editing!Busy
  <2>3. AwaitedFit'
    <3> SUFFICES ASSUME NEW w \in loads, w.kind = "load" PROVE AwaitedFits(w)'
      BY <1>1 DEF AwaitedFit
    <3>1. w.generation <= view.generation /\ w.generation \in Nat
      BY <1>2 DEF LoadsFit, AwaitedFit, AwaitedFits, EditingTypeOK, Loaders
    <3> QED BY <1>16, <3>1 DEF AwaitedFits
  <2> QED BY <2>1, <2>2, <2>3 DEF LoadsFit
<1> QED BY <1>17, <1>19, <1>20, <1>21, <1>22, <1>23 DEF EditingInv, StagesFit

\* A step of a creation: what is there stays.
LEMMA OthersStay ==
  ASSUME EditingInv, UNCHANGED <<view, loads>>,
         \A j \in Ids : Is(j) => mem'[j] = mem[j] /\ chosen'[j] = chosen[j] /\ disk'[mem[j].name] = disk[mem[j].name],
         \A j \in Ids : Is(j)' => Is(j) \/ \A w \in loads : w.id # j,
         \A w \in loads : chosen'[w.id] # "none" /\ (creation'.pc # "none" => creation'.id # w.id)
  PROVE  LoadsFit' /\ \A j \in Ids : Is(j) => Is(j)' /\ ObjectFits(j)' /\ FileFits(j)'
<1>1. EditingTypeOK /\ StagesFit /\ LoadsFit
  BY DEF EditingInv
<1>2. \A j \in Ids : Is(j) => Is(j)'
  BY DEF Is
<1>3. ASSUME NEW j \in Ids, Is(j)
      PROVE  ObjectFits(j)' /\ FileFits(j)' /\ DefaultOf(j)' = DefaultOf(j) /\ BaseOf(j)' = BaseOf(j)
  <2>1. ObjectFits(j) /\ FileFits(j) /\ mem[j].parent \in Ids \cup {"none"}
    BY <1>1, <1>3, ObjectIs DEF StagesFit, ObjectsFit, FilesFit
  <2>2. mem'[j] = mem[j] /\ chosen'[j] = chosen[j] /\ disk'[mem[j].name] = disk[mem[j].name]
    BY <1>3
  <2>3. mem[j].parent # "none" /\ Is(mem[j].parent) => Is(mem[j].parent)'
    BY <1>2, <2>1, <2>2
  <2>4. \A w \in loads : w.pc = "record" /\ w.id = j /\ ~w.stale => \E v \in loads' : v.pc = "record" /\ v.id = j /\ ~v.stale
    OBVIOUS
  <2> QED BY <1>1, <1>3, <2>1, <2>2, <2>3, <2>4, SameFits
<1>4. \A w \in loads : w.id \in Ids /\ (Is(w.id)' => Is(w.id))
  BY <1>1 DEF EditingTypeOK, Loaders
<1>5. OneLoader' /\ KnownFits'
  BY <1>1 DEF LoadsFit, OneLoader, KnownFits
<1>6. LoadersFit'
  <2> SUFFICES ASSUME NEW w \in loads PROVE LoaderFits(w)'
    BY DEF LoadersFit
  <2>1. LoaderFits(w)
    BY <1>1 DEF LoadsFit, LoadersFit
  <2>2. Is(w.id)' => Is(w.id) /\ mem'[w.id] = mem[w.id] /\ DefaultOf(w.id)' = DefaultOf(w.id)
    BY <1>3, <1>4
  <2> QED BY <2>1, <2>2 DEF LoaderFits
<1>7. view.id \in Ids \cup {Editing!Nobody} /\ (view.id # Editing!Nobody => Is(view.id))
  BY <1>1 DEF EditingTypeOK, Views, LoadsFit, ViewFits
<1>8. AwaitedFit'
  <2> SUFFICES ASSUME NEW w \in loads, w.kind = "load" PROVE AwaitedFits(w)'
    BY DEF AwaitedFit
  <2>1. AwaitedFits(w)
    BY <1>1 DEF LoadsFit, AwaitedFit
  <2>2. w.generation = view.generation => Is(w.id)
    BY <1>4, <1>7, <2>1, EditingConstants DEF AwaitedFits
  <2>3. Is(w.id) => mem'[w.id] = mem[w.id] /\ DefaultOf(w.id)' = DefaultOf(w.id) /\ BaseOf(w.id)' = BaseOf(w.id)
    BY <1>3, <1>4
  <2> QED BY <2>1, <2>2, <2>3 DEF AwaitedFits
<1>9. ViewFits'
  BY <1>1, <1>2, <1>3, <1>7 DEF LoadsFit, ViewFits
<1> QED BY <1>2, <1>3, <1>5, <1>6, <1>8, <1>9 DEF LoadsFit

LEMMA CreateKeeps ==
  ASSUME EditingInv, NEW i \in Ids, NEW seed \in Editing!Live(mem) \cup {"none"}, NEW name \in Names,
         Editing!Create(i, seed, name)
  PROVE  EditingInv'
<1>1. /\ EditingTypeOK /\ StagesFit /\ LoadsFit /\ UNCHANGED <<disk, mem, view, loads, chosen>>
      /\ creation.pc = "none" /\ ~Is(i) /\ chosen[i] = "none"
      /\ creation' = [pc |-> "check", id |-> i, parent |-> seed, name |-> name]
  BY DEF EditingInv, Editing!Create, Is
<1>2. seed \in Ids \cup {"none"} /\ (seed # "none" => Is(seed))
  BY DEF Editing!Live, Is
<1>3. creation' \in Creations /\ creation'.pc = "check" /\ creation'.id = i /\ creation'.parent = seed
  BY <1>1, <1>2 DEF Creations
<1>4. \A j : Is(j)' <=> Is(j)
  BY <1>1 DEF Is
<1>5. \A w \in loads : chosen'[w.id] # "none" /\ creation'.id # w.id
  BY <1>1, <1>3 DEF LoadsFit, KnownFits
<1>6. LoadsFit' /\ \A j \in Ids : Is(j) => Is(j)' /\ ObjectFits(j)' /\ FileFits(j)'
  BY <1>1, <1>4, <1>5, OthersStay
<1>7. ObjectsFit' /\ FilesFit'
  BY <1>4, <1>6 DEF ObjectsFit, FilesFit
<1>8. OwnersFit' /\ GoneFits'
  BY <1>1, <1>3, <1>4 DEF StagesFit, OwnersFit, GoneFits, Written
<1>9. CreationFits'
  BY <1>1, <1>2, <1>3, <1>4 DEF CreationFits, Written
<1> QED BY <1>1, <1>3, <1>6, <1>7, <1>8, <1>9 DEF EditingInv, EditingTypeOK, StagesFit

\* What a creation is.
LEMMA CreationIs ==
  ASSUME EditingInv, creation.pc # "none"
  PROVE  /\ EditingTypeOK /\ StagesFit /\ LoadsFit /\ creation \in Creations /\ creation.id \in Ids
         /\ creation.parent \in Ids \cup {"none"} /\ creation.name \in Names
         /\ ~Is(creation.id) /\ (creation.parent # "none" => Is(creation.parent))
         /\ \A w \in loads : creation.id # w.id /\ chosen[w.id] # "none"
         /\ creation.pc = "save" \/ Written => \A j \in Ids : Is(j) => mem[j].name # creation.name
         /\ Editing!NewStage \in StageObjects
<1>1. EditingTypeOK /\ StagesFit /\ LoadsFit
  BY DEF EditingInv
<1>2. creation \in Creations
  BY <1>1 DEF EditingTypeOK, Editing!NoCreation
<1>3. creation.id \in Ids /\ creation.parent \in Ids \cup {"none"} /\ creation.name \in Names
  BY <1>2 DEF Creations
<1>4. ~Is(creation.id) /\ (creation.parent # "none" => Is(creation.parent))
  BY <1>1 DEF StagesFit, CreationFits
<1>5. \A w \in loads : creation.id # w.id /\ chosen[w.id] # "none"
  BY <1>1 DEF LoadsFit, KnownFits
<1>6. creation.pc = "save" \/ Written => \A j \in Ids : Is(j) => mem[j].name # creation.name
  BY <1>1, <1>4 DEF StagesFit, FilesFit, FileFits, CreationFits
<1>7. "unset" \in StageValue /\ "none" \in Dates
  BY EditingConstants DEF StageValue
<1>8. Editing!NewStage \in StageObjects
  BY <1>3, <1>7 DEF Editing!NewStage, StageObjects
<1> QED BY <1>1, <1>2, <1>3, <1>4, <1>5, <1>6, <1>8

LEMMA CreateThreadKeeps == ASSUME EditingInv, Editing!CreateThread PROVE EditingInv'
<1>1. /\ UNCHANGED <<mem, view, loads>>
      /\ Editing!CreateChecks \/ Editing!CreateSaves \/ Editing!CreateRecords
  BY DEF Editing!CreateThread
<1>2. creation.pc # "none"
  BY <1>1 DEF Editing!CreateChecks, Editing!CreateSaves, Editing!CreateRecords
<1>3. /\ EditingTypeOK /\ StagesFit /\ LoadsFit /\ creation \in Creations /\ creation.id \in Ids
      /\ creation.parent \in Ids \cup {"none"} /\ creation.name \in Names
      /\ ~Is(creation.id) /\ (creation.parent # "none" => Is(creation.parent))
      /\ \A w \in loads : creation.id # w.id /\ chosen[w.id] # "none"
      /\ creation.pc = "save" \/ Written => \A j \in Ids : Is(j) => mem[j].name # creation.name
      /\ Editing!NewStage \in StageObjects
  BY <1>2, CreationIs
<1>4. \A j : Is(j)' <=> Is(j)
  BY <1>1 DEF Is
<1>5. \A pc \in {"save", "baseline", "end"} :
        LET next == [creation EXCEPT !.pc = pc] IN
        next \in Creations /\ next.pc = pc /\ next.id = creation.id /\ next.parent = creation.parent /\ next.name = creation.name
  BY <1>3 DEF Creations
<1>6. Editing!NoCreation.pc = "none"
  BY DEF Editing!NoCreation
<1>7. CASE Editing!CreateChecks
  <2>1. /\ creation.pc = "check" /\ disk' = disk /\ chosen' = chosen
        /\ creation' = IF disk[creation.name] = Editing!Free THEN [creation EXCEPT !.pc = "save"] ELSE Editing!NoCreation
    BY <1>7 DEF Editing!CreateChecks, Editing!IsAvailable
  <2>2. \/ creation' = Editing!NoCreation
        \/ /\ creation' \in Creations /\ creation'.pc = "save" /\ creation'.id = creation.id
           /\ creation'.parent = creation.parent /\ creation'.name = creation.name /\ disk[creation.name] = Editing!Free
    BY <1>5, <2>1
  <2>3. LoadsFit' /\ \A j \in Ids : Is(j) => Is(j)' /\ ObjectFits(j)' /\ FileFits(j)'
    BY <1>1, <1>3, <1>4, <1>6, <2>1, <2>2, OthersStay
  <2>4. ObjectsFit' /\ FilesFit'
    BY <1>4, <2>3 DEF ObjectsFit, FilesFit
  <2>5. OwnersFit' /\ GoneFits'
    BY <1>1, <1>3, <1>4, <2>1 DEF StagesFit, OwnersFit, GoneFits, Written
  <2>6. CreationFits'
    BY <1>1, <1>3, <1>4, <1>6, <2>1, <2>2 DEF StagesFit, CreationFits, Written
  <2> QED BY <1>1, <1>3, <2>1, <2>2, <2>3, <2>4, <2>5, <2>6 DEF EditingInv, EditingTypeOK, StagesFit
<1>8. CASE Editing!CreateSaves
  <2>1. /\ creation.pc = "save" /\ disk' = Editing!SaveStage(disk, Editing!NewStage)
        /\ creation' = [creation EXCEPT !.pc = "baseline"] /\ chosen' = [chosen EXCEPT ![creation.id] = "unset"]
    BY <1>8 DEF Editing!CreateSaves
  <2>2. /\ creation' \in Creations /\ creation'.pc = "baseline" /\ creation'.id = creation.id
        /\ creation'.parent = creation.parent /\ creation'.name = creation.name
    BY <1>5, <2>1
  <2> DEFINE s == Editing!NewStage
  <2>3. /\ s.id = creation.id /\ s.name = creation.name /\ s.parent = creation.parent /\ s.date = "none"
        /\ Editing!Serialized(s) = "unset" /\ Editing!SavedDate(s) = "none"
    BY DEF Editing!NewStage, Editing!Serialized, Editing!SavedDate
  <2> HIDE DEF s
  <2>4. disk \in [Names -> {Editing!Free} \cup Editing!Entries] /\ s \in StageObjects /\ disk' = Editing!SaveStage(disk, s)
    BY <1>3, <2>1 DEF EditingTypeOK, s
  <2>5. LET saved == disk'[s.name] IN
        /\ disk' \in [Names -> {Editing!Free} \cup Editing!Entries] /\ saved # Editing!Free
        /\ saved.id = s.id /\ saved.parent = s.parent /\ saved.val = Editing!Serialized(s) /\ saved.date = Editing!SavedDate(s)
        /\ \A n \in Names \ {s.name} : disk'[n] = disk[n]
    BY <2>4, SavedEntry
  <2>6. LET saved == disk'[creation.name] IN
        /\ saved # Editing!Free /\ saved.id = creation.id /\ saved.parent = creation.parent /\ saved.val = "unset"
        /\ saved.date = "none"
    BY <2>3, <2>5
  <2>7. \A n \in Names \ {creation.name} : disk'[n] = disk[n]
    BY <2>3, <2>5
  <2>8. /\ chosen' \in [Ids -> StageValue \cup {"none", "deleted"}] /\ chosen'[creation.id] = "unset"
        /\ \A j \in Ids \ {creation.id} : chosen'[j] = chosen[j]
    BY <1>3, <2>1 DEF EditingTypeOK, StageValue
  <2>9. \A j \in Ids : Is(j) => mem'[j] = mem[j] /\ chosen'[j] = chosen[j] /\ disk'[mem[j].name] = disk[mem[j].name]
    BY <1>1, <1>3, <2>1, <2>7, <2>8, ObjectIs
  <2>10. \A w \in loads : chosen'[w.id] # "none" /\ creation'.id # w.id
    BY <1>3, <2>2, <2>8 DEF EditingTypeOK, Loaders
  <2>11. LoadsFit' /\ \A j \in Ids : Is(j) => Is(j)' /\ ObjectFits(j)' /\ FileFits(j)'
    BY <1>1, <1>4, <2>9, <2>10, OthersStay
  <2>12. ObjectsFit' /\ FilesFit'
    BY <1>4, <2>11 DEF ObjectsFit, FilesFit
  <2>13. OwnersFit'
    <3> SUFFICES ASSUME NEW n \in Names, disk'[n] # Editing!Free
                 PROVE  \/ Is(disk[n].id)' /\ mem'[disk'[n].id].name = n
                        \/ Written' /\ creation'.id = disk'[n].id /\ creation'.name = n
      BY DEF OwnersFit
    <3>1. CASE n = creation.name
      BY <2>2, <2>6, <3>1 DEF Written
    <3>2. CASE n # creation.name
      BY <1>1, <1>3, <1>4, <2>1, <2>7, <3>2 DEF StagesFit, OwnersFit, Written, Is
    <3> QED BY <3>1, <3>2
  <2>14. GoneFits'
    BY <1>3, <1>4, <2>1, <2>2, <2>8 DEF StagesFit, GoneFits, Written
  <2>15. CreationFits'
    BY <1>3, <1>4, <2>2, <2>6, <2>8 DEF CreationFits, Written
  <2> QED BY <1>1, <1>3, <2>2, <2>5, <2>8, <2>11, <2>12, <2>13, <2>14, <2>15 DEF EditingInv, EditingTypeOK, StagesFit
<1>9. CASE Editing!CreateRecords
  <2> DEFINE base == [Editing!NoBaseline EXCEPT !.kind = "initial"]
             name == creation.name
  <2>1. /\ creation.pc = "baseline" /\ creation' = [creation EXCEPT !.pc = "end"] /\ chosen' = chosen
        /\ disk' = [disk EXCEPT ![name].base = base]
    BY <1>9 DEF Editing!CreateRecords
  <2>2. /\ creation' \in Creations /\ creation'.pc = "end" /\ creation'.id = creation.id
        /\ creation'.parent = creation.parent /\ creation'.name = name
    BY <1>5, <2>1
  <2>3. base \in Editing!Baselines
    BY EditingConstants DEF Editing!NoBaseline, Editing!Baselines
  <2> HIDE DEF base
  <2>4. /\ disk[name] # Editing!Free /\ disk[name].id = creation.id /\ disk[name].parent = creation.parent
        /\ disk[name].val = "unset" /\ disk[name].date = "none" /\ chosen[creation.id] = "unset" /\ disk[name] \in Editing!Entries
    BY <1>3, <2>1, EntryIs DEF StagesFit, CreationFits, Written
  <2> DEFINE saved == [disk[name] EXCEPT !.base = base]
  <2>5. /\ saved \in Editing!Entries /\ saved.id = disk[name].id /\ saved.parent = disk[name].parent
        /\ saved.val = disk[name].val /\ saved.date = disk[name].date
    BY <2>3, <2>4 DEF Editing!Entries
  <2>6. disk' = [disk EXCEPT ![name] = saved]
    BY <1>3, <2>1 DEF EditingTypeOK
  <2> HIDE DEF saved
  <2>7. /\ disk' \in [Names -> {Editing!Free} \cup Editing!Entries] /\ disk'[name] = saved /\ saved # Editing!Free
        /\ \A n \in Names \ {name} : disk'[n] = disk[n]
    BY <1>3, <2>5, <2>6, EntriesOwned DEF EditingTypeOK
  <2>8. \A j \in Ids : Is(j) => mem'[j] = mem[j] /\ chosen'[j] = chosen[j] /\ disk'[mem[j].name] = disk[mem[j].name]
    BY <1>1, <1>3, <2>1, <2>7, ObjectIs DEF Written
  <2>9. \A w \in loads : chosen'[w.id] # "none" /\ creation'.id # w.id
    BY <1>3, <2>1, <2>2
  <2>10. LoadsFit' /\ \A j \in Ids : Is(j) => Is(j)' /\ ObjectFits(j)' /\ FileFits(j)'
    BY <1>1, <1>4, <2>8, <2>9, OthersStay
  <2>11. ObjectsFit' /\ FilesFit'
    BY <1>4, <2>10 DEF ObjectsFit, FilesFit
  <2>12. OwnersFit'
    <3> SUFFICES ASSUME NEW n \in Names, disk'[n] # Editing!Free
                 PROVE  \/ Is(disk[n].id)' /\ mem'[disk'[n].id].name = n
                        \/ Written' /\ creation'.id = disk'[n].id /\ creation'.name = n
      BY DEF OwnersFit
    <3>1. CASE n = name
      BY <2>2, <2>4, <2>5, <2>7, <3>1 DEF Written
    <3>2. CASE n # name
      BY <1>1, <1>3, <1>4, <2>1, <2>7, <3>2 DEF StagesFit, OwnersFit, Written, Is
    <3> QED BY <3>1, <3>2
  <2>13. GoneFits'
    BY <1>3, <1>4, <2>1, <2>2 DEF StagesFit, GoneFits, Written
  <2>14. CreationFits'
    BY <1>3, <1>4, <2>1, <2>2, <2>4, <2>5, <2>7 DEF CreationFits, Written
  <2> QED BY <1>1, <1>3, <2>1, <2>2, <2>7, <2>10, <2>11, <2>12, <2>13, <2>14 DEF EditingInv, EditingTypeOK, StagesFit
<1> QED BY <1>1, <1>7, <1>8, <1>9

LEMMA CreateEndsKeeps == ASSUME EditingInv, Editing!CreateEnds PROVE EditingInv'
<1> PICK i, s : i = creation.id /\ s = Editing!NewStage
  OBVIOUS
<1>1. /\ creation.pc = "end" /\ mem' = [mem EXCEPT ![i] = s] /\ creation' = Editing!NoCreation
      /\ UNCHANGED <<disk, view, loads, chosen>>
  BY DEF Editing!CreateEnds
<1>2. /\ EditingTypeOK /\ StagesFit /\ LoadsFit /\ i \in Ids /\ creation.name \in Names /\ creation.parent \in Ids \cup {"none"}
      /\ ~Is(i) /\ (creation.parent # "none" => Is(creation.parent))
      /\ \A w \in loads : i # w.id /\ chosen[w.id] # "none"
      /\ s \in StageObjects
  BY <1>1, CreationIs
<1>3. /\ s.id = i /\ s.name = creation.name /\ s.parent = creation.parent /\ s.val = "unset" /\ s.explicit = FALSE
      /\ s.default = "absent" /\ s.user = FALSE /\ s.date = "none"
  BY DEF Editing!NewStage
<1>4. /\ mem' \in [Ids -> {Editing!Gone} \cup StageObjects] /\ mem'[i] = s /\ \A j \in Ids \ {i} : mem'[j] = mem[j]
  BY <1>1, <1>2 DEF EditingTypeOK
<1>5. \A j \in Ids : Is(j)' <=> Is(j) \/ j = i
  BY <1>2, <1>4, EntriesOwned DEF Is
<1>6. Editing!NoCreation.pc = "none"
  BY DEF Editing!NoCreation
<1>7. LET saved == disk[creation.name] IN
      /\ saved # Editing!Free /\ saved.id = i /\ saved.parent = creation.parent /\ saved.val = "unset"
      /\ saved.date = "none" /\ chosen[i] = "unset"
  BY <1>1, <1>2 DEF StagesFit, CreationFits, Written
<1>8. LoadsFit' /\ \A j \in Ids : Is(j) => Is(j)' /\ ObjectFits(j)' /\ FileFits(j)'
  <2>1. \A j \in Ids : Is(j) => mem'[j] = mem[j] /\ chosen'[j] = chosen[j] /\ disk'[mem[j].name] = disk[mem[j].name]
    BY <1>1, <1>2, <1>4
  <2> QED BY <1>1, <1>2, <1>5, <1>6, <2>1, OthersStay
<1>9. ObjectFits(i)' /\ FileFits(i)'
  <2>1. ObjectFits(i)'
    BY <1>1, <1>3, <1>4, <1>7 DEF ObjectFits
  <2>2. mem'[i].parent # "none" => Is(mem[i].parent)'
    BY <1>2, <1>3, <1>4, <1>5
  <2>3. FileFits(i)'
    BY <1>1, <1>3, <1>4, <1>7, <2>2 DEF FileFits
  <2> QED BY <2>1, <2>3
<1>10. ObjectsFit' /\ FilesFit'
  BY <1>5, <1>8, <1>9 DEF ObjectsFit, FilesFit
<1>11. OwnersFit'
  <2> SUFFICES ASSUME NEW n \in Names, disk[n] # Editing!Free PROVE Is(disk[n].id)' /\ mem'[disk[n].id].name = n
    BY <1>1 DEF OwnersFit
  <2>1. disk[n].id \in Ids
    BY <1>2, EntryIs
  <2> QED BY <1>1, <1>2, <1>3, <1>4, <1>5, <2>1 DEF StagesFit, OwnersFit
<1>12. GoneFits' /\ CreationFits'
  BY <1>1, <1>2, <1>5, <1>6 DEF StagesFit, GoneFits, CreationFits, Written
<1> QED BY <1>1, <1>2, <1>4, <1>8, <1>10, <1>11, <1>12 DEF EditingInv, EditingTypeOK, StagesFit

LEMMA EditingStep ==
  ASSUME ~Overlap, EditingInv, [Editing!Next]_editingVars
  PROVE  EditingInv'
<1>1. CASE UNCHANGED editingVars
  <2>1. UNCHANGED <<disk, mem, view, loads, creation, chosen>>
    BY <1>1 DEF editingVars
  <2>2. EditingTypeOK' /\ StagesFit'
    BY <2>1, StagesStay DEF EditingInv, EditingTypeOK
  <2>3. OneLoader' /\ LoadersFit' /\ KnownFits' /\ AwaitedFit' /\ ViewFits'
    BY <2>1 DEF EditingInv, LoadsFit, OneLoader, LoadersFit, LoaderFits, KnownFits, AwaitedFit, AwaitedFits,
       ViewFits, Is,
                DefaultOf, BaseOf
  <2> QED BY <2>2, <2>3 DEF EditingInv, LoadsFit
<1>2. CASE Editing!Thread \/ Editing!Delivers \/ Editing!CreateThread \/ Editing!CreateEnds
  BY <1>2, LoaderKeeps, DeliversKeeps, CreateThreadKeeps, CreateEndsKeeps
<1>3. CASE Editing!Leave \/ Editing!Restore \/ Editing!Delete \/ Editing!Build \/ Editing!Discard \/ Editing!Restart
  BY <1>3, LeaveKeeps, RestoreKeeps, DeleteKeeps, BuildKeeps, DiscardKeeps, RestartKeepsStages
<1>4. CASE \E i \in Ids : Editing!Open(i)
  BY <1>4, OpenKeeps
<1>5. CASE \E val \in Editing!Given : Editing!Edit(val)
  BY <1>5, EditKeeps
<1>6. CASE \E seed \in Editing!PossibleSeeds(mem, view.id) : Editing!EditParent(seed)
  BY <1>6, EditParentKeeps
<1>7. CASE \E name \in Names : Editing!Rename(name)
  BY <1>7, RenameKeeps
<1>8. CASE \E i \in Ids, seed \in Editing!Live(mem) \cup {"none"}, name \in Names : Editing!Create(i, seed, name)
  BY <1>8, CreateKeeps
<1> QED BY <1>1, <1>2, <1>3, <1>4, <1>5, <1>6, <1>7, <1>8 DEF Editing!Next, Editing!User

\* Every stage has one directory, and it is what was chosen.
LEMMA FilesTell == EditingInv => Editing!TypeOK /\ Editing!SavedAsChosen
<1> SUFFICES ASSUME EditingInv PROVE Editing!TypeOK /\ Editing!SavedAsChosen
  OBVIOUS
<1>1. EditingTypeOK /\ StagesFit /\ LoadsFit
  BY DEF EditingInv
<1>2. Editing!TypeOK
  BY <1>1, EntryIs DEF Editing!TypeOK, Editing!Dirs, EditingTypeOK, Loaders, StageValue
<1>3. ASSUME NEW n \in Names, disk[n] # Editing!Free
      PROVE  /\ disk[n].id \in Ids
             /\ \/ Is(disk[n].id) /\ mem[disk[n].id].name = n
                \/ Written /\ ~Is(disk[n].id) /\ creation.id = disk[n].id /\ creation.name = n
  <2>1. disk[n].id \in Ids
    BY <1>1, <1>3, EntryIs
  <2>2. Written => creation.pc # "none"
    BY DEF Written
  <2> QED BY <1>1, <1>3, <2>1, <2>2 DEF StagesFit, OwnersFit, CreationFits
<1>4. \A i \in Ids : Is(i) => /\ ObjectFits(i) /\ FileFits(i) /\ mem[i].name \in Names /\ mem[i].parent \in Ids \cup {"none"}
                             /\ disk[mem[i].name] # Editing!Free
  BY <1>1, ObjectIs DEF StagesFit, ObjectsFit, FilesFit, FileFits
<1>5. Written => LET saved == disk[creation.name] IN
        /\ creation.name \in Names /\ creation.id \in Ids /\ ~Is(creation.id) /\ saved # Editing!Free /\ saved.id = creation.id
        /\ saved.parent = creation.parent /\ saved.val = "unset" /\ chosen[creation.id] = "unset"
        /\ creation.parent \in Ids \cup {"none"} /\ (creation.parent # "none" => Is(creation.parent))
  <2> SUFFICES ASSUME Written PROVE LET saved == disk[creation.name] IN
        /\ creation.name \in Names /\ creation.id \in Ids /\ ~Is(creation.id) /\ saved # Editing!Free /\ saved.id = creation.id
        /\ saved.parent = creation.parent /\ saved.val = "unset" /\ chosen[creation.id] = "unset"
        /\ creation.parent \in Ids \cup {"none"} /\ (creation.parent # "none" => Is(creation.parent))
    OBVIOUS
  <2>1. creation.pc # "none"
    BY DEF Written
  <2> QED BY <1>1, <2>1, CreationIs DEF StagesFit, CreationFits
<1>6. \A i \in Ids : Is(i) => \E other \in Editing!Dirs : disk[other].id = i
  BY <1>4 DEF FileFits, Editing!Dirs
<1>7. ASSUME NEW i \in Ids, chosen[i] \in {"none", "deleted"} PROVE \A n \in Editing!Dirs : disk[n].id # i
  BY <1>3, <1>4, <1>5, <1>7 DEF ObjectFits, Editing!Dirs
<1>8. ASSUME NEW i \in Ids, chosen[i] \notin {"none", "deleted"}
      PROVE  \E n \in Editing!Dirs :
               /\ disk[n].id = i /\ disk[n].val = chosen[i] /\ (\A other \in Editing!Dirs \ {n} : disk[other].id # i)
               /\ disk[n].parent # "none" => \E other \in Editing!Dirs : disk[other].id = disk[n].parent
               /\ mem[i] # Editing!Gone => mem[i].name = n /\ mem[i].parent = disk[n].parent
                                           /\ mem[i].explicit = (chosen[i] # "unset")
  <2>1. CASE Is(i)
    <3> DEFINE n == mem[i].name
    <3>1. n \in Editing!Dirs
      BY <1>4, <2>1 DEF Editing!Dirs
    <3>2. /\ disk[n].id = i /\ disk[n].val = chosen[i] /\ mem[i].parent = disk[n].parent /\ mem[i].explicit = (chosen[i] # "unset")
          /\ (mem[i].parent # "none" => Is(mem[i].parent)) /\ mem[i].parent \in Ids \cup {"none"}
      BY <1>4, <2>1 DEF FileFits, ObjectFits
    <3>3. \A other \in Editing!Dirs \ {n} : disk[other].id # i
      BY <1>3, <2>1 DEF Editing!Dirs
    <3>4. disk[n].parent # "none" => \E other \in Editing!Dirs : disk[other].id = disk[n].parent
      BY <1>6, <3>2
    <3> HIDE DEF n
    <3>5. mem[i].name = n
      BY DEF n
    <3> QED BY <3>1, <3>2, <3>3, <3>4, <3>5
  <2>2. CASE ~Is(i)
    <3>1. Written /\ creation.id = i
      BY <1>1, <1>8, <2>2 DEF StagesFit, GoneFits
    <3> DEFINE n == creation.name
    <3>2. n \in Editing!Dirs /\ disk[n].id = i /\ disk[n].val = chosen[i]
      BY <1>5, <3>1 DEF Editing!Dirs
    <3>3. \A other \in Editing!Dirs \ {n} : disk[other].id # i
      BY <1>3, <2>2 DEF Editing!Dirs
    <3>4. disk[n].parent # "none" => \E other \in Editing!Dirs : disk[other].id = disk[n].parent
      BY <1>5, <1>6, <3>1
    <3> QED BY <2>2, <3>2, <3>3, <3>4 DEF Is
  <2> QED BY <2>1, <2>2
<1>9. Editing!SavedAsChosen
  BY <1>7, <1>8 DEF Editing!SavedAsChosen
<1> QED BY <1>2, <1>9

\* Who changed a value matters only where the change has no date.
LEMMA CustomizedIs ==
  ASSUME NEW s, NEW t, NEW base, s.val = t.val, s.explicit = t.explicit, s.default = t.default, s.date = t.date,
         s.date = "none" => s.user = t.user
  PROVE  Editing!IsCustomized(s, base) = Editing!IsCustomized(t, base)
<1>1. Editing!Serialized(s) = Editing!Serialized(t)
  BY DEF Editing!Serialized
<1>2. Editing!DiffersFromDefault(s) = Editing!DiffersFromDefault(t)
  BY DEF Editing!DiffersFromDefault
<1>3. Editing!DiffersFromSource(s, base) = Editing!DiffersFromSource(t, base)
  BY <1>1, <1>2 DEF Editing!DiffersFromSource
<1> QED BY <1>1, <1>2, <1>3 DEF Editing!IsCustomized

\* What is loaded again, with its default, is the object that there is.
LEMMA CustomizedStays == EditingInv => Editing!CustomizedSurvives
<1> SUFFICES ASSUME EditingInv, view.id # Editing!Nobody, ~view.loading, ~Editing!Busy
             PROVE  Editing!IsCustomized(mem[view.id], view.base) =
                      Editing!IsCustomized(Editing!Refreshed(Editing!LoadedStages(disk), view.id)[view.id], Editing!Baseline(view.id))
  BY DEF Editing!CustomizedSurvives
<1> PICK i : i = view.id
  OBVIOUS
<1>1. EditingTypeOK /\ StagesFit /\ LoadsFit
  BY DEF EditingInv
<1>2. i \in Ids /\ Is(i) /\ view.base = BaseOf(i) /\ mem[i].default = DefaultOf(i)
  BY <1>1 DEF EditingTypeOK, Views, LoadsFit, ViewFits
<1>3. Editing!Baseline(i) = view.base
  BY <1>1, <1>2, BaselineIs
<1>4. mem[i] \in StageObjects /\ ObjectFits(i) /\ FileFits(i) /\ mem[i].name \in Names /\ mem[i].parent \in Ids \cup {"none"}
  BY <1>1, <1>2, ObjectIs DEF StagesFit, ObjectsFit, FilesFit
<1>5. \A n, other \in Names : disk[n] # Editing!Free /\ n # other => disk[other].id # disk[n].id
  <2> SUFFICES ASSUME NEW n \in Names, NEW other \in Names, disk[n] # Editing!Free, disk[other].id = disk[n].id PROVE n = other
    OBVIOUS
  <2>1. disk[n].id \in Ids /\ disk[other] # Editing!Free
    BY <1>1, EntryIs, EntriesOwned
  <2>2. \A k \in Ids : Written /\ creation.id = k => ~Is(k)
    BY <1>1 DEF StagesFit, CreationFits, Written
  <2> QED BY <1>1, <2>1, <2>2 DEF StagesFit, OwnersFit
<1> DEFINE all == Editing!LoadedStages(disk)
           name == mem[i].name
           l == Editing!LoadedStage(disk[name], name)
           d == DefaultOf(i)
<1>6. /\ all \in [Ids -> {Editing!Gone} \cup StageObjects]
      /\ \A n \in Names : disk[n] # Editing!Free =>
           /\ all[disk[n].id] = Editing!LoadedStage(disk[n], n)
           /\ Editing!LoadedStage(disk[n], n) \in StageObjects /\ Editing!LoadedStage(disk[n], n) # Editing!Gone
  <2>1. disk \in [Names -> {Editing!Free} \cup Editing!Entries]
    BY <1>1 DEF EditingTypeOK
  <2> QED BY <1>5, <2>1, LoadedObjects
<1>7. /\ all[i] = l /\ l \in StageObjects /\ l.val = chosen[i] /\ l.explicit = (chosen[i] # "unset") /\ l.default = "absent"
      /\ l.user = FALSE /\ l.date = mem[i].date /\ l.parent = mem[i].parent
  <2>1. disk[name] # Editing!Free /\ disk[name].id = i /\ disk[name].val = chosen[i] /\ disk[name].date = mem[i].date
        /\ disk[name].parent = mem[i].parent
    BY <1>4 DEF FileFits
  <2>2. all[i] = l /\ l \in StageObjects
    <3> HIDE DEF all
    <3> QED BY <1>4, <1>6, <2>1
  <2> QED BY <2>1, <2>2 DEF Editing!LoadedStage
<1>8. Editing!Default(all, i) = d
  <2>1. mem[i].parent # "none" => mem[i].parent \in Ids /\ all[mem[i].parent] # Editing!Gone
    <3> SUFFICES ASSUME mem[i].parent # "none" PROVE mem[i].parent \in Ids /\ all[mem[i].parent] # Editing!Gone
      OBVIOUS
    <3>1. mem[i].parent \in Ids /\ Is(mem[i].parent)
      BY <1>4 DEF FileFits
    <3>2. FileFits(mem[i].parent) /\ mem[mem[i].parent].name \in Names
      BY <1>1, <3>1, ObjectIs DEF StagesFit, FilesFit
    <3> HIDE DEF all
    <3> QED BY <1>6, <3>1, <3>2 DEF FileFits
  <2> HIDE DEF all, l
  <2> QED BY <1>4, <1>7, <2>1, EditingConstants DEF Editing!Default, Editing!Live, DefaultOf
<1>9. Editing!Refreshed(all, i)[i] = Editing!Record(Editing!Apply(Editing!Drop(l), d), d)
  <2> HIDE DEF all, l, d
  <2>1. Editing!Refreshed(all, i) =
          [all EXCEPT ![i] = Editing!Record(Editing!Apply(Editing!Drop(all[i]), Editing!Default(all, i)), Editing!Default(all, i))]
    BY Zenon DEF Editing!Refreshed
  <2> QED BY <1>2, <1>6, <1>7, <1>8, <2>1
<1>10. Editing!Record(Editing!Apply(Editing!Drop(l), d), d) =
         [l EXCEPT !.val = IF l.explicit THEN l.val ELSE ValueOf(d), !.default = d]
  <2>1. d \in {"none", "inherit"}
    BY DEF DefaultOf
  <2> HIDE DEF l, d
  <2>2. l \in StageObjects /\ (l.explicit => l.val # "unset") /\ (~l.explicit /\ l.default = "absent" => l.val = "unset")
    BY <1>7
  <2> QED BY <2>1, <2>2, RefreshedStage
<1> HIDE DEF all, l, d
<1> PICK t : t = Editing!Refreshed(all, i)[i]
  OBVIOUS
<1>11. t = [l EXCEPT !.val = IF l.explicit THEN l.val ELSE ValueOf(d), !.default = d]
  BY <1>9, <1>10
<1>12. /\ t.val = (IF l.explicit THEN l.val ELSE ValueOf(d)) /\ t.default = d /\ t.explicit = l.explicit
       /\ t.user = l.user /\ t.date = l.date
  BY <1>7, <1>11 DEF StageObjects
<1>13. mem[i].val = t.val /\ mem[i].explicit = t.explicit /\ mem[i].default = t.default /\ mem[i].date = t.date
       /\ (mem[i].date = "none" => mem[i].user = t.user)
  <2>1. d \in {"none", "inherit"} /\ mem[i].default = d
    BY <1>2 DEF d, DefaultOf
  <2>2. mem[i].user \in BOOLEAN
    BY <1>4 DEF StageObjects
  <2>3. mem[i].explicit = t.explicit /\ mem[i].date = t.date
    BY <1>4, <1>7, <1>12 DEF ObjectFits
  <2>4. mem[i].val = t.val
    <3>1. CASE mem[i].explicit
      BY <1>4, <1>7, <1>12, <2>3, <3>1 DEF ObjectFits
    <3>2. CASE ~mem[i].explicit
      <4>1. mem[i].val = ValueOf(d)
        BY <1>4, <2>1, <3>2 DEF ObjectFits
      <4> QED BY <1>12, <2>3, <3>2, <4>1
    <3> QED BY <3>1, <3>2
  <2>5. mem[i].date = "none" => mem[i].user = t.user
    BY <1>4, <1>7, <1>12, <2>2 DEF ObjectFits
  <2> QED BY <1>12, <2>1, <2>3, <2>4, <2>5
<1>14. Editing!IsCustomized(mem[i], view.base) = Editing!IsCustomized(t, view.base)
  BY <1>13, CustomizedIs
<1> QED BY <1>3, <1>14 DEF all

\* However stages are edited, restored, renamed, deleted, created, built and
\* discarded, while their defaults are calculated in threads, what is saved
\* of each is what was chosen for it, and it is shown as customized as it is
\* when the project is loaded again; unless the user is faster than a thread,
\* or a template has made the stages in this session
\* (project_stage.py, project_stage_details_view.py, project_manager.py).
THEOREM StagesSavedAsChosen == ASSUME ~Overlap, Made = {} PROVE EditingSpec => []SavedAsChosen
<1>1. Editing!Init => EditingInv
  BY EditingStarts
<1>2. EditingInv /\ [EditingNext]_<<editingVars, wizardVars>> => EditingInv'
  BY EditingStep DEF EditingNext
<1>3. EditingInv => SavedAsChosen
  BY FilesTell, CustomizedStays DEF SavedAsChosen
<1> QED BY <1>1, <1>2, <1>3, PTL DEF EditingSpec
==============================================================================
