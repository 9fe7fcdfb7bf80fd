---------------------- MODULE MultiStageProcess_proofs ----------------------
(***************************************************************************)
(* Safety of MultiStageProcess for any number of stages and commands,      *)
(* whoever cancels the process and whether or not cleanup raises: one      *)
(* stage runs at a time, stages run in order, and success is reported only *)
(* for a process that is whole; a process nobody canceled leaves nothing   *)
(* behind unless a cleanup raised; and one that only the main loop cancels,*)
(* and whose cleanup does not raise, is a ProcessLifecycle.  The inductive *)
(* invariant is Inv of MultiStageProcess.                                  *)
(***************************************************************************)
EXTENDS MCMultiStageProcess, TLAPS

-----------------------------------------------------------------------------
(* The invariant holds initially, and every action keeps it: one lemma for *)
(* each action, one step for each part that the action can disturb.        *)

LEMMA InitInv == Init => Inv
  <1> SUFFICES ASSUME Init PROVE Inv OBVIOUS
  <1> USE ProcessAssumption DEF Init, Stages, Threads, Verdicts, Outcomes, Active
  <1>0. reports \in Seq(Outcomes) OBVIOUS
  <1>1. ProcessTypeOK BY <1>0 DEF ProcessTypeOK, Terminal
  <1>2. StageTypeOK BY DEF StageTypeOK
  <1>3. ThreadTypeOK BY DEF ThreadTypeOK
  <1>4. BeforeStart BY DEF BeforeStart
  <1>5. StageAgrees BY DEF StageAgrees
  <1>6. EndingIsFinal /\ HandlesStarted /\ PublishesLast
    BY DEF EndingIsFinal, HandlesStarted, PublishesLast
  <1>7. ContinuationIsToken BY DEF ContinuationIsToken, Continuing, Settled
  <1>8. FailureStays BY DEF FailureStays
  <1>9. SuccessAgrees BY DEF SuccessAgrees
  <1>10. OneStageAtATime /\ StagesInOrder BY DEF OneStageAtATime, StagesInOrder
  <1>11. QED
    BY <1>1, <1>2, <1>3, <1>4, <1>5, <1>6, <1>7, <1>8, <1>9, <1>10 DEF Inv, TypeOK

\* The ways out of stage.cancel() keep the types of the threads' variables.
LEMMA AfterCancelTypes ==
  ASSUME ThreadTypeOK, NEW t \in Threads, AfterStageCancel(t)
  PROVE  ThreadTypeOK'
  <1> USE ProcessAssumption DEF ThreadTypeOK, AfterStageCancel, EnterFinish, Goto, Outcomes, Threads
  <1>1. CASE t \in cleaning BY <1>1
  <1>2. CASE t \notin cleaning
    <2>1. EnterFinish(t, "failure") BY <1>2
    <2>2. pc' = [pc EXCEPT ![t] = "cleanup"] /\ at' = [at EXCEPT ![t] = NumStages] BY <2>1
    <2>3. cleaning' = cleaning \cup {t} /\ verdict' = [verdict EXCEPT ![t] = "failure"]
          /\ joining' = joining
      BY <2>1
    <2>4. verdict' \in [Threads -> Outcomes] BY <2>3
    <2>5. at' \in [Threads -> 0 .. NumStages] BY <2>2
    <2>6. QED BY <2>2, <2>3, <2>4, <2>5
  <1>3. QED BY <1>1, <1>2

LEMMA StartInv == ASSUME Inv, Start PROVE Inv'
  <1> USE ProcessAssumption DEF Inv, TypeOK, Stages, Threads, Start, Goto, stageVars
  <1>1. ProcessTypeOK' BY DEF ProcessTypeOK, Terminal, Outcomes
  <1>2. ThreadTypeOK' BY DEF StageTypeOK, ThreadTypeOK, Outcomes, Verdicts
  <1>3. BeforeStart' BY DEF ProcessTypeOK, StageTypeOK, ThreadTypeOK, BeforeStart, Verdicts,
     Outcomes
  <1>4. EndingIsFinal' BY DEF StageTypeOK, ThreadTypeOK, EndingIsFinal, BeforeStart,
     Verdicts, Outcomes
  <1>5. HandlesStarted' BY DEF StageTypeOK, ThreadTypeOK, HandlesStarted, Verdicts,
     BeforeStart, Outcomes
  <1>6. PublishesLast' BY DEF StageTypeOK, ThreadTypeOK, PublishesLast, BeforeStart,
     Verdicts, Outcomes
  <1>7. ContinuationIsToken' BY DEF ProcessTypeOK, StageTypeOK, ThreadTypeOK,
     ContinuationIsToken, Continuing, Settled, SomeIn, Active, BeforeStart, StageAgrees,
     Verdicts, Outcomes
  <1>8. FailureStays' BY DEF StageTypeOK, ThreadTypeOK, FailureStays, BeforeStart,
     StageAgrees, Active, Verdicts, Outcomes
  <1>9. SuccessAgrees' BY DEF StageTypeOK, ThreadTypeOK, SuccessAgrees, AllDone, Verdicts,
     Outcomes
  <1>10. StageTypeOK' /\ StageAgrees' /\ OneStageAtATime' /\ StagesInOrder'
    BY DEF StageTypeOK, StageAgrees, OneStageAtATime, StagesInOrder, Verdicts, Active
  <1>11. QED BY <1>1, <1>2, <1>3, <1>4, <1>5, <1>6, <1>7, <1>8, <1>9, <1>10

LEMMA StartRefusedInv == ASSUME Inv, StartRefused PROVE Inv'
  <1> USE ProcessAssumption DEF Inv, TypeOK, Stages, Threads, StartRefused, Goto, stageVars, endVars
  <1>1. ProcessTypeOK' BY DEF ProcessTypeOK, Terminal, Outcomes
  <1>2. ThreadTypeOK' BY DEF StageTypeOK, ThreadTypeOK, Outcomes, Verdicts
  <1>3. BeforeStart' BY DEF ProcessTypeOK, StageTypeOK, ThreadTypeOK, BeforeStart, Verdicts,
     Outcomes
  <1>4. EndingIsFinal' BY DEF StageTypeOK, ThreadTypeOK, EndingIsFinal, BeforeStart,
     Verdicts, Outcomes
  <1>5. HandlesStarted' BY DEF StageTypeOK, ThreadTypeOK, HandlesStarted, Verdicts,
     BeforeStart, Outcomes
  <1>6. PublishesLast' BY DEF StageTypeOK, ThreadTypeOK, PublishesLast, BeforeStart,
     Verdicts, Outcomes
  <1>7. ContinuationIsToken' BY DEF ProcessTypeOK, StageTypeOK, ThreadTypeOK,
     ContinuationIsToken, Continuing, Settled, SomeIn, Active, BeforeStart, StageAgrees,
     Verdicts, Outcomes
  <1>8. FailureStays' BY DEF StageTypeOK, ThreadTypeOK, FailureStays, BeforeStart,
     StageAgrees, Active, Verdicts, Outcomes
  <1>9. SuccessAgrees' BY DEF StageTypeOK, ThreadTypeOK, SuccessAgrees, AllDone, Verdicts,
     Outcomes
  <1>10. StageTypeOK' /\ StageAgrees' /\ OneStageAtATime' /\ StagesInOrder'
    BY DEF StageTypeOK, StageAgrees, OneStageAtATime, StagesInOrder, Verdicts, Active
  <1>11. QED BY <1>1, <1>2, <1>3, <1>4, <1>5, <1>6, <1>7, <1>8, <1>9, <1>10

LEMMA DispatchInv == ASSUME Inv, Dispatch PROVE Inv'
  <1> USE ProcessAssumption DEF Inv, TypeOK, Stages, Threads, Dispatch, Goto, stageVars,
    endVars
  <1>1. ProcessTypeOK' BY DEF ProcessTypeOK, Terminal, Outcomes
  <1>2. ThreadTypeOK' BY DEF StageTypeOK, ThreadTypeOK, Outcomes, Verdicts
  <1>3. BeforeStart' BY DEF ProcessTypeOK, StageTypeOK, ThreadTypeOK, BeforeStart, Verdicts,
     Outcomes
  <1>4. EndingIsFinal' BY DEF StageTypeOK, ThreadTypeOK, EndingIsFinal, Verdicts, Outcomes
  <1>5. HandlesStarted' BY DEF StageTypeOK, ThreadTypeOK, HandlesStarted, Verdicts, Outcomes
  <1>6. PublishesLast' BY DEF StageTypeOK, ThreadTypeOK, PublishesLast, Verdicts, Outcomes
  <1>7. ContinuationIsToken' BY DEF ProcessTypeOK, StageTypeOK, ThreadTypeOK,
     ContinuationIsToken, Continuing, Settled, SomeIn, Active, Verdicts, Outcomes
  <1>8. FailureStays' BY DEF StageTypeOK, ThreadTypeOK, FailureStays, Verdicts, Outcomes
  <1>9. SuccessAgrees' BY DEF StageTypeOK, ThreadTypeOK, SuccessAgrees, AllDone, Verdicts,
     Outcomes
  <1>10. StageTypeOK' /\ StageAgrees' /\ OneStageAtATime' /\ StagesInOrder'
    BY DEF StageTypeOK, StageAgrees, OneStageAtATime, StagesInOrder, Verdicts, Active
  <1>11. QED BY <1>1, <1>2, <1>3, <1>4, <1>5, <1>6, <1>7, <1>8, <1>9, <1>10

LEMMA ContinueTestInv == ASSUME Inv, ContinueTest PROVE Inv'
  <1> USE ProcessAssumption DEF Inv, TypeOK, Stages, Threads, ContinueTest, Goto, stageVars,
    endVars
  <1>1. ThreadTypeOK' BY DEF StageTypeOK, ThreadTypeOK, Outcomes, Terminal, Verdicts
  <1>2. BeforeStart' BY DEF ProcessTypeOK, StageTypeOK, ThreadTypeOK, BeforeStart, Terminal,
     Verdicts, Outcomes
  <1>3. EndingIsFinal' BY DEF StageTypeOK, ThreadTypeOK, EndingIsFinal, Terminal, Verdicts,
     Outcomes
  <1>4. HandlesStarted' BY DEF StageTypeOK, ThreadTypeOK, HandlesStarted, Verdicts,
     Terminal, Outcomes
  <1>5. PublishesLast' BY DEF StageTypeOK, ThreadTypeOK, PublishesLast, Terminal,
     EndingIsFinal, ProcessTypeOK, Outcomes, Verdicts
  <1>6. ContinuationIsToken' BY DEF ProcessTypeOK, StageTypeOK, ThreadTypeOK,
     ContinuationIsToken, Continuing, Settled, SomeIn, Active, Terminal, BeforeStart,
     Verdicts, Outcomes
  <1>7. FailureStays' BY DEF StageTypeOK, ThreadTypeOK, FailureStays, Terminal,
     EndingIsFinal, ProcessTypeOK, Outcomes, Verdicts
  <1>8. SuccessAgrees' BY DEF StageTypeOK, ThreadTypeOK, SuccessAgrees, AllDone, Terminal,
     Verdicts, Outcomes
  <1>9. ProcessTypeOK' /\ StageTypeOK' /\ StageAgrees' /\ OneStageAtATime' /\ StagesInOrder'
    BY DEF ProcessTypeOK, StageTypeOK, StageAgrees, OneStageAtATime, StagesInOrder,
       Terminal, Outcomes, Verdicts, Active
  <1>10. QED BY <1>1, <1>2, <1>3, <1>4, <1>5, <1>6, <1>7, <1>8, <1>9

LEMMA ContinueFailInv == ASSUME Inv, ContinueFail PROVE Inv'
  <1> USE ProcessAssumption DEF Inv, TypeOK, Stages, Threads, ContinueFail, EnterFinish,
    stageVars, endVars
  <1>1. ProcessTypeOK' BY DEF ProcessTypeOK, Terminal, Outcomes, SomeIn
  <1>2. ThreadTypeOK' BY DEF StageTypeOK, ThreadTypeOK, Outcomes, SomeIn, Verdicts
  <1>3. BeforeStart' BY DEF ProcessTypeOK, StageTypeOK, ThreadTypeOK, BeforeStart, SomeIn,
     Verdicts, Outcomes
  <1>4. EndingIsFinal' BY DEF StageTypeOK, ThreadTypeOK, EndingIsFinal, SomeIn, Verdicts,
     Outcomes
  <1>5. HandlesStarted' BY DEF StageTypeOK, ThreadTypeOK, HandlesStarted, Verdicts, SomeIn,
     Outcomes
  <1>6. PublishesLast' BY DEF StageTypeOK, ThreadTypeOK, PublishesLast, SomeIn, Verdicts,
     Outcomes
  <1>7. ContinuationIsToken' BY DEF ProcessTypeOK, StageTypeOK, ThreadTypeOK,
     ContinuationIsToken, Continuing, Settled, SomeIn, Active, Verdicts, Outcomes
  <1>8. FailureStays' BY DEF StageTypeOK, ThreadTypeOK, FailureStays, SomeIn, Verdicts,
     Outcomes
  <1>9. SuccessAgrees' BY DEF StageTypeOK, ThreadTypeOK, SuccessAgrees, AllDone, SomeIn,
     Verdicts, Outcomes
  <1>10. StageTypeOK' /\ StageAgrees' /\ OneStageAtATime' /\ StagesInOrder'
    BY DEF StageTypeOK, StageAgrees, OneStageAtATime, StagesInOrder, Verdicts, Active
  <1>11. QED BY <1>1, <1>2, <1>3, <1>4, <1>5, <1>6, <1>7, <1>8, <1>9, <1>10

LEMMA ContinueSpawnInv == ASSUME Inv, ContinueSpawn PROVE Inv'
  <1> USE ProcessAssumption DEF Inv, TypeOK, Stages, Threads, ContinueSpawn, Goto, IsFirst,
    endVars
  <1>1. StageTypeOK'
    <2>1. PICK s \in Stages : body' = [body EXCEPT ![s] = "spawned"] OBVIOUS
    <2>2. QED BY <2>1 DEF StageTypeOK
  <1>2. ThreadTypeOK' BY DEF StageTypeOK, ThreadTypeOK, Outcomes, SomeIn, Verdicts
  <1>3. BeforeStart' BY DEF ProcessTypeOK, StageTypeOK, ThreadTypeOK, BeforeStart, SomeIn,
     Verdicts, Outcomes
  <1>4. StageAgrees' BY DEF StageTypeOK, ThreadTypeOK, StageAgrees, Active, Verdicts,
     SomeIn, Outcomes
  <1>5. EndingIsFinal' BY DEF StageTypeOK, ThreadTypeOK, EndingIsFinal, SomeIn, Verdicts,
     Outcomes
  <1>6. HandlesStarted' BY DEF StageTypeOK, ThreadTypeOK, HandlesStarted, Verdicts, SomeIn,
     Outcomes
  <1>7. PublishesLast' BY DEF StageTypeOK, ThreadTypeOK, PublishesLast, SomeIn,
     EndingIsFinal, Verdicts, Outcomes
  <1>8. ContinuationIsToken' BY DEF ProcessTypeOK, StageTypeOK, ThreadTypeOK,
     ContinuationIsToken, Continuing, Settled, SomeIn, Active, Verdicts, Outcomes
  <1>9. FailureStays' BY DEF StageTypeOK, ThreadTypeOK, FailureStays, SomeIn, StageAgrees,
     Active, Verdicts, Outcomes
  <1>10. SuccessAgrees' BY DEF StageTypeOK, ThreadTypeOK, SuccessAgrees, AllDone, SomeIn,
     Verdicts, Outcomes
  <1>11. OneStageAtATime'
    <2>1. PICK s \in Stages : body' = [body EXCEPT ![s] = "spawned"] OBVIOUS
    <2>2. \A r \in Stages : ~Active(r)
      BY DEF ContinuationIsToken, Continuing, Settled, SomeIn
    <2>3. QED BY <2>1, <2>2 DEF OneStageAtATime, Active, StageTypeOK
  <1>12. StagesInOrder'
    <2> USE DEF StageTypeOK, ThreadTypeOK, StagesInOrder, SomeIn, Verdicts
    <2>1. PICK s \in Stages : IsFirst(s, "SCHEDULED") /\ body' = [body EXCEPT ![s] = "spawned"]
      OBVIOUS
    <2>2. Settled BY DEF ContinuationIsToken, Continuing
    <2>3. \A r \in 1 .. s - 1 : stageState[r] = "COMPLETED"
      <3> SUFFICES ASSUME NEW r \in 1 .. s - 1 PROVE stageState[r] = "COMPLETED" OBVIOUS
      <3>1. r \in Stages /\ stageState[r] # "SCHEDULED" /\ stageState[r] # "FAILED"
        BY <2>1
      <3>2. stageState[r] # "IN_PROGRESS" BY <2>2, <3>1 DEF Settled, StageAgrees, Active
      <3>3. QED BY <3>1, <3>2
    <2>4. QED BY <2>1, <2>3
  <1>13. ProcessTypeOK'
    BY DEF ProcessTypeOK, Terminal, Outcomes
  <1>14. QED BY <1>1, <1>2, <1>3, <1>4, <1>5, <1>6, <1>7, <1>8, <1>9, <1>10, <1>11, <1>12, <1>13

LEMMA ContinueCompleteInv == ASSUME Inv, ContinueComplete PROVE Inv'
  <1> USE ProcessAssumption DEF Inv, TypeOK, Stages, Threads, ContinueComplete, EnterFinish,
    stageVars, endVars
  <1>1. ProcessTypeOK' BY DEF ProcessTypeOK, Terminal, Outcomes, SomeIn
  <1>2. ThreadTypeOK' BY DEF StageTypeOK, ThreadTypeOK, Outcomes, SomeIn, Verdicts
  <1>3. BeforeStart' BY DEF ProcessTypeOK, StageTypeOK, ThreadTypeOK, BeforeStart, SomeIn,
     Verdicts, Outcomes
  <1>4. EndingIsFinal' BY DEF StageTypeOK, ThreadTypeOK, EndingIsFinal, SomeIn, Verdicts,
     Outcomes
  <1>5. HandlesStarted' BY DEF StageTypeOK, ThreadTypeOK, HandlesStarted, Verdicts, SomeIn,
     Outcomes
  <1>6. PublishesLast' BY DEF StageTypeOK, ThreadTypeOK, PublishesLast, SomeIn, Verdicts,
     Outcomes
  <1>7. ContinuationIsToken' BY DEF ProcessTypeOK, StageTypeOK, ThreadTypeOK,
     ContinuationIsToken, Continuing, Settled, SomeIn, Active, Verdicts, Outcomes
  <1>8. FailureStays' BY DEF StageTypeOK, ThreadTypeOK, FailureStays, SomeIn, Verdicts,
     Outcomes
  <1>9. SuccessAgrees' BY DEF StageTypeOK, ThreadTypeOK, SuccessAgrees, AllDone, SomeIn,
     ContinuationIsToken, Continuing, Settled, Active, StageAgrees, Verdicts, PublishesLast,
     Outcomes
  <1>10. StageTypeOK' /\ StageAgrees' /\ OneStageAtATime' /\ StagesInOrder'
    BY DEF StageTypeOK, StageAgrees, OneStageAtATime, StagesInOrder, Verdicts, Active
  <1>11. QED BY <1>1, <1>2, <1>3, <1>4, <1>5, <1>6, <1>7, <1>8, <1>9, <1>10

LEMMA RequestCancelInv == ASSUME NEW t \in Threads, Inv, RequestCancel(t) PROVE Inv'
  <1> USE ProcessAssumption DEF Inv, TypeOK, Stages, Threads, RequestCancel, Goto,
    stageVars, endVars
  <1>1. ProcessTypeOK' BY DEF ProcessTypeOK, Terminal, Outcomes
  <1>2. ThreadTypeOK' BY DEF StageTypeOK, ThreadTypeOK, Outcomes, Verdicts
  <1>3. BeforeStart' BY DEF ProcessTypeOK, StageTypeOK, ThreadTypeOK, BeforeStart, Verdicts,
     Outcomes
  <1>4. EndingIsFinal' BY DEF StageTypeOK, ThreadTypeOK, EndingIsFinal, Verdicts, Outcomes
  <1>5. HandlesStarted' BY DEF StageTypeOK, ThreadTypeOK, HandlesStarted, Verdicts, Outcomes
  <1>6. PublishesLast' BY DEF StageTypeOK, ThreadTypeOK, PublishesLast, Verdicts, Outcomes
  <1>7. ContinuationIsToken' BY DEF ProcessTypeOK, StageTypeOK, ThreadTypeOK,
     ContinuationIsToken, Continuing, Settled, SomeIn, Active, Verdicts, Outcomes
  <1>8. FailureStays' BY DEF StageTypeOK, ThreadTypeOK, FailureStays, Verdicts, Outcomes
  <1>9. SuccessAgrees' BY DEF StageTypeOK, ThreadTypeOK, SuccessAgrees, AllDone, Verdicts,
     Outcomes
  <1>10. StageTypeOK' /\ StageAgrees' /\ OneStageAtATime' /\ StagesInOrder'
    BY DEF StageTypeOK, StageAgrees, OneStageAtATime, StagesInOrder, Verdicts, Active
  <1>11. QED BY <1>1, <1>2, <1>3, <1>4, <1>5, <1>6, <1>7, <1>8, <1>9, <1>10

LEMMA CancelStatusInv == ASSUME NEW t \in Threads, Inv, CancelStatus(t) PROVE Inv'
  <1> USE ProcessAssumption DEF Inv, TypeOK, Stages, Threads, CancelStatus, Goto, stageVars,
    endVars
  <1>1. ProcessTypeOK' BY DEF ProcessTypeOK, Terminal, Outcomes
  <1>2. ThreadTypeOK' BY DEF StageTypeOK, ThreadTypeOK, Outcomes, Verdicts
  <1>3. BeforeStart' BY DEF ProcessTypeOK, StageTypeOK, ThreadTypeOK, BeforeStart, Verdicts,
     Outcomes
  <1>4. EndingIsFinal' BY DEF StageTypeOK, ThreadTypeOK, EndingIsFinal, Verdicts, Outcomes
  <1>5. HandlesStarted' BY DEF StageTypeOK, ThreadTypeOK, HandlesStarted, Verdicts, Outcomes
  <1>6. PublishesLast' BY DEF StageTypeOK, ThreadTypeOK, PublishesLast, Verdicts, Outcomes
  <1>7. ContinuationIsToken' BY DEF ProcessTypeOK, StageTypeOK, ThreadTypeOK,
     ContinuationIsToken, Continuing, Settled, SomeIn, Active, Verdicts, Outcomes
  <1>8. FailureStays' BY DEF StageTypeOK, ThreadTypeOK, FailureStays, Verdicts, Outcomes
  <1>9. SuccessAgrees' BY DEF StageTypeOK, ThreadTypeOK, SuccessAgrees, AllDone, Verdicts,
     Outcomes
  <1>10. StageTypeOK' /\ StageAgrees' /\ OneStageAtATime' /\ StagesInOrder'
    BY DEF StageTypeOK, StageAgrees, OneStageAtATime, StagesInOrder, Verdicts, Active
  <1>11. QED BY <1>1, <1>2, <1>3, <1>4, <1>5, <1>6, <1>7, <1>8, <1>9, <1>10

LEMMA CancelPickInv == ASSUME NEW t \in Threads, Inv, CancelPick(t) PROVE Inv'
  <1> USE ProcessAssumption DEF Inv, TypeOK, Stages, Threads, CancelPick, Goto, EnterFinish,
    IsFirst, stageVars, endVars
  <1>1. ThreadTypeOK'
    <2> USE DEF ThreadTypeOK, Outcomes
    <2>1. CASE \E s \in Stages : IsFirst(s, "IN_PROGRESS") /\ at' = [at EXCEPT ![t] = s]
               /\ pc' = [pc EXCEPT ![t] = "test"] /\ cleaning' = cleaning \ {t}
               /\ UNCHANGED <<joining, verdict>>
      <3>1. PICK s \in Stages : at' = [at EXCEPT ![t] = s] BY <2>1
      <3>2. at' \in [Threads -> 0 .. NumStages] BY <3>1
      <3>3. QED BY <2>1, <3>2
    <2>2. CASE EnterFinish(t, "failure") BY <2>2
    <2>3. QED BY <2>1, <2>2
  <1>2. BeforeStart' BY DEF ProcessTypeOK, StageTypeOK, ThreadTypeOK, BeforeStart, SomeIn,
     Verdicts, Outcomes
  <1>3. EndingIsFinal' BY DEF StageTypeOK, ThreadTypeOK, EndingIsFinal, SomeIn, Verdicts,
     Outcomes
  <1>4. HandlesStarted'
    <2>1. CASE EnterFinish(t, "failure") BY <2>1 DEF ThreadTypeOK, HandlesStarted, Verdicts
    <2>2. CASE ~EnterFinish(t, "failure")
      <3>1. PICK s \in Stages : stageState[s] = "IN_PROGRESS" /\ at' = [at EXCEPT ![t] = s]
        BY <2>2
      <3>2. pc' = [pc EXCEPT ![t] = "test"] BY <2>2
      <3>3. QED BY <3>1, <3>2 DEF ThreadTypeOK, HandlesStarted, Verdicts
    <2>3. QED BY <2>1, <2>2
  <1>5. PublishesLast'
    <2>1. CASE EnterFinish(t, "failure") BY <2>1 DEF ThreadTypeOK, PublishesLast
    <2>2. CASE ~EnterFinish(t, "failure")
      <3>1. PICK s \in Stages : stageState[s] = "IN_PROGRESS" /\ at' = [at EXCEPT ![t] = s]
        BY <2>2
      <3>2. pc' = [pc EXCEPT ![t] = "test"] BY <2>2
      <3>3. QED BY <3>1, <3>2 DEF ThreadTypeOK, PublishesLast
    <2>3. QED BY <2>1, <2>2
  <1>6. ContinuationIsToken'
    <2>1. CASE EnterFinish(t, "failure") BY <2>1 DEF ThreadTypeOK, ContinuationIsToken, Continuing, Settled, SomeIn, Active
    <2>2. CASE ~EnterFinish(t, "failure")
      <3>1. PICK s \in Stages : stageState[s] = "IN_PROGRESS" /\ at' = [at EXCEPT ![t] = s]
        BY <2>2
      <3>2. pc' = [pc EXCEPT ![t] = "test"] BY <2>2
      <3>3. QED BY <3>1, <3>2 DEF ThreadTypeOK, ContinuationIsToken, Continuing, Settled, SomeIn, Active
    <2>3. QED BY <2>1, <2>2
  <1>7. FailureStays' BY DEF StageTypeOK, ThreadTypeOK, FailureStays, SomeIn, Verdicts,
     Outcomes
  <1>8. SuccessAgrees' BY DEF StageTypeOK, ThreadTypeOK, SuccessAgrees, AllDone, SomeIn,
     Verdicts, Outcomes
  <1>9. ProcessTypeOK' /\ StageTypeOK' /\ StageAgrees' /\ OneStageAtATime' /\ StagesInOrder'
    BY DEF ProcessTypeOK, StageTypeOK, StageAgrees, OneStageAtATime, StagesInOrder,
       Terminal, Outcomes, Verdicts, Active
  <1>10. QED BY <1>1, <1>2, <1>3, <1>4, <1>5, <1>6, <1>7, <1>8, <1>9

LEMMA StageTestInv == ASSUME NEW t \in Threads, Inv, StageTest(t) PROVE Inv'
  <1> USE ProcessAssumption DEF Inv, TypeOK, Stages, Threads, StageTest, Goto, stageVars,
    endVars
  <1>1. ThreadTypeOK' BY DEF StageTypeOK, ThreadTypeOK, Outcomes, Verdicts
  <1>2. BeforeStart' BY DEF ProcessTypeOK, StageTypeOK, ThreadTypeOK, BeforeStart, Verdicts,
     Outcomes
  <1>3. EndingIsFinal' BY DEF StageTypeOK, ThreadTypeOK, EndingIsFinal, Verdicts, Outcomes
  <1>4. HandlesStarted' BY DEF StageTypeOK, ThreadTypeOK, HandlesStarted, Verdicts, Outcomes
  <1>5. PublishesLast'
    <2> USE DEF StageTypeOK, ThreadTypeOK, Verdicts
    <2>1. CASE ~(stageState[at[t]] = "IN_PROGRESS" /\ at[t] \notin cancelEvent)
      BY <2>1 DEF PublishesLast
    <2>2. CASE stageState[at[t]] = "IN_PROGRESS" /\ at[t] \notin cancelEvent
      <3>1. at[t] \in Stages BY DEF HandlesStarted
      <3>2. pc["main"] # "decide"
        BY <2>2, <3>1 DEF ContinuationIsToken, Continuing, Settled, StageAgrees, Active
      <3>3. \A s \in at[t] + 1 .. NumStages : body[s] = "none"
        BY <2>2, <3>1 DEF StagesInOrder
      <3>4. QED BY <3>2, <3>3 DEF PublishesLast
    <2>3. QED BY <2>1, <2>2
  <1>6. ContinuationIsToken' BY DEF ProcessTypeOK, StageTypeOK, ThreadTypeOK,
     ContinuationIsToken, Continuing, Settled, SomeIn, Active, Verdicts, Outcomes
  <1>7. FailureStays' BY DEF StageTypeOK, ThreadTypeOK, FailureStays, Verdicts, Outcomes
  <1>8. SuccessAgrees' BY DEF StageTypeOK, ThreadTypeOK, SuccessAgrees, AllDone,
     HandlesStarted, Verdicts, Outcomes
  <1>9. ProcessTypeOK' /\ StageTypeOK' /\ StageAgrees' /\ OneStageAtATime' /\ StagesInOrder'
    BY DEF ProcessTypeOK, StageTypeOK, StageAgrees, OneStageAtATime, StagesInOrder,
       Terminal, Outcomes, Verdicts, Active
  <1>10. QED BY <1>1, <1>2, <1>3, <1>4, <1>5, <1>6, <1>7, <1>8, <1>9

LEMMA StagePublishFailedInv == ASSUME NEW t \in Threads, Inv, StagePublishFailed(t) PROVE Inv'
  <1> USE ProcessAssumption DEF Inv, TypeOK, Stages, Threads, StagePublishFailed, Goto,
    endVars
  <1>1. ProcessTypeOK' BY DEF ProcessTypeOK, Terminal, Outcomes
  <1>2. StageTypeOK' BY DEF StageTypeOK, ThreadTypeOK, Verdicts, Outcomes
  <1>3. ThreadTypeOK' BY DEF StageTypeOK, ThreadTypeOK, Outcomes, Verdicts
  <1>4. BeforeStart' BY DEF ProcessTypeOK, StageTypeOK, ThreadTypeOK, BeforeStart, Verdicts,
     Outcomes
  <1>5. StageAgrees' BY DEF StageTypeOK, ThreadTypeOK, StageAgrees, Active, Verdicts,
     HandlesStarted, Outcomes
  <1>6. EndingIsFinal' BY DEF StageTypeOK, ThreadTypeOK, EndingIsFinal, Verdicts, Outcomes
  <1>7. HandlesStarted' BY DEF StageTypeOK, ThreadTypeOK, HandlesStarted, Verdicts, Outcomes
  <1>8. PublishesLast' BY DEF StageTypeOK, ThreadTypeOK, PublishesLast, Verdicts, Outcomes
  <1>9. ContinuationIsToken' BY DEF ProcessTypeOK, StageTypeOK, ThreadTypeOK,
     ContinuationIsToken, Continuing, Settled, SomeIn, Active, PublishesLast, EndingIsFinal,
     Verdicts, Outcomes
  <1>10. FailureStays' BY DEF StageTypeOK, ThreadTypeOK, FailureStays, PublishesLast,
     EndingIsFinal, Verdicts, Outcomes
  <1>11. SuccessAgrees' BY DEF StageTypeOK, ThreadTypeOK, SuccessAgrees, AllDone, Verdicts,
     Outcomes
  <1>12. StagesInOrder'
    <2> DEFINE s == at[t]
    <2>1. s \in Stages /\ \A r \in s + 1 .. NumStages : body[r] = "none"
      BY DEF HandlesStarted, PublishesLast
    <2>2. \A r \in Stages : r # s => stageState'[r] = stageState[r] BY <2>1 DEF StageTypeOK
    <2>3. QED BY <2>1, <2>2 DEF StagesInOrder
  <1>13. OneStageAtATime'
    BY DEF OneStageAtATime, Active
  <1>14. QED BY <1>1, <1>2, <1>3, <1>4, <1>5, <1>6, <1>7, <1>8, <1>9, <1>10, <1>11, <1>12, <1>13

LEMMA StageSignalInv == ASSUME NEW t \in Threads, Inv, StageSignal(t) PROVE Inv'
  <1> USE ProcessAssumption DEF Inv, TypeOK, Stages, Threads, StageSignal, Goto, endVars
  <1>1. StageTypeOK'
    <2>1. at[t] \in Stages BY DEF HandlesStarted
    <2>2. cancelEvent' \subseteq Stages BY <2>1 DEF StageTypeOK
    <2>3. QED BY <2>2 DEF StageTypeOK
  <1>2. ThreadTypeOK' BY DEF StageTypeOK, ThreadTypeOK, Outcomes, Verdicts
  <1>3. BeforeStart' BY DEF ProcessTypeOK, StageTypeOK, ThreadTypeOK, BeforeStart, Verdicts,
     Outcomes
  <1>4. StageAgrees' BY DEF StageTypeOK, ThreadTypeOK, StageAgrees, Active, Verdicts,
     HandlesStarted, Outcomes
  <1>5. EndingIsFinal' BY DEF StageTypeOK, ThreadTypeOK, EndingIsFinal, Verdicts, Outcomes
  <1>6. HandlesStarted' BY DEF StageTypeOK, ThreadTypeOK, HandlesStarted, Verdicts, Outcomes
  <1>7. PublishesLast' BY DEF StageTypeOK, ThreadTypeOK, PublishesLast, Verdicts, Outcomes
  <1>8. ContinuationIsToken' BY DEF ProcessTypeOK, StageTypeOK, ThreadTypeOK,
     ContinuationIsToken, Continuing, Settled, SomeIn, Active, Verdicts, Outcomes
  <1>9. FailureStays' BY DEF StageTypeOK, ThreadTypeOK, FailureStays, Verdicts, Outcomes
  <1>10. SuccessAgrees' BY DEF StageTypeOK, ThreadTypeOK, SuccessAgrees, AllDone, Verdicts,
     Outcomes
  <1>11. ProcessTypeOK' /\ OneStageAtATime' /\ StagesInOrder'
    BY DEF ProcessTypeOK, OneStageAtATime, StagesInOrder, Terminal, Outcomes, Active
  <1>12. QED BY <1>1, <1>2, <1>3, <1>4, <1>5, <1>6, <1>7, <1>8, <1>9, <1>10, <1>11

LEMMA StageReapInv == ASSUME NEW t \in Threads, Inv, StageReap(t) PROVE Inv'
  <1> USE ProcessAssumption DEF Inv, TypeOK, Stages, Threads, StageReap, Goto,
    AfterStageCancel, EnterFinish, endVars
  <1>1. StageTypeOK'
    <2> DEFINE s == at[t]
               next == IF serverCall[s] = calls[s] /\ call[s] = "running" THEN "canceled"
                       ELSE call[s]
    <2>1. s \in Stages BY DEF HandlesStarted
    <2>2. next \in {"none", "running", "canceled", "ended"} BY <2>1 DEF StageTypeOK
    <2>3. call' = call \/ call' = [call EXCEPT ![s] = next] OBVIOUS
    <2>4. call' \in [Stages -> {"none", "running", "canceled", "ended"}]
      BY <2>1, <2>2, <2>3 DEF StageTypeOK
    <2>5. QED BY <2>4 DEF StageTypeOK
  <1>2. ThreadTypeOK'
    <2>1. at[t] \in Stages BY DEF HandlesStarted
    <2>2. CASE serverCall[at[t]] = 0
      <3>1. AfterStageCancel(t) BY <2>2
      <3>2. QED BY <3>1, AfterCancelTypes
    <2>3. CASE serverCall[at[t]] # 0
      <3>1. serverCall[at[t]] \in Nat BY <2>1 DEF StageTypeOK
      <3>2. pc' = [pc EXCEPT ![t] = "join"] /\ joining' = [joining EXCEPT ![t] = serverCall[at[t]]]
            /\ UNCHANGED <<at, cleaning, verdict>>
        BY <2>3
      <3>3. QED BY <3>1, <3>2 DEF ThreadTypeOK
    <2>4. QED BY <2>2, <2>3
  <1>3. BeforeStart' BY DEF ProcessTypeOK, StageTypeOK, ThreadTypeOK, BeforeStart, Verdicts,
     Outcomes
  <1>4. EndingIsFinal' BY DEF StageTypeOK, ThreadTypeOK, EndingIsFinal, Verdicts, Outcomes
  <1>5. HandlesStarted'
    <2> USE DEF ThreadTypeOK, HandlesStarted, Verdicts
    <2>1. CASE serverCall[at[t]] # 0 BY <2>1
    <2>2. CASE serverCall[at[t]] = 0 /\ t \in cleaning BY <2>2
    <2>3. CASE serverCall[at[t]] = 0 /\ t \notin cleaning BY <2>3
    <2>4. QED BY <2>1, <2>2, <2>3
  <1>6. PublishesLast' BY DEF StageTypeOK, ThreadTypeOK, PublishesLast, Verdicts, Outcomes
  <1>7. ContinuationIsToken'
    <2> USE DEF ThreadTypeOK, ContinuationIsToken, Continuing, Settled, SomeIn, Active
    <2>1. CASE serverCall[at[t]] # 0 BY <2>1
    <2>2. CASE serverCall[at[t]] = 0 /\ t \in cleaning BY <2>2
    <2>3. CASE serverCall[at[t]] = 0 /\ t \notin cleaning BY <2>3
    <2>4. QED BY <2>1, <2>2, <2>3
  <1>8. FailureStays' BY DEF StageTypeOK, ThreadTypeOK, FailureStays, Verdicts, Outcomes
  <1>9. SuccessAgrees' BY DEF StageTypeOK, ThreadTypeOK, SuccessAgrees, AllDone, Verdicts,
     Outcomes
  <1>10. ProcessTypeOK' /\ StageAgrees' /\ OneStageAtATime' /\ StagesInOrder'
    BY DEF ProcessTypeOK, StageAgrees, OneStageAtATime, StagesInOrder, Terminal, Outcomes,
       Active, Verdicts
  <1>11. QED BY <1>1, <1>2, <1>3, <1>4, <1>5, <1>6, <1>7, <1>8, <1>9, <1>10

LEMMA StageJoinInv == ASSUME NEW t \in Threads, Inv, StageJoin(t) PROVE Inv'
  <1> USE ProcessAssumption DEF Inv, TypeOK, Stages, Threads, StageJoin, AfterStageCancel,
    EnterFinish, Goto, endVars
  <1>1. StageTypeOK' BY DEF StageTypeOK, ThreadTypeOK, Verdicts, Outcomes
  <1>2. ThreadTypeOK'
    BY AfterCancelTypes
  <1>3. BeforeStart' BY DEF ProcessTypeOK, StageTypeOK, ThreadTypeOK, BeforeStart, Verdicts,
     Outcomes
  <1>4. EndingIsFinal' BY DEF StageTypeOK, ThreadTypeOK, EndingIsFinal, Verdicts, Outcomes
  <1>5. HandlesStarted'
    <2> USE DEF ThreadTypeOK, HandlesStarted, Verdicts
    <2>1. CASE t \in cleaning BY <2>1
    <2>2. CASE t \notin cleaning BY <2>2
    <2>3. QED BY <2>1, <2>2
  <1>6. PublishesLast' BY DEF StageTypeOK, ThreadTypeOK, PublishesLast, Verdicts, Outcomes
  <1>7. ContinuationIsToken'
    <2> USE DEF ThreadTypeOK, ContinuationIsToken, Continuing, Settled, SomeIn, Active
    <2>1. CASE t \in cleaning BY <2>1
    <2>2. CASE t \notin cleaning BY <2>2
    <2>3. QED BY <2>1, <2>2
  <1>8. FailureStays' BY DEF StageTypeOK, ThreadTypeOK, FailureStays, Verdicts, Outcomes
  <1>9. SuccessAgrees' BY DEF StageTypeOK, ThreadTypeOK, SuccessAgrees, AllDone, Verdicts,
     Outcomes
  <1>10. ProcessTypeOK' /\ StageAgrees' /\ OneStageAtATime' /\ StagesInOrder'
    BY DEF ProcessTypeOK, StageAgrees, OneStageAtATime, StagesInOrder, Terminal, Outcomes,
       Active, Verdicts
  <1>11. QED BY <1>1, <1>2, <1>3, <1>4, <1>5, <1>6, <1>7, <1>8, <1>9, <1>10

LEMMA CleanupStageInv == ASSUME NEW t \in Threads, Inv, CleanupStage(t) PROVE Inv'
  <1> USE ProcessAssumption DEF Inv, TypeOK, Stages, Threads, CleanupStage, Goto, stageVars,
    endVars
  <1>1. ThreadTypeOK' BY DEF StageTypeOK, ThreadTypeOK, Outcomes, Verdicts
  <1>2. BeforeStart' BY DEF ProcessTypeOK, StageTypeOK, ThreadTypeOK, BeforeStart, Verdicts,
     Outcomes
  <1>3. EndingIsFinal' BY DEF StageTypeOK, ThreadTypeOK, EndingIsFinal, Verdicts, Outcomes
  <1>4. HandlesStarted'
    <2> USE DEF StageTypeOK, ThreadTypeOK, HandlesStarted, Verdicts
    <2>1. CASE at[t] = 0 BY <2>1
    <2>2. CASE at[t] # 0 /\ stageState[at[t]] = "SCHEDULED" BY <2>2
    <2>3. CASE at[t] # 0 /\ stageState[at[t]] # "SCHEDULED" BY <2>3
    <2>4. QED BY <2>1, <2>2, <2>3
  <1>5. PublishesLast' BY DEF StageTypeOK, ThreadTypeOK, PublishesLast, Verdicts, Outcomes
  <1>6. ContinuationIsToken'
    <2> USE DEF ThreadTypeOK, ContinuationIsToken, Continuing, Settled, SomeIn, Active
    <2>1. CASE at[t] = 0 BY <2>1
    <2>2. CASE at[t] # 0 /\ stageState[at[t]] = "SCHEDULED" BY <2>2
    <2>3. CASE at[t] # 0 /\ stageState[at[t]] # "SCHEDULED" BY <2>3
    <2>4. QED BY <2>1, <2>2, <2>3
  <1>7. FailureStays' BY DEF StageTypeOK, ThreadTypeOK, FailureStays, Verdicts, Outcomes
  <1>8. SuccessAgrees' BY DEF StageTypeOK, ThreadTypeOK, SuccessAgrees, AllDone, Verdicts,
     Outcomes
  <1>9. ProcessTypeOK' /\ StageTypeOK' /\ StageAgrees' /\ OneStageAtATime' /\ StagesInOrder'
    BY DEF ProcessTypeOK, StageTypeOK, StageAgrees, OneStageAtATime, StagesInOrder,
       Terminal, Outcomes, Verdicts, Active
  <1>10. QED BY <1>1, <1>2, <1>3, <1>4, <1>5, <1>6, <1>7, <1>8, <1>9

LEMMA CleanupDisposeInv == ASSUME NEW t \in Threads, Inv, CleanupDispose(t) PROVE Inv'
  <1> USE ProcessAssumption DEF Inv, TypeOK, Stages, Threads, CleanupDispose, Goto, endVars
  <1>1. StageTypeOK' BY DEF StageTypeOK, ThreadTypeOK, Verdicts, Outcomes
  <1>2. ThreadTypeOK' BY DEF StageTypeOK, ThreadTypeOK, Outcomes, HandlesStarted, Verdicts
  <1>3. BeforeStart' BY DEF ProcessTypeOK, StageTypeOK, ThreadTypeOK, BeforeStart, Verdicts,
     Outcomes
  <1>4. EndingIsFinal' BY DEF StageTypeOK, ThreadTypeOK, EndingIsFinal, Verdicts, Outcomes
  <1>5. HandlesStarted' BY DEF StageTypeOK, ThreadTypeOK, HandlesStarted, Verdicts, Outcomes
  <1>6. PublishesLast' BY DEF StageTypeOK, ThreadTypeOK, PublishesLast, Verdicts, Outcomes
  <1>7. ContinuationIsToken' BY DEF ProcessTypeOK, StageTypeOK, ThreadTypeOK,
     ContinuationIsToken, Continuing, Settled, SomeIn, Active, Verdicts, Outcomes
  <1>8. FailureStays' BY DEF StageTypeOK, ThreadTypeOK, FailureStays, Verdicts, Outcomes
  <1>9. SuccessAgrees' BY DEF StageTypeOK, ThreadTypeOK, SuccessAgrees, AllDone, Verdicts,
     Outcomes
  <1>10. ProcessTypeOK' /\ StageAgrees' /\ OneStageAtATime' /\ StagesInOrder'
    BY DEF ProcessTypeOK, StageAgrees, OneStageAtATime, StagesInOrder, Terminal, Outcomes,
       Active, Verdicts
  <1>11. QED BY <1>1, <1>2, <1>3, <1>4, <1>5, <1>6, <1>7, <1>8, <1>9, <1>10

LEMMA CleanupRaiseInv == ASSUME NEW t \in Threads, Inv, CleanupRaise(t) PROVE Inv'
  <1> USE ProcessAssumption DEF Inv, TypeOK, Stages, Threads, CleanupRaise, Goto, stageVars,
    endVars
  <1>1. ThreadTypeOK' BY DEF StageTypeOK, ThreadTypeOK, Outcomes, Verdicts
  <1>2. BeforeStart' BY DEF ProcessTypeOK, StageTypeOK, ThreadTypeOK, BeforeStart, Verdicts,
     Outcomes
  <1>3. EndingIsFinal' BY DEF StageTypeOK, ThreadTypeOK, EndingIsFinal, Verdicts, Outcomes
  <1>4. HandlesStarted' BY DEF StageTypeOK, ThreadTypeOK, HandlesStarted, Verdicts, Outcomes
  <1>5. PublishesLast' BY DEF StageTypeOK, ThreadTypeOK, PublishesLast, Verdicts, Outcomes
  <1>6. ContinuationIsToken' BY DEF ProcessTypeOK, StageTypeOK, ThreadTypeOK,
     ContinuationIsToken, Continuing, Settled, SomeIn, Active, Verdicts, Outcomes
  <1>7. FailureStays' BY DEF StageTypeOK, ThreadTypeOK, FailureStays, Verdicts, Outcomes
  <1>8. SuccessAgrees' BY DEF StageTypeOK, ThreadTypeOK, SuccessAgrees, AllDone, Verdicts,
     Outcomes
  <1>9. ProcessTypeOK' /\ StageTypeOK' /\ StageAgrees' /\ OneStageAtATime' /\ StagesInOrder'
    BY DEF ProcessTypeOK, StageTypeOK, StageAgrees, OneStageAtATime, StagesInOrder,
       Terminal, Outcomes, Verdicts, Active
  <1>10. QED BY <1>1, <1>2, <1>3, <1>4, <1>5, <1>6, <1>7, <1>8, <1>9

LEMMA ReleaseKeeperInv == ASSUME NEW t \in Threads, Inv, ReleaseKeeper(t) PROVE Inv'
  <1> USE ProcessAssumption DEF Inv, TypeOK, Stages, Threads, ReleaseKeeper, Goto, stageVars
  <1>1. ProcessTypeOK' BY DEF ProcessTypeOK, Terminal, Outcomes
  <1>2. ThreadTypeOK' BY DEF StageTypeOK, ThreadTypeOK, Outcomes, Verdicts
  <1>3. BeforeStart' BY DEF ProcessTypeOK, StageTypeOK, ThreadTypeOK, BeforeStart, Verdicts,
     Outcomes
  <1>4. EndingIsFinal' BY DEF StageTypeOK, ThreadTypeOK, EndingIsFinal, Verdicts, Outcomes
  <1>5. HandlesStarted' BY DEF StageTypeOK, ThreadTypeOK, HandlesStarted, Verdicts, Outcomes
  <1>6. PublishesLast' BY DEF StageTypeOK, ThreadTypeOK, PublishesLast, Verdicts, Outcomes
  <1>7. ContinuationIsToken' BY DEF ProcessTypeOK, StageTypeOK, ThreadTypeOK,
     ContinuationIsToken, Continuing, Settled, SomeIn, Active, Verdicts, Outcomes
  <1>8. FailureStays' BY DEF StageTypeOK, ThreadTypeOK, FailureStays, Verdicts, Outcomes
  <1>9. SuccessAgrees' BY DEF StageTypeOK, ThreadTypeOK, SuccessAgrees, AllDone, Verdicts,
     Outcomes
  <1>10. StageTypeOK' /\ StageAgrees' /\ OneStageAtATime' /\ StagesInOrder'
    BY DEF StageTypeOK, StageAgrees, OneStageAtATime, StagesInOrder, Verdicts, Active
  <1>11. QED BY <1>1, <1>2, <1>3, <1>4, <1>5, <1>6, <1>7, <1>8, <1>9, <1>10

LEMMA ReportInv == ASSUME NEW t \in Threads, Inv, Report(t) PROVE Inv'
  <1> USE ProcessAssumption DEF Inv, TypeOK, Stages, Threads, Report, Goto, stageVars
  <1>1. ProcessTypeOK'
    <2>1. verdict[t] \in Outcomes BY DEF ThreadTypeOK
    <2>2. reports' \in Seq(Outcomes) BY <2>1 DEF ProcessTypeOK
    <2>3. QED BY <2>2 DEF ProcessTypeOK, Terminal
  <1>2. ThreadTypeOK' BY DEF StageTypeOK, ThreadTypeOK, Outcomes, Terminal, Verdicts
  <1>3. BeforeStart' BY DEF ProcessTypeOK, StageTypeOK, ThreadTypeOK, BeforeStart, Terminal,
     Verdicts, Outcomes
  <1>4. EndingIsFinal' BY DEF StageTypeOK, ThreadTypeOK, EndingIsFinal, Terminal, Verdicts,
     Outcomes
  <1>5. HandlesStarted' BY DEF StageTypeOK, ThreadTypeOK, HandlesStarted, Verdicts,
     Terminal, Outcomes
  <1>6. PublishesLast' BY DEF StageTypeOK, ThreadTypeOK, PublishesLast, Terminal, Verdicts,
     Outcomes
  <1>7. ContinuationIsToken' BY DEF ProcessTypeOK, StageTypeOK, ThreadTypeOK,
     ContinuationIsToken, Continuing, Settled, SomeIn, Active, Terminal, Verdicts, Outcomes
  <1>8. FailureStays' BY DEF StageTypeOK, ThreadTypeOK, FailureStays, Terminal, Verdicts,
     Outcomes
  <1>9. SuccessAgrees'
    <2>1. reports \in Seq(Outcomes) BY DEF ProcessTypeOK
    <2>2. ASSUME NEW i \in DOMAIN reports', reports'[i] = "success"
          PROVE  verdict[t] = "success" \/ \E j \in DOMAIN reports : reports[j] = "success"
      BY <2>1, <2>2
    <2>3. QED BY <2>2 DEF SuccessAgrees, AllDone, ThreadTypeOK
  <1>10. StageTypeOK' /\ StageAgrees' /\ OneStageAtATime' /\ StagesInOrder'
    BY DEF StageTypeOK, StageAgrees, OneStageAtATime, StagesInOrder, Verdicts, Active
  <1>11. QED BY <1>1, <1>2, <1>3, <1>4, <1>5, <1>6, <1>7, <1>8, <1>9, <1>10

LEMMA StageStartInv == ASSUME NEW s \in Stages, Inv, StageStart(s) PROVE Inv'
  <1> USE ProcessAssumption DEF Inv, TypeOK, Stages, Threads, StageStart, Move, processVars,
    threadVars, endVars
  <1>1. StageTypeOK' BY DEF StageTypeOK, ThreadTypeOK, Verdicts, Outcomes
  <1>2. BeforeStart' BY DEF ProcessTypeOK, StageTypeOK, ThreadTypeOK, BeforeStart, Verdicts,
     Outcomes
  <1>3. StageAgrees' BY DEF StageTypeOK, ThreadTypeOK, StageAgrees, Active, Verdicts,
     Outcomes
  <1>4. HandlesStarted' BY DEF StageTypeOK, ThreadTypeOK, HandlesStarted, Verdicts,
     StageAgrees, Active, Outcomes
  <1>5. PublishesLast'
    <2>1. \A r \in Stages : body[r] = "none" => body'[r] = "none" BY DEF StageTypeOK, Verdicts
    <2>2. QED BY <2>1 DEF PublishesLast, HandlesStarted
  <1>6. ContinuationIsToken' BY DEF ProcessTypeOK, StageTypeOK, ThreadTypeOK,
     ContinuationIsToken, Continuing, Settled, SomeIn, Active, StageAgrees, Verdicts,
     Outcomes
  <1>7. FailureStays' BY DEF StageTypeOK, ThreadTypeOK, FailureStays, StageAgrees, Active,
     Verdicts, Outcomes
  <1>8. SuccessAgrees' BY DEF StageTypeOK, ThreadTypeOK, SuccessAgrees, AllDone, Verdicts,
     Outcomes
  <1>9. OneStageAtATime'
    <2>1. \A r \in Stages : Active(r)' => Active(r) BY DEF Active, StageTypeOK, Verdicts
    <2>2. QED BY <2>1 DEF OneStageAtATime
  <1>10. StagesInOrder'
    <2>1. stageState[s] # "COMPLETED" BY DEF StageAgrees, Active, Verdicts
    <2>2. \A r \in Stages : body'[r] # "none" => body[r] # "none" BY DEF StageTypeOK, Verdicts
    <2>3. \A r \in Stages : stageState[r] = "COMPLETED" => stageState'[r] = "COMPLETED"
      BY <2>1 DEF StageTypeOK
    <2>4. QED BY <2>2, <2>3 DEF StagesInOrder
  <1>11. ProcessTypeOK' /\ ThreadTypeOK' /\ EndingIsFinal'
    BY DEF ProcessTypeOK, ThreadTypeOK, EndingIsFinal, Terminal, Outcomes
  <1>12. QED BY <1>1, <1>2, <1>3, <1>4, <1>5, <1>6, <1>7, <1>8, <1>9, <1>10, <1>11

LEMMA StageAcquireInv == ASSUME NEW s \in Stages, Inv, StageAcquire(s) PROVE Inv'
  <1> USE ProcessAssumption DEF Inv, TypeOK, Stages, Threads, StageAcquire, processVars,
    threadVars, endVars
  <1>1. StageTypeOK' BY DEF StageTypeOK, ThreadTypeOK, Verdicts, Outcomes
  <1>2. ProcessTypeOK' /\ ThreadTypeOK' /\ BeforeStart' /\ StageAgrees' /\ EndingIsFinal' /\ HandlesStarted' /\ PublishesLast' /\ ContinuationIsToken' /\ FailureStays' /\ SuccessAgrees' /\ OneStageAtATime' /\ StagesInOrder'
    BY DEF ProcessTypeOK, ThreadTypeOK, BeforeStart, StageAgrees, EndingIsFinal,
       HandlesStarted, PublishesLast, ContinuationIsToken, FailureStays, SuccessAgrees,
       OneStageAtATime, StagesInOrder, Terminal, Outcomes, Active, Verdicts, Continuing,
       Settled, SomeIn, AllDone
  <1>3. QED BY <1>1, <1>2

LEMMA CallMadeInv == ASSUME NEW s \in Stages, Inv, CallMade(s) PROVE Inv'
  <1> USE ProcessAssumption DEF Inv, TypeOK, Stages, Threads, CallMade, Move, processVars,
    threadVars, endVars
  <1>1. StageTypeOK'
    <2>1. calls' \in [Stages -> Nat] BY DEF StageTypeOK
    <2>2. call' \in [Stages -> {"none", "running", "canceled", "ended"}] BY DEF StageTypeOK
    <2>3. QED BY <2>1, <2>2 DEF StageTypeOK
  <1>2. BeforeStart' BY DEF ProcessTypeOK, StageTypeOK, ThreadTypeOK, BeforeStart, Verdicts,
     Outcomes
  <1>3. StageAgrees' BY DEF StageTypeOK, ThreadTypeOK, StageAgrees, Active, Verdicts,
     Outcomes
  <1>4. PublishesLast'
    <2>1. \A r \in Stages : body[r] = "none" => body'[r] = "none" BY DEF StageTypeOK, Verdicts
    <2>2. QED BY <2>1 DEF PublishesLast, HandlesStarted
  <1>5. ContinuationIsToken' BY DEF ProcessTypeOK, StageTypeOK, ThreadTypeOK,
     ContinuationIsToken, Continuing, Settled, SomeIn, Active, Verdicts, Outcomes
  <1>6. FailureStays' BY DEF StageTypeOK, ThreadTypeOK, FailureStays, Verdicts, Outcomes
  <1>7. SuccessAgrees' BY DEF StageTypeOK, ThreadTypeOK, SuccessAgrees, AllDone, Verdicts,
     Outcomes
  <1>8. OneStageAtATime'
    <2>1. \A r \in Stages : Active(r)' => Active(r) BY DEF Active, StageTypeOK, Verdicts
    <2>2. QED BY <2>1 DEF OneStageAtATime
  <1>9. StagesInOrder' BY DEF StageTypeOK, ThreadTypeOK, StagesInOrder, Verdicts, Outcomes
  <1>10. ProcessTypeOK' /\ ThreadTypeOK' /\ EndingIsFinal' /\ HandlesStarted'
    BY DEF ProcessTypeOK, ThreadTypeOK, EndingIsFinal, HandlesStarted, Terminal, Outcomes,
       Verdicts
  <1>11. QED BY <1>1, <1>2, <1>3, <1>4, <1>5, <1>6, <1>7, <1>8, <1>9, <1>10

LEMMA CallAssignedInv == ASSUME NEW s \in Stages, Inv, CallAssigned(s) PROVE Inv'
  <1> USE ProcessAssumption DEF Inv, TypeOK, Stages, Threads, CallAssigned, Move,
    processVars, threadVars, endVars
  <1>1. StageTypeOK' BY DEF StageTypeOK, ThreadTypeOK, Verdicts, Outcomes
  <1>2. BeforeStart' BY DEF ProcessTypeOK, StageTypeOK, ThreadTypeOK, BeforeStart, Verdicts,
     Outcomes
  <1>3. StageAgrees' BY DEF StageTypeOK, ThreadTypeOK, StageAgrees, Active, Verdicts,
     Outcomes
  <1>4. PublishesLast'
    <2>1. \A r \in Stages : body[r] = "none" => body'[r] = "none" BY DEF StageTypeOK, Verdicts
    <2>2. QED BY <2>1 DEF PublishesLast, HandlesStarted
  <1>5. ContinuationIsToken' BY DEF ProcessTypeOK, StageTypeOK, ThreadTypeOK,
     ContinuationIsToken, Continuing, Settled, SomeIn, Active, Verdicts, Outcomes
  <1>6. FailureStays' BY DEF StageTypeOK, ThreadTypeOK, FailureStays, Verdicts, Outcomes
  <1>7. SuccessAgrees' BY DEF StageTypeOK, ThreadTypeOK, SuccessAgrees, AllDone, Verdicts,
     Outcomes
  <1>8. OneStageAtATime' BY DEF StageTypeOK, ThreadTypeOK, OneStageAtATime, Active,
     Verdicts, Outcomes
  <1>9. StagesInOrder' BY DEF StageTypeOK, ThreadTypeOK, StagesInOrder, Verdicts, Outcomes
  <1>10. ProcessTypeOK' /\ ThreadTypeOK' /\ EndingIsFinal' /\ HandlesStarted'
    BY DEF ProcessTypeOK, ThreadTypeOK, EndingIsFinal, HandlesStarted, Terminal, Outcomes,
       Verdicts
  <1>11. QED BY <1>1, <1>2, <1>3, <1>4, <1>5, <1>6, <1>7, <1>8, <1>9, <1>10

LEMMA CallJoinedInv == ASSUME NEW s \in Stages, Inv, CallJoined(s) PROVE Inv'
  <1> USE ProcessAssumption DEF Inv, TypeOK, Stages, Threads, CallJoined, Move, processVars,
    threadVars, endVars
  <1>1. StageTypeOK' BY DEF StageTypeOK, ThreadTypeOK, Verdicts, Outcomes
  <1>2. BeforeStart' BY DEF ProcessTypeOK, StageTypeOK, ThreadTypeOK, BeforeStart, Verdicts,
     Outcomes
  <1>3. StageAgrees' BY DEF StageTypeOK, ThreadTypeOK, StageAgrees, Active, Verdicts,
     Outcomes
  <1>4. PublishesLast'
    <2>1. \A r \in Stages : body[r] = "none" => body'[r] = "none" BY DEF StageTypeOK, Verdicts
    <2>2. QED BY <2>1 DEF PublishesLast, HandlesStarted
  <1>5. ContinuationIsToken' BY DEF ProcessTypeOK, StageTypeOK, ThreadTypeOK,
     ContinuationIsToken, Continuing, Settled, SomeIn, Active, Verdicts, Outcomes
  <1>6. FailureStays' BY DEF StageTypeOK, ThreadTypeOK, FailureStays, Verdicts, Outcomes
  <1>7. SuccessAgrees' BY DEF StageTypeOK, ThreadTypeOK, SuccessAgrees, AllDone, Verdicts,
     Outcomes
  <1>8. OneStageAtATime' BY DEF StageTypeOK, ThreadTypeOK, OneStageAtATime, Active,
     Verdicts, Outcomes
  <1>9. StagesInOrder' BY DEF StageTypeOK, ThreadTypeOK, StagesInOrder, Verdicts, Outcomes
  <1>10. ProcessTypeOK' /\ ThreadTypeOK' /\ EndingIsFinal' /\ HandlesStarted'
    BY DEF ProcessTypeOK, ThreadTypeOK, EndingIsFinal, HandlesStarted, Terminal, Outcomes,
       Verdicts
  <1>11. QED BY <1>1, <1>2, <1>3, <1>4, <1>5, <1>6, <1>7, <1>8, <1>9, <1>10

LEMMA CallRaisesInv == ASSUME NEW s \in Stages, Inv, CallRaises(s) PROVE Inv'
  <1> USE ProcessAssumption DEF Inv, TypeOK, Stages, Threads, CallRaises, Move, processVars,
    threadVars, endVars
  <1>1. StageTypeOK' BY DEF StageTypeOK, ThreadTypeOK, Verdicts, Outcomes
  <1>2. BeforeStart' BY DEF ProcessTypeOK, StageTypeOK, ThreadTypeOK, BeforeStart, Verdicts,
     Outcomes
  <1>3. StageAgrees' BY DEF StageTypeOK, ThreadTypeOK, StageAgrees, Active, Verdicts,
     Outcomes
  <1>4. PublishesLast'
    <2>1. \A r \in Stages : body[r] = "none" => body'[r] = "none" BY DEF StageTypeOK, Verdicts
    <2>2. QED BY <2>1 DEF PublishesLast, HandlesStarted
  <1>5. ContinuationIsToken' BY DEF ProcessTypeOK, StageTypeOK, ThreadTypeOK,
     ContinuationIsToken, Continuing, Settled, SomeIn, Active, Verdicts, Outcomes
  <1>6. FailureStays' BY DEF StageTypeOK, ThreadTypeOK, FailureStays, Verdicts, Outcomes
  <1>7. SuccessAgrees' BY DEF StageTypeOK, ThreadTypeOK, SuccessAgrees, AllDone, Verdicts,
     Outcomes
  <1>8. OneStageAtATime' BY DEF StageTypeOK, ThreadTypeOK, OneStageAtATime, Active,
     Verdicts, Outcomes
  <1>9. StagesInOrder' BY DEF StageTypeOK, ThreadTypeOK, StagesInOrder, Verdicts, Outcomes
  <1>10. ProcessTypeOK' /\ ThreadTypeOK' /\ EndingIsFinal' /\ HandlesStarted'
    BY DEF ProcessTypeOK, ThreadTypeOK, EndingIsFinal, HandlesStarted, Terminal, Outcomes,
       Verdicts
  <1>11. QED BY <1>1, <1>2, <1>3, <1>4, <1>5, <1>6, <1>7, <1>8, <1>9, <1>10

LEMMA PublishRaisedInv == ASSUME NEW s \in Stages, Inv, PublishRaised(s) PROVE Inv'
  <1> USE ProcessAssumption DEF Inv, TypeOK, Stages, Threads, PublishRaised, Publish, Move,
    processVars, threadVars, endVars
  <1>1. ProcessTypeOK' BY DEF ProcessTypeOK, Terminal, Outcomes
  <1>2. StageTypeOK' BY DEF StageTypeOK, ThreadTypeOK, Verdicts, Outcomes
  <1>3. BeforeStart' BY DEF ProcessTypeOK, StageTypeOK, ThreadTypeOK, BeforeStart, Verdicts,
     Outcomes
  <1>4. StageAgrees' BY DEF StageTypeOK, ThreadTypeOK, StageAgrees, Active, Verdicts,
     Outcomes
  <1>5. HandlesStarted'
    <2>1. \A r \in Stages : stageState'[r] = stageState[r] \/ stageState'[r] \in Verdicts
      BY DEF StageTypeOK, Verdicts
    <2>2. QED BY <2>1 DEF HandlesStarted, Verdicts
  <1>6. PublishesLast'
    <2>1. \A r \in Stages : body[r] = "none" => body'[r] = "none" BY DEF StageTypeOK, Verdicts
    <2>2. QED BY <2>1 DEF PublishesLast, HandlesStarted
  <1>7. ContinuationIsToken'
    <2> USE DEF StageTypeOK, ThreadTypeOK, Verdicts
    <2>1. Active(s) BY DEF Active
    <2>2. \A r \in Stages : r # s => body[r] \in {"none", "done"}
      BY <2>1 DEF OneStageAtATime, Active
    <2>3. Settled' BY <2>2 DEF Settled, Active
    <2>4. ASSUME pc["main"] = "decide" \/ status = "IN_PROGRESS", ~SomeIn("FAILED")'
          PROVE  idle' <= 1 /\ pc["main"] \notin {"continue", "decide"}
      <3>1. ~SomeIn("FAILED")
        BY <2>4 DEF SomeIn, FailureStays
      <3>2. ~Continuing
        BY <2>1, <3>1 DEF ContinuationIsToken, Settled, SomeIn
      <3>3. QED BY <2>4, <3>1, <3>2 DEF Continuing, ContinuationIsToken, ProcessTypeOK
    <2>5. QED BY <2>3, <2>4 DEF ContinuationIsToken, Continuing
  <1>8. FailureStays' BY DEF StageTypeOK, ThreadTypeOK, FailureStays, Verdicts, Outcomes
  <1>9. SuccessAgrees' BY DEF StageTypeOK, ThreadTypeOK, SuccessAgrees, AllDone, Verdicts,
     Outcomes
  <1>10. OneStageAtATime' BY DEF StageTypeOK, ThreadTypeOK, OneStageAtATime, Active,
     Verdicts, Outcomes
  <1>11. StagesInOrder'
    <2>1. stageState[s] # "COMPLETED" BY DEF StageAgrees, Active, Verdicts
    <2>2. \A r \in Stages : body'[r] # "none" => body[r] # "none" BY DEF StageTypeOK, Verdicts
    <2>3. \A r \in Stages : stageState[r] = "COMPLETED" => stageState'[r] = "COMPLETED"
      BY <2>1 DEF StageTypeOK
    <2>4. QED BY <2>2, <2>3 DEF StagesInOrder
  <1>12. ThreadTypeOK' /\ EndingIsFinal'
    BY DEF ThreadTypeOK, EndingIsFinal, Outcomes
  <1>13. QED BY <1>1, <1>2, <1>3, <1>4, <1>5, <1>6, <1>7, <1>8, <1>9, <1>10, <1>11, <1>12

LEMMA PublishResultInv == ASSUME NEW s \in Stages, Inv, PublishResult(s) PROVE Inv'
  <1> USE ProcessAssumption DEF Inv, TypeOK, Stages, Threads, PublishResult, Publish, Move,
    processVars, threadVars, endVars
  <1>1. ProcessTypeOK' BY DEF ProcessTypeOK, Terminal, Outcomes, Verdicts
  <1>2. StageTypeOK' BY DEF StageTypeOK, ThreadTypeOK, Verdicts, Outcomes
  <1>3. BeforeStart' BY DEF ProcessTypeOK, StageTypeOK, ThreadTypeOK, BeforeStart, Verdicts,
     Outcomes
  <1>4. StageAgrees' BY DEF StageTypeOK, ThreadTypeOK, StageAgrees, Active, Verdicts,
     Outcomes
  <1>5. HandlesStarted'
    <2>1. \A r \in Stages : stageState'[r] = stageState[r] \/ stageState'[r] \in Verdicts
      BY DEF StageTypeOK
    <2>2. QED BY <2>1 DEF HandlesStarted, Verdicts
  <1>6. PublishesLast'
    <2>1. \A r \in Stages : body[r] = "none" => body'[r] = "none" BY DEF StageTypeOK, Verdicts
    <2>2. QED BY <2>1 DEF PublishesLast, HandlesStarted
  <1>7. ContinuationIsToken'
    <2> USE DEF StageTypeOK, ThreadTypeOK, Verdicts
    <2>1. Active(s) BY DEF Active
    <2>2. \A r \in Stages : r # s => body[r] \in {"none", "done"}
      BY <2>1 DEF OneStageAtATime, Active
    <2>3. Settled' BY <2>2 DEF Settled, Active
    <2>4. ASSUME pc["main"] = "decide" \/ status = "IN_PROGRESS", ~SomeIn("FAILED")'
          PROVE  idle' <= 1 /\ pc["main"] \notin {"continue", "decide"}
      <3>1. ~SomeIn("FAILED")
        BY <2>4 DEF SomeIn, FailureStays
      <3>2. ~Continuing
        BY <2>1, <3>1 DEF ContinuationIsToken, Settled, SomeIn
      <3>3. QED BY <2>4, <3>1, <3>2 DEF Continuing, ContinuationIsToken, ProcessTypeOK
    <2>5. QED BY <2>3, <2>4 DEF ContinuationIsToken, Continuing
  <1>8. FailureStays' BY DEF StageTypeOK, ThreadTypeOK, FailureStays, Verdicts, Outcomes
  <1>9. SuccessAgrees' BY DEF StageTypeOK, ThreadTypeOK, SuccessAgrees, AllDone, Verdicts,
     Outcomes
  <1>10. OneStageAtATime' BY DEF StageTypeOK, ThreadTypeOK, OneStageAtATime, Active,
     Verdicts, Outcomes
  <1>11. StagesInOrder'
    <2>1. stageState[s] # "COMPLETED" BY DEF StageAgrees, Active, Verdicts
    <2>2. \A r \in Stages : body'[r] # "none" => body[r] # "none" BY DEF StageTypeOK, Verdicts
    <2>3. \A r \in Stages : stageState[r] = "COMPLETED" => stageState'[r] = "COMPLETED"
      BY <2>1 DEF StageTypeOK
    <2>4. QED BY <2>2, <2>3 DEF StagesInOrder
  <1>12. ThreadTypeOK' /\ EndingIsFinal'
    BY DEF ThreadTypeOK, EndingIsFinal, Outcomes
  <1>13. QED BY <1>1, <1>2, <1>3, <1>4, <1>5, <1>6, <1>7, <1>8, <1>9, <1>10, <1>11, <1>12

LEMMA CallEndsInv == ASSUME NEW s \in Stages, Inv, CallEnds(s) PROVE Inv'
  <1> USE ProcessAssumption DEF Inv, TypeOK, Stages, Threads, CallEnds, processVars,
    threadVars, endVars
  <1>1. StageTypeOK' BY DEF StageTypeOK, ThreadTypeOK, Verdicts, Outcomes
  <1>2. ProcessTypeOK' /\ ThreadTypeOK' /\ BeforeStart' /\ StageAgrees' /\ EndingIsFinal' /\ HandlesStarted' /\ PublishesLast' /\ ContinuationIsToken' /\ FailureStays' /\ SuccessAgrees' /\ OneStageAtATime' /\ StagesInOrder'
    BY DEF ProcessTypeOK, ThreadTypeOK, BeforeStart, StageAgrees, EndingIsFinal,
       HandlesStarted, PublishesLast, ContinuationIsToken, FailureStays, SuccessAgrees,
       OneStageAtATime, StagesInOrder, Terminal, Outcomes, Active, Verdicts, Continuing,
       Settled, SomeIn, AllDone
  <1>3. QED BY <1>1, <1>2

LEMMA CompleteInv == ASSUME NEW s \in Stages, NEW state \in Verdicts, Inv, Complete(s, state) PROVE Inv'
  <1> USE ProcessAssumption DEF Inv, TypeOK, Stages, Threads, Complete, Move, processVars,
    threadVars, endVars
  <1>1. StageTypeOK' BY DEF StageTypeOK, ThreadTypeOK, Verdicts, Outcomes
  <1>2. BeforeStart' BY DEF ProcessTypeOK, StageTypeOK, ThreadTypeOK, BeforeStart, Verdicts,
     Outcomes
  <1>3. StageAgrees' BY DEF StageTypeOK, ThreadTypeOK, StageAgrees, Active, Verdicts,
     Outcomes
  <1>4. PublishesLast'
    <2>1. \A r \in Stages : body[r] = "none" => body'[r] = "none" BY DEF StageTypeOK, Verdicts
    <2>2. QED BY <2>1 DEF PublishesLast, HandlesStarted
  <1>5. ContinuationIsToken' BY DEF ProcessTypeOK, StageTypeOK, ThreadTypeOK,
     ContinuationIsToken, Continuing, Settled, SomeIn, Active, Verdicts, Outcomes
  <1>6. FailureStays' BY DEF StageTypeOK, ThreadTypeOK, FailureStays, Verdicts, Outcomes
  <1>7. SuccessAgrees' BY DEF StageTypeOK, ThreadTypeOK, SuccessAgrees, AllDone, Verdicts,
     Outcomes
  <1>8. OneStageAtATime'
    <2>1. \A r \in Stages : Active(r)' => Active(r) BY DEF Active, StageTypeOK, Verdicts
    <2>2. QED BY <2>1 DEF OneStageAtATime
  <1>9. StagesInOrder' BY DEF StageTypeOK, ThreadTypeOK, StagesInOrder, Verdicts, Outcomes
  <1>10. ProcessTypeOK' /\ ThreadTypeOK' /\ EndingIsFinal' /\ HandlesStarted'
    BY DEF ProcessTypeOK, ThreadTypeOK, EndingIsFinal, HandlesStarted, Terminal, Outcomes,
       Verdicts
  <1>11. QED BY <1>1, <1>2, <1>3, <1>4, <1>5, <1>6, <1>7, <1>8, <1>9, <1>10

LEMMA NextInv == Inv /\ [Next]_vars => Inv'
  <1> SUFFICES ASSUME Inv, [Next]_vars PROVE Inv' OBVIOUS
  <1>1. CASE Start \/ StartRefused BY <1>1, StartInv, StartRefusedInv
  <1>2. CASE MainStep
    BY <1>2, DispatchInv, ContinueTestInv, ContinueFailInv, ContinueSpawnInv,
      ContinueCompleteInv DEF MainStep
  <1>3. ASSUME NEW t \in Threads, RequestCancel(t) PROVE Inv'
    BY <1>3, RequestCancelInv
  <1>4. ASSUME NEW t \in Threads, CancelStep(t) PROVE Inv'
    BY <1>4, CancelStatusInv, CancelPickInv, StageTestInv, StagePublishFailedInv,
      StageSignalInv, StageReapInv, StageJoinInv DEF CancelStep
  <1>5. ASSUME NEW t \in Threads, FinishStep(t) PROVE Inv'
    BY <1>5, CleanupStageInv, CleanupDisposeInv, CleanupRaiseInv, ReleaseKeeperInv,
      ReportInv DEF FinishStep
  <1>6. ASSUME NEW s \in Stages, StageStep(s) PROVE Inv'
    <2>1. CASE \E state \in Verdicts : Complete(s, state) BY <2>1, CompleteInv
    <2>2. CASE ~\E state \in Verdicts : Complete(s, state)
      BY <1>6, <2>2, StageStartInv, StageAcquireInv, CallMadeInv, CallAssignedInv,
      CallJoinedInv, CallRaisesInv, PublishRaisedInv, PublishResultInv DEF StageStep
    <2>3. QED BY <2>1, <2>2
  <1>7. ASSUME NEW s \in Stages, CallEnds(s) PROVE Inv' BY <1>7, CallEndsInv
  <1>8. CASE UNCHANGED vars
    <2> USE <1>8 DEF Inv, TypeOK, vars, stageVars, threadVars, endVars
    <2>1. TypeOK' BY DEF ProcessTypeOK, StageTypeOK, ThreadTypeOK
    <2>2. BeforeStart' /\ StageAgrees' BY DEF BeforeStart, StageAgrees, Active
    <2>3. EndingIsFinal' /\ HandlesStarted' /\ PublishesLast'
      BY DEF EndingIsFinal, HandlesStarted, PublishesLast
    <2>4. ContinuationIsToken' /\ FailureStays'
      BY DEF ContinuationIsToken, Continuing, Settled, SomeIn, Active, FailureStays
    <2>5. SuccessAgrees' BY DEF SuccessAgrees, AllDone
    <2>6. OneStageAtATime' /\ StagesInOrder' BY DEF OneStageAtATime, Active, StagesInOrder
    <2>7. QED BY <2>1, <2>2, <2>3, <2>4, <2>5, <2>6
  <1>9. QED BY <1>1, <1>2, <1>3, <1>4, <1>5, <1>6, <1>7, <1>8 DEF Next

THEOREM Invariance == Spec => []Inv
  BY InitInv, NextInv, PTL DEF Spec

-----------------------------------------------------------------------------

\* Every field of the process and of its stages keeps to its states, in every
\* interleaving of the main loop, the stage threads and the cancelers.
THEOREM TypeCorrect == Spec => []TypeOK
  <1>1. Inv => TypeOK BY DEF Inv
  <1>2. QED BY <1>1, Invariance, PTL

\* _continue_process never lets two stages of a process run at once.
THEOREM OneStageRuns == Spec => []OneStageAtATime
  <1>1. Inv => OneStageAtATime BY DEF Inv
  <1>2. QED BY <1>1, Invariance, PTL

\* _continue_process never starts a stage before all earlier ones completed.
THEOREM StagesRunInOrder == Spec => []StagesInOrder
  <1>1. Inv => StagesInOrder BY DEF Inv
  <1>2. QED BY <1>1, Invariance, PTL

\* complete_process(True) is called only when every stage has completed.
THEOREM SuccessReportedWhole == Spec => []SuccessIsWhole
  <1>1. Inv => SuccessIsWhole BY DEF Inv, SuccessAgrees, SuccessIsWhole, AllDone
  <1>2. QED BY <1>1, Invariance, PTL
-----------------------------------------------------------------------------
(* A process that only the main loop cancels.                              *)

\* The status read by the early return of _continue_process still holds when
\* it decides: nobody else is there to change it.
MainAlone ==
  /\ pc["worker"] = "loop"
  /\ pc["main"] = "decide" => status = "IN_PROGRESS"

LEMMA MainAloneStep ==
  ASSUME Cancelers \subseteq {"main"}, TypeOK, MainAlone, [Next]_vars
  PROVE  MainAlone'
  <1> USE DEF MainAlone, TypeOK, ProcessTypeOK, ThreadTypeOK, Threads, Goto, EnterFinish
  <1>1. CASE Start \/ StartRefused BY <1>1 DEF Start, StartRefused
  <1>2. CASE MainStep
    BY <1>2 DEF MainStep, Dispatch, ContinueTest, ContinueFail, ContinueSpawn, ContinueComplete,
      Terminal
  <1>3. ASSUME NEW t \in Threads, RequestCancel(t) PROVE MainAlone'
    BY <1>3 DEF RequestCancel
  <1>4. ASSUME NEW t \in Threads, CancelStep(t) PROVE MainAlone'
    <2> USE <1>4 DEF AfterStageCancel
    <2>1. CASE CancelStatus(t) \/ CancelPick(t) BY <2>1 DEF CancelStatus, CancelPick
    <2>2. CASE StageTest(t) \/ StagePublishFailed(t) \/ StageSignal(t)
      BY <2>2 DEF StageTest, StagePublishFailed, StageSignal
    <2>3. CASE StageReap(t) BY <2>3 DEF StageReap
    <2>4. CASE StageJoin(t) BY <2>4 DEF StageJoin
    <2>5. QED BY <2>1, <2>2, <2>3, <2>4 DEF CancelStep
  <1>5. ASSUME NEW t \in Threads, FinishStep(t) PROVE MainAlone'
    BY <1>5 DEF FinishStep, CleanupStage, CleanupDispose, CleanupRaise, ReleaseKeeper, Report
  <1>6. ASSUME NEW s \in Stages, StageStep(s) \/ CallEnds(s) PROVE MainAlone'
    <2>1. UNCHANGED processVars
      BY <1>6 DEF StageStep, StageStart, StageAcquire, CallMade, CallAssigned, CallJoined,
        CallRaises, PublishRaised, PublishResult, Publish, Complete, CallEnds, processVars
    <2>2. QED BY <2>1 DEF processVars, threadVars
  <1>7. CASE UNCHANGED vars BY <1>7 DEF vars, threadVars
  <1>8. QED BY <1>1, <1>2, <1>3, <1>4, <1>5, <1>6, <1>7 DEF Next

LEMMA SpawnStep ==
  ASSUME TypeOK, MainAlone, [Next]_vars, NEW s \in Stages, body[s] = "none", body'[s] # "none"
  PROVE  status = "IN_PROGRESS"
  <1> USE DEF stageVars
  <1>1. CASE ContinueSpawn BY <1>1 DEF ContinueSpawn, MainAlone
  <1>2. CASE Start \/ StartRefused BY <1>2 DEF Start, StartRefused
  <1>3. CASE MainStep /\ ~ContinueSpawn
    BY <1>3 DEF MainStep, Dispatch, ContinueTest, ContinueFail, ContinueComplete
  <1>4. ASSUME NEW t \in Threads, RequestCancel(t) \/ CancelStep(t) \/ FinishStep(t)
        PROVE  body' = body
    <2>1. CASE RequestCancel(t) BY <2>1 DEF RequestCancel
    <2>2. CASE CancelStep(t)
      BY <2>2 DEF CancelStep, CancelStatus, CancelPick, StageTest, StagePublishFailed,
        StageSignal, StageReap, StageJoin
    <2>3. CASE FinishStep(t)
      BY <2>3 DEF FinishStep, CleanupStage, CleanupDispose, CleanupRaise, ReleaseKeeper, Report
    <2>4. QED BY <1>4, <2>1, <2>2, <2>3
  <1>5. ASSUME NEW r \in Stages, StageStep(r) \/ CallEnds(r)
        PROVE  \A q \in Stages : body[q] = "none" => body'[q] = "none"
    BY <1>5 DEF StageStep, StageStart, StageAcquire, CallMade, CallAssigned, CallJoined, CallRaises,
      PublishRaised, PublishResult, Publish, Complete, CallEnds, Move, TypeOK, StageTypeOK, Verdicts
  <1>6. CASE UNCHANGED vars BY <1>6 DEF vars
  <1>7. QED BY <1>1, <1>2, <1>3, <1>4, <1>5, <1>6 DEF Next

\* When only the main loop cancels, no stage is given a thread after the
\* process has left IN_PROGRESS.
THEOREM NoStageStartsAfterEnd ==
  ASSUME Cancelers \subseteq {"main"} PROVE Spec => NoStageAfterEnd
  <1>1. Init => MainAlone BY DEF Init, MainAlone, Threads
  <1>2. Inv /\ MainAlone /\ [Next]_vars => MainAlone' BY MainAloneStep DEF Inv
  <1>3. Inv /\ MainAlone /\ [Next]_vars =>
          [\A s \in Stages : body[s] = "none" /\ body'[s] # "none" => status = "IN_PROGRESS"]_vars
    BY SpawnStep DEF Inv
  <1>4. QED BY <1>1, <1>2, <1>3, Invariance, PTL DEF Spec, NoStageAfterEnd

-----------------------------------------------------------------------------
(* What is left when the process reports.                                  *)

\* A command of a stage runs while its thread is in it; what a stage took it
\* took after its start.
CallsInside == \A s \in Stages :
  /\ call[s] \in {"running", "canceled"} => body[s] \in {"calling", "joining"}
  /\ s \in resource => stageState[s] # "SCHEDULED"

CleanPlaces == {"cleanup", "test", "publish", "signal", "reap", "join", "dispose"}
\* The main loop, when nobody cancels: it cleans once, stage by stage, and a
\* process whose start is refused cancels itself before any stage runs.
Cleans ==
  /\ pc["worker"] = "loop"
  /\ pc["main"] \in {"cancel", "pick"} => status = "SETUP" /\ \A s \in Stages : body[s] = "none"
  /\ begun /\ status # "IN_PROGRESS" => Settled /\ pc["main"] # "decide"
  /\ pc["main"] \in CleanPlaces =>
       "main" \in cleaning /\ (~raised => \A s \in at["main"] + 1 .. NumStages : s \notin resource)
  /\ pc["main"] \in {"release", "report"} => raised \/ resource = {}
  /\ pc["main"] = "report" => raised \/ ~keeper
  /\ reports # <<>> => /\ begun /\ status # "IN_PROGRESS" /\ pc["main"] \in {"loop", "continue"}
                       /\ ~listed /\ (raised \/ (~keeper /\ resource = {}))
CleanOK == CallsInside /\ (canceled = {} => Cleans)

\* A process is listed only once it is started, and no more once it reported;
\* it has given its authorization back when it reports.
LifeOK ==
  /\ MainAlone
  /\ ~begun => ~listed
  /\ pc["main"] = "report" => ~keeper
  /\ reports # <<>> => begun /\ ~keeper /\ ~listed

\* The steps of threads that change nothing of what stages took and run.
stageHeld == <<stageState, body, call, resource>>
LEMMA CallsInsideStep ==
  ASSUME Inv, CallsInside, [Next]_vars
  PROVE  CallsInside'
<1>type. StageTypeOK /\ ThreadTypeOK
  BY DEF Inv, TypeOK
<1>same. ASSUME UNCHANGED stageHeld PROVE CallsInside'
  BY <1>same DEF CallsInside, stageHeld
<1>1. CASE Start \/ StartRefused
  BY <1>1, <1>same DEF Start, StartRefused, stageVars, stageHeld
<1>2. CASE MainStep
  <2>1. CASE ContinueSpawn
    <3>1. PICK s \in Stages : stageState[s] = "SCHEDULED" /\ body' = [body EXCEPT ![s] = "spawned"]
      BY <2>1 DEF ContinueSpawn, IsFirst
    <3>2. body[s] \notin {"calling", "joining"}
      BY <3>1 DEF Inv, StageAgrees
    <3> QED BY <2>1, <3>1, <3>2, <1>type DEF ContinueSpawn, CallsInside, StageTypeOK
  <2>2. CASE ~ContinueSpawn
    BY <1>2, <2>2, <1>same DEF MainStep, Dispatch, ContinueTest, ContinueFail, ContinueComplete, stageVars, stageHeld
  <2> QED BY <2>1, <2>2
<1>3. ASSUME NEW t \in Threads, RequestCancel(t) PROVE CallsInside'
  BY <1>3, <1>same DEF RequestCancel, stageVars, stageHeld
<1>4. ASSUME NEW t \in Threads, CancelStep(t) PROVE CallsInside'
  <2>1. CASE CancelStatus(t) \/ CancelPick(t) \/ StageTest(t)
    BY <2>1, <1>same DEF CancelStatus, CancelPick, StageTest, stageVars, stageHeld
  <2>2. CASE StagePublishFailed(t)
    BY <2>2, <1>type DEF StagePublishFailed, CallsInside, StageTypeOK
  <2>3. CASE StageSignal(t)
    BY <2>3, <1>same DEF StageSignal, stageHeld
  <2>4. CASE StageReap(t)
    BY <2>4, <1>type DEF StageReap, CallsInside, StageTypeOK
  <2>5. CASE StageJoin(t)
    BY <2>5, <1>same DEF StageJoin, stageHeld
  <2> QED BY <1>4, <2>1, <2>2, <2>3, <2>4, <2>5 DEF CancelStep
<1>5. ASSUME NEW t \in Threads, FinishStep(t) PROVE CallsInside'
  <2>1. CASE CleanupDispose(t)
    BY <2>1 DEF CleanupDispose, CallsInside
  <2>2. CASE ~CleanupDispose(t)
    BY <1>5, <2>2, <1>same DEF FinishStep, CleanupStage, CleanupRaise, ReleaseKeeper, Report, stageVars, stageHeld
  <2> QED BY <2>1, <2>2
<1>6. ASSUME NEW s \in Stages, StageStep(s) \/ CallEnds(s) PROVE CallsInside'
  <2>1. body[s] \in {"work", "calling"} => stageState[s] # "SCHEDULED"
    BY DEF Inv, StageAgrees
  <2>2. CASE StageStart(s)
    BY <2>2, <1>type DEF StageStart, Move, CallsInside, StageTypeOK
  <2>3. CASE StageAcquire(s)
    BY <2>1, <2>3, <1>type DEF StageAcquire, CallsInside, StageTypeOK
  <2>4. CASE CallMade(s)
    BY <2>4, <1>type DEF CallMade, Move, CallsInside, StageTypeOK
  <2>5. CASE CallAssigned(s) \/ CallJoined(s) \/ CallEnds(s)
    BY <2>5, <1>type DEF CallAssigned, CallJoined, CallEnds, Move, CallsInside, StageTypeOK
  <2>6. CASE CallRaises(s) \/ \E state \in Verdicts : Complete(s, state)
    BY <2>6, <1>type DEF CallRaises, Complete, Move, CallsInside, StageTypeOK, Verdicts
  <2>7. CASE PublishRaised(s) \/ PublishResult(s)
    BY <2>7, <1>type DEF PublishRaised, PublishResult, Publish, Move, CallsInside, StageTypeOK, Verdicts
  <2> QED BY <1>6, <2>2, <2>3, <2>4, <2>5, <2>6, <2>7 DEF StageStep
<1>7. CASE UNCHANGED vars
  BY <1>7, <1>same DEF vars, stageVars, stageHeld
<1> QED BY <1>1, <1>2, <1>3, <1>4, <1>5, <1>6, <1>7 DEF Next

\* Each step of a process that is not canceled cleans on, or leaves it clean.
LEMMA CleansStep ==
  ASSUME Inv, CallsInside, canceled = {} => Cleans, [Next]_vars, canceled' = {}
  PROVE  Cleans'
<1>types. StageTypeOK /\ ThreadTypeOK /\ ProcessTypeOK
  BY DEF Inv, TypeOK
<1>0. canceled = {} /\ Cleans
  <2>1. canceled \subseteq canceled'
    BY DEF Next, Start, StartRefused, MainStep, Dispatch, ContinueTest, ContinueFail, ContinueSpawn, ContinueComplete, RequestCancel,
       CancelStep, CancelStatus, CancelPick, StageTest, StagePublishFailed, StageSignal, StageReap, StageJoin,
       FinishStep, CleanupStage, CleanupDispose, CleanupRaise, ReleaseKeeper, Report, StageStep, StageStart,
       StageAcquire, CallMade, CallAssigned, CallJoined, CallRaises, PublishRaised, PublishResult, Publish, Complete,
       CallEnds, processVars, vars
  <2> QED BY <2>1
<1>1. CASE Start
  BY <1>1, <1>0, <1>types, ProcessAssumption DEF Start, Goto, stageVars, Cleans, CleanPlaces, ThreadTypeOK, Threads, Inv, BeforeStart
<1>refused. CASE StartRefused
  BY <1>refused, <1>0, <1>types, ProcessAssumption
     DEF StartRefused, Goto, stageVars, endVars, Cleans, CleanPlaces, ThreadTypeOK, Threads, Inv, BeforeStart,
         Settled, Active
<1>2. CASE Dispatch
  BY <1>2, <1>0, <1>types DEF Dispatch, Goto, stageVars, endVars, Cleans, CleanPlaces, ThreadTypeOK, Threads, Settled, Active
<1>3. CASE ContinueTest
  BY <1>3, <1>0, <1>types DEF ContinueTest, Goto, stageVars, endVars, Cleans, CleanPlaces, ThreadTypeOK, Threads, Settled, Active,
     Terminal, ProcessTypeOK
<1>4. CASE ContinueFail \/ ContinueComplete
  <2>1. Settled
    BY <1>4 DEF ContinueFail, ContinueComplete, Inv, ContinuationIsToken, Continuing
  <2> QED BY <1>4, <2>1, <1>0, <1>types, ProcessAssumption
       DEF ContinueFail, ContinueComplete, EnterFinish, stageVars, endVars, Cleans, CleanPlaces, ThreadTypeOK,
           Threads, Settled, Active, StageTypeOK, Stages
<1>5. CASE ContinueSpawn
  BY <1>5, <1>0, <1>types DEF ContinueSpawn, Goto, endVars, Cleans, CleanPlaces, ThreadTypeOK, Threads
<1>6. ASSUME NEW t \in Threads, RequestCancel(t) PROVE Cleans'
  BY <1>6 DEF RequestCancel
<1>7. ASSUME NEW t \in Threads, CancelStep(t) PROVE Cleans'
  <2>1. t = "main"
    BY <1>7, <1>0 DEF CancelStep, CancelStatus, CancelPick, StageTest, StagePublishFailed, StageSignal, StageReap,
       StageJoin, Cleans, Threads
  <2>2. CASE CancelStatus(t)
    BY <2>1, <2>2, <1>0, <1>types DEF CancelStatus, Goto, stageVars, endVars, Cleans, CleanPlaces, ThreadTypeOK,
       Threads, Settled, Active
  <2>3. CASE CancelPick(t)
    <3>1. \A s \in Stages : body[s] = "none" /\ stageState[s] = "SCHEDULED"
      BY <2>1, <2>3, <1>0 DEF CancelPick, Cleans, Inv, StageAgrees
    <3>2. resource = {}
      BY <3>1, <1>types DEF CallsInside, StageTypeOK
    <3>3. ~\E s \in Stages : IsFirst(s, "IN_PROGRESS")
      BY <3>1 DEF IsFirst
    <3>4. EnterFinish("main", "failure") /\ UNCHANGED <<status, begun, stageVars, idle, endVars, canceled>>
      BY <2>1, <2>3, <3>3 DEF CancelPick
    <3>5. pc'["main"] = "cleanup" /\ "main" \in cleaning' /\ pc'["worker"] = pc["worker"]
      BY <3>4, <1>types DEF EnterFinish, ThreadTypeOK, Threads
    <3>6. Settled'
      BY <3>1, <3>4 DEF Settled, Active, stageVars
    <3> QED BY <2>1, <2>3, <3>2, <3>4, <3>5, <3>6, <1>0 DEF Cleans, CleanPlaces, stageVars, endVars, CancelPick
  <2>4. CASE ~CancelStatus(t) /\ ~CancelPick(t)
    BY <1>7, <2>1, <2>4, <1>0, <1>types
       DEF CancelStep, StageTest, StagePublishFailed, StageSignal, StageReap, StageJoin,
           AfterStageCancel, Goto, stageVars, endVars, Cleans, CleanPlaces, ThreadTypeOK, StageTypeOK, Threads, Settled, Active
  <2> QED BY <2>2, <2>3, <2>4
<1>8. ASSUME NEW t \in Threads, FinishStep(t) PROVE Cleans'
  <2>1. t = "main"
    BY <1>8, <1>0 DEF FinishStep, CleanupStage, CleanupDispose, CleanupRaise, ReleaseKeeper, Report, Cleans, Threads
  <2>2. CASE CleanupStage(t)
    BY <2>1, <2>2, <1>0, <1>types DEF CleanupStage, Goto, stageVars, endVars, Cleans, CleanPlaces, ThreadTypeOK,
       StageTypeOK, Threads, Settled, Active, CallsInside, Stages
  <2>3. CASE CleanupDispose(t)
    BY <2>1, <2>3, <1>0, <1>types DEF CleanupDispose, Goto, endVars, Cleans, CleanPlaces, ThreadTypeOK,
       StageTypeOK, Threads, Settled, Active, Stages, Inv, HandlesStarted
  <2>4. CASE ReleaseKeeper(t)
    BY <2>1, <2>4, <1>0, <1>types DEF ReleaseKeeper, Goto, stageVars, Cleans, CleanPlaces, ThreadTypeOK,
       Threads, Settled, Active
  <2>5. CASE Report(t)
    <3>1. pc["main"] = "report" /\ "main" \in Threads
      BY <2>1, <2>5 DEF Report, Threads
    <3>2. begun /\ status # "IN_PROGRESS" /\ status \in Terminal
      BY <3>1, <1>types DEF Inv, BeforeStart, EndingIsFinal, ProcessTypeOK
    <3>3. (raised \/ (resource = {} /\ ~keeper)) /\ Settled /\ pc["worker"] = "loop"
      BY <3>1, <3>2, <1>0 DEF Cleans
    <3>4. pc'["main"] = "loop" /\ pc'["worker"] = pc["worker"] /\ listed' = FALSE
      BY <2>1, <2>5, <3>2, <1>types DEF Report, Goto, ThreadTypeOK, Threads
    <3>5. UNCHANGED <<status, begun, stageVars, keeper, raised, cleaning>>
      BY <2>5 DEF Report
    <3>6. begun' /\ status' # "IN_PROGRESS" /\ (raised' \/ (resource' = {} /\ ~keeper')) /\ ~listed'
      BY <3>2, <3>3, <3>4, <3>5 DEF stageVars
    <3>7. Settled'
      BY <3>3, <3>5 DEF stageVars, Settled, Active
    <3> QED BY <3>3, <3>4, <3>6, <3>7 DEF Cleans, CleanPlaces
  <2>6. CASE CleanupRaise(t)
    BY <2>1, <2>6, <1>0, <1>types DEF CleanupRaise, Goto, stageVars, Cleans, CleanPlaces, ThreadTypeOK,
       Threads, Settled, Active
  <2> QED BY <1>8, <2>2, <2>3, <2>4, <2>5, <2>6 DEF FinishStep
<1>9. ASSUME NEW s \in Stages, StageStep(s) \/ CallEnds(s) PROVE Cleans'
  <2>1. begun /\ status # "IN_PROGRESS" => body[s] \notin {"spawned", "work"} /\ Settled
    BY <1>0 DEF Cleans, Settled, Active
  <2>2. pc["main"] \notin {"loop", "continue", "decide"} => begun /\ status # "IN_PROGRESS"
    BY <1>0 DEF Inv, BeforeStart, EndingIsFinal, Threads, Cleans
  <2>3. UNCHANGED processVars
    BY <1>9 DEF StageStep, StageStart, StageAcquire, CallMade, CallAssigned, CallJoined, CallRaises,
       PublishRaised, PublishResult, Publish, Complete, CallEnds, processVars
  <2>4. begun /\ status # "IN_PROGRESS" => resource' = resource
    BY <1>9, <2>1 DEF StageStep, StageStart, StageAcquire, CallMade, CallAssigned, CallJoined, CallRaises,
       PublishRaised, PublishResult, Publish, Complete, CallEnds
  <2>5. begun /\ status # "IN_PROGRESS" => Settled'
    BY <1>9, <1>types, <2>1 DEF StageStep, StageStart, StageAcquire, CallMade, CallAssigned, CallJoined, CallRaises,
       PublishRaised, PublishResult, Publish, Complete, CallEnds, Move, Settled, Active, StageTypeOK, Verdicts
  <2>6. body[s] # "none"
    BY <1>9 DEF StageStep, StageStart, StageAcquire, CallMade, CallAssigned, CallJoined, CallRaises,
       PublishRaised, PublishResult, Complete, CallEnds, CallsInside, Verdicts
  <2>7. pc["main"] \notin {"cancel", "pick"}
    BY <1>0, <2>6 DEF Cleans
  <2> QED BY <1>0, <2>2, <2>3, <2>4, <2>5, <2>7 DEF processVars, threadVars, endVars, Cleans, CleanPlaces
<1>10. CASE UNCHANGED vars
  BY <1>10, <1>0 DEF vars, stageVars, threadVars, endVars, Cleans, Settled, Active
<1> QED BY <1>1, <1>refused, <1>2, <1>3, <1>4, <1>5, <1>6, <1>7, <1>8, <1>9, <1>10 DEF Next, MainStep

\* The two together are inductive.
LEMMA CleanOKStep == Inv /\ CleanOK /\ [Next]_vars => CleanOK'
BY CallsInsideStep, CleansStep DEF CleanOK

\* Nothing is taken at first.
LEMMA InitCleanOK == Init => CleanOK
BY DEF Init, CleanOK, CallsInside, Cleans, CleanPlaces, Threads

\* A process nobody canceled, for any number of stages and commands and however
\* its stages end, reports with none of its commands running and, unless a
\* cleanup raised, with all given back that its stages took.
THEOREM NothingIsLeft == Spec => []NothingLeftBehind
<1>1. Init => Inv /\ CleanOK
  BY InitInv, InitCleanOK
<1>2. Inv /\ CleanOK /\ [Next]_vars => (Inv /\ CleanOK)'
  BY NextInv, CleanOKStep
<1>3. Inv /\ CleanOK => NothingLeftBehind
  <2> SUFFICES ASSUME Inv, CleanOK, reports # <<>>, canceled = {}
               PROVE  /\ ~listed /\ \A s \in Stages : call[s] \notin {"running", "canceled"}
                      /\ ~raised => ~keeper /\ resource = {}
    BY DEF NothingLeftBehind
  <2>1. ~listed /\ (raised \/ (~keeper /\ resource = {})) /\ Settled
    BY DEF CleanOK, Cleans
  <2>2. ASSUME NEW s \in Stages PROVE call[s] \notin {"running", "canceled"}
    BY <2>1 DEF CleanOK, CallsInside, Settled, Active
  <2> QED BY <2>1, <2>2
<1> QED BY <1>1, <1>2, <1>3, PTL DEF Spec

-----------------------------------------------------------------------------
(* The process implements the lifecycle.                                   *)

\* Steps that nobody outside the process sees.
lifeVars == <<begun, keeper, listed, reports>>
LEMMA InnerSteps ==
  ASSUME ~CleanupRaises, [Next]_vars, ~Start, ~StartRefused,
         \A t \in Threads : ~ReleaseKeeper(t) /\ ~Report(t)
  PROVE  UNCHANGED lifeVars
BY DEF Next, MainStep, Dispatch, ContinueTest, ContinueFail, ContinueSpawn, ContinueComplete, RequestCancel,
       CancelStep, CancelStatus, CancelPick, StageTest, StagePublishFailed, StageSignal, StageReap, StageJoin,
       FinishStep, CleanupStage, CleanupDispose, CleanupRaise, StageStep, StageStart,
       StageAcquire, CallMade, CallAssigned, CallJoined, CallRaises, PublishRaised, PublishResult, Publish, Complete,
       CallEnds, processVars, endVars, vars, lifeVars

\* What the lifecycle relies on is kept by each step.
LEMMA LifeOKStep ==
  ASSUME Cancelers \subseteq {"main"}, ~CleanupRaises, Inv, LifeOK, [Next]_vars
  PROVE  LifeOK'
<1>types. ProcessTypeOK /\ ThreadTypeOK
  BY DEF Inv, TypeOK
<1>alone. MainAlone'
  BY MainAloneStep DEF Inv, LifeOK
<1>1. CASE Start \/ StartRefused
  BY <1>1, <1>alone, <1>types DEF Start, StartRefused, endVars, Goto, LifeOK, ThreadTypeOK, Threads, Inv, BeforeStart
<1>2. ASSUME NEW t \in Threads, ReleaseKeeper(t) PROVE LifeOK'
  BY <1>2, <1>alone DEF ReleaseKeeper, LifeOK
<1>3. ASSUME NEW t \in Threads, Report(t) PROVE LifeOK'
  <2>1. t = "main" /\ pc["main"] = "report"
    BY <1>3 DEF Report, LifeOK, MainAlone, Threads
  <2>2. begun /\ status \in Terminal
    BY <2>1, <1>types DEF Inv, BeforeStart, EndingIsFinal, ProcessTypeOK, Threads
  <2>3. UNCHANGED <<begun, keeper>> /\ listed' = FALSE /\ reports' = Append(reports, verdict[t])
    BY <1>3, <2>2 DEF Report
  <2>4. reports' # <<>>
    BY <2>3, <1>types DEF ProcessTypeOK, ThreadTypeOK
  <2> QED BY <2>1, <2>2, <2>3, <2>4, <1>alone DEF LifeOK
<1>4. CASE ~Start /\ ~StartRefused /\ \A t \in Threads : ~ReleaseKeeper(t) /\ ~Report(t)
  <2>1. UNCHANGED lifeVars
    BY <1>4, InnerSteps
  <2>2. pc'["main"] = "report" => pc["main"] = "report"
    BY <1>4, <1>types DEF LifeOK, MainAlone, ThreadTypeOK, Threads, Goto, EnterFinish, AfterStageCancel, Next,
       MainStep, Dispatch, ContinueTest, ContinueFail, ContinueSpawn, ContinueComplete, RequestCancel,
       CancelStep, CancelStatus, CancelPick, StageTest, StagePublishFailed, StageSignal, StageReap, StageJoin,
       FinishStep, CleanupStage, CleanupDispose, CleanupRaise, StageStep, StageStart,
       StageAcquire, CallMade, CallAssigned, CallJoined, CallRaises, PublishRaised, PublishResult, Publish, Complete,
       CallEnds, processVars, threadVars, vars
  <2> QED BY <2>1, <2>2, <1>alone DEF LifeOK, lifeVars
<1> QED BY <1>1, <1>2, <1>3, <1>4

\* Each step of the process is one of the lifecycle, or none of its concern.
LEMMA LifecycleStep ==
  ASSUME ~CleanupRaises, Main, Main', Inv, LifeOK, LifeOK', [Next]_vars
  PROVE  [MainLifecycle!Next]_(MainLifecycle!vars)
<1>types. ProcessTypeOK /\ ThreadTypeOK /\ keeper \in BOOLEAN /\ listed \in BOOLEAN
  BY DEF Inv, TypeOK, ProcessTypeOK
<1>1. CASE Start
  <2>1. Phase = "setup" /\ Phase' = "running" /\ keeper' = Authorized /\ listed' = TRUE
    BY <1>1 DEF Start, Phase, Inv, BeforeStart
  <2>2. MainLifecycle!Start
    BY <2>1, ProcessAssumption DEF MainLifecycle!Start
  <2> QED BY <2>2 DEF MainLifecycle!Next
<1>refused. CASE StartRefused
  <2>1. Phase = "setup" /\ Phase' = "running" /\ Authorized /\ UNCHANGED <<keeper, listed>>
    BY <1>refused DEF StartRefused, endVars, Phase, Inv, BeforeStart
  <2>2. MainLifecycle!Start
    BY <2>1 DEF MainLifecycle!Start
  <2> QED BY <2>2 DEF MainLifecycle!Next
<1>2. ASSUME NEW t \in Threads, ReleaseKeeper(t) PROVE [MainLifecycle!Next]_(MainLifecycle!vars)
  <2>1. begun /\ keeper' = FALSE /\ UNCHANGED <<begun, listed, reports>>
    BY <1>2 DEF ReleaseKeeper, Inv, BeforeStart
  <2>2. CASE keeper
    <3>1. Phase = "running" /\ Phase' = Phase
      BY <2>1, <2>2 DEF Phase, LifeOK
    <3>2. MainLifecycle!GiveBackAuthorization
      BY <2>1, <2>2, <3>1 DEF MainLifecycle!GiveBackAuthorization
    <3> QED BY <3>2 DEF MainLifecycle!Next
  <2>3. CASE ~keeper
    BY <2>1, <2>3, <1>types DEF MainLifecycle!vars, Phase
  <2> QED BY <2>2, <2>3
<1>3. ASSUME NEW t \in Threads, Report(t) PROVE [MainLifecycle!Next]_(MainLifecycle!vars)
  <2>1. t = "main" /\ pc["main"] = "report" /\ ~keeper
    BY <1>3 DEF Report, LifeOK, MainAlone, Threads
  <2>2. begun /\ status \in Terminal
    BY <2>1, <1>types DEF Inv, BeforeStart, EndingIsFinal, ProcessTypeOK, Threads
  <2>3. UNCHANGED <<begun, keeper>> /\ listed' = FALSE /\ reports' = Append(reports, verdict[t])
    BY <1>3, <2>2 DEF Report
  <2>4. reports \in Seq(Outcomes) /\ verdict[t] \in Outcomes
    BY <1>types DEF ProcessTypeOK, ThreadTypeOK
  <2>5. CASE reports = <<>>
    <3>1. Phase = "running" /\ Phase' \in {"succeeded", "failed"}
      BY <2>2, <2>3, <2>4, <2>5 DEF Phase
    <3>2. MainLifecycle!Finish
      BY <2>1, <2>3, <3>1 DEF MainLifecycle!Finish
    <3> QED BY <3>2 DEF MainLifecycle!Next
  <2>6. CASE reports # <<>>
    <3>1. reports' # <<>> /\ Head(reports') = Head(reports)
      BY <2>3, <2>4, <2>6
    <3>2. Phase' = Phase
      BY <2>3, <2>6, <3>1 DEF Phase
    <3>3. ~listed
      BY <2>6 DEF LifeOK
    <3> QED BY <2>3, <3>2, <3>3, <1>types DEF MainLifecycle!vars
  <2> QED BY <2>5, <2>6
<1>4. CASE ~Start /\ ~StartRefused /\ \A t \in Threads : ~ReleaseKeeper(t) /\ ~Report(t)
  <2>1. UNCHANGED lifeVars
    BY <1>4, InnerSteps
  <2> QED BY <2>1 DEF lifeVars, MainLifecycle!vars, Phase
<1> QED BY <1>1, <1>refused, <1>2, <1>3, <1>4

\* A process that only the main loop cancels, and whose cleanup does not
\* raise, is a ProcessLifecycle, step by step: it is listed and authorized
\* from its start on, gives its authorization back before it reports, and a
\* second report changes nothing that others go by.  That it ends at last is
\* left to the run of LifecycleOfMain.
THEOREM LifecycleImplemented ==
  ASSUME Cancelers \subseteq {"main"}, ~CleanupRaises
  PROVE  MCSpec => MainLifecycle!Init /\ [][MainLifecycle!Next]_(MainLifecycle!vars)
<1> DEFINE I == Main => Inv /\ LifeOK
<1>1. MCInit => I /\ MainLifecycle!Init
  <2> SUFFICES ASSUME MCInit PROVE I /\ MainLifecycle!Init
    OBVIOUS
  <2>1. CASE Main /\ Init
    BY <2>1, InitInv DEF Init, LifeOK, MainAlone, MainLifecycle!Init, Phase, Threads
  <2>2. CASE ~Main
    BY <2>2 DEF MainLifecycle!Init
  <2> QED BY <2>1, <2>2 DEF MCInit, Main
<1>2. I /\ [MCNext]_mcvars => I' /\ [MainLifecycle!Next]_(MainLifecycle!vars)
  <2> SUFFICES ASSUME I, [MCNext]_mcvars PROVE I' /\ [MainLifecycle!Next]_(MainLifecycle!vars)
    OBVIOUS
  <2>1. CASE Main
    <3>1. Main' /\ [Next]_vars /\ Inv /\ LifeOK
      BY <2>1 DEF MCNext, mcvars, Main
    <3>2. Inv' /\ LifeOK'
      BY <3>1, NextInv, LifeOKStep
    <3> QED BY <2>1, <3>1, <3>2, LifecycleStep
  <2>2. CASE ~Main
    <3>1. ~Main'
      BY <2>2 DEF MCNext, mcvars, Main
    <3> QED BY <2>2, <3>1 DEF MainLifecycle!vars
  <2> QED BY <2>1, <2>2
<1> QED BY <1>1, <1>2, PTL DEF MCSpec
=============================================================================
