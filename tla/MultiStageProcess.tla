------------------------- MODULE MultiStageProcess -------------------------
(***************************************************************************)
(* One MultiStageProcess (src/objects/global_objects/multistage_process.py)*)
(* with the threads that touch it:                                         *)
(*   - the GTK main loop ("main"), which starts the process, dispatches    *)
(*     the _continue_process callbacks queued with GLib.idle_add, and runs *)
(*     cancel() when the Cancel button is pressed;                         *)
(*   - one thread per stage, created by _continue_process;                 *)
(*   - a worker ("worker") that cancels the process while the main loop    *)
(*     keeps running, as the shutdown dialog does.                         *)
(* Python threads interleave between any two statements, so every read of  *)
(* a field another thread writes and the use of what was read are separate *)
(* steps.  What the stages of a subclass do is abstracted to two things a  *)
(* canceled process must undo: a server call made through                  *)
(* run_command_in_toolset, and a resource that start() takes and cleanup() *)
(* gives back (a reserved toolset, a partial directory, a workspace).      *)
(***************************************************************************)
EXTENDS Naturals, Sequences

CONSTANTS
  NumStages,     \* number of stages of the process
  MaxCalls,      \* bound: commands one stage runs in the toolset
  Authorized,    \* start() was given an AuthorizationKeeper
  Cancelers,     \* the threads of Threads that cancel the process
  LateCancel,    \* the answer to the Cancel dialog may come after the process ended
  CleanupRaises  \* a stage's cleanup() may raise

Threads == {"main", "worker"}

ASSUME ProcessAssumption ==
  /\ NumStages \in Nat \ {0} /\ MaxCalls \in Nat
  /\ Cancelers \subseteq Threads
  /\ Authorized \in BOOLEAN /\ LateCancel \in BOOLEAN /\ CleanupRaises \in BOOLEAN

Stages == 1 .. NumStages

VARIABLES
  status,       \* MultiStageProcessState
  begun,        \* start() was called
  stageState,   \* MultiStageProcessStageState of each stage
  cancelEvent,  \* stages whose _cancel_event is set
  body,         \* where the thread of each stage is
  calls,        \* server calls made by each stage
  call,         \* state of the last server call of each stage
  serverCall,   \* stage.server_call: number of the call it refers to, 0 for None
  resource,     \* stages that hold what their cleanup() gives back
  idle,         \* _continue_process callbacks queued in the main loop
  pc,           \* where main and worker are
  at,           \* stage main and worker are handling in cancel() or _cleanup()
  cleaning,     \* which of them reached it from _cleanup(), not from cancel()
  joining,      \* server call they wait for in stage.cancel()
  verdict,      \* success passed to _finish()
  keeper,       \* authorization_keeper is retained by the process
  listed,       \* process is in started_processes
  reports,      \* history: arguments of complete_process, in order
  raised,       \* history: a stage's cleanup() raised
  canceled      \* history: threads that called cancel()

stageVars  == <<stageState, cancelEvent, body, calls, call, serverCall, resource>>
threadVars == <<pc, at, cleaning, joining, verdict>>
endVars    == <<keeper, listed, reports, raised>>
vars == <<status, begun, stageVars, idle, threadVars, endVars, canceled>>

Terminal == {"COMPLETED", "FAILED", "SETUP"}
Verdicts == {"COMPLETED", "FAILED"}
Outcomes == {"success", "failure"}  \* complete_process(True), complete_process(False)

Init ==
  /\ status = "SETUP" /\ begun = FALSE
  /\ stageState = [s \in Stages |-> "SCHEDULED"]
  /\ cancelEvent = {}
  /\ body = [s \in Stages |-> "none"]
  /\ calls = [s \in Stages |-> 0] /\ call = [s \in Stages |-> "none"]
  /\ serverCall = [s \in Stages |-> 0]
  /\ resource = {}
  /\ idle = 0
  /\ pc = [t \in Threads |-> "loop"] /\ at = [t \in Threads |-> 0]
  /\ cleaning = {} /\ joining = [t \in Threads |-> 0]
  /\ verdict = [t \in Threads |-> "failure"]
  /\ keeper = FALSE /\ listed = FALSE /\ reports = <<>> /\ raised = FALSE /\ canceled = {}

-----------------------------------------------------------------------------
(* The main loop: start() and _continue_process().                         *)

Goto(t, label) == pc' = [pc EXCEPT ![t] = label]

\* _finish(success) begins: _cleanup() visits the stages in reverse order.
EnterFinish(t, success) ==
  /\ pc' = [pc EXCEPT ![t] = "cleanup"]
  /\ at' = [at EXCEPT ![t] = NumStages]
  /\ cleaning' = cleaning \cup {t}
  /\ verdict' = [verdict EXCEPT ![t] = success]
  /\ UNCHANGED joining

\* start() calls _continue_process itself, without queueing it.
Start ==
  /\ pc["main"] = "loop" /\ ~begun
  /\ begun' = TRUE /\ status' = "IN_PROGRESS"
  /\ keeper' = Authorized /\ listed' = TRUE
  /\ Goto("main", "continue")
  /\ UNCHANGED <<stageVars, idle, at, cleaning, joining, verdict, reports, raised, canceled>>

\* The keeper was released meanwhile and retain() raises: start() cancels the
\* process, and the _continue_process() at its end returns early.
StartRefused ==
  /\ pc["main"] = "loop" /\ ~begun
  /\ Authorized
  /\ begun' = TRUE
  /\ Goto("main", "cancel")
  /\ UNCHANGED <<status, stageVars, idle, at, cleaning, joining, verdict, endVars, canceled>>

\* The main loop dispatches one queued callback.
Dispatch ==
  /\ pc["main"] = "loop" /\ idle > 0
  /\ idle' = idle - 1
  /\ Goto("main", "continue")
  /\ UNCHANGED <<status, begun, stageVars, at, cleaning, joining, verdict, endVars, canceled>>

\* The early return of _continue_process.
ContinueTest ==
  /\ pc["main"] = "continue"
  /\ Goto("main", IF status \in Terminal THEN "loop" ELSE "decide")
  /\ UNCHANGED <<status, begun, stageVars, idle, at, cleaning, joining, verdict, endVars, canceled>>

SomeIn(state) == \E s \in Stages : stageState[s] = state
\* s is the stage that next(... for stage in self.stages if ...) finds.
IsFirst(s, state) == stageState[s] = state /\ \A r \in 1 .. s - 1 : stageState[r] # state

\* A failed stage fails the process.
ContinueFail ==
  /\ pc["main"] = "decide"
  /\ SomeIn("FAILED")
  /\ status' = "FAILED"
  /\ EnterFinish("main", "failure")
  /\ UNCHANGED <<begun, stageVars, idle, endVars, canceled>>

\* The next scheduled stage gets a thread; the thread has not run yet.
ContinueSpawn ==
  /\ pc["main"] = "decide"
  /\ ~SomeIn("FAILED")
  /\ \E s \in Stages : IsFirst(s, "SCHEDULED") /\ body' = [body EXCEPT ![s] = "spawned"]
  /\ Goto("main", "loop")
  /\ UNCHANGED <<status, begun, stageState, cancelEvent, calls, call, serverCall, resource,
                 idle, at, cleaning, joining, verdict, endVars, canceled>>

\* Fault: only scheduled stages are looked at.
CompleteWithFailures ==
  /\ pc["main"] = "decide"
  /\ ~SomeIn("SCHEDULED")
  /\ status' = "COMPLETED"
  /\ EnterFinish("main", "success")
  /\ UNCHANGED <<begun, stageVars, idle, endVars, canceled>>

\* No stage is left.
ContinueComplete ==
  /\ pc["main"] = "decide"
  /\ ~SomeIn("FAILED") /\ ~SomeIn("SCHEDULED")
  /\ status' = "COMPLETED"
  /\ EnterFinish("main", "success")
  /\ UNCHANGED <<begun, stageVars, idle, endVars, canceled>>

-----------------------------------------------------------------------------
(* cancel() and _finish(), run by the main loop or by the worker.          *)

\* The button is shown, and the shutdown dialog acts, only on a process in
\* progress; the answer to the button's dialog can be late.
RequestCancel(t) ==
  /\ t \in Cancelers \ canceled
  /\ pc[t] = "loop" /\ begun
  /\ \/ status = "IN_PROGRESS" /\ listed
     \/ t = "main" /\ LateCancel
  /\ canceled' = canceled \cup {t}
  /\ Goto(t, "cancel")
  /\ UNCHANGED <<status, begun, stageVars, idle, at, cleaning, joining, verdict, endVars>>

CancelStatus(t) ==
  /\ pc[t] = "cancel"
  /\ status' = IF status = "IN_PROGRESS" THEN "FAILED" ELSE "SETUP"
  /\ Goto(t, "pick")
  /\ UNCHANGED <<begun, stageVars, idle, at, cleaning, joining, verdict, endVars, canceled>>

\* running_stage, the first stage found IN_PROGRESS.
CancelPick(t) ==
  /\ pc[t] = "pick"
  /\ \/ /\ \E s \in Stages : IsFirst(s, "IN_PROGRESS") /\ at' = [at EXCEPT ![t] = s]
        /\ Goto(t, "test")
        /\ cleaning' = cleaning \ {t}
        /\ UNCHANGED <<joining, verdict>>
     \/ ~SomeIn("IN_PROGRESS") /\ EnterFinish(t, "failure")
  /\ UNCHANGED <<status, begun, stageVars, idle, endVars, canceled>>

\* stage.cancel(): the test of state, and the test of _cancel_event in complete().
StageTest(t) ==
  /\ pc[t] = "test"
  /\ Goto(t, IF stageState[at[t]] = "IN_PROGRESS" /\ at[t] \notin cancelEvent THEN "publish" ELSE "reap")
  /\ UNCHANGED <<status, begun, stageVars, idle, at, cleaning, joining, verdict, endVars, canceled>>

\* complete(FAILED) on behalf of the stage.
StagePublishFailed(t) ==
  /\ pc[t] = "publish"
  /\ stageState' = [stageState EXCEPT ![at[t]] = "FAILED"]
  /\ idle' = idle + 1
  /\ Goto(t, "signal")
  /\ UNCHANGED <<status, begun, cancelEvent, body, calls, call, serverCall, resource,
                 at, cleaning, joining, verdict, endVars, canceled>>

StageSignal(t) ==
  /\ pc[t] = "signal"
  /\ cancelEvent' = cancelEvent \cup {at[t]}
  /\ Goto(t, "reap")
  /\ UNCHANGED <<status, begun, stageState, body, calls, call, serverCall, resource,
                 idle, at, cleaning, joining, verdict, endVars, canceled>>

AfterStageCancel(t) ==
  IF t \in cleaning
  THEN Goto(t, "dispose") /\ UNCHANGED <<at, cleaning, joining, verdict>>
  ELSE EnterFinish(t, "failure")

\* server_call is read once; the call it refers to is canceled and joined.
StageReap(t) ==
  LET s == at[t] IN
  /\ pc[t] = "reap"
  /\ IF serverCall[s] = 0
     THEN AfterStageCancel(t) /\ UNCHANGED call
     ELSE /\ call' = [call EXCEPT ![s] =
                        IF serverCall[s] = calls[s] /\ @ = "running" THEN "canceled" ELSE @]
          /\ joining' = [joining EXCEPT ![t] = serverCall[s]]
          /\ Goto(t, "join")
          /\ UNCHANGED <<at, cleaning, verdict>>
  /\ UNCHANGED <<status, begun, stageState, cancelEvent, body, calls, serverCall, resource,
                 idle, endVars, canceled>>

StageJoin(t) ==
  LET s == at[t] IN
  /\ pc[t] = "join"
  /\ joining[t] < calls[s] \/ call[s] = "ended"
  /\ serverCall' = [serverCall EXCEPT ![s] = IF @ = joining[t] THEN 0 ELSE @]
  /\ AfterStageCancel(t)
  /\ UNCHANGED <<status, begun, stageState, cancelEvent, body, calls, call, resource,
                 idle, endVars, canceled>>

\* Fault: only the failed stage is cleaned.
CleanupFailedOnly(t) ==
  /\ pc[t] = "cleanup"
  /\ IF at[t] = 0
     THEN Goto(t, "release") /\ UNCHANGED at
     ELSE IF stageState[at[t]] # "FAILED"
     THEN at' = [at EXCEPT ![t] = @ - 1] /\ UNCHANGED pc
     ELSE Goto(t, "test") /\ UNCHANGED at
  /\ UNCHANGED <<status, begun, stageVars, idle, cleaning, joining, verdict, endVars, canceled>>

\* _cleanup() takes the next stage; cleanup() skips a stage that is SCHEDULED.
CleanupStage(t) ==
  /\ pc[t] = "cleanup"
  /\ IF at[t] = 0
     THEN Goto(t, "release") /\ UNCHANGED at
     ELSE IF stageState[at[t]] = "SCHEDULED"
     THEN at' = [at EXCEPT ![t] = @ - 1] /\ UNCHANGED pc
     ELSE Goto(t, "test") /\ UNCHANGED at
  /\ UNCHANGED <<status, begun, stageVars, idle, cleaning, joining, verdict, endVars, canceled>>

\* Fault: the same stage is cleaned again.
CleanupAgain(t) ==
  /\ pc[t] = "dispose"
  /\ resource' = resource \ {at[t]}
  /\ Goto(t, "cleanup")
  /\ UNCHANGED <<status, begun, stageState, cancelEvent, body, calls, call, serverCall,
                 idle, at, cleaning, joining, verdict, endVars, canceled>>

\* What a subclass adds to cleanup() after calling the base method.
CleanupDispose(t) ==
  /\ pc[t] = "dispose"
  /\ resource' = resource \ {at[t]}
  /\ at' = [at EXCEPT ![t] = @ - 1]
  /\ Goto(t, "cleanup")
  /\ UNCHANGED <<status, begun, stageState, cancelEvent, body, calls, call, serverCall,
                 idle, cleaning, joining, verdict, endVars, canceled>>

\* _finish() catches the exception: stages not visited yet and the
\* authorization are left as they are.
CleanupRaise(t) ==
  /\ CleanupRaises
  /\ pc[t] = "dispose" /\ at[t] \in resource
  /\ raised' = TRUE
  /\ Goto(t, "report")
  /\ UNCHANGED <<status, begun, stageVars, idle, at, cleaning, joining, verdict,
                 keeper, listed, reports, canceled>>

ReleaseKeeper(t) ==
  /\ pc[t] = "release"
  /\ keeper' = FALSE
  /\ Goto(t, "report")
  /\ UNCHANGED <<status, begun, stageVars, idle, at, cleaning, joining, verdict,
                 listed, reports, raised, canceled>>

\* Fault: only a completed process is taken off the list.
ReportListed(t) ==
  /\ pc[t] = "report"
  /\ listed' = IF status = "COMPLETED" THEN FALSE ELSE listed
  /\ reports' = Append(reports, verdict[t])
  /\ Goto(t, "loop")
  /\ UNCHANGED <<status, begun, stageVars, idle, at, cleaning, joining, verdict, keeper, raised,
                 canceled>>

\* clean_from_started_processes() and complete_process(success).
Report(t) ==
  /\ pc[t] = "report"
  /\ listed' = IF status \in Terminal THEN FALSE ELSE listed
  /\ reports' = Append(reports, verdict[t])
  /\ Goto(t, "loop")
  /\ UNCHANGED <<status, begun, stageVars, idle, at, cleaning, joining, verdict, keeper, raised,
                 canceled>>

-----------------------------------------------------------------------------
(* The thread of stage s.                                                  *)

processVars == <<status, begun, threadVars, endVars, canceled>>
Move(s, label) == body' = [body EXCEPT ![s] = label]

\* MultiStageProcessStage.start(), which every subclass calls first.
StageStart(s) ==
  /\ body[s] = "spawned"
  /\ serverCall' = [serverCall EXCEPT ![s] = 0]
  /\ cancelEvent' = cancelEvent \ {s}
  /\ stageState' = [stageState EXCEPT ![s] = "IN_PROGRESS"]
  /\ Move(s, "work")
  /\ UNCHANGED <<calls, call, resource, idle, processVars>>

StageAcquire(s) ==
  /\ body[s] = "work" /\ s \notin resource
  /\ resource' = resource \cup {s}
  /\ UNCHANGED <<stageState, cancelEvent, body, calls, call, serverCall, idle, processVars>>

\* run_command_in_toolset(): toolset.run_command returns a call that runs.
CallMade(s) ==
  /\ body[s] = "work" /\ calls[s] < MaxCalls
  /\ calls' = [calls EXCEPT ![s] = @ + 1]
  /\ call' = [call EXCEPT ![s] = "running"]
  /\ Move(s, "calling")
  /\ UNCHANGED <<stageState, cancelEvent, serverCall, resource, idle, processVars>>

CallAssigned(s) ==
  /\ body[s] = "calling"
  /\ serverCall' = [serverCall EXCEPT ![s] = calls[s]]
  /\ Move(s, "joining")
  /\ UNCHANGED <<stageState, cancelEvent, calls, call, resource, idle, processVars>>

\* The command exits, or the helper has terminated it and answers.
CallEnds(s) ==
  /\ call[s] \in {"running", "canceled"}
  /\ call' = [call EXCEPT ![s] = "ended"]
  /\ UNCHANGED <<stageState, cancelEvent, body, calls, serverCall, resource, idle, processVars>>

CallJoined(s) ==
  /\ body[s] = "joining" /\ call[s] = "ended"
  /\ serverCall' = [serverCall EXCEPT ![s] = IF @ = calls[s] THEN 0 ELSE @]
  /\ Move(s, "work")
  /\ UNCHANGED <<stageState, cancelEvent, calls, call, resource, idle, processVars>>

\* toolset.run_command raises: complete(FAILED) in the except block.
CallRaises(s) ==
  /\ body[s] = "work"
  /\ Move(s, IF s \in cancelEvent THEN "unwinding" ELSE "raising")
  /\ UNCHANGED <<stageState, cancelEvent, calls, call, serverCall, resource, idle, processVars>>

\* Fault: the continuation is queued by _update_state and by complete().
PublishTwice(s, state, label) ==
  /\ stageState' = [stageState EXCEPT ![s] = state]
  /\ idle' = idle + 2
  /\ Move(s, label)
  /\ UNCHANGED <<cancelEvent, calls, call, serverCall, resource, processVars>>

\* _update_state(state), then GLib.idle_add(_continue_process).
Publish(s, state, label) ==
  /\ stageState' = [stageState EXCEPT ![s] = state]
  /\ idle' = idle + 1
  /\ Move(s, label)
  /\ UNCHANGED <<cancelEvent, calls, call, serverCall, resource, processVars>>

PublishRaised(s) == body[s] = "raising" /\ Publish(s, "FAILED", "unwinding")

\* The stage reports its result; complete() first tests _cancel_event.  A
\* stage whose command raised gets False from it and reports a failure.
Complete(s, state) ==
  /\ body[s] = "work" \/ (body[s] = "unwinding" /\ state = "FAILED")
  /\ Move(s, IF s \in cancelEvent THEN "done" ELSE state)
  /\ UNCHANGED <<stageState, cancelEvent, calls, call, serverCall, resource, idle, processVars>>

PublishResult(s) == body[s] \in Verdicts /\ Publish(s, body[s], "done")

-----------------------------------------------------------------------------

MainStep == Dispatch \/ ContinueTest \/ ContinueFail \/ ContinueSpawn \/ ContinueComplete

CancelStep(t) ==
  \/ CancelStatus(t) \/ CancelPick(t) \/ StageTest(t) \/ StagePublishFailed(t)
  \/ StageSignal(t) \/ StageReap(t) \/ StageJoin(t)

FinishStep(t) ==
  CleanupStage(t) \/ CleanupDispose(t) \/ CleanupRaise(t) \/ ReleaseKeeper(t) \/ Report(t)

StageStep(s) ==
  \/ StageStart(s) \/ StageAcquire(s) \/ CallMade(s) \/ CallAssigned(s) \/ CallJoined(s)
  \/ CallRaises(s) \/ PublishRaised(s) \/ PublishResult(s)
  \/ \E state \in Verdicts : Complete(s, state)

Next ==
  \/ Start \/ StartRefused \/ MainStep
  \/ \E t \in Threads : RequestCancel(t) \/ CancelStep(t) \/ FinishStep(t)
  \/ \E s \in Stages : StageStep(s) \/ CallEnds(s)

\* A command nobody canceled exits by itself.
CommandExits(s) == call[s] = "running" /\ CallEnds(s)

\* The main loop keeps dispatching, a thread that can run is run, and a
\* command exits.  Nobody has to start or cancel the process, and the helper
\* may never answer a call that was canceled.
Fairness ==
  /\ WF_vars(MainStep)
  /\ \A t \in Threads : WF_vars(CancelStep(t) \/ FinishStep(t))
  /\ \A s \in Stages : WF_vars(StageStep(s)) /\ WF_vars(CommandExits(s))

Spec == Init /\ [][Next]_vars /\ Fairness

-----------------------------------------------------------------------------
(* Properties.                                                             *)

ProcessTypeOK ==
  /\ status \in {"IN_PROGRESS"} \cup Terminal
  /\ begun \in BOOLEAN /\ keeper \in BOOLEAN /\ listed \in BOOLEAN /\ raised \in BOOLEAN
  /\ idle \in Nat
  /\ reports \in Seq(Outcomes)
  /\ canceled \subseteq Threads

StageTypeOK ==
  /\ stageState \in [Stages -> {"SCHEDULED", "IN_PROGRESS"} \cup Verdicts]
  /\ body \in [Stages -> {"none", "spawned", "work", "calling", "joining", "raising",
                         "unwinding", "done"} \cup Verdicts]
  /\ calls \in [Stages -> Nat] /\ serverCall \in [Stages -> Nat]
  /\ call \in [Stages -> {"none", "running", "canceled", "ended"}]
  /\ cancelEvent \subseteq Stages /\ resource \subseteq Stages

ThreadTypeOK ==
  /\ pc \in [Threads -> {"loop", "continue", "decide", "cancel", "pick", "test", "publish",
                         "signal", "reap", "join", "cleanup", "dispose", "release", "report"}]
  /\ at \in [Threads -> 0 .. NumStages]
  /\ cleaning \subseteq Threads
  /\ joining \in [Threads -> Nat]
  /\ verdict \in [Threads -> Outcomes]

TypeOK == ProcessTypeOK /\ StageTypeOK /\ ThreadTypeOK

Active(s) == body[s] \notin {"none", "done"}

\* Never do two stages of a process run at the same time, however many
\* continuations completions, failures and cancellations have queued.
OneStageAtATime == \A s, r \in Stages : Active(s) /\ Active(r) => s = r

\* A stage has a thread only when every stage before it has completed, also
\* when the process is canceled around the moment the thread is created.
StagesInOrder == \A s \in Stages : body[s] # "none" =>
                    \A r \in 1 .. s - 1 : stageState[r] = "COMPLETED"

\* complete_process(True) is called only for a process whose stages have all
\* completed and whose threads have all returned.
SuccessIsWhole == \A i \in DOMAIN reports : reports[i] = "success" =>
                    \A s \in Stages : stageState[s] = "COMPLETED" /\ body[s] = "done"

\* A process nobody canceled has undone what it did when it reports: it is
\* not listed and no command of its stages runs, and unless a cleanup raised
\* nothing they took is held and the authorization is given back.
NothingLeftBehind ==
  reports # <<>> /\ canceled = {} =>
    /\ ~listed /\ \A s \in Stages : call[s] \notin {"running", "canceled"}
    /\ ~raised => ~keeper /\ resource = {}

\* No stage is given a thread once the process has left IN_PROGRESS (when
\* only the main loop cancels it).
NoStageAfterEnd ==
  [][\A s \in Stages : body[s] = "none" /\ body'[s] # "none" => status = "IN_PROGRESS"]_vars

\* The result reported first, and what is listed and authorized, are those
\* of the abstract process.
Phase == IF ~begun THEN "setup" ELSE IF reports = <<>> THEN "running"
           ELSE IF Head(reports) = "success" THEN "succeeded" ELSE "failed"

\* t waits in stage.cancel() for a canceled call that has no answer.
AwaitsAnswer(t) == pc[t] = "join" /\ call[at[t]] = "canceled"

\* A thread that cancels a process gets back from cancel(), unless a call it
\* canceled is never answered: nothing else keeps it there forever.
CancelReturns ==
  \A t \in Threads : pc[t] = "cancel" ~> (pc[t] = "loop" \/ []AwaitsAnswer(t))

-----------------------------------------------------------------------------
(* What the fields, stages and threads of a process say about each other:  *)
(* an inductive invariant.                                                 *)

BeforeStart == ~begun =>
  /\ idle = 0 /\ reports = <<>> /\ status = "SETUP" /\ ~keeper
  /\ \A t \in Threads : pc[t] = "loop" /\ verdict[t] = "failure"
  /\ \A s \in Stages : body[s] = "none"

\* The state of a stage agrees with where its thread is.
StageAgrees == \A s \in Stages :
  /\ body[s] \in {"none", "spawned"} <=> stageState[s] = "SCHEDULED"
  /\ body[s] = "done" => stageState[s] \in Verdicts
  /\ body[s] = "unwinding" => stageState[s] # "IN_PROGRESS"
  /\ Active(s) => stageState[s] # "COMPLETED"
  /\ s \in cancelEvent => stageState[s] \in Verdicts

\* Once somebody cancels or finishes the process its status has left
\* IN_PROGRESS, and only the main loop continues it.
EndingIsFinal ==
  /\ \A t \in Threads :
       pc[t] \notin {"loop", "continue", "decide", "cancel"} => status # "IN_PROGRESS"
  /\ pc["worker"] \notin {"continue", "decide"}

\* The stage somebody cancels or cleans was started.
HandlesStarted == \A t \in Threads :
  /\ pc[t] \in {"test", "publish", "signal", "reap", "join", "dispose"} =>
       at[t] \in Stages /\ stageState[at[t]] # "SCHEDULED"
  /\ pc[t] = "signal" => stageState[at[t]] \in Verdicts

\* A failure is published for the last stage that has a thread, and not
\* between the test and the decision of a continuation.
PublishesLast == \A t \in Threads : pc[t] = "publish" =>
  pc["main"] # "decide" /\ \A s \in at[t] + 1 .. NumStages : body[s] = "none"

\* No thread is at work, but for one that has already reported a failure.
Settled == \A s \in Stages :
  Active(s) => stageState[s] = "FAILED" /\ body[s] \in {"unwinding", "FAILED"}

\* A continuation, queued or running, that can still create a thread.
Continuing ==
  pc["main"] = "decide" \/ (status = "IN_PROGRESS" /\ (pc["main"] = "continue" \/ idle > 0))
ContinuationIsToken ==
  /\ Continuing => Settled
  /\ (pc["main"] = "decide" \/ status = "IN_PROGRESS") /\ ~SomeIn("FAILED") =>
       idle <= 1 /\ (pc["main"] \in {"continue", "decide"} => idle = 0)

\* A failure already visible while the process can continue stays visible.
FailureStays == pc["main"] = "decide" \/ status = "IN_PROGRESS" =>
  \A s \in Stages : stageState[s] = "FAILED" => body[s] \in {"unwinding", "FAILED", "done"}

AllDone == \A s \in Stages : stageState[s] = "COMPLETED" /\ body[s] = "done"
SuccessAgrees ==
  (\E t \in Threads : verdict[t] = "success") \/ (\E i \in DOMAIN reports : reports[i] = "success") =>
    AllDone /\ \A t \in Threads : pc[t] # "publish"

Inv ==
  /\ TypeOK /\ BeforeStart /\ StageAgrees /\ EndingIsFinal /\ HandlesStarted
  /\ PublishesLast /\ ContinuationIsToken /\ FailureStays /\ SuccessAgrees
  /\ OneStageAtATime /\ StagesInOrder
=============================================================================
