------------------------- MODULE MCMultiStageProcess -------------------------
(* Two uses of a process in one run: one only the main loop cancels, also  *)
(* after it ended, and one a worker thread cancels too, while a cleanup    *)
(* may raise.  The choice is made at the start.                            *)
EXTENDS MultiStageProcess

VARIABLE canceler

mcvars == <<vars, canceler>>

Worker == INSTANCE MultiStageProcess
  WITH MaxCalls <- 0, Cancelers <- {"main", "worker"}, LateCancel <- FALSE, CleanupRaises <- TRUE

MCInit ==
  \/ canceler = "main" /\ Init
  \/ canceler = "worker" /\ Worker!Init

MCNext ==
  \/ canceler = "main" /\ UNCHANGED canceler /\ Next
  \/ canceler = "worker" /\ UNCHANGED canceler /\ Worker!Next

Main == canceler = "main"

MCSpec ==
  /\ MCInit /\ [][MCNext]_mcvars
  /\ WF_vars(IF Main THEN MainStep ELSE Worker!MainStep)
  /\ \A t \in Threads :
       WF_vars(IF Main THEN CancelStep(t) \/ FinishStep(t)
                 ELSE Worker!CancelStep(t) \/ Worker!FinishStep(t))
  /\ \A s \in Stages : WF_vars(IF Main THEN StageStep(s) ELSE Worker!StageStep(s))
                       /\ WF_vars(IF Main THEN CommandExits(s) ELSE Worker!CommandExits(s))

MainLifecycle == INSTANCE ProcessLifecycle WITH
  phase <- IF Main THEN Phase ELSE "setup",
  authorized <- Main /\ keeper, listed <- Main /\ listed,
  held <- \E t \in Threads : AwaitsAnswer(t)
\* The process is one of ProcessLifecycle: what it reports, lists and retains.
LifecycleOfMain == MainLifecycle!Spec

=============================================================================
