----------------------------- MODULE MCVMRunner -----------------------------
(* One run for two uses of the machine: by two operations, the button of   *)
(* its view and the app that quits, while nothing refreshes the status;    *)
(* and by one operation and the button, while the view refreshes it.       *)
EXTENDS VMRunner

VARIABLE viewed  \* the view of the machine is open

mcvars == <<vars, viewed>>

Viewed == INSTANCE VMRunner WITH Refreshes <- TRUE

MCInit == viewed \in BOOLEAN /\ Init

MCNext ==
  \/ ~viewed /\ Next /\ UNCHANGED viewed
  \/ viewed /\ Viewed!Next /\ UNCHANGED viewed /\ pc'["quit"] = "idle" /\ pc'["op2"] = "idle"

MCSpec ==
  /\ MCInit /\ [][MCNext]_mcvars
  /\ WF_vars(~viewed /\ \E t \in Threads : TakeLock(t) \/ TakeWorkspaceLock(t) \/ Proceed(t))
  /\ WF_vars(~viewed /\ TimerDue) /\ WF_vars(~viewed /\ StopIfIdle)

\* While only threads that hold _lock set the status, it is honest.  Locks
\* are taken in order, whether the view is open or not.
UnseenHonest == IF viewed THEN Viewed!LockOrder ELSE StatusHonest /\ LockOrder

\* A machine that operations started and use no more is stopped at last.
UnusedIsStopped ==
  ~viewed /\ auto /\ Unused ~> vm = "Stopped" \/ ~Unused \/ \E t \in Threads : Starts(t) /\ back[t] = "start"
=============================================================================
