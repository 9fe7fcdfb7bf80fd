----------------------------- MODULE BuildQueue -----------------------------
(***************************************************************************)
(* BuildQueue (src/objects/project/build_queue.py) with what it works on:  *)
(* started_processes of MultiStageProcess as far as project builds are in  *)
(* it, start_project_build(), and the wizard that starts or queues a build.*)
(* Everything here runs in the GTK main loop, but for the authorization    *)
(* and the threads of builds: what interleaves are the handlers, the timers*)
(* and the callbacks that emit() and the threads queue with GLib.idle_add, *)
(* which run in the order they were queued.  A request for a build has an  *)
(* id, and is called a build once it is in started_processes.              *)
(***************************************************************************)
EXTENDS Naturals, Sequences, SequencesExt

CONSTANTS
  Projects,        \* the projects
  MaxRequests,     \* bound: builds requested
  Authorizes,      \* builds need the root helper, its authorization can be declined
  Prompt,          \* queued callbacks run before a timer is due and before the user acts
  PauseOnFailure   \* Settings.pause_queue_on_failure

ASSUME QueueAssumption == MaxRequests \in Nat /\ Authorizes \in BOOLEAN

VARIABLES
  entries,   \* entries: queued requests
  paused,    \* paused
  checking,  \* _check_scheduled: a timer calls _check
  retrying,  \* a timer of _schedule_check_later is running
  made,      \* requests made so far, the id of the latest
  pending,   \* requests that wait for authorization, in another thread
  idle,      \* callbacks queued in the main loop
  started,   \* project builds in started_processes, with _observed and what is handled
  previews,  \* queued requests whose preview files exist
  taken,     \* the toolset is reserved by an operation other than a build
  held       \* history: a build has failed that the queue may not continue after

vars == <<entries, paused, checking, retrying, made, pending, idle, started, previews, taken, held>>

Requests == [id : 1 .. MaxRequests, project : Projects, queued : BOOLEAN]
Statuses == {"IN_PROGRESS", "COMPLETED", "FAILED"}

Init ==
  /\ entries = <<>> /\ paused = FALSE /\ checking = FALSE /\ retrying = FALSE
  /\ made = 0 /\ pending = {} /\ idle = <<>> /\ started = <<>> /\ previews = {}
  /\ taken = FALSE /\ held = FALSE

-----------------------------------------------------------------------------

Running(i) == started[i].status = "IN_PROGRESS"
\* running_build(), as an index: the first build in progress.
IsRunningBuild(i) == Running(i) /\ \A j \in 1 .. i - 1 : ~Running(j)
SomeRunning == \E i \in DOMAIN started : Running(i)

\* The callbacks that the main loop has queued before are run first.
Ready == Prompt => idle = <<>>

Callback(name) == [call |-> name]
Queued(name, request) == [call |-> name, request |-> request]

\* The callbacks that a change of status of build i and of the list queue.
Announce(i) ==
  IF started[i].observed THEN <<Callback("state"), Callback("processes")>>
  ELSE <<Callback("processes")>>

\* start_project_build().
StartProjectBuild(request) ==
  IF Authorizes
  THEN pending' = pending \cup {request} /\ UNCHANGED idle
  ELSE idle' = Append(idle, Queued("start", request)) /\ UNCHANGED pending

-----------------------------------------------------------------------------
(* The user.                                                               *)

Request(p, queued) == [id |-> made + 1, project |-> p, queued |-> queued]
IsQueued(p) == \E i \in DOMAIN entries : entries[i].project = p
IsBuilt(p) == \E i \in DOMAIN started : IsRunningBuild(i) /\ started[i].project = p

\* The wizard is confirmed while a build runs: add().
Add(p) ==
  /\ Ready /\ made < MaxRequests
  /\ SomeRunning
  /\ ~IsBuilt(p) /\ ~IsQueued(p)
  /\ made' = made + 1
  /\ entries' = Append(entries, Request(p, TRUE))
  /\ previews' = previews \cup {made + 1}
  /\ checking' = TRUE
  /\ UNCHANGED <<paused, retrying, pending, idle, started, taken, held>>

\* The wizard is confirmed while no build runs.  No wizard is opened for a
\* project that is queued, and none starts while its toolset is reserved.
Build(p) ==
  /\ Ready /\ made < MaxRequests
  /\ ~SomeRunning /\ ~IsQueued(p) /\ ~taken
  /\ made' = made + 1
  /\ StartProjectBuild(Request(p, FALSE))
  /\ UNCHANGED <<entries, paused, checking, retrying, started, previews, taken, held>>

\* Fault: the files of the entry are kept.
RemoveEntryOnly(i) ==
  /\ Ready
  /\ entries' = RemoveAt(entries, i)
  /\ checking' = TRUE
  /\ held' = (held /\ Len(entries) > 1)
  /\ UNCHANGED <<paused, retrying, made, pending, idle, started, previews, taken>>

RemoveEntry(i) ==
  /\ Ready
  /\ entries' = RemoveAt(entries, i)
  /\ previews' = previews \ {entries[i].id}
  /\ checking' = TRUE
  /\ held' = (held /\ Len(entries) > 1)
  /\ UNCHANGED <<paused, retrying, made, pending, idle, started, taken>>

\* move() by one place; the other offsets are several of these.
Move(i) ==
  /\ Ready /\ i < Len(entries)
  /\ entries' = [entries EXCEPT ![i] = entries[i + 1], ![i + 1] = entries[i]]
  /\ checking' = TRUE
  /\ UNCHANGED <<paused, retrying, made, pending, idle, started, previews, taken, held>>

QueuedIds == {entries[i].id : i \in DOMAIN entries}

Clear ==
  /\ Ready /\ entries # <<>>
  /\ entries' = <<>> /\ previews' = previews \ QueuedIds
  /\ checking' = TRUE /\ held' = FALSE
  /\ UNCHANGED <<paused, retrying, made, pending, idle, started, taken>>

\* Fault: no check is scheduled.
StartSilently ==
  /\ Ready /\ paused
  /\ paused' = FALSE /\ held' = FALSE
  /\ UNCHANGED <<entries, checking, retrying, made, pending, idle, started, previews, taken>>

Start ==
  /\ Ready /\ paused
  /\ paused' = FALSE /\ held' = FALSE
  /\ checking' = TRUE
  /\ UNCHANGED <<entries, retrying, made, pending, idle, started, previews, taken>>

Pause ==
  /\ Ready /\ ~paused
  /\ paused' = TRUE /\ checking' = TRUE
  /\ UNCHANGED <<entries, retrying, made, pending, idle, started, previews, taken, held>>

\* cancel() of a build: it is failed, removed from the list and finished.
CancelBuild(i) ==
  /\ Ready /\ Running(i)
  /\ started' = RemoveAt(started, i)
  /\ idle' = idle \o Announce(i)
  /\ previews' = previews \ {started[i].id}
  /\ UNCHANGED <<entries, paused, checking, retrying, made, pending, taken, held>>

\* The execution view of a failed build is finished with.  A failure that the
\* queue has not paused for is the user's own from then on.
Dismiss(i) ==
  /\ Ready /\ started[i].status = "FAILED"
  /\ started' = RemoveAt(started, i)
  /\ idle' = Append(idle, Callback("processes"))
  /\ held' = (held /\ paused)
  /\ UNCHANGED <<entries, paused, checking, retrying, made, pending, previews, taken>>

-----------------------------------------------------------------------------
(* Timers.                                                                 *)

Fires == checking /\ Ready

CheckNothing ==
  /\ Fires
  /\ paused \/ entries = <<>> \/ SomeRunning
  /\ checking' = FALSE
  /\ UNCHANGED <<entries, paused, retrying, made, pending, idle, started, previews, taken, held>>

CanContinue == Fires /\ ~paused /\ entries # <<>> /\ ~SomeRunning

\* The project was removed, or all stages that were to be built.
CheckSkips ==
  /\ CanContinue
  /\ entries' = Tail(entries) /\ previews' = previews \ {Head(entries).id}
  /\ checking' = TRUE
  /\ held' = (held /\ Len(entries) > 1)
  /\ UNCHANGED <<paused, retrying, made, pending, idle, started, taken>>

\* The toolset or the runner can't be used, or the project has an error.
CheckPauses ==
  /\ CanContinue
  /\ paused' = TRUE
  /\ checking' = TRUE
  /\ UNCHANGED <<entries, retrying, made, pending, idle, started, previews, taken, held>>

\* Fault: the toolset is not looked at again.
CheckGivesUp ==
  /\ CanContinue /\ taken
  /\ checking' = FALSE
  /\ UNCHANGED <<entries, paused, retrying, made, pending, idle, started, previews, taken, held>>

CheckWaits ==
  /\ CanContinue /\ taken
  /\ checking' = FALSE /\ retrying' = TRUE
  /\ UNCHANGED <<entries, paused, made, pending, idle, started, previews, taken, held>>

\* The check that _changed() schedules may fire before the build has started.
CheckStarts ==
  /\ CanContinue /\ ~taken
  /\ StartProjectBuild(Head(entries))
  /\ entries' = Tail(entries)
  /\ checking' = TRUE
  /\ held' = (held /\ Len(entries) > 1)
  /\ UNCHANGED <<paused, retrying, made, started, previews, taken>>

Retry ==
  /\ retrying /\ Ready
  /\ retrying' = FALSE /\ checking' = TRUE
  /\ UNCHANGED <<entries, paused, made, pending, idle, started, previews, taken, held>>

-----------------------------------------------------------------------------
(* Callbacks queued in the main loop.                                      *)

IsNext(name) == idle # <<>> /\ Head(idle).call = name

OnProcessesChanged ==
  /\ IsNext("processes")
  /\ started' = [i \in DOMAIN started |->
                   IF IsRunningBuild(i) THEN [started[i] EXCEPT !.observed = TRUE] ELSE started[i]]
  /\ checking' = TRUE
  /\ idle' = Tail(idle)
  /\ UNCHANGED <<entries, paused, retrying, made, pending, previews, taken, held>>

Failed(i) == started[i].observed /\ started[i].status = "FAILED"
\* The build that next(... started_processes if ...) finds is not handled yet.
HasFailure(i) == Failed(i) /\ (\A j \in 1 .. i - 1 : ~Failed(j)) /\ ~started[i].handled

\* Fault: the failure is handled, the queue goes on.
FailureIgnored ==
  /\ IsNext("state")
  /\ started' = [i \in DOMAIN started |->
                   IF HasFailure(i) THEN [started[i] EXCEPT !.handled = TRUE] ELSE started[i]]
  /\ checking' = TRUE
  /\ idle' = Tail(idle)
  /\ UNCHANGED <<entries, paused, retrying, made, pending, previews, taken, held>>

OnBuildStateChanged ==
  /\ IsNext("state")
  /\ started' = [i \in DOMAIN started |->
                   IF HasFailure(i) THEN [started[i] EXCEPT !.handled = TRUE] ELSE started[i]]
  /\ paused' = (paused \/ (PauseOnFailure /\ entries # <<>> /\ \E i \in DOMAIN started : HasFailure(i)))
  /\ checking' = TRUE
  /\ idle' = Tail(idle)
  /\ UNCHANGED <<entries, retrying, made, pending, previews, taken, held>>

\* start() of start_project_build: the build is in the list, and in progress.
BuildStarts ==
  /\ IsNext("start")
  /\ LET r == Head(idle).request IN
     started' = Append(started, [id |-> r.id, project |-> r.project, queued |-> r.queued,
                                 status |-> "IN_PROGRESS", observed |-> FALSE, handled |-> FALSE])
  /\ idle' = Append(Tail(idle), Callback("processes"))
  /\ UNCHANGED <<entries, paused, checking, retrying, made, pending, previews, taken, held>>

\* The build could not be started, or authorization was declined: started(None).
BuildDoesNotStart ==
  /\ IsNext("start") \/ IsNext("declined")
  /\ LET r == Head(idle).request IN
     IF r.queued
     THEN /\ previews' = previews \ {r.id}
          /\ paused' = TRUE /\ checking' = TRUE
     ELSE UNCHANGED <<previews, paused, checking>>
  /\ idle' = Tail(idle)
  /\ UNCHANGED <<entries, retrying, made, pending, started, taken, held>>

\* _continue_process of a build whose steps have all finished.  A failed
\* build stays in the list.
BuildEnds ==
  LET id == Head(idle).id
      ends(i) == started[i].id = id /\ Running(i)
      fails == Head(idle).status = "FAILED"
  IN
  /\ IsNext("end")
  /\ \/ /\ ~\E i \in DOMAIN started : ends(i)
        /\ idle' = Tail(idle)
        /\ UNCHANGED <<started, previews, held>>
     \/ \E i \in DOMAIN started :
          /\ ends(i)
          /\ started' = IF fails THEN [started EXCEPT ![i].status = "FAILED"] ELSE RemoveAt(started, i)
          /\ idle' = Tail(idle) \o Announce(i)
          /\ previews' = previews \ {id}
          /\ held' = (held \/ (fails /\ PauseOnFailure /\ entries # <<>>))
  /\ UNCHANGED <<entries, paused, checking, retrying, made, pending, taken>>

-----------------------------------------------------------------------------
(* Other threads.                                                          *)

\* authorize_and_run() of the root helper answers.
Authorized(r) ==
  /\ pending' = pending \ {r}
  /\ \E answer \in {"start", "declined"} : idle' = Append(idle, Queued(answer, r))
  /\ UNCHANGED <<entries, paused, checking, retrying, made, started, previews, taken, held>>

\* The last step of a build completes: its continuation is queued.
StepsEnd(i) ==
  /\ Running(i)
  /\ ~\E n \in DOMAIN idle : idle[n].call = "end" /\ idle[n].id = started[i].id
  /\ \E status \in {"COMPLETED", "FAILED"} :
       idle' = Append(idle, [call |-> "end", id |-> started[i].id, status |-> status])
  /\ UNCHANGED <<entries, paused, checking, retrying, made, pending, started, previews, taken, held>>

\* Another operation reserves the toolset, or releases it.
OtherOperation ==
  /\ taken' = ~taken
  /\ UNCHANGED <<entries, paused, checking, retrying, made, pending, idle, started, previews, held>>

-----------------------------------------------------------------------------

User ==
  \/ \E p \in Projects : Add(p) \/ Build(p)
  \/ \E i \in DOMAIN entries : RemoveEntry(i) \/ Move(i)
  \/ Clear \/ Start \/ Pause
  \/ \E i \in DOMAIN started : CancelBuild(i) \/ Dismiss(i)

Check == CheckNothing \/ CheckSkips \/ CheckPauses \/ CheckWaits \/ CheckStarts

Dispatch ==
  \/ OnProcessesChanged \/ OnBuildStateChanged \/ BuildStarts \/ BuildDoesNotStart \/ BuildEnds

Next ==
  \/ User \/ Check \/ Retry \/ Dispatch \/ OtherOperation
  \/ \E r \in pending : Authorized(r)
  \/ \E i \in DOMAIN started : StepsEnd(i)

\* Timers fire, callbacks are dispatched, authorization is answered and
\* builds end; a due timer goes before any callback that is queued, so it is
\* not starved.  The user and other operations owe nothing.
Fairness ==
  /\ SF_vars(Check) /\ SF_vars(Retry) /\ WF_vars(Dispatch)
  /\ WF_vars(\E r \in pending : Authorized(r))
  /\ WF_vars(\E i \in DOMAIN started : StepsEnd(i))

Spec == Init /\ [][Next]_vars /\ Fairness

-----------------------------------------------------------------------------
(* Properties.                                                             *)

Callbacks ==
  {Callback("processes"), Callback("state")}
    \cup [call : {"start", "declined"}, request : Requests]
    \cup [call : {"end"}, id : 1 .. MaxRequests, status : {"COMPLETED", "FAILED"}]

Builds == [id : 1 .. MaxRequests, project : Projects, queued : BOOLEAN,
           status : {"IN_PROGRESS", "FAILED"}, observed : BOOLEAN, handled : BOOLEAN]

TypeOK ==
  /\ entries \in Seq(Requests) /\ pending \subseteq Requests
  /\ paused \in BOOLEAN /\ checking \in BOOLEAN /\ retrying \in BOOLEAN
  /\ taken \in BOOLEAN /\ held \in BOOLEAN
  /\ made \in 0 .. MaxRequests /\ previews \subseteq 1 .. MaxRequests
  /\ idle \in Seq(Callbacks) /\ started \in Seq(Builds)

\* The queue is never stuck: when it could start the next build, a timer or
\* a callback is on its way that makes it look.
Wakes == \E n \in DOMAIN idle : idle[n].call \in {"processes", "state"}
NeverStuck == entries # <<>> /\ ~paused /\ ~SomeRunning => checking \/ retrying \/ Wakes

\* The requests that were started, or are about to be.
Asked ==
  {r.id : r \in pending}
    \cup {idle[n].request.id : n \in {m \in DOMAIN idle : idle[m].call \in {"start", "declined"}}}
    \cup {started[i].id : i \in {j \in DOMAIN started : Running(j)}}

\* Preview files belong to a build that is queued, about to start or in
\* progress; a queued build has its files.
PreviewsOwned == QueuedIds \subseteq previews /\ previews \subseteq QueuedIds \cup Asked

\* A queued build is started, removed, or held back by a pause, if other
\* operations leave the toolset alone at last.
EntryIsHandled ==
  <>[]~taken => \A n \in 1 .. MaxRequests : n \in QueuedIds ~> (n \notin QueuedIds \/ paused)

\* A failure the queue is not told of, or not yet: the news of it is queued
\* while a timer that is due comes first (line 168), the build was not observed
\* when it failed (line 149), or another failed build is found before it
\* (line 156).
Untold ==
  \/ \E n \in DOMAIN idle : idle[n].call = "state"
  \/ \E i \in DOMAIN started : started[i].status = "FAILED" /\ ~started[i].observed
  \/ \E i, j \in DOMAIN started : j < i /\ Failed(j) /\ Failed(i) /\ ~started[i].handled

\* build_queue.py:160: the queue continues after a failed build only when
\* settings allow.  No queued build starts until the user starts the queue or
\* dismisses the failure, but in the cases where the queue does not know of it.
FailureHoldsQueue == [][held /\ ~Untold => QueuedIds \cap Asked' = {}]_vars
=============================================================================
