----------------------------- MODULE RootHelper -----------------------------
(***************************************************************************)
(* The privileged helper: RootHelperClient in the app and RootHelperServer,*)
(* a process of root that the client starts through pkexec and talks to    *)
(* over a socket (src/objects/root_helper/).  Operations authorize, keep   *)
(* the authorization while they need it and call root functions, each in a *)
(* job of the server with a child process; the helper is stopped when      *)
(* nothing uses it, by the user, or with an error of any call.             *)
(***************************************************************************)
EXTENDS Naturals, FiniteSets

CONSTANTS
  Operations,  \* threads that authorize and call one root function each
  Manual,      \* those of the button "Enable root access", without a call
  MaxServers,  \* bound: processes of the server that are started
  Disables,    \* the user may press "Disable root access", once
  Crashes      \* a process of the server may die by itself

Servers == 1 .. MaxServers
User == <<"user", "user">>
Worker(o) == <<"worker", o>>
Thread(o) == <<"thread", o>>
Stoppers == {Worker(o) : o \in Operations} \cup {Thread(o) : o \in Operations} \cup {User}

ASSUME RootHelperAssumption ==
  /\ IsFiniteSet(Operations) /\ Manual \subseteq Operations
  /\ MaxServers \in Nat /\ Disables \in BOOLEAN /\ Crashes \in BOOLEAN
  /\ "none" \notin Operations

VARIABLES
  running,   \* is_server_process_running
  token,     \* the server whose token the client has, or 0
  actions,   \* running_actions
  lock,      \* whose worker holds set_request_status_lock, or "none"
  keepers,   \* authorization_keepers, by operation
  pc,        \* where each operation is
  mine,      \* the server that an operation has started
  call,      \* the worker of the call of an operation
  stop,      \* where a thread is in stop_root_helper()
  exit,      \* the worker of the EXIT that it sends, with its token
  sock,      \* the server whose socket has the file, or 0
  srv,       \* state of each process of the server
  conn,      \* the server that has the connection of a call, or 0
  job,       \* the thread of a call's job
  marked,    \* mark_terminated of a job
  cleanup,   \* its cleanup_thread
  reply,     \* the server has sent the result of a call
  canceled,  \* a call was canceled
  pressed    \* the user has disabled root access

client == <<running, token, actions, lock, keepers, pc, mine, call, stop, exit, pressed>>
server == <<sock, srv, conn, job, marked, cleanup, reply>>
vars == <<client, server, canceled>>

Call(o) == <<"call", o>>
Handshake(o) == <<"handshake", o>>
Exit(t) == <<"exit", t>>

Init ==
  /\ running = FALSE /\ token = 0 /\ actions = {} /\ lock = "none" /\ keepers = {}
  /\ pc = [o \in Operations |-> "idle"] /\ mine = [o \in Operations |-> 0]
  /\ call = [o \in Operations |-> "none"]
  /\ stop = [t \in Stoppers |-> "none"]
  /\ exit = [t \in Stoppers |-> [at |-> "none", token |-> 0]]
  /\ sock = 0 /\ srv = [s \in Servers |-> "none"]
  /\ conn = [o \in Operations |-> 0] /\ job = [o \in Operations |-> "none"]
  /\ marked = [o \in Operations |-> FALSE] /\ cleanup = [o \in Operations |-> "none"]
  /\ reply = [o \in Operations |-> FALSE]
  /\ canceled = [o \in Operations |-> FALSE] /\ pressed = FALSE

Go(o, place) == pc' = [pc EXCEPT ![o] = place]
Free(t) == lock = "none" \/ t = Worker(lock)
Answers(s) == s # 0 /\ srv[s] \in {"up", "stopping", "cleaned"}

\* ensure_server_ready(), without a start.
Ready == running /\ sock # 0

\* stop_root_helper(instant=True), with clean_unfinished_jobs(): the server is
\* told nothing.
StopInstantly ==
  IF running THEN running' = FALSE /\ token' = 0 /\ actions' = {}
             ELSE UNCHANGED <<running, token, actions>>

-----------------------------------------------------------------------------
(* Authorization: authorize_and_run(), start_root_helper().                *)

Authorize(o) ==
  /\ pc[o] = "idle" /\ (running \/ lock = "none")
  /\ Go(o, IF running THEN IF sock # 0 THEN "complete" ELSE "refused"
                     ELSE IF actions = {} THEN "launch" ELSE "refused")
  /\ UNCHANGED <<running, token, actions, lock, keepers, mine, call, stop, exit, pressed, server, canceled>>

\* pkexec asks for the password.
Launch(o) ==
  /\ pc[o] = "launch"
  /\ \E s \in Servers :
       /\ srv[s] = "none" /\ \A r \in Servers : r < s => srv[r] # "none"
       /\ srv' = [srv EXCEPT ![s] = "asking"] /\ mine' = [mine EXCEPT ![o] = s]
  /\ running' = TRUE /\ token' = 0 /\ sock' = 0 /\ Go(o, "launched")
  /\ UNCHANGED <<actions, lock, keepers, call, stop, exit, pressed, conn, job, marked, cleanup, reply, canceled>>

\* Writing the code of the server or running pkexec raises.
LaunchFails(o) ==
  /\ pc[o] = "launch"
  /\ running' = FALSE /\ Go(o, "refused")
  /\ UNCHANGED <<token, actions, lock, keepers, mine, call, stop, exit, pressed, server, canceled>>

\* start(), setup_socket(): the file of another server is removed.
Granted(s) ==
  /\ srv[s] = "asking"
  /\ srv' = [srv EXCEPT ![s] = "up"] /\ sock' = s
  /\ UNCHANGED <<client, conn, job, marked, cleanup, reply, canceled>>

\* monitor_error_codes()
Denied(s) ==
  /\ srv[s] = "asking"
  /\ srv' = [srv EXCEPT ![s] = "gone"] /\ running' = FALSE
  /\ UNCHANGED <<token, actions, lock, keepers, pc, mine, call, stop, exit, pressed>>
  /\ UNCHANGED <<sock, conn, job, marked, cleanup, reply, canceled>>

\* initialize_server_connectivity() waits for the socket.
SendHandshake(o) ==
  /\ pc[o] = "launched"
  /\ IF running
     THEN /\ sock # 0 /\ lock = "none"
          /\ actions' = actions \cup {Handshake(o)} /\ Go(o, "shaking")
          /\ UNCHANGED running
     ELSE running' = FALSE /\ Go(o, "refused") /\ UNCHANGED actions
  /\ UNCHANGED <<token, lock, keepers, mine, call, stop, exit, pressed, server, canceled>>

\* The token is that of the server, or times out in another one.  The call may
\* have been cleaned, which raises.
HandshakeEnds(o) ==
  /\ pc[o] = "shaking" /\ lock = "none"
  /\ IF sock = mine[o] /\ srv[sock] = "up" /\ Handshake(o) \in actions
     THEN /\ token' = mine[o] /\ actions' = actions \ {Handshake(o)} /\ Go(o, "complete")
          /\ UNCHANGED running
     ELSE /\ running' = FALSE /\ Go(o, "refused")
          /\ IF running THEN token' = 0 /\ actions' = {}
                        ELSE actions' = actions \ {Handshake(o)} /\ UNCHANGED token
  /\ UNCHANGED <<lock, keepers, mine, call, stop, exit, pressed, server, canceled>>

\* complete(), keep_authorization(): it raises when the server is not ready
\* any more, and the callback is never called.
Complete(o) ==
  /\ pc[o] = "complete"
  /\ Go(o, IF Ready THEN "keep" ELSE "refused")
  /\ UNCHANGED <<running, token, actions, lock, keepers, mine, call, stop, exit, pressed, server, canceled>>

Keep(o) ==
  /\ pc[o] = "keep"
  /\ keepers' = keepers \cup {o}
  /\ Go(o, IF o \in Manual THEN "release" ELSE "authorized")
  /\ UNCHANGED <<running, token, actions, lock, mine, call, stop, exit, pressed, server, canceled>>

-----------------------------------------------------------------------------
(* Calls of root functions: send_request() and its worker.                 *)

SendRequest(o) ==
  /\ pc[o] = "authorized" /\ lock = "none"
  /\ IF Ready
     THEN /\ actions' = actions \cup {Call(o)} /\ call' = [call EXCEPT ![o] = "sent"]
          /\ Go(o, "calling") /\ UNCHANGED <<running, token>>
     ELSE StopInstantly /\ Go(o, "release") /\ UNCHANGED call
  /\ UNCHANGED <<lock, keepers, mine, stop, exit, pressed, server, canceled>>

\* The server waits for the end of a request that has not its token.
Connect(o) ==
  /\ call[o] = "sent"
  /\ IF Answers(sock)
     THEN /\ call' = [call EXCEPT ![o] = "open"] /\ conn' = [conn EXCEPT ![o] = sock]
          /\ job' = [job EXCEPT ![o] = IF token = sock THEN "starting" ELSE "waiting"]
     ELSE call' = [call EXCEPT ![o] = "broken"] /\ UNCHANGED <<conn, job>>
  /\ UNCHANGED <<running, token, actions, lock, keepers, pc, mine, stop, exit, pressed>>
  /\ UNCHANGED <<sock, srv, marked, cleanup, reply, canceled>>

\* Fault: the end of a connection is not noticed.
CallBreaksUnsent(o) ==
  /\ lock = "none" /\ call[o] = "broken"
  /\ StopInstantly /\ call' = [call EXCEPT ![o] = "ending"]
  /\ UNCHANGED <<lock, keepers, pc, mine, stop, exit, pressed, server, canceled>>

\* An exception, also of a connection that ends without a result, stops what
\* runs, which may be another server.
CallBreaks(o) ==
  /\ lock = "none"
  /\ call[o] = "broken" \/ (call[o] = "open" /\ ~reply[o] /\ ~Answers(conn[o]))
  /\ StopInstantly /\ call' = [call EXCEPT ![o] = "ending"]
  /\ UNCHANGED <<lock, keepers, pc, mine, stop, exit, pressed, server, canceled>>

\* Fault: the call that failed stays listed.
CallEndsListed(o) ==
  /\ lock = "none"
  /\ call[o] = "ending" \/ (call[o] = "open" /\ reply[o])
  /\ IF Call(o) \in actions /\ reply[o]
     THEN /\ lock' = o /\ actions' = actions \ {Call(o)}
          /\ call' = [call EXCEPT ![o] = "checking"]
     ELSE call' = [call EXCEPT ![o] = "done"] /\ UNCHANGED <<lock, actions>>
  /\ UNCHANGED <<running, token, keepers, pc, mine, stop, exit, pressed, server, canceled>>

\* set_request_status(call, False).  A call that has been cleaned raises.
CallEnds(o) ==
  /\ lock = "none"
  /\ call[o] = "ending" \/ (call[o] = "open" /\ reply[o])
  /\ IF Call(o) \in actions
     THEN /\ lock' = o /\ actions' = actions \ {Call(o)}
          /\ call' = [call EXCEPT ![o] = "checking"]
     ELSE call' = [call EXCEPT ![o] = "done"] /\ UNCHANGED <<lock, actions>>
  /\ UNCHANGED <<running, token, keepers, pc, mine, stop, exit, pressed, server, canceled>>

Unused == actions = {} /\ keepers = {}
StopsUnused(t) == stop' = [stop EXCEPT ![t] = "begin"]

\* Fault: the helper is stopped by the release of a keeper only.
CallChecksNothing(o) ==
  /\ call[o] = "checking"
  /\ call' = [call EXCEPT ![o] = "done"] /\ lock' = "none"
  /\ UNCHANGED <<running, token, actions, keepers, pc, mine, stop, exit, pressed, server, canceled>>

CallChecks(o) ==
  /\ call[o] = "checking"
  /\ call' = [call EXCEPT ![o] = "done"]
  /\ IF Unused /\ token # 0 /\ running
     THEN StopsUnused(Worker(o)) /\ UNCHANGED lock
     ELSE lock' = "none" /\ UNCHANGED stop
  /\ UNCHANGED <<running, token, actions, keepers, pc, mine, exit, pressed, server, canceled>>

\* The last release() of the keeper, when the call is done or, for one that is
\* asynchronous, after it was sent.
Release(o) ==
  /\ pc[o] = "release" \/ (pc[o] = "calling" /\ call[o] # "none")
  /\ Go(o, "checking") /\ keepers' = keepers \ {o}
  /\ UNCHANGED <<running, token, actions, lock, mine, call, stop, exit, pressed, server, canceled>>

\* authorization_keeper_released()
ReleaseChecks(o) ==
  /\ pc[o] = "checking"
  /\ Go(o, "done")
  /\ IF Unused /\ o \notin Manual /\ token # 0 /\ running THEN StopsUnused(Thread(o)) ELSE UNCHANGED stop
  /\ UNCHANGED <<running, token, actions, lock, keepers, mine, call, exit, pressed, server, canceled>>

-----------------------------------------------------------------------------
(* stop_root_helper().                                                     *)

Disable ==
  /\ Disables /\ ~pressed /\ running /\ stop[User] = "none"
  /\ pressed' = TRUE /\ StopsUnused(User)
  /\ UNCHANGED <<running, token, actions, lock, keepers, pc, mine, call, exit, server, canceled>>

StopBegins(t) ==
  /\ stop[t] = "begin"
  /\ IF running
     THEN /\ exit' = [exit EXCEPT ![t].token = token] /\ token' = 0
          /\ stop' = [stop EXCEPT ![t] = "send"] /\ UNCHANGED lock
     ELSE /\ stop' = [stop EXCEPT ![t] = "none"]
          /\ lock' = IF t = Worker(lock) THEN "none" ELSE lock
          /\ UNCHANGED <<exit, token>>
  /\ UNCHANGED <<running, actions, keepers, pc, mine, call, pressed, server, canceled>>

StopSends(t) ==
  /\ stop[t] = "send" /\ Free(t)
  /\ IF Ready
     THEN actions' = actions \cup {Exit(t)} /\ exit' = [exit EXCEPT ![t].at = "sent"]
     ELSE actions' = {} /\ UNCHANGED exit
  /\ stop' = [stop EXCEPT ![t] = "end"]
  /\ UNCHANGED <<running, token, lock, keepers, pc, mine, call, pressed, server, canceled>>

StopEnds(t) ==
  /\ stop[t] = "end"
  /\ running' = FALSE /\ stop' = [stop EXCEPT ![t] = "none"]
  /\ lock' = IF t = Worker(lock) THEN "none" ELSE lock
  /\ UNCHANGED <<token, actions, keepers, pc, mine, call, exit, pressed, server, canceled>>

\* Job.terminate() of each job but EXIT's: one that has no process is left.
Terminated(o) == job[o] = "running" /\ ~marked[o]

TerminateAll(s) ==
  LET hit == {o \in Operations : conn[o] = s /\ Terminated(o)} IN
  /\ marked' = [o \in Operations |-> marked[o] \/ o \in hit]
  /\ cleanup' = [o \in Operations |-> IF o \in hit THEN "begun" ELSE cleanup[o]]

\* EXIT reaches the server that has its token, or fails (5 s in another one).
ExitConnects(t) ==
  /\ exit[t].at = "sent"
  /\ IF sock # 0 /\ srv[sock] = "up" /\ exit[t].token = sock
     THEN /\ exit' = [exit EXCEPT ![t].at = "open"]
          /\ srv' = [srv EXCEPT ![sock] = "stopping"] /\ TerminateAll(sock)
     ELSE exit' = [exit EXCEPT ![t].at = "broken"] /\ UNCHANGED <<srv, marked, cleanup>>
  /\ UNCHANGED <<running, token, actions, lock, keepers, pc, mine, call, stop, pressed>>
  /\ UNCHANGED <<sock, conn, job, reply, canceled>>

\* The response, or 5 s without one, or the end of the server.
ExitReceives(t) ==
  /\ exit[t].at = "open"
  /\ exit' = [exit EXCEPT ![t].at = IF srv[exit[t].token] = "cleaned" THEN "replied" ELSE "broken"]
  /\ UNCHANGED <<running, token, actions, lock, keepers, pc, mine, call, stop, pressed, server, canceled>>

\* complete_exit(), after stop_root_helper() when it failed.
ExitCompletes(t) ==
  /\ exit[t].at \in {"replied", "broken"} /\ lock = "none"
  /\ exit' = [exit EXCEPT ![t] = [at |-> "none", token |-> 0]] /\ actions' = {}
  /\ IF exit[t].at = "broken" /\ running THEN running' = FALSE /\ token' = 0
                                         ELSE UNCHANGED <<running, token>>
  /\ UNCHANGED <<lock, keepers, pc, mine, call, stop, pressed, server, canceled>>

-----------------------------------------------------------------------------
(* The server: its jobs, and its end.                                      *)

\* run_function_with_streaming_output(): the child is forked.
StartProcess(o) ==
  /\ job[o] = "starting" /\ Answers(conn[o])
  /\ job' = [job EXCEPT ![o] = "running"]
  /\ UNCHANGED <<client, sock, srv, conn, marked, cleanup, reply, canceled>>

ProcessEnds(o) ==
  /\ job[o] = "running"
  /\ job' = [job EXCEPT ![o] = "ended"]
  /\ UNCHANGED <<client, sock, srv, conn, marked, cleanup, reply, canceled>>

\* handle_function_request(): a job that is marked leaves the response to its
\* cleanup.
Respond(o) ==
  /\ job[o] = "ended" /\ Answers(conn[o])
  /\ job' = [job EXCEPT ![o] = "left"]
  /\ reply' = [reply EXCEPT ![o] = @ \/ ~marked[o]]
  /\ UNCHANGED <<client, sock, srv, conn, marked, cleanup, canceled>>

\* CANCEL_CALL of ServerCall.cancel(), when it arrives: a job that is not known
\* yet or has no process is left alone.
Cancel(o) ==
  /\ call[o] # "none" /\ ~canceled[o]
  /\ canceled' = [canceled EXCEPT ![o] = TRUE]
  /\ IF Ready /\ Answers(sock) /\ token = sock
     THEN /\ UNCHANGED <<running, token, actions>>
          /\ IF conn[o] = sock /\ Terminated(o)
             THEN marked' = [marked EXCEPT ![o] = TRUE] /\ cleanup' = [cleanup EXCEPT ![o] = "begun"]
             ELSE UNCHANGED <<marked, cleanup>>
     ELSE lock = "none" /\ StopInstantly /\ UNCHANGED <<marked, cleanup>>
  /\ UNCHANGED <<lock, keepers, pc, mine, call, stop, exit, pressed, sock, srv, conn, job, reply>>

\* Fault: the result is sent while the process may still run.
CleanupRepliesFirst(o) ==
  /\ cleanup[o] = "begun" /\ Answers(conn[o])
  /\ IF job[o] = "running"
     THEN cleanup' = [cleanup EXCEPT ![o] = "killing"] /\ reply' = [reply EXCEPT ![o] = TRUE]
     ELSE cleanup' = [cleanup EXCEPT ![o] = "none"] /\ UNCHANGED reply
  /\ UNCHANGED <<client, sock, srv, conn, job, marked, canceled>>

\* terminate_and_cleanup(): nothing is sent for a process that has ended.
CleanupBegins(o) ==
  /\ cleanup[o] = "begun" /\ Answers(conn[o])
  /\ cleanup' = [cleanup EXCEPT ![o] = IF job[o] = "running" THEN "killing" ELSE "none"]
  /\ UNCHANGED <<client, sock, srv, conn, job, marked, reply, canceled>>

CleanupKills(o) ==
  /\ cleanup[o] = "killing" /\ Answers(conn[o])
  /\ job' = [job EXCEPT ![o] = IF @ = "running" THEN "ended" ELSE @]
  /\ cleanup' = [cleanup EXCEPT ![o] = "none"] /\ reply' = [reply EXCEPT ![o] = TRUE]
  /\ UNCHANGED <<client, sock, srv, conn, marked, canceled>>

\* stop() has waited for its jobs, at most 6 s, and kills those that are left.
ServerCleans(s) ==
  LET left == {o \in Operations : conn[o] = s /\ Terminated(o)} IN
  /\ srv[s] = "stopping"
  /\ \A o \in Operations : conn[o] = s => cleanup[o] = "none"
  /\ srv' = [srv EXCEPT ![s] = "cleaned"]
  /\ job' = [o \in Operations |-> IF o \in left THEN "ended" ELSE job[o]]
  /\ marked' = [o \in Operations |-> marked[o] \/ o \in left]
  /\ reply' = [o \in Operations |-> reply[o] \/ o \in left]
  /\ UNCHANGED <<client, sock, conn, cleanup, canceled>>

\* The file of the socket is removed, whoever has made it.
ServerExits(s) ==
  /\ srv[s] = "cleaned"
  /\ srv' = [srv EXCEPT ![s] = "gone"] /\ sock' = 0
  /\ UNCHANGED <<client, conn, job, marked, cleanup, reply, canceled>>

Crash(s) ==
  /\ Crashes /\ srv[s] = "up"
  /\ srv' = [srv EXCEPT ![s] = "gone"] /\ running' = FALSE
  /\ UNCHANGED <<token, actions, lock, keepers, pc, mine, call, stop, exit, pressed>>
  /\ UNCHANGED <<sock, conn, job, marked, cleanup, reply, canceled>>

-----------------------------------------------------------------------------

\* A thread or the server goes on.
ClientStep ==
  \/ \E o \in Operations :
       \/ Launch(o) \/ SendHandshake(o) \/ HandshakeEnds(o) \/ Complete(o) \/ Keep(o)
       \/ SendRequest(o) \/ Connect(o) \/ CallBreaks(o) \/ CallEnds(o) \/ CallChecks(o)
       \/ ReleaseChecks(o)
  \/ \E t \in Stoppers :
       StopBegins(t) \/ StopSends(t) \/ StopEnds(t) \/ ExitConnects(t) \/ ExitReceives(t) \/ ExitCompletes(t)

ServerStep ==
  \/ \E o \in Operations :
       StartProcess(o) \/ ProcessEnds(o) \/ Respond(o) \/ CleanupBegins(o) \/ CleanupKills(o)
  \/ \E s \in Servers : ServerCleans(s) \/ ServerExits(s)

Next ==
  \/ ClientStep \/ ServerStep \/ Disable
  \/ \E o \in Operations : Authorize(o) \/ LaunchFails(o) \/ Release(o) \/ Cancel(o)
  \/ \E s \in Servers : Granted(s) \/ Denied(s) \/ Crash(s)

\* Threads run, functions of root end, the server goes on; the user answers
\* pkexec.  Nothing else of the user is promised.
Fairness ==
  /\ WF_vars(ClientStep) /\ WF_vars(ServerStep)
  /\ \A o \in Operations : WF_vars((pc[o] = "release" \/ call[o] = "done") /\ Release(o))
  /\ \A s \in Servers : WF_vars(Granted(s) \/ Denied(s))

Spec == Init /\ [][Next]_vars /\ Fairness

-----------------------------------------------------------------------------
(* Properties.                                                             *)

\* What is over is not listed, it would keep the helper from being started
\* again: nothing but the work on a call, handshake or exit keeps it there.
NothingStaleListed ==
  /\ \A o \in Operations : Call(o) \in actions => call[o] \in {"sent", "open", "broken", "ending"}
  /\ \A o \in Operations : Handshake(o) \in actions => pc[o] = "shaking"
  /\ \A t \in Stoppers : Exit(t) \in actions => exit[t].at # "none"

\* The app that is told that a call was terminated can rely on it: its process
\* is not there any more.
TerminatedIsGone == \A o \in Operations : reply[o] => job[o] \notin {"starting", "running"}

\* Both: what the app takes for ended is not listed and does not run.
EndedIsGone == NothingStaleListed /\ TerminatedIsGone

\* A call returns, whatever becomes of the server, if nobody cancels it and
\* its token was that of the server.
CallReturns ==
  \A o \in Operations :
    call[o] = "sent" ~> call[o] = "done" \/ canceled[o] \/ job[o] = "waiting"

\* Root access that nothing uses is dropped.
Idle ==
  /\ Unused /\ token # 0
  /\ \A o \in Operations : pc[o] = "idle" \/ (pc[o] \in {"refused", "done"} /\ o \notin Manual)
RootDropped == Idle ~> ~running \/ ~Idle
=============================================================================
