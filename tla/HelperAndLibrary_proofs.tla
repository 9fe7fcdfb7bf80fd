----------------------- MODULE HelperAndLibrary_proofs -----------------------
(***************************************************************************)
(* Theorems about RootHelper, for any operations and processes of the      *)
(* server, whoever disables root access, cancels or crashes: types are     *)
(* kept, what is over is not listed, and a call that is told to be         *)
(* terminated has no process.                                              *)
(*                                                                         *)
(* And, after them, about the files of the Library (MCLibrary), a subject  *)
(* of their own: a Git directory loses no content, whatever threads read   *)
(* beside an operation; records and directories of Git repositories agree, *)
(* for any names and any number of installations and restarts; the page    *)
(* removes nothing in use, for any number of operations; and the change to *)
(* another folder keeps the data.                                          *)
(***************************************************************************)
EXTENDS RootHelper, MCLibrary, TLAPS, SequenceTheorems, FiniteSetTheorems

-----------------------------------------------------------------------------
(* The inductive invariant.                                                *)

\* What an operation does before its call, and after it.
Before == {"idle", "launch", "launched", "shaking", "complete", "keep", "authorized"}
Places == Before \cup {"refused", "calling", "release", "checking", "done"}
CallStates == {"none", "sent", "open", "broken", "ending", "checking", "done"}
Listed == {Call(o) : o \in Operations} \cup {Handshake(o) : o \in Operations} \cup {Exit(t) : t \in Stoppers}

ExitPlaces == {"none", "sent", "open", "replied", "broken"}
ExitStates == [at : ExitPlaces, token : Servers \cup {0}]

ClientTypeOK ==
  /\ running \in BOOLEAN /\ token \in Servers \cup {0} /\ pressed \in BOOLEAN
  /\ lock \in Operations \cup {"none"}
  /\ pc \in [Operations -> Places] /\ mine \in [Operations -> Servers \cup {0}]
  /\ call \in [Operations -> CallStates]

ListTypeOK == actions \subseteq Listed /\ keepers \subseteq Operations

StopTypeOK ==
  /\ stop \in [Stoppers -> {"none", "begin", "send", "end"}]
  /\ exit \in [Stoppers -> ExitStates]

ServerTypeOK ==
  /\ sock \in Servers \cup {0}
  /\ srv \in [Servers -> {"none", "asking", "up", "stopping", "cleaned", "gone"}]
  /\ conn \in [Operations -> Servers \cup {0}]
  /\ job \in [Operations -> {"none", "waiting", "starting", "running", "ended", "left"}]
  /\ marked \in [Operations -> BOOLEAN] /\ cleanup \in [Operations -> {"none", "begun", "killing"}]
  /\ reply \in [Operations -> BOOLEAN] /\ canceled \in [Operations -> BOOLEAN]

TypeOK == ClientTypeOK /\ ListTypeOK /\ StopTypeOK /\ ServerTypeOK

\* A call is made once, its job is not known before it has connected, and a
\* cleanup is that of a job that has had its process.
CallsAreOrdered == \A o \in Operations :
  /\ pc[o] \in Before => call[o] = "none"
  /\ call[o] \in {"none", "sent"} => job[o] = "none" /\ ~reply[o]
  /\ cleanup[o] # "none" => job[o] \in {"running", "ended", "left"}

IInv == TypeOK /\ CallsAreOrdered /\ EndedIsGone

\* What is listed is told apart.
LEMMA ListedDiffer ==
  /\ \A o, p \in Operations : Call(o) # Handshake(p) /\ (Call(o) = Call(p) => o = p) /\ (Handshake(o) = Handshake(p) => o = p)
  /\ \A o \in Operations, t \in Stoppers : Call(o) # Exit(t) /\ Handshake(o) # Exit(t)
  /\ \A t, u \in Stoppers : Exit(t) = Exit(u) => t = u
  /\ \A o \in Operations : Call(o) \in Listed /\ Handshake(o) \in Listed
  /\ \A t \in Stoppers : Exit(t) \in Listed
  /\ \A o \in Operations : Worker(o) \in Stoppers /\ Thread(o) \in Stoppers
  /\ User \in Stoppers
BY DEF Call, Handshake, Exit, Listed, Stoppers, Worker, Thread, User

\* The worker of an EXIT goes to another place, the others stay.
LEMMA ExitGoes ==
  ASSUME StopTypeOK, NEW t \in Stoppers, NEW a \in ExitPlaces, exit' = [exit EXCEPT ![t].at = a]
  PROVE  exit' \in [Stoppers -> ExitStates] /\ \A u \in Stoppers : exit'[u].at = IF u = t THEN a ELSE exit[u].at
<1>1. \A e \in ExitStates : [e EXCEPT !.at = a] \in ExitStates /\ [e EXCEPT !.at = a].at = a
  BY DEF ExitStates
<1>2. exit \in [Stoppers -> ExitStates] /\ exit' = [exit EXCEPT ![t] = [exit[t] EXCEPT !.at = a]]
  BY DEF StopTypeOK
<1> QED BY <1>1, <1>2

\* The EXIT that is to be sent gets its token.
LEMMA ExitHasToken ==
  ASSUME StopTypeOK, NEW t \in Stoppers, NEW k \in Servers \cup {0}, exit' = [exit EXCEPT ![t].token = k]
  PROVE  exit' \in [Stoppers -> ExitStates] /\ \A u \in Stoppers : exit'[u].at = exit[u].at
<1>1. \A e \in ExitStates : [e EXCEPT !.token = k] \in ExitStates /\ [e EXCEPT !.token = k].at = e.at
  BY DEF ExitStates
<1>2. exit \in [Stoppers -> ExitStates] /\ exit' = [exit EXCEPT ![t] = [exit[t] EXCEPT !.token = k]]
  BY DEF StopTypeOK
<1> QED BY <1>1, <1>2

LEMMA InitIInv == Init => IInv
<1> SUFFICES ASSUME Init PROVE IInv
  OBVIOUS
<1>1. ClientTypeOK /\ ListTypeOK
  BY DEF Init, ClientTypeOK, ListTypeOK, Places, Before, CallStates
<1>2. StopTypeOK /\ ServerTypeOK
  BY DEF Init, StopTypeOK, ServerTypeOK, ExitStates, ExitPlaces
<1>3. CallsAreOrdered /\ EndedIsGone
  BY DEF Init, CallsAreOrdered, Before, EndedIsGone, NothingStaleListed, TerminatedIsGone
<1> QED BY <1>1, <1>2, <1>3 DEF IInv, TypeOK


\* Authorization and the start of the helper.
LEMMA StartStep ==
  ASSUME IInv, NEW o \in Operations,
         Authorize(o) \/ Launch(o) \/ LaunchFails(o) \/ SendHandshake(o) \/ HandshakeEnds(o) \/ Complete(o) \/ Keep(o)
  PROVE IInv'
<1> USE DEF IInv, TypeOK, vars, client, server, Go
<1>1. CASE LaunchFails(o)
  <2>1. ClientTypeOK'
    BY <1>1 DEF LaunchFails, ClientTypeOK, Places, Before, CallStates
  <2>2. ListTypeOK'
    BY <1>1, ListedDiffer DEF LaunchFails, ListTypeOK, ClientTypeOK
  <2>3. StopTypeOK'
    BY <1>1, ListedDiffer DEF LaunchFails, StopTypeOK, ClientTypeOK
  <2>4. ServerTypeOK'
    BY <1>1, RootHelperAssumption DEF LaunchFails, ServerTypeOK, ClientTypeOK
  <2>5. CallsAreOrdered'
    BY <1>1 DEF LaunchFails, CallsAreOrdered, ClientTypeOK, ServerTypeOK, Before
  <2>6. NothingStaleListed'
    BY <1>1, ListedDiffer DEF LaunchFails, EndedIsGone, NothingStaleListed, ClientTypeOK, ListTypeOK, StopTypeOK
  <2>7. TerminatedIsGone'
    BY <1>1 DEF LaunchFails, EndedIsGone, TerminatedIsGone, CallsAreOrdered, ServerTypeOK
  <2> QED BY <2>1, <2>2, <2>3, <2>4, <2>5, <2>6, <2>7 DEF EndedIsGone
<1>2. CASE SendHandshake(o)
  <2>1. ClientTypeOK'
    BY <1>2 DEF SendHandshake, ClientTypeOK, Places, Before, CallStates
  <2>2. ListTypeOK'
    BY <1>2, ListedDiffer DEF SendHandshake, ListTypeOK, ClientTypeOK
  <2>3. StopTypeOK'
    BY <1>2, ListedDiffer DEF SendHandshake, StopTypeOK, ClientTypeOK
  <2>4. ServerTypeOK'
    BY <1>2, RootHelperAssumption DEF SendHandshake, ServerTypeOK, ClientTypeOK
  <2>5. CallsAreOrdered'
    BY <1>2 DEF SendHandshake, CallsAreOrdered, ClientTypeOK, ServerTypeOK, Before
  <2>6. NothingStaleListed'
    BY <1>2, ListedDiffer DEF SendHandshake, EndedIsGone, NothingStaleListed, ClientTypeOK, ListTypeOK, StopTypeOK
  <2>7. TerminatedIsGone'
    BY <1>2 DEF SendHandshake, EndedIsGone, TerminatedIsGone, CallsAreOrdered, ServerTypeOK
  <2> QED BY <2>1, <2>2, <2>3, <2>4, <2>5, <2>6, <2>7 DEF EndedIsGone
<1>3. CASE HandshakeEnds(o)
  <2>1. ClientTypeOK'
    BY <1>3 DEF HandshakeEnds, ClientTypeOK, Places, Before, CallStates
  <2>2. ListTypeOK'
    BY <1>3, ListedDiffer DEF HandshakeEnds, ListTypeOK, ClientTypeOK
  <2>3. StopTypeOK'
    BY <1>3, ListedDiffer DEF HandshakeEnds, StopTypeOK, ClientTypeOK
  <2>4. ServerTypeOK'
    BY <1>3, RootHelperAssumption DEF HandshakeEnds, ServerTypeOK, ClientTypeOK
  <2>5. CallsAreOrdered'
    BY <1>3 DEF HandshakeEnds, CallsAreOrdered, ClientTypeOK, ServerTypeOK, Before
  <2>6. NothingStaleListed'
    BY <1>3, ListedDiffer DEF HandshakeEnds, EndedIsGone, NothingStaleListed, ClientTypeOK, ListTypeOK, StopTypeOK
  <2>7. TerminatedIsGone'
    BY <1>3 DEF HandshakeEnds, EndedIsGone, TerminatedIsGone, CallsAreOrdered, ServerTypeOK
  <2> QED BY <2>1, <2>2, <2>3, <2>4, <2>5, <2>6, <2>7 DEF EndedIsGone
<1> USE ListedDiffer, RootHelperAssumption DEF ClientTypeOK, ListTypeOK, StopTypeOK, ServerTypeOK,
      CallsAreOrdered, EndedIsGone, NothingStaleListed, TerminatedIsGone, Places, Before, CallStates
<1>4. CASE Authorize(o)
  BY <1>4 DEF Authorize
<1>5. CASE Launch(o)
  BY <1>5 DEF Launch
<1>6. CASE Complete(o)
  BY <1>6 DEF Complete, Ready
<1>7. CASE Keep(o)
  BY <1>7 DEF Keep
<1> QED BY <1>1, <1>2, <1>3, <1>4, <1>5, <1>6, <1>7

\* Calls, and the end of the authorization.
LEMMA CallStep ==
  ASSUME IInv, NEW o \in Operations,
         SendRequest(o) \/ Connect(o) \/ CallBreaks(o) \/ CallEnds(o) \/ CallChecks(o) \/ Release(o) \/ ReleaseChecks(o)
  PROVE IInv'
<1> USE DEF IInv, TypeOK, vars, client, server, Go
<1>1. CASE SendRequest(o)
  <2>1. ClientTypeOK'
    BY <1>1 DEF SendRequest, Ready, StopInstantly, ClientTypeOK, Places, Before, CallStates
  <2>2. ListTypeOK'
    BY <1>1, ListedDiffer DEF SendRequest, Ready, StopInstantly, ListTypeOK, ClientTypeOK
  <2>3. StopTypeOK'
    BY <1>1, ListedDiffer DEF SendRequest, Ready, StopInstantly, StopTypeOK, ClientTypeOK
  <2>4. ServerTypeOK'
    BY <1>1, RootHelperAssumption DEF SendRequest, Ready, StopInstantly, ServerTypeOK, ClientTypeOK
  <2>5. CallsAreOrdered'
    BY <1>1 DEF SendRequest, Ready, StopInstantly, CallsAreOrdered, ClientTypeOK, ServerTypeOK, Before
  <2>6. NothingStaleListed'
    BY <1>1, ListedDiffer DEF SendRequest, Ready, StopInstantly, EndedIsGone, NothingStaleListed, ClientTypeOK,
       ListTypeOK, StopTypeOK
  <2>7. TerminatedIsGone'
    BY <1>1 DEF SendRequest, Ready, StopInstantly, EndedIsGone, TerminatedIsGone, CallsAreOrdered, ServerTypeOK
  <2> QED BY <2>1, <2>2, <2>3, <2>4, <2>5, <2>6, <2>7 DEF EndedIsGone
<1>2. CASE Connect(o)
  <2>1. ClientTypeOK'
    BY <1>2 DEF Connect, Answers, ClientTypeOK, Places, Before, CallStates
  <2>2. ListTypeOK'
    BY <1>2, ListedDiffer DEF Connect, Answers, ListTypeOK, ClientTypeOK
  <2>3. StopTypeOK'
    BY <1>2, ListedDiffer DEF Connect, Answers, StopTypeOK, ClientTypeOK
  <2>4. ServerTypeOK'
    BY <1>2, RootHelperAssumption DEF Connect, Answers, ServerTypeOK, ClientTypeOK
  <2>5. CallsAreOrdered'
    BY <1>2 DEF Connect, Answers, CallsAreOrdered, ClientTypeOK, ServerTypeOK, Before
  <2>6. NothingStaleListed'
    BY <1>2, ListedDiffer DEF Connect, Answers, EndedIsGone, NothingStaleListed, ClientTypeOK, ListTypeOK, StopTypeOK
  <2>7. TerminatedIsGone'
    BY <1>2 DEF Connect, Answers, EndedIsGone, TerminatedIsGone, CallsAreOrdered, ServerTypeOK
  <2> QED BY <2>1, <2>2, <2>3, <2>4, <2>5, <2>6, <2>7 DEF EndedIsGone
<1>3. CASE CallBreaks(o)
  <2>1. ClientTypeOK'
    BY <1>3 DEF CallBreaks, StopInstantly, Answers, ClientTypeOK, Places, Before, CallStates
  <2>2. ListTypeOK'
    BY <1>3, ListedDiffer DEF CallBreaks, StopInstantly, Answers, ListTypeOK, ClientTypeOK
  <2>3. StopTypeOK'
    BY <1>3, ListedDiffer DEF CallBreaks, StopInstantly, Answers, StopTypeOK, ClientTypeOK
  <2>4. ServerTypeOK'
    BY <1>3, RootHelperAssumption DEF CallBreaks, StopInstantly, Answers, ServerTypeOK, ClientTypeOK
  <2>5. CallsAreOrdered'
    BY <1>3 DEF CallBreaks, StopInstantly, Answers, CallsAreOrdered, ClientTypeOK, ServerTypeOK, Before
  <2>6. NothingStaleListed'
    BY <1>3, ListedDiffer DEF CallBreaks, StopInstantly, Answers, EndedIsGone, NothingStaleListed, ClientTypeOK,
       ListTypeOK, StopTypeOK
  <2>7. TerminatedIsGone'
    BY <1>3 DEF CallBreaks, StopInstantly, Answers, EndedIsGone, TerminatedIsGone, CallsAreOrdered, ServerTypeOK
  <2> QED BY <2>1, <2>2, <2>3, <2>4, <2>5, <2>6, <2>7 DEF EndedIsGone
<1>4. CASE ReleaseChecks(o)
  <2>1. ClientTypeOK'
    BY <1>4 DEF ReleaseChecks, StopsUnused, ClientTypeOK, Places, Before, CallStates
  <2>2. ListTypeOK'
    BY <1>4, ListedDiffer DEF ReleaseChecks, StopsUnused, ListTypeOK, ClientTypeOK
  <2>3. StopTypeOK'
    BY <1>4, ListedDiffer DEF ReleaseChecks, StopsUnused, StopTypeOK, ClientTypeOK
  <2>4. ServerTypeOK'
    BY <1>4, RootHelperAssumption DEF ReleaseChecks, StopsUnused, ServerTypeOK, ClientTypeOK
  <2>5. CallsAreOrdered'
    BY <1>4 DEF ReleaseChecks, StopsUnused, CallsAreOrdered, ClientTypeOK, ServerTypeOK, Before
  <2>6. NothingStaleListed'
    BY <1>4, ListedDiffer DEF ReleaseChecks, StopsUnused, EndedIsGone, NothingStaleListed, ClientTypeOK, ListTypeOK,
       StopTypeOK
  <2>7. TerminatedIsGone'
    BY <1>4 DEF ReleaseChecks, StopsUnused, EndedIsGone, TerminatedIsGone, CallsAreOrdered, ServerTypeOK
  <2> QED BY <2>1, <2>2, <2>3, <2>4, <2>5, <2>6, <2>7 DEF EndedIsGone
<1> USE ListedDiffer, RootHelperAssumption DEF ClientTypeOK, ListTypeOK, StopTypeOK, ServerTypeOK,
      CallsAreOrdered, EndedIsGone, NothingStaleListed, TerminatedIsGone, Places, Before, CallStates
<1>5. CASE CallEnds(o)
  BY <1>5 DEF CallEnds
<1>6. CASE CallChecks(o)
  BY <1>6 DEF CallChecks, StopsUnused
<1>7. CASE Release(o)
  BY <1>7 DEF Release
<1> QED BY <1>1, <1>2, <1>3, <1>4, <1>5, <1>6, <1>7

\* A thread in stop_root_helper().
LEMMA StopStep ==
  ASSUME IInv, NEW t \in Stoppers,
         StopBegins(t) \/ StopSends(t) \/ StopEnds(t) \/ ExitConnects(t) \/ ExitReceives(t) \/ ExitCompletes(t)
  PROVE IInv'
<1> USE DEF IInv, TypeOK, vars, client, server, Go
<1>1. CASE StopBegins(t)
  <2>1. ClientTypeOK'
    BY <1>1 DEF StopBegins, ClientTypeOK, Places, Before, CallStates
  <2>2. ListTypeOK'
    BY <1>1, ListedDiffer DEF StopBegins, ListTypeOK, ClientTypeOK
  <2>3. StopTypeOK'
    BY <1>1, ExitHasToken DEF StopBegins, StopTypeOK, ClientTypeOK
  <2>4. ServerTypeOK'
    BY <1>1, RootHelperAssumption DEF StopBegins, ServerTypeOK, ClientTypeOK
  <2>5. CallsAreOrdered'
    BY <1>1 DEF StopBegins, CallsAreOrdered, ClientTypeOK, ServerTypeOK, Before
  <2>6. NothingStaleListed'
    <3>1. \A u \in Stoppers : exit'[u].at = exit[u].at
      BY <1>1, ExitHasToken DEF StopBegins, ClientTypeOK
    <3> QED BY <3>1, <1>1 DEF StopBegins, EndedIsGone, NothingStaleListed
  <2>7. TerminatedIsGone'
    BY <1>1 DEF StopBegins, EndedIsGone, TerminatedIsGone, CallsAreOrdered, ServerTypeOK
  <2> QED BY <2>1, <2>2, <2>3, <2>4, <2>5, <2>6, <2>7 DEF EndedIsGone
<1>2. CASE StopSends(t)
  <2>1. ClientTypeOK'
    BY <1>2 DEF StopSends, Ready, ClientTypeOK, Places, Before, CallStates
  <2>2. ListTypeOK'
    BY <1>2, ListedDiffer DEF StopSends, Ready, ListTypeOK, ClientTypeOK
  <2>3. StopTypeOK'
    BY <1>2, ExitGoes DEF StopSends, StopTypeOK, ExitPlaces
  <2>4. ServerTypeOK'
    BY <1>2, RootHelperAssumption DEF StopSends, Ready, ServerTypeOK, ClientTypeOK
  <2>5. CallsAreOrdered'
    BY <1>2 DEF StopSends, Ready, CallsAreOrdered, ClientTypeOK, ServerTypeOK, Before
  <2>6. NothingStaleListed'
    <3>1. Ready => \A u \in Stoppers : exit'[u].at = IF u = t THEN "sent" ELSE exit[u].at
      BY <1>2, ExitGoes DEF StopSends, ExitPlaces
    <3>2. actions' \subseteq actions \cup {Exit(t)} /\ (~Ready => actions' = {})
      BY <1>2 DEF StopSends
    <3> QED BY <3>1, <3>2, <1>2, ListedDiffer DEF StopSends, EndedIsGone, NothingStaleListed
  <2>7. TerminatedIsGone'
    BY <1>2 DEF StopSends, Ready, EndedIsGone, TerminatedIsGone, CallsAreOrdered, ServerTypeOK
  <2> QED BY <2>1, <2>2, <2>3, <2>4, <2>5, <2>6, <2>7 DEF EndedIsGone
<1>3. CASE ExitConnects(t)
  <2>1. ClientTypeOK'
    BY <1>3 DEF ExitConnects, TerminateAll, Terminated, ClientTypeOK, Places, Before, CallStates
  <2>2. ListTypeOK'
    BY <1>3, ListedDiffer DEF ExitConnects, TerminateAll, Terminated, ListTypeOK, ClientTypeOK
  <2>3. StopTypeOK'
    BY <1>3, ExitGoes DEF ExitConnects, StopTypeOK, ExitPlaces
  <2>4. ServerTypeOK'
    <3>1. srv' \in [Servers -> {"none", "asking", "up", "stopping", "cleaned", "gone"}]
      BY <1>3 DEF ExitConnects, ServerTypeOK
    <3>2. marked' \in [Operations -> BOOLEAN]
      BY <1>3, Zenon DEF ExitConnects, TerminateAll, ServerTypeOK
    <3>3. cleanup' \in [Operations -> {"none", "begun", "killing"}]
      BY <1>3 DEF ExitConnects, TerminateAll, ServerTypeOK
    <3> QED BY <3>1, <3>2, <3>3, <1>3 DEF ExitConnects, ServerTypeOK
  <2>5. CallsAreOrdered'
    BY <1>3 DEF ExitConnects, TerminateAll, Terminated, CallsAreOrdered, ClientTypeOK, ServerTypeOK, Before
  <2>6. NothingStaleListed'
    <3>1. \A u \in Stoppers : exit[u].at # "none" => exit'[u].at # "none"
      BY <1>3, ExitGoes DEF ExitConnects, ExitPlaces
    <3> QED BY <3>1, <1>3 DEF ExitConnects, EndedIsGone, NothingStaleListed
  <2>7. TerminatedIsGone'
    BY <1>3 DEF ExitConnects, TerminateAll, Terminated, EndedIsGone, TerminatedIsGone, CallsAreOrdered, ServerTypeOK
  <2> QED BY <2>1, <2>2, <2>3, <2>4, <2>5, <2>6, <2>7 DEF EndedIsGone
<1>4. CASE ExitReceives(t)
  <2>1. ClientTypeOK'
    BY <1>4 DEF ExitReceives, ClientTypeOK, Places, Before, CallStates
  <2>2. ListTypeOK'
    BY <1>4, ListedDiffer DEF ExitReceives, ListTypeOK, ClientTypeOK
  <2>3. StopTypeOK'
    BY <1>4, ExitGoes DEF ExitReceives, StopTypeOK, ExitPlaces
  <2>4. ServerTypeOK'
    BY <1>4, RootHelperAssumption DEF ExitReceives, ServerTypeOK, ClientTypeOK
  <2>5. CallsAreOrdered'
    BY <1>4 DEF ExitReceives, CallsAreOrdered, ClientTypeOK, ServerTypeOK, Before
  <2>6. NothingStaleListed'
    <3>1. \A u \in Stoppers : exit[u].at # "none" => exit'[u].at # "none"
      BY <1>4, ExitGoes DEF ExitReceives, ExitPlaces
    <3> QED BY <3>1, <1>4 DEF ExitReceives, EndedIsGone, NothingStaleListed
  <2>7. TerminatedIsGone'
    BY <1>4 DEF ExitReceives, EndedIsGone, TerminatedIsGone, CallsAreOrdered, ServerTypeOK
  <2> QED BY <2>1, <2>2, <2>3, <2>4, <2>5, <2>6, <2>7 DEF EndedIsGone
<1>5. CASE ExitCompletes(t)
  <2>1. ClientTypeOK'
    BY <1>5 DEF ExitCompletes, ClientTypeOK, Places, Before, CallStates
  <2>2. ListTypeOK'
    BY <1>5, ListedDiffer DEF ExitCompletes, ListTypeOK, ClientTypeOK
  <2>3. StopTypeOK'
    BY <1>5 DEF ExitCompletes, StopTypeOK, ExitStates, ExitPlaces
  <2>4. ServerTypeOK'
    BY <1>5, RootHelperAssumption DEF ExitCompletes, ServerTypeOK, ClientTypeOK
  <2>5. CallsAreOrdered'
    BY <1>5 DEF ExitCompletes, CallsAreOrdered, ClientTypeOK, ServerTypeOK, Before
  <2>6. NothingStaleListed'
    BY <1>5, ListedDiffer DEF ExitCompletes, EndedIsGone, NothingStaleListed, ClientTypeOK, ListTypeOK, StopTypeOK
  <2>7. TerminatedIsGone'
    BY <1>5 DEF ExitCompletes, EndedIsGone, TerminatedIsGone, CallsAreOrdered, ServerTypeOK
  <2> QED BY <2>1, <2>2, <2>3, <2>4, <2>5, <2>6, <2>7 DEF EndedIsGone
<1> USE ListedDiffer, RootHelperAssumption DEF ClientTypeOK, ListTypeOK, StopTypeOK, ServerTypeOK,
      CallsAreOrdered, EndedIsGone, NothingStaleListed, TerminatedIsGone, Places, Before, CallStates
<1>6. CASE StopEnds(t)
  BY <1>6 DEF StopEnds
<1> QED BY <1>1, <1>2, <1>3, <1>4, <1>5, <1>6

\* The job of a call.
LEMMA JobStep ==
  ASSUME IInv, NEW o \in Operations,
         StartProcess(o) \/ ProcessEnds(o) \/ Respond(o) \/ CleanupBegins(o) \/ CleanupKills(o) \/ Cancel(o)
  PROVE IInv'
<1> USE DEF IInv, TypeOK, vars, client, server, Go
<1>1. CASE Cancel(o)
  <2>1. ClientTypeOK'
    BY <1>1 DEF Cancel, StopInstantly, Terminated, ClientTypeOK, Places, Before, CallStates
  <2>2. ListTypeOK'
    BY <1>1, ListedDiffer DEF Cancel, StopInstantly, Terminated, ListTypeOK, ClientTypeOK
  <2>3. StopTypeOK'
    BY <1>1, ListedDiffer DEF Cancel, StopInstantly, Terminated, StopTypeOK, ClientTypeOK
  <2>4. ServerTypeOK'
    BY <1>1, RootHelperAssumption DEF Cancel, StopInstantly, Terminated, ServerTypeOK, ClientTypeOK
  <2>5. CallsAreOrdered'
    BY <1>1 DEF Cancel, StopInstantly, Terminated, CallsAreOrdered, ClientTypeOK, ServerTypeOK, Before
  <2>6. NothingStaleListed'
    BY <1>1, ListedDiffer DEF Cancel, StopInstantly, Terminated, EndedIsGone, NothingStaleListed, ClientTypeOK,
       ListTypeOK, StopTypeOK
  <2>7. TerminatedIsGone'
    BY <1>1 DEF Cancel, StopInstantly, Terminated, EndedIsGone, TerminatedIsGone, CallsAreOrdered, ServerTypeOK
  <2> QED BY <2>1, <2>2, <2>3, <2>4, <2>5, <2>6, <2>7 DEF EndedIsGone
<1> USE ListedDiffer, RootHelperAssumption DEF ClientTypeOK, ListTypeOK, StopTypeOK, ServerTypeOK,
      CallsAreOrdered, EndedIsGone, NothingStaleListed, TerminatedIsGone, Places, Before, CallStates
<1>2. CASE StartProcess(o)
  BY <1>2 DEF StartProcess
<1>3. CASE ProcessEnds(o)
  BY <1>3 DEF ProcessEnds
<1>4. CASE Respond(o)
  BY <1>4 DEF Respond
<1>5. CASE CleanupBegins(o)
  BY <1>5 DEF CleanupBegins
<1>6. CASE CleanupKills(o)
  BY <1>6 DEF CleanupKills
<1> QED BY <1>1, <1>2, <1>3, <1>4, <1>5, <1>6

\* A process of the server.
LEMMA ServerProcessStep ==
  ASSUME IInv, NEW s \in Servers,
         Granted(s) \/ Denied(s) \/ ServerCleans(s) \/ ServerExits(s) \/ Crash(s)
  PROVE IInv'
<1> USE DEF IInv, TypeOK, vars, client, server, Go
<1> USE ListedDiffer, RootHelperAssumption DEF ClientTypeOK, ListTypeOK, StopTypeOK, ServerTypeOK,
      CallsAreOrdered, EndedIsGone, NothingStaleListed, TerminatedIsGone, Places, Before, CallStates
<1>1. CASE Granted(s)
  BY <1>1 DEF Granted
<1>2. CASE Denied(s)
  BY <1>2 DEF Denied
<1>3. CASE ServerCleans(s)
  BY <1>3 DEF ServerCleans, Terminated
<1>4. CASE ServerExits(s)
  BY <1>4 DEF ServerExits
<1>5. CASE Crash(s)
  BY <1>5 DEF Crash
<1> QED BY <1>1, <1>2, <1>3, <1>4, <1>5

\* Every step keeps the invariant.
LEMMA NextStep == IInv /\ [Next]_vars => IInv'
<1> SUFFICES ASSUME IInv, [Next]_vars PROVE IInv'
  OBVIOUS
<1>1. CASE UNCHANGED vars
  BY <1>1 DEF vars, client, server, IInv, TypeOK, ClientTypeOK, ListTypeOK, StopTypeOK, ServerTypeOK, CallsAreOrdered,
     EndedIsGone, NothingStaleListed, TerminatedIsGone
<1>2. CASE ClientStep
  BY <1>2, StartStep, CallStep, StopStep DEF ClientStep
<1>3. CASE ServerStep
  BY <1>3, JobStep, ServerProcessStep DEF ServerStep
<1>4. CASE Disable
  <2>1. TypeOK'
    BY <1>4, ListedDiffer DEF Disable, StopsUnused, IInv, TypeOK, ClientTypeOK, ListTypeOK, StopTypeOK,
       ServerTypeOK, server
  <2>2. CallsAreOrdered' /\ EndedIsGone'
    BY <1>4 DEF Disable, IInv, CallsAreOrdered, EndedIsGone, NothingStaleListed, TerminatedIsGone, server
  <2> QED BY <2>1, <2>2 DEF IInv
<1>5. CASE \E o \in Operations : Authorize(o) \/ LaunchFails(o) \/ Release(o) \/ Cancel(o)
  BY <1>5, StartStep, CallStep, JobStep
<1>6. CASE \E s \in Servers : Granted(s) \/ Denied(s) \/ Crash(s)
  BY <1>6, ServerProcessStep
<1> QED BY <1>1, <1>2, <1>3, <1>4, <1>5, <1>6 DEF Next

\* The client and the server are always in states of the program: the calls,
\* threads and processes keep their kinds, and only what the client makes is
\* listed.
THEOREM TypeCorrect == Spec => []TypeOK
<1>1. IInv => TypeOK
  BY DEF IInv
<1> QED BY InitIInv, NextStep, <1>1, PTL DEF Spec

\* What is over is not listed, so that it cannot keep the helper from being
\* started again, and a call the app was told is terminated has no process:
\* with any number of operations and servers, whoever cancels or crashes.
THEOREM EndedIsGoneAlways == Spec => []EndedIsGone
<1>1. IInv => EndedIsGone
  BY DEF IInv
<1> QED BY InitIInv, NextStep, <1>1, PTL DEF Spec

-----------------------------------------------------------------------------
(* One Git directory (GitDirectory).                                       *)

\* Steps of the run are steps of the directory, or leave it alone.
LEMMA GitOfSpec == FilesSpec => Git!Init /\ [][Git!Next]_(Git!vars)
<1>1. FilesInit => Git!Init
  BY DEF FilesInit
<1>2. [FilesNext]_filesVars => [Git!Next]_(Git!vars)
  BY DEF FilesNext, filesVars, gitVars, Git!vars, Git!disk, Git!seen, Git!asked, Git!readings
<1> QED BY <1>1, <1>2, PTL DEF FilesSpec

Changed == Edited \cup Pushed
\* Places of a thread: reading the status, which every one does in the end,
\* and before it the commands of its own.
Reading == {"status", "show status", "fetch", "behind", "show remote", "logs"}
Commands(kind) == CASE kind = "commit" -> {"add", "commit"} [] kind = "discard" -> {"reset", "clean"}
                    [] kind = "update" -> {"fetch all", "rebase"} [] OTHER -> {}
GitKinds == Git!Operations \cup {"none", "status"}
GitAts == Reading \cup {"end", "add", "commit", "reset", "clean", "fetch all", "rebase"}
Outputs == {"", "UNCHANGED", "CHANGED", "EVEN", "BEHIND"}
GitThreads == {t \in [kind : GitKinds, at : GitAts, ok : BOOLEAN, asked : SUBSET Changed, output : Outputs] :
                 t.at = "show status" => t.output \in {"UNCHANGED", "CHANGED"}}

GitTypeOK ==
  /\ files \subseteq Changed /\ index \subseteq Changed /\ head \subseteq Changed
  /\ stash \subseteq Changed /\ remote \subseteq Changed /\ origin \subseteq Changed
  /\ stages = Git!NoContent \/ stages \subseteq Changed
  /\ gitStatus \in {"UNKNOWN", "UNCHANGED", "CHANGED"} /\ has_remote_changes \in BOOLEAN /\ update_queued \in BOOLEAN
  /\ gitThreads \in [Git!Slots -> GitThreads]
  /\ newest \in [{"status", "remote"} -> Git!Slots \cup {0}] /\ overtaken \subseteq {"status", "remote"}

\* A thread is at a place of its kind, and one operation runs at a time.
KindsFit == \A i \in Git!Slots : gitThreads[i].kind # "none" =>
  /\ gitThreads[i].at \in Reading \cup Commands(gitThreads[i].kind) /\ gitThreads[i].kind # "canceled"
  /\ gitThreads[i].at \notin Reading => gitThreads[i].ok
OneOperation == \A i, j \in Git!Slots :
  gitThreads[i].kind \in Git!Operations /\ gitThreads[j].kind \in Git!Operations => i = j

\* What was committed is in the files, and what was saved or updated to has
\* been committed; so has what an operation that did its work was asked for.
Committed == head \subseteq files /\ kept \subseteq head /\ origin \subseteq remote
AskedOf(i) ==
  /\ gitThreads[i].kind = "commit" /\ gitThreads[i].at \in {"add", "commit"} => gitThreads[i].asked \subseteq files
  /\ gitThreads[i].kind = "commit" /\ gitThreads[i].at = "commit" => index = files
  /\ gitThreads[i].kind = "update" /\ gitThreads[i].at \in {"fetch all", "rebase"} => gitThreads[i].asked = {}
  /\ gitThreads[i].kind \in {"commit", "update"} /\ gitThreads[i].at \in Reading /\ gitThreads[i].ok
       => gitThreads[i].asked \subseteq head
Asked == \A i \in Git!Slots : AskedOf(i)

\* What the user made is in the files or the stash; what a discard is about to
\* remove is not the user's any more.
MadeKept ==
  /\ made \subseteq files \cup stash
  /\ \A i \in Git!Slots : gitThreads[i].kind = "discard" /\ gitThreads[i].at = "reset" => made \subseteq head \cup stash

\* The objects the views hold are what is stored, or an operation that has
\* changed the files will drop them.
Drops(i) ==
  \/ gitThreads[i].kind = "discard" /\ gitThreads[i].at \in Reading \cup {"clean"} /\ gitThreads[i].ok
  \/ gitThreads[i].kind = "update" /\ gitThreads[i].at \in Reading /\ gitThreads[i].ok
ObjectsFresh == stages = Git!NoContent \/ stages = files \/ \E i \in Git!Slots : Drops(i)

\* Somebody will read the status, or the last reading is that of the files, and
\* is shown, or about to be, or overtaken; the same of changes of the remote.
TrueStatus == IF files = head /\ index = head THEN "UNCHANGED" ELSE "CHANGED"
WillRead(i) == gitThreads[i].kind # "none" /\ gitThreads[i].at \notin Reading \ {"status"}
WillCompare(i) == gitThreads[i].kind # "none" /\ gitThreads[i].at \notin {"show remote", "logs"}
Pending(i, at) == i \in Git!Slots /\ gitThreads[i].kind # "none" /\ gitThreads[i].at = at
StatusShown ==
  IF newest["status"] = 0 THEN "status" \in overtaken \/ gitStatus = TrueStatus
  ELSE Pending(newest["status"], "show status") /\ gitThreads[newest["status"]].output = TrueStatus
RemoteShown ==
  IF newest["remote"] = 0 THEN "remote" \in overtaken \/ (has_remote_changes => ~(origin \subseteq head))
  ELSE /\ Pending(newest["remote"], "show remote")
       /\ gitThreads[newest["remote"]].output = "BEHIND" => ~(origin \subseteq head)
StatusFresh == update_queued \/ StatusShown \/ \E i \in Git!Slots : WillRead(i)
RemoteFresh == RemoteShown \/ \E i \in Git!Slots : WillCompare(i)
\* Who has the last reading is about to show it.
NewestPends ==
  /\ newest["status"] # 0 => Pending(newest["status"], "show status")
  /\ newest["remote"] # 0 => Pending(newest["remote"], "show remote")

PatientInv ==
  KindsFit /\ OneOperation /\ Committed /\ Asked /\ MadeKept /\ ObjectsFresh /\ StatusFresh /\ RemoteFresh /\ NewestPends
\* The inductive invariant of a directory.
GitInv == GitTypeOK /\ (gitFault = "none" => PatientInv)

\* What a step of a thread leaves alone, and what it keeps of the thread.
ThreadsStay(i) == \A j \in Git!Slots : j # i => gitThreads'[j] = gitThreads[j]
ThreadMoves(i, at) ==
  /\ gitThreads' \in [Git!Slots -> GitThreads] /\ ThreadsStay(i)
  /\ gitThreads'[i].kind = gitThreads[i].kind /\ gitThreads'[i].at = at
  /\ gitThreads'[i].asked = gitThreads[i].asked

\* A thread goes on to another command, fails, ends, or is begun.
LEMMA GitMoves ==
  ASSUME GitTypeOK, NEW i \in Git!Slots, NEW at \in GitAts \ {"show status"}, Git!To(i, at)
  PROVE ThreadMoves(i, at) /\ (gitThreads'[i].ok <=> gitThreads[i].ok)
  BY DEF GitTypeOK, GitThreads, Git!To, ThreadMoves, ThreadsStay

LEMMA GitFails ==
  ASSUME GitTypeOK, NEW i \in Git!Slots, Git!Failed(i)
  PROVE ThreadMoves(i, "status") /\ ~gitThreads'[i].ok
<1>1. "status" \in GitAts
  BY DEF GitAts, Reading
<1> QED BY <1>1 DEF GitTypeOK, GitThreads, Git!Failed, ThreadMoves, ThreadsStay

LEMMA GitEnds ==
  ASSUME GitTypeOK, NEW i \in Git!Slots, Git!End(i)
  PROVE gitThreads' \in [Git!Slots -> GitThreads] /\ ThreadsStay(i) /\ gitThreads'[i].kind = "none"
<1>1. Git!Free \in GitThreads /\ Git!Free.kind = "none"
  BY DEF Git!Free, GitThreads, GitAts, GitKinds, Outputs
<1> QED BY <1>1 DEF GitTypeOK, Git!End, ThreadsStay

LEMMA GitBegins ==
  ASSUME GitTypeOK, NEW kind \in {"status", "commit", "discard", "update"}, Git!Begin(kind)
  PROVE \E i \in Git!Slots :
          /\ gitThreads' \in [Git!Slots -> GitThreads] /\ ThreadsStay(i)
          /\ gitThreads[i].kind = "none" /\ gitThreads'[i].kind = kind /\ gitThreads'[i].at = Git!First[kind]
          /\ gitThreads'[i].ok /\ gitThreads'[i].asked = IF kind = "commit" THEN files ELSE {}
<1>1. PICK i \in Git!Slots : gitThreads[i].kind = "none" /\ gitThreads' = [gitThreads EXCEPT ![i] =
        [kind |-> kind, at |-> Git!First[kind], ok |-> TRUE, asked |-> IF kind = "commit" THEN files ELSE {}, output |-> ""]]
  BY DEF Git!Begin, Git!Slot, Git!Running
<1>2. kind \in GitKinds
  BY DEF GitKinds, Git!Operations
<1>5. /\ Git!First["status"] = "status" /\ Git!First["commit"] = "add"
      /\ Git!First["discard"] = "reset" /\ Git!First["update"] = "fetch all"
  BY DEF Git!First
<1>4. Git!First[kind] \in GitAts \ {"show status"}
  BY <1>5 DEF GitAts, Reading
<1>3. [kind |-> kind, at |-> Git!First[kind], ok |-> TRUE, asked |-> IF kind = "commit" THEN files ELSE {}, output |-> ""] \in GitThreads
  BY <1>2, <1>4 DEF GitThreads, GitTypeOK, Outputs
<1> QED BY <1>1, <1>3 DEF GitTypeOK, ThreadsStay

\* A command says something, which is the last reading then, or it is shown.
LEMMA GitSays ==
  ASSUME GitTypeOK, NEW i \in Git!Slots, NEW what \in {"status", "remote"}, NEW output \in Outputs \ {""},
         NEW at \in {"show status", "show remote"}, at = "show status" => output \in {"UNCHANGED", "CHANGED"},
         Git!Says(i, what, output, at)
  PROVE /\ ThreadMoves(i, at) /\ (gitThreads'[i].ok <=> gitThreads[i].ok) /\ gitThreads'[i].output = output
        /\ newest' \in [{"status", "remote"} -> Git!Slots \cup {0}] /\ newest'[what] = i
        /\ \A other \in {"status", "remote"} : other # what => newest'[other] = newest[other]
        /\ overtaken' = overtaken
<1>1. /\ gitThreads' = [gitThreads EXCEPT ![i].at = at, ![i].output = output]
      /\ newest' = [newest EXCEPT ![what] = i] /\ overtaken' = overtaken
  BY DEF Git!Says
<1>2. at \in GitAts
  BY DEF GitAts, Reading
<1>3. ThreadMoves(i, at) /\ (gitThreads'[i].ok <=> gitThreads[i].ok) /\ gitThreads'[i].output = output
  BY <1>1, <1>2 DEF GitTypeOK, GitThreads, ThreadMoves, ThreadsStay
<1> QED BY <1>1, <1>3 DEF GitTypeOK

LEMMA GitShows ==
  ASSUME GitTypeOK, NEW i \in Git!Slots, NEW what \in {"status", "remote"}, NEW at \in {"fetch", "logs"},
         Git!Shows(i, what, at)
  PROVE /\ ThreadMoves(i, at) /\ (gitThreads'[i].ok <=> gitThreads[i].ok)
        /\ newest' \in [{"status", "remote"} -> Git!Slots \cup {0}] /\ overtaken' \subseteq {"status", "remote"}
        /\ newest'[what] = IF newest[what] = i THEN 0 ELSE newest[what]
        /\ newest[what] # i => what \in overtaken'
        /\ \A other \in {"status", "remote"} :
             other # what => newest'[other] = newest[other] /\ (other \in overtaken' <=> other \in overtaken)
<1>1. /\ gitThreads' = [gitThreads EXCEPT ![i].at = at, ![i].output = ""]
      /\ newest' = [newest EXCEPT ![what] = IF @ = i THEN 0 ELSE @]
      /\ overtaken' = IF newest[what] = i THEN overtaken \ {what} ELSE overtaken \cup {what}
  BY DEF Git!Shows
<1>2. at \in GitAts /\ "" \in Outputs
  BY DEF GitAts, Reading, Outputs
<1>3. ThreadMoves(i, at) /\ (gitThreads'[i].ok <=> gitThreads[i].ok)
  BY <1>1, <1>2 DEF GitTypeOK, GitThreads, ThreadMoves, ThreadsStay
<1>4. /\ newest' \in [{"status", "remote"} -> Git!Slots \cup {0}] /\ newest'[what] = IF newest[what] = i THEN 0 ELSE newest[what]
      /\ \A other \in {"status", "remote"} : other # what => newest'[other] = newest[other]
  BY <1>1 DEF GitTypeOK
<1> QED BY <1>1, <1>3, <1>4 DEF GitTypeOK

\* Where no reading is made or shown, it stays so.
LEMMA ReadingsStay ==
  ASSUME PatientInv, NEW i \in Git!Slots, ThreadsStay(i), newest' = newest, overtaken' = overtaken,
         gitThreads[i].kind = "none" \/ gitThreads[i].at \notin {"show status", "show remote"}
  PROVE /\ NewestPends'
        /\ TrueStatus' = TrueStatus /\ gitStatus' = gitStatus => (StatusShown => StatusShown')
        /\ origin' = origin /\ head' = head /\ has_remote_changes' = has_remote_changes => (RemoteShown => RemoteShown')
<1>1. \A j : \A at \in {"show status", "show remote"} : Pending(j, at) => j # i /\ gitThreads'[j] = gitThreads[j] /\ Pending(j, at)'
  BY DEF Pending, ThreadsStay
<1>2. NewestPends'
  BY <1>1 DEF PatientInv, NewestPends
<1>3. ASSUME TrueStatus' = TrueStatus, gitStatus' = gitStatus, StatusShown PROVE StatusShown'
  BY <1>1, <1>3 DEF StatusShown
<1>4. ASSUME origin' = origin, head' = head, has_remote_changes' = has_remote_changes, RemoteShown PROVE RemoteShown'
  BY <1>1, <1>4 DEF RemoteShown
<1> QED BY <1>2, <1>3, <1>4

\* Operations stay one at a time, and kinds fit, when a thread moves on.
LEMMA MovesFit ==
  ASSUME GitTypeOK, KindsFit, OneOperation, NEW i \in Git!Slots, NEW at \in GitAts, ThreadMoves(i, at),
         at \in Reading \cup Commands(gitThreads[i].kind), at \notin Reading => gitThreads'[i].ok,
         gitThreads[i].kind # "none"
  PROVE KindsFit' /\ OneOperation'
<1>1. \A j \in Git!Slots : gitThreads'[j].kind = gitThreads[j].kind
  BY DEF ThreadMoves, ThreadsStay
<1>2. OneOperation'
  BY <1>1 DEF OneOperation
<1>3. ASSUME NEW j \in Git!Slots, gitThreads'[j].kind # "none"
      PROVE /\ gitThreads'[j].at \in Reading \cup Commands(gitThreads'[j].kind) /\ gitThreads'[j].kind # "canceled"
            /\ gitThreads'[j].at \notin Reading => gitThreads'[j].ok
  <2>1. CASE j = i
    BY <2>1, <1>1 DEF ThreadMoves, KindsFit
  <2>2. CASE j # i
    BY <2>2, <1>3 DEF ThreadMoves, ThreadsStay, KindsFit
  <2> QED BY <2>1, <2>2
<1> QED BY <1>2, <1>3 DEF KindsFit

\* While a thread reads, what others rely on stays as it is.
LEMMA ReadKeeps ==
  ASSUME GitTypeOK, PatientInv, NEW i \in Git!Slots, NEW at \in Reading, ThreadMoves(i, at), gitThreads[i].kind # "none",
         gitThreads'[i].ok <=> gitThreads[i].ok, gitThreads[i].at \in Reading, origin' \subseteq remote,
         UNCHANGED <<files, index, head, stash, remote, stages, made, kept>>
  PROVE KindsFit' /\ OneOperation' /\ Committed' /\ Asked' /\ MadeKept' /\ ObjectsFresh'
<1>1. KindsFit' /\ OneOperation'
  BY MovesFit DEF PatientInv, GitAts
<1>2. Committed'
  BY DEF PatientInv, Committed
<1>3. Asked'
  <2> SUFFICES ASSUME NEW j \in Git!Slots PROVE AskedOf(j)'
    BY DEF Asked
  <2>1. CASE j = i
    BY <2>1 DEF PatientInv, Asked, AskedOf, ThreadMoves, Reading
  <2>2. CASE j # i
    BY <2>2 DEF PatientInv, Asked, AskedOf, ThreadMoves, ThreadsStay
  <2> QED BY <2>1, <2>2
<1>4. MadeKept'
  <2>1. \A j \in Git!Slots : gitThreads'[j].kind = "discard" /\ gitThreads'[j].at = "reset"
          => gitThreads[j].kind = "discard" /\ gitThreads[j].at = "reset"
    BY DEF ThreadMoves, ThreadsStay, Reading
  <2> QED BY <2>1 DEF PatientInv, MadeKept
<1>5. ObjectsFresh'
  <2>1. \A j \in Git!Slots : Drops(j) => Drops(j)'
    BY DEF ThreadMoves, ThreadsStay, Drops
  <2> QED BY <2>1 DEF PatientInv, ObjectsFresh
<1> QED BY <1>1, <1>2, <1>3, <1>4, <1>5

\* A command that fails changes nothing, and the status is read after it.
LEMMA GitFailKeeps ==
  ASSUME GitTypeOK, PatientInv, NEW i \in Git!Slots, ThreadMoves(i, "status"), ~gitThreads'[i].ok,
         gitThreads[i].kind # "none", gitThreads[i].at \notin Reading \cup {"clean"}, origin' = origin,
         UNCHANGED <<files, index, head, stash, remote, stages, gitStatus, has_remote_changes, update_queued, newest, overtaken,
                     made, kept>>
  PROVE PatientInv'
<1>1. KindsFit' /\ OneOperation'
  BY MovesFit DEF PatientInv, GitAts, Reading
<1>2. Committed'
  BY DEF PatientInv, Committed
<1>3. Asked'
  <2> SUFFICES ASSUME NEW j \in Git!Slots PROVE AskedOf(j)'
    BY DEF Asked
  <2>1. CASE j = i
    BY <2>1 DEF AskedOf, ThreadMoves, Reading
  <2>2. CASE j # i
    BY <2>2 DEF PatientInv, Asked, AskedOf, ThreadMoves, ThreadsStay
  <2> QED BY <2>1, <2>2
<1>4. MadeKept'
  <2>1. \A j \in Git!Slots : gitThreads'[j].kind = "discard" /\ gitThreads'[j].at = "reset"
          => gitThreads[j].kind = "discard" /\ gitThreads[j].at = "reset"
    BY DEF ThreadMoves, ThreadsStay
  <2> QED BY <2>1 DEF PatientInv, MadeKept
<1>5. ObjectsFresh'
  <2>1. \A j \in Git!Slots : Drops(j) => Drops(j)'
    BY DEF ThreadMoves, ThreadsStay, Drops
  <2> QED BY <2>1 DEF PatientInv, ObjectsFresh
<1>6. WillRead(i)' /\ WillCompare(i)'
  BY DEF ThreadMoves, WillRead, WillCompare, Reading
<1>7. StatusFresh' /\ RemoteFresh'
  BY <1>6 DEF StatusFresh, RemoteFresh
<1>8. NewestPends'
  BY ReadingsStay DEF ThreadMoves, Reading
<1> QED BY <1>1, <1>2, <1>3, <1>4, <1>5, <1>7, <1>8 DEF PatientInv

\* Reading the status, and what the remote has.
LEMMA GitStatusKeeps == ASSUME GitInv, NEW i \in Git!Slots, Git!Status(i) PROVE GitInv'
<1>1. GitTypeOK /\ gitThreads[i].kind # "none" /\ gitThreads[i].at = "status" /\ Git!Says(i, "status", TrueStatus, "show status")
      /\ UNCHANGED <<files, index, head, stash, remote, origin, stages, gitStatus, has_remote_changes, update_queued, gitFault,
                     made, kept>>
  BY DEF GitInv, Git!Status, Git!At, Git!Running, TrueStatus, Git!disk, Git!seen, Git!asked
<1>2. /\ ThreadMoves(i, "show status") /\ (gitThreads'[i].ok <=> gitThreads[i].ok) /\ gitThreads'[i].output = TrueStatus
      /\ newest' \in [{"status", "remote"} -> Git!Slots \cup {0}] /\ newest'["status"] = i /\ newest'["remote"] = newest["remote"]
      /\ overtaken' = overtaken
  <2>1. TrueStatus \in Outputs \ {""} /\ TrueStatus \in {"UNCHANGED", "CHANGED"}
    BY DEF TrueStatus, Outputs
  <2> QED BY <1>1, <2>1, GitSays
<1>3. GitTypeOK'
  BY <1>1, <1>2 DEF GitTypeOK, ThreadMoves
<1>4. SUFFICES ASSUME gitFault = "none" PROVE PatientInv'
  BY <1>1, <1>3 DEF GitInv
<1>5. PatientInv
  BY <1>4 DEF GitInv
<1>6. KindsFit' /\ OneOperation' /\ Committed' /\ Asked' /\ MadeKept' /\ ObjectsFresh'
  BY <1>1, <1>2, <1>5, ReadKeeps DEF Reading, PatientInv, Committed
<1>7. Pending(i, "show status")' /\ TrueStatus' = TrueStatus
  BY <1>1, <1>2 DEF Pending, ThreadMoves, TrueStatus
<1>8. 0 \notin Git!Slots
  BY DEF Git!Slots
<1>9. StatusFresh'
  BY <1>2, <1>7, <1>8 DEF StatusFresh, StatusShown
<1>10. RemoteFresh'
  <2>1. WillCompare(i)'
    BY <1>1, <1>2 DEF ThreadMoves, WillCompare
  <2> QED BY <2>1 DEF RemoteFresh
<1>11. NewestPends'
  <2>1. newest["remote"] # 0 => Pending(newest["remote"], "show remote")'
    BY <1>1, <1>2, <1>5 DEF PatientInv, NewestPends, Pending, ThreadMoves, ThreadsStay
  <2> QED BY <1>2, <1>7, <2>1 DEF NewestPends
<1> QED BY <1>6, <1>9, <1>10, <1>11 DEF PatientInv

LEMMA GitShowStatusKeeps == ASSUME GitInv, NEW i \in Git!Slots, Git!ShowStatus(i) PROVE GitInv'
<1>1. GitTypeOK /\ gitThreads[i].kind # "none" /\ gitThreads[i].at = "show status" /\ Git!Shows(i, "status", "fetch")
      /\ gitStatus' = gitThreads[i].output
      /\ UNCHANGED <<files, index, head, stash, remote, origin, stages, has_remote_changes, update_queued, gitFault, made, kept>>
  BY DEF GitInv, Git!ShowStatus, Git!At, Git!Running, Git!disk, Git!asked
<1>2. /\ ThreadMoves(i, "fetch") /\ (gitThreads'[i].ok <=> gitThreads[i].ok)
      /\ newest' \in [{"status", "remote"} -> Git!Slots \cup {0}] /\ overtaken' \subseteq {"status", "remote"}
      /\ newest'["status"] = IF newest["status"] = i THEN 0 ELSE newest["status"]
      /\ newest["status"] # i => "status" \in overtaken'
      /\ newest'["remote"] = newest["remote"] /\ ("remote" \in overtaken' <=> "remote" \in overtaken)
  BY <1>1, GitShows
<1>3. GitTypeOK'
  BY <1>1, <1>2 DEF GitTypeOK, GitThreads, ThreadMoves
<1>4. SUFFICES ASSUME gitFault = "none" PROVE PatientInv'
  BY <1>1, <1>3 DEF GitInv
<1>5. PatientInv
  BY <1>4 DEF GitInv
<1>6. KindsFit' /\ OneOperation' /\ Committed' /\ Asked' /\ MadeKept' /\ ObjectsFresh'
  BY <1>1, <1>2, <1>5, ReadKeeps DEF Reading, PatientInv, Committed
<1>7. TrueStatus' = TrueStatus
  BY <1>1 DEF TrueStatus
<1>8. \A j \in Git!Slots, at \in {"show status", "show remote"} :
        Pending(j, at) /\ (j # i \/ at # "show status") => gitThreads'[j] = gitThreads[j] /\ Pending(j, at)'
  BY <1>1, <1>2 DEF Pending, ThreadMoves, ThreadsStay
<1>9. NewestPends'
  <2>1. newest'["status"] # 0 => Pending(newest["status"], "show status") /\ newest["status"] # i /\ newest'["status"] = newest["status"]
    BY <1>2, <1>5 DEF PatientInv, NewestPends
  <2>2. newest["remote"] # 0 => Pending(newest["remote"], "show remote") /\ newest["remote"] \in Git!Slots
    BY <1>5 DEF PatientInv, NewestPends, Pending
  <2>3. newest["status"] # 0 => newest["status"] \in Git!Slots
    BY <1>5 DEF PatientInv, NewestPends, Pending
  <2> QED BY <1>2, <1>8, <2>1, <2>2, <2>3 DEF NewestPends
<1>10. StatusFresh'
  <2>1. \A j \in Git!Slots : WillRead(j) => WillRead(j)'
    BY <1>1, <1>2 DEF ThreadMoves, ThreadsStay, WillRead, Reading
  <2>2. StatusShown => StatusShown'
    <3>1. CASE newest["status"] = i
      <4>1. newest["status"] # 0 /\ newest'["status"] = 0
        BY <1>2, <3>1 DEF Git!Slots
      <4> QED BY <1>1, <1>7, <3>1, <4>1 DEF StatusShown
    <3>2. CASE newest["status"] # i /\ newest["status"] = 0
      BY <1>2, <3>2 DEF StatusShown
    <3>3. CASE newest["status"] # i /\ newest["status"] # 0
      <4>1. ASSUME StatusShown PROVE newest["status"] \in Git!Slots /\ Pending(newest["status"], "show status")
        BY <3>3, <4>1 DEF StatusShown, Pending
      <4> QED BY <1>2, <1>7, <1>8, <3>3, <4>1 DEF StatusShown
    <3> QED BY <3>1, <3>2, <3>3
  <2> QED BY <1>1, <1>5, <2>1, <2>2 DEF PatientInv, StatusFresh
<1>11. RemoteFresh'
  <2>1. WillCompare(i)'
    BY <1>1, <1>2 DEF ThreadMoves, WillCompare
  <2> QED BY <2>1 DEF RemoteFresh
<1> QED BY <1>6, <1>9, <1>10, <1>11 DEF PatientInv

LEMMA NoSlotZero == 0 \notin Git!Slots
BY DEF Git!Slots

\* What a thread has read of the remote, true or "EVEN", is the last reading.
LEMMA RemoteSaid ==
  ASSUME GitInv, NEW i \in Git!Slots, NEW output \in {"EVEN", "BEHIND"}, Git!Says(i, "remote", output, "show remote"),
         gitThreads[i].kind # "none", gitThreads[i].at \in {"fetch", "behind"}, output = "BEHIND" => ~(origin \subseteq head),
         UNCHANGED <<files, index, head, stash, remote, origin, stages, gitStatus, has_remote_changes, update_queued, gitFault,
                     made, kept>>
  PROVE GitInv'
<1>1. /\ ThreadMoves(i, "show remote") /\ (gitThreads'[i].ok <=> gitThreads[i].ok) /\ gitThreads'[i].output = output
      /\ newest' \in [{"status", "remote"} -> Git!Slots \cup {0}] /\ newest'["remote"] = i /\ newest'["status"] = newest["status"]
      /\ overtaken' = overtaken
  <2>1. output \in Outputs \ {""}
    BY DEF Outputs
  <2> QED BY <2>1, GitSays DEF GitInv
<1>2. GitTypeOK'
  BY <1>1 DEF GitInv, GitTypeOK, ThreadMoves
<1>3. SUFFICES ASSUME gitFault = "none" PROVE PatientInv'
  BY <1>2 DEF GitInv
<1>4. PatientInv /\ GitTypeOK
  BY <1>3 DEF GitInv
<1>5. KindsFit' /\ OneOperation' /\ Committed' /\ Asked' /\ MadeKept' /\ ObjectsFresh'
  BY <1>1, <1>4, ReadKeeps DEF Reading, PatientInv, Committed
<1>6. Pending(i, "show remote")' /\ TrueStatus' = TrueStatus /\ i # 0
  BY <1>1, NoSlotZero DEF Pending, ThreadMoves, TrueStatus
<1>7. \A j : Pending(j, "show status") => gitThreads'[j] = gitThreads[j] /\ Pending(j, "show status")'
  BY <1>1 DEF Pending, ThreadMoves, ThreadsStay
<1>8. StatusFresh'
  <2>1. \A j \in Git!Slots : WillRead(j) => WillRead(j)'
    BY <1>1 DEF ThreadMoves, ThreadsStay, WillRead, Reading
  <2>2. StatusShown => StatusShown'
    BY <1>1, <1>6, <1>7 DEF StatusShown
  <2> QED BY <1>4, <2>1, <2>2 DEF PatientInv, StatusFresh
<1>9. RemoteFresh'
  BY <1>1, <1>6 DEF RemoteFresh, RemoteShown
<1>10. NewestPends'
  BY <1>1, <1>4, <1>6, <1>7 DEF PatientInv, NewestPends
<1> QED BY <1>5, <1>8, <1>9, <1>10 DEF PatientInv

LEMMA GitFetchKeeps == ASSUME GitInv, NEW i \in Git!Slots, Git!Fetch(i) PROVE GitInv'
<1>1. /\ GitTypeOK /\ gitThreads[i].kind # "none" /\ gitThreads[i].at = "fetch"
      /\ \/ origin' = remote /\ Git!To(i, "behind") /\ newest' = newest /\ overtaken' = overtaken
         \/ origin' = origin /\ Git!Says(i, "remote", "EVEN", "show remote")
      /\ UNCHANGED <<files, index, head, stash, remote, stages, gitStatus, has_remote_changes, update_queued, gitFault, made, kept>>
  BY DEF GitInv, Git!Fetch, Git!At, Git!Running, Git!seen, Git!asked, Git!readings
<1>2. CASE origin' = origin /\ Git!Says(i, "remote", "EVEN", "show remote")
  BY <1>1, <1>2, RemoteSaid
<1>3. CASE origin' = remote /\ Git!To(i, "behind") /\ newest' = newest /\ overtaken' = overtaken
  <2>1. ThreadMoves(i, "behind") /\ (gitThreads'[i].ok <=> gitThreads[i].ok)
    BY <1>1, <1>3, GitMoves DEF GitAts, Reading
  <2>2. GitTypeOK'
    BY <1>1, <1>3, <2>1 DEF GitTypeOK, ThreadMoves
  <2>3. SUFFICES ASSUME gitFault = "none" PROVE PatientInv'
    BY <1>1, <2>2 DEF GitInv
  <2>4. PatientInv
    BY <2>3 DEF GitInv
  <2>5. KindsFit' /\ OneOperation' /\ Committed' /\ Asked' /\ MadeKept' /\ ObjectsFresh'
    BY <1>1, <1>3, <2>1, <2>4, ReadKeeps DEF Reading
  <2>6. NewestPends' /\ (StatusShown => StatusShown')
    BY <1>1, <1>3, <2>1, <2>4, ReadingsStay DEF ThreadMoves, TrueStatus
  <2>7. StatusFresh'
    <3>1. \A j \in Git!Slots : WillRead(j) => WillRead(j)'
      BY <1>1, <2>1 DEF ThreadMoves, ThreadsStay, WillRead, Reading
    <3> QED BY <1>1, <2>4, <2>6, <3>1 DEF PatientInv, StatusFresh
  <2>8. RemoteFresh'
    <3>1. WillCompare(i)'
      BY <1>1, <2>1 DEF ThreadMoves, WillCompare
    <3> QED BY <3>1 DEF RemoteFresh
  <2> QED BY <2>5, <2>6, <2>7, <2>8 DEF PatientInv
<1> QED BY <1>1, <1>2, <1>3

LEMMA GitBehindKeeps == ASSUME GitInv, NEW i \in Git!Slots, Git!Behind(i) PROVE GitInv'
<1>1. PICK output \in {"EVEN", "BEHIND"} :
        Git!Says(i, "remote", output, "show remote") /\ (output = "BEHIND" => ~(origin \subseteq head))
  BY DEF Git!Behind
<1>2. /\ gitThreads[i].kind # "none" /\ gitThreads[i].at = "behind"
      /\ UNCHANGED <<files, index, head, stash, remote, origin, stages, gitStatus, has_remote_changes, update_queued, gitFault,
                     made, kept>>
  BY DEF Git!Behind, Git!At, Git!Running, Git!disk, Git!seen, Git!asked
<1> QED BY <1>1, <1>2, RemoteSaid

LEMMA GitShowRemoteKeeps == ASSUME GitInv, NEW i \in Git!Slots, Git!ShowRemote(i) PROVE GitInv'
<1>1. GitTypeOK /\ gitThreads[i].kind # "none" /\ gitThreads[i].at = "show remote" /\ Git!Shows(i, "remote", "logs")
      /\ has_remote_changes' = (gitThreads[i].output = "BEHIND")
      /\ UNCHANGED <<files, index, head, stash, remote, origin, stages, gitStatus, update_queued, gitFault, made, kept>>
  BY DEF GitInv, Git!ShowRemote, Git!At, Git!Running, Git!disk, Git!asked
<1>2. /\ ThreadMoves(i, "logs") /\ (gitThreads'[i].ok <=> gitThreads[i].ok)
      /\ newest' \in [{"status", "remote"} -> Git!Slots \cup {0}] /\ overtaken' \subseteq {"status", "remote"}
      /\ newest'["remote"] = IF newest["remote"] = i THEN 0 ELSE newest["remote"]
      /\ newest["remote"] # i => "remote" \in overtaken'
      /\ newest'["status"] = newest["status"] /\ ("status" \in overtaken' <=> "status" \in overtaken)
  BY <1>1, GitShows
<1>3. GitTypeOK'
  BY <1>1, <1>2 DEF GitTypeOK, ThreadMoves
<1>4. SUFFICES ASSUME gitFault = "none" PROVE PatientInv'
  BY <1>1, <1>3 DEF GitInv
<1>5. PatientInv
  BY <1>4 DEF GitInv
<1>6. KindsFit' /\ OneOperation' /\ Committed' /\ Asked' /\ MadeKept' /\ ObjectsFresh'
  BY <1>1, <1>2, <1>5, ReadKeeps DEF Reading, PatientInv, Committed
<1>7. TrueStatus' = TrueStatus
  BY <1>1 DEF TrueStatus
<1>8. \A j \in Git!Slots, at \in {"show status", "show remote"} :
        Pending(j, at) /\ (j # i \/ at # "show remote") => gitThreads'[j] = gitThreads[j] /\ Pending(j, at)'
  BY <1>1, <1>2 DEF Pending, ThreadMoves, ThreadsStay
<1>9. NewestPends'
  <2>1. newest'["remote"] # 0 => Pending(newest["remote"], "show remote") /\ newest["remote"] # i /\ newest'["remote"] = newest["remote"]
    BY <1>2, <1>5 DEF PatientInv, NewestPends
  <2>2. newest["status"] # 0 => Pending(newest["status"], "show status") /\ newest["status"] \in Git!Slots
    BY <1>5 DEF PatientInv, NewestPends, Pending
  <2>3. newest["remote"] # 0 => newest["remote"] \in Git!Slots
    BY <1>5 DEF PatientInv, NewestPends, Pending
  <2> QED BY <1>2, <1>8, <2>1, <2>2, <2>3 DEF NewestPends
<1>10. StatusFresh'
  <2>1. \A j \in Git!Slots : WillRead(j) => WillRead(j)'
    BY <1>1, <1>2 DEF ThreadMoves, ThreadsStay, WillRead, Reading
  <2>2. StatusShown => StatusShown'
    <3>1. CASE newest["status"] = 0
      BY <1>1, <1>2, <1>7, <3>1 DEF StatusShown
    <3>2. CASE newest["status"] # 0
      <4>1. ASSUME StatusShown PROVE newest["status"] \in Git!Slots /\ Pending(newest["status"], "show status")
        BY <3>2, <4>1 DEF StatusShown, Pending
      <4> QED BY <1>2, <1>7, <1>8, <3>2, <4>1 DEF StatusShown
    <3> QED BY <3>1, <3>2
  <2> QED BY <1>1, <1>5, <2>1, <2>2 DEF PatientInv, StatusFresh
<1>11. RemoteFresh'
  <2>1. \A j \in Git!Slots : WillCompare(j) => WillCompare(j)'
    BY <1>1, <1>2 DEF ThreadMoves, ThreadsStay, WillCompare
  <2>2. RemoteShown => RemoteShown'
    <3>1. CASE newest["remote"] = i
      <4>1. newest["remote"] # 0 /\ newest'["remote"] = 0
        BY <1>2, <3>1 DEF Git!Slots
      <4> QED BY <1>1, <3>1, <4>1 DEF RemoteShown
    <3>2. CASE newest["remote"] # i /\ newest["remote"] = 0
      BY <1>2, <3>2 DEF RemoteShown
    <3>3. CASE newest["remote"] # i /\ newest["remote"] # 0
      <4>1. ASSUME RemoteShown PROVE newest["remote"] \in Git!Slots /\ Pending(newest["remote"], "show remote")
        BY <3>3, <4>1 DEF RemoteShown, Pending
      <4> QED BY <1>1, <1>2, <1>8, <3>3, <4>1 DEF RemoteShown
    <3> QED BY <3>1, <3>2, <3>3
  <2> QED BY <1>5, <2>1, <2>2 DEF PatientInv, RemoteFresh
<1> QED BY <1>6, <1>9, <1>10, <1>11 DEF PatientInv

\* The end: what was asked for has been committed, and objects that are no
\* longer true are dropped.
LEMMA GitEndKeeps == ASSUME GitInv, NEW i \in Git!Slots, Git!Logs(i) \/ Git!CompleteProcess(i) PROVE GitInv'
<1>1. /\ GitTypeOK /\ gitThreads[i].kind # "none" /\ gitThreads[i].at = "logs" /\ Git!End(i)
      /\ UNCHANGED <<files, index, head, stash, remote, origin, gitStatus, has_remote_changes, update_queued, newest, overtaken,
                     gitFault, made>>
  BY DEF GitInv, Git!Logs, Git!CompleteProcess, Git!At, Git!Running, Git!disk, Git!readings
<1>0. ASSUME NEW kinds \in SUBSET {"commit", "update"}, Git!Keep(i, kinds)
      PROVE kept' = kept \/ (gitThreads[i].kind \in {"commit", "update"} /\ gitThreads[i].ok /\ kept' = kept \cup gitThreads[i].asked)
  <2>1. CASE gitThreads[i].kind \in kinds /\ gitThreads[i].ok
    BY <1>0, <2>1 DEF Git!Keep
  <2>2. CASE ~(gitThreads[i].kind \in kinds /\ gitThreads[i].ok)
    BY <1>0, <2>2 DEF Git!Keep
  <2> QED BY <2>1, <2>2
<1>2. kept' = kept \/ (gitThreads[i].kind \in {"commit", "update"} /\ gitThreads[i].ok /\ kept' = kept \cup gitThreads[i].asked)
  BY <1>0 DEF Git!Logs, Git!CompleteProcess
<1>3. stages' = Git!NoContent \/ (stages' = stages /\ ~Drops(i))
  <2>1. CASE gitThreads[i].ok
    BY <1>1, <2>1 DEF Git!Logs, Git!CompleteProcess, Drops
  <2>2. CASE ~gitThreads[i].ok
    BY <1>1, <2>2 DEF Git!Logs, Git!CompleteProcess, Drops
  <2> QED BY <2>1, <2>2
<1>4. gitThreads' \in [Git!Slots -> GitThreads] /\ ThreadsStay(i) /\ gitThreads'[i].kind = "none"
  BY <1>1, GitEnds
<1>5. GitTypeOK'
  BY <1>1, <1>3, <1>4 DEF GitTypeOK
<1>6. SUFFICES ASSUME gitFault = "none" PROVE PatientInv'
  BY <1>1, <1>5 DEF GitInv
<1>7. PatientInv
  BY <1>6 DEF GitInv
<1>8. \A j \in Git!Slots : gitThreads'[j].kind # "none" => j # i /\ gitThreads'[j] = gitThreads[j]
  BY <1>4 DEF ThreadsStay
<1>9. KindsFit'
  BY <1>7, <1>8 DEF PatientInv, KindsFit
<1>10. OneOperation'
  BY <1>7, <1>8 DEF PatientInv, OneOperation, Git!Operations
<1>11. Committed'
  <2>1. gitThreads[i].kind \in {"commit", "update"} /\ gitThreads[i].ok => gitThreads[i].asked \subseteq head
    BY <1>1, <1>7 DEF PatientInv, Asked, AskedOf, Reading
  <2> QED BY <1>1, <1>2, <1>7, <2>1 DEF PatientInv, Committed
<1>12. Asked'
  BY <1>1, <1>7, <1>8 DEF PatientInv, Asked, AskedOf
<1>13. MadeKept'
  BY <1>1, <1>7, <1>8 DEF PatientInv, MadeKept
<1>14. ObjectsFresh'
  <2>1. \A j \in Git!Slots : Drops(j) => j = i \/ Drops(j)'
    BY <1>4 DEF ThreadsStay, Drops
  <2> QED BY <1>1, <1>3, <1>7, <2>1 DEF PatientInv, ObjectsFresh
<1>15. NewestPends' /\ (StatusShown => StatusShown') /\ (RemoteShown => RemoteShown')
  BY <1>1, <1>4, <1>7, ReadingsStay DEF TrueStatus
<1>16. StatusFresh' /\ RemoteFresh'
  <2>1. \A j \in Git!Slots : (WillRead(j) => WillRead(j)') /\ (WillCompare(j) => WillCompare(j)')
    BY <1>1, <1>4 DEF ThreadsStay, WillRead, WillCompare, Reading
  <2> QED BY <1>1, <1>7, <1>15, <2>1 DEF PatientInv, StatusFresh, RemoteFresh
<1> QED BY <1>9, <1>10, <1>11, <1>12, <1>13, <1>14, <1>15, <1>16 DEF PatientInv

\* A thread begins: an operation only when there is none, a discard when what
\* it removes is not the user's any more.
LEMMA GitBegun ==
  ASSUME GitTypeOK, PatientInv, NEW kind \in {"status", "commit", "discard", "update"}, Git!Begin(kind),
         kind # "status" => ~Git!Busy, made' \subseteq made, kind = "discard" => made' \subseteq head \cup stash,
         UNCHANGED <<files, index, head, stash, remote, origin, stages, gitStatus, has_remote_changes, newest, overtaken, kept>>
  PROVE PatientInv'
<1>1. PICK i \in Git!Slots :
        /\ gitThreads' \in [Git!Slots -> GitThreads] /\ ThreadsStay(i)
        /\ gitThreads[i].kind = "none" /\ gitThreads'[i].kind = kind /\ gitThreads'[i].at = Git!First[kind]
        /\ gitThreads'[i].ok /\ gitThreads'[i].asked = IF kind = "commit" THEN files ELSE {}
  BY GitBegins
<1>2. /\ Git!First["status"] = "status" /\ Git!First["commit"] = "add"
      /\ Git!First["discard"] = "reset" /\ Git!First["update"] = "fetch all"
  BY DEF Git!First
<1>3. \A j \in Git!Slots : j # i => gitThreads'[j] = gitThreads[j]
  BY <1>1 DEF ThreadsStay
<1>4. kind # "status" => \A j \in Git!Slots : gitThreads[j].kind \notin Git!Operations
  BY DEF Git!Busy
<1>5. gitThreads'[i].at \in Reading \cup Commands(gitThreads'[i].kind) /\ gitThreads'[i].kind # "canceled"
  BY <1>1, <1>2 DEF Reading, Commands
<1>6. KindsFit'
  BY <1>1, <1>3, <1>5 DEF PatientInv, KindsFit
<1>7. OneOperation'
  BY <1>1, <1>3, <1>4 DEF PatientInv, OneOperation, Git!Operations
<1>8. Committed'
  BY DEF PatientInv, Committed
<1>9. Asked'
  <2> SUFFICES ASSUME NEW j \in Git!Slots PROVE AskedOf(j)'
    BY DEF Asked
  <2>1. CASE j = i
    BY <1>1, <1>2, <2>1 DEF AskedOf, Reading
  <2>2. CASE j # i
    BY <1>3, <2>2 DEF PatientInv, Asked, AskedOf
  <2> QED BY <2>1, <2>2
<1>10. MadeKept'
  <2>1. \A j \in Git!Slots : gitThreads'[j].kind = "discard" /\ gitThreads'[j].at = "reset"
          => kind = "discard" \/ (gitThreads[j].kind = "discard" /\ gitThreads[j].at = "reset")
    BY <1>1, <1>3
  <2> QED BY <2>1 DEF PatientInv, MadeKept
<1>11. ObjectsFresh'
  <2>1. \A j \in Git!Slots : Drops(j) => Drops(j)'
    BY <1>1, <1>3 DEF Drops
  <2> QED BY <2>1 DEF PatientInv, ObjectsFresh
<1>12. StatusFresh' /\ RemoteFresh'
  <2>1. WillRead(i)' /\ WillCompare(i)'
    BY <1>1, <1>2 DEF WillRead, WillCompare, Reading
  <2> QED BY <2>1 DEF StatusFresh, RemoteFresh
<1>13. NewestPends'
  BY <1>1, ReadingsStay
<1> QED BY <1>6, <1>7, <1>8, <1>9, <1>10, <1>11, <1>12, <1>13 DEF PatientInv

LEMMA GitButtonsKeep ==
  ASSUME GitInv, Git!Show \/ Git!CommitChanges \/ Git!DiscardChanges \/ Git!StartUpdate \/ Git!Timer
  PROVE GitInv'
<1>1. /\ GitTypeOK /\ made' \subseteq made /\ update_queued' \in BOOLEAN
      /\ UNCHANGED <<files, index, head, stash, remote, origin, stages, gitStatus, has_remote_changes, newest, overtaken, gitFault,
                     kept>>
  BY DEF GitInv, GitTypeOK, Git!Show, Git!CommitChanges, Git!DiscardChanges, Git!StartUpdate, Git!Timer, Git!disk,
     Git!seen, Git!asked, Git!readings
<1>2. PICK kind \in {"status", "commit", "discard", "update"} :
        /\ Git!Begin(kind) /\ (kind # "status" => Git!May)
        /\ kind = "discard" => made' = made \ (files \ head)
  BY DEF Git!Show, Git!CommitChanges, Git!DiscardChanges, Git!StartUpdate, Git!Timer
<1>3. GitTypeOK'
  <2>1. gitThreads' \in [Git!Slots -> GitThreads]
    BY <1>1, <1>2, GitBegins
  <2> QED BY <1>1, <2>1 DEF GitTypeOK
<1>4. SUFFICES ASSUME gitFault = "none" PROVE PatientInv'
  BY <1>1, <1>3 DEF GitInv
<1>5. PatientInv
  BY <1>4 DEF GitInv
<1>6. kind # "status" => ~Git!Busy
  BY <1>2, <1>4 DEF Git!May
<1>7. kind = "discard" => made' \subseteq head \cup stash
  BY <1>2, <1>5 DEF PatientInv, MadeKept
<1> QED BY <1>1, <1>2, <1>5, <1>6, <1>7, GitBegun

\* The user saves what the view holds, which is what is stored; somebody else
\* pushes.
LEMMA GitSaveKeeps == ASSUME GitInv, NEW e \in Edited, Git!SaveStage(e) PROVE GitInv'
<1>1. /\ GitTypeOK /\ Git!May /\ made' = made \cup {e} /\ stages' = Git!Read \cup {e} /\ files' = Git!Read \cup {e}
      /\ update_queued' = TRUE
      /\ UNCHANGED <<index, head, stash, remote, origin, gitStatus, has_remote_changes, gitThreads, newest, overtaken, gitFault, kept>>
  BY DEF GitInv, Git!SaveStage, Git!readings
<1>2. GitTypeOK'
  <2>1. Git!Read \cup {e} \subseteq Changed
    BY <1>1 DEF Git!Read, GitTypeOK, Changed
  <2> QED BY <1>1, <2>1 DEF GitTypeOK
<1>3. SUFFICES ASSUME gitFault = "none" PROVE PatientInv'
  BY <1>1, <1>2 DEF GitInv
<1>4. PatientInv
  BY <1>3 DEF GitInv
<1>5. \A j \in Git!Slots : gitThreads[j].kind \notin {"commit", "discard", "update"}
  BY <1>1, <1>3 DEF Git!May, Git!Busy, Git!Operations
<1>6. Git!Read = files
  BY <1>4, <1>5 DEF PatientInv, ObjectsFresh, Drops, Git!Read
<1>7. KindsFit' /\ OneOperation'
  BY <1>1, <1>4 DEF PatientInv, KindsFit, OneOperation
<1>8. Committed' /\ MadeKept'
  BY <1>1, <1>4, <1>5, <1>6 DEF PatientInv, Committed, MadeKept
<1>9. Asked'
  BY <1>1, <1>5 DEF Asked, AskedOf
<1>10. ObjectsFresh' /\ StatusFresh'
  BY <1>1 DEF ObjectsFresh, StatusFresh
<1>11. RemoteFresh' /\ NewestPends'
  BY <1>1, <1>4 DEF PatientInv, RemoteFresh, RemoteShown, NewestPends, Pending, WillCompare
<1> QED BY <1>7, <1>8, <1>9, <1>10, <1>11 DEF PatientInv

LEMMA GitPushKeeps == ASSUME GitInv, NEW r \in Pushed, Git!Push(r) PROVE GitInv'
<1>1. /\ remote' = remote \cup {r}
      /\ UNCHANGED <<files, index, head, stash, origin, stages, gitStatus, has_remote_changes, update_queued, gitThreads, newest,
                     overtaken, gitFault, made, kept>>
  BY DEF Git!Push, Git!seen, Git!asked, Git!readings
<1>2. GitTypeOK'
  BY <1>1 DEF GitInv, GitTypeOK, Changed
<1>3. PatientInv => PatientInv'
  BY <1>1 DEF PatientInv, KindsFit, OneOperation, Committed, Asked, AskedOf, MadeKept, ObjectsFresh, Drops,
     StatusFresh, StatusShown, TrueStatus, WillRead, RemoteFresh, RemoteShown, WillCompare, NewestPends, Pending
<1> QED BY <1>1, <1>2, <1>3 DEF GitInv

LEMMA GitStutter == ASSUME GitInv, UNCHANGED Git!vars PROVE GitInv'
<1>1. UNCHANGED <<files, index, head, stash, remote, origin, stages, gitStatus, has_remote_changes, update_queued, gitThreads, newest,
                  overtaken, gitFault, made, kept>>
  BY DEF Git!vars, Git!disk, Git!seen, Git!asked, Git!readings
<1>2. GitTypeOK'
  BY <1>1 DEF GitInv, GitTypeOK
<1>3. PatientInv => PatientInv'
  BY <1>1 DEF PatientInv, KindsFit, OneOperation, Committed, Asked, AskedOf, MadeKept, ObjectsFresh, Drops,
     StatusFresh, StatusShown, TrueStatus, WillRead, RemoteFresh, RemoteShown, WillCompare, NewestPends, Pending
<1> QED BY <1>1, <1>2, <1>3 DEF GitInv

\* The place of a thread says what operation it is, and the others are none.
LEMMA OperationAt ==
  ASSUME PatientInv, NEW i \in Git!Slots, gitThreads[i].kind # "none", gitThreads[i].at \notin Reading
  PROVE /\ gitThreads[i].ok /\ gitThreads[i].at \in Commands(gitThreads[i].kind)
        /\ gitThreads[i].kind \in {"commit", "discard", "update"}
        /\ gitThreads[i].at \in {"add", "commit"} => gitThreads[i].kind = "commit"
        /\ gitThreads[i].at \in {"reset", "clean"} => gitThreads[i].kind = "discard"
        /\ gitThreads[i].at \in {"fetch all", "rebase"} => gitThreads[i].kind = "update"
        /\ \A j \in Git!Slots : j # i => gitThreads[j].kind \notin {"commit", "discard", "update"}
<1>1. gitThreads[i].ok /\ gitThreads[i].at \in Commands(gitThreads[i].kind)
  BY DEF PatientInv, KindsFit
<1>2. /\ gitThreads[i].kind \in {"commit", "discard", "update"}
      /\ gitThreads[i].at \in {"add", "commit"} => gitThreads[i].kind = "commit"
      /\ gitThreads[i].at \in {"reset", "clean"} => gitThreads[i].kind = "discard"
      /\ gitThreads[i].at \in {"fetch all", "rebase"} => gitThreads[i].kind = "update"
  BY <1>1 DEF Commands
<1>3. \A j \in Git!Slots : j # i => gitThreads[j].kind \notin {"commit", "discard", "update"}
  BY <1>2 DEF PatientInv, OneOperation, Git!Operations
<1> QED BY <1>1, <1>2, <1>3

\* When an operation has done a command, only what its own next place asks for
\* has to be shown.
LEMMA OperationMoves ==
  ASSUME GitTypeOK, PatientInv, NEW i \in Git!Slots, NEW at \in GitAts, ThreadMoves(i, at), gitThreads[i].kind # "none",
         gitThreads[i].at \notin Reading, at \in {"status"} \cup Commands(gitThreads[i].kind), at # "reset",
         gitThreads'[i].ok, AskedOf(i)', made' = made, Committed', made \subseteq files' \cup stash',
         Drops(i)' \/ (files' = files /\ stages' = stages), newest' = newest, overtaken' = overtaken
  PROVE PatientInv'
<1>1. gitThreads[i].ok /\ \A j \in Git!Slots : j # i => gitThreads[j].kind \notin {"commit", "discard", "update"}
  BY OperationAt
<1>2. KindsFit' /\ OneOperation'
  BY MovesFit DEF PatientInv, Reading
<1>3. \A j \in Git!Slots : j # i => gitThreads'[j] = gitThreads[j] /\ gitThreads'[j].kind \notin {"commit", "discard", "update"}
  BY <1>1 DEF ThreadMoves, ThreadsStay
<1>4. Asked'
  BY <1>3 DEF Asked, AskedOf
<1>5. MadeKept'
  BY <1>3 DEF MadeKept, ThreadMoves
<1>6. ObjectsFresh'
  <2>1. CASE Drops(i)'
    BY <2>1 DEF ObjectsFresh
  <2>2. CASE ~Drops(i)'
    <3>1. \A j \in Git!Slots : ~Drops(j)'
      BY <1>3, <2>2 DEF Drops
    <3>2. \A j \in Git!Slots : j # i => ~Drops(j)
      BY <1>1 DEF Drops
    <3>3. ~Drops(i) \/ Drops(i)'
      BY <1>1, OperationAt DEF ThreadMoves, Drops, Reading, Commands
    <3> QED BY <2>2, <3>2, <3>3 DEF PatientInv, ObjectsFresh
  <2> QED BY <2>1, <2>2
<1>7. WillRead(i)' /\ WillCompare(i)'
  BY DEF ThreadMoves, WillRead, WillCompare, Reading, Commands
<1>8. StatusFresh' /\ RemoteFresh'
  BY <1>7 DEF StatusFresh, RemoteFresh
<1>9. NewestPends'
  BY ReadingsStay DEF ThreadMoves, Reading
<1> QED BY <1>2, <1>4, <1>5, <1>6, <1>8, <1>9 DEF PatientInv

\* commit_changes()
LEMMA GitAddKeeps == ASSUME GitInv, NEW i \in Git!Slots, Git!Add(i) PROVE GitInv'
<1>1. /\ GitTypeOK /\ gitThreads[i].kind # "none" /\ gitThreads[i].at = "add"
      /\ UNCHANGED <<files, head, stash, remote, origin, stages, gitStatus, has_remote_changes, update_queued, newest,
                     overtaken, gitFault, made, kept>>
      /\ \/ index' = files /\ Git!To(i, "commit")
         \/ index' = index /\ Git!Failed(i)
  BY DEF GitInv, Git!Add, Git!At, Git!Running, Git!seen, Git!asked, Git!readings
<1>2. CASE index' = index /\ Git!Failed(i)
  <2>1. ThreadMoves(i, "status") /\ ~gitThreads'[i].ok
    BY <1>1, <1>2, GitFails
  <2>2. GitTypeOK'
    BY <1>1, <1>2, <2>1 DEF GitTypeOK, ThreadMoves
  <2>3. PatientInv => PatientInv'
    BY <1>1, <1>2, <2>1, GitFailKeeps DEF Reading
  <2> QED BY <1>1, <2>2, <2>3 DEF GitInv
<1>3. CASE index' = files /\ Git!To(i, "commit")
  <2>1. "commit" \in GitAts /\ ThreadMoves(i, "commit") /\ (gitThreads'[i].ok <=> gitThreads[i].ok)
    BY <1>1, <1>3, GitMoves DEF GitAts
  <2>2. GitTypeOK'
    BY <1>1, <1>3, <2>1 DEF GitTypeOK, ThreadMoves
  <2>3. ASSUME PatientInv PROVE PatientInv'
    <3>1. gitThreads[i].ok /\ gitThreads[i].kind = "commit"
      BY <1>1, <2>3, OperationAt DEF Reading
    <3>2. AskedOf(i)'
      BY <1>1, <1>3, <2>1, <2>3, <3>1 DEF PatientInv, Asked, AskedOf, ThreadMoves, Reading
    <3>3. Committed' /\ made \subseteq files' \cup stash'
      BY <1>1, <2>3 DEF PatientInv, Committed, MadeKept
    <3>4. gitThreads[i].at \notin Reading /\ "commit" \in Commands(gitThreads[i].kind)
      BY <1>1, <3>1 DEF Reading, Commands
    <3> QED BY <1>1, <2>1, <2>3, <3>1, <3>2, <3>3, <3>4, OperationMoves
  <2> QED BY <1>1, <2>2, <2>3 DEF GitInv
<1> QED BY <1>1, <1>2, <1>3

LEMMA GitCommitKeeps == ASSUME GitInv, NEW i \in Git!Slots, Git!Commit(i) PROVE GitInv'
<1>1. /\ GitTypeOK /\ gitThreads[i].kind # "none" /\ gitThreads[i].at = "commit"
      /\ UNCHANGED <<files, index, stash, remote, origin, stages, gitStatus, has_remote_changes, update_queued, newest,
                     overtaken, gitFault, made, kept>>
      /\ \/ head' = index /\ Git!To(i, "status")
         \/ head' = head /\ Git!Failed(i)
  BY DEF GitInv, Git!Commit, Git!At, Git!Running, Git!seen, Git!asked, Git!readings
<1>2. CASE head' = head /\ Git!Failed(i)
  <2>1. ThreadMoves(i, "status") /\ ~gitThreads'[i].ok
    BY <1>1, <1>2, GitFails
  <2>2. GitTypeOK'
    BY <1>1, <1>2, <2>1 DEF GitTypeOK, ThreadMoves
  <2>3. PatientInv => PatientInv'
    BY <1>1, <1>2, <2>1, GitFailKeeps DEF Reading
  <2> QED BY <1>1, <2>2, <2>3 DEF GitInv
<1>3. CASE head' = index /\ Git!To(i, "status")
  <2>1. "status" \in GitAts /\ ThreadMoves(i, "status") /\ (gitThreads'[i].ok <=> gitThreads[i].ok)
    BY <1>1, <1>3, GitMoves DEF GitAts, Reading
  <2>2. GitTypeOK'
    BY <1>1, <1>3, <2>1 DEF GitTypeOK, ThreadMoves
  <2>3. ASSUME PatientInv PROVE PatientInv'
    <3>1. gitThreads[i].ok /\ gitThreads[i].kind = "commit"
      BY <1>1, <2>3, OperationAt DEF Reading
    <3>2. index = files /\ gitThreads[i].asked \subseteq files
      BY <1>1, <2>3, <3>1 DEF PatientInv, Asked, AskedOf
    <3>3. AskedOf(i)'
      BY <1>1, <1>3, <2>1, <3>1, <3>2 DEF AskedOf, ThreadMoves
    <3>4. Committed' /\ made \subseteq files' \cup stash'
      BY <1>1, <1>3, <2>3, <3>2 DEF PatientInv, Committed, MadeKept
    <3>5. gitThreads[i].at \notin Reading
      BY <1>1 DEF Reading
    <3> QED BY <1>1, <2>1, <2>3, <3>1, <3>3, <3>4, <3>5, OperationMoves
  <2> QED BY <1>1, <2>2, <2>3 DEF GitInv
<1> QED BY <1>1, <1>2, <1>3

\* discard_changes()
LEMMA GitResetKeeps == ASSUME GitInv, NEW i \in Git!Slots, Git!Reset(i) PROVE GitInv'
<1>1. /\ GitTypeOK /\ gitThreads[i].kind # "none" /\ gitThreads[i].at = "reset"
      /\ UNCHANGED <<head, stash, remote, origin, stages, gitStatus, has_remote_changes, update_queued, newest, overtaken,
                     gitFault, made, kept>>
      /\ \/ files' = head /\ index' = head /\ Git!To(i, "clean")
         \/ files' = files /\ index' = index /\ Git!Failed(i)
  BY DEF GitInv, Git!Reset, Git!At, Git!Running, Git!seen, Git!asked, Git!readings
<1>2. CASE files' = files /\ index' = index /\ Git!Failed(i)
  <2>1. ThreadMoves(i, "status") /\ ~gitThreads'[i].ok
    BY <1>1, <1>2, GitFails
  <2>2. GitTypeOK'
    BY <1>1, <1>2, <2>1 DEF GitTypeOK, ThreadMoves
  <2>3. PatientInv => PatientInv'
    BY <1>1, <1>2, <2>1, GitFailKeeps DEF Reading
  <2> QED BY <1>1, <2>2, <2>3 DEF GitInv
<1>3. CASE files' = head /\ index' = head /\ Git!To(i, "clean")
  <2>1. "clean" \in GitAts /\ ThreadMoves(i, "clean") /\ (gitThreads'[i].ok <=> gitThreads[i].ok)
    BY <1>1, <1>3, GitMoves DEF GitAts
  <2>2. GitTypeOK'
    BY <1>1, <1>3, <2>1 DEF GitTypeOK, ThreadMoves
  <2>3. ASSUME PatientInv PROVE PatientInv'
    <3>1. gitThreads[i].ok /\ gitThreads[i].kind = "discard"
      BY <1>1, <2>3, OperationAt DEF Reading
    <3>2. AskedOf(i)'
      BY <2>1, <3>1 DEF AskedOf, ThreadMoves
    <3>3. made \subseteq head \cup stash
      BY <1>1, <2>3, <3>1 DEF PatientInv, MadeKept
    <3>4. Committed' /\ made \subseteq files' \cup stash'
      BY <1>1, <1>3, <2>3, <3>3 DEF PatientInv, Committed
    <3>5. gitThreads[i].at \notin Reading /\ "clean" \in Commands(gitThreads[i].kind)
      BY <1>1, <3>1 DEF Reading, Commands
    <3>6. Drops(i)'
      BY <2>1, <3>1 DEF Drops, ThreadMoves
    <3> QED BY <1>1, <2>1, <2>3, <3>1, <3>2, <3>4, <3>5, <3>6, OperationMoves
  <2> QED BY <1>1, <2>2, <2>3 DEF GitInv
<1> QED BY <1>1, <1>2, <1>3

LEMMA GitCleanKeeps == ASSUME GitInv, NEW i \in Git!Slots, Git!Clean(i) PROVE GitInv'
<1>1. /\ GitTypeOK /\ gitThreads[i].kind # "none" /\ gitThreads[i].at = "clean"
      /\ UNCHANGED <<files, index, head, stash, remote, origin, stages, gitStatus, has_remote_changes, update_queued, newest,
                     overtaken, gitFault, made, kept>>
      /\ Git!To(i, "status") \/ (gitFault = "clean" /\ Git!Failed(i))
  BY DEF GitInv, Git!Clean, Git!At, Git!Running, Git!disk, Git!seen, Git!asked, Git!readings
<1>2. "status" \in GitAts /\ ThreadMoves(i, "status") /\ (gitFault = "none" => gitThreads'[i].ok <=> gitThreads[i].ok)
  BY <1>1, GitMoves, GitFails DEF GitAts, Reading
<1>3. GitTypeOK'
  BY <1>1, <1>2 DEF GitTypeOK, ThreadMoves
<1>4. ASSUME gitFault = "none" PROVE PatientInv'
  <2>1. PatientInv
    BY <1>4 DEF GitInv
  <2>2. gitThreads[i].ok /\ gitThreads[i].kind = "discard"
    BY <1>1, <2>1, OperationAt DEF Reading
  <2>3. AskedOf(i)' /\ Drops(i)'
    BY <1>2, <1>4, <2>2 DEF AskedOf, Drops, ThreadMoves, Reading
  <2>4. Committed' /\ made \subseteq files' \cup stash'
    BY <1>1, <2>1 DEF PatientInv, Committed, MadeKept
  <2>5. gitThreads[i].at \notin Reading
    BY <1>1 DEF Reading
  <2> QED BY <1>1, <1>2, <1>4, <2>1, <2>2, <2>3, <2>4, <2>5, OperationMoves
<1> QED BY <1>1, <1>3, <1>4 DEF GitInv

\* update_git_directory()
LEMMA GitFetchAllKeeps == ASSUME GitInv, NEW i \in Git!Slots, Git!FetchAll(i) PROVE GitInv'
<1>1. /\ GitTypeOK /\ gitThreads[i].kind # "none" /\ gitThreads[i].at = "fetch all"
      /\ UNCHANGED <<files, index, head, stash, remote, stages, gitStatus, has_remote_changes, update_queued, newest, overtaken,
                     gitFault, made, kept>>
      /\ \/ origin' = remote /\ Git!To(i, "rebase")
         \/ origin' = origin /\ Git!Failed(i)
  BY DEF GitInv, Git!FetchAll, Git!At, Git!Running, Git!seen, Git!asked, Git!readings
<1>2. CASE origin' = origin /\ Git!Failed(i)
  <2>1. ThreadMoves(i, "status") /\ ~gitThreads'[i].ok
    BY <1>1, <1>2, GitFails
  <2>2. GitTypeOK'
    BY <1>1, <1>2, <2>1 DEF GitTypeOK, ThreadMoves
  <2>3. PatientInv => PatientInv'
    BY <1>1, <1>2, <2>1, GitFailKeeps DEF Reading
  <2> QED BY <1>1, <2>2, <2>3 DEF GitInv
<1>3. CASE origin' = remote /\ Git!To(i, "rebase")
  <2>1. "rebase" \in GitAts /\ ThreadMoves(i, "rebase") /\ (gitThreads'[i].ok <=> gitThreads[i].ok)
    BY <1>1, <1>3, GitMoves DEF GitAts
  <2>2. GitTypeOK'
    BY <1>1, <1>3, <2>1 DEF GitTypeOK, ThreadMoves
  <2>3. ASSUME PatientInv PROVE PatientInv'
    <3>1. gitThreads[i].ok /\ gitThreads[i].kind = "update"
      BY <1>1, <2>3, OperationAt DEF Reading
    <3>2. AskedOf(i)'
      BY <1>1, <2>1, <2>3, <3>1 DEF PatientInv, Asked, AskedOf, ThreadMoves, Reading
    <3>3. Committed' /\ made \subseteq files' \cup stash'
      BY <1>1, <1>3, <2>3 DEF PatientInv, Committed, MadeKept
    <3>4. gitThreads[i].at \notin Reading /\ "rebase" \in Commands(gitThreads[i].kind)
      BY <1>1, <3>1 DEF Reading, Commands
    <3> QED BY <1>1, <2>1, <2>3, <3>1, <3>2, <3>3, <3>4, OperationMoves
  <2> QED BY <1>1, <2>2, <2>3 DEF GitInv
<1> QED BY <1>1, <1>2, <1>3

\* Commits are put on top of what was fetched, and so are open changes, or they
\* go to the stash.
LEMMA GitRebaseKeeps == ASSUME GitInv, NEW i \in Git!Slots, Git!Rebase(i) PROVE GitInv'
<1>1. /\ GitTypeOK /\ gitThreads[i].kind # "none" /\ gitThreads[i].at = "rebase"
      /\ UNCHANGED <<remote, origin, stages, gitStatus, has_remote_changes, update_queued, newest, overtaken, gitFault, made, kept>>
  BY DEF GitInv, Git!Rebase, Git!At, Git!Running, Git!seen, Git!asked, Git!readings
<1>2. \/ Git!Failed(i) /\ UNCHANGED <<files, index, head, stash>>
      \/ /\ head' = head \cup (origin \ head) /\ index' = head'
         /\ gitThreads' = [gitThreads EXCEPT ![i].at = "status", ![i].asked = origin]
         /\ \/ files' = head' /\ stash' = stash \cup (files \ head)
            \/ files' = head' \cup (files \ head) /\ stash' = stash
  BY DEF Git!Rebase
<1>3. CASE Git!Failed(i) /\ UNCHANGED <<files, index, head, stash>>
  <2>1. ThreadMoves(i, "status") /\ ~gitThreads'[i].ok
    BY <1>1, <1>3, GitFails
  <2>2. GitTypeOK'
    BY <1>1, <1>3, <2>1 DEF GitTypeOK, ThreadMoves
  <2>3. PatientInv => PatientInv'
    BY <1>1, <1>3, <2>1, GitFailKeeps DEF Reading
  <2> QED BY <1>1, <2>2, <2>3 DEF GitInv
<1>4. CASE /\ head' = head \cup (origin \ head) /\ index' = head'
           /\ gitThreads' = [gitThreads EXCEPT ![i].at = "status", ![i].asked = origin]
           /\ \/ files' = head' /\ stash' = stash \cup (files \ head)
              \/ files' = head' \cup (files \ head) /\ stash' = stash
  <2>1. /\ gitThreads' \in [Git!Slots -> GitThreads] /\ ThreadsStay(i)
        /\ gitThreads'[i].kind = gitThreads[i].kind /\ gitThreads'[i].at = "status" /\ gitThreads'[i].asked = origin
        /\ gitThreads'[i].ok <=> gitThreads[i].ok
    <3>1. "status" \in GitAts
      BY DEF GitAts, Reading
    <3> QED BY <1>1, <1>4, <3>1 DEF GitTypeOK, GitThreads, ThreadsStay
  <2>2. GitTypeOK'
    BY <1>1, <1>4, <2>1 DEF GitTypeOK
  <2>3. ASSUME PatientInv PROVE PatientInv'
    <3>1. /\ gitThreads[i].ok /\ gitThreads[i].kind = "update"
          /\ \A j \in Git!Slots : j # i => gitThreads[j].kind \notin {"commit", "discard", "update"}
      BY <1>1, <2>3, OperationAt DEF Reading
    <3>2. \A j \in Git!Slots : j # i => gitThreads'[j] = gitThreads[j] /\ gitThreads'[j].kind \notin {"commit", "discard", "update"}
      BY <2>1, <3>1 DEF ThreadsStay
    <3>3. KindsFit'
      BY <2>1, <2>3, <3>1, <3>2 DEF PatientInv, KindsFit, Reading
    <3>4. OneOperation'
      BY <2>1, <2>3, <3>2 DEF PatientInv, OneOperation
    <3>5. Committed'
      BY <1>1, <1>4, <2>3 DEF PatientInv, Committed
    <3>6. Asked'
      <4>1. AskedOf(i)'
        BY <1>4, <2>1, <3>1 DEF AskedOf
      <4> QED BY <3>2, <4>1 DEF Asked, AskedOf
    <3>7. MadeKept'
      <4>1. made \subseteq files' \cup stash'
        BY <1>4, <2>3 DEF PatientInv, MadeKept
      <4> QED BY <1>1, <2>1, <3>1, <3>2, <4>1 DEF MadeKept
    <3>8. ObjectsFresh'
      <4>1. Drops(i)'
        BY <2>1, <3>1 DEF Drops, Reading
      <4> QED BY <4>1 DEF ObjectsFresh
    <3>9. StatusFresh' /\ RemoteFresh'
      <4>1. WillRead(i)' /\ WillCompare(i)'
        BY <2>1, <3>1 DEF WillRead, WillCompare, Reading
      <4> QED BY <4>1 DEF StatusFresh, RemoteFresh
    <3>10. NewestPends'
      BY <1>1, <2>1, <2>3, ReadingsStay
    <3> QED BY <3>3, <3>4, <3>5, <3>6, <3>7, <3>8, <3>9, <3>10 DEF PatientInv
  <2> QED BY <1>1, <2>2, <2>3 DEF GitInv
<1> QED BY <1>2, <1>3, <1>4

\* A canceled update is outside what the invariant promises; types are kept.
LEMMA GitCancelKeeps == ASSUME GitInv, NEW i \in Git!Slots, Git!Cancel(i) PROVE GitInv'
<1>1. GitTypeOK /\ gitFault' = "cancel" /\ gitThreads' = [gitThreads EXCEPT ![i].kind = "canceled"]
      /\ UNCHANGED <<files, index, head, stash, remote, origin, stages, gitStatus, has_remote_changes, update_queued, newest, overtaken>>
  BY DEF GitInv, Git!Cancel, Git!disk, Git!seen, Git!asked, Git!readings
<1>2. gitThreads' \in [Git!Slots -> GitThreads]
  <2>1. gitThreads[i] \in GitThreads
    BY <1>1 DEF GitTypeOK
  <2>2. [gitThreads[i] EXCEPT !.kind = "canceled"] \in GitThreads
    BY <2>1 DEF GitThreads, GitKinds, Git!Operations
  <2> QED BY <1>1, <2>2 DEF GitTypeOK
<1>3. GitTypeOK'
  BY <1>1, <1>2 DEF GitTypeOK
<1> QED BY <1>1, <1>3 DEF GitInv

LEMMA GitInit == Git!Init => GitInv
<1> SUFFICES ASSUME Git!Init PROVE GitInv
  OBVIOUS
<1>1. /\ files = {} /\ index = {} /\ head = {} /\ stash = {} /\ remote = {} /\ origin = {} /\ made = {} /\ kept = {}
      /\ stages = Git!NoContent /\ gitStatus = "UNKNOWN" /\ has_remote_changes = FALSE /\ update_queued = FALSE
      /\ newest = [status |-> 0, remote |-> 0] /\ overtaken = {}
  BY DEF Git!Init
<1>2. Git!Free \in GitThreads /\ [Git!Free EXCEPT !.kind = "status", !.at = "status"] \in GitThreads
  BY DEF Git!Free, GitThreads, GitAts, GitKinds, Reading, Outputs
<1>3. gitThreads \in [Git!Slots -> GitThreads]
  BY <1>2 DEF Git!Init
<1>4. GitTypeOK
  <2>1. newest \in [{"status", "remote"} -> Git!Slots \cup {0}]
    BY <1>1
  <2> QED BY <1>1, <1>3, <2>1 DEF GitTypeOK
<1>5. \A i \in Git!Slots :
        /\ gitThreads[i].kind = IF i = 1 THEN "status" ELSE "none"
        /\ i = 1 => gitThreads[i].at = "status"
        /\ gitThreads[i].asked = {}
  BY DEF Git!Init, Git!Free
<1>6. 1 \in Git!Slots
  BY FilesAssumption DEF Git!GitAssumption, Git!Slots
<1>7. KindsFit /\ OneOperation /\ Committed
  BY <1>1, <1>5 DEF KindsFit, OneOperation, Committed, Reading, Git!Operations
<1>8. Asked /\ MadeKept /\ ObjectsFresh
  BY <1>1, <1>5 DEF Asked, AskedOf, MadeKept, ObjectsFresh
<1>9. StatusFresh /\ RemoteFresh /\ NewestPends
  BY <1>1, <1>5, <1>6 DEF StatusFresh, RemoteFresh, RemoteShown, WillRead, NewestPends, Reading
<1> QED BY <1>4, <1>7, <1>8, <1>9 DEF GitInv, PatientInv

LEMMA GitStep == ASSUME GitInv, [Git!Next]_(Git!vars) PROVE GitInv'
<1>1. ASSUME NEW i \in Git!Slots,
             \/ Git!Status(i) \/ Git!ShowStatus(i) \/ Git!Fetch(i) \/ Git!Behind(i) \/ Git!ShowRemote(i)
             \/ Git!Add(i) \/ Git!Commit(i) \/ Git!Reset(i) \/ Git!Clean(i)
             \/ Git!FetchAll(i) \/ Git!Rebase(i) \/ Git!Cancel(i) \/ Git!Logs(i) \/ Git!CompleteProcess(i)
      PROVE GitInv'
  BY <1>1, GitStatusKeeps, GitShowStatusKeeps, GitFetchKeeps, GitBehindKeeps, GitShowRemoteKeeps,
     GitAddKeeps, GitCommitKeeps, GitResetKeeps, GitCleanKeeps,
     GitFetchAllKeeps, GitRebaseKeeps, GitCancelKeeps, GitEndKeeps
<1> QED BY <1>1, GitSaveKeeps, GitPushKeeps, GitButtonsKeep, GitStutter DEF Git!Next

LEMMA GitFollows == GitInv => ContentKept
<1> SUFFICES ASSUME GitInv PROVE ContentKept
  OBVIOUS
<1>1. Git!TypeOK
  BY DEF GitInv, GitTypeOK, GitThreads, GitAts, Reading, Git!TypeOK, Changed
<1>2. Git!ContentKept
  BY DEF GitInv, PatientInv, Committed, MadeKept, Git!ContentKept
<1>3. ASSUME gitFault = "none", ~Git!Busy
      PROVE /\ stages # Git!NoContent => stages = files
            /\ ~update_queued /\ (\A i \in Git!Slots : ~Git!Running(i)) =>
                 /\ "status" \in overtaken \/ gitStatus = IF files = head /\ index = head THEN "UNCHANGED" ELSE "CHANGED"
                 /\ "remote" \in overtaken \/ (has_remote_changes => ~(origin \subseteq head))
  <2>1. \A i \in Git!Slots : ~Drops(i)
    BY <1>3 DEF Git!Busy, Git!Operations, Drops
  <2>2. PatientInv
    BY <1>3 DEF GitInv
  <2>3. ASSUME \A i \in Git!Slots : ~Git!Running(i)
        PROVE /\ \A i \in Git!Slots : ~WillRead(i) /\ ~WillCompare(i)
              /\ newest["status"] = 0 /\ newest["remote"] = 0
    BY <2>2, <2>3 DEF Git!Running, WillRead, WillCompare, PatientInv, NewestPends, Pending
  <2>4. stages # Git!NoContent => stages = files
    BY <2>1, <2>2 DEF PatientInv, ObjectsFresh
  <2> QED BY <2>2, <2>3, <2>4 DEF PatientInv, StatusFresh, StatusShown, RemoteFresh, RemoteShown, TrueStatus
<1>4. Git!ViewHonest
  BY <1>3 DEF Git!ViewHonest
<1> QED BY <1>1, <1>2, <1>4 DEF ContentKept

\* Of a user who waits for Git operations to end, with any number of threads
\* that read the status beside one, any changes and any clashes: a change the
\* user made is in the files, or in the stash, until it is discarded; what was
\* saved or updated to stays; when nothing runs, the objects of the views are
\* what is stored, and the status shown is that of the files unless a thread
\* that had read before another one came to show it after it (the threads of
\* update_status() are not serialized).
THEOREM ContentStays == FilesSpec => []ContentKept
<1>1. GitInv /\ [Git!Next]_(Git!vars) => GitInv'
  BY GitStep
<1> QED BY <1>1, GitOfSpec, GitInit, GitFollows, PTL


-----------------------------------------------------------------------------
(* The change of the Library.                                              *)

LEMMA FolderOfSpec == FilesSpec => Folder!Init /\ [][Folder!Next]_(Folder!vars)
<1>1. FilesInit => Folder!Init
  BY DEF FilesInit
<1>2. [FilesNext]_filesVars => [Folder!Next]_(Folder!vars)
  BY DEF FilesNext, filesVars, libraryVars, pageVars, folderVars, Folder!vars, Folder!place
<1> QED BY <1>1, <1>2, PTL DEF FilesSpec

\* Until a move takes it away, the Library is where it was; what is in the
\* folders at each phase.
Begun == {"copy", "rewrite", "remove", "store"}
FoldersOK ==
  /\ points["old"] = "old" /\ (content["old"] # "whole" => Folder!MovedAway)
  /\ changePhase \in {"idle", "folder", "dialog", "begin", "copy"} => content["old"] = "whole"
  /\ changePhase \in {"idle", "folder", "dialog", "begin"} => points["new"] = "new"
  /\ changePhase = "begin" => change # "none" /\ (change = "switch" => Folder!is_library("new"))
  /\ changePhase \in Begun => change # "none"
  /\ changePhase \in {"rewrite", "remove"} => content["new"] = "whole"
  /\ changePhase = "remove" => change = "move" /\ points["new"] = "new"
  /\ changePhase \in {"store", "restart"} => Folder!is_library("new") /\ points["new"] = "new"

\* The place is stored when the folder is done. When it can't be, the settings
\* in memory have it, and any other change of them stores it.
PlacesOK ==
  /\ changePhase \notin {"restart", "started"} => library = "old" /\ {stored, location} \subseteq {"old", "new"}
  /\ changePhase \notin {"restart", "started", "failed", "told"} => stored = "old" /\ location = "old"
  /\ changePhase \in {"failed", "told"} => stored = "old" \/ location = "new"
  /\ changePhase \in {"failed", "told"} /\ location = "new" => Folder!is_library("new") /\ points["new"] = "new"
  /\ changePhase = "restart" => stored = "new" /\ location = "new" /\ library = "new"

FolderInv == Folder!TypeOK /\ FoldersOK /\ PlacesOK /\ Folder!StartsWhole /\ ~behind /\ changeFault = "none"

LEMMA FolderInit == ASSUME StorageFaults = {}, Folder!Init PROVE FolderInv
BY DEF Folder!Init, FolderInv, Folder!TypeOK, FoldersOK, PlacesOK, Folder!StartsWhole, Folder!Folders, Folder!Contents,
       Folder!Changes, Folder!MovedAway, Begun, Folder!is_library

LEMMA FolderStep == ASSUME FolderInv, [Folder!Next]_(Folder!vars) PROVE FolderInv'
<1> USE DEF FolderInv, Folder!TypeOK, FoldersOK, PlacesOK, Folder!StartsWhole, Folder!Folders, Folder!Contents,
            Folder!Changes, Folder!MovedAway, Begun, Folder!is_library, Folder!Same, Folder!To, Folder!place
<1>1. CASE Folder!Use
  BY <1>1 DEF Folder!Use, Folder!Open
<1>2. CASE Folder!ChangeClicked
  BY <1>2 DEF Folder!ChangeClicked
<1>3. CASE Folder!FolderSelected
  BY <1>3 DEF Folder!FolderSelected
<1>4. CASE Folder!Confirmed
  BY <1>4 DEF Folder!Confirmed, Folder!TargetExists
<1>5. CASE Folder!Create
  BY <1>5 DEF Folder!Create, Folder!Thread, Folder!Put, Folder!Raise
<1>6. CASE Folder!Rename
  BY <1>6 DEF Folder!Rename, Folder!Thread, Folder!Raise
<1>7. CASE Folder!BeginCopy
  BY <1>7 DEF Folder!BeginCopy, Folder!Thread, Folder!Put
<1>8. CASE Folder!EndCopy
  BY <1>8 DEF Folder!EndCopy, Folder!Thread, Folder!Put, Folder!Raise
<1>9. CASE Folder!Rewrite
  BY <1>9 DEF Folder!Rewrite, Folder!Thread, Folder!Raise
<1>10. CASE Folder!RemoveOld
  BY <1>10 DEF Folder!RemoveOld, Folder!Thread, Folder!Put
<1>11. CASE Folder!Store
  BY <1>11 DEF Folder!Store, Folder!Thread, Folder!Raise
<1>12. CASE Folder!Failed
  BY <1>12 DEF Folder!Failed, Folder!Thread
<1>13. CASE Folder!SettingChanged
  BY <1>13 DEF Folder!SettingChanged
<1>14. CASE Folder!Restart
  BY <1>14 DEF Folder!Restart, Folder!Loads
<1>15. CASE Folder!Crash
  BY <1>15 DEF Folder!Crash, Folder!Loads
<1>16. CASE UNCHANGED Folder!vars
  BY <1>16 DEF Folder!vars
<1> QED
  BY <1>1, <1>2, <1>3, <1>4, <1>5, <1>6, <1>7, <1>8, <1>9, <1>10, <1>11, <1>12, <1>13, <1>14, <1>15, <1>16
  DEF Folder!Next

LEMMA FolderAlways == ASSUME StorageFaults = {} PROVE FilesSpec => []FolderInv
<1>1. Folder!Init => FolderInv
  BY FolderInit
<1>2. FolderInv /\ [Folder!Next]_(Folder!vars) => FolderInv'
  BY FolderStep
<1> QED BY <1>1, <1>2, FolderOfSpec, PTL

LEMMA FolderFollows ==
  ASSUME FolderInv PROVE Folder!TypeOK /\ Folder!DataKept /\ Folder!StartsWhole /\ Folder!FailureKeepsCurrent
BY DEF FolderInv, FoldersOK, PlacesOK, Folder!TypeOK, Folder!MovedAway, Folder!DataKept, Folder!FailureKeepsCurrent

-----------------------------------------------------------------------------
(* The page.                                                               *)

LEMMA PageOfSpec == FilesSpec => Page!Init /\ [][Page!Next]_(Page!vars)
<1>1. FilesInit => Page!Init
  BY DEF FilesInit
<1>2. [FilesNext]_filesVars => [Page!Next]_(Page!vars)
  BY DEF FilesNext, filesVars, libraryVars, pageVars, folderVars, Page!vars, Page!page, Page!history
<1> QED BY <1>1, <1>2, PTL DEF FilesSpec

LEMMA PageConstants == Objects \subseteq Page!AllObjects /\ Kinds \subseteq Page!AllKinds
BY FilesAssumption DEF Page!PageAssumption

\* What an operation holds the page can tell, but for three cases.
LEMMA HeldIsSeen ==
  ASSUME NEW o \in Page!Ops, NEW i, i \in Page!Holds(o), ~Page!Reason(o, i)
  PROVE  <<pageOps[o].kind, i>> \in Page!Unprotected
<1> DEFINE k == pageOps[o].kind
<1>1. Page!Running(o)
  BY DEF Page!Holds, Page!Is
<1>2. \A kinds : Page!Is(o, kinds) <=> k \in kinds
  BY <1>1 DEF Page!Is
<1> USE DEF Page!Holds, Page!Reason, Page!Builds, Page!WithProject, Page!Unprotected
<1> HIDE DEF k
<1>3. CASE k = "build"
  BY <1>2, <1>3 DEF Page!ProjectReason, Page!BuildReason, Page!PackagesReason, Page!SnapshotReason, Page!ToolsetReason,
     Page!DistfilesReason, k
<1>4. CASE k = "other"
  BY <1>2, <1>4 DEF Page!PackagesReason, Page!DistfilesReason
<1>5. CASE k = "toolset"
  BY <1>2, <1>5 DEF Page!ArchiveReason, Page!SquashfsReason, Page!DistfilesReason
<1>6. CASE k = "toolset update"
  BY <1>2, <1>6 DEF Page!ToolsetReason, Page!DistfilesReason
<1>7. CASE k = "preparation"
  BY <1>2, <1>7 DEF Page!ProjectReason, Page!BuildReason, Page!PackagesReason, Page!SnapshotReason, Page!ToolsetReason,
     Page!DistfilesReason, Page!MachineReason
<1>8. CASE k = "machine"
  BY <1>2, <1>8 DEF Page!ProjectReason, Page!BuildReason, Page!MachineReason
<1>9. CASE k \in {"deploy", "iso", "git", "spawned"}
  <2>1. CASE k = "deploy"
    BY <1>2, <2>1 DEF Page!ProjectReason, Page!BuildReason, Page!ToolsetReason, k
  <2>2. CASE k = "iso"
    BY <1>2, <2>2 DEF Page!ProjectReason, Page!BuildReason, Page!ToolsetReason, k
  <2>3. CASE k = "git"
    BY <1>2, <2>3 DEF Page!ProjectReason, Page!BuildReason, Page!ToolsetReason, k
  <2>4. CASE k = "spawned"
    BY <1>2, <2>4 DEF Page!ProjectReason, Page!BuildReason, Page!ToolsetReason, k
  <2> QED BY <1>9, <2>1, <2>2, <2>3, <2>4
<1>10. CASE k \notin {"build", "other", "toolset", "toolset update", "preparation", "machine", "deploy", "iso", "git",
                      "spawned"}
  BY <1>2, <1>10
<1> QED BY <1>3, <1>4, <1>5, <1>6, <1>7, <1>8, <1>9, <1>10

Dialogs == [object : Objects \cup {"none"}, packages : BOOLEAN, builds : BOOLEAN, checked : BOOLEAN]

\* A dialog is of an object that was listed; no scan runs meanwhile; and an
\* answer that was checked is still right.
DialogOK ==
  /\ pageDialog \in Dialogs
  /\ pageDialog.object = "none" => pageDialog = Page!NoDialog
  /\ pageDialog.checked => \A i \in Objects : i = pageDialog.object => ~Page!item_use_reason(i)
  /\ pageDialog.packages => ~shared
  /\ pageDialog.packages \/ pageDialog.builds => pageDialog.object = "project"
  /\ scanning => pageDialog = Page!NoDialog

\* Only who shares the packages folder is another project's build.
SharedOK == ~shared => \A o \in Page!Ops : pageOps[o].kind # "other"

\* What the page deleted is gone, in what a scan found too.
DeletedOK ==
  /\ \A i \in removed : lib[i] = "none"
  /\ result # <<>> => scanning /\ result[1] \subseteq Objects /\ result[1] \cap removed = {}
  /\ ~scanning => shown \cap removed = {}

PageInv ==
  /\ Page!TypeOK /\ DialogOK /\ SharedOK /\ DeletedOK /\ Page!ButtonsSettle /\ Page!NothingInUseRemoved
  /\ pageFault = "none" /\ {scanning, realized, pageEvent, shared} \subseteq BOOLEAN

LEMMA PageInit == ASSUME StorageFaults = {}, Page!Init PROVE PageInv
BY PageConstants
   DEF Page!Init, PageInv, Page!TypeOK, DialogOK, Dialogs, SharedOK, DeletedOK, Page!ButtonsSettle,
       Page!NothingInUseRemoved, Page!NoDialog, Page!NoOp, Page!Running, Page!item_use_reason

\* What the reasons and the buttons are about.
LEMMA SameReasons ==
  ASSUME UNCHANGED pageOps
  PROVE  /\ \A i : Page!item_use_reason(i)' = Page!item_use_reason(i)
         /\ \A o : Page!Running(o)' = Page!Running(o) /\ Page!Going(o)' = Page!Going(o)
         /\ \A o, i : Page!Reason(o, i)' = Page!Reason(o, i)
         /\ SharedOK /\ shared' \in {shared, TRUE} => SharedOK'
<1>1. \A o : Page!Running(o)' = Page!Running(o) /\ Page!Going(o)' = Page!Going(o)
  BY DEF Page!Running, Page!Going
<1>2. \A o, kinds : Page!Is(o, kinds)' = Page!Is(o, kinds)
  BY <1>1 DEF Page!Is
<1>3. \A o, i : Page!Reason(o, i)' = Page!Reason(o, i)
  BY <1>1, <1>2 DEF Page!Reason, Page!ProjectReason, Page!BuildReason, Page!PackagesReason, Page!SnapshotReason,
     Page!ToolsetReason, Page!DistfilesReason, Page!ArchiveReason, Page!SquashfsReason, Page!MachineReason
<1>4. \A i : Page!item_use_reason(i)' = Page!item_use_reason(i)
  BY <1>3 DEF Page!item_use_reason
<1> QED BY <1>1, <1>3, <1>4 DEF SharedOK

\* Who doesn't run has no reason.
LEMMA ReasonRuns ==
  ASSUME NEW o, NEW i, Page!Reason(o, i) PROVE Page!Running(o)
BY DEF Page!Reason, Page!ProjectReason, Page!BuildReason, Page!PackagesReason, Page!SnapshotReason, Page!ToolsetReason,
       Page!DistfilesReason, Page!ArchiveReason, Page!SquashfsReason, Page!MachineReason, Page!Is

\* Buttons that were just set agree with the operations.
LEMMA FreshButtons ==
  ASSUME NEW S
  PROVE  /\ Page!Free(S) \subseteq S
         /\ (\A o \in Page!Ops : ~Page!Running(o)) => Page!Free(S) = S
         /\ \A i \in Page!Free(S) : ~Page!item_use_reason(i)
BY ReasonRuns DEF Page!Free, Page!item_use_reason

LEMMA PageTypes ==
  ASSUME PageInv
  PROVE  /\ lib \in [Objects -> {"none", "making", "present"}]
         /\ pageOps \in [Page!Ops -> [kind : Kinds \cup {"none"}, at : {"none", "begun", "going", "ended"}]]
         /\ shown \subseteq Objects /\ enabled \subseteq shown /\ removed \subseteq Objects
         /\ pageDialog \in Dialogs /\ "none" \notin Objects /\ "none" \notin Kinds
BY PageConstants DEF PageInv, Page!TypeOK, DialogOK, Page!AllObjects, Page!AllKinds

LEMMA BeginKeeps == ASSUME PageInv, NEW o \in Page!Ops, Page!Begin(o), ~pageDialog.checked PROVE PageInv'
<1> USE DEF Page!Begin, Page!history
<1>1. PICK kind \in Kinds : /\ kind = "other" => shared
                            /\ pageOps' = [pageOps EXCEPT ![o] = [kind |-> kind, at |-> "begun"]]
  OBVIOUS
<1>2. Page!TypeOK'
  BY <1>1, PageTypes DEF PageInv, Page!TypeOK
<1>3. SharedOK'
  BY <1>1, PageTypes DEF PageInv, SharedOK
<1>4. DialogOK' /\ DeletedOK'
  BY DEF PageInv, DialogOK, DeletedOK
<1>5. Page!ButtonsSettle' /\ Page!NothingInUseRemoved'
  BY DEF PageInv, Page!ButtonsSettle, Page!NothingInUseRemoved, Page!history
<1>6. pageFault' = "none" /\ {scanning, realized, pageEvent, shared}' \subseteq BOOLEAN
  BY DEF PageInv
<1> QED BY <1>2, <1>3, <1>4, <1>5, <1>6 DEF PageInv

\* An operation that is going has the reasons it had, and maybe more.
LEMMA AdvanceReasons ==
  ASSUME PageInv, NEW o \in Page!Ops, pageOps' = [pageOps EXCEPT ![o].at = "going"], pageOps[o].at = "begun"
  PROVE  /\ \A p \in Page!Ops : Page!Running(p)' = Page!Running(p) /\ (Page!Going(p) => Page!Going(p)')
         /\ Page!Going(o)'
         /\ \A p \in Page!Ops \ {o} : \A i : Page!Reason(p, i)' = Page!Reason(p, i)
<1>1. \A p \in Page!Ops : /\ pageOps'[p].kind = pageOps[p].kind
                          /\ pageOps'[p].at = IF p = o THEN "going" ELSE pageOps[p].at
  BY PageTypes
<1>2. \A p \in Page!Ops : Page!Running(p)' = Page!Running(p) /\ (Page!Going(p) => Page!Going(p)')
  BY <1>1 DEF Page!Running, Page!Going
<1>3. \A p \in Page!Ops \ {o} : Page!Going(p)' = Page!Going(p) /\ \A kinds : Page!Is(p, kinds)' = Page!Is(p, kinds)
  BY <1>1, <1>2 DEF Page!Is, Page!Going
<1>4. \A p \in Page!Ops \ {o} : \A i : Page!Reason(p, i)' = Page!Reason(p, i)
  BY <1>3 DEF Page!Reason, Page!ProjectReason, Page!BuildReason, Page!PackagesReason, Page!SnapshotReason,
     Page!ToolsetReason, Page!DistfilesReason, Page!ArchiveReason, Page!SquashfsReason, Page!MachineReason
<1> QED BY <1>1, <1>2, <1>4 DEF Page!Going

LEMMA AdvanceKeeps == ASSUME PageInv, NEW o \in Page!Ops, Page!Advance(o) PROVE PageInv'
<1> USE DEF Page!Advance, Page!page
<1>0. ~pageDialog.checked
  BY DEF PageInv
<1>1. pageOps' = [pageOps EXCEPT ![o].at = "going"] /\ pageOps[o].at = "begun"
  OBVIOUS
<1>2. PICK new \in SUBSET Objects :
        /\ lib' = [i \in Objects |-> IF i \in new /\ lib[i] = "none" THEN "making" ELSE lib[i]]
        /\ removed' = removed \ new
  <2>1. Page!Makes(pageOps[o].kind) \cap Objects \in SUBSET Objects
    OBVIOUS
  <2> QED BY <2>1
<1>3. Page!TypeOK'
  BY <1>1, <1>2, PageTypes DEF PageInv, Page!TypeOK
<1>4. SharedOK'
  BY <1>1, PageTypes DEF PageInv, SharedOK
<1>5. DialogOK'
  BY <1>0 DEF PageInv, DialogOK
<1>6. DeletedOK'
  BY <1>2, PageTypes DEF PageInv, DeletedOK
<1>7. Page!ButtonsSettle'
  <2>1. scanning' => enabled' = {}
    BY DEF PageInv, Page!ButtonsSettle
  <2>2. ASSUME realized', ~pageEvent', ~scanning', \A p \in Page!Ops : ~Page!Running(p)' PROVE enabled' = shown'
    BY <2>2, <1>1, AdvanceReasons DEF PageInv, Page!ButtonsSettle
  <2>3. ASSUME realized', ~pageEvent', ~scanning', NEW i \in enabled', Page!item_use_reason(i)'
        PROVE  \E p \in Page!Ops : Page!Reason(p, i)' /\ Page!Going(p)'
    <3>1. PICK p \in Page!Ops : Page!Reason(p, i)'
      BY <2>3 DEF Page!item_use_reason
    <3>2. CASE p = o
      BY <3>1, <3>2, <1>1, AdvanceReasons
    <3>3. CASE p # o
      <4>1. Page!Reason(p, i)
        BY <3>1, <3>3, <1>1, AdvanceReasons
      <4>2. PICK q \in Page!Ops : Page!Reason(q, i) /\ Page!Going(q)
        BY <4>1, <2>3 DEF PageInv, Page!ButtonsSettle, Page!item_use_reason
      <4>3. q # o
        BY <4>2, <1>1 DEF Page!Going
      <4> QED BY <4>2, <4>3, <1>1, AdvanceReasons
    <3> QED BY <3>2, <3>3
  <2> QED BY <2>1, <2>2, <2>3 DEF Page!ButtonsSettle
<1>8. Page!NothingInUseRemoved' /\ pageFault' = "none" /\ {scanning, realized, pageEvent, shared}' \subseteq BOOLEAN
  BY DEF PageInv, Page!NothingInUseRemoved
<1> QED BY <1>3, <1>4, <1>5, <1>6, <1>7, <1>8 DEF PageInv

LEMMA EndKeeps == ASSUME PageInv, NEW o \in Page!Ops, Page!End(o), ~pageDialog.checked PROVE PageInv'
<1> USE DEF Page!End
<1>1. pageOps' = [pageOps EXCEPT ![o].at = "ended"]
  OBVIOUS
<1>2. /\ lib' \in [Objects -> {"none", "making", "present"}]
      /\ \A i \in Objects : lib[i] = "none" => lib'[i] = "none"
  BY PageTypes
<1>3. Page!TypeOK'
  BY <1>1, <1>2, PageTypes DEF PageInv, Page!TypeOK, Page!history
<1>4. SharedOK'
  BY <1>1, PageTypes DEF PageInv, SharedOK
<1>5. DialogOK'
  BY DEF PageInv, DialogOK
<1>6. DeletedOK'
  BY <1>2, PageTypes DEF PageInv, DeletedOK, Page!history
<1>7. Page!ButtonsSettle' /\ Page!NothingInUseRemoved'
  BY DEF PageInv, Page!ButtonsSettle, Page!NothingInUseRemoved, Page!history
<1>8. pageFault' = "none" /\ {scanning, realized, pageEvent, shared}' \subseteq BOOLEAN
  BY DEF PageInv
<1> QED BY <1>3, <1>4, <1>5, <1>6, <1>7, <1>8 DEF PageInv

\* Buttons are set again, or all are switched off by a scan that begins.
LEMMA ButtonsFresh ==
  ASSUME UNCHANGED pageOps, scanning' \in BOOLEAN,
         enabled' = IF scanning' THEN {} ELSE Page!Free(shown')
  PROVE  Page!ButtonsSettle' /\ enabled' \subseteq shown'
<1>1. \A i : Page!item_use_reason(i)' = Page!item_use_reason(i)
  BY SameReasons
<1>2. \A o : Page!Running(o)' = Page!Running(o)
  BY SameReasons
<1>3. /\ Page!Free(shown') \subseteq shown'
      /\ (\A o \in Page!Ops : ~Page!Running(o)) => Page!Free(shown') = shown'
      /\ \A i \in Page!Free(shown') : ~Page!item_use_reason(i)
  BY FreshButtons
<1>4. CASE scanning'
  BY <1>4 DEF Page!ButtonsSettle
<1>5. CASE ~scanning'
  <2>1. enabled' = Page!Free(shown')
    BY <1>5
  <2>2. (\A o \in Page!Ops : ~Page!Running(o)') => enabled' = shown'
    BY <2>1, <1>2, <1>3
  <2>3. \A i \in enabled' : ~Page!item_use_reason(i)'
    BY <2>1, <1>1, <1>3
  <2> QED BY <2>1, <2>2, <2>3, <1>3, <1>5 DEF Page!ButtonsSettle
<1> QED BY <1>4, <1>5

\* A step of the page that leaves the operations, the Library and what was
\* deleted alone.
LEMMA PageOnly ==
  ASSUME PageInv, UNCHANGED <<lib, pageOps, shared, pageFault, removed, lost>>, DialogOK', DeletedOK',
         Page!ButtonsSettle', shown' \subseteq Objects, enabled' \subseteq shown',
         {scanning, realized, pageEvent}' \subseteq BOOLEAN
  PROVE  PageInv'
<1>1. Page!TypeOK'
  BY PageTypes DEF PageInv, Page!TypeOK
<1>2. SharedOK'
  BY SameReasons DEF PageInv
<1> QED BY <1>1, <1>2 DEF PageInv, Page!NothingInUseRemoved

LEMMA ScanKeeps == ASSUME PageInv, Page!Scan PROVE PageInv'
<1> USE DEF Page!Scan, Page!history
<1>1. UNCHANGED <<lib, pageOps, shared, pageFault, removed, lost, pageDialog, scanning, shown, enabled, realized, pageEvent>>
  OBVIOUS
<1>2. DialogOK'
  BY <1>1, SameReasons DEF PageInv, DialogOK
<1>3. DeletedOK'
  <2> DEFINE S == Page!cache_items \cup Page!binpkg_items \cup Page!snapshot_items \cup Page!project_items
                    \cup Page!build_items
  <2>1. S \subseteq Objects /\ \A i \in S : lib[i] = "present"
    BY DEF Page!cache_items, Page!binpkg_items, Page!snapshot_items, Page!project_items, Page!build_items,
           Page!Recognized
  <2>2. result' = <<S>>
    OBVIOUS
  <2> HIDE DEF S
  <2>3. result'[1] = S /\ S \cap removed = {}
    BY <2>1, <2>2 DEF PageInv, DeletedOK
  <2> QED BY <2>1, <2>3, <1>1 DEF PageInv, DeletedOK
<1>4. Page!ButtonsSettle'
  BY <1>1, SameReasons DEF PageInv, Page!ButtonsSettle
<1> QED BY <1>1, <1>2, <1>3, <1>4, PageOnly, PageTypes DEF PageInv

LEMMA ShowKeeps == ASSUME PageInv, Page!ShowSnapshot PROVE PageInv'
<1> USE DEF Page!ShowSnapshot, Page!history
<1>1. /\ UNCHANGED <<lib, pageOps, shared, pageFault, removed, lost, pageDialog, realized, pageEvent>>
      /\ result' = <<>> /\ scanning' = FALSE /\ shown' = result[1] /\ enabled' = Page!Free(shown') /\ result # <<>>
  OBVIOUS
<1>2. DialogOK'
  BY <1>1, SameReasons DEF PageInv, DialogOK
<1>3. DeletedOK' /\ shown' \subseteq Objects
  BY <1>1 DEF PageInv, DeletedOK
<1>4. Page!ButtonsSettle' /\ enabled' \subseteq shown'
  BY <1>1, ButtonsFresh
<1> QED BY <1>1, <1>2, <1>3, <1>4, PageOnly DEF PageInv

LEMMA EventKeeps == ASSUME PageInv, Page!DeliverEvent \/ Page!Realize PROVE PageInv'
<1> USE DEF Page!DeliverEvent, Page!Realize, Page!refresh_safety, Page!history
<1>1. /\ UNCHANGED <<lib, pageOps, shared, pageFault, removed, lost, pageDialog, scanning, shown, result>>
      /\ enabled' = IF scanning' THEN {} ELSE Page!Free(shown')
  OBVIOUS
<1>0. realized' \in BOOLEAN /\ pageEvent' \in BOOLEAN
  <2>1. realized \in BOOLEAN /\ pageEvent \in BOOLEAN
    BY DEF PageInv
  <2>2. CASE Page!DeliverEvent
    BY <2>1, <2>2
  <2>3. CASE Page!Realize
    BY <2>1, <2>3
  <2> QED BY <2>2, <2>3
<1>2. DialogOK'
  BY <1>1, SameReasons DEF PageInv, DialogOK
<1>3. DeletedOK'
  BY <1>1 DEF PageInv, DeletedOK
<1>4. Page!ButtonsSettle' /\ enabled' \subseteq shown'
  BY <1>1, ButtonsFresh DEF PageInv
<1>5. scanning' \in BOOLEAN
  BY <1>1 DEF PageInv
<1> QED BY <1>0, <1>1, <1>2, <1>3, <1>4, <1>5, PageOnly, PageTypes

LEMMA UnrealizeKeeps == ASSUME PageInv, Page!Unrealize PROVE PageInv'
<1> USE DEF Page!Unrealize, Page!history
<1>1. /\ UNCHANGED <<lib, pageOps, shared, pageFault, removed, lost, pageDialog, scanning, shown, result, enabled>>
      /\ realized' = FALSE /\ pageEvent' = FALSE
  OBVIOUS
<1>2. DialogOK' /\ DeletedOK'
  BY <1>1, SameReasons DEF PageInv, DialogOK, DeletedOK
<1>3. Page!ButtonsSettle'
  BY <1>1 DEF PageInv, Page!ButtonsSettle
<1> QED BY <1>1, <1>2, <1>3, PageOnly, PageTypes DEF PageInv

LEMMA ConfirmKeeps == ASSUME PageInv, NEW i \in Objects, Page!ConfirmDelete(i) PROVE PageInv'
<1> USE DEF Page!ConfirmDelete, Page!refresh_safety, Page!history
<1>1. /\ UNCHANGED <<lib, pageOps, shared, pageFault, removed, lost, scanning, shown, result, realized, pageEvent>>
      /\ enabled' = IF scanning' THEN {} ELSE Page!Free(shown')
      /\ ~scanning
  BY DEF PageInv, Page!ButtonsSettle
<1>2. \/ pageDialog' = pageDialog
      \/ \E packages_ \in BOOLEAN, builds \in BOOLEAN :
           /\ pageDialog' = [object |-> i, packages |-> packages_, builds |-> builds, checked |-> FALSE]
           /\ packages_ => i = "project" /\ ~shared
           /\ builds => i = "project"
  OBVIOUS
<1>3. DialogOK'
  <2>1. i # "none" /\ pageDialog \in Dialogs
    BY PageTypes
  <2>2. CASE pageDialog' = pageDialog
    BY <2>2, <1>1, SameReasons DEF PageInv, DialogOK
  <2>3. CASE pageDialog' # pageDialog
    <3>1. PICK packages_ \in BOOLEAN, builds \in BOOLEAN :
            /\ pageDialog' = [object |-> i, packages |-> packages_, builds |-> builds, checked |-> FALSE]
            /\ packages_ => i = "project" /\ ~shared
            /\ builds => i = "project"
      BY <1>2, <2>3
    <3>2. /\ pageDialog' \in Dialogs /\ pageDialog'.object = i /\ pageDialog'.checked = FALSE
          /\ pageDialog'.packages = packages_ /\ pageDialog'.builds = builds
      BY <3>1 DEF Dialogs
    <3> QED BY <3>1, <3>2, <2>1, <1>1 DEF DialogOK
  <2> QED BY <2>2, <2>3
<1>4. DeletedOK'
  BY <1>1 DEF PageInv, DeletedOK
<1>5. Page!ButtonsSettle' /\ enabled' \subseteq shown'
  BY <1>1, ButtonsFresh DEF PageInv
<1> QED BY <1>1, <1>3, <1>4, <1>5, PageOnly, PageTypes DEF PageInv

LEMMA UnknownKeeps == ASSUME PageInv, Page!ConfirmUnknown PROVE PageInv'
<1> USE DEF Page!ConfirmUnknown, Page!refresh, Page!history
<1>1. /\ UNCHANGED <<lib, pageOps, shared, pageFault, removed, lost, shown, realized, pageEvent, pageDialog>>
      /\ pageDialog = Page!NoDialog
      /\ scanning' = TRUE
      /\ enabled' = {}
      /\ result' = IF scanning THEN result ELSE <<>>
  BY DEF PageInv, Page!ButtonsSettle
<1>2. DialogOK'
  BY <1>1, SameReasons DEF PageInv, DialogOK
<1>3. DeletedOK'
  BY <1>1 DEF PageInv, DeletedOK
<1>4. Page!ButtonsSettle' /\ enabled' \subseteq shown'
  BY <1>1, ButtonsFresh
<1> QED BY <1>1, <1>2, <1>3, <1>4, PageOnly, PageTypes DEF PageInv

LEMMA CancelKeepsPage == ASSUME PageInv, Page!Cancel PROVE PageInv'
<1> USE DEF Page!Cancel, Page!page, Page!history
<1>1. /\ UNCHANGED <<lib, pageOps, shared, pageFault, removed, lost, scanning, shown, result, enabled, realized, pageEvent>>
      /\ pageDialog' = Page!NoDialog
  OBVIOUS
<1>2. DialogOK' /\ DeletedOK'
  BY <1>1 DEF PageInv, DialogOK, DeletedOK, Dialogs, Page!NoDialog
<1>3. Page!ButtonsSettle'
  BY <1>1, SameReasons DEF PageInv, Page!ButtonsSettle
<1> QED BY <1>1, <1>2, <1>3, PageOnly, PageTypes DEF PageInv

LEMMA AnswerKeeps == ASSUME PageInv, Page!Answer PROVE PageInv'
<1> USE DEF Page!Answer, Page!refresh_safety, Page!history
<1>1. /\ UNCHANGED <<lib, pageOps, shared, pageFault, removed, lost, scanning, shown, result, realized, pageEvent>>
      /\ enabled' = IF scanning' THEN {} ELSE Page!Free(shown')
      /\ ~scanning
  BY DEF PageInv, DialogOK
<1>2. DialogOK'
  <2>1. pageDialog.object \in Objects \cup {"none"} /\ pageDialog # Page!NoDialog
    BY PageTypes DEF Dialogs
  <2>2. CASE Page!item_use_reason(pageDialog.object)
    BY <2>2, <1>1 DEF DialogOK, Dialogs, Page!NoDialog
  <2>3. CASE ~Page!item_use_reason(pageDialog.object)
    <3>1. pageDialog' = [pageDialog EXCEPT !.checked = TRUE]
      BY <2>3
    <3>2. /\ pageDialog'.object = pageDialog.object /\ pageDialog'.packages = pageDialog.packages
          /\ pageDialog'.builds = pageDialog.builds /\ pageDialog' \in Dialogs
      BY <3>1, PageTypes DEF Dialogs
    <3>3. PICK x \in Objects \cup {"none"} : x = pageDialog.object
      BY <2>1
    <3>4. x # "none"
      <4>1. x = "none" => pageDialog = Page!NoDialog
        BY <3>3 DEF PageInv, DialogOK
      <4> QED BY <4>1, <2>1
    <3>5. ~Page!item_use_reason(x)'
      BY <2>3, <3>3, <1>1, SameReasons
    <3> QED BY <3>2, <3>3, <3>4, <3>5, <1>1 DEF PageInv, DialogOK
  <2> QED BY <2>2, <2>3
<1>3. DeletedOK'
  BY <1>1 DEF PageInv, DeletedOK
<1>4. Page!ButtonsSettle' /\ enabled' \subseteq shown'
  BY <1>1, ButtonsFresh DEF PageInv
<1> QED BY <1>1, <1>2, <1>3, <1>4, PageOnly, PageTypes DEF PageInv

\* What a project holds apart from itself is held by who has the project, but
\* for the packages that another project shares and a seed that is deployed.
LEMMA HeldWithProject ==
  ASSUME NEW o \in Page!Ops, ~Page!ProjectReason(o), pageOps[o].kind # "other",
         NEW i \in {"packages", "seed", "build", "project cache"}, i \in Page!Holds(o)
  PROVE  <<pageOps[o].kind, i>> \in Page!Unprotected
<1> DEFINE k == pageOps[o].kind
<1>1. Page!Running(o)
  BY DEF Page!Holds, Page!Is
<1>2. \A kinds : Page!Is(o, kinds) <=> k \in kinds
  BY <1>1 DEF Page!Is
<1>3. k \notin {"build", "preparation", "iso", "machine"} /\ k # "other"
  BY <1>2 DEF Page!ProjectReason, Page!WithProject
<1> HIDE DEF k
<1>4. CASE k \in {"toolset", "toolset update", "git", "spawned"}
  BY <1>2, <1>4 DEF Page!Holds
<1>5. CASE k = "deploy"
  BY <1>2, <1>5 DEF Page!Holds, Page!Unprotected, k
<1>6. CASE k \notin {"build", "other", "toolset", "toolset update", "preparation", "machine", "deploy", "iso", "git",
                     "spawned"}
  BY <1>2, <1>6 DEF Page!Holds
<1> QED BY <1>3, <1>4, <1>5, <1>6

\* What is removed is not in use, but for what the page can't see.
LEMMA RemovedUnused ==
  ASSUME PageInv, pageDialog.checked, NEW all \in Page!Removals, NEW i \in all \cap Objects,
         NEW o \in Page!Ops, i \in Page!Holds(o)
  PROVE  <<pageOps[o].kind, i>> \in Page!Unprotected
<1>1. PICK x \in Objects : x = pageDialog.object
  BY PageTypes DEF PageInv, DialogOK, Dialogs, Page!NoDialog
<1>2. ~Page!Reason(o, x)
  BY <1>1 DEF PageInv, DialogOK, Page!item_use_reason
<1>3. CASE i = x
  BY <1>2, <1>3, HeldIsSeen
<1>4. CASE i # x
  <2>1. x = "project" /\ i \in {"packages", "seed", "build", "project cache"} /\ (i = "packages" => pageDialog.packages)
    BY <1>1, <1>4 DEF Page!Removals
  <2>2. ~Page!ProjectReason(o)
    <3>1. ~Page!Reason(o, "project")
      BY <1>2, <2>1
    <3> QED BY <3>1 DEF Page!Reason, Page!Builds
  <2>3. i = "packages" => pageOps[o].kind # "other"
    BY <2>1 DEF PageInv, DialogOK, SharedOK
  <2>4. pageOps[o].kind = "other" => i = "packages"
    BY <2>1 DEF Page!Holds, Page!Is
  <2> QED BY <2>1, <2>2, <2>3, <2>4, HeldWithProject
<1> QED BY <1>3, <1>4

LEMMA RemoveItemKeeps == ASSUME PageInv, Page!RemoveItem PROVE PageInv'
<1>1. /\ UNCHANGED <<pageOps, shared, realized, pageEvent, shown, pageFault>>
      /\ pageDialog.checked /\ pageDialog' = Page!NoDialog /\ Page!refresh
  BY DEF Page!RemoveItem
<1>2. PICK all \in Page!Removals :
        /\ lib' = [i \in Objects |-> IF i \in all \cap Objects THEN "none" ELSE lib[i]]
        /\ removed' = removed \cup (all \cap Objects)
        /\ lost' = lost \cup {h \in Kinds \X (all \cap Objects) :
                                \E o \in Page!Ops : pageOps[o].kind = h[1] /\ h[2] \in Page!Holds(o)}
  BY DEF Page!RemoveItem
<1>3. scanning = FALSE
  BY <1>1 DEF PageInv, DialogOK, Page!NoDialog
<1>4. scanning' = TRUE /\ enabled' = {} /\ result' = <<>>
  BY <1>1, <1>3 DEF Page!refresh
<1>5. Page!NothingInUseRemoved'
  <2> SUFFICES ASSUME NEW h \in lost' PROVE h \in Page!Unprotected
    BY DEF Page!NothingInUseRemoved, Page!Unprotected
  <2>1. CASE h \in lost
    BY <2>1 DEF PageInv, Page!NothingInUseRemoved
  <2>2. CASE h \notin lost
    <3>1. PICK k \in Kinds, i \in all \cap Objects : h = <<k, i>> /\ \E o \in Page!Ops : pageOps[o].kind = k /\ i \in Page!Holds(o)
      BY <1>2, <2>2
    <3> QED BY <3>1, <1>1, RemovedUnused
  <2> QED BY <2>1, <2>2
<1>6. Page!TypeOK'
  BY <1>1, <1>2, <1>4, PageTypes DEF PageInv, Page!TypeOK
<1>7. DialogOK' /\ Page!ButtonsSettle'
  BY <1>1, <1>4 DEF DialogOK, Dialogs, Page!NoDialog, Page!ButtonsSettle
<1>8. DeletedOK'
  BY <1>1, <1>2, <1>4, PageTypes DEF PageInv, DeletedOK
<1>9. SharedOK'
  BY <1>1, SameReasons DEF PageInv
<1> QED BY <1>1, <1>4, <1>5, <1>6, <1>7, <1>8, <1>9 DEF PageInv

LEMMA ElsewhereKeeps == ASSUME PageInv, Page!RemoveElsewhere PROVE PageInv'
<1>1. UNCHANGED <<pageOps, shared, realized, pageEvent, scanning, result, shown, enabled, pageDialog, pageFault, removed, lost>>
  BY DEF Page!RemoveElsewhere, Page!page, Page!history
<1>2. PICK i \in Objects : lib' = [lib EXCEPT ![i] = "none"]
  BY DEF Page!RemoveElsewhere
<1>3. Page!TypeOK' /\ DeletedOK'
  BY <1>1, <1>2, PageTypes DEF PageInv, Page!TypeOK, DeletedOK
<1>4. DialogOK' /\ SharedOK' /\ Page!ButtonsSettle' /\ Page!NothingInUseRemoved'
  BY <1>1, SameReasons DEF PageInv, DialogOK, Page!ButtonsSettle, Page!NothingInUseRemoved
<1> QED BY <1>1, <1>3, <1>4 DEF PageInv

LEMMA ShareKeeps == ASSUME PageInv, Page!Share PROVE PageInv'
<1>1. /\ UNCHANGED <<lib, pageOps, realized, pageEvent, scanning, result, shown, enabled, pageDialog, pageFault, removed, lost>>
      /\ shared' = TRUE /\ pageDialog = Page!NoDialog
  BY DEF Page!Share, Page!page, Page!history, PageInv
<1>2. Page!TypeOK' /\ DeletedOK' /\ SharedOK'
  BY <1>1 DEF PageInv, Page!TypeOK, DeletedOK, SharedOK
<1>3. DialogOK'
  BY <1>1 DEF PageInv, DialogOK, Dialogs, Page!NoDialog
<1>4. Page!ButtonsSettle' /\ Page!NothingInUseRemoved'
  BY <1>1, SameReasons DEF PageInv, Page!ButtonsSettle, Page!NothingInUseRemoved
<1> QED BY <1>1, <1>2, <1>3, <1>4 DEF PageInv

LEMMA PageStutter == ASSUME PageInv, UNCHANGED Page!vars PROVE PageInv'
<1>1. UNCHANGED <<lib, pageOps, shared, realized, pageEvent, scanning, result, shown, enabled, pageDialog, pageFault, removed, lost>>
  BY DEF Page!vars, Page!page, Page!history
<1>2. Page!TypeOK' /\ DeletedOK' /\ SharedOK'
  BY <1>1 DEF PageInv, Page!TypeOK, DeletedOK, SharedOK
<1>3. DialogOK' /\ Page!ButtonsSettle' /\ Page!NothingInUseRemoved'
  BY <1>1, SameReasons DEF PageInv, DialogOK, Page!ButtonsSettle, Page!NothingInUseRemoved
<1> QED BY <1>1, <1>2, <1>3 DEF PageInv

LEMMA PageStep == ASSUME PageInv, Page!Next PROVE PageInv'
BY BeginKeeps, AdvanceKeeps, EndKeeps, ScanKeeps, ShowKeeps, EventKeeps, UnrealizeKeeps, ConfirmKeeps, UnknownKeeps,
   CancelKeepsPage, AnswerKeeps, RemoveItemKeeps, ElsewhereKeeps, ShareKeeps
   DEF Page!Next

LEMMA PageAlways == ASSUME StorageFaults = {} PROVE FilesSpec => []PageInv
<1>1. PageInv /\ [Page!Next]_(Page!vars) => PageInv'
  BY PageStep, PageStutter
<1> QED BY <1>1, PageInit, PageOfSpec, PTL

LEMMA PageFollows == PageInv => Page!TypeOK /\ Page!NothingInUseRemoved /\ Page!ButtonsSettle /\ Page!RemovedNotShown
BY DEF PageInv, DeletedOK, Page!RemovedNotShown

-----------------------------------------------------------------------------
(* The collection of Git directories.                                      *)

LibNames == Names \cup {""}
FileType == [git : BOOLEAN, whole : BOOLEAN, id : Nat, name : LibNames, packages : Nat, by : Nat]
RecordType == [id : Nat \ {0}, name : Names, packages : Nat]
InstallPlaces == {"none", "test", "create", "fill", "setup", "config", "done", "failed", "end"}
InstallType ==
  [name : LibNames, at : InstallPlaces, started : BOOLEAN,
   id : Nat, packages : Nat]

CollectionTypeOK ==
  /\ DOMAIN dirs \subseteq Names /\ IsFiniteSet(DOMAIN dirs) /\ dirs \in [DOMAIN dirs -> FileType]
  /\ records \subseteq RecordType
  /\ installs \in [Library!Installs -> InstallType]
  /\ renaming \in [id : Nat, name : LibNames] /\ dialog \in [id : Nat, packages : Nat]
  /\ ids \in Nat /\ crashes \in Nat /\ packages \subseteq 1 .. ids

Active(i) == installs[i].at \notin {"none", "end"}
\* Who has begun to create its directory
Busy(i) == installs[i].at \in {"create", "fill", "setup", "config", "done"} \/ (installs[i].at = "failed" /\ installs[i].started)
\* The directory of a record
PlaceOf(r) == IF renaming.id = r.id THEN renaming.name ELSE r.name
Renamed(n) == renaming.id # 0 /\ n = renaming.name

\* An id is of one record, of one directory and of one installation.
IdsOK ==
  /\ \A r \in records : r.id <= ids /\ \A s \in records : r.id = s.id => r = s
  /\ \A n \in DOMAIN dirs : dirs[n].id # 0 => dirs[n].id <= ids /\ dirs[n].name \in Names
  /\ \A m, n \in DOMAIN dirs : dirs[m].id # 0 /\ dirs[m].id = dirs[n].id => m = n
  /\ \A i \in Library!Installs : Active(i) =>
       /\ installs[i].id \in 1 .. ids /\ installs[i].name \in Names
       /\ \A r \in records : r.id # installs[i].id
       /\ \A j \in Library!Installs : Active(j) /\ installs[j].id = installs[i].id => i = j

\* A directory that has the id of a record or of an installation is theirs,
\* or is just being renamed.
OwnersKnown ==
  \A n \in DOMAIN dirs : dirs[n].id # 0 =>
    /\ \A r \in records : r.id = dirs[n].id => Renamed(n) \/ n = PlaceOf(r)
    /\ \A i \in Library!Installs : Active(i) /\ installs[i].id = dirs[n].id =>
         installs[i].at = "done" /\ (Renamed(n) \/ n = installs[i].name)

\* Who began has started.
Started(i) ==
  /\ installs[i].at = "test" => ~installs[i].started
  /\ installs[i].at \in {"create", "fill", "setup", "config", "done"} => installs[i].started
StartedOK == \A i \in Library!Installs : Started(i)

\* An installation makes one directory, and one that was not there.
MakersKnown ==
  /\ \A n \in DOMAIN dirs : dirs[n].by \in Library!Installs /\ installs[dirs[n].by].at \notin {"none", "test", "create"}
  /\ \A m, n \in DOMAIN dirs : dirs[m].by = dirs[n].by => m = n
CreatorsKnown ==
  \A i \in Library!Installs : installs[i].at = "create" =>
    /\ installs[i].name \notin DOMAIN dirs
    /\ \A j \in Library!Installs : installs[j].at = "create" /\ installs[j].name = installs[i].name => i = j

\* The collection does one thing at a time for the user.
OneQuestion ==
  /\ renaming.id # 0 =>
       /\ dialog.id = 0 /\ renaming.name \in Names
       /\ \E r \in records : r.id = renaming.id
       /\ \A i \in Library!Installs : Active(i) => installs[i].name # renaming.name
  /\ dialog.id # 0 => \E r \in records : r.id = dialog.id

\* Without a crash in a renaming, records and directories belong together.
Orderly == libraryFault # "crash while renaming" \/ crashes = 0
RecordsOK ==
  /\ \A r, s \in records : r.name = s.name => r = s
  /\ \A r \in records : /\ PlaceOf(r) \in DOMAIN dirs
                        /\ dirs[PlaceOf(r)].id = r.id /\ dirs[PlaceOf(r)].packages = r.packages
  /\ \A n \in DOMAIN dirs : dirs[n].id # 0 => dirs[n].git /\ (dirs[n].name = n \/ Renamed(n))

\* What an installation has made, nobody else has a record of.
InstallsOK ==
  \A i \in Library!Installs : Busy(i) =>
    /\ \A r \in records : r.name = installs[i].name => renaming.id = r.id
    /\ \A j \in Library!Installs : Busy(j) /\ installs[j].name = installs[i].name => i = j
    /\ installs[i].at # "create" =>
         /\ installs[i].name \in DOMAIN dirs
         /\ dirs[installs[i].name].by = i
         /\ dirs[installs[i].name].id = IF installs[i].at = "done" THEN installs[i].id ELSE 0
    /\ installs[i].at \in {"setup", "config", "done"} => dirs[installs[i].name].whole
    /\ installs[i].at \in {"config", "done"} => dirs[installs[i].name].git

\* Nobody's directory is one a crash or a cancel has left.
NobodysOK ==
  crashes = 0 /\ libraryFault # "cancel" =>
    \A n \in DOMAIN dirs :
      \/ \E r \in records : PlaceOf(r) = n /\ dirs[n].whole /\ dirs[n].git
      \/ \E i \in Library!Installs : Busy(i) /\ installs[i].name = n

Careful == libraryFault \in {"none", "cancel"}
CollectionKept ==
  /\ \A i \in Library!Installs : Active(i) => installs[i].packages = 0 \/ installs[i].packages \in packages
  /\ \A id \in installed : \E r \in records : r.id = id /\ r.packages \in packages /\ dirs[PlaceOf(r)].whole

CollectionInv ==
  /\ CollectionTypeOK /\ IdsOK /\ OwnersKnown /\ StartedOK /\ MakersKnown /\ CreatorsKnown /\ OneQuestion
  /\ Orderly => RecordsOK /\ InstallsOK /\ NobodysOK
  /\ Careful => CollectionKept

LEMMA CollectionOfSpec == FilesSpec => Library!Init /\ [][Library!Next]_(Library!vars)
<1>1. FilesInit => Library!Init
  BY DEF FilesInit
<1>2. [FilesNext]_filesVars => [Library!Next]_(Library!vars)
  BY DEF FilesNext, filesVars, libraryVars, pageVars, folderVars, Library!vars, Library!app, Library!bounds
<1> QED BY <1>1, <1>2, PTL DEF FilesSpec

LEMMA CollectionFaults == LibraryFaults \subseteq {"cancel", "crash while renaming", "late answer"} /\ MaxInstalls \in Nat
BY FilesAssumption DEF Library!LibraryAssumption

LEMMA CollectionInit == ASSUME Library!Init PROVE CollectionInv
<1> USE DEF Library!Init
<1>1. CollectionTypeOK
  <2>1. DOMAIN dirs = {} /\ IsFiniteSet(DOMAIN dirs)
    BY FS_EmptySet
  <2> QED BY <2>1 DEF CollectionTypeOK, LibNames, InstallType, InstallPlaces, Library!Idle, Library!NoDialog
<1>2. /\ DOMAIN dirs = {} /\ records = {} /\ installed = {} /\ renaming.id = 0 /\ dialog.id = 0
      /\ \A i \in Library!Installs : installs[i].at = "none"
  BY DEF Library!Idle, Library!NoDialog
<1> QED BY <1>1, <1>2 DEF CollectionInv, IdsOK, OwnersKnown, StartedOK, Started, MakersKnown, CreatorsKnown,
   OneQuestion, RecordsOK, InstallsOK, NobodysOK,
     CollectionKept, Active, Busy

-----------------------------------------------------------------------------
(* What save_all() writes.                                                 *)

Recorded(n, rs) == \E r \in rs : r.name = n

LEMMA SavedFacts ==
  ASSUME NEW D, NEW fs \in [D -> FileType], NEW rs \in SUBSET RecordType
  PROVE  /\ Library!Saved(fs, rs) \in [D -> FileType]
         /\ \A n \in D :
              /\ Library!Saved(fs, rs)[n].git = fs[n].git /\ Library!Saved(fs, rs)[n].whole = fs[n].whole
              /\ Library!Saved(fs, rs)[n].by = fs[n].by
              /\ ~Recorded(n, rs) => Library!Saved(fs, rs)[n] = fs[n]
              /\ Recorded(n, rs) => \E r \in rs : /\ r.name = n /\ Library!Saved(fs, rs)[n].id = r.id
                                                  /\ Library!Saved(fs, rs)[n].name = n
                                                  /\ Library!Saved(fs, rs)[n].packages = r.packages
<1> DEFINE new == Library!Saved(fs, rs)
<1>1. DOMAIN fs = D
  OBVIOUS
<1>2. \A n \in D : ~Recorded(n, rs) => new[n] = fs[n]
  BY <1>1 DEF Library!Saved, Recorded
<1>3. ASSUME NEW n \in D, Recorded(n, rs)
      PROVE  \E r \in rs : r.name = n /\ new[n] = [fs[n] EXCEPT !.id = r.id, !.name = n, !.packages = r.packages]
  <2> DEFINE r == CHOOSE x \in rs : x.name = n
  <2>1. r \in rs /\ r.name = n
    BY <1>3 DEF Recorded
  <2>2. new[n] = [fs[n] EXCEPT !.id = r.id, !.name = n, !.packages = r.packages]
    BY <1>1, <1>3 DEF Library!Saved, Recorded
  <2> HIDE DEF r, new
  <2> QED BY <2>1, <2>2
<1>4. new = [n \in D |-> new[n]]
  BY <1>1 DEF Library!Saved
<1> HIDE DEF new
<1>5. ASSUME NEW n \in D
      PROVE  /\ new[n] \in FileType /\ new[n].git = fs[n].git /\ new[n].whole = fs[n].whole /\ new[n].by = fs[n].by
             /\ Recorded(n, rs) => \E r \in rs : r.name = n /\ new[n].id = r.id /\ new[n].name = n /\ new[n].packages = r.packages
  <2>0. fs[n] \in FileType
    OBVIOUS
  <2>1. CASE ~Recorded(n, rs)
    BY <2>1, <2>0, <1>2
  <2>2. CASE Recorded(n, rs)
    <3>1. PICK r \in rs : r.name = n /\ new[n] = [fs[n] EXCEPT !.id = r.id, !.name = n, !.packages = r.packages]
      BY <2>2, <1>3
    <3>2. r \in RecordType
      OBVIOUS
    <3> QED BY <2>0, <3>1, <3>2 DEF FileType, RecordType, LibNames
  <2> QED BY <2>1, <2>2
<1> QED BY <1>2, <1>4, <1>5 DEF new

\* Before it, no id is of two; and nobody has the id of an unrecorded directory.
BeforeSave(D, fs, rs, k) ==
  /\ \A r \in rs : r.id <= k /\ \A s \in rs : r.id = s.id => r = s
  /\ \A n \in D : ~Recorded(n, rs) /\ fs[n].id # 0 =>
       /\ fs[n].id <= k /\ fs[n].name \in Names
       /\ \A r \in rs : r.id # fs[n].id
       /\ \A m \in D : ~Recorded(m, rs) /\ fs[m].id = fs[n].id => m = n

\* After it, the same is true of all directories.
LEMMA SavedIds ==
  ASSUME NEW D, NEW fs \in [D -> FileType], NEW rs \in SUBSET RecordType, NEW k, BeforeSave(D, fs, rs, k),
         NEW new, new = Library!Saved(fs, rs)
  PROVE  /\ \A n \in D : new[n].id # 0 => new[n].id <= k /\ new[n].name \in Names
         /\ \A m, n \in D : new[m].id # 0 /\ new[m].id = new[n].id => m = n
         /\ \A n \in D : new[n].id # 0 => \A r \in rs : r.id = new[n].id => n = r.name
<1>1. \A n \in D : /\ ~Recorded(n, rs) => new[n] = fs[n]
                   /\ Recorded(n, rs) => \E r \in rs : r.name = n /\ new[n].id = r.id /\ new[n].name = n
  BY SavedFacts
<1>2. \A r \in rs : r \in RecordType /\ r.name \in Names
  BY DEF RecordType
<1>3. \A n \in D : new[n].id # 0 => new[n].id <= k /\ new[n].name \in Names
  BY <1>1, <1>2 DEF BeforeSave
<1>4. \A n \in D : new[n].id # 0 => \A r \in rs : r.id = new[n].id => n = r.name
  BY <1>1 DEF BeforeSave
<1>5. ASSUME NEW m \in D, NEW n \in D, new[m].id # 0, new[m].id = new[n].id PROVE m = n
  <2>1. CASE Recorded(m, rs)
    BY <2>1, <1>1, <1>4, <1>5
  <2>2. CASE Recorded(n, rs)
    BY <2>2, <1>1, <1>4, <1>5
  <2>3. CASE ~Recorded(m, rs) /\ ~Recorded(n, rs)
    BY <2>3, <1>1, <1>5 DEF BeforeSave
  <2> QED BY <2>1, <2>2, <2>3
<1> QED BY <1>3, <1>4, <1>5

\* When names are of one record too, what is saved is the record.
LEMMA SavedRecords ==
  ASSUME NEW D, NEW fs \in [D -> FileType], NEW rs \in SUBSET RecordType, \A r, s \in rs : r.name = s.name => r = s,
         NEW new, new = Library!Saved(fs, rs), NEW r \in rs, r.name \in D
  PROVE  new[r.name].id = r.id /\ new[r.name].name = r.name /\ new[r.name].packages = r.packages
<1>1. Recorded(r.name, rs)
  BY DEF Recorded
<1>2. PICK s \in rs : s.name = r.name /\ new[r.name].id = s.id /\ new[r.name].name = s.name /\ new[r.name].packages = s.packages
  BY <1>1, SavedFacts
<1> QED BY <1>2

-----------------------------------------------------------------------------
(* Steps of an installation.                                               *)

\* Installation i goes on to a; others stay as they are.
Moves(i, a) ==
  /\ installs' \in [Library!Installs -> InstallType] /\ installs'[i].at = a
  /\ installs'[i].name = installs[i].name /\ installs'[i].id = installs[i].id /\ installs'[i].packages = installs[i].packages
  /\ \A j \in Library!Installs \ {i} : installs'[j] = installs[j]
OthersStay == UNCHANGED <<records, packages, renaming, dialog, ids, crashes, libraryFault, installed>>

LEMMA ToMoves ==
  ASSUME CollectionInv, NEW i \in Library!Installs, NEW a \in InstallPlaces, Library!To(i, a)
  PROVE  Moves(i, a) /\ installs'[i].started = installs[i].started
BY DEF CollectionInv, CollectionTypeOK, Library!To, Moves, InstallType

\* The directory that an installation makes is of no record.
LEMMA NotOfRecord ==
  ASSUME CollectionInv, Orderly, NEW i \in Library!Installs, Busy(i), NEW r \in records
  PROVE  PlaceOf(r) # installs[i].name
<1>1. PlaceOf(r) \in DOMAIN dirs /\ dirs[PlaceOf(r)].id = r.id /\ r.id # 0
  BY DEF CollectionInv, RecordsOK, CollectionTypeOK, RecordType
<1>2. CASE installs[i].at = "create"
  BY <1>1, <1>2 DEF CollectionInv, CreatorsKnown
<1>3. CASE installs[i].at # "create"
  <2>1. dirs[installs[i].name].id \in {0, installs[i].id} /\ r.id # installs[i].id
    BY <1>3 DEF CollectionInv, InstallsOK, IdsOK, Active, Busy
  <2> QED BY <1>1, <2>1
<1> QED BY <1>2, <1>3

LEMMA InstallerKeeps ==
  ASSUME CollectionInv, NEW i \in Library!Installs, Active(i), NEW a \in InstallPlaces, Moves(i, a), OthersStay,
         DOMAIN dirs' \subseteq DOMAIN dirs \cup {installs[i].name}, dirs' \in [DOMAIN dirs' -> FileType],
         Orderly => \A r \in records : dirs'[PlaceOf(r)] = dirs[PlaceOf(r)]
  PROVE  /\ CollectionTypeOK' /\ OneQuestion' /\ (Careful' => CollectionKept')
         /\ Orderly' = Orderly /\ \A r \in records : PlaceOf(r)' = PlaceOf(r)
<1>1. UNCHANGED <<records, packages, renaming, dialog, ids, crashes, libraryFault, installed>>
  BY DEF OthersStay
<1>2. CollectionTypeOK'
  <2>1. installs[i].name \in Names
    BY DEF CollectionInv, IdsOK
  <2>2. IsFiniteSet(DOMAIN dirs')
    <3>1. IsFiniteSet(DOMAIN dirs \cup {installs[i].name})
      BY FS_Singleton, FS_Union DEF CollectionInv, CollectionTypeOK
    <3> QED BY <3>1, FS_Subset
  <2> QED BY <1>1, <2>1, <2>2 DEF CollectionInv, CollectionTypeOK, Moves
<1>3. \A j \in Library!Installs : (Active(j)' => Active(j)) /\ installs'[j].name = installs[j].name /\ installs'[j].packages = installs[j].packages
  BY DEF Moves, Active
<1>4. OneQuestion'
  BY <1>1, <1>3 DEF CollectionInv, OneQuestion
<1>5. Orderly' = Orderly /\ \A r \in records : PlaceOf(r)' = PlaceOf(r)
  BY <1>1 DEF Orderly, PlaceOf
<1>6. ASSUME Careful' PROVE CollectionKept'
  <2>1. Careful /\ Orderly
    BY <1>1, <1>6 DEF Careful, Orderly
  <2>2. \A r \in records : dirs'[PlaceOf(r)] = dirs[PlaceOf(r)]
    BY <2>1
  <2>3. CollectionKept
    BY <2>1 DEF CollectionInv
  <2>4. \A id \in installed : \E r \in records : r.id = id /\ r.packages \in packages /\ dirs'[PlaceOf(r)'].whole
    <3> SUFFICES ASSUME NEW id \in installed PROVE \E r \in records : r.id = id /\ r.packages \in packages /\ dirs'[PlaceOf(r)'].whole
      OBVIOUS
    <3>1. PICK r \in records : r.id = id /\ r.packages \in packages /\ dirs[PlaceOf(r)].whole
      BY <2>3 DEF CollectionKept
    <3>2. dirs'[PlaceOf(r)'] = dirs[PlaceOf(r)]
      BY <2>2, <1>5
    <3> QED BY <3>1, <3>2
  <2> QED BY <1>1, <1>3, <2>3, <2>4 DEF CollectionKept
<1> QED BY <1>2, <1>4, <1>5, <1>6

LEMMA FailKeeps ==
  ASSUME CollectionInv, NEW i \in Library!Installs, installs[i].at \in {"test", "fill", "setup"}, Library!To(i, "failed"),
         OthersStay, UNCHANGED dirs
  PROVE  CollectionInv'
<1>1. Moves(i, "failed") /\ installs'[i].started = installs[i].started /\ UNCHANGED <<records, ids, renaming, crashes, libraryFault>>
  BY ToMoves DEF InstallPlaces, OthersStay
<1>2. /\ CollectionTypeOK' /\ OneQuestion' /\ (Careful' => CollectionKept')
      /\ Orderly' = Orderly /\ \A r \in records : PlaceOf(r)' = PlaceOf(r)
  <2>1. Active(i) /\ dirs \in [DOMAIN dirs -> FileType]
    BY DEF Active, CollectionInv, CollectionTypeOK
  <2> QED BY <1>1, <2>1, InstallerKeeps DEF InstallPlaces
<1>3. \A j \in Library!Installs : /\ (Active(j)' <=> Active(j)) /\ (Busy(j)' <=> Busy(j))
                                  /\ installs'[j].id = installs[j].id /\ installs'[j].name = installs[j].name
                                  /\ installs'[j].at = IF j = i THEN "failed" ELSE installs[j].at
                                  /\ installs'[j].started = installs[j].started
  <2>1. \A j \in Library!Installs \ {i} : installs'[j] = installs[j]
    BY <1>1 DEF Moves
  <2>2. /\ installs'[i].id = installs[i].id /\ installs'[i].name = installs[i].name
        /\ installs'[i].at = "failed"
    BY <1>1 DEF Moves
  <2>3. Active(i)' /\ Active(i)
    BY <2>2 DEF Active
  <2>4. CASE installs[i].at = "test"
    <3>1. ~installs[i].started
      BY <2>4 DEF CollectionInv, StartedOK, Started
    <3> QED BY <1>1, <2>1, <2>2, <2>3, <2>4, <3>1 DEF Active, Busy
  <2>5. CASE installs[i].at \in {"fill", "setup"}
    <3>1. installs[i].started
      BY <2>5 DEF CollectionInv, StartedOK, Started
    <3> QED BY <1>1, <2>1, <2>2, <2>3, <2>5, <3>1 DEF Active, Busy
  <2> QED BY <2>4, <2>5
<1>4. IdsOK' /\ OwnersKnown'
  BY <1>1, <1>2, <1>3 DEF CollectionInv, IdsOK, OwnersKnown, Renamed
<1>5. MakersKnown' /\ CreatorsKnown' /\ StartedOK'
  <2>1. MakersKnown'
    BY <1>3 DEF CollectionInv, MakersKnown
  <2>2. CreatorsKnown'
    BY <1>3 DEF CollectionInv, CreatorsKnown
  <2>3. StartedOK'
    BY <1>3 DEF CollectionInv, StartedOK, Started
  <2> QED BY <2>1, <2>2, <2>3
<1>6. ASSUME Orderly' PROVE RecordsOK' /\ InstallsOK' /\ NobodysOK'
  <2>1. RecordsOK'
    BY <1>1, <1>2, <1>6 DEF CollectionInv, RecordsOK, Renamed
  <2>2. InstallsOK'
    BY <1>1, <1>2, <1>3, <1>6 DEF CollectionInv, InstallsOK
  <2>3. NobodysOK'
    BY <1>1, <1>2, <1>3, <1>6 DEF CollectionInv, NobodysOK
  <2> QED BY <2>1, <2>2, <2>3
<1> QED BY <1>2, <1>4, <1>5, <1>6 DEF CollectionInv

LEMMA CreateDirectoryKeeps == ASSUME CollectionInv, NEW i \in Library!Installs, Library!CreateDirectory(i) PROVE CollectionInv'
<1>0. OthersStay /\ UNCHANGED dirs /\ installs[i].at = "test"
  BY DEF Library!CreateDirectory, Library!At, OthersStay, Library!app, Library!bounds
<1>a. CASE Library!To(i, "failed")
  BY <1>a, <1>0, FailKeeps
<1>b. CASE ~Library!Exists(installs[i].name) /\ installs' = [installs EXCEPT ![i].at = "create", ![i].started = TRUE]
  <2>1. /\ Moves(i, "create") /\ installs'[i].started = TRUE
        /\ UNCHANGED <<records, ids, renaming, crashes, libraryFault>>
    BY <1>0, <1>b DEF OthersStay, CollectionInv, CollectionTypeOK, Moves, InstallType, InstallPlaces
  <2>2. /\ CollectionTypeOK' /\ OneQuestion' /\ (Careful' => CollectionKept')
        /\ Orderly' = Orderly /\ \A r \in records : PlaceOf(r)' = PlaceOf(r)
    <3>1. Active(i) /\ dirs \in [DOMAIN dirs -> FileType]
      BY <1>0 DEF Active, CollectionInv, CollectionTypeOK
    <3> QED BY <1>0, <2>1, <3>1, InstallerKeeps DEF InstallPlaces
  <2>3. \A j \in Library!Installs : /\ (Active(j)' <=> Active(j)) /\ (Busy(j)' <=> Busy(j) \/ j = i)
                                    /\ installs'[j].id = installs[j].id /\ installs'[j].name = installs[j].name
                                    /\ installs'[j].at = IF j = i THEN "create" ELSE installs[j].at
    BY <1>0, <2>1 DEF Moves, Active, Busy
  <2>4. IdsOK' /\ OwnersKnown'
    <3>1. IdsOK'
      BY <1>0, <2>1, <2>3 DEF CollectionInv, IdsOK
    <3>2. OwnersKnown'
      BY <1>0, <2>1, <2>2, <2>3 DEF CollectionInv, OwnersKnown, Renamed
    <3> QED BY <3>1, <3>2
  <2>5. \A j \in Library!Installs : installs[j].name = installs[i].name => installs[j].at # "create"
    BY DEF Library!CreateDirectory, Library!Alone
  <2>6. MakersKnown' /\ CreatorsKnown' /\ StartedOK'
    <3>1. MakersKnown'
      BY <1>0, <2>3 DEF CollectionInv, MakersKnown
    <3>2. CreatorsKnown'
      <4>1. installs[i].name \notin DOMAIN dirs /\ UNCHANGED dirs
        BY <1>0, <1>b DEF Library!Exists
      <4> QED BY <4>1, <2>3, <2>5 DEF CollectionInv, CreatorsKnown
    <3>3. \A j \in Library!Installs : Started(j)'
      BY <2>1 DEF CollectionInv, StartedOK, Started, Moves
    <3> QED BY <3>1, <3>2, <3>3 DEF StartedOK
  <2>7. ASSUME Orderly' PROVE RecordsOK' /\ InstallsOK' /\ NobodysOK'
    <3>1. RecordsOK'
      BY <1>0, <2>1, <2>2, <2>7 DEF CollectionInv, RecordsOK, Renamed
    <3>2. \A j \in Library!Installs : Busy(j) => installs[j].name # installs[i].name
      BY <1>b, <2>2, <2>5, <2>7 DEF CollectionInv, InstallsOK, Library!Exists
    <3>3. \A r \in records : r.name = installs[i].name => renaming.id = r.id
      BY <1>b, <2>2, <2>7 DEF CollectionInv, RecordsOK, PlaceOf, Library!Exists
    <3>4. InstallsOK'
      BY <1>0, <2>1, <2>2, <2>3, <2>7, <3>2, <3>3 DEF CollectionInv, InstallsOK
    <3>5. NobodysOK'
      BY <1>0, <2>1, <2>2, <2>3, <2>7 DEF CollectionInv, NobodysOK
    <3> QED BY <3>1, <3>4, <3>5
  <2> QED BY <2>2, <2>4, <2>6, <2>7 DEF CollectionInv
<1> QED BY <1>a, <1>b DEF Library!CreateDirectory

NewFiles(git, i) == [Library!NoFiles EXCEPT !.git = git, !.by = i]
LEMMA NewFilesFacts ==
  ASSUME NEW git \in BOOLEAN, NEW i \in Nat
  PROVE  NewFiles(git, i).id = 0 /\ NewFiles(git, i).by = i /\ NewFiles(git, i) \in FileType
<1>1. NewFiles(TRUE, i).id = 0 /\ NewFiles(TRUE, i).by = i /\ NewFiles(TRUE, i) \in FileType
  BY DEF NewFiles, Library!NoFiles, FileType, LibNames
<1>2. NewFiles(FALSE, i).id = 0 /\ NewFiles(FALSE, i).by = i /\ NewFiles(FALSE, i) \in FileType
  BY DEF NewFiles, Library!NoFiles, FileType, LibNames
<1>3. git = TRUE \/ git = FALSE
  OBVIOUS
<1> QED BY <1>1, <1>2, <1>3

LEMMA CreateFilesKeeps ==
  ASSUME CollectionInv, NEW i \in Library!Installs, NEW git \in BOOLEAN, Library!CreateFiles(i, git) PROVE CollectionInv'
<1> DEFINE n0 == installs[i].name
           fresh == [Library!NoFiles EXCEPT !.git = git, !.by = i]
<1>0. installs[i].at = "create" /\ OthersStay /\ Active(i) /\ Busy(i) /\ n0 \in Names
  BY DEF Library!CreateFiles, Library!At, OthersStay, Library!app, Library!bounds, Active, Busy, CollectionInv, IdsOK
<1>1. n0 \notin DOMAIN dirs /\ dirs' = Library!Put(dirs, n0, fresh) /\ Library!To(i, "fill")
  <2>1. ~Library!Exists(n0)
    BY <1>0 DEF CollectionInv, CreatorsKnown, Library!Exists
  <2>2. dirs' = Library!Put(dirs, n0, fresh) /\ Library!To(i, "fill")
    BY <2>1 DEF Library!CreateFiles
  <2> QED BY <2>1, <2>2 DEF Library!Exists
<1> HIDE DEF fresh
<1>2. /\ DOMAIN dirs' = DOMAIN dirs \cup {n0} /\ dirs'[n0] = fresh
      /\ \A n \in DOMAIN dirs : dirs'[n] = dirs[n]
  BY <1>1 DEF Library!Put
<1>3. fresh.id = 0 /\ fresh.by = i /\ fresh \in FileType
  <2>1. i \in 1 .. MaxInstalls /\ MaxInstalls \in Nat
    BY CollectionFaults DEF Library!Installs
  <2>2. fresh = NewFiles(git, i)
    BY DEF fresh, NewFiles
  <2> QED BY <2>1, <2>2, NewFilesFacts
<1>4. dirs' \in [DOMAIN dirs' -> FileType]
  <2>1. dirs' = [m \in DOMAIN dirs \cup {n0} |-> IF m = n0 THEN fresh ELSE dirs[m]]
    BY <1>1 DEF Library!Put
  <2> HIDE DEF n0
  <2> QED BY <2>1, <1>3 DEF CollectionInv, CollectionTypeOK
<1>5. Moves(i, "fill") /\ installs'[i].started = installs[i].started /\ UNCHANGED <<records, ids, renaming, crashes, libraryFault>>
  BY <1>0, <1>1, ToMoves DEF InstallPlaces, OthersStay
<1>6. /\ CollectionTypeOK' /\ OneQuestion' /\ (Careful' => CollectionKept')
      /\ Orderly' = Orderly /\ \A r \in records : PlaceOf(r)' = PlaceOf(r)
  <2>1. Orderly => \A r \in records : dirs'[PlaceOf(r)] = dirs[PlaceOf(r)]
    BY <1>2 DEF CollectionInv, RecordsOK
  <2> QED BY <1>0, <1>2, <1>4, <1>5, <2>1, InstallerKeeps DEF InstallPlaces
<1>7. \A j \in Library!Installs : /\ (Active(j)' <=> Active(j)) /\ (Busy(j)' <=> Busy(j))
                                  /\ installs'[j].id = installs[j].id /\ installs'[j].name = installs[j].name
                                  /\ installs'[j].at = IF j = i THEN "fill" ELSE installs[j].at
  BY <1>0, <1>5 DEF Moves, Active, Busy
<1>8. IdsOK'
  BY <1>2, <1>3, <1>5, <1>7 DEF CollectionInv, IdsOK
<1>9. OwnersKnown'
  BY <1>0, <1>2, <1>3, <1>5, <1>6, <1>7 DEF CollectionInv, OwnersKnown, Renamed
<1>10. MakersKnown' /\ CreatorsKnown' /\ StartedOK'
  <2>1. \A n \in DOMAIN dirs : dirs[n].by # i
    BY <1>0 DEF CollectionInv, MakersKnown
  <2>2. \A j \in Library!Installs : installs'[j].at = "create" => j # i /\ installs[j].at = "create" /\ installs[j].name # n0
    BY <1>0, <1>7 DEF CollectionInv, CreatorsKnown
  <2>3. MakersKnown'
    BY <1>2, <1>3, <1>7, <2>1 DEF CollectionInv, MakersKnown
  <2>4. CreatorsKnown'
    BY <1>2, <1>7, <2>2 DEF CollectionInv, CreatorsKnown
  <2>5. StartedOK'
    <3>1. installs[i].started
      BY <1>0 DEF CollectionInv, StartedOK, Started
    <3>2. \A j \in Library!Installs : Started(j)'
      BY <3>1, <1>5 DEF CollectionInv, StartedOK, Started, Moves
    <3> QED BY <3>2 DEF StartedOK
  <2> QED BY <2>3, <2>4, <2>5
<1>11. ASSUME Orderly' PROVE RecordsOK' /\ InstallsOK' /\ NobodysOK'
  <2>0. \A r \in records : PlaceOf(r) \in DOMAIN dirs
    BY <1>6, <1>11 DEF CollectionInv, RecordsOK
  <2>1. RecordsOK'
    BY <1>2, <1>3, <1>5, <1>6, <1>11, <2>0 DEF CollectionInv, RecordsOK, Renamed
  <2>2. \A j \in Library!Installs : Busy(j) /\ installs[j].name = n0 => j = i
    BY <1>0, <1>6, <1>11 DEF CollectionInv, InstallsOK
  <2>3. InstallsOK'
    BY <1>0, <1>2, <1>3, <1>5, <1>6, <1>7, <1>11, <2>2 DEF CollectionInv, InstallsOK
  <2>4. NobodysOK'
    BY <1>0, <1>2, <1>5, <1>6, <1>7, <1>11 DEF CollectionInv, NobodysOK
  <2> QED BY <2>1, <2>3, <2>4
<1> QED BY <1>6, <1>8, <1>9, <1>10, <1>11 DEF CollectionInv

\* An installation goes on with its own directory.
GoesOn(i, a) ==
  /\ DOMAIN dirs' = DOMAIN dirs /\ dirs' \in [DOMAIN dirs -> FileType]
  /\ \A n \in DOMAIN dirs :
       /\ dirs'[n].id = dirs[n].id /\ dirs'[n].name = dirs[n].name
       /\ dirs'[n].packages = dirs[n].packages /\ dirs'[n].by = dirs[n].by
  /\ \A n \in DOMAIN dirs : n # installs[i].name => dirs'[n] = dirs[n]
  /\ \A n \in DOMAIN dirs : /\ dirs[n].whole => dirs'[n].whole
                            /\ dirs[n].git => dirs'[n].git
                            /\ n = installs[i].name /\ Orderly => dirs'[n].whole /\ (a = "config" => dirs'[n].git)

LEMMA EditKeeps ==
  ASSUME CollectionInv, NEW i \in Library!Installs, installs[i].at \in {"fill", "setup"}, NEW a \in {"setup", "config"},
         Library!To(i, a), OthersStay, GoesOn(i, a)
  PROVE  CollectionInv'
<1> DEFINE n0 == installs[i].name
<1>0. Active(i) /\ Busy(i) /\ n0 \in Names
  BY DEF Active, Busy, CollectionInv, IdsOK
<1>d. /\ DOMAIN dirs' = DOMAIN dirs /\ dirs' \in [DOMAIN dirs -> FileType]
      /\ \A n \in DOMAIN dirs : dirs'[n].id = dirs[n].id /\ dirs'[n].name = dirs[n].name /\ dirs'[n].by = dirs[n].by
      /\ \A n \in DOMAIN dirs : n # n0 => dirs'[n] = dirs[n]
  BY DEF GoesOn
<1>1. Moves(i, a) /\ installs'[i].started = installs[i].started /\ UNCHANGED <<records, ids, renaming, crashes, libraryFault>>
  BY ToMoves DEF InstallPlaces, OthersStay
<1>2. /\ CollectionTypeOK' /\ OneQuestion' /\ (Careful' => CollectionKept')
      /\ Orderly' = Orderly /\ \A r \in records : PlaceOf(r)' = PlaceOf(r)
  <2>1. Orderly => \A r \in records : dirs'[PlaceOf(r)] = dirs[PlaceOf(r)]
    BY <1>0, <1>d, NotOfRecord DEF CollectionInv, RecordsOK
  <2> QED BY <1>0, <1>1, <1>d, <2>1, InstallerKeeps DEF InstallPlaces
<1>3. \A j \in Library!Installs : /\ (Active(j)' <=> Active(j)) /\ (Busy(j)' <=> Busy(j))
                                  /\ installs'[j].id = installs[j].id /\ installs'[j].name = installs[j].name
                                  /\ installs'[j].at = IF j = i THEN a ELSE installs[j].at
  BY <1>0, <1>1 DEF Moves, Active, Busy
<1>4. IdsOK'
  BY <1>1, <1>3, <1>d DEF CollectionInv, IdsOK
<1>5. OwnersKnown'
  BY <1>1, <1>2, <1>3, <1>d DEF CollectionInv, OwnersKnown, Renamed
<1>6. MakersKnown' /\ CreatorsKnown' /\ StartedOK'
  <2>1. MakersKnown'
    BY <1>3, <1>d DEF CollectionInv, MakersKnown
  <2>2. CreatorsKnown'
    BY <1>3, <1>d DEF CollectionInv, CreatorsKnown
  <2>3. installs[i].started
    BY DEF CollectionInv, StartedOK, Started
  <2>4. \A j \in Library!Installs : Started(j)'
    BY <2>3, <1>1 DEF CollectionInv, StartedOK, Started, Moves
  <2> QED BY <2>1, <2>2, <2>4 DEF StartedOK
<1>7. ASSUME Orderly' PROVE RecordsOK' /\ InstallsOK' /\ NobodysOK'
  <2>1. RecordsOK'
    BY <1>1, <1>2, <1>7 DEF CollectionInv, RecordsOK, Renamed, GoesOn
  <2>2. InstallsOK'
    BY <1>0, <1>1, <1>2, <1>3, <1>7 DEF CollectionInv, InstallsOK, GoesOn
  <2>3. NobodysOK'
    BY <1>1, <1>2, <1>3, <1>7 DEF CollectionInv, NobodysOK, GoesOn
  <2> QED BY <2>1, <2>2, <2>3
<1> QED BY <1>2, <1>4, <1>5, <1>6, <1>7 DEF CollectionInv

LEMMA FieldsOf ==
  ASSUME NEW D, NEW f \in [D -> FileType], NEW n
  PROVE  /\ [f EXCEPT ![n].whole = TRUE] \in [D -> FileType] /\ [f EXCEPT ![n].git = TRUE] \in [D -> FileType]
         /\ \A m \in D : /\ m # n => [f EXCEPT ![n].whole = TRUE][m] = f[m] /\ [f EXCEPT ![n].git = TRUE][m] = f[m]
                         /\ m = n => [f EXCEPT ![n].whole = TRUE][m] = [f[m] EXCEPT !.whole = TRUE]
                         /\ m = n => [f EXCEPT ![n].git = TRUE][m] = [f[m] EXCEPT !.git = TRUE]
BY DEF FileType

Filled(x) == [x EXCEPT !.whole = TRUE]
Repository(x) == [x EXCEPT !.git = TRUE]
LEMMA FieldOf ==
  ASSUME NEW x \in FileType
  PROVE  /\ Filled(x).id = x.id /\ Filled(x).name = x.name /\ Filled(x).packages = x.packages /\ Filled(x).by = x.by
         /\ Filled(x).whole /\ (x.git => Filled(x).git)
         /\ Repository(x).id = x.id /\ Repository(x).name = x.name /\ Repository(x).packages = x.packages
         /\ Repository(x).by = x.by /\ Repository(x).git /\ (x.whole => Repository(x).whole)
BY DEF FileType, Filled, Repository

LEMMA FillKeeps == ASSUME CollectionInv, NEW i \in Library!Installs, Library!Fill(i) PROVE CollectionInv'
<1>0. OthersStay /\ installs[i].at = "fill" /\ dirs \in [DOMAIN dirs -> FileType]
  BY DEF Library!Fill, Library!At, OthersStay, Library!app, Library!bounds, CollectionInv, CollectionTypeOK
<1>1. CASE Library!To(i, "failed") /\ UNCHANGED dirs
  BY <1>0, <1>1, FailKeeps
<1>2. CASE Library!To(i, "setup") /\ dirs' = [dirs EXCEPT ![installs[i].name].whole = TRUE]
  <2>1. DOMAIN dirs' = DOMAIN dirs /\ dirs' \in [DOMAIN dirs -> FileType]
    BY <1>0, <1>2, FieldsOf
  <2>2. \A n \in DOMAIN dirs : dirs[n] \in FileType
    BY <1>0
  <2>3. \A n \in DOMAIN dirs : /\ n # installs[i].name => dirs'[n] = dirs[n]
                               /\ n = installs[i].name => dirs'[n] = Filled(dirs[n])
    BY <1>0, <1>2, FieldsOf DEF Filled
  <2>4. ASSUME NEW n \in DOMAIN dirs
        PROVE  /\ dirs'[n].id = dirs[n].id /\ dirs'[n].name = dirs[n].name
               /\ dirs'[n].packages = dirs[n].packages /\ dirs'[n].by = dirs[n].by
               /\ dirs[n].whole => dirs'[n].whole
               /\ dirs[n].git => dirs'[n].git
               /\ n = installs[i].name => dirs'[n].whole
    <3>1. CASE n # installs[i].name
      BY <2>3, <3>1
    <3>2. CASE n = installs[i].name
      <4>1. dirs'[n] = Filled(dirs[n]) /\ dirs[n] \in FileType
        BY <2>2, <2>3, <3>2
      <4> QED BY <4>1, FieldOf
    <3> QED BY <3>1, <3>2
  <2>5. GoesOn(i, "setup")
    BY <2>1, <2>3, <2>4 DEF GoesOn
  <2> QED BY <1>0, <1>2, <2>5, EditKeeps
<1> QED BY <1>1, <1>2 DEF Library!Fill

LEMMA SetupKeeps == ASSUME CollectionInv, NEW i \in Library!Installs, Library!SetupRepository(i) PROVE CollectionInv'
<1>0. OthersStay /\ installs[i].at = "setup" /\ dirs \in [DOMAIN dirs -> FileType]
  BY DEF Library!SetupRepository, Library!At, OthersStay, Library!app, Library!bounds, CollectionInv, CollectionTypeOK
<1>1. CASE Library!To(i, "failed") /\ UNCHANGED dirs
  BY <1>0, <1>1, FailKeeps
<1>2. CASE Library!To(i, "config") /\ dirs' = [dirs EXCEPT ![installs[i].name].git = TRUE]
  <2>1. DOMAIN dirs' = DOMAIN dirs /\ dirs' \in [DOMAIN dirs -> FileType]
    BY <1>0, <1>2, FieldsOf
  <2>2. \A n \in DOMAIN dirs : dirs[n] \in FileType
    BY <1>0
  <2>3. \A n \in DOMAIN dirs : /\ n # installs[i].name => dirs'[n] = dirs[n]
                               /\ n = installs[i].name => dirs'[n] = Repository(dirs[n])
    BY <1>0, <1>2, FieldsOf DEF Repository
  <2>4. ASSUME NEW n \in DOMAIN dirs
        PROVE  /\ dirs'[n].id = dirs[n].id /\ dirs'[n].name = dirs[n].name
               /\ dirs'[n].packages = dirs[n].packages /\ dirs'[n].by = dirs[n].by
               /\ dirs[n].whole => dirs'[n].whole
               /\ dirs[n].git => dirs'[n].git
               /\ n = installs[i].name => dirs'[n].git
    <3>1. CASE n # installs[i].name
      BY <2>3, <3>1
    <3>2. CASE n = installs[i].name
      <4>1. dirs'[n] = Repository(dirs[n]) /\ dirs[n] \in FileType
        BY <2>2, <2>3, <3>2
      <4> QED BY <4>1, FieldOf
    <3> QED BY <3>1, <3>2
  <2>5. Orderly => dirs[installs[i].name].whole
    BY <1>0 DEF CollectionInv, InstallsOK, Busy
  <2>6. GoesOn(i, "config")
    BY <2>1, <2>3, <2>4, <2>5 DEF GoesOn
  <2> QED BY <1>0, <1>2, <2>6, EditKeeps
<1> QED BY <1>1, <1>2 DEF Library!SetupRepository

Named(x, k, m) == [x EXCEPT !.id = k, !.name = m]
LEMMA NamedOf ==
  ASSUME NEW x \in FileType, NEW k \in Nat, NEW m \in Names
  PROVE  /\ Named(x, k, m) \in FileType /\ Named(x, k, m).by = x.by /\ Named(x, k, m).packages = x.packages
         /\ Named(x, k, m).id = k /\ Named(x, k, m).name = m
         /\ (x.whole => Named(x, k, m).whole) /\ (x.git => Named(x, k, m).git)
<1>0. PICK y : y = [x EXCEPT !.id = k, !.name = m]
  OBVIOUS
<1>1. x = [git |-> x.git, whole |-> x.whole, id |-> x.id, name |-> x.name, packages |-> x.packages, by |-> x.by]
  BY DEF FileType
<1>2. y = [git |-> x.git, whole |-> x.whole, id |-> k, name |-> m, packages |-> x.packages, by |-> x.by]
  BY <1>0, <1>1
<1>3. x.git \in BOOLEAN /\ x.whole \in BOOLEAN /\ x.packages \in Nat /\ x.by \in Nat /\ m \in LibNames
  BY DEF FileType, LibNames
<1>4. y \in FileType
  BY <1>2, <1>3 DEF FileType
<1>5. y.git = x.git /\ y.whole = x.whole
  BY <1>2
<1> QED BY <1>0, <1>2, <1>4, <1>5 DEF Named

LEMMA SaveConfigKeeps == ASSUME CollectionInv, NEW i \in Library!Installs, Library!SaveConfig(i) PROVE CollectionInv'
<1> DEFINE n0 == installs[i].name
           id0 == installs[i].id
<1>0. /\ installs[i].at = "config" /\ OthersStay /\ Active(i) /\ Busy(i) /\ n0 \in Names /\ id0 \in 1 .. ids /\ ids \in Nat
      /\ dirs \in [DOMAIN dirs -> FileType]
  BY DEF Library!SaveConfig, Library!At, OthersStay, Library!app, Library!bounds, Active, Busy, CollectionInv,
     IdsOK, CollectionTypeOK
<1>1. Moves(i, "done") /\ installs'[i].started = installs[i].started /\ UNCHANGED <<records, ids, renaming, crashes, libraryFault>>
  BY <1>0, ToMoves DEF InstallPlaces, OthersStay, Library!SaveConfig
<1>2. /\ DOMAIN dirs' = DOMAIN dirs /\ \A n \in DOMAIN dirs : n # n0 => dirs'[n] = dirs[n]
      /\ n0 \in DOMAIN dirs => dirs'[n0] = [dirs[n0] EXCEPT !.id = id0, !.name = n0]
      /\ dirs' = [n \in DOMAIN dirs |-> dirs'[n]]
  <2>1. dirs' = [dirs EXCEPT ![n0].id = id0, ![n0].name = n0]
    BY DEF Library!SaveConfig
  <2> HIDE DEF n0, id0
  <2>2. dirs' = [n \in DOMAIN dirs |-> dirs'[n]]
    BY <2>1
  <2>3. \A n \in DOMAIN dirs : n # n0 => dirs'[n] = dirs[n]
    BY <2>1
  <2>4. n0 \in DOMAIN dirs => dirs'[n0] = [dirs[n0] EXCEPT !.id = id0, !.name = n0]
    BY <2>1
  <2> QED BY <2>2, <2>3, <2>4
<1>3. /\ \A n \in DOMAIN dirs : dirs'[n] \in FileType
      /\ \A n \in DOMAIN dirs :
           /\ dirs'[n].by = dirs[n].by /\ dirs'[n].packages = dirs[n].packages
           /\ dirs'[n].id = (IF n = n0 THEN id0 ELSE dirs[n].id) /\ dirs'[n].name = (IF n = n0 THEN n0 ELSE dirs[n].name)
           /\ (dirs[n].whole => dirs'[n].whole)
           /\ (dirs[n].git => dirs'[n].git)
  <2>1. \A n \in DOMAIN dirs : dirs[n] \in FileType
    BY <1>0
  <2>2. id0 \in Nat
    BY <1>0
  <2>3. ASSUME n0 \in DOMAIN dirs
        PROVE  /\ dirs'[n0] \in FileType /\ dirs'[n0].by = dirs[n0].by /\ dirs'[n0].packages = dirs[n0].packages
               /\ dirs'[n0].id = id0 /\ dirs'[n0].name = n0
               /\ (dirs[n0].whole => dirs'[n0].whole)
               /\ (dirs[n0].git => dirs'[n0].git)
    <3>1. n0 \in Names /\ dirs[n0] \in FileType /\ dirs'[n0] = Named(dirs[n0], id0, n0)
      BY <1>0, <1>2, <2>1, <2>3 DEF Named
    <3> HIDE DEF n0, id0
    <3> QED BY <3>1, <2>2, NamedOf
  <2> QED BY <1>2, <2>1, <2>3
<1>t. DOMAIN dirs' = DOMAIN dirs /\ dirs' \in [DOMAIN dirs -> FileType]
  BY <1>2, <1>3
<1>s. \A n \in DOMAIN dirs : n # n0 => dirs'[n] = dirs[n]
  BY <1>2
<1> HIDE DEF id0
<1>4. /\ CollectionTypeOK' /\ OneQuestion' /\ (Careful' => CollectionKept')
      /\ Orderly' = Orderly /\ \A r \in records : PlaceOf(r)' = PlaceOf(r)
  <2>1. Orderly => \A r \in records : dirs'[PlaceOf(r)] = dirs[PlaceOf(r)]
    BY <1>0, <1>t, <1>s, NotOfRecord DEF CollectionInv, RecordsOK
  <2> QED BY <1>0, <1>1, <1>t, <1>s, <2>1, InstallerKeeps DEF InstallPlaces
<1>5. \A j \in Library!Installs : /\ (Active(j)' <=> Active(j)) /\ (Busy(j)' <=> Busy(j))
                                  /\ installs'[j].id = installs[j].id /\ installs'[j].name = installs[j].name
                                  /\ installs'[j].at = IF j = i THEN "done" ELSE installs[j].at
  BY <1>0, <1>1 DEF Moves, Active, Busy
<1>6. \A n \in DOMAIN dirs : dirs[n].id # id0
  BY <1>0 DEF CollectionInv, OwnersKnown, id0
<1>7. /\ \A r \in records : r.id # id0
      /\ \A j \in Library!Installs : Active(j) /\ installs[j].id = id0 => j = i
  BY <1>0 DEF CollectionInv, IdsOK, id0
<1>8. IdsOK'
  <2>1. \A n \in DOMAIN dirs' : dirs'[n].id # 0 => dirs'[n].id <= ids /\ dirs'[n].name \in Names
    BY <1>0, <1>t, <1>s, <1>3 DEF CollectionInv, IdsOK
  <2>2. \A m, n \in DOMAIN dirs' : dirs'[m].id # 0 /\ dirs'[m].id = dirs'[n].id => m = n
    BY <1>t, <1>s, <1>3, <1>6 DEF CollectionInv, IdsOK
  <2> QED BY <1>1, <1>5, <2>1, <2>2 DEF CollectionInv, IdsOK
<1>9. OwnersKnown'
  BY <1>1, <1>t, <1>s, <1>3, <1>4, <1>5, <1>7 DEF CollectionInv, OwnersKnown, Renamed
<1>10. MakersKnown' /\ CreatorsKnown' /\ StartedOK'
  <2>1. MakersKnown'
    BY <1>t, <1>s, <1>3, <1>5 DEF CollectionInv, MakersKnown
  <2>2. CreatorsKnown'
    BY <1>t, <1>s, <1>5 DEF CollectionInv, CreatorsKnown
  <2>3. installs[i].started
    BY <1>0 DEF CollectionInv, StartedOK, Started
  <2>4. \A j \in Library!Installs : Started(j)'
    BY <2>3, <1>1 DEF CollectionInv, StartedOK, Started, Moves
  <2> QED BY <2>1, <2>2, <2>4 DEF StartedOK
<1>11. ASSUME Orderly' PROVE RecordsOK' /\ InstallsOK' /\ NobodysOK'
  <2>1. n0 \in DOMAIN dirs /\ dirs[n0].git /\ dirs[n0].whole /\ dirs[n0].by = i
    BY <1>0, <1>4, <1>11 DEF CollectionInv, InstallsOK
  <2>2. \A r \in records : PlaceOf(r) # n0
    BY <1>0, <1>4, <1>11, NotOfRecord
  <2>3. RecordsOK'
    BY <1>1, <1>t, <1>s, <1>3, <1>4, <1>11, <2>1, <2>2 DEF CollectionInv, RecordsOK, Renamed
  <2>4. \A j \in Library!Installs : Busy(j) /\ installs[j].name = n0 => j = i
    BY <1>0, <1>4, <1>11 DEF CollectionInv, InstallsOK
  <2>5. InstallsOK'
    BY <1>0, <1>1, <1>t, <1>s, <1>3, <1>4, <1>5, <1>11, <2>1, <2>4 DEF CollectionInv, InstallsOK, id0
  <2>6. NobodysOK'
    BY <1>1, <1>t, <1>s, <1>3, <1>4, <1>5, <1>11 DEF CollectionInv, NobodysOK
  <2> QED BY <2>3, <2>5, <2>6
<1> QED BY <1>4, <1>8, <1>9, <1>10, <1>11 DEF CollectionInv

\* An installation ends; its directory may be gone, or a new one left.
LEMMA EndsKeep ==
  ASSUME CollectionInv, NEW i \in Library!Installs, Active(i), installs[i].at # "done", Library!To(i, "end"), OthersStay,
         DOMAIN dirs' \subseteq DOMAIN dirs \cup {installs[i].name}, dirs' \in [DOMAIN dirs' -> FileType],
         \A n \in DOMAIN dirs' : n # installs[i].name => dirs'[n] = dirs[n],
         DOMAIN dirs \subseteq DOMAIN dirs' \cup {installs[i].name},
         Busy(i) \/ dirs' = dirs,
         \/ installs[i].name \in DOMAIN dirs' => installs[i].name \in DOMAIN dirs /\ dirs'[installs[i].name] = dirs[installs[i].name]
         \/ /\ libraryFault = "cancel" /\ installs[i].name \in DOMAIN dirs' /\ installs[i].at \in {"create", "fill"}
            /\ dirs'[installs[i].name].id = 0 /\ dirs'[installs[i].name].by = i,
         Busy(i) /\ libraryFault # "cancel" => installs[i].name \notin DOMAIN dirs'
  PROVE  CollectionInv'
<1> DEFINE n0 == installs[i].name
<1>1. Moves(i, "end") /\ UNCHANGED <<records, ids, renaming, crashes, libraryFault>>
  BY ToMoves DEF InstallPlaces, OthersStay
<1>2. Orderly => \A r \in records : dirs'[PlaceOf(r)] = dirs[PlaceOf(r)] /\ PlaceOf(r) \in DOMAIN dirs'
  <2>1. CASE dirs' = dirs
    BY <2>1 DEF CollectionInv, RecordsOK
  <2>2. CASE Busy(i)
    <3> SUFFICES ASSUME Orderly, NEW r \in records PROVE dirs'[PlaceOf(r)] = dirs[PlaceOf(r)] /\ PlaceOf(r) \in DOMAIN dirs'
      OBVIOUS
    <3>1. PlaceOf(r) # n0 /\ PlaceOf(r) \in DOMAIN dirs
      BY <2>2, NotOfRecord DEF CollectionInv, RecordsOK
    <3> QED BY <3>1
  <2> QED BY <2>1, <2>2
<1>3. /\ CollectionTypeOK' /\ OneQuestion' /\ (Careful' => CollectionKept')
      /\ Orderly' = Orderly /\ \A r \in records : PlaceOf(r)' = PlaceOf(r)
  BY <1>1, <1>2, InstallerKeeps DEF InstallPlaces
<1>4. \A j \in Library!Installs : /\ (Active(j)' <=> Active(j) /\ j # i) /\ (Busy(j)' <=> Busy(j) /\ j # i)
                                  /\ installs'[j].id = installs[j].id /\ installs'[j].name = installs[j].name
                                  /\ installs'[j].at = IF j = i THEN "end" ELSE installs[j].at
  BY <1>1 DEF Moves, Active, Busy
<1>5. \A n \in DOMAIN dirs' : dirs'[n].id # 0 => n \in DOMAIN dirs /\ dirs'[n] = dirs[n]
  OBVIOUS
<1>6. IdsOK'
  BY <1>1, <1>4, <1>5 DEF CollectionInv, IdsOK
<1>7. OwnersKnown'
  BY <1>1, <1>3, <1>4, <1>5 DEF CollectionInv, OwnersKnown, Renamed
<1>8. CASE n0 \in DOMAIN dirs' => n0 \in DOMAIN dirs /\ dirs'[n0] = dirs[n0]
  <2>1. \A n \in DOMAIN dirs' : n \in DOMAIN dirs /\ dirs'[n] = dirs[n]
    BY <1>8
  <2>2. MakersKnown'
    BY <1>4, <2>1 DEF CollectionInv, MakersKnown
  <2>3. CreatorsKnown'
    BY <1>4, <2>1 DEF CollectionInv, CreatorsKnown
  <2>4. \A j \in Library!Installs : Started(j)'
    BY <1>1 DEF CollectionInv, StartedOK, Started, Moves
  <2>5. ASSUME Orderly' PROVE RecordsOK' /\ InstallsOK' /\ NobodysOK'
    <3>1. RecordsOK'
      BY <1>1, <1>2, <1>3, <2>1, <2>5 DEF CollectionInv, RecordsOK, Renamed
    <3>2. \A j \in Library!Installs : Busy(j) /\ j # i /\ installs[j].at # "create" =>
            installs[j].name \in DOMAIN dirs' /\ dirs'[installs[j].name] = dirs[installs[j].name]
      <4>1. CASE dirs' = dirs
        BY <4>1, <1>3, <2>5 DEF CollectionInv, InstallsOK
      <4>2. CASE Busy(i)
        BY <4>2, <1>3, <2>5 DEF CollectionInv, InstallsOK
      <4> QED BY <4>1, <4>2
    <3>3. InstallsOK'
      BY <1>1, <1>3, <1>4, <2>5, <3>2 DEF CollectionInv, InstallsOK
    <3>4. NobodysOK'
      BY <1>1, <1>2, <1>3, <1>4, <2>1, <2>5 DEF CollectionInv, NobodysOK
    <3> QED BY <3>1, <3>3, <3>4
  <2> QED BY <1>3, <1>6, <1>7, <2>2, <2>3, <2>4, <2>5 DEF CollectionInv, StartedOK
<1>9. CASE /\ libraryFault = "cancel" /\ n0 \in DOMAIN dirs' /\ installs[i].at \in {"create", "fill"}
           /\ dirs'[n0].id = 0 /\ dirs'[n0].by = i
  <2>0. Orderly /\ Busy(i)
    BY <1>9 DEF Orderly, Busy
  <2>1. \A n \in DOMAIN dirs' : n # n0 => n \in DOMAIN dirs /\ dirs'[n] = dirs[n] /\ dirs[n].by # i
    <3>1. CASE installs[i].at = "create"
      BY <3>1 DEF CollectionInv, MakersKnown
    <3>2. CASE installs[i].at = "fill"
      <4>1. n0 \in DOMAIN dirs /\ dirs[n0].by = i
        BY <2>0, <3>2 DEF CollectionInv, InstallsOK
      <4> QED BY <4>1 DEF CollectionInv, MakersKnown
    <3> QED BY <1>9, <3>1, <3>2
  <2>2. MakersKnown'
    BY <1>4, <1>9, <2>1 DEF CollectionInv, MakersKnown
  <2>3. \A j \in Library!Installs : j # i /\ installs[j].at = "create" => installs[j].name # n0
    BY <1>9, <2>0 DEF CollectionInv, CreatorsKnown, InstallsOK
  <2>4. CreatorsKnown'
    BY <1>4, <2>1, <2>3 DEF CollectionInv, CreatorsKnown
  <2>5. \A j \in Library!Installs : Started(j)'
    BY <1>1 DEF CollectionInv, StartedOK, Started, Moves
  <2>6. RecordsOK'
    BY <1>1, <1>2, <1>3, <1>9, <2>0, <2>1 DEF CollectionInv, RecordsOK, Renamed
  <2>7. InstallsOK'
    <3>1. \A j \in Library!Installs : Busy(j) /\ j # i => installs[j].name # n0
      BY <2>0 DEF CollectionInv, InstallsOK
    <3>2. \A j \in Library!Installs : Busy(j) /\ j # i /\ installs[j].at # "create" =>
            installs[j].name \in DOMAIN dirs' /\ dirs'[installs[j].name] = dirs[installs[j].name]
      BY <2>0, <3>1 DEF CollectionInv, InstallsOK
    <3> QED BY <1>1, <1>3, <1>4, <2>0, <3>2 DEF CollectionInv, InstallsOK
  <2>8. NobodysOK'
    BY <1>1, <1>9 DEF NobodysOK
  <2> QED BY <1>3, <1>6, <1>7, <2>2, <2>4, <2>5, <2>6, <2>7, <2>8 DEF CollectionInv, StartedOK
<1> QED BY <1>8, <1>9

LEMMA CleanupKeepsCollection == ASSUME CollectionInv, NEW i \in Library!Installs, Library!Cleanup(i) PROVE CollectionInv'
<1> DEFINE n0 == installs[i].name
<1>0. OthersStay /\ installs[i].at = "failed" /\ Library!To(i, "end") /\ Active(i) /\ dirs \in [DOMAIN dirs -> FileType]
  BY DEF Library!Cleanup, Library!At, OthersStay, Library!app, Library!bounds, CollectionInv, CollectionTypeOK, Active
<1>1. CASE installs[i].started /\ n0 \in DOMAIN dirs
  <2>1. dirs' = [m \in DOMAIN dirs \ {n0} |-> dirs[m]]
    BY <1>1 DEF Library!Cleanup, Library!Exists, Library!Without
  <2>2. Busy(i)
    BY <1>0, <1>1 DEF Busy
  <2> HIDE DEF n0
  <2>3. DOMAIN dirs' = DOMAIN dirs \ {n0} /\ dirs' \in [DOMAIN dirs' -> FileType] /\ \A n \in DOMAIN dirs' : dirs'[n] = dirs[n]
    BY <2>1, <1>0
  <2> QED BY <1>0, <2>2, <2>3, EndsKeep DEF n0
<1>2. CASE ~(installs[i].started /\ n0 \in DOMAIN dirs)
  <2>1. dirs' = dirs
    BY <1>2 DEF Library!Cleanup, Library!Exists
  <2>2. Busy(i) => n0 \notin DOMAIN dirs
    BY <1>0, <1>2 DEF Busy
  <2> QED BY <1>0, <2>1, <2>2, EndsKeep
<1> QED BY <1>1, <1>2

LEMMA CancelKeepsCollection == ASSUME CollectionInv, NEW i \in Library!Installs, Library!Cancel(i) PROVE CollectionInv'
<1> DEFINE n0 == installs[i].name
           cleaned == IF installs[i].started /\ Library!Exists(n0) THEN Library!Without(n0) ELSE dirs
           left == NewFiles(TRUE, i)
<1>0. /\ OthersStay /\ libraryFault = "cancel" /\ installs[i].at \in {"create", "fill"} /\ Library!To(i, "end")
      /\ Active(i) /\ Busy(i) /\ dirs \in [DOMAIN dirs -> FileType]
  BY DEF Library!Cancel, OthersStay, Library!app, Library!bounds, CollectionInv, CollectionTypeOK, Active, Busy
<1>1. dirs' = cleaned \/ dirs' = Library!Put(cleaned, n0, left)
  BY DEF Library!Cancel, NewFiles
<1>2. installs[i].started
  BY <1>0 DEF CollectionInv, StartedOK, Started
<1>3. cleaned = [m \in DOMAIN dirs \ {n0} |-> dirs[m]]
  BY <1>0, <1>2 DEF Library!Exists, Library!Without
<1>4. left \in FileType /\ left.id = 0 /\ left.by = i
  <2>1. i \in 1 .. MaxInstalls /\ MaxInstalls \in Nat
    BY CollectionFaults DEF Library!Installs
  <2>2. i \in Nat
    BY <2>1
  <2> QED BY <2>2, NewFilesFacts
<1> HIDE DEF cleaned, left, n0
<1>5. CASE dirs' = cleaned
  <2>1. DOMAIN dirs' = DOMAIN dirs \ {n0} /\ dirs' \in [DOMAIN dirs' -> FileType] /\ \A n \in DOMAIN dirs' : dirs'[n] = dirs[n]
    BY <1>0, <1>3, <1>5
  <2> QED BY <1>0, <2>1, EndsKeep DEF n0
<1>6. CASE dirs' = Library!Put(cleaned, n0, left)
  <2>1. dirs' = [m \in (DOMAIN dirs \ {n0}) \cup {n0} |-> IF m = n0 THEN left ELSE cleaned[m]]
    BY <1>3, <1>6 DEF Library!Put
  <2>2. /\ DOMAIN dirs' = (DOMAIN dirs \ {n0}) \cup {n0} /\ dirs'[n0] = left
        /\ \A n \in DOMAIN dirs \ {n0} : dirs'[n] = dirs[n]
    BY <1>3, <2>1
  <2>3. dirs' \in [DOMAIN dirs' -> FileType]
    BY <2>1, <2>2, <1>0, <1>4
  <2> QED BY <1>0, <1>4, <2>2, <2>3, EndsKeep DEF n0
<1> QED BY <1>1, <1>5, <1>6

LEMMA BeginKeepsCollection ==
  ASSUME CollectionInv, NEW i \in Library!Installs, NEW n \in Names, NEW p \in packages \cup {0}, Library!Begin(i, n, p)
  PROVE  CollectionInv'
<1>1. /\ installs[i].at = "none" /\ n \notin DOMAIN dirs /\ renaming.id = 0 /\ dialog.id = 0 /\ ids' = ids + 1
      /\ UNCHANGED <<dirs, packages, records, renaming, dialog, installed, crashes, libraryFault>>
  BY DEF Library!Begin, Library!At, Library!Exists, Library!NotRenaming, Library!app
<1>2. ids \in Nat /\ packages \subseteq 1 .. ids
  BY DEF CollectionInv, CollectionTypeOK
<1>3. /\ installs' \in [Library!Installs -> InstallType]
      /\ installs'[i] = [name |-> n, at |-> "test", started |-> FALSE, id |-> ids + 1, packages |-> p]
      /\ \A j \in Library!Installs \ {i} : installs'[j] = installs[j]
  <2>1. installs' = [installs EXCEPT ![i] = [name |-> n, at |-> "test", started |-> FALSE, id |-> ids + 1, packages |-> p]]
    BY DEF Library!Begin
  <2>2. [name |-> n, at |-> "test", started |-> FALSE, id |-> ids + 1, packages |-> p] \in InstallType
    <3>1. p \in Nat /\ ids + 1 \in Nat
      BY <1>2
    <3> QED BY <3>1 DEF InstallType, InstallPlaces, LibNames
  <2> QED BY <2>1, <2>2 DEF CollectionInv, CollectionTypeOK
<1>4. \A j \in Library!Installs : /\ (Active(j)' <=> Active(j) \/ j = i) /\ (Busy(j)' <=> Busy(j))
                                  /\ installs'[j].at = IF j = i THEN "test" ELSE installs[j].at
                                  /\ installs'[j].name = IF j = i THEN n ELSE installs[j].name
                                  /\ installs'[j].id = IF j = i THEN ids + 1 ELSE installs[j].id
                                  /\ installs'[j].packages = IF j = i THEN p ELSE installs[j].packages
  <2>1. \A j \in Library!Installs \ {i} : installs'[j] = installs[j]
    BY <1>3
  <2>2. ~Active(i) /\ ~Busy(i)
    BY <1>1 DEF Active, Busy
  <2>3. Active(i)' /\ ~Busy(i)'
    BY <1>3 DEF Active, Busy
  <2> QED BY <1>3, <2>1, <2>2, <2>3 DEF Active, Busy
<1>5. CollectionTypeOK'
  BY <1>1, <1>2, <1>3 DEF CollectionInv, CollectionTypeOK
<1>6. /\ \A r \in records : r.id <= ids
      /\ \A m \in DOMAIN dirs : dirs[m].id # 0 => dirs[m].id <= ids
      /\ \A j \in Library!Installs : Active(j) => installs[j].id \in 1 .. ids
  BY DEF CollectionInv, IdsOK
<1>7. IdsOK'
  <2>1. \A r \in records : r.id \in Nat /\ r.id # ids + 1 /\ r.id <= ids + 1
    BY <1>2, <1>6 DEF CollectionInv, CollectionTypeOK, RecordType
  <2>2. \A m \in DOMAIN dirs : dirs[m].id \in Nat
    BY DEF CollectionInv, CollectionTypeOK, FileType
  <2>3. \A m \in DOMAIN dirs : dirs[m].id # 0 => dirs[m].id <= ids + 1
    BY <1>2, <1>6, <2>2
  <2>4. \A j \in Library!Installs : Active(j) => installs[j].id \in 1 .. ids + 1 /\ installs[j].id # ids + 1
    BY <1>2, <1>6
  <2> QED BY <1>1, <1>2, <1>4, <2>1, <2>3, <2>4 DEF CollectionInv, IdsOK
<1>8. OwnersKnown'
  <2>1. \A m \in DOMAIN dirs : dirs[m].id # ids + 1
    BY <1>2, <1>6
  <2> QED BY <1>1, <1>4, <2>1 DEF CollectionInv, OwnersKnown, Renamed, PlaceOf
<1>9. MakersKnown' /\ CreatorsKnown' /\ StartedOK'
  <2>1. MakersKnown'
    BY <1>1, <1>4 DEF CollectionInv, MakersKnown
  <2>2. CreatorsKnown'
    BY <1>1, <1>4 DEF CollectionInv, CreatorsKnown
  <2>3. \A j \in Library!Installs : Started(j)'
    BY <1>3 DEF CollectionInv, StartedOK, Started
  <2> QED BY <2>1, <2>2, <2>3 DEF StartedOK
<1>10. OneQuestion'
  BY <1>1, <1>4 DEF CollectionInv, OneQuestion
<1>11. ASSUME Orderly' PROVE RecordsOK' /\ InstallsOK' /\ NobodysOK'
  <2>0. Orderly /\ \A r \in records : PlaceOf(r)' = PlaceOf(r)
    BY <1>1, <1>11 DEF Orderly, PlaceOf
  <2>1. RecordsOK'
    BY <1>1, <2>0 DEF CollectionInv, RecordsOK, Renamed
  <2>2. \A j \in Library!Installs : Busy(j) => j # i
    BY <1>1 DEF Busy
  <2>3. InstallsOK'
    BY <1>1, <1>4, <2>0, <2>2 DEF CollectionInv, InstallsOK
  <2>4. NobodysOK'
    BY <1>1, <1>4, <2>0, <2>2 DEF CollectionInv, NobodysOK
  <2> QED BY <2>1, <2>3, <2>4
<1>12. ASSUME Careful' PROVE CollectionKept'
  <2>0. Careful /\ \A r \in records : PlaceOf(r)' = PlaceOf(r)
    BY <1>1, <1>12 DEF Careful, PlaceOf
  <2> QED BY <1>1, <1>4, <2>0 DEF CollectionInv, CollectionKept
<1> QED BY <1>5, <1>7, <1>8, <1>9, <1>10, <1>11, <1>12 DEF CollectionInv

LEMMA AskKeeps ==
  ASSUME CollectionInv, NEW r \in records, NEW too \in BOOLEAN, Library!AskDelete(r, too) PROVE CollectionInv'
<1>1. /\ renaming.id = 0 /\ dialog'.id = r.id /\ dialog' \in [id : Nat, packages : Nat]
      /\ UNCHANGED <<dirs, packages, records, renaming, installs, ids, installed, crashes, libraryFault>>
  BY DEF Library!AskDelete, Library!NotRenaming, Library!bounds, CollectionInv, CollectionTypeOK, RecordType
<1>2. /\ \A j : Active(j)' = Active(j) /\ Busy(j)' = Busy(j) /\ Started(j)' = Started(j)
      /\ \A s : PlaceOf(s)' = PlaceOf(s)
      /\ \A n : Renamed(n)' = Renamed(n)
      /\ Orderly' = Orderly /\ Careful' = Careful
  BY <1>1 DEF Active, Busy, Started, PlaceOf, Renamed, Orderly, Careful
<1>3. CollectionTypeOK'
  BY <1>1 DEF CollectionInv, CollectionTypeOK
<1>4. OneQuestion'
  BY <1>1 DEF CollectionInv, OneQuestion
<1>5. IdsOK' /\ OwnersKnown'
  BY <1>1, <1>2 DEF CollectionInv, IdsOK, OwnersKnown
<1>6. MakersKnown' /\ CreatorsKnown' /\ StartedOK'
  BY <1>1, <1>2 DEF CollectionInv, MakersKnown, CreatorsKnown, StartedOK
<1>7. Orderly => RecordsOK' /\ InstallsOK' /\ NobodysOK'
  BY <1>1, <1>2 DEF CollectionInv, RecordsOK, InstallsOK, NobodysOK
<1>8. Careful => CollectionKept'
  BY <1>1, <1>2 DEF CollectionInv, CollectionKept
<1> QED BY <1>2, <1>3, <1>4, <1>5, <1>6, <1>7, <1>8 DEF CollectionInv

-----------------------------------------------------------------------------
(* Steps that save the collection.                                         *)

LEMMA SaveKeeps ==
  ASSUME NEW D, NEW fs \in [D -> FileType], NEW rs \in SUBSET RecordType, NEW k, BeforeSave(D, fs, rs, k),
         dirs' = Library!Saved(fs, rs), records' = rs, ids' = k, renaming'.id = 0,
         \A j \in Library!Installs : Active(j)' =>
           /\ installs'[j].id \in 1 .. k /\ installs'[j].name \in Names
           /\ \A r \in rs : r.id # installs'[j].id
           /\ \A n \in D : ~Recorded(n, rs) /\ fs[n].id = installs'[j].id => installs'[j].at = "done" /\ n = installs'[j].name
           /\ \A l \in Library!Installs : Active(l)' /\ installs'[l].id = installs'[j].id => l = j
  PROVE  /\ DOMAIN dirs' = D /\ dirs' \in [D -> FileType] /\ IdsOK' /\ OwnersKnown'
         /\ \A r : PlaceOf(r)' = r.name \/ r.id = 0
         /\ \A n \in D : dirs'[n].by = fs[n].by /\ (~Recorded(n, rs) => dirs'[n] = fs[n])
         /\ \A n \in D : (dirs'[n].git <=> fs[n].git) /\ (dirs'[n].whole <=> fs[n].whole)
<1>1. /\ dirs' \in [D -> FileType] /\ DOMAIN dirs' = D
      /\ \A n \in D : /\ dirs'[n].by = fs[n].by
                      /\ ~Recorded(n, rs) => dirs'[n] = fs[n]
                      /\ Recorded(n, rs) => \E r \in rs : r.name = n /\ dirs'[n].id = r.id
  BY SavedFacts
<1>9. \A n \in D : (dirs'[n].git <=> fs[n].git) /\ (dirs'[n].whole <=> fs[n].whole)
  <2>1. \A n \in D : dirs'[n].git = fs[n].git /\ dirs'[n].whole = fs[n].whole
    BY SavedFacts
  <2> QED BY <2>1
<1>2. PICK new : new = dirs'
  OBVIOUS
<1>3. /\ \A n \in D : new[n].id # 0 => new[n].id <= k /\ new[n].name \in Names
      /\ \A m, n \in D : new[m].id # 0 /\ new[m].id = new[n].id => m = n
      /\ \A n \in D : new[n].id # 0 => \A r \in rs : r.id = new[n].id => n = r.name
  BY <1>2, SavedIds
<1>4. \A r : PlaceOf(r)' = r.name \/ r.id = 0
  BY DEF PlaceOf
<1>5. \A r \in rs : PlaceOf(r)' = r.name
  BY <1>4 DEF RecordType
<1>6. IdsOK'
  BY <1>1, <1>2, <1>3 DEF IdsOK, BeforeSave
<1>7. ASSUME NEW n \in D, dirs'[n].id # 0, NEW j \in Library!Installs, Active(j)', installs'[j].id = dirs'[n].id
      PROVE  installs'[j].at = "done" /\ n = installs'[j].name
  <2>1. ~Recorded(n, rs)
    BY <1>1, <1>7
  <2> QED BY <1>1, <1>7, <2>1
<1>8. OwnersKnown'
  BY <1>1, <1>2, <1>3, <1>5, <1>7 DEF OwnersKnown
<1> QED BY <1>1, <1>4, <1>6, <1>8, <1>9

LEMMA SaveOrder ==
  ASSUME NEW D, NEW fs \in [D -> FileType], NEW rs \in SUBSET RecordType, dirs' = Library!Saved(fs, rs), records' = rs,
         renaming'.id = 0,
         \A r, s \in rs : r.name = s.name => r = s,
         \A r \in rs : r.name \in D /\ fs[r.name].git,
         \A n \in D : ~Recorded(n, rs) /\ fs[n].id # 0 => fs[n].git /\ fs[n].name = n
  PROVE  RecordsOK'
<1>1. /\ DOMAIN dirs' = D
      /\ \A n \in D : /\ ~Recorded(n, rs) => dirs'[n] = fs[n]
                      /\ Recorded(n, rs) => \E r \in rs : r.name = n /\ dirs'[n].name = n
  BY SavedFacts
<1>6. \A n \in D : dirs'[n].git <=> fs[n].git
  <2>1. \A n \in D : dirs'[n].git = fs[n].git
    BY SavedFacts
  <2> QED BY <2>1
<1>2. PICK new : new = dirs'
  OBVIOUS
<1>3. \A r \in rs : new[r.name].id = r.id /\ new[r.name].packages = r.packages
  BY <1>2, SavedRecords
<1>4. \A r \in rs : PlaceOf(r)' = r.name
  BY DEF PlaceOf, RecordType
<1>5. \A n \in D : dirs'[n].id # 0 => dirs'[n].git /\ dirs'[n].name = n
  BY <1>1, <1>6
<1> QED BY <1>1, <1>2, <1>3, <1>4, <1>5 DEF RecordsOK

LEMMA MoveKeeps == ASSUME CollectionInv, NEW r \in records, NEW n \in Names, Library!Move(r, n) PROVE CollectionInv'
<1> DEFINE a == r.name
           Old(m) == IF m = n THEN a ELSE m
<1>1. /\ renaming.id = 0 /\ dialog.id = 0 /\ a \in DOMAIN dirs /\ n \notin DOMAIN dirs
      /\ renaming' = [id |-> r.id, name |-> n] /\ r.id \in Nat \ {0}
      /\ UNCHANGED <<records, dialog, installed, packages, installs, ids, crashes, libraryFault>>
  BY DEF Library!Move, Library!NotRenaming, Library!Exists, Library!bounds, CollectionInv, CollectionTypeOK, RecordType
<1>2. \A j \in Library!Installs : Active(j) => installs[j].name # n
  BY DEF Library!Move, Active
<1>3. /\ DOMAIN dirs' = (DOMAIN dirs \ {a}) \cup {n} /\ dirs' \in [DOMAIN dirs' -> FileType]
      /\ \A m \in DOMAIN dirs' : Old(m) \in DOMAIN dirs /\ dirs'[m] = dirs[Old(m)]
  <2>1. dirs' = [m \in (DOMAIN dirs \ {a}) \cup {n} |-> IF m = n THEN dirs[a] ELSE dirs[m]]
    BY DEF Library!Move
  <2>2. dirs \in [DOMAIN dirs -> FileType]
    BY DEF CollectionInv, CollectionTypeOK
  <2> QED BY <1>1, <2>1, <2>2
<1>4. \A m, l \in DOMAIN dirs' : Old(m) = Old(l) => m = l
  BY <1>1, <1>3
<1>5. \A j : Active(j)' = Active(j) /\ Busy(j)' = Busy(j) /\ Started(j)' = Started(j)
  BY <1>1 DEF Active, Busy, Started
<1>6. CollectionTypeOK'
  <2>1. IsFiniteSet(DOMAIN dirs')
    <3>1. IsFiniteSet(DOMAIN dirs \cup {n})
      BY FS_Singleton, FS_Union DEF CollectionInv, CollectionTypeOK
    <3> QED BY <3>1, <1>3, FS_Subset
  <2> QED BY <1>1, <1>3, <2>1 DEF CollectionInv, CollectionTypeOK, LibNames
<1>7. OneQuestion'
  BY <1>1, <1>2, <1>5 DEF CollectionInv, OneQuestion
<1>8. \A m \in DOMAIN dirs' : m # n => m \in DOMAIN dirs /\ m # a /\ dirs'[m] = dirs[m]
  BY <1>1, <1>3
<1>9. n \in DOMAIN dirs' /\ dirs'[n] = dirs[a]
  BY <1>3
<1>10. \A s \in records : PlaceOf(s) = s.name /\ PlaceOf(s)' = IF s = r THEN n ELSE s.name
  <2>1. \A s \in records : s.id # 0 /\ (s.id = r.id => s = r)
    BY DEF CollectionInv, CollectionTypeOK, RecordType, IdsOK
  <2> QED BY <1>1, <2>1 DEF PlaceOf
<1> HIDE DEF Old
<1>11. IdsOK'
  <2>1. \A m \in DOMAIN dirs' : dirs'[m].id # 0 => dirs'[m].id <= ids /\ dirs'[m].name \in Names
    BY <1>3 DEF CollectionInv, IdsOK
  <2>2. \A m, l \in DOMAIN dirs' : dirs'[m].id # 0 /\ dirs'[m].id = dirs'[l].id => m = l
    BY <1>3, <1>4 DEF CollectionInv, IdsOK
  <2> QED BY <1>1, <1>5, <2>1, <2>2 DEF CollectionInv, IdsOK
<1>12. \A m : Renamed(m)' <=> m = n
  BY <1>1 DEF Renamed
<1>13. \A m : ~Renamed(m)
  BY <1>1 DEF Renamed
<1>14. OwnersKnown'
  <2>1. \A m \in DOMAIN dirs' : m # n /\ dirs'[m].id # 0 => \A s \in records : s.id = dirs'[m].id => m = PlaceOf(s)'
    BY <1>8, <1>10, <1>13 DEF CollectionInv, OwnersKnown
  <2>2. \A m \in DOMAIN dirs' : m # n /\ dirs'[m].id # 0 => \A j \in Library!Installs : Active(j) /\ installs[j].id = dirs'[m].id =>
          installs[j].at = "done" /\ m = installs[j].name
    BY <1>8, <1>13 DEF CollectionInv, OwnersKnown
  <2>3. dirs'[n].id # 0 => \A j \in Library!Installs : Active(j) /\ installs[j].id = dirs'[n].id => installs[j].at = "done"
    BY <1>1, <1>9 DEF CollectionInv, OwnersKnown
  <2> QED BY <1>1, <1>5, <1>12, <2>1, <2>2, <2>3 DEF OwnersKnown
<1>15. MakersKnown' /\ CreatorsKnown' /\ StartedOK'
  <2>1. MakersKnown'
    BY <1>1, <1>3, <1>4 DEF CollectionInv, MakersKnown
  <2>2. \A j \in Library!Installs : installs[j].at = "create" => Active(j)
    BY DEF Active
  <2>3. CreatorsKnown'
    BY <1>1, <1>2, <1>8, <2>2 DEF CollectionInv, CreatorsKnown
  <2> QED BY <1>5, <2>1, <2>3 DEF CollectionInv, StartedOK
<1>16. ASSUME Orderly' PROVE RecordsOK' /\ InstallsOK' /\ NobodysOK'
  <2>0. Orderly /\ RecordsOK /\ InstallsOK /\ NobodysOK
    BY <1>1, <1>16 DEF Orderly, CollectionInv
  <2>1. \A s \in records : /\ s # r => s.name # a
                           /\ s.name \in DOMAIN dirs /\ dirs[s.name].id = s.id /\ dirs[s.name].packages = s.packages
    BY <1>10, <2>0 DEF RecordsOK
  <2>2. \A s \in records : /\ PlaceOf(s)' \in DOMAIN dirs' /\ dirs'[PlaceOf(s)'] = dirs[s.name]
    BY <1>1, <1>3, <1>8, <1>9, <1>10, <2>1
  <2>3. RecordsOK'
    <3>1. \A m \in DOMAIN dirs' : dirs'[m].id # 0 => dirs'[m].git /\ (dirs'[m].name = m \/ m = n)
      BY <1>8, <1>9, <1>13, <1>1, <2>0 DEF RecordsOK
    <3>2. \A s, q \in records : s.name = q.name => s = q
      BY <2>0 DEF RecordsOK
    <3> QED BY <1>1, <1>12, <2>1, <2>2, <3>1, <3>2 DEF RecordsOK
  <2>4. \A j \in Library!Installs : Busy(j) => installs[j].name # n /\ \A s \in records : s.name # installs[j].name
    <3>1. \A j \in Library!Installs : Busy(j) => Active(j)
      BY DEF Busy, Active
    <3>2. \A s \in records : s.id # 0
      BY DEF CollectionInv, CollectionTypeOK, RecordType
    <3> QED BY <1>1, <1>2, <2>0, <3>1, <3>2 DEF InstallsOK
  <2>5. \A j \in Library!Installs : Busy(j) /\ installs[j].at # "create" =>
          installs[j].name \in DOMAIN dirs' /\ dirs'[installs[j].name] = dirs[installs[j].name]
    BY <1>3, <1>8, <2>0, <2>4 DEF InstallsOK
  <2>6. InstallsOK'
    BY <1>1, <1>5, <2>0, <2>4, <2>5 DEF InstallsOK
  <2>7. NobodysOK'
    <3> SUFFICES ASSUME crashes = 0, libraryFault # "cancel", NEW m \in DOMAIN dirs'
                 PROVE  \/ \E s \in records : PlaceOf(s)' = m /\ dirs'[m].whole /\ dirs'[m].git
                        \/ \E j \in Library!Installs : Busy(j) /\ installs[j].name = m
      BY <1>1, <1>5 DEF NobodysOK
    <3>1. CASE m = n
      BY <3>1, <1>1, <1>9, <1>10, <2>0, <2>1, <2>4 DEF NobodysOK
    <3>2. CASE m # n
      BY <3>2, <1>8, <1>10, <2>0 DEF NobodysOK
    <3> QED BY <3>1, <3>2
  <2> QED BY <2>3, <2>6, <2>7
<1>17. ASSUME Careful' PROVE CollectionKept'
  <2>1. Careful /\ Orderly /\ CollectionKept /\ RecordsOK
    BY <1>1, <1>17 DEF Careful, Orderly, CollectionInv
  <2>2. \A s \in records : /\ s # r => s.name # a
                           /\ s.name \in DOMAIN dirs
    BY <1>10, <2>1 DEF RecordsOK
  <2>3. \A s \in records : dirs'[PlaceOf(s)'] = dirs[PlaceOf(s)]
    BY <1>1, <1>3, <1>8, <1>9, <1>10, <2>2
  <2> QED BY <1>1, <1>5, <2>1, <2>3 DEF CollectionKept
<1> QED BY <1>6, <1>7, <1>11, <1>14, <1>15, <1>16, <1>17 DEF CollectionInv

LEMMA SaveRenamedKeeps == ASSUME CollectionInv, Library!SaveRenamed PROVE CollectionInv'
<1> DEFINE r == Library!RecordOf(renaming.id)
           b == renaming.name
           all == (records \ {r}) \cup {[r EXCEPT !.name = b]}
<1>1. /\ renaming.id # 0 /\ renaming' = [id |-> 0, name |-> ""] /\ dialog.id = 0 /\ b \in Names
      /\ UNCHANGED <<dialog, installed, packages, installs, ids, crashes, libraryFault>>
  BY DEF Library!SaveRenamed, Library!NotRenaming, Library!bounds, CollectionInv, OneQuestion
<1>2. /\ records' = all /\ dirs' = Library!Saved(dirs, all)
      /\ dirs \in [DOMAIN dirs -> FileType]
  BY DEF Library!SaveRenamed, CollectionInv, CollectionTypeOK
<1>3. r \in records /\ r.id = renaming.id
  <2>1. \E x \in records : x.id = renaming.id
    BY <1>1 DEF CollectionInv, OneQuestion
  <2> QED BY <2>1 DEF Library!RecordOf
<1> HIDE DEF r
<1>4. \A s \in records : s \in RecordType /\ s.id # 0 /\ s.id \in Nat /\ (s.id = renaming.id => s = r)
  BY <1>3 DEF CollectionInv, CollectionTypeOK, RecordType, IdsOK
<1>5. \A s \in records : PlaceOf(s) = IF s = r THEN b ELSE s.name
  BY <1>3, <1>4 DEF PlaceOf
<1>6. \A t \in all : \E s \in records : t.id = s.id /\ t.packages = s.packages /\ t.name = PlaceOf(s) /\ (s # r => t = s) /\ (s = r => t = [r EXCEPT !.name = b])
  BY <1>3, <1>4, <1>5 DEF RecordType
<1>7. \A s \in records : \E t \in all : t.id = s.id /\ t.packages = s.packages /\ t.name = PlaceOf(s)
  <2>1. \A s \in records : s # r => s \in all /\ s.name = PlaceOf(s)
    BY <1>5
  <2>2. [r EXCEPT !.name = b] \in all
    OBVIOUS
  <2>3. LET t == [r EXCEPT !.name = b] IN t.id = r.id /\ t.packages = r.packages /\ t.name = PlaceOf(r)
    BY <1>3, <1>4, <1>5 DEF RecordType
  <2> QED BY <2>1, <2>2, <2>3
<1>8. all \in SUBSET RecordType
  BY <1>1, <1>3, <1>4 DEF RecordType
<1> HIDE DEF all, b
<1>9. \A n \in DOMAIN dirs : ~Recorded(n, all) => ~Renamed(n) /\ \A s \in records : n # PlaceOf(s)
  <2>1. \A n : ~Recorded(n, all) => \A s \in records : n # PlaceOf(s)
    BY <1>7 DEF Recorded
  <2>2. \A n : Renamed(n) => n = PlaceOf(r)
    BY <1>1, <1>5, <1>3 DEF Renamed, b
  <2> QED BY <1>3, <2>1, <2>2
<1>10. \A j : Active(j)' = Active(j) /\ Busy(j)' = Busy(j) /\ Started(j)' = Started(j)
  BY <1>1 DEF Active, Busy, Started
<1>11. BeforeSave(DOMAIN dirs, dirs, all, ids)
  <2>1. \A t \in all : t.id <= ids
    BY <1>6 DEF CollectionInv, IdsOK
  <2>2. ASSUME NEW t \in all, NEW u \in all, t.id = u.id PROVE t = u
    <3>1. PICK s \in records : t.id = s.id /\ (s # r => t = s) /\ (s = r => t = [r EXCEPT !.name = b])
      BY <1>6
    <3>2. PICK q \in records : u.id = q.id /\ (q # r => u = q) /\ (q = r => u = [r EXCEPT !.name = b])
      BY <1>6
    <3>3. s = q
      BY <2>2, <3>1, <3>2 DEF CollectionInv, IdsOK
    <3> QED BY <3>1, <3>2, <3>3
  <2>3. \A n \in DOMAIN dirs : ~Recorded(n, all) /\ dirs[n].id # 0 => \A t \in all : t.id # dirs[n].id
    BY <1>6, <1>9 DEF CollectionInv, OwnersKnown
  <2> QED BY <2>1, <2>2, <2>3 DEF BeforeSave, CollectionInv, IdsOK
<1>12. \A j \in Library!Installs : Active(j)' =>
         /\ installs'[j].id \in 1 .. ids /\ installs'[j].name \in Names
         /\ \A t \in all : t.id # installs'[j].id
         /\ \A n \in DOMAIN dirs : ~Recorded(n, all) /\ dirs[n].id = installs'[j].id => installs'[j].at = "done" /\ n = installs'[j].name
         /\ \A l \in Library!Installs : Active(l)' /\ installs'[l].id = installs'[j].id => l = j
  <2>1. \A j \in Library!Installs : Active(j) => installs[j].id \in 1 .. ids /\ installs[j].name \in Names /\ \A t \in all : t.id # installs[j].id
    BY <1>6 DEF CollectionInv, IdsOK
  <2>2. \A j, l \in Library!Installs : Active(j) /\ Active(l) /\ installs[l].id = installs[j].id => l = j
    BY DEF CollectionInv, IdsOK
  <2>3. \A j \in Library!Installs : Active(j) => installs[j].id # 0
    <3>1. ids \in Nat
      BY DEF CollectionInv, CollectionTypeOK
    <3> QED BY <2>1, <3>1
  <2>4. \A j \in Library!Installs, n \in DOMAIN dirs : Active(j) /\ ~Recorded(n, all) /\ dirs[n].id = installs[j].id =>
          installs[j].at = "done" /\ n = installs[j].name
    BY <1>9, <2>3 DEF CollectionInv, OwnersKnown
  <2> QED BY <1>1, <1>10, <2>1, <2>2, <2>4
<1>13. /\ DOMAIN dirs' = DOMAIN dirs /\ dirs' \in [DOMAIN dirs -> FileType] /\ IdsOK' /\ OwnersKnown'
       /\ \A s : PlaceOf(s)' = s.name \/ s.id = 0
       /\ \A n \in DOMAIN dirs : dirs'[n].by = dirs[n].by /\ (~Recorded(n, all) => dirs'[n] = dirs[n])
       /\ \A n \in DOMAIN dirs : (dirs'[n].git <=> dirs[n].git) /\ (dirs'[n].whole <=> dirs[n].whole)
  <2>0. renaming'.id = 0 /\ ids' = ids
    BY <1>1
  <2>1. PICK fs : fs = dirs
    OBVIOUS
  <2>2. PICK rs : rs = all
    OBVIOUS
  <2>3. PICK k : k = ids
    OBVIOUS
  <2>4. PICK d : d = DOMAIN fs
    OBVIOUS
  <2>5. fs \in [d -> FileType] /\ rs \in SUBSET RecordType /\ BeforeSave(d, fs, rs, k)
    BY <1>2, <1>8, <1>11, <2>1, <2>2, <2>3, <2>4
  <2>6. dirs' = Library!Saved(fs, rs) /\ records' = rs /\ ids' = k
    BY <1>2, <2>0, <2>1, <2>2, <2>3
  <2>7. \A j \in Library!Installs : Active(j)' =>
         /\ installs'[j].id \in 1 .. k /\ installs'[j].name \in Names
         /\ \A t \in rs : t.id # installs'[j].id
         /\ \A n \in d : ~Recorded(n, rs) /\ fs[n].id = installs'[j].id => installs'[j].at = "done" /\ n = installs'[j].name
         /\ \A l \in Library!Installs : Active(l)' /\ installs'[l].id = installs'[j].id => l = j
    BY <1>12, <2>1, <2>2, <2>3, <2>4
  <2>8. /\ DOMAIN dirs' = d /\ dirs' \in [d -> FileType] /\ IdsOK' /\ OwnersKnown'
        /\ \A s : PlaceOf(s)' = s.name \/ s.id = 0
        /\ \A n \in d : dirs'[n].by = fs[n].by /\ (~Recorded(n, rs) => dirs'[n] = fs[n])
        /\ \A n \in d : (dirs'[n].git <=> fs[n].git) /\ (dirs'[n].whole <=> fs[n].whole)
    BY <2>0, <2>5, <2>6, <2>7, SaveKeeps
  <2> QED BY <2>1, <2>2, <2>4, <2>8
<1>14. \A t \in all : PlaceOf(t)' = t.name
  BY <1>8, <1>13 DEF RecordType
<1>15. CollectionTypeOK'
  BY <1>1, <1>2, <1>8, <1>13 DEF CollectionInv, CollectionTypeOK, LibNames
<1>16. OneQuestion'
  BY <1>1 DEF OneQuestion
<1>17. MakersKnown' /\ CreatorsKnown' /\ StartedOK'
  <2>1. MakersKnown'
    BY <1>1, <1>13 DEF CollectionInv, MakersKnown
  <2>2. CreatorsKnown'
    BY <1>1, <1>13 DEF CollectionInv, CreatorsKnown
  <2> QED BY <1>10, <2>1, <2>2 DEF CollectionInv, StartedOK
<1>18. ASSUME Orderly' PROVE RecordsOK' /\ InstallsOK' /\ NobodysOK'
  <2>0. Orderly /\ RecordsOK /\ InstallsOK /\ NobodysOK
    BY <1>1, <1>18 DEF Orderly, CollectionInv
  <2>1. \A s \in records : PlaceOf(s) \in DOMAIN dirs /\ dirs[PlaceOf(s)].id = s.id /\ dirs[PlaceOf(s)].git
    BY <2>0, <1>4 DEF RecordsOK
  <2>2. \A t, u \in all : t.name = u.name => t = u
    BY <1>6, <1>11, <2>1 DEF BeforeSave
  <2>3. \A t \in all : t.name \in DOMAIN dirs /\ dirs[t.name].git
    BY <1>6, <2>1
  <2>4. \A n \in DOMAIN dirs : ~Recorded(n, all) /\ dirs[n].id # 0 => dirs[n].git /\ dirs[n].name = n
    BY <1>9, <2>0 DEF RecordsOK
  <2>5. RecordsOK'
    <3>1. PICK fs : fs = dirs
      OBVIOUS
    <3>2. PICK rs : rs = all
      OBVIOUS
    <3>3. PICK d : d = DOMAIN fs
      OBVIOUS
    <3>4. fs \in [d -> FileType] /\ rs \in SUBSET RecordType /\ dirs' = Library!Saved(fs, rs) /\ records' = rs /\ renaming'.id = 0
      BY <1>1, <1>2, <1>8, <3>1, <3>2, <3>3
    <3>5. \A t, u \in rs : t.name = u.name => t = u
      BY <2>2, <3>2
    <3>6. \A t \in rs : t.name \in d /\ fs[t.name].git
      BY <2>3, <3>1, <3>2, <3>3
    <3>7. \A n \in d : ~Recorded(n, rs) /\ fs[n].id # 0 => fs[n].git /\ fs[n].name = n
      BY <2>4, <3>1, <3>2, <3>3
    <3> QED BY <3>4, <3>5, <3>6, <3>7, SaveOrder
  <2>6. \A j \in Library!Installs : Busy(j) => \A t \in all : t.name # installs[j].name
    <3>1. \A j \in Library!Installs : Busy(j) => installs[j].name # b
      BY <1>1 DEF CollectionInv, OneQuestion, Busy, Active, b
    <3> QED BY <1>4, <1>5, <1>6, <2>0, <3>1 DEF InstallsOK
  <2>7. \A j \in Library!Installs : Busy(j) /\ installs[j].at # "create" => dirs'[installs[j].name] = dirs[installs[j].name]
    BY <1>13, <2>0, <2>6 DEF InstallsOK, Recorded
  <2>8. InstallsOK'
    <3>1. records' = all /\ DOMAIN dirs' = DOMAIN dirs /\ installs' = installs
      BY <1>1, <1>2, <1>13
    <3> QED BY <3>1, <1>10, <2>0, <2>6, <2>7 DEF InstallsOK
  <2>9. NobodysOK'
    <3>1. records' = all /\ DOMAIN dirs' = DOMAIN dirs /\ installs' = installs /\ crashes' = crashes /\ libraryFault' = libraryFault
      BY <1>1, <1>2, <1>13
    <3>2. \A n \in DOMAIN dirs : (dirs[n].git => dirs'[n].git) /\ (dirs[n].whole => dirs'[n].whole)
      BY <1>13
    <3>3. \A s \in records : \E t \in all : PlaceOf(t)' = PlaceOf(s)
      BY <1>7, <1>14
    <3> QED BY <3>1, <3>2, <3>3, <1>10, <2>0 DEF NobodysOK
  <2> QED BY <2>5, <2>8, <2>9
<1>19. ASSUME Careful' PROVE CollectionKept'
  <2>0. Orderly /\ CollectionKept /\ RecordsOK
    BY <1>1, <1>19 DEF Careful, Orderly, CollectionInv
  <2>1. \A s \in records : PlaceOf(s) \in DOMAIN dirs
    BY <2>0 DEF RecordsOK
  <2>2. records' = all /\ installs' = installs /\ packages' = packages /\ installed' = installed
    BY <1>1, <1>2
  <2>3. \A n \in DOMAIN dirs : dirs[n].whole => dirs'[n].whole
    BY <1>13
  <2>4. \A s \in records : \E t \in all : t.id = s.id /\ t.packages = s.packages /\ PlaceOf(t)' = PlaceOf(s)
    BY <1>7, <1>14
  <2> QED BY <2>0, <2>1, <2>2, <2>3, <2>4, <1>10 DEF CollectionKept
<1> QED BY <1>13, <1>15, <1>16, <1>17, <1>18, <1>19 DEF CollectionInv

LEMMA CompleteProcessKeeps == ASSUME CollectionInv, NEW i \in Library!Installs, Library!CompleteProcess(i) PROVE CollectionInv'
<1> DEFINE n0 == installs[i].name
           id0 == installs[i].id
           p0 == installs[i].packages
           p == IF p0 = 0 THEN id0 ELSE p0
           newRecord == [id |-> id0, name |-> n0, packages |-> p]
           all == records \cup {newRecord}
<1>0. /\ installs[i].at = "done" /\ renaming.id = 0 /\ Library!To(i, "end") /\ Active(i) /\ Busy(i)
      /\ n0 \in Names /\ id0 \in 1 .. ids /\ ids \in Nat
  BY DEF Library!CompleteProcess, Library!At, Library!NotRenaming, Active, Busy, CollectionInv, IdsOK, CollectionTypeOK
<1>1. /\ records' = all /\ dirs' = Library!Saved(dirs, all) /\ installed' = installed \cup {id0}
      /\ packages' = (IF p0 = 0 THEN packages \cup {id0} ELSE packages)
      /\ UNCHANGED <<renaming, dialog, ids, crashes, libraryFault>>
  BY DEF Library!CompleteProcess, Library!bounds
<1>2. Moves(i, "end")
  BY <1>0, ToMoves DEF InstallPlaces
<1>3. \A j \in Library!Installs : /\ (Active(j)' <=> Active(j) /\ j # i) /\ (Busy(j)' <=> Busy(j) /\ j # i)
                                  /\ installs'[j].id = installs[j].id /\ installs'[j].name = installs[j].name
                                  /\ installs'[j].at = IF j = i THEN "end" ELSE installs[j].at
                                  /\ installs'[j].packages = installs[j].packages
  BY <1>2 DEF Moves, Active, Busy
<1>4. PICK rec \in RecordType : rec = newRecord /\ rec.id = id0 /\ rec.name = n0 /\ rec.packages = p
  <2>1. p0 \in Nat /\ id0 \in Nat \ {0}
    BY <1>0 DEF CollectionInv, CollectionTypeOK, InstallType
  <2>2. p \in Nat
    BY <2>1
  <2> HIDE DEF p
  <2>3. newRecord \in RecordType
    BY <1>0, <2>1, <2>2 DEF RecordType
  <2> QED BY <2>3
<1> HIDE DEF newRecord, p
<1>5. PICK fs, d : fs = dirs /\ d = DOMAIN fs /\ d = DOMAIN dirs
  OBVIOUS
<1>6. PICK rs : rs = all
  OBVIOUS
<1>7. PICK k : k = ids
  OBVIOUS
<1>8. rs = records \cup {rec} /\ rs \in SUBSET RecordType /\ fs \in [d -> FileType]
  BY <1>4, <1>5, <1>6 DEF CollectionInv, CollectionTypeOK
<1> HIDE DEF all
<1>9. \A s \in records : s.id # 0 /\ s.id # id0 /\ PlaceOf(s) = s.name
  BY <1>0 DEF CollectionInv, CollectionTypeOK, RecordType, IdsOK, PlaceOf
<1>10. \A n : ~Renamed(n)
  BY <1>0 DEF Renamed
<1>11. BeforeSave(d, fs, rs, k)
  <2>1. \A t \in rs : t.id <= k /\ \A u \in rs : t.id = u.id => t = u
    BY <1>0, <1>4, <1>7, <1>8, <1>9 DEF CollectionInv, IdsOK
  <2>2. \A n \in d : ~Recorded(n, rs) /\ fs[n].id # 0 => \A t \in rs : t.id # fs[n].id
    <3>1. \A n \in d : fs[n].id # 0 => \A s \in records : s.id = fs[n].id => s.name = n
      BY <1>5, <1>9, <1>10 DEF CollectionInv, OwnersKnown
    <3>2. \A n \in d : fs[n].id # 0 /\ fs[n].id = id0 => rec.name = n
      BY <1>0, <1>4, <1>5, <1>10 DEF CollectionInv, OwnersKnown
    <3> QED BY <1>4, <1>8, <3>1, <3>2 DEF Recorded
  <2>3. \A n \in d : fs[n].id # 0 => fs[n].id <= k /\ fs[n].name \in Names /\ \A m \in d : fs[m].id = fs[n].id => m = n
    BY <1>5, <1>7 DEF CollectionInv, IdsOK
  <2> QED BY <2>1, <2>2, <2>3 DEF BeforeSave
<1>12. \A j \in Library!Installs : Active(j)' =>
         /\ installs'[j].id \in 1 .. k /\ installs'[j].name \in Names
         /\ \A t \in rs : t.id # installs'[j].id
         /\ \A n \in d : ~Recorded(n, rs) /\ fs[n].id = installs'[j].id => installs'[j].at = "done" /\ n = installs'[j].name
         /\ \A l \in Library!Installs : Active(l)' /\ installs'[l].id = installs'[j].id => l = j
  <2>1. \A j \in Library!Installs : Active(j) => installs[j].id \in 1 .. k /\ installs[j].name \in Names /\ installs[j].id # 0
    BY <1>0, <1>7 DEF CollectionInv, IdsOK
  <2>2. \A j, l \in Library!Installs : Active(j) /\ Active(l) /\ installs[l].id = installs[j].id => l = j
    BY DEF CollectionInv, IdsOK
  <2>3. \A j \in Library!Installs : Active(j) /\ j # i => \A t \in rs : t.id # installs[j].id
    BY <1>0, <1>4, <1>8, <2>2 DEF CollectionInv, IdsOK
  <2>4. \A j \in Library!Installs, n \in d : Active(j) /\ fs[n].id = installs[j].id => installs[j].at = "done" /\ n = installs[j].name
    BY <1>5, <1>10, <2>1 DEF CollectionInv, OwnersKnown
  <2> QED BY <1>3, <2>1, <2>2, <2>3, <2>4
<1>13. dirs' = Library!Saved(fs, rs) /\ records' = rs /\ ids' = k /\ renaming'.id = 0
  BY <1>0, <1>1, <1>5, <1>6, <1>7
<1>14. /\ DOMAIN dirs' = d /\ dirs' \in [d -> FileType] /\ IdsOK' /\ OwnersKnown'
       /\ \A s : PlaceOf(s)' = s.name \/ s.id = 0
       /\ \A n \in d : dirs'[n].by = fs[n].by /\ (~Recorded(n, rs) => dirs'[n] = fs[n])
       /\ \A n \in d : (dirs'[n].git <=> fs[n].git) /\ (dirs'[n].whole <=> fs[n].whole)
  <2>1. fs \in [d -> FileType] /\ rs \in SUBSET RecordType
    BY <1>8
  <2> QED BY <2>1, <1>11, <1>12, <1>13, SaveKeeps
<1>15. \A t \in rs : PlaceOf(t)' = t.name
  BY <1>8, <1>14 DEF RecordType
<1>16. CollectionTypeOK'
  <2>1. packages' \subseteq 1 .. ids
    BY <1>0, <1>1 DEF CollectionInv, CollectionTypeOK
  <2>2. IsFiniteSet(DOMAIN dirs') /\ DOMAIN dirs' \subseteq Names /\ dirs' \in [DOMAIN dirs' -> FileType]
    BY <1>5, <1>14 DEF CollectionInv, CollectionTypeOK
  <2>3. installs' \in [Library!Installs -> InstallType]
    BY <1>2 DEF Moves
  <2> QED BY <1>1, <1>8, <1>13, <2>1, <2>2, <2>3 DEF CollectionInv, CollectionTypeOK
<1>17. OneQuestion'
  <2>1. dialog'.id # 0 => \E s \in records : s.id = dialog'.id
    BY <1>1 DEF CollectionInv, OneQuestion
  <2> QED BY <1>8, <1>13, <2>1 DEF OneQuestion
<1>18. MakersKnown' /\ CreatorsKnown' /\ StartedOK'
  <2>1. MakersKnown'
    BY <1>3, <1>5, <1>14 DEF CollectionInv, MakersKnown
  <2>2. CreatorsKnown'
    BY <1>3, <1>5, <1>14 DEF CollectionInv, CreatorsKnown
  <2>3. \A j \in Library!Installs : Started(j)'
    BY <1>2 DEF CollectionInv, StartedOK, Started, Moves
  <2> QED BY <2>1, <2>2, <2>3 DEF StartedOK
<1>19. ASSUME Orderly' PROVE RecordsOK' /\ InstallsOK' /\ NobodysOK'
  <2>0. Orderly /\ RecordsOK /\ InstallsOK /\ NobodysOK
    BY <1>1, <1>19 DEF Orderly, CollectionInv
  <2>1. n0 \in d /\ fs[n0].git /\ fs[n0].whole
    BY <1>0, <1>5, <2>0 DEF InstallsOK
  <2>2. \A j \in Library!Installs : Busy(j) => \A s \in records : s.name # installs[j].name
    BY <1>0, <1>9, <2>0 DEF InstallsOK
  <2>3. \A t, u \in rs : t.name = u.name => t = u
    <3>1. \A s \in records : s.name # n0
      BY <1>0, <2>2
    <3>2. \A s, q \in records : s.name = q.name => s = q
      BY <2>0 DEF RecordsOK
    <3> QED BY <1>4, <1>8, <3>1, <3>2
  <2>4. \A t \in rs : t.name \in d /\ fs[t.name].git
    <3>1. \A s \in records : s.name \in d /\ fs[s.name].git
      BY <1>5, <1>9, <2>0 DEF RecordsOK
    <3> QED BY <1>4, <1>8, <2>1, <3>1
  <2>5. \A n \in d : ~Recorded(n, rs) /\ fs[n].id # 0 => fs[n].git /\ fs[n].name = n
    BY <1>5, <1>10, <2>0 DEF RecordsOK
  <2>6. RecordsOK'
    <3>1. fs \in [d -> FileType] /\ rs \in SUBSET RecordType
      BY <1>8
    <3> QED BY <1>13, <2>3, <2>4, <2>5, <3>1, SaveOrder
  <2>7. \A j \in Library!Installs : Busy(j) /\ j # i => \A t \in rs : t.name # installs[j].name
    BY <1>0, <1>4, <1>8, <2>0, <2>2 DEF InstallsOK
  <2>8. \A j \in Library!Installs : Busy(j) /\ j # i /\ installs[j].at # "create" => dirs'[installs[j].name] = dirs[installs[j].name]
    BY <1>5, <1>14, <2>0, <2>7 DEF InstallsOK, Recorded
  <2>9. InstallsOK'
    <3>1. records' = rs /\ DOMAIN dirs' = DOMAIN dirs
      BY <1>5, <1>13, <1>14
    <3> QED BY <3>1, <1>3, <2>0, <2>7, <2>8 DEF InstallsOK
  <2>10. NobodysOK'
    <3>1. records' = rs /\ DOMAIN dirs' = DOMAIN dirs /\ crashes' = crashes /\ libraryFault' = libraryFault
      BY <1>1, <1>5, <1>13, <1>14
    <3>2. \A n \in DOMAIN dirs : (dirs[n].git => dirs'[n].git) /\ (dirs[n].whole => dirs'[n].whole)
      BY <1>5, <1>14
    <3>3. \A s \in records : s \in rs /\ PlaceOf(s)' = PlaceOf(s)
      BY <1>8, <1>9, <1>15
    <3>4. rec \in rs /\ PlaceOf(rec)' = n0 /\ dirs'[n0].git /\ dirs'[n0].whole
      BY <1>4, <1>8, <1>15, <2>1, <3>2, <1>5
    <3>5. \A n \in DOMAIN dirs : (\E j \in Library!Installs : Busy(j) /\ installs[j].name = n) =>
            n = n0 \/ \E j \in Library!Installs : Busy(j)' /\ installs'[j].name = n
      BY <1>3
    <3>6. \A n \in DOMAIN dirs : n = n0 => \E t \in rs : PlaceOf(t)' = n /\ dirs'[n].whole /\ dirs'[n].git
      BY <3>4
    <3>7. \A n \in DOMAIN dirs : (\E s \in records : PlaceOf(s) = n /\ dirs[n].whole /\ dirs[n].git) =>
            \E t \in rs : PlaceOf(t)' = n /\ dirs'[n].whole /\ dirs'[n].git
      BY <3>2, <3>3
    <3> QED BY <3>1, <3>5, <3>6, <3>7, <2>0 DEF NobodysOK
  <2> QED BY <2>6, <2>9, <2>10
<1>20. ASSUME Careful' PROVE CollectionKept'
  <2>0. Orderly /\ CollectionKept /\ RecordsOK /\ InstallsOK
    BY <1>1, <1>20 DEF Careful, Orderly, CollectionInv
  <2>1. packages \subseteq packages' /\ (p0 = 0 \/ p0 \in packages) /\ p \in packages'
    BY <1>0, <1>1, <2>0 DEF CollectionKept, p
  <2>2. \A j \in Library!Installs : Active(j)' => installs'[j].packages = 0 \/ installs'[j].packages \in packages'
    BY <1>3, <2>0, <2>1 DEF CollectionKept
  <2>3. n0 \in d /\ fs[n0].whole
    BY <1>0, <1>5, <2>0 DEF InstallsOK
  <2>4. \E t \in rs : t.id = id0 /\ t.packages \in packages' /\ dirs'[PlaceOf(t)'].whole
    <3>1. rec \in rs /\ PlaceOf(rec)' = n0 /\ rec.id = id0 /\ rec.packages \in packages'
      BY <1>4, <1>8, <1>15, <2>1
    <3>2. dirs'[n0].whole
      BY <1>14, <2>3
    <3> QED BY <3>1, <3>2
  <2>5. \A s \in records : s \in rs /\ PlaceOf(s)' = PlaceOf(s) /\ PlaceOf(s) \in d
    BY <1>5, <1>8, <1>9, <1>15, <2>0 DEF RecordsOK
  <2>6. \A n \in d : dirs[n].whole => dirs'[n].whole
    BY <1>5, <1>14
  <2>7. \A id \in installed : \E t \in rs : t.id = id /\ t.packages \in packages' /\ dirs'[PlaceOf(t)'].whole
    BY <2>0, <2>1, <2>5, <2>6 DEF CollectionKept
  <2> QED BY <1>1, <1>13, <2>2, <2>4, <2>7 DEF CollectionKept
<1> QED BY <1>14, <1>16, <1>17, <1>18, <1>19, <1>20 DEF CollectionInv

LEMMA UndecidedKeeps == ASSUME CollectionInv, Library!Undecided PROVE CollectionInv'
<1>1. /\ dialog'.id = 0 /\ dialog' \in [id : Nat, packages : Nat]
      /\ UNCHANGED <<dirs, packages, records, renaming, installs, ids, installed, crashes, libraryFault>>
  BY DEF Library!Undecided, Library!NoDialog, Library!bounds
<1>2. /\ \A j : Active(j)' = Active(j) /\ Busy(j)' = Busy(j) /\ Started(j)' = Started(j)
      /\ \A s : PlaceOf(s)' = PlaceOf(s)
      /\ \A n : Renamed(n)' = Renamed(n)
      /\ Orderly' = Orderly /\ Careful' = Careful
  BY <1>1 DEF Active, Busy, Started, PlaceOf, Renamed, Orderly, Careful
<1>3. CollectionTypeOK'
  BY <1>1 DEF CollectionInv, CollectionTypeOK
<1>4. OneQuestion'
  BY <1>1, <1>2 DEF CollectionInv, OneQuestion
<1>5. IdsOK' /\ OwnersKnown'
  BY <1>1, <1>2 DEF CollectionInv, IdsOK, OwnersKnown
<1>6. MakersKnown' /\ CreatorsKnown' /\ StartedOK'
  BY <1>1, <1>2 DEF CollectionInv, MakersKnown, CreatorsKnown, StartedOK
<1>7. Orderly => RecordsOK' /\ InstallsOK' /\ NobodysOK'
  BY <1>1, <1>2 DEF CollectionInv, RecordsOK, InstallsOK, NobodysOK
<1>8. Careful => CollectionKept'
  BY <1>1, <1>2 DEF CollectionInv, CollectionKept
<1> QED BY <1>2, <1>3, <1>4, <1>5, <1>6, <1>7, <1>8 DEF CollectionInv

\* Records that use the packages deleted use none.
Cut(x, p) == IF x.packages # 0 /\ x.packages = p THEN [x EXCEPT !.packages = 0] ELSE x
LEMMA CutFacts ==
  ASSUME NEW x \in RecordType, NEW p \in Nat
  PROVE  /\ Cut(x, p) \in RecordType /\ Cut(x, p).id = x.id /\ Cut(x, p).name = x.name
         /\ p = 0 \/ x.packages # p => Cut(x, p) = x
BY DEF Cut, RecordType

LEMMA DeleteKeeps == ASSUME CollectionInv, Library!Delete PROVE CollectionInv'
<1> DEFINE r0 == Library!RecordOf(dialog.id)
           p0 == dialog.packages
           all == {Cut(x, p0) : x \in records \ {r0}}
<1>a. CASE Library!Undecided
  BY <1>a, UndecidedKeeps
<1>b. CASE /\ packages' = packages \ {p0} /\ installed' = installed \ {r0.id} /\ records' = all
           /\ dirs' = Library!Saved(Library!Without(r0.name), all)
           /\ dialog' = Library!NoDialog /\ UNCHANGED <<renaming, installs, ids, crashes, libraryFault>>
  <2>1. dialog.id # 0 /\ renaming.id = 0 /\ p0 \in Nat
    BY DEF Library!Delete, Library!NotRenaming, CollectionInv, CollectionTypeOK
  <2>2. r0 \in records
    <3>1. \E x \in records : x.id = dialog.id
      BY <2>1 DEF CollectionInv, OneQuestion
    <3> QED BY <3>1 DEF Library!RecordOf
  <2>3. Careful => p0 = 0 \/ /\ Library!Users(p0) \subseteq {r0}
                             /\ \A j \in Library!Installs : installs[j].packages = p0 => ~Active(j)
    BY DEF Library!Delete, Library!Prompt, Careful, Active
  <2> HIDE DEF r0
  <2>4. PICK r : r = r0
    OBVIOUS
  <2>5. PICK p \in Nat : p = p0
    BY <2>1
  <2>6. PICK fs, d : fs = Library!Without(r.name) /\ d = DOMAIN fs
    OBVIOUS
  <2>7. d = DOMAIN dirs \ {r.name} /\ fs \in [d -> FileType] /\ \A n \in d : fs[n] = dirs[n]
    <3>1. fs = [n \in DOMAIN dirs \ {r.name} |-> dirs[n]]
      BY <2>6 DEF Library!Without
    <3>2. dirs \in [DOMAIN dirs -> FileType]
      BY DEF CollectionInv, CollectionTypeOK
    <3> QED BY <2>6, <3>1, <3>2
  <2>8. PICK rs : rs = all
    OBVIOUS
  <2>9. PICK k : k = ids
    OBVIOUS
  <2>10. \A s \in records : s \in RecordType /\ s.id # 0 /\ PlaceOf(s) = s.name
    BY <2>1 DEF CollectionInv, CollectionTypeOK, RecordType, PlaceOf
  <2>11. rs = {Cut(x, p) : x \in records \ {r}}
    BY <2>4, <2>5, <2>8
  <2>12. \A t \in rs : \E s \in records \ {r} : t = Cut(s, p) /\ t \in RecordType /\ t.id = s.id /\ t.name = s.name
    BY <2>10, <2>11, CutFacts
  <2>13. \A s \in records \ {r} : \E t \in rs : t = Cut(s, p) /\ t.id = s.id /\ t.name = s.name
    BY <2>10, <2>11, CutFacts
  <2>14. fs \in [d -> FileType] /\ rs \in SUBSET RecordType
    BY <2>7, <2>12
  <2>15. dirs' = Library!Saved(fs, rs) /\ records' = rs /\ ids' = k /\ renaming'.id = 0
    BY <1>b, <2>1, <2>4, <2>6, <2>8, <2>9
  <2>16. \A n : ~Renamed(n)
    BY <2>1 DEF Renamed
  <2> HIDE DEF all, p0
  <2>17. BeforeSave(d, fs, rs, k)
    <3>1. \A t \in rs : t.id <= k
      BY <2>9, <2>12 DEF CollectionInv, IdsOK
    <3>2. \A t, u \in rs : t.id = u.id => t = u
      BY <2>12 DEF CollectionInv, IdsOK
    <3>3. \A n \in d : fs[n].id # 0 => \A s \in records : s.id = fs[n].id => s.name = n /\ s # r
      BY <2>7, <2>10, <2>16 DEF CollectionInv, OwnersKnown
    <3>4. \A n \in d : ~Recorded(n, rs) /\ fs[n].id # 0 => \A t \in rs : t.id # fs[n].id
      BY <2>12, <3>3 DEF Recorded
    <3>5. \A n \in d : fs[n].id # 0 => fs[n].id <= k /\ fs[n].name \in Names /\ \A m \in d : fs[m].id = fs[n].id => m = n
      BY <2>7, <2>9 DEF CollectionInv, IdsOK
    <3> QED BY <3>1, <3>2, <3>4, <3>5 DEF BeforeSave
  <2>18. \A j : Active(j)' = Active(j) /\ Busy(j)' = Busy(j) /\ Started(j)' = Started(j)
    BY <1>b DEF Active, Busy, Started
  <2>19. \A j \in Library!Installs : Active(j)' =>
           /\ installs'[j].id \in 1 .. k /\ installs'[j].name \in Names
           /\ \A t \in rs : t.id # installs'[j].id
           /\ \A n \in d : ~Recorded(n, rs) /\ fs[n].id = installs'[j].id => installs'[j].at = "done" /\ n = installs'[j].name
           /\ \A l \in Library!Installs : Active(l)' /\ installs'[l].id = installs'[j].id => l = j
    <3>0. ids \in Nat
      BY DEF CollectionInv, CollectionTypeOK
    <3>1. \A j \in Library!Installs : Active(j) => installs[j].id \in 1 .. k /\ installs[j].name \in Names /\ installs[j].id # 0
      BY <2>9, <3>0 DEF CollectionInv, IdsOK
    <3>2. \A j, l \in Library!Installs : Active(j) /\ Active(l) /\ installs[l].id = installs[j].id => l = j
      BY DEF CollectionInv, IdsOK
    <3>3. \A j \in Library!Installs : Active(j) => \A t \in rs : t.id # installs[j].id
      BY <2>12 DEF CollectionInv, IdsOK
    <3>4. \A j \in Library!Installs, n \in d : Active(j) /\ fs[n].id = installs[j].id => installs[j].at = "done" /\ n = installs[j].name
      BY <2>7, <2>16, <3>1 DEF CollectionInv, OwnersKnown
    <3>5. installs' = installs
      BY <1>b
    <3> QED BY <2>18, <3>1, <3>2, <3>3, <3>4, <3>5
  <2>20. /\ DOMAIN dirs' = d /\ dirs' \in [d -> FileType] /\ IdsOK' /\ OwnersKnown'
         /\ \A s : PlaceOf(s)' = s.name \/ s.id = 0
         /\ \A n \in d : dirs'[n].by = fs[n].by /\ (~Recorded(n, rs) => dirs'[n] = fs[n])
         /\ \A n \in d : (dirs'[n].git <=> fs[n].git) /\ (dirs'[n].whole <=> fs[n].whole)
    BY <2>14, <2>15, <2>17, <2>19, SaveKeeps
  <2>21. \A t \in rs : PlaceOf(t)' = t.name
    BY <2>14, <2>20 DEF RecordType
  <2>22. CollectionTypeOK'
    <3>1. packages' \subseteq 1 .. ids
      BY <1>b DEF CollectionInv, CollectionTypeOK
    <3>2. IsFiniteSet(DOMAIN dirs') /\ DOMAIN dirs' \subseteq Names /\ dirs' \in [DOMAIN dirs' -> FileType]
      BY <2>7, <2>20, FS_Subset DEF CollectionInv, CollectionTypeOK
    <3>3. dialog' \in [id : Nat, packages : Nat]
      BY <1>b DEF Library!NoDialog
    <3> QED BY <1>b, <2>14, <2>15, <3>1, <3>2, <3>3 DEF CollectionInv, CollectionTypeOK
  <2>23. OneQuestion'
    BY <1>b, <2>1 DEF OneQuestion, Library!NoDialog
  <2>24. MakersKnown' /\ CreatorsKnown' /\ StartedOK'
    <3>1. MakersKnown'
      BY <1>b, <2>7, <2>20 DEF CollectionInv, MakersKnown
    <3>2. CreatorsKnown'
      BY <1>b, <2>7, <2>20 DEF CollectionInv, CreatorsKnown
    <3> QED BY <2>18, <3>1, <3>2 DEF CollectionInv, StartedOK
  <2>25. ASSUME Orderly' PROVE RecordsOK' /\ InstallsOK' /\ NobodysOK'
    <3>0. Orderly /\ RecordsOK /\ InstallsOK /\ NobodysOK
      BY <1>b, <2>25 DEF Orderly, CollectionInv
    <3>1. \A s, q \in records : s.name = q.name => s = q
      BY <3>0 DEF RecordsOK
    <3>2. \A t, u \in rs : t.name = u.name => t = u
      BY <2>12, <3>1
    <3>3. \A s \in records : s # r => s.name \in d
      BY <2>4, <2>2, <2>7, <2>10, <3>0, <3>1 DEF RecordsOK
    <3>4. \A t \in rs : t.name \in d /\ fs[t.name].git
      <4>1. \A s \in records : s # r => fs[s.name].git
        BY <2>7, <2>10, <3>0, <3>3 DEF RecordsOK
      <4> QED BY <2>12, <3>3, <4>1
    <3>5. \A n \in d : ~Recorded(n, rs) /\ fs[n].id # 0 => fs[n].git /\ fs[n].name = n
      BY <2>7, <2>16, <3>0 DEF RecordsOK
    <3>6. RecordsOK'
      BY <2>14, <2>15, <3>2, <3>4, <3>5, SaveOrder
    <3>7. \A j \in Library!Installs : Busy(j) => \A s \in records : s.name # installs[j].name
      BY <2>1, <2>10, <3>0 DEF InstallsOK
    <3>8. \A j \in Library!Installs : Busy(j) => installs[j].name # r.name /\ \A t \in rs : t.name # installs[j].name
      BY <2>2, <2>4, <2>12, <3>7
    <3>9. \A j \in Library!Installs : Busy(j) /\ installs[j].at # "create" =>
            installs[j].name \in d /\ dirs'[installs[j].name] = dirs[installs[j].name]
      BY <2>7, <2>20, <3>0, <3>8 DEF InstallsOK, Recorded
    <3>10. InstallsOK'
      <4>1. records' = rs /\ DOMAIN dirs' = d /\ installs' = installs
        BY <1>b, <2>15, <2>20
      <4> QED BY <4>1, <2>18, <3>0, <3>8, <3>9 DEF InstallsOK
    <3>11. NobodysOK'
      <4>1. records' = rs /\ DOMAIN dirs' = d /\ installs' = installs /\ crashes' = crashes /\ libraryFault' = libraryFault
        BY <1>b, <2>15, <2>20
      <4>2. \A n \in d : (dirs[n].git => dirs'[n].git) /\ (dirs[n].whole => dirs'[n].whole)
        BY <2>7, <2>20
      <4>3. \A s \in records \ {r} : \E t \in rs : PlaceOf(t)' = PlaceOf(s)
        BY <2>10, <2>13, <2>21
      <4>4. PlaceOf(r) \notin d
        BY <2>2, <2>4, <2>7, <2>10
      <4>5. \A n \in d : n \in DOMAIN dirs
        BY <2>7
      <4> QED BY <4>1, <4>2, <4>3, <4>4, <4>5, <2>18, <3>0 DEF NobodysOK
    <3> QED BY <3>6, <3>10, <3>11
  <2>26. ASSUME Careful' PROVE CollectionKept'
    <3>0. Careful /\ CollectionKept /\ RecordsOK
      BY <1>b, <2>26 DEF Careful, Orderly, CollectionInv
    <3>1. p = 0 \/ (\A s \in records : s.packages = p => s = r)
      BY <2>3, <2>4, <2>5, <3>0 DEF Library!Users, p0
    <3>2. p = 0 \/ \A j \in Library!Installs : installs[j].packages = p => ~Active(j)
      BY <2>3, <2>5, <3>0 DEF p0
    <3>3. packages' = packages \ {p} /\ installs' = installs /\ installed' = installed \ {r.id} /\ 0 \notin packages
      BY <1>b, <2>4, <2>5 DEF CollectionInv, CollectionTypeOK, p0
    <3>4. \A j \in Library!Installs : Active(j) => installs[j].packages = 0 \/ installs[j].packages \in packages'
      BY <3>0, <3>2, <3>3 DEF CollectionKept
    <3>5. \A s \in records \ {r} : s \in rs
      <4>1. \A s \in records \ {r} : Cut(s, p) = s
        BY <2>10, <3>1, CutFacts
      <4> QED BY <2>13, <4>1
    <3>6. \A s \in records \ {r} : s.packages \in packages => s.packages \in packages'
      BY <3>1, <3>3
    <3>7. \A s \in records \ {r} : PlaceOf(s) \in d
      <4>1. \A s, q \in records : s.name = q.name => s = q
        BY <3>0 DEF RecordsOK
      <4> QED BY <2>2, <2>4, <2>7, <2>10, <3>0, <4>1 DEF RecordsOK
    <3>8. \A n \in d : dirs[n].whole => dirs'[n].whole
      BY <2>7, <2>20
    <3>9. \A s \in records \ {r} : PlaceOf(s)' = PlaceOf(s)
      BY <2>10, <2>21, <3>5
    <3>10. \A id \in installed : id # r.id => \E s \in rs : s.id = id /\ s.packages \in packages' /\ dirs'[PlaceOf(s)'].whole
      <4> SUFFICES ASSUME NEW id \in installed, id # r.id PROVE \E s \in rs : s.id = id /\ s.packages \in packages' /\ dirs'[PlaceOf(s)'].whole
        OBVIOUS
      <4>1. PICK s \in records : s.id = id /\ s.packages \in packages /\ dirs[PlaceOf(s)].whole
        BY <3>0 DEF CollectionKept
      <4>2. s \in records \ {r}
        BY <4>1
      <4>3. dirs'[PlaceOf(s)'].whole
        BY <3>7, <3>8, <3>9, <4>1, <4>2
      <4> QED BY <3>5, <3>6, <4>1, <4>2, <4>3
    <3> QED BY <2>15, <2>18, <3>3, <3>4, <3>10 DEF CollectionKept
  <2> QED BY <2>20, <2>22, <2>23, <2>24, <2>25, <2>26 DEF CollectionInv
<1> QED BY <1>a, <1>b DEF Library!Delete, Cut, Library!bounds

-----------------------------------------------------------------------------
(* The start of the app numbers the directories it finds.                  *)

\* Numbers by rank: from 0, below the size of the set, each of one.
LEMMA Ranks ==
  ASSUME NEW U, IsFiniteSet(U), NEW f \in [U -> Nat], \A m, n \in U : f[m] = f[n] => m = n
  PROVE  /\ Cardinality(U) \in Nat
         /\ \A n \in U : Cardinality({m \in U : f[m] < f[n]}) \in 0 .. Cardinality(U) - 1
         /\ \A m, n \in U : Cardinality({l \in U : f[l] < f[m]}) = Cardinality({l \in U : f[l] < f[n]}) => m = n
<1> DEFINE Below(n) == {m \in U : f[m] < f[n]}
<1>1. Cardinality(U) \in Nat
  BY FS_CardinalityType
<1>2. ASSUME NEW n \in U PROVE IsFiniteSet(Below(n)) /\ Cardinality(Below(n)) \in 0 .. Cardinality(U) - 1
  <2>1. Below(n) \in SUBSET U /\ n \in U /\ n \notin Below(n)
    OBVIOUS
  <2>2. IsFiniteSet(Below(n)) /\ Cardinality(Below(n)) <= Cardinality(U) /\ Cardinality(Below(n)) # Cardinality(U)
    BY <2>1, FS_Subset
  <2>3. Cardinality(Below(n)) \in Nat
    BY <2>2, FS_CardinalityType
  <2> QED BY <1>1, <2>2, <2>3
<1>3. ASSUME NEW m \in U, NEW n \in U, f[m] < f[n] PROVE Cardinality(Below(m)) # Cardinality(Below(n))
  <2>1. Below(m) \in SUBSET Below(n)
    BY <1>3
  <2>2. m \in Below(n) /\ m \notin Below(m)
    BY <1>3
  <2> QED BY <1>2, <2>1, <2>2, FS_Subset
<1>4. \A m, n \in U : m # n => f[m] < f[n] \/ f[n] < f[m]
  OBVIOUS
<1>5. \A m, n \in U : Cardinality(Below(m)) = Cardinality(Below(n)) => m = n
  BY <1>3, <1>4
<1> QED BY <1>1, <1>2, <1>5

\* Who loads and numbers records: no id is of two, and only a directory that
\* is no repository has none.
LEMMA RestartRecords ==
  ASSUME CollectionInv, Library!Restart
  PROVE  \E rs \in SUBSET RecordType, k \in Nat :
           /\ records' = rs /\ dirs' = Library!Saved(dirs, rs) /\ ids' = k /\ ids <= k
           /\ \A t, u \in rs : t.id = u.id => t = u
           /\ \A t \in rs : t.id <= k
           /\ \A t \in rs : \/ t.id > ids /\ t.name \in Library!Unknown
                            \/ \E m \in DOMAIN dirs : dirs[m].git /\ dirs[m].id # 0 /\ t.id = dirs[m].id /\ t.name = dirs[m].name
           /\ \A t, u \in rs : t.name = u.name /\ t.name \in Library!Unknown => t = u
           /\ \A t \in rs : t.name \in DOMAIN dirs /\ dirs[t.name].git
           /\ \A n \in DOMAIN dirs : dirs[n].git => Recorded(n, rs)
           /\ \A m \in DOMAIN dirs : dirs[m].git /\ dirs[m].id # 0 /\ dirs[m].name = m =>
                [id |-> dirs[m].id, name |-> m, packages |-> dirs[m].packages] \in rs
<1> DEFINE U == Library!Unknown
           number(n) == ids + 1 + Library!Cardinality({m \in U : dirs[m].by < dirs[n].by})
           Of(n) == [id |-> dirs[n].id, name |-> dirs[n].name, packages |-> dirs[n].packages]
           New(n) == [id |-> number(n), name |-> n, packages |-> 0]
           new == {New(n) : n \in U}
           old == {r \in Library!Loaded : r.name \in Library!Found}
           all == old \cup new
           k == ids + Library!Cardinality(U)
<1>1. records' = all /\ dirs' = Library!Saved(dirs, all) /\ ids' = k
  BY DEF Library!Restart
<1>2. dirs \in [DOMAIN dirs -> FileType] /\ IsFiniteSet(DOMAIN dirs) /\ ids \in Nat /\ DOMAIN dirs \subseteq Names
  BY DEF CollectionInv, CollectionTypeOK
<1>3. \A S : Library!Cardinality(S) = Cardinality(S)
  BY Zenon DEF Cardinality, Library!Cardinality
<1>4. Library!Found = {n \in DOMAIN dirs : dirs[n].git}
  BY DEF Library!Found
<1>5. U \subseteq Library!Found /\ U = Library!Found \ {r.name : r \in Library!Loaded}
  BY DEF Library!Unknown
<1>6. Library!Loaded = {Of(n) : n \in {m \in DOMAIN dirs : dirs[m].git /\ dirs[m].id # 0}}
  BY DEF Library!Loaded
<1> HIDE DEF U
<1>7. /\ Cardinality(U) \in Nat
      /\ \A n \in U : number(n) \in ids + 1 .. ids + Cardinality(U)
      /\ \A m, n \in U : number(m) = number(n) => m = n
  <2>1. PICK f : f = [n \in U |-> dirs[n].by]
    OBVIOUS
  <2>2. PICK u : u = U
    OBVIOUS
  <2>3. u \subseteq DOMAIN dirs
    BY <1>4, <1>5, <2>2
  <2>4. IsFiniteSet(u)
    BY <1>2, <2>3, FS_Subset
  <2>5. \A n \in u : f[n] = dirs[n].by /\ f[n] \in Nat
    BY <1>2, <2>1, <2>2, <2>3 DEF FileType
  <2>6. f \in [u -> Nat] /\ \A m, n \in u : f[m] = f[n] => m = n
    BY <2>1, <2>2, <2>3, <2>5 DEF CollectionInv, MakersKnown
  <2>7. /\ Cardinality(u) \in Nat
        /\ \A n \in u : Cardinality({m \in u : f[m] < f[n]}) \in 0 .. Cardinality(u) - 1
        /\ \A m, n \in u : Cardinality({l \in u : f[l] < f[m]}) = Cardinality({l \in u : f[l] < f[n]}) => m = n
    BY <2>4, <2>6, Ranks
  <2>8. \A n \in u : {m \in u : f[m] < f[n]} = {m \in U : dirs[m].by < dirs[n].by}
    BY <2>2, <2>5
  <2>9. \A n \in u : number(n) = ids + 1 + Cardinality({m \in u : f[m] < f[n]})
    BY <1>3, <2>8
  <2> DEFINE rank(n) == Cardinality({m \in u : f[m] < f[n]})
  <2>10. /\ Cardinality(u) \in Nat
         /\ \A n \in u : rank(n) \in 0 .. Cardinality(u) - 1
         /\ \A m, n \in u : rank(m) = rank(n) => m = n
         /\ \A n \in u : number(n) = ids + 1 + rank(n)
    BY <2>7, <2>9
  <2> HIDE DEF number, rank
  <2>11. \A n \in u : number(n) \in ids + 1 .. ids + Cardinality(u) /\ rank(n) \in Nat
    BY <1>2, <2>10
  <2>12. \A m, n \in u : number(m) = number(n) => rank(m) = rank(n)
    BY <1>2, <2>10, <2>11
  <2> QED BY <2>2, <2>10, <2>11, <2>12
<1> HIDE DEF number
<1>8. k \in Nat /\ ids <= k /\ k = ids + Cardinality(U)
  BY <1>2, <1>3, <1>7
<1> HIDE DEF k
<1>9. \A t \in new : \E n \in U : t = New(n) /\ t \in RecordType /\ t.id = number(n) /\ t.name = n /\ t.id <= k /\ t.id > ids
  <2>1. \A n \in U : number(n) \in Nat \ {0} /\ n \in Names /\ number(n) <= k /\ number(n) > ids
    BY <1>2, <1>4, <1>5, <1>7, <1>8
  <2>2. \A n \in U : New(n) \in RecordType /\ New(n).id = number(n) /\ New(n).name = n
    BY <2>1 DEF RecordType
  <2> HIDE DEF New
  <2> QED BY <2>1, <2>2
<1>10. \A t \in old : /\ t \in RecordType /\ t.id <= ids /\ t.name \in Library!Found /\ t.name \notin U
                      /\ \E m \in DOMAIN dirs : dirs[m].git /\ dirs[m].id # 0 /\ t.id = dirs[m].id /\ t.name = dirs[m].name
                                                /\ t = Of(m)
  <2>1. \A m \in DOMAIN dirs : dirs[m].id # 0 => dirs[m].id <= ids /\ dirs[m].name \in Names /\ dirs[m].id \in Nat /\ dirs[m].packages \in Nat
    BY <1>2 DEF CollectionInv, IdsOK, FileType
  <2>2. \A m \in DOMAIN dirs : dirs[m].id # 0 => /\ Of(m) \in RecordType /\ Of(m).id <= ids
                                                /\ Of(m).id = dirs[m].id /\ Of(m).name = dirs[m].name
    BY <2>1 DEF RecordType
  <2>3. \A t \in old : t \in Library!Loaded /\ t.name \in Library!Found /\ t.name \notin U
    BY <1>5
  <2> HIDE DEF Of, old
  <2> QED BY <1>6, <2>2, <2>3
<1>11. \A t, u \in all : t.id = u.id => t = u
  <2>1. \A t, u \in old : t.id = u.id => t = u
    BY <1>10 DEF CollectionInv, IdsOK
  <2>2. \A t, u \in new : t.id = u.id => t = u
    BY <1>7, <1>9
  <2>3. \A t \in old, u \in new : t.id # u.id
    <3>1. \A t \in old : t.id \in Nat /\ t.id <= ids
      BY <1>10 DEF RecordType
    <3>2. \A t \in new : t.id \in Nat /\ t.id > ids
      BY <1>9 DEF RecordType
    <3> QED BY <1>2, <3>1, <3>2
  <2> HIDE DEF old, new
  <2> QED BY <2>1, <2>2, <2>3
<1>12. \A t \in all : t.id <= k
  <2>1. \A t \in old : t.id <= ids /\ t.id \in Nat
    BY <1>10 DEF RecordType
  <2>2. \A t \in new : t.id <= k
    BY <1>9
  <2> HIDE DEF old, new
  <2> QED BY <1>2, <1>8, <2>1, <2>2
<1>13. \A t \in all : \/ t.id > ids /\ t.name \in U
                      \/ \E m \in DOMAIN dirs : dirs[m].git /\ dirs[m].id # 0 /\ t.id = dirs[m].id /\ t.name = dirs[m].name
  BY <1>9, <1>10
<1>14. \A t, u \in all : t.name = u.name /\ t.name \in U => t = u
  <2>1. \A t \in all : t.name \in U => t \in new
    BY <1>10
  <2>2. \A t, u \in new : t.name = u.name => t = u
    BY <1>9
  <2> QED BY <2>1, <2>2
<1>15. \A t \in all : t.name \in DOMAIN dirs /\ dirs[t.name].git
  <2>1. \A t \in all : t.name \in Library!Found
    BY <1>5, <1>9, <1>10
  <2> HIDE DEF all
  <2> QED BY <1>4, <2>1
<1>16. \A n \in Library!Found : Recorded(n, all)
  <2>1. \A n \in U : New(n) \in all /\ New(n).name = n
    OBVIOUS
  <2>2. \A n \in Library!Found \ U : \E t \in Library!Loaded : t.name = n
    BY <1>5
  <2>3. \A n \in Library!Found \ U : \E t \in all : t.name = n
    BY <2>2
  <2> HIDE DEF all, New
  <2> QED BY <2>1, <2>3 DEF Recorded
<1>17. \A m \in DOMAIN dirs : dirs[m].git /\ dirs[m].id # 0 /\ dirs[m].name = m =>
         [id |-> dirs[m].id, name |-> m, packages |-> dirs[m].packages] \in all
  <2> SUFFICES ASSUME NEW m \in DOMAIN dirs, dirs[m].git, dirs[m].id # 0, dirs[m].name = m PROVE Of(m) \in all
    OBVIOUS
  <2>1. Of(m) \in Library!Loaded
    BY <1>6
  <2>2. Of(m).name = m /\ m \in Library!Found
    BY <1>4
  <2> QED BY <2>1, <2>2
<1>18. all \in SUBSET RecordType
  BY <1>9, <1>10
<1> HIDE DEF all
<1>19. \A n \in DOMAIN dirs : dirs[n].git => Recorded(n, all)
  BY <1>4, <1>16
<1> QED BY <1>1, <1>8, <1>11, <1>12, <1>13, <1>14, <1>15, <1>17, <1>18, <1>19 DEF U

LEMMA RestartKeeps == ASSUME CollectionInv, Library!Restart PROVE CollectionInv'
<1>1. PICK rs \in SUBSET RecordType, k \in Nat :
        /\ records' = rs /\ dirs' = Library!Saved(dirs, rs) /\ ids' = k /\ ids <= k
        /\ \A t, u \in rs : t.id = u.id => t = u
        /\ \A t \in rs : t.id <= k
        /\ \A t \in rs : \/ t.id > ids /\ t.name \in Library!Unknown
                         \/ \E m \in DOMAIN dirs : dirs[m].git /\ dirs[m].id # 0 /\ t.id = dirs[m].id /\ t.name = dirs[m].name
        /\ \A t, u \in rs : t.name = u.name /\ t.name \in Library!Unknown => t = u
        /\ \A t \in rs : t.name \in DOMAIN dirs /\ dirs[t.name].git
        /\ \A n \in DOMAIN dirs : dirs[n].git => Recorded(n, rs)
        /\ \A m \in DOMAIN dirs : dirs[m].git /\ dirs[m].id # 0 /\ dirs[m].name = m =>
             [id |-> dirs[m].id, name |-> m, packages |-> dirs[m].packages] \in rs
  BY RestartRecords
<1>2. /\ renaming' = [id |-> 0, name |-> ""] /\ dialog' = Library!NoDialog /\ crashes' = crashes + 1
      /\ (libraryFault = "crash while renaming" \/ renaming.id = 0)
      /\ UNCHANGED <<packages, installed, libraryFault>>
      /\ installs' = [i \in Library!Installs |-> IF installs[i].at = "none" THEN Library!Idle ELSE [Library!Idle EXCEPT !.at = "end"]]
  BY DEF Library!Restart, Library!NotRenaming, Library!At
<1>3. PICK fs, d : fs = dirs /\ d = DOMAIN fs /\ d = DOMAIN dirs
  OBVIOUS
<1>4. fs \in [d -> FileType] /\ ids \in Nat /\ crashes \in Nat /\ packages \subseteq 1 .. ids
  BY <1>3 DEF CollectionInv, CollectionTypeOK
<1>a. /\ ids' = k /\ ids <= k /\ k \in Nat
      /\ crashes' = crashes + 1 /\ crashes' # 0 /\ crashes' \in Nat /\ packages' = packages
  <2>1. ids' = k /\ ids <= k /\ k \in Nat
    BY <1>1
  <2>2. crashes' = crashes + 1 /\ packages' = packages
    BY <1>2
  <2>3. crashes \in Nat
    BY <1>4
  <2> QED BY <2>1, <2>2, <2>3
<1>b. libraryFault' = libraryFault /\ (libraryFault = "crash while renaming" \/ renaming.id = 0)
  BY <1>2
<1>5. \A j \in Library!Installs : /\ installs'[j] \in InstallType /\ ~Active(j)' /\ ~Busy(j)'
                                  /\ installs'[j].at = IF installs[j].at = "none" THEN "none" ELSE "end"
  BY <1>2 DEF InstallType, InstallPlaces, LibNames, Library!Idle, Active, Busy
<1>6. \A n \in d : fs[n].id # 0 => fs[n].id \in Nat /\ fs[n].id <= ids /\ fs[n].name \in Names
  BY <1>3, <1>4 DEF CollectionInv, IdsOK, FileType
<1>7. \A n \in d : ~Recorded(n, rs) /\ fs[n].id # 0 => \A t \in rs : t.id # fs[n].id
  <2>1. ASSUME NEW n \in d, ~Recorded(n, rs), fs[n].id # 0, NEW t \in rs, t.id = fs[n].id PROVE FALSE
    <3>1. t.id \in Nat /\ ~(t.id > ids)
      BY <1>4, <1>6, <2>1
    <3>2. PICK m \in DOMAIN dirs : dirs[m].git /\ dirs[m].id # 0 /\ t.id = dirs[m].id
      BY <1>1, <3>1
    <3>3. m = n
      BY <1>3, <2>1, <3>2 DEF CollectionInv, IdsOK
    <3> QED BY <1>1, <1>3, <2>1, <3>2, <3>3
  <2> QED BY <2>1
<1>8. BeforeSave(d, fs, rs, k)
  <2>1. \A n \in d : fs[n].id # 0 => fs[n].id <= k /\ fs[n].name \in Names
    BY <1>1, <1>4, <1>6
  <2>2. \A m, n \in d : fs[m].id # 0 /\ fs[m].id = fs[n].id => m = n
    BY <1>3 DEF CollectionInv, IdsOK
  <2>3. \A t, u \in rs : t.id = u.id => t = u
    BY <1>1
  <2>4. \A t \in rs : t.id <= k
    BY <1>1
  <2> QED BY <1>7, <2>1, <2>2, <2>3, <2>4 DEF BeforeSave
<1>9. dirs' = Library!Saved(fs, rs) /\ records' = rs /\ ids' = k /\ renaming'.id = 0 /\ rs \in SUBSET RecordType
  BY <1>1, <1>2, <1>3
<1>10. /\ DOMAIN dirs' = d /\ dirs' \in [d -> FileType] /\ IdsOK' /\ OwnersKnown'
       /\ \A s : PlaceOf(s)' = s.name \/ s.id = 0
       /\ \A n \in d : dirs'[n].by = fs[n].by /\ (~Recorded(n, rs) => dirs'[n] = fs[n])
       /\ \A n \in d : (dirs'[n].git <=> fs[n].git) /\ (dirs'[n].whole <=> fs[n].whole)
  BY <1>4, <1>5, <1>8, <1>9, SaveKeeps
<1>11. \A t \in rs : PlaceOf(t)' = t.name
  BY <1>9, <1>10 DEF RecordType
<1>12. CollectionTypeOK'
  <2>1. packages' \subseteq 1 .. ids'
    BY <1>4, <1>a
  <2>2. IsFiniteSet(DOMAIN dirs') /\ DOMAIN dirs' \subseteq Names /\ dirs' \in [DOMAIN dirs' -> FileType]
    BY <1>3, <1>10 DEF CollectionInv, CollectionTypeOK
  <2>3. installs' \in [Library!Installs -> InstallType]
    <3>1. installs' = [j \in Library!Installs |-> installs'[j]]
      BY <1>2
    <3> QED BY <1>5, <3>1
  <2>4. dialog' \in [id : Nat, packages : Nat] /\ renaming' \in [id : Nat, name : LibNames] /\ crashes' \in Nat /\ ids' \in Nat
    BY <1>2, <1>a DEF Library!NoDialog, LibNames
  <2> QED BY <1>9, <2>1, <2>2, <2>3, <2>4 DEF CollectionTypeOK
<1>13. OneQuestion'
  BY <1>2 DEF OneQuestion, Library!NoDialog
<1>14. MakersKnown' /\ CreatorsKnown' /\ StartedOK'
  <2>1. MakersKnown'
    BY <1>3, <1>5, <1>10 DEF CollectionInv, MakersKnown
  <2>2. CreatorsKnown'
    BY <1>5 DEF CreatorsKnown
  <2>3. \A j \in Library!Installs : Started(j)'
    BY <1>5 DEF Started
  <2> QED BY <2>1, <2>2, <2>3 DEF StartedOK
<1>15. Orderly' => Orderly /\ renaming.id = 0 /\ RecordsOK
  BY <1>a, <1>b DEF CollectionInv, Orderly
<1>16. \A n : renaming.id = 0 => ~Renamed(n)
  BY DEF Renamed
<1>17. ASSUME Orderly' PROVE RecordsOK' /\ InstallsOK' /\ NobodysOK'
  <2>1. \A n \in d : fs[n].id # 0 => fs[n].git /\ fs[n].name = n
    BY <1>3, <1>15, <1>16, <1>17 DEF RecordsOK
  <2>2. ASSUME NEW t \in rs, NEW u \in rs, t.name = u.name PROVE t = u
    <3>1. CASE t.name \in Library!Unknown
      BY <1>1, <2>2, <3>1
    <3>2. CASE t.name \notin Library!Unknown
      <4>1. \A x \in rs : x.name \notin Library!Unknown => \E m \in d : fs[m].id # 0 /\ x.id = fs[m].id /\ x.name = m
        BY <1>1, <1>3, <2>1
      <4> QED BY <1>1, <2>2, <3>2, <4>1
    <3> QED BY <3>1, <3>2
  <2>3. \A t \in rs : t.name \in d /\ fs[t.name].git
    BY <1>1, <1>3
  <2>4. RecordsOK'
    BY <1>4, <1>9, <2>1, <2>2, <2>3, SaveOrder
  <2>5. InstallsOK'
    BY <1>5 DEF InstallsOK
  <2>6. NobodysOK'
    BY <1>a DEF NobodysOK
  <2> QED BY <2>4, <2>5, <2>6
<1>18. ASSUME Careful' PROVE CollectionKept'
  <2>1. CollectionKept /\ RecordsOK /\ renaming.id = 0 /\ Orderly'
    BY <1>2, <1>18, <1>15 DEF Careful, Orderly, CollectionInv
  <2>2. ASSUME NEW id \in installed
        PROVE  \E t \in rs : t.id = id /\ t.packages \in packages /\ dirs'[PlaceOf(t)'].whole
    <3>1. PICK r \in records : r.id = id /\ r.packages \in packages /\ dirs[PlaceOf(r)].whole
      BY <2>1 DEF CollectionKept
    <3>2. PlaceOf(r) = r.name /\ r.id # 0
      BY <2>1 DEF PlaceOf, CollectionInv, CollectionTypeOK, RecordType
    <3>3. /\ r.name \in DOMAIN dirs /\ dirs[r.name].id = r.id /\ dirs[r.name].packages = r.packages
      BY <2>1, <3>2 DEF RecordsOK
    <3>4. dirs[r.name].git /\ dirs[r.name].name = r.name
      BY <1>16, <2>1, <3>2, <3>3 DEF RecordsOK
    <3>5. PICK t \in rs : t = [id |-> r.id, name |-> r.name, packages |-> r.packages]
      BY <1>1, <3>2, <3>3, <3>4
    <3>6. t.id = id /\ t.name = r.name /\ t.packages \in packages
      BY <3>1, <3>5
    <3>7. dirs'[r.name].whole
      BY <1>3, <1>10, <3>1, <3>2, <3>3
    <3> QED BY <1>11, <3>6, <3>7
  <2> QED BY <1>2, <1>5, <1>9, <2>2 DEF CollectionKept
<1> QED BY <1>10, <1>12, <1>13, <1>14, <1>17, <1>18 DEF CollectionInv

-----------------------------------------------------------------------------
(* The collection at every step.                                           *)

LEMMA CollectionStutter == ASSUME CollectionInv, UNCHANGED Library!vars PROVE CollectionInv'
<1>1. UNCHANGED <<dirs, packages, records, renaming, installs, ids, installed, crashes, libraryFault, dialog>>
  BY DEF Library!vars, Library!app, Library!bounds
<1>2. /\ \A j : Active(j)' = Active(j) /\ Busy(j)' = Busy(j) /\ Started(j)' = Started(j)
      /\ \A s : PlaceOf(s)' = PlaceOf(s)
      /\ \A n : Renamed(n)' = Renamed(n)
      /\ Orderly' = Orderly /\ Careful' = Careful
  BY <1>1 DEF Active, Busy, Started, PlaceOf, Renamed, Orderly, Careful
<1>3. CollectionTypeOK'
  BY <1>1 DEF CollectionInv, CollectionTypeOK
<1>4. OneQuestion'
  BY <1>1, <1>2 DEF CollectionInv, OneQuestion
<1>5. IdsOK' /\ OwnersKnown'
  BY <1>1, <1>2 DEF CollectionInv, IdsOK, OwnersKnown
<1>6. MakersKnown' /\ CreatorsKnown' /\ StartedOK'
  BY <1>1, <1>2 DEF CollectionInv, MakersKnown, CreatorsKnown, StartedOK
<1>7. Orderly => RecordsOK' /\ InstallsOK' /\ NobodysOK'
  BY <1>1, <1>2 DEF CollectionInv, RecordsOK, InstallsOK, NobodysOK
<1>8. Careful => CollectionKept'
  BY <1>1, <1>2 DEF CollectionInv, CollectionKept
<1> QED BY <1>2, <1>3, <1>4, <1>5, <1>6, <1>7, <1>8 DEF CollectionInv

LEMMA CollectionStep == ASSUME CollectionInv, Library!Next PROVE CollectionInv'
<1>1. ASSUME NEW i \in Library!Installs, NEW n \in Names, NEW p \in packages \cup {0}, Library!Begin(i, n, p) PROVE CollectionInv'
  BY <1>1, BeginKeepsCollection
<1>2. ASSUME NEW i \in Library!Installs, NEW git \in BOOLEAN, Library!CreateFiles(i, git) PROVE CollectionInv'
  BY <1>2, CreateFilesKeeps
<1>3. ASSUME NEW i \in Library!Installs,
             \/ Library!CreateDirectory(i) \/ Library!Fill(i) \/ Library!SetupRepository(i) \/ Library!SaveConfig(i)
             \/ Library!CompleteProcess(i) \/ Library!Cleanup(i) \/ Library!Cancel(i)
      PROVE  CollectionInv'
  BY <1>3, CreateDirectoryKeeps, FillKeeps, SetupKeeps, SaveConfigKeeps, CompleteProcessKeeps,
     CleanupKeepsCollection, CancelKeepsCollection
<1>4. ASSUME NEW r \in records, NEW n \in Names, Library!Move(r, n) PROVE CollectionInv'
  BY <1>4, MoveKeeps
<1>5. ASSUME NEW r \in records, NEW too \in BOOLEAN, Library!AskDelete(r, too) PROVE CollectionInv'
  BY <1>5, AskKeeps
<1>6. CASE Library!SaveRenamed \/ Library!Delete \/ Library!Restart
  BY <1>6, SaveRenamedKeeps, DeleteKeeps, RestartKeeps
<1> QED BY <1>1, <1>2, <1>3, <1>4, <1>5, <1>6 DEF Library!Next

LEMMA CollectionAlways == FilesSpec => []CollectionInv
<1>1. CollectionInv /\ [Library!Next]_(Library!vars) => CollectionInv'
  BY CollectionStep, CollectionStutter
<1> QED BY <1>1, CollectionInit, CollectionOfSpec, PTL

LEMMA CollectionFollows == ASSUME CollectionInv PROVE Library!TypeOK /\ Library!LibraryTrue /\ Library!InstalledKept
<1>1. \A r \in records : r.id # 0
  BY DEF CollectionInv, CollectionTypeOK, RecordType
<1>2. Library!NotRenaming => renaming.id = 0 /\ \A r \in records : PlaceOf(r) = r.name
  BY <1>1 DEF Library!NotRenaming, PlaceOf
<1>3. Library!TypeOK
  BY DEF CollectionInv, CollectionTypeOK, OneQuestion, InstallType, InstallPlaces, Library!TypeOK
<1>4. Library!LibraryTrue
  <2>1. \A r, s \in records : r.id = s.id \/ (libraryFault # "crash while renaming" /\ r.name = s.name) => r = s
    BY DEF CollectionInv, IdsOK, Orderly, RecordsOK
  <2>2. Library!NotRenaming /\ libraryFault # "crash while renaming" =>
          \A r \in records : Library!Exists(r.name) /\ dirs[r.name].id = r.id /\ dirs[r.name].packages = r.packages
    BY <1>2 DEF CollectionInv, Orderly, RecordsOK, Library!Exists
  <2>3. ASSUME Library!NotRenaming, crashes = 0, libraryFault # "cancel", NEW n \in DOMAIN dirs
        PROVE  \/ \E r \in records : r.name = n /\ dirs[n].whole /\ dirs[n].git
               \/ \E i \in Library!Installs : installs[i].name = n /\ installs[i].at \notin {"none", "test", "end"}
    <3>1. NobodysOK
      BY <2>3 DEF CollectionInv, Orderly
    <3>2. \A i \in Library!Installs : Busy(i) => installs[i].at \notin {"none", "test", "end"}
      BY DEF Busy
    <3> QED BY <1>2, <2>3, <3>1, <3>2 DEF NobodysOK
  <2> QED BY <2>1, <2>2, <2>3 DEF Library!LibraryTrue
<1>5. Library!InstalledKept
  <2> SUFFICES ASSUME libraryFault \in {"none", "cancel"}, NEW id \in installed
               PROVE  \E r \in records : r.id = id /\ r.packages \in packages /\ (Library!NotRenaming => dirs[r.name].whole)
    BY DEF Library!InstalledKept
  <2>1. PICK r \in records : r.id = id /\ r.packages \in packages /\ dirs[PlaceOf(r)].whole
    BY DEF CollectionInv, CollectionKept, Careful
  <2>2. Library!NotRenaming => dirs[r.name].whole
    BY <1>2, <2>1
  <2> QED BY <2>1, <2>2
<1> QED BY <1>3, <1>4, <1>5

\* What is in the Library stays: the records and the directories of projects
\* belong together and what was installed is not lost, through failed and
\* canceled installations, renaming, deletion and restarts; the page removes
\* nothing that is in use; and the data is whole in one place at every step of
\* the change to another folder, whichever step of it fails and wherever it
\* crashes. With StorageFaults = {} nothing comes to use the Library between
\* the test that it is unused and its removal or move, and packages are not
\* shared meanwhile.
THEOREM LibraryStaysTrue == ASSUME StorageFaults = {} PROVE FilesSpec => []LibraryKept
<1>1. CollectionInv /\ PageInv /\ FolderInv => LibraryKept
  BY CollectionFollows, PageFollows, FolderFollows DEF LibraryKept
<1> QED BY <1>1, CollectionAlways, PageAlways, FolderAlways, PTL
================================================================================
