------------------------- MODULE MCDeployment_proofs -------------------------
(***************************************************************************)
(* Theorems about deploying a build, for all machines that can be connected*)
(* and all deployments: the wizard and its worker leave no connection open *)
(* that nobody has, a deployment that ended leaves nothing behind, and     *)
(* only whole files in the place that was selected, and the boot page      *)
(* shows a bootloader that can be installed.                               *)
(***************************************************************************)
EXTENDS MCMachines, FiniteSetTheorems, SequenceTheorems, TLAPS

-----------------------------------------------------------------------------
(* The wizard.                                                             *)

MaybeMade == Wizard!Made \cup {Wizard!None}
Workers == [at : {"idle", "close", "connect", "list", "done"}, local : BOOLEAN, host : Hosts \cup {Wizard!This},
            previous : MaybeMade, connection : MaybeMade, lists : BOOLEAN]

WizardTypeOK ==
  /\ \E n \in Nat : Wizard!Made = 1 .. n
  /\ method \in Wizard!Methods /\ host \in Hosts /\ worker \in Workers
  /\ connection \in MaybeMade /\ lister \in MaybeMade /\ dialog \in MaybeMade
  /\ shown \in BOOLEAN /\ wopen \subseteq Wizard!Made /\ hurried \subseteq {"go on", "leave"}

\* What may be open while the worker connects, by where it is.
WorkersOwn ==
  CASE worker.at = "close" -> {worker.previous}
    [] worker.at = "list" \/ (worker.at = "done" /\ worker.lists) -> {worker.connection}
    [] OTHER -> {}

\* One connection is open at most: the worker has it, and else it is the one
\* the wizard knows.  With a user who waits for the worker, the wizard's is
\* that of the dialog and of the installation, or it was closed when the
\* wizard was left.
WizardOwns ==
  /\ shown => lister = connection
  /\ wopen \subseteq IF Wizard!Connecting THEN WorkersOwn ELSE {connection}
  /\ dialog # Wizard!None => shown /\ install = Wizard!NoInstallation
  /\ "go on" \notin hurried =>
       /\ dialog # Wizard!None => ~Wizard!Connecting /\ dialog = lister
       /\ install # Wizard!NoInstallation => ~Wizard!Connecting /\ install.plan = install.connection
  /\ hurried = {} =>
       /\ Wizard!Connecting => shown /\ install = Wizard!NoInstallation
       /\ ~shown /\ install = Wizard!NoInstallation => wopen = {}
       /\ install # Wizard!NoInstallation => install.connection = connection

WizardInv == WizardTypeOK /\ WizardOwns

LEMMA WizardCounts == ASSUME NEW S PROVE Wizard!Cardinality(S) = Cardinality(S)
BY Zenon DEF Cardinality, Wizard!Cardinality

\* A connection that is made has a number no other one has.
LEMMA NewIsNew ==
  ASSUME WizardTypeOK
  PROVE  /\ Wizard!New \notin Wizard!Made /\ Wizard!New # Wizard!None /\ Wizard!None \notin Wizard!Made
         /\ \E n \in Nat : Wizard!Made \cup {Wizard!New} = 1 .. n
<1>1. PICK n \in Nat : Wizard!Made = 1 .. n
  BY DEF WizardTypeOK
<1>2. Cardinality(1 .. n) = n
  BY FS_Interval
<1>3. Wizard!New = n + 1
  BY <1>1, <1>2, WizardCounts DEF Wizard!New
<1>4. QED
  BY <1>1, <1>3 DEF Wizard!None

LEMMA MakeFacts == ASSUME NEW where, Wizard!Make(where) PROVE Wizard!Made' = Wizard!Made \cup {Wizard!New}
BY DEF Wizard!Make, Wizard!Made

LEMMA WizardInit == Wizard!Init => WizardInv
<1>1. SUFFICES ASSUME Wizard!Init PROVE WizardInv
  OBVIOUS
<1>2. Wizard!Made = 1 .. 0
  BY <1>1 DEF Wizard!Init, Wizard!Made
<1>3. WizardTypeOK
  <2>1. \E n \in Nat : Wizard!Made = 1 .. n
    BY <1>2
  <2>2. QED
    BY <1>1, <2>1 DEF Wizard!Init, WizardTypeOK, Workers, MaybeMade, Wizard!Idle, Wizard!Methods, Wizard!This
<1>4. WizardOwns
  BY <1>1 DEF Wizard!Init, WizardOwns, Wizard!Idle, Wizard!Connecting
<1>5. QED
  BY <1>3, <1>4 DEF WizardInv

\* What on_connection_changed() does, while the worker connects or not.
LEMMA ChangeKeeps ==
  ASSUME WizardInv, NEW m \in Wizard!Methods, Wizard!ConnectionChanged(m), method' \in Wizard!Methods, host' \in Hosts,
         shown, install = Wizard!NoInstallation, dialog = Wizard!None, UNCHANGED <<worker, dialog, install, shown, hurried>>
  PROVE  WizardInv'
<1>1. WizardTypeOK /\ WizardOwns
  BY DEF WizardInv
<1>2. /\ Wizard!New \notin Wizard!Made /\ Wizard!New # Wizard!None /\ Wizard!None \notin Wizard!Made
      /\ \E n \in Nat : Wizard!Made \cup {Wizard!New} = 1 .. n
  BY <1>1, NewIsNew
<1>3. /\ wopen' \subseteq wopen /\ Wizard!Connecting' = Wizard!Connecting /\ WorkersOwn' = WorkersOwn
      /\ ~Wizard!Connecting => wopen' = {}
  <2>1. wopen' = IF lister # Wizard!None /\ ~Wizard!Connecting THEN wopen \ {connection} ELSE wopen
    BY DEF Wizard!ConnectionChanged
  <2>2. ~Wizard!Connecting => wopen \subseteq {connection} /\ connection = lister
    BY <1>1 DEF WizardOwns
  <2>3. wopen \subseteq Wizard!Made
    BY <1>1 DEF WizardTypeOK
  <2>4. QED
    BY <2>1, <2>2, <2>3, <1>2 DEF Wizard!Connecting, WorkersOwn
<1>4. CASE m = "IMAGE_FILE"
  <2>1. connection' = Wizard!New /\ lister' = Wizard!New /\ Wizard!Made' = Wizard!Made \cup {Wizard!New}
    BY <1>4, MakeFacts DEF Wizard!ConnectionChanged
  <2>2. WizardTypeOK'
    BY <1>1, <1>2, <1>3, <2>1 DEF WizardTypeOK, MaybeMade, Workers
  <2>3. WizardOwns'
    BY <1>1, <1>3, <2>1 DEF WizardOwns
  <2>4. QED
    BY <2>2, <2>3 DEF WizardInv
<1>5. CASE m # "IMAGE_FILE"
  <2>1. /\ owner' = owner /\ connection' \in {connection, Wizard!None} /\ lister' \in {lister, Wizard!None}
        /\ lister = connection => lister' = connection'
    BY <1>5 DEF Wizard!ConnectionChanged
  <2>2. Wizard!Made' = Wizard!Made
    BY <2>1 DEF Wizard!Made
  <2>3. WizardTypeOK'
    BY <1>1, <1>3, <2>1, <2>2 DEF WizardTypeOK, MaybeMade, Workers
  <2>4. WizardOwns'
    BY <1>1, <1>3, <2>1 DEF WizardOwns
  <2>5. QED
    BY <2>3, <2>4 DEF WizardInv
<1>6. QED
  BY <1>4, <1>5

\* The worker goes on: what it has made, and what it leaves open.
LEMMA WorkerKeeps ==
  ASSUME WizardInv, Wizard!Connecting, UNCHANGED <<method, host, connection, lister, dialog, install, shown, hurried>>,
         \/ UNCHANGED owner
         \/ Wizard!Made' = Wizard!Made \cup {Wizard!New},
         worker' \in Workers', worker'.at # "idle", wopen' \subseteq WorkersOwn', wopen' \subseteq Wizard!Made'
  PROVE  WizardInv'
<1>1. WizardTypeOK /\ WizardOwns
  BY DEF WizardInv
<1>2. Wizard!Made' = Wizard!Made \/ Wizard!Made' = Wizard!Made \cup {Wizard!New}
  BY DEF Wizard!Made
<1>3. WizardTypeOK'
  <2>1. \E n \in Nat : Wizard!Made' = 1 .. n
    BY <1>1, <1>2, NewIsNew DEF WizardTypeOK
  <2>2. QED
    BY <1>1, <1>2, <2>1 DEF WizardTypeOK, MaybeMade
<1>4. WizardOwns'
  BY <1>1 DEF WizardOwns, Wizard!Connecting
<1>5. QED
  BY <1>3, <1>4 DEF WizardInv

LEMMA OpensKeeps ==
  ASSUME WizardInv, NEW where, worker.at = "connect", Wizard!Opens(where)
  PROVE  WizardInv'
<1>1. WizardTypeOK /\ WizardOwns
  BY DEF WizardInv
<1>2. PICK connected \in BOOLEAN :
        /\ wopen' = IF connected THEN wopen \cup {Wizard!New} ELSE wopen
        /\ worker' = [worker EXCEPT !.at = IF connected THEN "list" ELSE "done", !.connection = Wizard!New]
  BY DEF Wizard!Opens
<1>3. Wizard!Made' = Wizard!Made \cup {Wizard!New} /\ UNCHANGED <<method, host, connection, lister, dialog, install, shown, hurried>>
  BY MakeFacts DEF Wizard!Opens, Wizard!view
<1>4. Wizard!Connecting /\ wopen = {}
  BY <1>1 DEF WizardOwns, WorkersOwn, Wizard!Connecting
<1>5. /\ worker' \in Workers' /\ worker'.at # "idle" /\ worker'.connection = Wizard!New
      /\ connected => worker'.at = "list"
  BY <1>1, <1>2, <1>3 DEF WizardTypeOK, Workers, MaybeMade
<1>6. wopen' \subseteq WorkersOwn' /\ wopen' \subseteq Wizard!Made'
  BY <1>2, <1>3, <1>4, <1>5 DEF WorkersOwn
<1>7. QED
  BY <1>3, <1>4, <1>5, <1>6, WorkerKeeps

LEMMA ListsKeeps ==
  ASSUME WizardInv, worker.at = "list", Wizard!Lists
  PROVE  WizardInv'
<1>1. WizardTypeOK /\ WizardOwns
  BY DEF WizardInv
<1>2. PICK found \in BOOLEAN :
        /\ worker' = [worker EXCEPT !.at = "done", !.lists = found]
        /\ wopen' = IF found THEN wopen ELSE wopen \ {worker.connection}
  BY DEF Wizard!Lists
<1>3. UNCHANGED <<owner, method, host, connection, lister, dialog, install, shown, hurried>> /\ Wizard!Made' = Wizard!Made
  BY DEF Wizard!Lists, Wizard!view, Wizard!Made
<1>4. Wizard!Connecting /\ wopen \subseteq {worker.connection}
  BY <1>1 DEF WizardOwns, WorkersOwn, Wizard!Connecting
<1>5. /\ worker' \in Workers' /\ worker'.at = "done" /\ worker'.connection = worker.connection
      /\ worker'.lists = found
  BY <1>1, <1>2, <1>3 DEF WizardTypeOK, Workers, MaybeMade
<1>6. wopen' \subseteq WorkersOwn' /\ wopen' \subseteq Wizard!Made'
  BY <1>1, <1>2, <1>3, <1>4, <1>5 DEF WorkersOwn, WizardTypeOK
<1>7. QED
  BY <1>3, <1>4, <1>5, <1>6, WorkerKeeps

\* What the invariant is about is left alone.
LEMMA WizardStays ==
  ASSUME WizardInv, UNCHANGED <<method, host, connection, lister, dialog, install, shown>>,
         UNCHANGED <<worker, owner, wopen, hurried>>
  PROVE  WizardInv'
<1>1. Wizard!Connecting' = Wizard!Connecting /\ WorkersOwn' = WorkersOwn /\ Wizard!Made' = Wizard!Made
  BY DEF Wizard!Connecting, WorkersOwn, Wizard!Made
<1>2. WizardOwns'
  BY <1>1 DEF WizardInv, WizardOwns
<1>3. Workers' = Workers /\ MaybeMade' = MaybeMade
  BY <1>1 DEF Workers, MaybeMade
<1>4. WizardTypeOK'
  BY <1>1, <1>3 DEF WizardInv, WizardTypeOK
<1>5. QED
  BY <1>2, <1>4 DEF WizardInv

LEMMA WizardStep == ASSUME WizardInv, Wizard!Next PROVE WizardInv'
<1>1. WizardTypeOK /\ WizardOwns
  BY DEF WizardInv
<1>2. Wizard!None \notin Wizard!Made
  BY <1>1, NewIsNew
<1>3. CASE Wizard!SelectMethod
  <2>1. PICK m \in Wizard!Methods : method' = m /\ Wizard!ConnectionChanged(m)
    BY <1>3 DEF Wizard!SelectMethod
  <2>2. QED
    BY <1>1, <1>3, <2>1, ChangeKeeps DEF Wizard!SelectMethod, Wizard!User, WizardTypeOK
<1>4. CASE Wizard!EditHost
  <2>1. PICK h \in Hosts : host' = h /\ Wizard!ConnectionChanged(method)
    BY <1>4 DEF Wizard!EditHost
  <2>2. method' = method /\ method \in Wizard!Methods
    BY <1>1, <1>4 DEF Wizard!EditHost, WizardTypeOK
  <2>3. QED
    BY <1>4, <2>1, <2>2, ChangeKeeps DEF Wizard!EditHost, Wizard!User
<1>5. CASE Wizard!Connect
  <2>1. /\ shown /\ install = Wizard!NoInstallation /\ dialog = Wizard!None /\ ~Wizard!Connecting
        /\ UNCHANGED <<method, host, connection, lister, dialog, install, shown>> /\ UNCHANGED <<owner, wopen, hurried>>
        /\ worker' = [at |-> "close", local |-> Wizard!Local(method), host |-> host, previous |-> connection,
                      connection |-> Wizard!None, lists |-> FALSE]
    BY <1>5 DEF Wizard!Connect, Wizard!User, Wizard!view
  <2>2. Wizard!Made' = Wizard!Made /\ MaybeMade' = MaybeMade
    BY <2>1 DEF Wizard!Made, MaybeMade
  <2>3. worker' \in Workers'
    <3>1. host \in Hosts \cup {Wizard!This} /\ connection \in MaybeMade' /\ Wizard!None \in MaybeMade'
      BY <1>1, <2>2 DEF WizardTypeOK, MaybeMade
    <3>2. Wizard!Local(method) \in BOOLEAN
      BY DEF Wizard!Local
    <3>3. QED
      BY <2>1, <3>1, <3>2 DEF Workers
  <2>4. WizardTypeOK'
    BY <1>1, <2>1, <2>2, <2>3 DEF WizardTypeOK
  <2>5. WizardOwns'
    BY <1>1, <2>1 DEF WizardOwns, WorkersOwn, Wizard!Connecting
  <2>6. QED
    BY <2>4, <2>5 DEF WizardInv
<1>6. CASE Wizard!WorkerCloses
  <2>1. /\ Wizard!Connecting /\ wopen \subseteq {worker.previous}
        /\ UNCHANGED <<owner, method, host, connection, lister, dialog, install, shown, hurried>>
        /\ Wizard!Made' = Wizard!Made
        /\ worker' = [worker EXCEPT !.at = IF Wizard!Reused THEN "list" ELSE "connect",
                                    !.connection = IF Wizard!Reused THEN worker.previous ELSE Wizard!None]
        /\ wopen' = IF Wizard!Reused THEN wopen ELSE wopen \ {worker.previous}
    BY <1>1, <1>6 DEF Wizard!WorkerCloses, Wizard!Connecting, WizardOwns, WorkersOwn, Wizard!view, Wizard!Made
  <2>2. /\ worker' \in Workers' /\ worker'.at = (IF Wizard!Reused THEN "list" ELSE "connect")
        /\ worker'.connection = IF Wizard!Reused THEN worker.previous ELSE Wizard!None
    BY <1>1, <2>1 DEF WizardTypeOK, Workers, MaybeMade
  <2>3. wopen' \subseteq WorkersOwn' /\ wopen' \subseteq Wizard!Made'
    <3>1. wopen \subseteq Wizard!Made
      BY <1>1 DEF WizardTypeOK
    <3>2. CASE Wizard!Reused
      BY <2>1, <2>2, <3>1, <3>2 DEF WorkersOwn
    <3>3. CASE ~Wizard!Reused
      BY <2>1, <3>1, <3>3
    <3>4. QED
      BY <3>2, <3>3
  <2>4. QED
    BY <2>1, <2>2, <2>3, WorkerKeeps
<1>7. CASE Wizard!ConnectSSH \/ Wizard!ConnectLocalDisk
  BY <1>7, OpensKeeps DEF Wizard!ConnectSSH, Wizard!ConnectLocalDisk
<1>8. CASE Wizard!Load \/ Wizard!LoadLocal
  BY <1>8, ListsKeeps DEF Wizard!Load, Wizard!LoadLocal
<1>9. CASE Wizard!Done
  <2> DEFINE shows == IF worker.lists THEN worker.connection ELSE Wizard!None
  <2>1. /\ worker.at = "done" /\ worker' = Wizard!Idle /\ UNCHANGED <<method, host, dialog, install, shown, owner>>
        /\ \/ wopen' = wopen \ {worker.connection} /\ UNCHANGED <<connection, lister>>
           \/ connection' = shows /\ lister' = shows /\ UNCHANGED wopen
    BY <1>9 DEF Wizard!Done
  <2>2. wopen \subseteq (IF worker.lists THEN {worker.connection} ELSE {}) /\ Wizard!Connecting /\ hurried' = hurried
    BY <1>1, <1>9, <2>1 DEF WizardOwns, WorkersOwn, Wizard!Connecting, Wizard!Done
  <2>3. Wizard!Made' = Wizard!Made /\ MaybeMade' = MaybeMade /\ shows \in MaybeMade
    BY <1>1, <2>1 DEF Wizard!Made, MaybeMade, WizardTypeOK, Workers
  <2>4. WizardTypeOK'
    <3>1. worker' \in Workers'
      BY <2>1 DEF Workers, Wizard!Idle, MaybeMade
    <3>2. QED
      BY <1>1, <2>1, <2>2, <2>3, <3>1 DEF WizardTypeOK
  <2>5. WizardOwns'
    <3>1. ~Wizard!Connecting'
      BY <2>1 DEF Wizard!Connecting, Wizard!Idle
    <3>2. wopen' \subseteq {connection'} /\ (shown' => lister' = connection')
      BY <1>1, <2>1, <2>2 DEF WizardOwns
    <3>3. "go on" \notin hurried => dialog = Wizard!None /\ install = Wizard!NoInstallation
      BY <1>1, <2>2 DEF WizardOwns
    <3>4. hurried = {} => shown /\ install = Wizard!NoInstallation
      BY <1>1, <2>2 DEF WizardOwns
    <3>5. dialog # Wizard!None => shown /\ install = Wizard!NoInstallation
      BY <1>1 DEF WizardOwns
    <3>6. QED
      BY <2>1, <2>2, <3>1, <3>2, <3>3, <3>4, <3>5 DEF WizardOwns
  <2>6. QED
    BY <2>4, <2>5 DEF WizardInv
<1>10. CASE Wizard!SelectDisk
  BY <1>10, WizardStays DEF Wizard!SelectDisk
<1>11. CASE Wizard!Begin
  <2>1. /\ UNCHANGED <<method, host, connection, lister, install, shown, worker, owner, wopen>> /\ dialog' = lister
        /\ shown /\ install = Wizard!NoInstallation
        /\ hurried' = IF Wizard!Connecting THEN hurried \cup {"go on"} ELSE hurried
    BY <1>11 DEF Wizard!Begin, Wizard!User, Wizard!Hurries
  <2>2. WizardTypeOK'
    BY <1>1, <2>1 DEF WizardTypeOK, Wizard!Made, MaybeMade, Workers
  <2>3. WizardOwns'
    <3>1. Wizard!Connecting' = Wizard!Connecting /\ WorkersOwn' = WorkersOwn
      BY <2>1 DEF Wizard!Connecting, WorkersOwn
    <3>2. "go on" \notin hurried' => ~Wizard!Connecting
      BY <2>1
    <3>3. hurried' = {} => hurried = {}
      BY <2>1
    <3>4. QED
      BY <1>1, <2>1, <3>1, <3>2, <3>3 DEF WizardOwns
  <2>4. QED
    BY <2>2, <2>3 DEF WizardInv
<1>12. CASE Wizard!Respond
  <2>1. /\ UNCHANGED <<method, host, connection, lister, shown, worker, owner, wopen, hurried>>
        /\ dialog # Wizard!None /\ dialog' = Wizard!None
        /\ \/ UNCHANGED install
           \/ install' = [connection |-> connection, plan |-> dialog]
    BY <1>12 DEF Wizard!Respond
  <2>2. WizardTypeOK'
    BY <1>1, <2>1 DEF WizardTypeOK, Wizard!Made, MaybeMade, Workers
  <2>3. /\ shown /\ lister = connection /\ install = Wizard!NoInstallation
        /\ "go on" \notin hurried => ~Wizard!Connecting /\ dialog = connection
    BY <1>1, <2>1 DEF WizardOwns
  <2>4. install' # Wizard!NoInstallation => install'.plan = dialog /\ install'.connection = connection
    <3>1. install' \in {Wizard!NoInstallation, [connection |-> connection, plan |-> dialog]}
      BY <2>1, <2>3
    <3>2. QED
      BY <3>1
  <2>5. WizardOwns'
    <3>1. Wizard!Connecting' = Wizard!Connecting /\ WorkersOwn' = WorkersOwn
      BY <2>1 DEF Wizard!Connecting, WorkersOwn
    <3>2. "go on" \notin hurried /\ install' # Wizard!NoInstallation =>
            ~Wizard!Connecting /\ install'.plan = install'.connection
      BY <2>3, <2>4
    <3>3. hurried = {} /\ Wizard!Connecting => install' = Wizard!NoInstallation
      BY <2>3, <3>2
    <3>4. QED
      BY <1>1, <2>1, <2>3, <2>4, <3>1, <3>2, <3>3 DEF WizardOwns
  <2>6. QED
    BY <2>2, <2>5 DEF WizardInv
<1>13. CASE Wizard!Leave
  <2>1. /\ UNCHANGED <<method, host, lister, install, worker, owner>> /\ dialog' = Wizard!None /\ shown /\ shown' = FALSE
        /\ hurried' = (IF Wizard!Connecting THEN hurried \cup {"leave"} ELSE hurried)
        /\ IF install = Wizard!NoInstallation THEN wopen' = wopen \ {connection} /\ connection' = Wizard!None
           ELSE UNCHANGED <<wopen, connection>>
    BY <1>13 DEF Wizard!Leave, Wizard!Hurries
  <2>2. WizardTypeOK'
    BY <1>1, <2>1 DEF WizardTypeOK, Wizard!Made, MaybeMade, Workers
  <2>3. WizardOwns'
    <3>1. Wizard!Connecting' = Wizard!Connecting /\ WorkersOwn' = WorkersOwn
      BY <2>1 DEF Wizard!Connecting, WorkersOwn
    <3>2. wopen' \subseteq IF Wizard!Connecting' THEN WorkersOwn' ELSE {connection'}
      BY <1>1, <2>1, <3>1 DEF WizardOwns
    <3>3. "go on" \notin hurried' => "go on" \notin hurried
      BY <2>1
    <3>4. hurried' = {} => hurried = {} /\ ~Wizard!Connecting
      BY <2>1
    <3>5. hurried' = {} /\ install = Wizard!NoInstallation => wopen' = {}
      BY <1>1, <2>1, <3>4 DEF WizardOwns
    <3>6. hurried' = {} /\ install # Wizard!NoInstallation => install.connection = connection'
      BY <1>1, <2>1, <3>4 DEF WizardOwns
    <3>7. "go on" \notin hurried /\ install # Wizard!NoInstallation =>
            ~Wizard!Connecting /\ install.plan = install.connection
      BY <1>1 DEF WizardOwns
    <3>8. QED
      BY <2>1, <3>1, <3>2, <3>3, <3>4, <3>5, <3>6, <3>7 DEF WizardOwns
  <2>4. QED
    BY <2>2, <2>3 DEF WizardInv
<1>14. QED
  BY <1>3, <1>4, <1>5, <1>6, <1>7, <1>8, <1>9, <1>10, <1>11, <1>12, <1>13 DEF Wizard!Next

LEMMA WizardStutter == ASSUME WizardInv, UNCHANGED wizardVars PROVE WizardInv'
BY WizardStays DEF wizardVars

LEMMA OwnedOfInvariant == WizardInv => ConnectionsOwned
<1>1. SUFFICES ASSUME WizardTypeOK, WizardOwns PROVE ConnectionsOwned
  BY DEF WizardInv
<1>2. Wizard!TypeOK
  BY <1>1 DEF Wizard!TypeOK, WizardTypeOK, Workers, MaybeMade
<1>3. Wizard!ConnectionsOwned
  <2>1. CASE Wizard!Connecting
    BY <1>1, <2>1 DEF WizardOwns, WorkersOwn, Wizard!ConnectionsOwned
  <2>2. CASE ~Wizard!Connecting
    BY <1>1, <2>2 DEF WizardOwns, Wizard!ConnectionsOwned
  <2>3. QED
    BY <2>1, <2>2
<1>4. Wizard!ErasesNamed
  BY <1>1 DEF WizardOwns, Wizard!ErasesNamed
<1>5. QED
  BY <1>2, <1>3, <1>4 DEF ConnectionsOwned

LEMMA WizardOfSpec == AllSpec => Wizard!Init /\ [][Wizard!Next]_wizardVars
<1>1. AllInit => Wizard!Init
  BY DEF AllInit, MCInit
<1>2. [AllNext]_<<mcvars, toolVars, snapshotVars>> => [Wizard!Next]_wizardVars
  BY DEF AllNext, MCNext, mcvars
<1>3. QED
  BY <1>1, <1>2, PTL DEF AllSpec

\* Whatever the user does while the worker of "Connect" or "Find disks"
\* connects, one connection at most is left open that nobody has, and only
\* after the user went on or left meanwhile; and an installation goes to the
\* machine that the dialog named, unless the user went on meanwhile: then it
\* may go to the machine that was connected after the dialog had been shown.
THEOREM ConnectionsAreOwned == AllSpec => []ConnectionsOwned
<1>1. WizardInv /\ [Wizard!Next]_wizardVars => WizardInv'
  BY WizardStep, WizardStutter
<1>2. QED
  BY <1>1, WizardInit, WizardOfSpec, OwnedOfInvariant, PTL

-----------------------------------------------------------------------------
(* The stages of a deployment and what they do, in order.                  *)

Rank(s) ==
  CASE s = "PrepareRunner" -> 1 [] s \in {"CreateImage", "Check", "Prepare"} -> 2
    [] s \in {"Partition", "ReadIso"} -> 3 [] s \in {"Format", "Firmware"} -> 4
    [] s \in {"Mount", "BootPartition"} -> 5 [] s \in {"Extract", "LiveSystem"} -> 6
    [] s \in {"Configure", "WriteIso"} -> 7 [] s \in {"Repository", "WriteDisk", "SaveIso"} -> 8
    [] s = "Packages" -> 9 [] s = "Network" -> 10 [] s = "Bootloader" -> 11 [] s = "GrowRoot" -> 12
    [] s = "Finish" -> 13 [] s = "Shrink" -> 14 [] s = "Compress" -> 15 [] s = "SaveImage" -> 16
    [] OTHER -> 17

OnlySet(s, present) == {x \in {s} : present}
ExtraSet(s, c) == OnlySet(s, s \in c.extras)

RpiNames == {"ReadIso", "Firmware", "BootPartition"}
LiveNames(c) ==
  OnlySet("Prepare", Run!Modified(c)) \cup {x \in RpiNames : c.rpi} \cup OnlySet("LiveSystem", c.system)
    \cup OnlySet("WriteIso", Run!Modified(c)) \cup {IF c.target = "disk" THEN "WriteDisk" ELSE "SaveIso"}
FirstNames(c) == {IF Run!Image(c) THEN "CreateImage" ELSE "Check", "Partition", "Format", "Mount", "Extract", "Configure"}
InstallNames(c) ==
  FirstNames(c) \cup ExtraSet("Repository", c) \cup ExtraSet("Packages", c) \cup ExtraSet("Network", c)
    \cup ExtraSet("Bootloader", c) \cup OnlySet("GrowRoot", Run!Image(c)) \cup {"Finish"}
    \cup OnlySet("Shrink", Run!Image(c)) \cup OnlySet("Compress", Run!Image(c) /\ c.compress)
    \cup OnlySet("SaveImage", Run!Image(c))
Names(c) ==
  OnlySet("PrepareRunner", c.runner) \cup (IF Run!Live(c) THEN LiveNames(c) ELSE InstallNames(c))
    \cup OnlySet("StopRunner", c.runner)

\* The sequence s has the names S, in the order of their ranks, which are
\* from lo to hi.
Rising(s, S, lo, hi) ==
  /\ s \in Seq(S)
  /\ \A i \in 1 .. Len(s) : lo <= Rank(s[i]) /\ Rank(s[i]) <= hi
  /\ \A i, j \in 1 .. Len(s) : i < j => Rank(s[i]) < Rank(s[j])
  /\ \A x \in S : \E i \in 1 .. Len(s) : s[i] = x

LEMMA RanksAreNat == ASSUME NEW x PROVE Rank(x) \in Nat
BY DEF Rank

LEMMA RisingJoin ==
  ASSUME NEW s, NEW u, NEW S, NEW U, NEW a \in Nat, NEW b \in Nat, NEW c \in Nat, NEW d \in Nat,
         Rising(s, S, a, b), Rising(u, U, c, d), a <= b, b < c, c <= d
  PROVE  Rising(s \o u, S \cup U, a, d)
<1>1. s \in Seq(S \cup U) /\ u \in Seq(S \cup U)
  <2>1. \A T : T \subseteq S \cup U => Seq(T) \subseteq Seq(S \cup U)
    OBVIOUS
  <2>2. QED
    BY <2>1 DEF Rising
<1>2. /\ s \o u \in Seq(S \cup U) /\ Len(s) \in Nat /\ Len(u) \in Nat /\ Len(s \o u) = Len(s) + Len(u)
      /\ \A i \in 1 .. Len(s) + Len(u) : (s \o u)[i] = IF i <= Len(s) THEN s[i] ELSE u[i - Len(s)]
  BY <1>1, ConcatProperties, LenProperties
<1> DEFINE w == s \o u
           m == Len(s)
           n == Len(u)
<1>3. /\ w \in Seq(S \cup U) /\ m \in Nat /\ n \in Nat /\ Len(w) = m + n
      /\ \A i \in 1 .. m + n : w[i] = IF i <= m THEN s[i] ELSE u[i - m]
  BY <1>2
<1>4. \A i \in 1 .. m + n : i \in 1 .. m \/ (i > m /\ i - m \in 1 .. n)
  BY <1>3
<1>5. /\ \A i \in 1 .. m : w[i] = s[i]
      /\ \A i \in 1 .. n : w[m + i] = u[i] /\ m + i \in 1 .. m + n
  <2>1. \A i \in 1 .. m : i \in 1 .. m + n /\ i <= m
    BY <1>3
  <2>2. \A i \in 1 .. n : m + i \in 1 .. m + n /\ ~(m + i <= m) /\ (m + i) - m = i
    BY <1>3
  <2>3. QED
    BY <1>3, <2>1, <2>2
<1>6. /\ \A i \in 1 .. m : Rank(s[i]) \in Nat /\ a <= Rank(s[i]) /\ Rank(s[i]) <= b
      /\ \A i \in 1 .. n : Rank(u[i]) \in Nat /\ c <= Rank(u[i]) /\ Rank(u[i]) <= d
      /\ \A i, j \in 1 .. m : i < j => Rank(s[i]) < Rank(s[j])
      /\ \A i, j \in 1 .. n : i < j => Rank(u[i]) < Rank(u[j])
      /\ \A x \in S : \E i \in 1 .. m : s[i] = x
      /\ \A x \in U : \E i \in 1 .. n : u[i] = x
  BY RanksAreNat DEF Rising
<1> HIDE DEF w, m, n
<1>7. \A i \in 1 .. m + n : a <= Rank(w[i]) /\ Rank(w[i]) <= d
  <2>1. SUFFICES ASSUME NEW i \in 1 .. m + n PROVE a <= Rank(w[i]) /\ Rank(w[i]) <= d
    OBVIOUS
  <2>2. CASE i \in 1 .. m
    BY <2>2, <1>5, <1>6
  <2>3. CASE i > m /\ i - m \in 1 .. n
    <3>1. w[i] = u[i - m]
      BY <2>3, <1>3
    <3>2. QED
      BY <2>3, <3>1, <1>6
  <2>4. QED
    BY <2>2, <2>3, <1>4
<1>8. \A i, j \in 1 .. m + n : i < j => Rank(w[i]) < Rank(w[j])
  <2>1. SUFFICES ASSUME NEW i \in 1 .. m + n, NEW j \in 1 .. m + n, i < j PROVE Rank(w[i]) < Rank(w[j])
    OBVIOUS
  <2>2. CASE j \in 1 .. m
    <3>1. i \in 1 .. m
      BY <2>1, <2>2, <1>3
    <3>2. QED
      BY <2>1, <2>2, <3>1, <1>5, <1>6
  <2>3. CASE i \in 1 .. m /\ j > m /\ j - m \in 1 .. n
    <3>1. w[i] = s[i] /\ w[j] = u[j - m]
      BY <2>3, <1>3, <1>5
    <3>2. QED
      BY <2>3, <3>1, <1>6
  <2>4. CASE i > m /\ i - m \in 1 .. n /\ j > m /\ j - m \in 1 .. n
    <3>1. w[i] = u[i - m] /\ w[j] = u[j - m] /\ i - m < j - m
      BY <2>1, <2>4, <1>3
    <3>2. QED
      BY <2>4, <3>1, <1>6
  <2>5. QED
    <3>1. j > m \/ j \in 1 .. m
      BY <1>4
    <3>2. j - m \in 1 .. n \/ j \in 1 .. m
      BY <1>4
    <3>3. i \in 1 .. m \/ (i > m /\ i - m \in 1 .. n)
      BY <1>4
    <3>4. i > m => j > m
      BY <2>1, <1>3
    <3>5. QED
      BY <2>2, <2>3, <2>4, <1>4, <3>3, <3>4
<1>9. \A x \in S \cup U : \E i \in 1 .. m + n : w[i] = x
  <2>1. ASSUME NEW x \in S PROVE \E i \in 1 .. m + n : w[i] = x
    <3>1. PICK i \in 1 .. m : s[i] = x
      BY <1>6
    <3>2. i \in 1 .. m + n
      BY <1>3
    <3>3. QED
      BY <3>1, <3>2, <1>5
  <2>2. ASSUME NEW x \in U PROVE \E i \in 1 .. m + n : w[i] = x
    <3>1. PICK i \in 1 .. n : u[i] = x
      BY <1>6
    <3>2. QED
      BY <3>1, <1>5
  <2>3. QED
    BY <2>1, <2>2
<1>10. QED
  BY <1>3, <1>7, <1>8, <1>9 DEF Rising, w

LEMMA RisingOnly ==
  ASSUME NEW s, NEW p \in BOOLEAN
  PROVE  Rising(Run!Only(s, p), OnlySet(s, p), Rank(s), Rank(s))
<1>1. Rank(s) \in Nat
  BY RanksAreNat
<1>2. CASE p
  BY <1>1, <1>2 DEF Run!Only, OnlySet, Rising
<1>3. CASE ~p
  BY <1>3 DEF Run!Only, OnlySet, Rising
<1>4. QED
  BY <1>2, <1>3

LEMMA RisingTuples ==
  ASSUME NEW c \in Run!ConfigType
  PROVE  /\ Rising(IF c.rpi THEN <<"ReadIso", "Firmware", "BootPartition">> ELSE <<>>, {x \in RpiNames : c.rpi}, 3, 5)
         /\ Rising(<<IF c.target = "disk" THEN "WriteDisk" ELSE "SaveIso">>,
                   {IF c.target = "disk" THEN "WriteDisk" ELSE "SaveIso"}, 8, 8)
         /\ Rising(<<IF Run!Image(c) THEN "CreateImage" ELSE "Check", "Partition", "Format", "Mount", "Extract",
                     "Configure">>, FirstNames(c), 2, 7)
         /\ Rising(<<"Finish">>, {"Finish"}, 13, 13)
<1>1. Rising(IF c.rpi THEN <<"ReadIso", "Firmware", "BootPartition">> ELSE <<>>, {x \in RpiNames : c.rpi}, 3, 5)
  <2>1. CASE c.rpi
    <3>1. Rising(<<"ReadIso", "Firmware", "BootPartition">>, RpiNames, 3, 5)
      BY DEF Rising, RpiNames, Rank
    <3>2. QED
      BY <2>1, <3>1
  <2>2. CASE ~c.rpi
    BY <2>2 DEF Rising
  <2>3. QED
    BY <2>1, <2>2
<1>2. Rising(<<IF c.target = "disk" THEN "WriteDisk" ELSE "SaveIso">>,
             {IF c.target = "disk" THEN "WriteDisk" ELSE "SaveIso"}, 8, 8)
  BY DEF Rising, Rank
<1>3. Rising(<<IF Run!Image(c) THEN "CreateImage" ELSE "Check", "Partition", "Format", "Mount", "Extract",
               "Configure">>, FirstNames(c), 2, 7)
  <2> DEFINE x == IF Run!Image(c) THEN "CreateImage" ELSE "Check"
  <2>1. Rank(x) = 2 /\ Rank("Partition") = 3 /\ Rank("Format") = 4 /\ Rank("Mount") = 5 /\ Rank("Extract") = 6
        /\ Rank("Configure") = 7
    BY DEF Rank
  <2>2. FirstNames(c) = {x, "Partition", "Format", "Mount", "Extract", "Configure"}
    BY DEF FirstNames
  <2> HIDE DEF x
  <2>3. Rising(<<x, "Partition", "Format", "Mount", "Extract", "Configure">>,
               {x, "Partition", "Format", "Mount", "Extract", "Configure"}, 2, 7)
    BY <2>1 DEF Rising
  <2>4. QED
    BY <2>2, <2>3 DEF x
<1>4. Rising(<<"Finish">>, {"Finish"}, 13, 13)
  <2>1. Rank("Finish") = 13
    BY DEF Rank
  <2>2. QED
    BY <2>1 DEF Rising
<1>5. QED
  BY <1>1, <1>2, <1>3, <1>4

LEMMA LiveRising ==
  ASSUME NEW c \in Run!ConfigType
  PROVE  Rising(Run!Only("Prepare", Run!Modified(c))
                  \o (IF c.rpi THEN <<"ReadIso", "Firmware", "BootPartition">> ELSE <<>>)
                  \o Run!Only("LiveSystem", c.system) \o Run!Only("WriteIso", Run!Modified(c))
                  \o <<IF c.target = "disk" THEN "WriteDisk" ELSE "SaveIso">>, LiveNames(c), 2, 8)
<1> DEFINE p1 == Run!Only("Prepare", Run!Modified(c))
           p2 == p1 \o (IF c.rpi THEN <<"ReadIso", "Firmware", "BootPartition">> ELSE <<>>)
           p3 == p2 \o Run!Only("LiveSystem", c.system)
           p4 == p3 \o Run!Only("WriteIso", Run!Modified(c))
           p5 == p4 \o <<IF c.target = "disk" THEN "WriteDisk" ELSE "SaveIso">>
           s1 == OnlySet("Prepare", Run!Modified(c))
           s2 == s1 \cup {x \in RpiNames : c.rpi}
           s3 == s2 \cup OnlySet("LiveSystem", c.system)
           s4 == s3 \cup OnlySet("WriteIso", Run!Modified(c))
           s5 == s4 \cup {IF c.target = "disk" THEN "WriteDisk" ELSE "SaveIso"}
<1>1. /\ Rank("Prepare") = 2 /\ Rank("LiveSystem") = 6 /\ Rank("WriteIso") = 7
      /\ Run!Modified(c) \in BOOLEAN /\ c.system \in BOOLEAN
  BY DEF Rank, Run!Modified, Run!ConfigType
<1>2. Rising(p1, s1, 2, 2)
  BY <1>1, RisingOnly
<1>3. Rising(p2, s2, 2, 5)
  <2> DEFINE q == IF c.rpi THEN <<"ReadIso", "Firmware", "BootPartition">> ELSE <<>>
             r == {x \in RpiNames : c.rpi}
  <2>1. Rising(q, r, 3, 5)
    BY RisingTuples
  <2>2. p2 = p1 \o q /\ s2 = s1 \cup r
    OBVIOUS
  <2> HIDE DEF p1, s1, q, r, p2, s2
  <2>3. Rising(p1 \o q, s1 \cup r, 2, 5)
    BY <1>2, <2>1, RisingJoin
  <2>4. QED
    BY <2>2, <2>3
<1>4. Rising(p3, s3, 2, 6)
  <2> HIDE DEF p2, s2
  <2>1. Rising(Run!Only("LiveSystem", c.system), OnlySet("LiveSystem", c.system), 6, 6)
    BY <1>1, RisingOnly
  <2>2. QED
    BY <1>3, <2>1, RisingJoin
<1>5. Rising(p4, s4, 2, 7)
  <2> HIDE DEF p3, s3
  <2>1. Rising(Run!Only("WriteIso", Run!Modified(c)), OnlySet("WriteIso", Run!Modified(c)), 7, 7)
    BY <1>1, RisingOnly
  <2>2. QED
    BY <1>4, <2>1, RisingJoin
<1>6. Rising(p5, s5, 2, 8)
  <2> DEFINE x == IF c.target = "disk" THEN "WriteDisk" ELSE "SaveIso"
  <2>1. Rising(<<x>>, {x}, 8, 8)
    BY RisingTuples
  <2>2. p5 = p4 \o <<x>> /\ s5 = s4 \cup {x}
    OBVIOUS
  <2> HIDE DEF p4, s4, x, p5, s5
  <2>3. Rising(p4 \o <<x>>, s4 \cup {x}, 2, 8)
    BY <1>5, <2>1, RisingJoin
  <2>4. QED
    BY <2>2, <2>3
<1>7. QED
  BY <1>6 DEF LiveNames

LEMMA InstallRising ==
  ASSUME NEW c \in Run!ConfigType
  PROVE  Rising(<<IF Run!Image(c) THEN "CreateImage" ELSE "Check", "Partition", "Format", "Mount", "Extract",
                  "Configure">>
                  \o Run!Extra("Repository", c) \o Run!Extra("Packages", c) \o Run!Extra("Network", c)
                  \o Run!Extra("Bootloader", c) \o Run!Only("GrowRoot", Run!Image(c)) \o <<"Finish">>
                  \o Run!Only("Shrink", Run!Image(c)) \o Run!Only("Compress", Run!Image(c) /\ c.compress)
                  \o Run!Only("SaveImage", Run!Image(c)), InstallNames(c), 2, 16)
<1> DEFINE p0 == <<IF Run!Image(c) THEN "CreateImage" ELSE "Check", "Partition", "Format", "Mount", "Extract",
                   "Configure">>
           p1 == p0 \o Run!Extra("Repository", c)
           p2 == p1 \o Run!Extra("Packages", c)
           p3 == p2 \o Run!Extra("Network", c)
           p4 == p3 \o Run!Extra("Bootloader", c)
           p5 == p4 \o Run!Only("GrowRoot", Run!Image(c))
           p6 == p5 \o <<"Finish">>
           p7 == p6 \o Run!Only("Shrink", Run!Image(c))
           p8 == p7 \o Run!Only("Compress", Run!Image(c) /\ c.compress)
           p9 == p8 \o Run!Only("SaveImage", Run!Image(c))
           s1 == FirstNames(c) \cup ExtraSet("Repository", c)
           s2 == s1 \cup ExtraSet("Packages", c)
           s3 == s2 \cup ExtraSet("Network", c)
           s4 == s3 \cup ExtraSet("Bootloader", c)
           s5 == s4 \cup OnlySet("GrowRoot", Run!Image(c))
           s6 == s5 \cup {"Finish"}
           s7 == s6 \cup OnlySet("Shrink", Run!Image(c))
           s8 == s7 \cup OnlySet("Compress", Run!Image(c) /\ c.compress)
           s9 == s8 \cup OnlySet("SaveImage", Run!Image(c))
<1>1. /\ Rank("Repository") = 8 /\ Rank("Packages") = 9 /\ Rank("Network") = 10 /\ Rank("Bootloader") = 11
      /\ Rank("GrowRoot") = 12 /\ Rank("Shrink") = 14 /\ Rank("Compress") = 15 /\ Rank("SaveImage") = 16
  BY DEF Rank
<1>2. ASSUME NEW s PROVE Rising(Run!Extra(s, c), ExtraSet(s, c), Rank(s), Rank(s))
  <2>1. (s \in c.extras) \in BOOLEAN
    OBVIOUS
  <2>2. Rising(Run!Only(s, s \in c.extras), OnlySet(s, s \in c.extras), Rank(s), Rank(s))
    BY <2>1, RisingOnly
  <2>3. QED
    BY <2>2 DEF Run!Extra, ExtraSet
<1>3. /\ Rising(Run!Only("GrowRoot", Run!Image(c)), OnlySet("GrowRoot", Run!Image(c)), 12, 12)
      /\ Rising(Run!Only("Shrink", Run!Image(c)), OnlySet("Shrink", Run!Image(c)), 14, 14)
      /\ Rising(Run!Only("SaveImage", Run!Image(c)), OnlySet("SaveImage", Run!Image(c)), 16, 16)
  <2>1. Run!Image(c) \in BOOLEAN
    BY DEF Run!Image
  <2>2. QED
    BY <1>1, <2>1, RisingOnly
<1>4. Rising(Run!Only("Compress", Run!Image(c) /\ c.compress), OnlySet("Compress", Run!Image(c) /\ c.compress), 15, 15)
  BY <1>1, RisingOnly
<1>5. Rising(p1, s1, 2, 8)
  <2>1. Rising(p0, FirstNames(c), 2, 7)
    BY RisingTuples
  <2>2. Rising(Run!Extra("Repository", c), ExtraSet("Repository", c), 8, 8)
    BY <1>1, <1>2
  <2> HIDE DEF p0
  <2>3. QED
    BY <2>1, <2>2, RisingJoin
<1>6. Rising(p2, s2, 2, 9)
  <2>1. Rising(Run!Extra("Packages", c), ExtraSet("Packages", c), 9, 9)
    BY <1>1, <1>2
  <2> HIDE DEF p1, s1
  <2>2. QED
    BY <1>5, <2>1, RisingJoin
<1>7. Rising(p3, s3, 2, 10)
  <2>1. Rising(Run!Extra("Network", c), ExtraSet("Network", c), 10, 10)
    BY <1>1, <1>2
  <2> HIDE DEF p2, s2
  <2>2. QED
    BY <1>6, <2>1, RisingJoin
<1>8. Rising(p4, s4, 2, 11)
  <2>1. Rising(Run!Extra("Bootloader", c), ExtraSet("Bootloader", c), 11, 11)
    BY <1>1, <1>2
  <2> HIDE DEF p3, s3
  <2>2. QED
    BY <1>7, <2>1, RisingJoin
<1>9. Rising(p5, s5, 2, 12)
  <2> HIDE DEF p4, s4
  <2>1. QED
    BY <1>8, <1>3, RisingJoin
<1>10. Rising(p6, s6, 2, 13)
  <2>1. Rising(<<"Finish">>, {"Finish"}, 13, 13)
    BY RisingTuples
  <2> HIDE DEF p5, s5
  <2>2. QED
    BY <1>9, <2>1, RisingJoin
<1>11. Rising(p7, s7, 2, 14)
  <2> HIDE DEF p6, s6
  <2>1. QED
    BY <1>10, <1>3, RisingJoin
<1>12. Rising(p8, s8, 2, 15)
  <2> HIDE DEF p7, s7
  <2>1. QED
    BY <1>11, <1>4, RisingJoin
<1>13. Rising(p9, s9, 2, 16)
  <2> HIDE DEF p8, s8
  <2>1. QED
    BY <1>12, <1>3, RisingJoin
<1>14. QED
  BY <1>13 DEF InstallNames

LEMMA StagesRising ==
  ASSUME NEW c \in Run!ConfigType
  PROVE  Rising(Run!Stages(c), Names(c), 1, 17)
<1> DEFINE middle == IF Run!Live(c)
             THEN Run!Only("Prepare", Run!Modified(c))
                  \o (IF c.rpi THEN <<"ReadIso", "Firmware", "BootPartition">> ELSE <<>>)
                  \o Run!Only("LiveSystem", c.system) \o Run!Only("WriteIso", Run!Modified(c))
                  \o <<IF c.target = "disk" THEN "WriteDisk" ELSE "SaveIso">>
             ELSE <<IF Run!Image(c) THEN "CreateImage" ELSE "Check", "Partition", "Format", "Mount", "Extract",
                    "Configure">>
                  \o Run!Extra("Repository", c) \o Run!Extra("Packages", c) \o Run!Extra("Network", c)
                  \o Run!Extra("Bootloader", c) \o Run!Only("GrowRoot", Run!Image(c)) \o <<"Finish">>
                  \o Run!Only("Shrink", Run!Image(c)) \o Run!Only("Compress", Run!Image(c) /\ c.compress)
                  \o Run!Only("SaveImage", Run!Image(c))
           inner == IF Run!Live(c) THEN LiveNames(c) ELSE InstallNames(c)
<1>1. Run!Stages(c) = Run!Only("PrepareRunner", c.runner) \o middle \o Run!Only("StopRunner", c.runner)
  BY DEF Run!Stages
<1>2. Rising(middle, inner, 2, 16)
  <2>1. CASE Run!Live(c)
    <3>1. Rising(middle, inner, 2, 8)
      BY <2>1, LiveRising
    <3> HIDE DEF middle, inner
    <3>2. \A x \in Nat : x <= 8 => x <= 16
      OBVIOUS
    <3>3. QED
      BY <3>1, <3>2, RanksAreNat DEF Rising
  <2>2. CASE ~Run!Live(c)
    BY <2>2, InstallRising
  <2>3. QED
    BY <2>1, <2>2
<1>3. c.runner \in BOOLEAN /\ Rank("PrepareRunner") = 1 /\ Rank("StopRunner") = 17
  BY DEF Run!ConfigType, Rank
<1>4. /\ Rising(Run!Only("PrepareRunner", c.runner), OnlySet("PrepareRunner", c.runner), 1, 1)
      /\ Rising(Run!Only("StopRunner", c.runner), OnlySet("StopRunner", c.runner), 17, 17)
  BY <1>3, RisingOnly
<1>5. Names(c) = OnlySet("PrepareRunner", c.runner) \cup inner \cup OnlySet("StopRunner", c.runner)
  BY DEF Names
<1> HIDE DEF middle, inner
<1>6. Rising(Run!Only("PrepareRunner", c.runner) \o middle, OnlySet("PrepareRunner", c.runner) \cup inner, 1, 16)
  BY <1>2, <1>4, RisingJoin
<1> DEFINE front == Run!Only("PrepareRunner", c.runner) \o middle
           frontSet == OnlySet("PrepareRunner", c.runner) \cup inner
<1>7. Rising(front, frontSet, 1, 16)
  BY <1>6
<1>8. Run!Stages(c) = front \o Run!Only("StopRunner", c.runner)
      /\ Names(c) = frontSet \cup OnlySet("StopRunner", c.runner)
  BY <1>1, <1>5
<1> HIDE DEF front, frontSet
<1>9. QED
  BY <1>4, <1>7, <1>8, RisingJoin

\* Operations that change nothing of what is told of here.
Harmless == {"script", "alive", "disk", "tools", "clock", "extract", "sync", "fstab", "configure", "download", "cache",
             "copyBoot", "wipe", "connect", "connectTools", "release"}
Saves == {"SaveImage", "SaveIso"}

\* What operation n of stage s can be.
Does(s, n, op, len) ==
  /\ op = "prepare" => s = "PrepareRunner" /\ n = 1
  /\ op = "create" => s = "CreateImage"
  /\ op = "mark" => s = "Mount" /\ n = 1
  /\ op = "mount" => s = "Mount" /\ n = 2
  /\ op = "umount" => s = "Finish" /\ n = 1
  /\ op = "unmark" => s = "Finish" /\ n = 2
  /\ op = "shrink" => s = "Shrink" /\ n = 1
  /\ op = "compress" => s = "Compress" /\ n = 1
  /\ op \in {"makeFolder", "workspace"} => s = "Prepare"
  /\ op = "unpack" => s = "LiveSystem"
  /\ op \in {"writeIso", "renameIso"} => s = "WriteIso"
  /\ op = "dd" => s = "WriteDisk" /\ n = 3
  /\ op = "replace" => s \in Saves /\ n = 1 /\ len = 1
  /\ op = "copy" => s \in Saves /\ n = 1 /\ len >= 2
  /\ op = "rename" => s \in Saves /\ n = 2
  /\ op = "removeSource" => s = "SaveImage" /\ n = 3

AllNames ==
  {"PrepareRunner", "StopRunner", "CreateImage", "Check", "Partition", "Format", "Mount", "Extract", "Configure", "Repository",
   "Packages", "Network", "Bootloader", "GrowRoot", "Finish", "Shrink", "Compress", "SaveImage", "Prepare", "ReadIso", "Firmware",
   "BootPartition", "LiveSystem", "WriteIso", "WriteDisk", "SaveIso"}

LEMMA NamesAreAll == ASSUME NEW c PROVE Names(c) \subseteq AllNames
BY DEF Names, LiveNames, InstallNames, FirstNames, RpiNames, OnlySet, ExtraSet, AllNames

LEMMA StepsOf ==
  ASSUME NEW c
  PROVE  /\ Run!Steps("Mount", c) = <<"mark", "mount">> /\ Run!Steps("Finish", c) = <<"umount", "unmark">>
         /\ Run!Steps("Shrink", c) = <<"shrink">> /\ Run!Steps("Compress", c) = <<"compress">>
         /\ Run!Steps("PrepareRunner", c) = <<"prepare">> /\ Run!Steps("LiveSystem", c) = <<"unpack">>
         /\ Run!Steps("CreateImage", c) = <<"connect", "tools", "create">>
         /\ Run!Steps("WriteIso", c) = <<"writeIso", "renameIso">>
         /\ Run!Steps("WriteDisk", c) = <<"alive", "wipe", "dd", "sync">>
         /\ Run!Steps("SaveImage", c) = Run!Moves(c, FALSE) /\ Run!Steps("SaveIso", c) = Run!Moves(c, TRUE)
<1>1. Run!Steps("Mount", c) = <<"mark", "mount">> /\ Run!Steps("Finish", c) = <<"umount", "unmark">>
  BY DEF Run!Steps, Run!MountSteps, Run!FinishSteps
<1>2. Run!Steps("Shrink", c) = <<"shrink">> /\ Run!Steps("Compress", c) = <<"compress">>
  BY DEF Run!Steps, Run!ShrinkSteps, Run!CompressSteps
<1>3. Run!Steps("PrepareRunner", c) = <<"prepare">> /\ Run!Steps("LiveSystem", c) = <<"unpack">>
  BY DEF Run!Steps, Run!PrepareRunnerSteps, Run!LiveSystemSteps
<1>4. /\ Run!Steps("CreateImage", c) = <<"connect", "tools", "create">>
      /\ Run!Steps("WriteIso", c) = <<"writeIso", "renameIso">>
  BY DEF Run!Steps, Run!CreateImageSteps, Run!WriteIsoSteps
<1>5. Run!Steps("WriteDisk", c) = <<"alive", "wipe", "dd", "sync">>
  BY DEF Run!Steps, Run!WriteDiskSteps
<1>6. Run!Steps("SaveImage", c) = Run!Moves(c, FALSE) /\ Run!Steps("SaveIso", c) = Run!Moves(c, TRUE)
  BY DEF Run!Steps
<1>7. QED
  BY <1>1, <1>2, <1>3, <1>4, <1>5, <1>6

LEMMA MovesOf ==
  ASSUME NEW c, NEW live \in BOOLEAN
  PROVE  Run!Moves(c, live) \in {<<>>, <<"replace">>, <<"copy", "rename">>, <<"copy", "rename", "removeSource">>}
         /\ (live => Run!Moves(c, live) # <<"copy", "rename", "removeSource">>)
         /\ (c.place # "made" => Run!Moves(c, live) # <<>>) /\ (c.place = "made" => Run!Moves(c, live) = <<>>)
BY DEF Run!Moves

LEMMA OnlyIn == ASSUME NEW S, NEW x \in S, NEW y \in S, NEW z \in S, NEW p
                PROVE  <<x, y>> \o Run!Only(z, p) \in Seq(S)
<1>1. <<x, y>> \in Seq(S) /\ <<z>> \in Seq(S) /\ <<>> \in Seq(S)
  OBVIOUS
<1>2. Run!Only(z, p) \in Seq(S)
  BY <1>1 DEF Run!Only
<1>3. QED
  BY <1>1, <1>2, ConcatProperties

\* Short sequences.
LEMMA TuplesIn ==
  ASSUME NEW S, NEW x \in S, NEW y \in S, NEW z \in S
  PROVE  <<>> \in Seq(S) /\ <<x>> \in Seq(S) /\ <<x, y>> \in Seq(S) /\ <<x, y, z>> \in Seq(S)
OBVIOUS

LEMMA OnlyAlone == ASSUME NEW S, NEW x \in S, NEW p PROVE Run!Only(x, p) \in Seq(S)
BY TuplesIn DEF Run!Only

LEMMA OneOf == ASSUME NEW x, NEW n \in 1 .. Len(<<x>>) PROVE n = 1 /\ <<x>>[n] = x /\ Len(<<x>>) = 1
OBVIOUS

LEMMA TwoOf ==
  ASSUME NEW x, NEW y, NEW n \in 1 .. Len(<<x, y>>)
  PROVE  Len(<<x, y>>) = 2 /\ ((n = 1 /\ <<x, y>>[n] = x) \/ (n = 2 /\ <<x, y>>[n] = y))
OBVIOUS

LEMMA ThreeOf ==
  ASSUME NEW x, NEW y, NEW z, NEW n \in 1 .. Len(<<x, y, z>>)
  PROVE  /\ Len(<<x, y, z>>) = 3
         /\ (n = 1 /\ <<x, y, z>>[n] = x) \/ (n = 2 /\ <<x, y, z>>[n] = y) \/ (n = 3 /\ <<x, y, z>>[n] = z)
OBVIOUS

LEMMA FourOf ==
  ASSUME NEW x, NEW y, NEW z, NEW w, NEW n \in 1 .. Len(<<x, y, z, w>>)
  PROVE  /\ Len(<<x, y, z, w>>) = 4
         /\ \/ n = 1 /\ <<x, y, z, w>>[n] = x
            \/ n = 2 /\ <<x, y, z, w>>[n] = y
            \/ n = 3 /\ <<x, y, z, w>>[n] = z
            \/ n = 4 /\ <<x, y, z, w>>[n] = w
OBVIOUS

Plain == {"StopRunner", "Check", "Partition", "Format", "Extract", "Configure", "Repository", "Packages", "Network", "Bootloader",
          "GrowRoot", "ReadIso", "Firmware", "BootPartition"}

LEMMA HarmlessHas ==
  /\ "script" \in Harmless /\ "alive" \in Harmless /\ "disk" \in Harmless /\ "tools" \in Harmless /\ "clock" \in Harmless
  /\ "extract" \in Harmless /\ "sync" \in Harmless /\ "fstab" \in Harmless /\ "configure" \in Harmless
  /\ "download" \in Harmless /\ "cache" \in Harmless /\ "copyBoot" \in Harmless /\ "wipe" \in Harmless
  /\ "connect" \in Harmless /\ "connectTools" \in Harmless /\ "release" \in Harmless
BY DEF Harmless

LEMMA PlainSteps == ASSUME NEW c, NEW s \in Plain PROVE Run!Steps(s, c) \in Seq(Harmless)
<1>1. CASE s \in {"Partition", "Format", "Packages", "Network", "Bootloader", "GrowRoot"}
  <2>1. Run!Steps(s, c) = <<"script">>
    BY <1>1 DEF Run!Steps, Run!PartitionSteps, Run!FormatSteps, Run!PackagesSteps, Run!NetworkSteps,
       Run!BootloaderSteps,
                Run!GrowRootSteps
  <2>2. QED
    BY <2>1, HarmlessHas, TuplesIn
<1>2. CASE s \in {"StopRunner", "Configure"}
  <2>1. Run!Steps(s, c) \in {<<"release">>, <<"fstab", "configure">>}
    BY <1>2 DEF Run!Steps, Run!StopRunnerSteps, Run!ConfigureSteps
  <2>2. <<"release">> \in Seq(Harmless) /\ <<"fstab", "configure">> \in Seq(Harmless)
    BY HarmlessHas, TuplesIn
  <2>3. QED
    BY <2>1, <2>2
<1>3. CASE s \in {"ReadIso", "Firmware", "BootPartition"}
  <2>1. Run!Steps(s, c) \in {<<"script", "script">>, <<"download", "cache">>, <<"copyBoot", "script">>}
    BY <1>3 DEF Run!Steps, Run!ReadIsoSteps, Run!FirmwareSteps, Run!BootPartitionSteps
  <2>2. /\ <<"script", "script">> \in Seq(Harmless) /\ <<"download", "cache">> \in Seq(Harmless)
        /\ <<"copyBoot", "script">> \in Seq(Harmless)
    BY HarmlessHas, TuplesIn
  <2>3. QED
    BY <2>1, <2>2
<1>4. CASE s = "Check"
  <2>1. Run!Steps(s, c) = <<"alive">> \o Run!Only("disk", c.target = "local") \o <<"tools">> \o Run!Only("clock", c.target = "ssh")
    BY <1>4 DEF Run!Steps, Run!CheckSteps
  <2>2. <<"alive">> \in Seq(Harmless) /\ <<"tools">> \in Seq(Harmless)
    BY HarmlessHas, TuplesIn
  <2>3. Run!Only("disk", c.target = "local") \in Seq(Harmless) /\ Run!Only("clock", c.target = "ssh") \in Seq(Harmless)
    BY HarmlessHas, OnlyAlone
  <2>4. QED
    BY <2>1, <2>2, <2>3, ConcatProperties
<1>5. CASE s = "Extract"
  <2>1. Run!Steps(s, c) = <<"extract", "sync">> \o Run!Only("script", c.target \in {"local", "image"})
    BY <1>5 DEF Run!Steps, Run!ExtractSteps
  <2>2. <<"extract", "sync">> \in Seq(Harmless)
    BY HarmlessHas, TuplesIn
  <2>3. Run!Only("script", c.target \in {"local", "image"}) \in Seq(Harmless)
    BY HarmlessHas, OnlyAlone
  <2>4. QED
    BY <2>1, <2>2, <2>3, ConcatProperties
<1>6. CASE s = "Repository"
  <2>1. Run!Steps(s, c) = Run!Only("extract", c.snapshot) \o <<"script">>
    BY <1>6 DEF Run!Steps, Run!RepositorySteps
  <2>2. <<"script">> \in Seq(Harmless) /\ Run!Only("extract", c.snapshot) \in Seq(Harmless)
    BY HarmlessHas, TuplesIn, OnlyAlone
  <2>3. QED
    BY <2>1, <2>2, ConcatProperties
<1>7. QED
  BY <1>1, <1>2, <1>3, <1>4, <1>5, <1>6 DEF Plain

LEMMA OpPlaces ==
  ASSUME NEW c, NEW s \in Names(c), NEW n \in 1 .. Len(Run!Steps(s, c))
  PROVE  Does(s, n, Run!Steps(s, c)[n], Len(Run!Steps(s, c)))
<1>1. CASE s \in Plain
  <2>1. Run!Steps(s, c)[n] \in Harmless
    BY <1>1, PlainSteps, ElementOfSeq
  <2>2. QED
    BY <2>1 DEF Does, Harmless
<1>2. CASE s = "Prepare"
  <2>1. Run!Steps(s, c) = <<"connectTools", "tools", "makeFolder">> \o Run!Only("workspace", c.system)
    BY <1>2 DEF Run!Steps, Run!PrepareSteps
  <2> DEFINE S == Harmless \cup {"makeFolder", "workspace"}
  <2>2. <<"connectTools", "tools", "makeFolder">> \in Seq(S) /\ Run!Only("workspace", c.system) \in Seq(S)
    <3>1. "connectTools" \in S /\ "tools" \in S /\ "makeFolder" \in S /\ "workspace" \in S
      BY DEF Harmless
    <3> HIDE DEF S
    <3>2. QED
      BY <3>1, TuplesIn, OnlyAlone
  <2> HIDE DEF S
  <2>3. Run!Steps(s, c)[n] \in S
    BY <2>1, <2>2, ConcatProperties, ElementOfSeq
  <2>4. QED
    BY <1>2, <2>3 DEF Does, S, Harmless
<1>3. CASE s = "Mount"
  <2>1. Run!Steps(s, c) = <<"mark", "mount">>
    BY <1>3, StepsOf
  <2>2. QED
    <3>1. (n = 1 /\ Run!Steps(s, c)[n] = "mark") \/ (n = 2 /\ Run!Steps(s, c)[n] = "mount")
      BY <2>1, TwoOf
    <3>2. QED
      BY <1>3, <3>1 DEF Does
<1>4. CASE s = "Finish"
  <2>1. Run!Steps(s, c) = <<"umount", "unmark">>
    BY <1>4, StepsOf
  <2>2. QED
    <3>1. (n = 1 /\ Run!Steps(s, c)[n] = "umount") \/ (n = 2 /\ Run!Steps(s, c)[n] = "unmark")
      BY <2>1, TwoOf
    <3>2. QED
      BY <1>4, <3>1 DEF Does
<1>5. CASE s = "Shrink"
  <2>1. Run!Steps(s, c) = <<"shrink">>
    BY <1>5, StepsOf
  <2>2. QED
    BY <1>5, <2>1, OneOf DEF Does
<1>6. CASE s = "Compress"
  <2>1. Run!Steps(s, c) = <<"compress">>
    BY <1>6, StepsOf
  <2>2. QED
    BY <1>6, <2>1, OneOf DEF Does
<1>7. CASE s = "PrepareRunner"
  <2>1. Run!Steps(s, c) = <<"prepare">>
    BY <1>7, StepsOf
  <2>2. QED
    BY <1>7, <2>1, OneOf DEF Does
<1>8. CASE s = "LiveSystem"
  <2>1. Run!Steps(s, c) = <<"unpack">>
    BY <1>8, StepsOf
  <2>2. QED
    BY <1>8, <2>1, OneOf DEF Does
<1>9. CASE s = "CreateImage"
  <2>1. Run!Steps(s, c) = <<"connect", "tools", "create">>
    BY <1>9, StepsOf
  <2>2. QED
    <3>1. Run!Steps(s, c)[n] \in {"connect", "tools", "create"}
      BY <2>1, ThreeOf
    <3>2. QED
      BY <1>9, <3>1, HarmlessHas DEF Does
<1>10. CASE s = "WriteIso"
  <2>1. Run!Steps(s, c) = <<"writeIso", "renameIso">>
    BY <1>10, StepsOf
  <2>2. QED
    <3>1. (n = 1 /\ Run!Steps(s, c)[n] = "writeIso") \/ (n = 2 /\ Run!Steps(s, c)[n] = "renameIso")
      BY <2>1, TwoOf
    <3>2. QED
      BY <1>10, <3>1 DEF Does
<1>11. CASE s = "WriteDisk"
  <2>1. Run!Steps(s, c) = <<"alive", "wipe", "dd", "sync">>
    BY <1>11, StepsOf
  <2>2. QED
    <3>1. \/ n = 1 /\ Run!Steps(s, c)[n] = "alive"
          \/ n = 2 /\ Run!Steps(s, c)[n] = "wipe"
          \/ n = 3 /\ Run!Steps(s, c)[n] = "dd"
          \/ n = 4 /\ Run!Steps(s, c)[n] = "sync"
      BY <2>1, FourOf
    <3>2. QED
      BY <1>11, <3>1, HarmlessHas DEF Does
<1>12. CASE s \in Saves
  <2>1. PICK live \in BOOLEAN : Run!Steps(s, c) = Run!Moves(c, live) /\ (live \/ s = "SaveImage")
    BY <1>12, StepsOf DEF Saves
  <2>2. Run!Steps(s, c) \in {<<>>, <<"replace">>, <<"copy", "rename">>, <<"copy", "rename", "removeSource">>}
        /\ (live => Run!Steps(s, c) # <<"copy", "rename", "removeSource">>)
    BY <2>1, MovesOf
  <2>3. CASE Run!Steps(s, c) = <<"replace">>
    <3>1. n = 1 /\ Run!Steps(s, c)[n] = "replace" /\ Len(Run!Steps(s, c)) = 1
      BY <2>3, OneOf
    <3>2. QED
      BY <1>12, <3>1 DEF Does
  <2>4. CASE Run!Steps(s, c) = <<"copy", "rename">>
    <3>1. /\ Len(Run!Steps(s, c)) = 2
          /\ (n = 1 /\ Run!Steps(s, c)[n] = "copy") \/ (n = 2 /\ Run!Steps(s, c)[n] = "rename")
      BY <2>4, TwoOf
    <3>2. Len(Run!Steps(s, c)) >= 2
      BY <3>1
    <3>3. CASE n = 1
      BY <1>12, <3>1, <3>2, <3>3 DEF Does
    <3>4. CASE n = 2
      BY <1>12, <3>1, <3>4 DEF Does
    <3>5. QED
      BY <3>1, <3>3, <3>4
  <2>5. CASE Run!Steps(s, c) = <<"copy", "rename", "removeSource">>
    <3>1. /\ Len(Run!Steps(s, c)) = 3
          /\ \/ n = 1 /\ Run!Steps(s, c)[n] = "copy"
             \/ n = 2 /\ Run!Steps(s, c)[n] = "rename"
             \/ n = 3 /\ Run!Steps(s, c)[n] = "removeSource"
      <4>1. /\ Len(<<"copy", "rename", "removeSource">>) = 3
            /\ \/ n = 1 /\ <<"copy", "rename", "removeSource">>[n] = "copy"
               \/ n = 2 /\ <<"copy", "rename", "removeSource">>[n] = "rename"
               \/ n = 3 /\ <<"copy", "rename", "removeSource">>[n] = "removeSource"
        BY <2>5, ThreeOf
      <4>2. QED
        BY <2>5, <4>1
    <3>2. s = "SaveImage"
      BY <2>1, <2>2, <2>5
    <3>3. Len(Run!Steps(s, c)) >= 2
      BY <3>1
    <3>4. CASE n = 1
      BY <1>12, <3>1, <3>3, <3>4 DEF Does
    <3>5. CASE n = 2
      BY <1>12, <3>1, <3>5 DEF Does
    <3>6. CASE n = 3
      BY <3>1, <3>2, <3>6 DEF Does
    <3>7. QED
      BY <3>1, <3>4, <3>5, <3>6
  <2>6. CASE Run!Steps(s, c) = <<>>
    BY <2>6
  <2>7. QED
    BY <2>2, <2>3, <2>4, <2>5, <2>6
<1>13. QED
  <2>1. s \in AllNames
    BY NamesAreAll
  <2>2. QED
    BY <2>1, <1>1, <1>2, <1>3, <1>4, <1>5, <1>6, <1>7, <1>8, <1>9, <1>10, <1>11, <1>12 DEF AllNames, Plain, Saves


LEMMA NamesFit ==
  ASSUME NEW c \in Run!ConfigType, NEW s \in Names(c)
  PROVE  /\ s \in {"CreateImage", "Shrink", "Compress", "SaveImage"} => Run!Image(c)
         /\ s \in {"Mount", "Finish"} => ~Run!Live(c)
         /\ s \in {"Prepare", "LiveSystem", "WriteIso", "WriteDisk", "SaveIso"} => Run!Live(c)
         /\ s = "Compress" => c.compress
         /\ s = "WriteDisk" => c.target = "disk"
         /\ s = "SaveIso" => c.target = "iso"
BY DEF Names, LiveNames, InstallNames, FirstNames, RpiNames, OnlySet, ExtraSet, Run!Image, Run!Live

LEMMA NamesHave ==
  ASSUME NEW c \in Run!ConfigType
  PROVE  /\ Run!Image(c) => "Shrink" \in Names(c) /\ "SaveImage" \in Names(c)
         /\ Run!Image(c) /\ c.compress => "Compress" \in Names(c)
         /\ c.target = "disk" => "WriteDisk" \in Names(c)
         /\ c.target = "iso" => "SaveIso" \in Names(c)
BY DEF Names, LiveNames, InstallNames, OnlySet, Run!Image, Run!Live

-----------------------------------------------------------------------------
(* The control of a deployment: its thread, its result and its end.        *)

ControlTypeOK ==
  /\ config \in Configs /\ status \in {"IN_PROGRESS", "COMPLETED", "FAILED"} /\ at \in 0 .. Len(Run!Stages(config))
  /\ thread \in {"none", "starting", "step", "command"} /\ step \in Nat /\ step >= 1
  /\ reported \in {"none", "COMPLETED", "FAILED"} /\ dopen \subseteq {"target", "tools"}
  /\ finishing \in {"no", "cleanup", "unmount", "detach", "live", "close", "closed"}
  /\ canceled \in BOOLEAN /\ event \in BOOLEAN /\ prepared \in BOOLEAN /\ mounted \in BOOLEAN

StepsNow == Run!Steps(Run!Stage, config)

\* A process that nobody canceled ends with its thread, one that was
\* canceled before it.
ControlOK ==
  /\ status = "IN_PROGRESS" <=> finishing = "no"
  /\ canceled => status = "FAILED"
  /\ ~canceled => ~event /\ (status # "IN_PROGRESS" => thread = "none" /\ reported = "none")
  /\ thread # "none" => reported = "none" /\ at > 0
  /\ thread = "starting" => step = 1
  /\ thread = "command" => step <= Len(StepsNow)
  /\ reported = "COMPLETED" /\ at > 0 => step > Len(StepsNow)
  /\ finishing \in {"unmount", "detach"} => ~Run!Live(config)
  /\ finishing = "live" => Run!Live(config)

\* The runner is used once, and what is open is closed at the end.
UsesOK ==
  /\ used = IF prepared THEN 1 ELSE 0
  /\ prepared => at > 0 /\ (at = 1 => step > 1)
  /\ ~canceled /\ finishing \notin {"no", "cleanup"} => ~prepared
  /\ ~canceled /\ finishing = "closed" => dopen = {}

ControlInv == ControlTypeOK /\ ControlOK /\ UsesOK

LEMMA ConfigIs == ASSUME ControlTypeOK PROVE config \in Run!ConfigType
BY DeploymentAssumption DEF ControlTypeOK, Run!DeployAssumption

LEMMA StageNamed ==
  ASSUME ControlTypeOK, at > 0
  PROVE  /\ Run!Stage \in Names(config) /\ Len(Run!Stages(config)) \in Nat /\ at \in 1 .. Len(Run!Stages(config))
         /\ Rising(Run!Stages(config), Names(config), 1, 17)
<1>1. Rising(Run!Stages(config), Names(config), 1, 17)
  BY ConfigIs, StagesRising
<1>2. Run!Stages(config) \in Seq(Names(config))
  BY <1>1 DEF Rising
<1>3. Len(Run!Stages(config)) \in Nat /\ at \in 1 .. Len(Run!Stages(config))
  BY <1>2, LenProperties DEF ControlTypeOK
<1>4. Run!Stage \in Names(config)
  BY <1>2, <1>3, ElementOfSeq DEF Run!Stage
<1>5. QED
  BY <1>1, <1>3, <1>4

LEMMA StepsAreSeq == ASSUME NEW c, NEW s \in AllNames PROVE Len(Run!Steps(s, c)) \in Nat
<1>1. CASE s \in Plain
  BY <1>1, PlainSteps, LenProperties
<1>2. CASE s = "Prepare"
  <2>1. Run!Steps(s, c) = <<"connectTools", "tools", "makeFolder">> \o Run!Only("workspace", c.system)
    BY <1>2 DEF Run!Steps, Run!PrepareSteps
  <2> DEFINE S == {"connectTools", "tools", "makeFolder", "workspace"}
  <2>2. "connectTools" \in S /\ "tools" \in S /\ "makeFolder" \in S /\ "workspace" \in S
    OBVIOUS
  <2> HIDE DEF S
  <2>3. <<"connectTools", "tools", "makeFolder">> \in Seq(S) /\ Run!Only("workspace", c.system) \in Seq(S)
    BY <2>2, TuplesIn, OnlyAlone
  <2>4. QED
    BY <2>1, <2>3, ConcatProperties, LenProperties
<1>3. CASE s \in Saves
  <2>1. Run!Steps(s, c) \in {<<>>, <<"replace">>, <<"copy", "rename">>, <<"copy", "rename", "removeSource">>}
    BY <1>3, StepsOf, MovesOf DEF Saves
  <2>2. QED
    BY <2>1
<1>4. CASE s \in {"Mount", "Finish", "Shrink", "Compress", "PrepareRunner", "LiveSystem", "CreateImage", "WriteIso", "WriteDisk"}
  <2>1. /\ Len(<<"mark", "mount">>) = 2 /\ Len(<<"umount", "unmark">>) = 2 /\ Len(<<"shrink">>) = 1 /\ Len(<<"compress">>) = 1
        /\ Len(<<"prepare">>) = 1 /\ Len(<<"unpack">>) = 1 /\ Len(<<"connect", "tools", "create">>) = 3
        /\ Len(<<"writeIso", "renameIso">>) = 2 /\ Len(<<"alive", "wipe", "dd", "sync">>) = 4
    OBVIOUS
  <2>2. Len(Run!Steps(s, c)) \in {1, 2, 3, 4}
    <3>1. CASE s \in {"Mount", "Finish", "WriteIso"}
      BY <2>1, <3>1, StepsOf
    <3>2. CASE s \in {"Shrink", "Compress", "PrepareRunner", "LiveSystem"}
      BY <2>1, <3>2, StepsOf
    <3>3. CASE s \in {"CreateImage", "WriteDisk"}
      BY <2>1, <3>3, StepsOf
    <3>4. QED
      BY <1>4, <3>1, <3>2, <3>3
  <2>3. QED
    BY <2>2
<1>5. QED
  BY <1>1, <1>2, <1>3, <1>4 DEF AllNames, Plain, Saves

LEMMA StepsNowLen == ASSUME ControlTypeOK, at > 0 PROVE Len(StepsNow) \in Nat
BY StageNamed, NamesAreAll, StepsAreSeq DEF StepsNow

LEMMA OpDoes ==
  ASSUME ControlTypeOK, ControlOK, thread = "command"
  PROVE  at > 0 /\ Run!Stage \in Names(config) /\ step \in 1 .. Len(StepsNow) /\ Does(Run!Stage, step, Run!Op, Len(StepsNow))
<1>1. at > 0 /\ Run!Stage \in Names(config)
  BY StageNamed DEF ControlOK
<1>2. step \in 1 .. Len(StepsNow)
  BY <1>1, StepsNowLen DEF ControlTypeOK, ControlOK
<1>3. QED
  BY <1>1, <1>2, OpPlaces DEF StepsNow, Run!Op

LEMMA RunnerIsFirst == ASSUME ControlTypeOK, at > 0, Run!Stage = "PrepareRunner" PROVE at = 1
<1>1. SUFFICES ASSUME at # 1 PROVE FALSE
  OBVIOUS
<1>2. /\ at \in 1 .. Len(Run!Stages(config)) /\ Len(Run!Stages(config)) \in Nat
      /\ Rising(Run!Stages(config), Names(config), 1, 17)
  BY StageNamed
<1>3. 1 \in 1 .. Len(Run!Stages(config)) /\ 1 < at
  BY <1>1, <1>2
<1>4. 1 <= Rank(Run!Stages(config)[1]) /\ Rank(Run!Stages(config)[1]) < Rank(Run!Stages(config)[at])
  BY <1>2, <1>3 DEF Rising
<1>5. Rank(Run!Stages(config)[at]) = 1
  BY DEF Run!Stage, Rank
<1>6. QED
  BY <1>4, <1>5, RanksAreNat

\* A place is not changed.
Stays == config' = config /\ at' = at

LEMMA StaysThere == ASSUME Stays PROVE Run!Stage' = Run!Stage /\ StepsNow' = StepsNow
BY DEF Stays, Run!Stage, StepsNow

LEMMA ControlContinue == ASSUME ControlInv, Run!Continue PROVE ControlInv'
<1>1. ControlTypeOK /\ ControlOK /\ UsesOK
  BY DEF ControlInv
<1>2. config' = config /\ reported' = "none" /\ UNCHANGED <<event, prepared, used, mounted, dopen, canceled>>
  BY DEF Run!Continue, Run!procVars
<1>3. Len(Run!Stages(config)) \in Nat
  BY ConfigIs, StagesRising, LenProperties, <1>1 DEF Rising
<1>4. CASE UNCHANGED <<status, at, finishing, thread, step>> /\ status # "IN_PROGRESS"
  <2>1. Run!Stage' = Run!Stage /\ StepsNow' = StepsNow
    BY <1>2, <1>4, StaysThere DEF Stays
  <2>2. ControlTypeOK'
    BY <1>1, <1>2, <1>4 DEF ControlTypeOK
  <2>3. ControlOK' /\ UsesOK'
    BY <1>1, <1>2, <1>4, <2>1 DEF ControlTypeOK, ControlOK, UsesOK
  <2>4. QED
    BY <2>2, <2>3 DEF ControlInv
<1>5. CASE /\ status = "IN_PROGRESS" /\ at < Len(Run!Stages(config)) /\ reported = "COMPLETED"
           /\ at' = at + 1 /\ thread' = "starting" /\ step' = 1 /\ UNCHANGED <<status, finishing>>
  <2>1. ControlTypeOK'
    BY <1>1, <1>2, <1>3, <1>5 DEF ControlTypeOK
  <2>2. ControlOK'
    BY <1>1, <1>2, <1>5 DEF ControlTypeOK, ControlOK
  <2>3. prepared => at > 0
    BY <1>1 DEF UsesOK
  <2>4. UsesOK'
    BY <1>1, <1>2, <1>5, <2>3 DEF ControlTypeOK, ControlOK, UsesOK
  <2>5. QED
    BY <2>1, <2>2, <2>4 DEF ControlInv
<1>6. CASE status = "IN_PROGRESS" /\ status' \in {"FAILED", "COMPLETED"} /\ finishing' = "cleanup" /\ UNCHANGED <<at, thread, step>>
  <2>1. Run!Stage' = Run!Stage /\ StepsNow' = StepsNow
    BY <1>2, <1>6, StaysThere DEF Stays
  <2>2. thread = "none" /\ ~canceled
    BY <1>1, <1>6 DEF ControlTypeOK, ControlOK, Run!Continue
  <2>3. ControlTypeOK'
    BY <1>1, <1>2, <1>6 DEF ControlTypeOK
  <2>4. ControlOK' /\ UsesOK'
    BY <1>1, <1>2, <1>6, <2>1, <2>2 DEF ControlTypeOK, ControlOK, UsesOK
  <2>5. QED
    BY <2>3, <2>4 DEF ControlInv
<1>7. QED
  BY <1>4, <1>5, <1>6 DEF Run!Continue, Run!procVars

LEMMA ControlThread ==
  ASSUME ControlInv, Run!StageStarts \/ Run!StageCompletes \/ Run!CommandStarts \/ Run!CommandFails
  PROVE  ControlInv'
<1>1. ControlTypeOK /\ ControlOK /\ UsesOK
  BY DEF ControlInv
<1>2. /\ UNCHANGED <<config, at, status, finishing, canceled, step, prepared, used, mounted, dopen>>
      /\ thread # "none" /\ thread' \in {"none", "step", "command"}
  BY DEF Run!StageStarts, Run!StageCompletes, Run!CommandStarts, Run!CommandFails, Run!StageFails, Run!procVars
<1>3. Run!Stage' = Run!Stage /\ StepsNow' = StepsNow
  BY <1>2, StaysThere DEF Stays
<1>4. at > 0 /\ reported = "none" /\ Len(StepsNow) \in Nat
  BY <1>1, <1>2, StepsNowLen DEF ControlOK
<1>5. UsesOK'
  BY <1>1, <1>2 DEF UsesOK
<1>6. CASE Run!StageStarts
  BY <1>1, <1>2, <1>3, <1>5, <1>6 DEF Run!StageStarts, ControlTypeOK, ControlOK, ControlInv
<1>7. CASE Run!StageCompletes
  BY <1>1, <1>2, <1>3, <1>4, <1>5, <1>7 DEF Run!StageCompletes, ControlTypeOK, ControlOK, ControlInv, StepsNow
<1>8. CASE Run!CommandStarts
  BY <1>1, <1>2, <1>3, <1>4, <1>5, <1>8 DEF Run!CommandStarts, ControlTypeOK, ControlOK, ControlInv, StepsNow
<1>9. CASE Run!CommandFails
  BY <1>1, <1>2, <1>3, <1>4, <1>5, <1>9 DEF Run!CommandFails, Run!StageFails, ControlTypeOK, ControlOK, ControlInv,
     StepsNow
<1>10. QED
  BY <1>6, <1>7, <1>8, <1>9

LEMMA ControlSucceeds == ASSUME ControlInv, Run!CommandSucceeds PROVE ControlInv'
<1>1. ControlTypeOK /\ ControlOK /\ UsesOK
  BY DEF ControlInv
<1>2. /\ UNCHANGED <<config, at, status, finishing, canceled, event, reported>>
      /\ thread = "command" /\ thread' = "step" /\ step' = step + 1
  BY DEF Run!CommandSucceeds, Run!Succeeds, Run!procVars
<1>3. Run!Stage' = Run!Stage /\ StepsNow' = StepsNow
  BY <1>2, StaysThere DEF Stays
<1>4. at > 0 /\ step \in 1 .. Len(StepsNow) /\ Does(Run!Stage, step, Run!Op, Len(StepsNow)) /\ reported = "none"
  BY <1>1, <1>2, OpDoes DEF ControlOK
<1>5. /\ mounted' \in BOOLEAN /\ dopen' \subseteq {"target", "tools"}
      /\ ~canceled /\ finishing = "closed" => FALSE
      /\ status # "IN_PROGRESS" => canceled
  <2>1. mounted' \in BOOLEAN
    BY <1>1 DEF Run!CommandSucceeds, Run!Succeeds, Run!Marks, ControlTypeOK
  <2>2. dopen' \subseteq {"target", "tools"}
    BY <1>1 DEF Run!CommandSucceeds, Run!Succeeds, ControlTypeOK
  <2>3. QED
    BY <1>1, <1>2, <2>1, <2>2 DEF ControlOK, ControlTypeOK
<1>6. prepared' \in BOOLEAN /\ UsesOK'
  <2>1. CASE Run!Op = "prepare"
    <3>1. Run!Stage = "PrepareRunner" /\ step = 1
      BY <1>4, <2>1 DEF Does
    <3>2. at = 1
      BY <1>1, <1>4, <3>1, RunnerIsFirst
    <3>3. ~prepared
      BY <1>1, <3>1, <3>2 DEF UsesOK
    <3>4. used' = used + 1 /\ prepared' = TRUE
      BY <2>1 DEF Run!CommandSucceeds, Run!Succeeds
    <3>5. QED
      BY <1>1, <1>2, <1>5, <3>1, <3>2, <3>3, <3>4 DEF UsesOK, ControlOK
  <2>2. CASE Run!Op = "release"
    <3>1. used' = (IF prepared THEN used - 1 ELSE used) /\ prepared' = FALSE
      BY <2>2 DEF Run!CommandSucceeds, Run!Succeeds
    <3>2. used' = 0
      <4>1. CASE prepared
        BY <1>1, <3>1, <4>1 DEF UsesOK
      <4>2. CASE ~prepared
        BY <1>1, <3>1, <4>2 DEF UsesOK
      <4>3. QED
        BY <4>1, <4>2
    <3>3. QED
      BY <1>2, <1>5, <3>1, <3>2 DEF UsesOK
  <2>3. CASE Run!Op \notin {"prepare", "release"}
    <3>1. used' = used /\ prepared' = prepared
      BY <2>3 DEF Run!CommandSucceeds, Run!Succeeds
    <3>2. QED
      BY <1>1, <1>2, <1>5, <3>1 DEF UsesOK, ControlTypeOK
  <2>4. QED
    BY <2>1, <2>2, <2>3
<1>7. ControlTypeOK'
  BY <1>1, <1>2, <1>5, <1>6 DEF ControlTypeOK
<1>8. ControlOK'
  BY <1>1, <1>2, <1>3, <1>4 DEF ControlOK
<1>9. QED
  BY <1>6, <1>7, <1>8 DEF ControlInv

LEMMA ControlFinishes == ASSUME ControlInv, Run!Finishes \/ Run!Cancel PROVE ControlInv'
<1>1. ControlTypeOK /\ ControlOK /\ UsesOK
  BY DEF ControlInv
<1>2. CASE Run!Cancel
  <2>1. /\ UNCHANGED <<config, at, thread, step, reported, prepared, used, mounted, dopen>>
        /\ status' = "FAILED" /\ canceled' = TRUE /\ finishing' = "cleanup" /\ event' = (event \/ thread \in {"step", "command"})
    BY <1>2 DEF Run!Cancel
  <2>2. Run!Stage' = Run!Stage /\ StepsNow' = StepsNow
    BY <2>1, StaysThere DEF Stays
  <2>3. ControlTypeOK'
    BY <1>1, <2>1 DEF ControlTypeOK
  <2>4. ControlOK' /\ UsesOK'
    BY <1>1, <2>1, <2>2 DEF ControlOK, UsesOK
  <2>5. QED
    BY <2>3, <2>4 DEF ControlInv
<1>3. CASE Run!Finishes
  <2>1. UNCHANGED <<config, status, at, canceled, thread, step, event, reported>>
    BY <1>3 DEF Run!Finishes, Run!Cleanup, Run!Unmount, Run!Detach, Run!RemoveLive, Run!Close, Run!FinishStep,
       Run!threadVars
  <2>2. Run!Stage' = Run!Stage /\ StepsNow' = StepsNow
    BY <2>1, StaysThere DEF Stays
  <2>3. CASE Run!Cleanup
    <3>1. /\ finishing = "cleanup" /\ finishing' = (IF Run!Live(config) THEN "live" ELSE "unmount") /\ prepared' = FALSE
          /\ used' = (IF prepared THEN used - 1 ELSE used) /\ UNCHANGED <<mounted, dopen>>
      BY <2>3 DEF Run!Cleanup, Run!FinishStep
    <3>2. used' = 0
      <4>1. CASE prepared
        BY <1>1, <3>1, <4>1 DEF UsesOK
      <4>2. CASE ~prepared
        BY <1>1, <3>1, <4>2 DEF UsesOK
      <4>3. QED
        BY <4>1, <4>2
    <3>3. ControlTypeOK'
      BY <1>1, <2>1, <3>1 DEF ControlTypeOK
    <3>4. ControlOK'
      BY <1>1, <2>1, <2>2, <3>1 DEF ControlOK, Run!Live
    <3>5. UsesOK'
      BY <3>1, <3>2 DEF UsesOK
    <3>6. QED
      BY <3>3, <3>4, <3>5 DEF ControlInv
  <2>4. CASE Run!Unmount
    <3>1. mounted' \in BOOLEAN /\ UNCHANGED <<prepared, used, dopen>> /\ finishing = "unmount" /\ finishing' = "detach"
      BY <1>1, <2>4 DEF Run!Unmount, Run!FinishStep, ControlTypeOK
    <3>2. QED
      BY <1>1, <2>1, <2>2, <3>1 DEF ControlTypeOK, ControlOK, UsesOK, ControlInv
  <2>5. CASE Run!Detach
    BY <1>1, <2>1, <2>2, <2>5 DEF Run!Detach, Run!FinishStep, ControlTypeOK, ControlOK, UsesOK, ControlInv
  <2>6. CASE Run!RemoveLive
    BY <1>1, <2>1, <2>2, <2>6 DEF Run!RemoveLive, Run!FinishStep, ControlTypeOK, ControlOK, UsesOK, ControlInv
  <2>7. CASE Run!Close
    BY <1>1, <2>1, <2>2, <2>7 DEF Run!Close, Run!FinishStep, ControlTypeOK, ControlOK, UsesOK, ControlInv
  <2>8. QED
    BY <1>3, <2>3, <2>4, <2>5, <2>6, <2>7 DEF Run!Finishes
<1>4. QED
  BY <1>2, <1>3

LEMMA ControlStays == ASSUME ControlInv, UNCHANGED runVars PROVE ControlInv'
<1>1. UNCHANGED <<config, status, at, finishing, canceled, thread, step, event, reported, prepared, used, mounted, dopen>>
  BY DEF runVars
<1>2. Run!Stage' = Run!Stage /\ StepsNow' = StepsNow
  BY <1>1, StaysThere DEF Stays
<1>3. QED
  BY <1>1, <1>2 DEF ControlInv, ControlTypeOK, ControlOK, UsesOK

LEMMA ControlInit == Run!Init => ControlInv
<1>1. SUFFICES ASSUME Run!Init PROVE ControlInv
  OBVIOUS
<1>2. Len(Run!Stages(config)) \in Nat
  BY <1>1, DeploymentAssumption, StagesRising, LenProperties DEF Run!Init, Run!DeployAssumption, Rising
<1>3. ControlTypeOK
  <2>1. dopen \subseteq {"target", "tools"}
    BY <1>1 DEF Run!Init
  <2>2. /\ config \in Configs /\ status = "IN_PROGRESS" /\ at = 0 /\ finishing = "no" /\ canceled = FALSE /\ thread = "none"
        /\ step = 1 /\ event = FALSE /\ reported = "COMPLETED" /\ prepared = FALSE /\ mounted = FALSE
    BY <1>1 DEF Run!Init
  <2>3. at \in 0 .. Len(Run!Stages(config)) /\ step \in Nat /\ step >= 1
    BY <1>2, <2>2
  <2>4. QED
    BY <2>1, <2>2, <2>3 DEF ControlTypeOK
<1>4. ControlOK /\ UsesOK
  BY <1>1 DEF Run!Init, ControlOK, UsesOK
<1>5. QED
  BY <1>3, <1>4 DEF ControlInv

-----------------------------------------------------------------------------
(* What a deployment has made, and what is left of it.                     *)

Files == {"none", "big", "whole", "cut"}
TargetType ==
  [mounts : BOOLEAN, loop : BOOLEAN, image : Files, xz : Files, output : Files, part : Files, folder : BOOLEAN,
   workspace : BOOLEAN, live : BOOLEAN, tmp : BOOLEAN, cache : Files]

\* Stage x has completed, or is as good as complete.
Past(x) == at > 0 /\ (Rank(Run!Stage) > Rank(x) \/ (Run!Stage = x /\ step > Len(StepsNow)))

\* The stage that brings the result to its place, if it is made elsewhere.
Delivers(c) == c.target \in {"iso", "disk"} \/ (Run!Image(c) /\ c.place # "made")
Save(c) == IF Run!Image(c) THEN "SaveImage" ELSE IF c.target = "disk" THEN "WriteDisk" ELSE "SaveIso"
SaveStages == {"SaveImage", "WriteDisk", "SaveIso"}
Deliveries == {"replace", "rename", "dd"}

\* What is mounted is known of, and can be unmounted.
MountsOK ==
  /\ ~canceled /\ finishing = "no" /\ at > 0 /\ Run!Stage = "Mount" /\ step > 1 => mounted
  /\ ~canceled /\ at > 0 /\ Run!Stage = "Finish" /\ step > 1 => ~t.mounts
  /\ t.mounts => ~Run!Live(config)
  /\ t.mounts /\ ~canceled /\ finishing \in {"no", "cleanup", "unmount"} => mounted /\ "target" \in dopen
  /\ t.mounts /\ ~canceled /\ finishing \in {"detach", "close", "closed"} => config.target = "ssh"

\* An image that is there can be detached and removed.
ImageOK ==
  /\ t.loop \/ t.xz # "none" => Run!Image(config)
  /\ t.image # "none" => Run!Image(config) \/ Run!Live(config)
  /\ Run!Image(config) /\ ~canceled /\ finishing \notin {"close", "closed"} =>
       (t.loop \/ t.image # "none" \/ t.xz # "none" => "target" \in dopen)
  /\ Run!Image(config) /\ ~canceled /\ finishing \in {"close", "closed"} =>
       ~t.loop /\ (status = "FAILED" => t.image = "none" /\ t.xz = "none")

\* And so can what a live ISO was made in.
LiveOK ==
  /\ t.live \/ t.folder \/ t.workspace => Run!Live(config)
  /\ t.live /\ ~canceled /\ finishing \notin {"close", "closed"} => "tools" \in dopen
  /\ Run!Live(config) /\ ~canceled /\ finishing \in {"close", "closed"} =>
       ~t.live /\ ~t.folder /\ ~t.workspace /\ t.image = "none"

\* A partial file is there between the copy and the renaming only.
PartOK ==
  t.part # "none" =>
    t.part = "whole" /\ thread \in {"step", "command"} /\ at > 0 /\ step = 2 /\ Run!Stage \in Saves /\ Len(StepsNow) >= 2

\* The files are whole when the stages that make them have completed.
WholeOK ==
  /\ Run!Live(config) => t.image \in {"none", "whole"}
  /\ Run!Image(config) /\ Past("Shrink") => t.image \in {"none", "whole"}
  /\ Run!Image(config) /\ config.compress /\ Past("Compress") => t.xz \in {"none", "whole"}
  /\ t.xz # "none" => config.compress /\ Past("Shrink")
  /\ Run!Image(config) /\ config.place = "made" /\ status # "FAILED" /\ reported # "FAILED" /\ Past("Shrink") =>
       Run!Result(t) = "whole"

\* The result is in its place once the stage that brings it there is past.
OutputOK ==
  /\ config.target \in {"image", "iso"} => t.output \in {"none", "whole"}
  /\ \A x \in SaveStages : Delivers(config) /\ x = Save(config) /\ Past(x) => t.output = "whole"
  /\ at > 0 => \A n \in 1 .. Len(StepsNow) : n < step /\ StepsNow[n] \in Deliveries => t.output = "whole"
  /\ Run!ResultIsWhole

TargetInv == t \in TargetType /\ MountsOK /\ ImageOK /\ LiveOK /\ PartOK /\ WholeOK /\ OutputOK

LEMMA PastKept == ASSUME NEW x, Stays, step' = step PROVE Past(x)' <=> Past(x)
BY StaysThere DEF Past, Stays

LEMMA PastStep ==
  ASSUME NEW x, ControlTypeOK, at > 0, Stays, step' = step + 1
  PROVE  (Past(x) => Past(x)') /\ (Past(x)' => Past(x) \/ (Run!Stage = x /\ step + 1 > Len(StepsNow)))
<1>1. Run!Stage' = Run!Stage /\ StepsNow' = StepsNow /\ step \in Nat /\ Len(StepsNow) \in Nat
  BY StaysThere, StepsNowLen DEF ControlTypeOK
<1>2. Past(x)' <=> (Rank(Run!Stage) > Rank(x) \/ (Run!Stage = x /\ step + 1 > Len(StepsNow)))
  BY <1>1 DEF Past, Stays
<1>3. Past(x) <=> (Rank(Run!Stage) > Rank(x) \/ (Run!Stage = x /\ step > Len(StepsNow)))
  BY DEF Past
<1>4. step > Len(StepsNow) => step + 1 > Len(StepsNow)
  BY <1>1
<1>5. QED
  BY <1>2, <1>3, <1>4

\* No stage is left out: what is past was so before the next stage started.
LEMMA PastNext ==
  ASSUME ControlTypeOK, NEW x \in Names(config), Len(Run!Steps(x, config)) >= 1, config' = config, at' = at + 1,
         step' = 1, at < Len(Run!Stages(config)), at > 0 => step > Len(StepsNow), Past(x)'
  PROVE  Past(x)
<1> DEFINE s == Run!Stages(config)
           n == Len(Run!Stages(config))
<1>1. Rising(s, Names(config), 1, 17) /\ n \in Nat /\ at \in Nat
  <2>1. Rising(s, Names(config), 1, 17)
    BY ConfigIs, StagesRising
  <2>2. s \in Seq(Names(config))
    BY <2>1 DEF Rising
  <2>3. QED
    BY <2>1, <2>2, LenProperties DEF ControlTypeOK
<1>2. Run!Stage' = s[at + 1] /\ Run!Stage = s[at]
  BY DEF Run!Stage
<1>3. PICK j \in 1 .. n : s[j] = x
  BY <1>1 DEF Rising
<1>4. Rank(s[at + 1]) > Rank(x)
  <2>1. Run!Stage' = x => StepsNow' = Run!Steps(x, config)
    BY DEF StepsNow
  <2>2. x \in AllNames
    BY NamesAreAll
  <2>3. Len(Run!Steps(x, config)) \in Nat
    BY <2>2, StepsAreSeq
  <2>4. QED
    BY <1>2, <2>1, <2>3 DEF Past
<1>5. \A i, k \in 1 .. n : i < k => Rank(s[i]) < Rank(s[k])
  BY <1>1 DEF Rising
<1>6. \A i \in 1 .. n : Rank(s[i]) \in Nat
  BY RanksAreNat
<1> HIDE DEF s, n
<1>7. at + 1 \in 1 .. n
  BY <1>1 DEF n
<1>8. j <= at
  <2>1. SUFFICES ASSUME j > at PROVE FALSE
    BY <1>1, <1>3
  <2>2. j = at + 1 \/ at + 1 < j
    BY <1>1, <1>3, <2>1
  <2>3. QED
    BY <1>3, <1>4, <1>5, <1>6, <1>7, <2>2
<1>9. CASE j = at
  <2>1. Run!Stage = x /\ at > 0
    BY <1>1, <1>2, <1>3, <1>9
  <2>2. QED
    BY <2>1 DEF Past
<1>10. CASE j < at
  <2>1. at \in 1 .. n /\ at > 0
    BY <1>1, <1>3, <1>7, <1>10
  <2>2. Rank(x) < Rank(s[at])
    BY <1>3, <1>5, <1>10, <2>1
  <2>3. QED
    BY <1>2, <2>1, <2>2, <1>3, <1>6 DEF Past
<1>11. QED
  BY <1>1, <1>3, <1>8, <1>9, <1>10

-----------------------------------------------------------------------------
(* What an operation changes, when it succeeds and when it fails.          *)

Images == {"create", "shrink", "compress", "renameIso", "replace", "removeSource"}

LEMMA AfterKeeps ==
  ASSUME NEW op, NEW x \in TargetType
  PROVE  LET y == Run!After(op, x) IN
         /\ op # "mount" => (y.mounts => x.mounts)
         /\ op # "create" => (y.loop => x.loop)
         /\ op \notin Images => y.image = x.image
         /\ op \notin {"compress", "replace", "removeSource"} => y.xz = x.xz
         /\ op \notin Deliveries => y.output = x.output
         /\ op \notin {"copy", "rename"} => y.part = x.part
         /\ op # "makeFolder" => y.folder = x.folder
         /\ op # "workspace" => y.workspace = x.workspace
         /\ op # "unpack" => y.live = x.live
BY DEF Run!After, Deliveries, Images, TargetType

LEMMA AfterMakes ==
  ASSUME NEW x \in TargetType
  PROVE  /\ Run!After("create", x).image = "big"
         /\ ~Run!After("umount", x).mounts
         /\ Run!After("shrink", x).image = "whole"
         /\ Run!After("compress", x).image = "none" /\ Run!After("compress", x).xz = "whole"
         /\ Run!After("renameIso", x).image = "whole"
         /\ Run!After("replace", x).output = Run!Result(x)
         /\ Run!After("replace", x).image = "none" /\ Run!After("replace", x).xz = "none"
         /\ Run!After("removeSource", x).image = "none" /\ Run!After("removeSource", x).xz = "none"
         /\ Run!After("copy", x).part = Run!Result(x)
         /\ Run!After("rename", x).part = "none" /\ Run!After("rename", x).output = x.part
         /\ Run!After("dd", x).output = "whole"
BY DEF Run!After, TargetType

LEMMA AfterType == ASSUME NEW op, NEW x \in TargetType PROVE Run!After(op, x) \in TargetType
<1>1. Run!Result(x) \in Files
  BY DEF Run!Result, TargetType, Files
<1>2. CASE op \in {"create", "mount", "umount", "shrink", "compress", "makeFolder", "workspace", "unpack"}
  BY <1>2 DEF Run!After, TargetType, Files
<1>3. CASE op \in {"writeIso", "renameIso", "cache", "removeSource", "dd"}
  BY <1>3 DEF Run!After, TargetType, Files
<1>4. CASE op \in {"replace", "copy"}
  <2> DEFINE r == Run!Result(x)
  <2>1. r \in Files
    BY <1>1
  <2> HIDE DEF r
  <2>2. [x EXCEPT !.output = r, !.image = "none", !.xz = "none"] \in TargetType /\ [x EXCEPT !.part = r] \in TargetType
    BY <2>1 DEF TargetType, Files
  <2>3. QED
    BY <1>4, <2>2 DEF Run!After, r
<1>5. CASE op = "rename"
  <2>1. Run!After(op, x) = [x EXCEPT !.part = "none", !.output = x.part]
    BY <1>5 DEF Run!After
  <2>2. [x EXCEPT !.part = "none", !.output = x.part] \in TargetType
    BY DEF TargetType, Files
  <2>3. QED
    BY <2>1, <2>2
<1>6. CASE op \notin {"create", "mount", "umount", "shrink", "compress", "makeFolder", "workspace", "unpack", "writeIso",
                      "renameIso", "cache", "removeSource", "dd", "replace", "copy", "rename"}
  BY <1>6 DEF Run!After
<1>7. QED
  BY <1>2, <1>3, <1>4, <1>5, <1>6

LEMMA FailureKeeps ==
  ASSUME NEW op, NEW x \in TargetType, NEW y \in Run!AfterFailure(op, x)
  PROVE  /\ y \in TargetType
         /\ op # "mount" => (y.mounts => x.mounts)
         /\ op # "create" => (y.loop => x.loop)
         /\ op \notin {"create", "shrink"} => y.image = x.image
         /\ op # "compress" => y.xz = x.xz
         /\ op # "dd" => y.output = x.output
         /\ op \notin {"copy", "rename"} => y.part = x.part
         /\ op \in {"copy", "rename"} => y.part = "none"
         /\ op # "makeFolder" => y.folder = x.folder
         /\ y.workspace = x.workspace
         /\ op # "unpack" => y.live = x.live
<1>1. CASE op = "create"
  <2>1. y = x \/ y = [x EXCEPT !.image = "big"] \/ y = Run!After(op, x)
    BY <1>1 DEF Run!AfterFailure
  <2>2. CASE y = [x EXCEPT !.image = "big"]
    BY <1>1, <2>2 DEF TargetType, Files
  <2>3. CASE y = x \/ y = Run!After(op, x)
    BY <1>1, <2>3, AfterKeeps, AfterType DEF Images, Deliveries
  <2>4. QED
    BY <2>1, <2>2, <2>3
<1>2. CASE op \in {"mount", "umount", "unpack", "writeIso", "makeFolder"}
  <2>1. y = x \/ y = Run!After(op, x)
    BY <1>2 DEF Run!AfterFailure
  <2>2. QED
    BY <1>2, <2>1, AfterKeeps, AfterType DEF Images, Deliveries
<1>3. CASE op \in {"shrink", "compress", "copy", "rename", "dd"}
  <2>1. CASE op = "shrink"
    BY <2>1 DEF Run!AfterFailure, TargetType, Files
  <2>2. CASE op = "compress"
    BY <2>2 DEF Run!AfterFailure, TargetType, Files
  <2>3. CASE op \in {"copy", "rename"}
    BY <2>3 DEF Run!AfterFailure, TargetType, Files
  <2>4. CASE op = "dd"
    BY <2>4 DEF Run!AfterFailure, TargetType, Files
  <2>5. QED
    BY <1>3, <2>1, <2>2, <2>3, <2>4
<1>4. CASE op \notin {"create", "mount", "umount", "unpack", "writeIso", "makeFolder", "shrink", "compress", "copy", "rename", "dd"}
  <2>1. y = x
    BY <1>4 DEF Run!AfterFailure
  <2>2. QED
    BY <1>4, <2>1
<1>5. QED
  BY <1>1, <1>2, <1>3, <1>4

-----------------------------------------------------------------------------
(* Steps that change nothing on the target.                                *)

LEMMA FilesKept ==
  ASSUME WholeOK, OutputOK, Stays, step' = step, t' = t, status' \in {status, "FAILED"}, reported' # "FAILED" => reported # "FAILED"
  PROVE  WholeOK' /\ OutputOK'
<1>1. Run!Stage' = Run!Stage /\ StepsNow' = StepsNow /\ config' = config /\ at' = at
  BY StaysThere DEF Stays
<1>2. Run!Result(t)' = Run!Result(t)
  BY <1>1 DEF Run!Result
<1>3. WholeOK'
  <2>1. (Past("Shrink")' <=> Past("Shrink")) /\ (Past("Compress")' <=> Past("Compress"))
    BY PastKept
  <2>2. QED
    BY <1>1, <1>2, <2>1 DEF WholeOK
<1>4. OutputOK'
  <2>1. \A x \in SaveStages : Past(x)' <=> Past(x)
    BY PastKept
  <2>2. Run!ResultIsWhole'
    BY <1>1, <1>2 DEF OutputOK, Run!ResultIsWhole
  <2>3. QED
    BY <1>1, <2>1, <2>2 DEF OutputOK
<1>5. QED
  BY <1>3, <1>4

LEMMA HeldKept ==
  ASSUME MountsOK, ImageOK, LiveOK, Stays, step' = step, t' = t, UNCHANGED <<mounted, dopen>>,
         \/ canceled' = TRUE
         \/ /\ canceled' = canceled
            /\ \/ finishing' = finishing /\ status' = status
               \/ finishing \in {"no", "cleanup"} /\ finishing' \in {"cleanup", "unmount", "live"}
  PROVE  MountsOK' /\ ImageOK' /\ LiveOK'
<1>1. Run!Stage' = Run!Stage /\ StepsNow' = StepsNow /\ config' = config /\ at' = at
  BY StaysThere DEF Stays
<1>2. MountsOK'
  BY <1>1 DEF MountsOK
<1>3. ImageOK'
  BY <1>1 DEF ImageOK
<1>4. LiveOK'
  BY <1>1 DEF LiveOK
<1>5. QED
  BY <1>2, <1>3, <1>4

LEMMA TargetThread ==
  ASSUME ControlInv, TargetInv, Run!StageStarts \/ Run!StageCompletes \/ Run!CommandStarts
  PROVE  TargetInv'
<1>1. ControlTypeOK /\ ControlOK /\ t \in TargetType /\ MountsOK /\ ImageOK /\ LiveOK /\ PartOK /\ WholeOK /\ OutputOK
  BY DEF ControlInv, TargetInv
<1>2. /\ UNCHANGED <<config, at, status, finishing, canceled, step, mounted, dopen, t>> /\ thread # "none"
      /\ thread = "starting" => thread' = "step"
  BY DEF Run!StageStarts, Run!StageCompletes, Run!CommandStarts, Run!procVars
<1>3. Stays /\ reported = "none" /\ Run!Stage' = Run!Stage /\ StepsNow' = StepsNow
  BY <1>1, <1>2, StaysThere DEF Stays, ControlOK
<1>4. WholeOK' /\ OutputOK'
  BY <1>1, <1>2, <1>3, FilesKept
<1>5. MountsOK' /\ ImageOK' /\ LiveOK'
  BY <1>1, <1>2, <1>3, HeldKept
<1>6. PartOK'
  <2>1. CASE Run!StageStarts
    BY <1>1, <1>2, <1>3, <2>1 DEF PartOK, Run!StageStarts
  <2>2. CASE Run!StageCompletes
    <3>1. t.part = "none"
      <4>1. SUFFICES ASSUME t.part # "none" PROVE FALSE
        OBVIOUS
      <4>2. step = 2 /\ Len(StepsNow) >= 2 /\ at > 0
        BY <1>1, <4>1 DEF PartOK
      <4>3. step > Len(StepsNow)
        BY <2>2 DEF Run!StageCompletes, StepsNow
      <4>4. Len(StepsNow) \in Nat
        BY <1>1, <4>2, StepsNowLen
      <4>5. QED
        BY <4>2, <4>3, <4>4
    <3>2. QED
      BY <1>2, <3>1 DEF PartOK
  <2>3. CASE Run!CommandStarts
    BY <1>1, <1>2, <1>3, <2>3 DEF PartOK, Run!CommandStarts
  <2>4. QED
    BY <2>1, <2>2, <2>3
<1>7. QED
  BY <1>1, <1>2, <1>4, <1>5, <1>6 DEF TargetInv

LEMMA TargetCancel == ASSUME ControlInv, TargetInv, Run!Cancel PROVE TargetInv'
<1>1. ControlTypeOK /\ ControlOK /\ t \in TargetType /\ MountsOK /\ ImageOK /\ LiveOK /\ PartOK /\ WholeOK /\ OutputOK
  BY DEF ControlInv, TargetInv
<1>2. /\ UNCHANGED <<config, at, step, thread, reported, mounted, dopen, t>>
      /\ status' = "FAILED" /\ canceled' = TRUE /\ finishing' = "cleanup"
  BY DEF Run!Cancel
<1>3. Stays /\ Run!Stage' = Run!Stage /\ StepsNow' = StepsNow
  BY <1>2, StaysThere DEF Stays
<1>4. WholeOK' /\ OutputOK'
  BY <1>1, <1>2, <1>3, FilesKept
<1>5. MountsOK' /\ ImageOK' /\ LiveOK'
  BY <1>1, <1>2, <1>3, HeldKept
<1>6. PartOK'
  BY <1>1, <1>2, <1>3 DEF PartOK
<1>7. QED
  BY <1>1, <1>2, <1>4, <1>5, <1>6 DEF TargetInv

LEMMA TargetStays == ASSUME ControlInv, TargetInv, UNCHANGED runVars PROVE TargetInv'
<1>1. ControlTypeOK /\ ControlOK /\ t \in TargetType /\ MountsOK /\ ImageOK /\ LiveOK /\ PartOK /\ WholeOK /\ OutputOK
  BY DEF ControlInv, TargetInv
<1>2. UNCHANGED <<config, at, status, finishing, canceled, step, thread, reported, mounted, dopen, t>>
  BY DEF runVars
<1>3. Stays /\ Run!Stage' = Run!Stage /\ StepsNow' = StepsNow
  BY <1>2, StaysThere DEF Stays
<1>4. WholeOK' /\ OutputOK'
  BY <1>1, <1>2, <1>3, FilesKept
<1>5. MountsOK' /\ ImageOK' /\ LiveOK'
  BY <1>1, <1>2, <1>3, HeldKept
<1>6. PartOK'
  BY <1>1, <1>2, <1>3 DEF PartOK
<1>7. QED
  BY <1>1, <1>2, <1>4, <1>5, <1>6 DEF TargetInv

\* A deployment that completed has run its last stage, so all are past.
LEMMA AllArePast ==
  ASSUME ControlTypeOK, NEW x \in Names(config), at = Len(Run!Stages(config)), at > 0 => step > Len(StepsNow)
  PROVE  Past(x)
<1> DEFINE s == Run!Stages(config)
           n == Len(Run!Stages(config))
<1>1. Rising(s, Names(config), 1, 17)
  BY ConfigIs, StagesRising
<1>2. PICK j \in 1 .. n : s[j] = x
  BY <1>1 DEF Rising
<1>3. n \in Nat /\ \A i, k \in 1 .. n : i < k => Rank(s[i]) < Rank(s[k])
  BY <1>1, LenProperties DEF Rising
<1>4. at = n /\ Run!Stage = s[at]
  BY DEF Run!Stage
<1> HIDE DEF s, n
<1>5. at > 0
  BY <1>2, <1>3, <1>4
<1>6. CASE j = at
  BY <1>2, <1>4, <1>5, <1>6 DEF Past
<1>7. CASE j # at
  <2>1. j < at /\ at \in 1 .. n
    BY <1>2, <1>3, <1>4, <1>5, <1>7
  <2>2. Rank(x) < Rank(s[at])
    BY <1>2, <1>3, <2>1
  <2>3. QED
    BY <1>4, <1>5, <2>2, RanksAreNat DEF Past
<1>8. QED
  BY <1>6, <1>7

LEMMA SaveIsNamed ==
  ASSUME NEW c \in Run!ConfigType, c.target \in {"image", "iso", "disk"}
  PROVE  Save(c) \in Names(c) /\ Save(c) \in SaveStages
BY NamesHave DEF Save, SaveStages, Run!Image

\* The stages that matter do something.
LEMMA StepsAreThere ==
  ASSUME NEW c \in Run!ConfigType
  PROVE  /\ Len(Run!Steps("Shrink", c)) = 1 /\ Len(Run!Steps("Compress", c)) = 1
         /\ Delivers(c) /\ (c.target = "iso" => c.place # "made") =>
              /\ Len(Run!Steps(Save(c), c)) \in Nat /\ Len(Run!Steps(Save(c), c)) >= 1
              /\ \E n \in 1 .. Len(Run!Steps(Save(c), c)) : Run!Steps(Save(c), c)[n] \in Deliveries
<1>1. Len(Run!Steps("Shrink", c)) = 1 /\ Len(Run!Steps("Compress", c)) = 1
  <2>1. Len(<<"shrink">>) = 1 /\ Len(<<"compress">>) = 1
    OBVIOUS
  <2>2. QED
    BY <2>1, StepsOf
<1>2. SUFFICES ASSUME Delivers(c), c.target = "iso" => c.place # "made"
               PROVE  /\ Len(Run!Steps(Save(c), c)) \in Nat /\ Len(Run!Steps(Save(c), c)) >= 1
                      /\ \E n \in 1 .. Len(Run!Steps(Save(c), c)) : Run!Steps(Save(c), c)[n] \in Deliveries
  BY <1>1
<1>3. CASE c.target = "disk"
  <2>1. Save(c) = "WriteDisk"
    BY <1>3 DEF Save, Run!Image
  <2>2. Run!Steps(Save(c), c) = <<"alive", "wipe", "dd", "sync">>
    BY <2>1, StepsOf
  <2>3. Len(<<"alive", "wipe", "dd", "sync">>) = 4 /\ <<"alive", "wipe", "dd", "sync">>[3] = "dd"
    OBVIOUS
  <2>4. QED
    BY <2>2, <2>3 DEF Deliveries
<1>4. CASE c.target # "disk"
  <2>1. c.place # "made" /\ Save(c) \in Saves
    BY <1>2, <1>4 DEF Delivers, Save, Saves
  <2>2. PICK live \in BOOLEAN : Run!Steps(Save(c), c) = Run!Moves(c, live)
    BY <2>1, StepsOf DEF Saves
  <2>3. Run!Steps(Save(c), c) \in {<<"replace">>, <<"copy", "rename">>, <<"copy", "rename", "removeSource">>}
    BY <2>1, <2>2, MovesOf
  <2>4. CASE Run!Steps(Save(c), c) = <<"replace">>
    <3>1. Len(<<"replace">>) = 1 /\ <<"replace">>[1] \in Deliveries
      BY DEF Deliveries
    <3>2. QED
      BY <2>4, <3>1
  <2>5. CASE Run!Steps(Save(c), c) = <<"copy", "rename">>
    <3>1. Len(<<"copy", "rename">>) = 2 /\ <<"copy", "rename">>[2] \in Deliveries
      BY DEF Deliveries
    <3>2. QED
      BY <2>5, <3>1
  <2>6. CASE Run!Steps(Save(c), c) = <<"copy", "rename", "removeSource">>
    <3>1. Len(<<"copy", "rename", "removeSource">>) = 3 /\ <<"copy", "rename", "removeSource">>[2] \in Deliveries
      BY DEF Deliveries
    <3>2. QED
      BY <2>6, <3>1
  <2>7. QED
    BY <2>3, <2>4, <2>5, <2>6
<1>5. QED
  BY <1>3, <1>4

LEMMA IsoMoves == ASSUME ControlTypeOK PROVE config.target = "iso" => config.place # "made"
BY DeploymentAssumption DEF ControlTypeOK, Run!DeployAssumption

\* The next stage starts: nothing but it is begun.
LEMMA TargetNext ==
  ASSUME ControlInv, TargetInv, config' = config, at' = at + 1, step' = 1, at < Len(Run!Stages(config)),
         reported = "COMPLETED", status = "IN_PROGRESS", thread' = "starting", reported' = "none",
         UNCHANGED <<status, finishing, canceled, mounted, dopen, t>>
  PROVE  TargetInv'
<1>1. ControlTypeOK /\ ControlOK /\ t \in TargetType /\ MountsOK /\ ImageOK /\ LiveOK /\ PartOK /\ WholeOK /\ OutputOK
  BY DEF ControlInv, TargetInv
<1>2. at > 0 => step > Len(StepsNow)
  BY <1>1 DEF ControlOK
<1>3. config \in Run!ConfigType /\ Delivers(config)' = Delivers(config) /\ Save(config)' = Save(config)
  BY <1>1, ConfigIs
<1>4. ASSUME NEW x \in Names(config), Len(Run!Steps(x, config)) >= 1, Past(x)' PROVE Past(x)
  BY <1>1, <1>2, <1>4, PastNext
<1>5. t.part = "none" /\ finishing = "no"
  BY <1>1 DEF PartOK, ControlOK, ControlTypeOK
<1>6. MountsOK'
  BY <1>1, <1>5 DEF MountsOK
<1>7. ImageOK' /\ LiveOK'
  BY <1>1, <1>5 DEF ImageOK, LiveOK
<1>8. PartOK'
  BY <1>5 DEF PartOK
<1>9. WholeOK'
  <2>1. Run!Result(t)' = Run!Result(t)
    BY DEF Run!Result
  <2>2. Run!Image(config) => (Past("Shrink")' => Past("Shrink"))
    <3>1. Run!Image(config) => "Shrink" \in Names(config) /\ Len(Run!Steps("Shrink", config)) >= 1
      BY <1>3, NamesHave, StepsAreThere
    <3>2. QED
      BY <1>4, <3>1
  <2>3. Run!Image(config) /\ config.compress => (Past("Compress")' => Past("Compress"))
    <3>1. Run!Image(config) /\ config.compress => "Compress" \in Names(config) /\ Len(Run!Steps("Compress", config)) >= 1
      BY <1>3, NamesHave, StepsAreThere
    <3>2. QED
      BY <1>4, <3>1
  <2>4. Past("Shrink") => Past("Shrink")'
    <3>1. SUFFICES ASSUME Past("Shrink") PROVE Past("Shrink")'
      OBVIOUS
    <3>2. at > 0 /\ Rank(Run!Stage) >= 14
      BY <3>1, RanksAreNat DEF Past, Rank
    <3>3. Rank(Run!Stage) < Rank(Run!Stage')
      <4>1. at \in 1 .. Len(Run!Stages(config)) /\ Len(Run!Stages(config)) \in Nat /\ Rising(Run!Stages(config), Names(config), 1, 17)
        BY <1>1, <3>2, StageNamed
      <4>2. at + 1 \in 1 .. Len(Run!Stages(config)) /\ at < at + 1
        BY <4>1
      <4>3. Rank(Run!Stages(config)[at]) < Rank(Run!Stages(config)[at + 1])
        BY <4>1, <4>2 DEF Rising
      <4>4. QED
        BY <4>3 DEF Run!Stage
    <3>4. at' > 0 /\ Rank("Shrink") = 14
      BY <1>1, <3>2 DEF ControlTypeOK, Rank
    <3>5. Rank(Run!Stage') > 14
      BY <3>2, <3>3, RanksAreNat
    <3>6. QED
      BY <3>4, <3>5 DEF Past
  <2>5. t.xz # "none" => Run!Image(config)
    BY <1>1 DEF ImageOK
  <2>6. QED
    BY <1>1, <2>1, <2>2, <2>3, <2>4, <2>5 DEF WholeOK
<1>10. OutputOK'
  <2>1. ASSUME NEW x \in SaveStages, Delivers(config), x = Save(config), Past(x)' PROVE t.output = "whole"
    <3>1. config.target \in {"image", "iso", "disk"}
      BY <2>1 DEF Delivers, Run!Image
    <3>2. x \in Names(config) /\ Len(Run!Steps(x, config)) >= 1
      BY <1>1, <1>3, <2>1, <3>1, SaveIsNamed, StepsAreThere, IsoMoves
    <3>3. Past(x)
      BY <1>4, <2>1, <3>2
    <3>4. QED
      BY <1>1, <2>1, <3>3 DEF OutputOK
  <2>2. \A n \in 1 .. Len(StepsNow)' : ~(n < step')
    OBVIOUS
  <2>3. Run!ResultIsWhole'
    BY <1>1 DEF OutputOK, Run!ResultIsWhole
  <2>4. config.target \in {"image", "iso"} => t.output \in {"none", "whole"}
    BY <1>1 DEF OutputOK
  <2>5. QED
    BY <1>3, <2>1, <2>2, <2>3, <2>4 DEF OutputOK
<1>11. QED
  BY <1>1, <1>6, <1>7, <1>8, <1>9, <1>10 DEF TargetInv

\* The last stage has completed.
LEMMA ResultAtEnd ==
  ASSUME ControlInv, TargetInv, reported = "COMPLETED", status = "IN_PROGRESS", at = Len(Run!Stages(config)),
         config.target \in {"image", "iso", "disk"}
  PROVE  IF config.target = "image" /\ config.place = "made" THEN Run!Result(t) = "whole" ELSE t.output = "whole"
<1>1. ControlTypeOK /\ ControlOK /\ WholeOK /\ OutputOK /\ config \in Run!ConfigType
  BY ConfigIs DEF ControlInv, TargetInv
<1>2. at > 0 => step > Len(StepsNow)
  BY <1>1 DEF ControlOK
<1>3. \A x \in Names(config) : Past(x)
  BY <1>1, <1>2, AllArePast
<1>4. CASE config.target = "image" /\ config.place = "made"
  <2>1. Past("Shrink") /\ Run!Image(config)
    BY <1>1, <1>3, <1>4, NamesHave DEF Run!Image
  <2>2. QED
    BY <1>1, <1>4, <2>1 DEF WholeOK
<1>5. CASE ~(config.target = "image" /\ config.place = "made")
  <2>1. Delivers(config)
    BY <1>5 DEF Delivers, Run!Image
  <2>2. Save(config) \in SaveStages /\ Past(Save(config))
    BY <1>1, <1>3, SaveIsNamed
  <2>3. t.output = "whole"
    BY <1>1, <2>1, <2>2 DEF OutputOK
  <2>4. QED
    BY <1>5, <2>3
<1>6. QED
  BY <1>4, <1>5

LEMMA TargetContinue == ASSUME ControlInv, TargetInv, Run!Continue PROVE TargetInv'
<1>1. ControlTypeOK /\ ControlOK /\ t \in TargetType /\ MountsOK /\ ImageOK /\ LiveOK /\ PartOK /\ WholeOK /\ OutputOK
  BY DEF ControlInv, TargetInv
<1>2. config' = config /\ reported # "none" /\ reported' = "none" /\ UNCHANGED <<canceled, mounted, dopen, t>>
  BY DEF Run!Continue, Run!procVars
<1>3. CASE UNCHANGED <<status, at, finishing, thread, step>> /\ status # "IN_PROGRESS"
  <2>1. Stays /\ Run!Stage' = Run!Stage /\ StepsNow' = StepsNow
    BY <1>2, <1>3, StaysThere DEF Stays
  <2>2. canceled /\ status = "FAILED"
    BY <1>1, <1>2, <1>3 DEF ControlOK, ControlTypeOK
  <2>3. OutputOK' /\ MountsOK' /\ ImageOK' /\ LiveOK' /\ PartOK'
    <3>1. MountsOK' /\ ImageOK' /\ LiveOK'
      BY <1>1, <1>2, <1>3, <2>1, HeldKept
    <3>2. PartOK'
      BY <1>1, <1>2, <1>3, <2>1 DEF PartOK
    <3>3. OutputOK'
      <4>1. \A x \in SaveStages : Past(x)' <=> Past(x)
        BY <1>3, <2>1, PastKept
      <4>2. Run!ResultIsWhole'
        BY <1>1, <1>2, <1>3, <2>2 DEF OutputOK, Run!ResultIsWhole
      <4>3. QED
        BY <1>1, <1>2, <1>3, <2>1, <4>1, <4>2 DEF OutputOK
    <3>4. QED
      BY <3>1, <3>2, <3>3
  <2>4. WholeOK'
    <3>1. (Past("Shrink")' <=> Past("Shrink")) /\ (Past("Compress")' <=> Past("Compress"))
      BY <1>3, <2>1, PastKept
    <3>2. QED
      BY <1>1, <1>2, <1>3, <2>2, <3>1 DEF WholeOK
  <2>5. QED
    BY <1>1, <1>2, <2>3, <2>4 DEF TargetInv
<1>4. CASE /\ status = "IN_PROGRESS" /\ at < Len(Run!Stages(config)) /\ reported = "COMPLETED"
           /\ at' = at + 1 /\ thread' = "starting" /\ step' = 1 /\ UNCHANGED <<status, finishing>>
  BY <1>2, <1>4, TargetNext
<1>5. CASE /\ status = "IN_PROGRESS" /\ finishing' = "cleanup" /\ UNCHANGED <<at, thread, step>>
           /\ status' = "FAILED" \/ (status' = "COMPLETED" /\ reported = "COMPLETED" /\ at = Len(Run!Stages(config)))
  <2>1. Stays /\ Run!Stage' = Run!Stage /\ StepsNow' = StepsNow /\ finishing = "no"
    BY <1>1, <1>2, <1>5, StaysThere DEF Stays, ControlOK
  <2>2. MountsOK' /\ ImageOK' /\ LiveOK'
    BY <1>1, <1>2, <1>5, <2>1, HeldKept
  <2>3. PartOK'
    BY <1>1, <1>2, <1>5, <2>1 DEF PartOK
  <2>4. WholeOK'
    <3>1. (Past("Shrink")' <=> Past("Shrink")) /\ (Past("Compress")' <=> Past("Compress")) /\ Run!Result(t)' = Run!Result(t)
      BY <1>2, <1>5, <2>1, PastKept DEF Run!Result
    <3>2. QED
      BY <1>1, <1>2, <1>5, <3>1 DEF WholeOK
  <2>5. OutputOK'
    <3>1. \A x \in SaveStages : Past(x)' <=> Past(x)
      BY <1>5, <2>1, PastKept
    <3>2. Run!ResultIsWhole'
      <4>1. config.target \in {"image", "iso"} => t.output \in {"none", "whole"}
        BY <1>1 DEF OutputOK
      <4>2. Run!Result(t)' = Run!Result(t)
        BY <1>2 DEF Run!Result
      <4>3. CASE status' = "FAILED"
        BY <1>2, <4>1, <4>3 DEF Run!ResultIsWhole
      <4>4. CASE status' = "COMPLETED" /\ reported = "COMPLETED" /\ at = Len(Run!Stages(config))
        BY <1>2, <1>5, <4>1, <4>2, <4>4, ResultAtEnd DEF Run!ResultIsWhole
      <4>5. QED
        BY <1>5, <4>3, <4>4
    <3>3. QED
      BY <1>1, <1>2, <1>5, <2>1, <3>1, <3>2 DEF OutputOK
  <2>6. QED
    BY <1>1, <1>2, <2>2, <2>3, <2>4, <2>5 DEF TargetInv
<1>6. QED
  <2>1. CASE status # "IN_PROGRESS"
    BY <1>3, <2>1 DEF Run!Continue, Run!procVars
  <2>2. CASE status = "IN_PROGRESS" /\ reported = "FAILED"
    BY <1>5, <2>2 DEF Run!Continue
  <2>3. CASE status = "IN_PROGRESS" /\ reported = "COMPLETED" /\ at < Len(Run!Stages(config))
    BY <1>4, <2>3 DEF Run!Continue
  <2>4. CASE status = "IN_PROGRESS" /\ reported = "COMPLETED" /\ ~(at < Len(Run!Stages(config)))
    <3>1. status' = "COMPLETED" /\ finishing' = "cleanup" /\ UNCHANGED <<at, thread, step>>
      BY <2>4 DEF Run!Continue
    <3>2. at = Len(Run!Stages(config))
      <4>1. Len(Run!Stages(config)) \in Nat
        BY <1>1, ConfigIs, StagesRising, LenProperties DEF Rising
      <4>2. QED
        BY <1>1, <2>4, <4>1 DEF ControlTypeOK
    <3>3. QED
      BY <1>5, <2>4, <3>1, <3>2
  <2>5. QED
    BY <1>1, <1>2, <2>1, <2>2, <2>3, <2>4 DEF ControlTypeOK

-----------------------------------------------------------------------------
(* The end of a deployment.                                                *)

LEMMA FilesLessen ==
  ASSUME WholeOK, OutputOK, Stays, step' = step, UNCHANGED <<status, reported>>,
         t'.output = t.output, t'.xz \in {t.xz, "none"}, t'.image \in {t.image, "none"},
         Run!Image(config) /\ status # "FAILED" => t'.xz = t.xz /\ t'.image = t.image
  PROVE  WholeOK' /\ OutputOK'
<1>1. Run!Stage' = Run!Stage /\ StepsNow' = StepsNow /\ config' = config /\ at' = at
  BY StaysThere DEF Stays
<1>2. Run!Image(config) /\ status # "FAILED" => Run!Result(t)' = Run!Result(t)
  BY <1>1 DEF Run!Result
<1>3. WholeOK'
  <2>1. (Past("Shrink")' <=> Past("Shrink")) /\ (Past("Compress")' <=> Past("Compress"))
    BY PastKept
  <2>2. QED
    BY <1>1, <1>2, <2>1 DEF WholeOK
<1>4. OutputOK'
  <2>1. \A x \in SaveStages : Past(x)' <=> Past(x)
    BY PastKept
  <2>2. Run!ResultIsWhole'
    BY <1>1, <1>2 DEF OutputOK, Run!ResultIsWhole, Run!Image
  <2>3. QED
    BY <1>1, <2>1, <2>2 DEF OutputOK
<1>5. QED
  BY <1>3, <1>4

LEMMA TargetFinishes == ASSUME ControlInv, TargetInv, Run!Finishes PROVE TargetInv'
<1>1. ControlTypeOK /\ ControlOK /\ t \in TargetType /\ MountsOK /\ ImageOK /\ LiveOK /\ PartOK /\ WholeOK /\ OutputOK
  BY DEF ControlInv, TargetInv
<1>2. UNCHANGED <<config, status, at, canceled, thread, step, event, reported>>
  BY DEF Run!Finishes, Run!Cleanup, Run!Unmount, Run!Detach, Run!RemoveLive, Run!Close, Run!FinishStep, Run!threadVars
<1>3. Stays /\ Run!Stage' = Run!Stage /\ StepsNow' = StepsNow
  BY <1>2, StaysThere DEF Stays
<1>4. CASE Run!Cleanup
  <2>1. t' = t /\ UNCHANGED <<mounted, dopen>> /\ finishing = "cleanup" /\ finishing' \in {"live", "unmount"}
    BY <1>4 DEF Run!Cleanup, Run!FinishStep
  <2>2. WholeOK' /\ OutputOK' /\ MountsOK' /\ ImageOK' /\ LiveOK'
    BY <1>1, <1>2, <1>3, <2>1, FilesKept, HeldKept
  <2>3. PartOK'
    BY <1>1, <1>2, <1>3, <2>1 DEF PartOK
  <2>4. QED
    BY <1>1, <2>1, <2>2, <2>3 DEF TargetInv
<1>5. CASE Run!Unmount
  <2>1. /\ finishing = "unmount" /\ finishing' = "detach" /\ dopen' = dopen
        /\ t' = t \/ t' = [t EXCEPT !.mounts = FALSE]
        /\ mounted /\ config.target # "ssh" /\ "target" \in dopen => ~t'.mounts
    <3>1. finishing = "unmount" /\ finishing' = "detach" /\ dopen' = dopen
      BY <1>5 DEF Run!Unmount, Run!FinishStep
    <3>2. CASE mounted /\ config.target # "ssh"
      <4>1. t' = [t EXCEPT !.mounts = IF "target" \in dopen THEN FALSE ELSE @]
        BY <1>5, <3>2 DEF Run!Unmount
      <4>2. CASE "target" \in dopen
        BY <1>1, <3>1, <4>1, <4>2 DEF TargetType
      <4>3. CASE "target" \notin dopen
        <5>1. [t EXCEPT !.mounts = t.mounts] = t
          BY <1>1 DEF TargetType
        <5>2. QED
          BY <3>1, <4>1, <4>3, <5>1
      <4>4. QED
        BY <4>2, <4>3
    <3>3. CASE ~(mounted /\ config.target # "ssh")
      BY <1>5, <3>1, <3>3 DEF Run!Unmount
    <3>4. QED
      BY <3>2, <3>3
  <2>2. /\ t' \in TargetType /\ (t'.mounts => t.mounts)
        /\ t'.loop = t.loop /\ t'.image = t.image /\ t'.xz = t.xz /\ t'.output = t.output /\ t'.part = t.part
        /\ t'.folder = t.folder /\ t'.workspace = t.workspace /\ t'.live = t.live
    <3>1. CASE t' = t
      BY <1>1, <3>1
    <3>2. CASE t' = [t EXCEPT !.mounts = FALSE]
      BY <1>1, <3>2 DEF TargetType
    <3>3. QED
      BY <2>1, <3>1, <3>2
  <2>3. WholeOK' /\ OutputOK'
    BY <1>1, <1>2, <1>3, <2>2, FilesLessen
  <2>4. MountsOK'
    BY <1>1, <1>2, <1>3, <2>1, <2>2 DEF MountsOK
  <2>5. ImageOK' /\ LiveOK'
    BY <1>1, <1>2, <1>3, <2>1, <2>2 DEF ImageOK, LiveOK
  <2>6. PartOK'
    BY <1>1, <1>2, <1>3, <2>2 DEF PartOK
  <2>7. QED
    BY <2>2, <2>3, <2>4, <2>5, <2>6 DEF TargetInv
<1>6. CASE Run!Detach
  <2>1. finishing = "detach" /\ finishing' = "close" /\ UNCHANGED <<mounted, dopen>>
    BY <1>6 DEF Run!Detach, Run!FinishStep
  <2>2. /\ t' \in TargetType /\ t'.mounts = t.mounts /\ t'.output = t.output /\ t'.part = t.part
        /\ t'.folder = t.folder /\ t'.workspace = t.workspace /\ t'.live = t.live
        /\ (t'.loop => t.loop) /\ t'.image \in {t.image, "none"} /\ t'.xz \in {t.xz, "none"}
        /\ status = "COMPLETED" => t'.image = t.image /\ t'.xz = t.xz
        /\ Run!Image(config) /\ "target" \in dopen => ~t'.loop /\ (status = "FAILED" => t'.image = "none" /\ t'.xz = "none")
        /\ ~Run!Image(config) \/ "target" \notin dopen => t' = t
    <3>1. CASE ~Run!Image(config) \/ "target" \notin dopen
      BY <1>1, <1>6, <3>1 DEF Run!Detach
    <3>2. CASE Run!Image(config) /\ "target" \in dopen /\ status = "COMPLETED"
      <4>1. t' = [t EXCEPT !.loop = FALSE, !.image = t.image, !.xz = t.xz]
        BY <1>1, <1>6, <3>2 DEF Run!Detach, TargetType
      <4>2. QED
        BY <1>1, <3>2, <4>1 DEF TargetType
    <3>3. CASE Run!Image(config) /\ "target" \in dopen /\ status # "COMPLETED"
      <4>1. t' = [t EXCEPT !.loop = FALSE, !.image = "none", !.xz = "none"]
        BY <1>1, <1>6, <3>3 DEF Run!Detach, TargetType
      <4>2. QED
        BY <1>1, <3>3, <4>1 DEF TargetType, Files
    <3>4. QED
      BY <3>1, <3>2, <3>3
  <2>3. status \in {"COMPLETED", "FAILED"}
    BY <1>1, <2>1 DEF ControlTypeOK, ControlOK
  <2>4. WholeOK' /\ OutputOK'
    BY <1>1, <1>2, <1>3, <2>2, <2>3, FilesLessen
  <2>5. MountsOK'
    BY <1>1, <1>2, <1>3, <2>1, <2>2 DEF MountsOK
  <2>6. ImageOK'
    BY <1>1, <1>2, <1>3, <2>1, <2>2 DEF ImageOK
  <2>7. LiveOK'
    BY <1>1, <1>2, <1>3, <2>1, <2>2 DEF LiveOK, ControlOK
  <2>8. PartOK'
    BY <1>1, <1>2, <1>3, <2>2 DEF PartOK
  <2>9. QED
    BY <2>2, <2>4, <2>5, <2>6, <2>7, <2>8 DEF TargetInv
<1>7. CASE Run!RemoveLive
  <2>1. finishing = "live" /\ finishing' = "close" /\ UNCHANGED <<mounted, dopen>>
    BY <1>7 DEF Run!RemoveLive, Run!FinishStep
  <2>2. Run!Live(config) /\ ~Run!Image(config)
    BY <1>1, <2>1 DEF ControlOK, Run!Live, Run!Image
  <2>3. /\ t' \in TargetType /\ t'.mounts = t.mounts /\ t'.loop = t.loop /\ t'.output = t.output /\ t'.xz = t.xz
        /\ t'.part \in {t.part, "none"} /\ ~t'.folder /\ ~t'.workspace /\ t'.image = "none" /\ (t'.live => t.live)
        /\ "tools" \in dopen => ~t'.live
    <3> DEFINE l == IF "tools" \in dopen THEN FALSE ELSE t.live
               p == IF status = "COMPLETED" THEN t.part ELSE "none"
    <3>1. t' = [t EXCEPT !.live = l, !.folder = FALSE, !.tmp = FALSE, !.workspace = FALSE, !.image = "none", !.part = p]
      BY <1>1, <1>7 DEF Run!RemoveLive, TargetType
    <3>2. l \in BOOLEAN /\ p \in Files /\ p \in {t.part, "none"} /\ (l => t.live) /\ ("tools" \in dopen => ~l)
      BY <1>1 DEF TargetType, Files
    <3> HIDE DEF l, p
    <3>3. t' \in TargetType /\ t'.live = l /\ t'.part = p /\ t'.mounts = t.mounts /\ t'.loop = t.loop /\ t'.output = t.output
          /\ t'.xz = t.xz /\ ~t'.folder /\ ~t'.workspace /\ t'.image = "none"
      BY <1>1, <3>1, <3>2 DEF TargetType, Files
    <3>4. QED
      BY <3>2, <3>3
  <2>4. WholeOK' /\ OutputOK'
    BY <1>1, <1>2, <1>3, <2>2, <2>3, FilesLessen
  <2>5. MountsOK'
    BY <1>1, <1>2, <1>3, <2>1, <2>2, <2>3 DEF MountsOK
  <2>6. ImageOK'
    BY <1>1, <1>2, <1>3, <2>1, <2>2, <2>3 DEF ImageOK
  <2>7. LiveOK'
    BY <1>1, <1>2, <1>3, <2>1, <2>2, <2>3 DEF LiveOK
  <2>8. PartOK'
    BY <1>1, <1>2, <1>3, <2>3 DEF PartOK
  <2>9. QED
    BY <2>3, <2>4, <2>5, <2>6, <2>7, <2>8 DEF TargetInv
<1>8. CASE Run!Close
  <2>1. t' = t /\ mounted' = mounted /\ dopen' = {} /\ finishing = "close" /\ finishing' = "closed"
    BY <1>8 DEF Run!Close, Run!FinishStep
  <2>2. WholeOK' /\ OutputOK'
    BY <1>1, <1>2, <1>3, <2>1, FilesKept
  <2>3. MountsOK' /\ ImageOK' /\ LiveOK'
    BY <1>1, <1>2, <1>3, <2>1 DEF MountsOK, ImageOK, LiveOK
  <2>4. PartOK'
    BY <1>1, <1>2, <1>3, <2>1 DEF PartOK
  <2>5. QED
    BY <1>1, <2>1, <2>2, <2>3, <2>4 DEF TargetInv
<1>9. QED
  BY <1>4, <1>5, <1>6, <1>7, <1>8 DEF Run!Finishes

LEMMA TargetInit == Run!Init => TargetInv
<1>1. SUFFICES ASSUME Run!Init PROVE TargetInv
  OBVIOUS
<1>2. /\ t = Run!Nothing /\ at = 0 /\ finishing = "no" /\ canceled = FALSE /\ status = "IN_PROGRESS"
  BY <1>1 DEF Run!Init
<1>3. /\ ~t.mounts /\ ~t.loop /\ t.image = "none" /\ t.xz = "none" /\ t.output = "none" /\ t.part = "none"
      /\ ~t.folder /\ ~t.workspace /\ ~t.live /\ t \in TargetType
  BY <1>2 DEF Run!Nothing, TargetType, Files
<1>4. \A x : ~Past(x)
  BY <1>2 DEF Past
<1>5. MountsOK /\ ImageOK /\ LiveOK /\ PartOK
  BY <1>2, <1>3 DEF MountsOK, ImageOK, LiveOK, PartOK
<1>6. WholeOK
  BY <1>3, <1>4 DEF WholeOK
<1>7. OutputOK
  BY <1>2, <1>3, <1>4 DEF OutputOK, Run!ResultIsWhole
<1>8. QED
  BY <1>3, <1>5, <1>6, <1>7 DEF TargetInv

-----------------------------------------------------------------------------
(* Commands.                                                               *)

LEMMA StageOps ==
  ASSUME ControlTypeOK, ControlOK, thread = "command"
  PROVE  /\ Run!Stage = "Mount" => (step = 1 /\ Run!Op = "mark") \/ (step = 2 /\ Run!Op = "mount")
         /\ Run!Stage = "Finish" => (step = 1 /\ Run!Op = "umount") \/ (step = 2 /\ Run!Op = "unmark")
         /\ Run!Stage = "Shrink" => step = 1 /\ Run!Op = "shrink" /\ Len(StepsNow) = 1
         /\ Run!Stage = "Compress" => step = 1 /\ Run!Op = "compress" /\ Len(StepsNow) = 1
         /\ Run!Stage \in Saves => config.place # "made" /\ (step = 2 => Run!Op = "rename")
         /\ Run!Stage = "WriteDisk" =>
              Len(StepsNow) = 4 /\ StepsNow[1] \notin Deliveries /\ StepsNow[2] \notin Deliveries
<1>1. step \in 1 .. Len(StepsNow) /\ Run!Op = StepsNow[step]
  BY OpDoes DEF Run!Op, StepsNow
<1>2. CASE Run!Stage = "Mount"
  <2>1. StepsNow = <<"mark", "mount">>
    BY <1>2, StepsOf DEF StepsNow
  <2>2. (step = 1 /\ Run!Op = "mark") \/ (step = 2 /\ Run!Op = "mount")
    BY <1>1, <2>1, TwoOf
  <2>3. QED
    BY <1>2, <2>2 DEF Saves
<1>3. CASE Run!Stage = "Finish"
  <2>1. StepsNow = <<"umount", "unmark">>
    BY <1>3, StepsOf DEF StepsNow
  <2>2. (step = 1 /\ Run!Op = "umount") \/ (step = 2 /\ Run!Op = "unmark")
    BY <1>1, <2>1, TwoOf
  <2>3. QED
    BY <1>3, <2>2 DEF Saves
<1>4. CASE Run!Stage = "Shrink"
  <2>1. StepsNow = <<"shrink">>
    BY <1>4, StepsOf DEF StepsNow
  <2>2. step = 1 /\ Run!Op = "shrink" /\ Len(StepsNow) = 1
    BY <1>1, <2>1, OneOf
  <2>3. QED
    BY <1>4, <2>2 DEF Saves
<1>5. CASE Run!Stage = "Compress"
  <2>1. StepsNow = <<"compress">>
    BY <1>5, StepsOf DEF StepsNow
  <2>2. step = 1 /\ Run!Op = "compress" /\ Len(StepsNow) = 1
    BY <1>1, <2>1, OneOf
  <2>3. QED
    BY <1>5, <2>2 DEF Saves
<1>6. CASE Run!Stage \in Saves
  <2>1. PICK live \in BOOLEAN : StepsNow = Run!Moves(config, live)
    BY <1>6, StepsOf DEF Saves, StepsNow
  <2>2. /\ StepsNow \in {<<>>, <<"replace">>, <<"copy", "rename">>, <<"copy", "rename", "removeSource">>}
        /\ config.place = "made" => StepsNow = <<>>
    BY <2>1, MovesOf
  <2>3. config.place # "made"
    BY <1>1, <2>2
  <2>4. step = 2 => Run!Op = "rename"
    <3>1. Len(<<"replace">>) = 1 /\ <<"copy", "rename">>[2] = "rename" /\ <<"copy", "rename", "removeSource">>[2] = "rename"
      OBVIOUS
    <3>2. CASE StepsNow \in {<<>>, <<"replace">>}
      BY <1>1, <3>1, <3>2
    <3>3. CASE StepsNow \in {<<"copy", "rename">>, <<"copy", "rename", "removeSource">>}
      BY <1>1, <3>1, <3>3
    <3>4. QED
      BY <2>2, <3>2, <3>3
  <2>5. QED
    BY <1>6, <2>3, <2>4 DEF Saves
<1>7. CASE Run!Stage = "WriteDisk"
  <2>1. StepsNow = <<"alive", "wipe", "dd", "sync">>
    BY <1>7, StepsOf DEF StepsNow
  <2>2. /\ Len(<<"alive", "wipe", "dd", "sync">>) = 4 /\ <<"alive", "wipe", "dd", "sync">>[1] = "alive"
        /\ <<"alive", "wipe", "dd", "sync">>[2] = "wipe"
    OBVIOUS
  <2>3. "alive" \notin Deliveries /\ "wipe" \notin Deliveries
    BY DEF Deliveries
  <2>4. Len(StepsNow) = 4 /\ StepsNow[1] \notin Deliveries /\ StepsNow[2] \notin Deliveries
    BY <2>1, <2>2, <2>3
  <2>5. QED
    BY <1>7, <2>4 DEF Saves
<1>8. CASE Run!Stage \notin {"Mount", "Finish", "Shrink", "Compress", "WriteDisk"} /\ Run!Stage \notin Saves
  BY <1>8
<1>9. QED
  BY <1>2, <1>3, <1>4, <1>5, <1>6, <1>7, <1>8

\* Where an operation is done, and what has been before it.
LEMMA OpFits ==
  ASSUME ControlTypeOK, ControlOK, thread = "command"
  PROVE  /\ Run!Op \in {"create", "shrink", "compress", "removeSource"} => Run!Image(config)
         /\ Run!Op = "mount" => ~Run!Live(config) /\ Run!Stage = "Mount" /\ step = 2
         /\ Run!Op \in {"makeFolder", "workspace", "unpack", "writeIso", "renameIso", "dd"} => Run!Live(config)
         /\ Run!Op = "dd" => Run!Stage = "WriteDisk" /\ step = 3 /\ config.target = "disk"
         /\ Run!Op = "compress" => config.compress
         /\ Run!Op \in {"replace", "copy", "rename", "removeSource"} => Run!Stage \in Saves
         /\ Run!Live(config) => ~Run!Image(config)
<1>1. Run!Stage \in Names(config) /\ Does(Run!Stage, step, Run!Op, Len(StepsNow)) /\ config \in Run!ConfigType
  BY OpDoes, ConfigIs
<1>2. /\ Run!Stage \in {"CreateImage", "Shrink", "Compress", "SaveImage"} => Run!Image(config)
      /\ Run!Stage = "Mount" => ~Run!Live(config)
      /\ Run!Stage \in {"Prepare", "LiveSystem", "WriteIso", "WriteDisk"} => Run!Live(config)
      /\ Run!Stage = "Compress" => config.compress
      /\ Run!Stage = "WriteDisk" => config.target = "disk"
  BY <1>1, NamesFit
<1>3. Run!Op \in {"create", "shrink", "compress", "removeSource"} => Run!Image(config)
  BY <1>1, <1>2 DEF Does
<1>4. Run!Op = "mount" => ~Run!Live(config) /\ Run!Stage = "Mount" /\ step = 2
  BY <1>1, <1>2 DEF Does
<1>5. Run!Op \in {"makeFolder", "workspace", "unpack", "writeIso", "renameIso", "dd"} => Run!Live(config)
  BY <1>1, <1>2 DEF Does
<1>6. Run!Op = "dd" => Run!Stage = "WriteDisk" /\ step = 3 /\ config.target = "disk"
  BY <1>1, <1>2 DEF Does
<1>7. Run!Op = "compress" => config.compress
  BY <1>1, <1>2 DEF Does
<1>8. Run!Op \in {"replace", "copy", "rename", "removeSource"} => Run!Stage \in Saves
  BY <1>1 DEF Does, Saves
<1>9. Run!Live(config) => ~Run!Image(config)
  BY DEF Run!Live, Run!Image
<1>10. QED
  BY <1>3, <1>4, <1>5, <1>6, <1>7, <1>8, <1>9

\* What is past while the image is made, compressed and saved.
LEMMA OpPast ==
  ASSUME ControlTypeOK, ControlOK, thread = "command"
  PROVE  /\ Run!Op = "create" => Run!Stage # "Shrink" /\ ~Past("Shrink")
         /\ Run!Op = "shrink" => ~Past("Shrink")
         /\ Run!Op = "compress" => Past("Shrink") /\ ~Past("Compress")
         /\ Run!Stage \in Saves => Run!Live(config) \/ (Run!Image(config) /\ Past("Shrink") /\ Past("Compress"))
         /\ Run!Stage = "WriteDisk" => ~Past("WriteDisk")
<1>1. at > 0 /\ Run!Stage \in Names(config) /\ Does(Run!Stage, step, Run!Op, Len(StepsNow)) /\ config \in Run!ConfigType
  BY OpDoes, ConfigIs
<1>2. step \in 1 .. Len(StepsNow) /\ Len(StepsNow) \in Nat
  BY <1>1, OpDoes, StepsNowLen
<1>3. /\ Rank("CreateImage") = 2 /\ Rank("Shrink") = 14 /\ Rank("Compress") = 15 /\ Rank("SaveImage") = 16
      /\ Rank("WriteDisk") = 8
  BY DEF Rank
<1>4. ~(step > Len(StepsNow))
  BY <1>2
<1>5. Run!Op = "create" => Run!Stage # "Shrink" /\ ~Past("Shrink")
  <2>1. Run!Op = "create" => Run!Stage = "CreateImage"
    BY <1>1 DEF Does
  <2>2. QED
    BY <1>3, <2>1 DEF Past
<1>6. Run!Op = "shrink" => ~Past("Shrink")
  <2>1. Run!Op = "shrink" => Run!Stage = "Shrink"
    BY <1>1 DEF Does
  <2>2. QED
    BY <1>3, <1>4, <2>1 DEF Past
<1>7. Run!Op = "compress" => Past("Shrink") /\ ~Past("Compress")
  <2>1. Run!Op = "compress" => Run!Stage = "Compress"
    BY <1>1 DEF Does
  <2>2. QED
    BY <1>1, <1>3, <1>4, <2>1 DEF Past
<1>8. Run!Stage \in Saves => Run!Live(config) \/ (Run!Image(config) /\ Past("Shrink") /\ Past("Compress"))
  <2>1. CASE Run!Stage = "SaveImage"
    <3>1. Run!Image(config)
      BY <1>1, <2>1, NamesFit
    <3>2. Past("Shrink") /\ Past("Compress")
      BY <1>1, <1>3, <2>1 DEF Past
    <3>3. QED
      BY <3>1, <3>2
  <2>2. CASE Run!Stage = "SaveIso"
    BY <1>1, <2>2, NamesFit
  <2>3. QED
    BY <2>1, <2>2 DEF Saves
<1>9. Run!Stage = "WriteDisk" => ~Past("WriteDisk")
  BY <1>3, <1>4 DEF Past
<1>10. QED
  BY <1>5, <1>6, <1>7, <1>8, <1>9

\* A command needs its connection.
LEMMA CommandReaches ==
  ASSUME Run!Reachable
  PROVE  /\ ~Run!Live(config) => "target" \in dopen
         /\ Run!Live(config) /\ Run!Op # "dd" => "tools" \in dopen
BY DEF Run!Reachable

LEMMA TargetFails == ASSUME ControlInv, TargetInv, Run!CommandFails PROVE TargetInv'
<1>1. ControlTypeOK /\ ControlOK /\ t \in TargetType /\ MountsOK /\ ImageOK /\ LiveOK /\ PartOK /\ WholeOK /\ OutputOK
  BY DEF ControlInv, TargetInv
<1>2. /\ UNCHANGED <<config, at, status, finishing, canceled, step, event, mounted, dopen>> /\ thread = "command" /\ thread' = "none"
      /\ reported' = IF event THEN reported ELSE "FAILED"
  BY DEF Run!CommandFails, Run!StageFails, Run!procVars
<1>3. Stays /\ Run!Stage' = Run!Stage /\ StepsNow' = StepsNow
  BY <1>2, StaysThere DEF Stays
<1>4. /\ ~canceled => finishing = "no"
      /\ status # "COMPLETED"
      /\ at > 0
      /\ status # "FAILED" => reported' = "FAILED"
  BY <1>1, <1>2 DEF ControlOK, ControlTypeOK
<1> DEFINE op == Run!Op
<1>5. /\ t' \in TargetType
      /\ op # "mount" => (t'.mounts => t.mounts)
      /\ op # "create" => (t'.loop => t.loop)
      /\ op \notin {"create", "shrink"} => t'.image = t.image
      /\ op # "compress" => t'.xz = t.xz
      /\ op # "dd" => t'.output = t.output
      /\ op \notin {"copy", "rename"} => t'.part = t.part
      /\ op \in {"copy", "rename"} => t'.part = "none"
      /\ op # "makeFolder" => t'.folder = t.folder
      /\ t'.workspace = t.workspace
      /\ op # "unpack" => t'.live = t.live
      /\ t' = t \/ op \in Run!InProcess \/ Run!Reachable
  <2>1. CASE op \in Run!InProcess \/ Run!Reachable
    <3>1. t' \in Run!AfterFailure(op, t)
      BY <2>1 DEF Run!CommandFails
    <3>2. QED
      BY <1>1, <2>1, <3>1, FailureKeeps
  <2>2. CASE ~(op \in Run!InProcess \/ Run!Reachable)
    <3>1. t' = t
      BY <2>2 DEF Run!CommandFails
    <3>2. op \notin {"copy", "rename"}
      BY <2>2 DEF Run!InProcess
    <3>3. QED
      BY <1>1, <3>1, <3>2
  <2>3. QED
    BY <2>1, <2>2
<1>6. op \in {"mount", "create", "shrink", "compress", "unpack"} => op \notin Run!InProcess /\ op # "dd"
  BY DEF Run!InProcess, Run!Assignments
<1>7. op \in {"create", "shrink", "compress", "mount", "unpack"} =>
        t' = t \/ (IF Run!Live(config) THEN "tools" \in dopen ELSE "target" \in dopen)
  BY <1>5, <1>6, CommandReaches
<1>8. /\ op \in {"create", "shrink", "compress", "removeSource"} => Run!Image(config)
      /\ op = "mount" => ~Run!Live(config) /\ Run!Stage = "Mount" /\ step = 2
      /\ op \in {"makeFolder", "unpack"} => Run!Live(config)
      /\ op = "dd" => Run!Stage = "WriteDisk" /\ step = 3 /\ config.target = "disk"
      /\ op = "compress" => config.compress
      /\ Run!Live(config) => ~Run!Image(config)
  BY <1>1, <1>2, OpFits
<1>9. /\ op \in {"create", "shrink"} => ~Past("Shrink")
      /\ op = "compress" => Past("Shrink") /\ ~Past("Compress")
      /\ Run!Stage = "WriteDisk" => ~Past("WriteDisk") /\ StepsNow[1] \notin Deliveries /\ StepsNow[2] \notin Deliveries
  BY <1>1, <1>2, OpPast, StageOps
<1>10. /\ (Past("Shrink")' <=> Past("Shrink")) /\ (Past("Compress")' <=> Past("Compress"))
       /\ \A x \in SaveStages : Past(x)' <=> Past(x)
  BY <1>2, <1>3, PastKept
<1>11. Run!Stage \in Saves => (step = 2 => op = "rename")
  BY <1>1, <1>2, StageOps
<1> HIDE DEF op
<1>12. MountsOK'
  <2>1. op = "mount" /\ ~canceled => mounted
    BY <1>1, <1>4, <1>8 DEF MountsOK
  <2>2. Run!Stage = "Finish" => op # "mount"
    BY <1>8
  <2>3. QED
    BY <1>1, <1>2, <1>3, <1>4, <1>5, <1>7, <1>8, <2>1, <2>2 DEF MountsOK
<1>13. ImageOK'
  <2>1. t'.loop \/ t'.xz # "none" => Run!Image(config)
    BY <1>1, <1>5, <1>8 DEF ImageOK
  <2>2. t'.image # "none" => Run!Image(config) \/ Run!Live(config)
    BY <1>1, <1>5, <1>8 DEF ImageOK
  <2>3. Run!Image(config) /\ ~canceled => (t'.loop \/ t'.image # "none" \/ t'.xz # "none" => "target" \in dopen)
    BY <1>1, <1>4, <1>5, <1>7, <1>8 DEF ImageOK
  <2>4. QED
    BY <1>2, <1>4, <2>1, <2>2, <2>3 DEF ImageOK
<1>14. LiveOK'
  BY <1>1, <1>2, <1>4, <1>5, <1>7, <1>8 DEF LiveOK
<1>15. PartOK'
  <2>1. SUFFICES t'.part = "none"
    BY DEF PartOK
  <2>2. CASE t.part = "none"
    BY <1>5, <2>2
  <2>3. CASE t.part # "none"
    <3>1. op = "rename"
      BY <1>1, <1>11, <2>3 DEF PartOK
    <3>2. QED
      BY <1>5, <3>1
  <2>4. QED
    BY <2>2, <2>3
<1>16. WholeOK'
  <2>1. Run!Live(config) => t'.image \in {"none", "whole"}
    BY <1>1, <1>5, <1>8 DEF WholeOK
  <2>2. Run!Image(config) /\ Past("Shrink") => t'.image \in {"none", "whole"}
    BY <1>1, <1>5, <1>9 DEF WholeOK
  <2>3. Run!Image(config) /\ config.compress /\ Past("Compress") => t'.xz \in {"none", "whole"}
    BY <1>1, <1>5, <1>9 DEF WholeOK
  <2>4. t'.xz # "none" => config.compress /\ Past("Shrink")
    BY <1>1, <1>5, <1>8, <1>9 DEF WholeOK
  <2>5. QED
    BY <1>2, <1>3, <1>4, <1>10, <2>1, <2>2, <2>3, <2>4 DEF WholeOK
<1>17. OutputOK'
  <2>1. config.target \in {"image", "iso"} => t'.output \in {"none", "whole"}
    BY <1>1, <1>5, <1>8 DEF OutputOK
  <2>2. ASSUME NEW x \in SaveStages, Delivers(config), x = Save(config), Past(x) PROVE t'.output = "whole"
    <3>1. CASE op = "dd"
      <4>1. x = "WriteDisk"
        BY <1>8, <2>2, <3>1 DEF Save, Run!Image
      <4>2. QED
        BY <1>8, <1>9, <2>2, <3>1, <4>1
    <3>2. CASE op # "dd"
      BY <1>1, <1>5, <2>2, <3>2 DEF OutputOK
    <3>3. QED
      BY <3>1, <3>2
  <2>3. ASSUME NEW n \in 1 .. Len(StepsNow), n < step, StepsNow[n] \in Deliveries PROVE t'.output = "whole"
    <3>1. CASE op = "dd"
      <4>1. n = 1 \/ n = 2
        BY <1>8, <2>3, <3>1
      <4>2. QED
        BY <1>8, <1>9, <2>3, <3>1, <4>1
    <3>2. CASE op # "dd"
      BY <1>1, <1>4, <1>5, <2>3, <3>2 DEF OutputOK
    <3>3. QED
      BY <3>1, <3>2
  <2>4. Run!ResultIsWhole'
    BY <1>2, <1>4, <2>1 DEF Run!ResultIsWhole
  <2>5. QED
    BY <1>2, <1>3, <1>10, <2>1, <2>2, <2>3, <2>4 DEF OutputOK
<1>18. QED
  BY <1>5, <1>12, <1>13, <1>14, <1>15, <1>16, <1>17 DEF TargetInv

\* A result that is moved to its place is a whole file.
LEMMA ResultToMove ==
  ASSUME ControlInv, TargetInv, thread = "command", Run!Stage \in Saves, Run!Result(t) # "none"
  PROVE  Run!Result(t) = "whole"
<1>1. ControlTypeOK /\ ControlOK /\ ImageOK /\ WholeOK
  BY DEF ControlInv, TargetInv
<1>2. Run!Live(config) \/ (Run!Image(config) /\ Past("Shrink") /\ Past("Compress"))
  BY <1>1, OpPast
<1>3. CASE Run!Live(config)
  <2>1. t.image \in {"none", "whole"} /\ t.xz = "none"
    BY <1>1, <1>3 DEF WholeOK, ImageOK, Run!Live, Run!Image
  <2>2. QED
    BY <2>1 DEF Run!Result
<1>4. CASE Run!Image(config) /\ Past("Shrink") /\ Past("Compress")
  <2>1. t.image \in {"none", "whole"} /\ t.xz \in {"none", "whole"}
    BY <1>1, <1>4 DEF WholeOK
  <2>2. QED
    BY <2>1 DEF Run!Result
<1>5. QED
  BY <1>2, <1>3, <1>4

LEMMA TargetSucceeds == ASSUME ControlInv, TargetInv, Run!CommandSucceeds PROVE TargetInv'
<1>1. ControlTypeOK /\ ControlOK /\ t \in TargetType /\ MountsOK /\ ImageOK /\ LiveOK /\ PartOK /\ WholeOK /\ OutputOK
  BY DEF ControlInv, TargetInv
<1>2. /\ UNCHANGED <<config, at, status, finishing, canceled, event, reported>>
      /\ thread = "command" /\ thread' = "step" /\ step' = step + 1 /\ t' = Run!After(Run!Op, t) /\ Run!Possible /\ Run!Marks(Run!Op)
  BY DEF Run!CommandSucceeds, Run!Succeeds, Run!procVars
<1>3. Stays /\ Run!Stage' = Run!Stage /\ StepsNow' = StepsNow
  BY <1>2, StaysThere DEF Stays
<1>4. /\ ~canceled => finishing = "no"
      /\ status # "COMPLETED"
      /\ reported = "none"
      /\ at > 0 /\ step \in 1 .. Len(StepsNow) /\ Len(StepsNow) \in Nat
      /\ dopen \subseteq dopen'
  <2>1. (~canceled => finishing = "no") /\ status # "COMPLETED" /\ reported = "none"
    BY <1>1, <1>2 DEF ControlOK, ControlTypeOK
  <2>2. at > 0 /\ step \in 1 .. Len(StepsNow) /\ Len(StepsNow) \in Nat
    BY <1>1, <1>2, OpDoes, StepsNowLen
  <2>3. dopen \subseteq dopen'
    BY DEF Run!CommandSucceeds, Run!Succeeds
  <2>4. QED
    BY <2>1, <2>2, <2>3
<1> DEFINE op == Run!Op
<1>5. /\ t' \in TargetType
      /\ op # "mount" => (t'.mounts => t.mounts)
      /\ op # "create" => (t'.loop => t.loop)
      /\ op \notin Images => t'.image = t.image
      /\ op \notin {"compress", "replace", "removeSource"} => t'.xz = t.xz
      /\ op \notin Deliveries => t'.output = t.output
      /\ op \notin {"copy", "rename"} => t'.part = t.part
      /\ op # "makeFolder" => t'.folder = t.folder
      /\ op # "workspace" => t'.workspace = t.workspace
      /\ op # "unpack" => t'.live = t.live
  BY <1>1, <1>2, AfterKeeps, AfterType
<1>6. /\ op = "umount" => ~t'.mounts
      /\ op = "shrink" => t'.image = "whole"
      /\ op = "compress" => t'.image = "none" /\ t'.xz = "whole"
      /\ op = "renameIso" => t'.image = "whole"
      /\ op = "replace" => t'.output = Run!Result(t) /\ t'.image = "none" /\ t'.xz = "none"
      /\ op = "removeSource" => t'.image = "none" /\ t'.xz = "none"
      /\ op = "copy" => t'.part = Run!Result(t)
      /\ op = "rename" => t'.part = "none" /\ t'.output = t.part
      /\ op = "dd" => t'.output = "whole"
  BY <1>1, <1>2, AfterMakes
<1>7. op \in {"create", "shrink", "compress", "mount", "unpack"} =>
        IF Run!Live(config) THEN "tools" \in dopen ELSE "target" \in dopen
  <2>1. op \in {"create", "shrink", "compress", "mount", "unpack"} => op \notin Run!InProcess /\ op # "dd"
    BY DEF Run!InProcess, Run!Assignments
  <2>2. op \notin Run!InProcess => Run!Reachable
    BY <1>2 DEF Run!Possible, Run!InProcess
  <2>3. QED
    BY <2>1, <2>2, CommandReaches
<1>8. /\ op \in {"create", "shrink", "compress", "removeSource"} => Run!Image(config)
      /\ op = "mount" => ~Run!Live(config) /\ Run!Stage = "Mount" /\ step = 2
      /\ op \in {"makeFolder", "workspace", "unpack", "renameIso"} => Run!Live(config)
      /\ op = "dd" => Run!Stage = "WriteDisk" /\ step = 3 /\ config.target = "disk"
      /\ op = "compress" => config.compress
      /\ op \in {"replace", "copy", "rename", "removeSource"} => Run!Stage \in Saves
      /\ Run!Live(config) => ~Run!Image(config)
  BY <1>1, <1>2, OpFits
<1>9. /\ op = "create" => Run!Stage # "Shrink" /\ ~Past("Shrink")
      /\ op = "shrink" => ~Past("Shrink")
      /\ op = "compress" => Past("Shrink")
      /\ Run!Stage \in Saves => Run!Live(config) \/ (Run!Image(config) /\ Past("Shrink") /\ Past("Compress"))
  BY <1>1, <1>2, OpPast
<1>10. /\ Run!Stage = "Mount" => (step = 1 /\ op = "mark") \/ (step = 2 /\ op = "mount")
       /\ Run!Stage = "Finish" => (step = 1 /\ op = "umount") \/ (step = 2 /\ op = "unmark")
       /\ Run!Stage = "Shrink" => step = 1 /\ op = "shrink"
       /\ Run!Stage = "Compress" => step = 1 /\ op = "compress"
       /\ Run!Stage \in Saves => config.place # "made" /\ (step = 2 => op = "rename")
  BY <1>1, <1>2, StageOps
<1>11. ASSUME NEW x PROVE (Past(x) => Past(x)') /\ (Past(x)' => Past(x) \/ (Run!Stage = x /\ step + 1 > Len(StepsNow)))
  BY <1>1, <1>2, <1>3, <1>4, PastStep
<1>12. op \in {"replace", "copy"} => Run!Result(t) = "whole"
  <2>1. op \in {"replace", "copy"} => Run!Result(t) # "none"
    BY <1>2 DEF Run!Possible, Run!InProcess
  <2>2. QED
    BY <1>2, <1>8, <2>1, ResultToMove
<1>13. op = "rename" => t.part = "whole"
  <2>1. op = "rename" => t.part # "none"
    BY <1>2 DEF Run!Possible, Run!InProcess
  <2>2. QED
    BY <1>1, <2>1 DEF PartOK
<1>14. op = "copy" => step = 1 /\ Len(StepsNow) >= 2
  BY <1>1, <1>2, OpDoes DEF Does
<1>15. op = "unmark" => Run!Stage = "Finish" /\ step = 2
  BY <1>1, <1>2, OpDoes DEF Does
<1>16. mounted' = IF op = "mark" THEN TRUE ELSE IF op = "unmark" THEN FALSE ELSE mounted
  BY <1>2 DEF Run!Marks
<1> HIDE DEF op
<1>17. MountsOK'
  <2>1. ~canceled /\ Run!Stage = "Mount" => mounted'
    <3>1. CASE Run!Stage = "Mount" /\ step = 1 /\ op = "mark"
      BY <1>16, <3>1
    <3>2. CASE Run!Stage = "Mount" /\ step = 2 /\ op = "mount"
      BY <1>1, <1>4, <1>16, <3>2 DEF MountsOK
    <3>3. QED
      BY <1>10, <3>1, <3>2
  <2>2. ~canceled /\ Run!Stage = "Finish" => ~t'.mounts
    <3>1. CASE Run!Stage = "Finish" /\ step = 1 /\ op = "umount"
      BY <1>6, <3>1
    <3>2. CASE ~canceled /\ Run!Stage = "Finish" /\ step = 2 /\ op = "unmark"
      BY <1>1, <1>4, <1>5, <3>2 DEF MountsOK
    <3>3. QED
      BY <1>10, <3>1, <3>2
  <2>3. t'.mounts => ~Run!Live(config)
    BY <1>1, <1>5, <1>8 DEF MountsOK
  <2>4. t'.mounts /\ ~canceled => mounted' /\ "target" \in dopen'
    <3>1. CASE op = "mount"
      BY <1>4, <1>7, <1>8, <2>1, <3>1
    <3>2. CASE op = "unmark"
      BY <1>15, <2>2, <3>2
    <3>3. CASE op \notin {"mount", "unmark"}
      BY <1>1, <1>4, <1>5, <1>16, <3>3 DEF MountsOK
    <3>4. QED
      BY <3>1, <3>2, <3>3
  <2>5. QED
    BY <1>2, <1>3, <1>4, <2>1, <2>2, <2>3, <2>4 DEF MountsOK
<1>18. ImageOK'
  <2>1. t'.loop \/ t'.xz # "none" => Run!Image(config)
    BY <1>1, <1>5, <1>6, <1>8 DEF ImageOK
  <2>2. t'.image # "none" => Run!Image(config) \/ Run!Live(config)
    BY <1>1, <1>5, <1>6, <1>8 DEF ImageOK, Images
  <2>3. Run!Image(config) /\ ~canceled => (t'.loop \/ t'.image # "none" \/ t'.xz # "none" => "target" \in dopen')
    BY <1>1, <1>4, <1>5, <1>6, <1>7, <1>8 DEF ImageOK, Images
  <2>4. QED
    BY <1>2, <1>4, <2>1, <2>2, <2>3 DEF ImageOK
<1>19. LiveOK'
  BY <1>1, <1>2, <1>4, <1>5, <1>7, <1>8 DEF LiveOK
<1>20. PartOK'
  <2>1. CASE op = "copy"
    <3>1. t'.part = "whole" /\ step' = 2 /\ Run!Stage \in Saves
      BY <1>2, <1>6, <1>8, <1>12, <1>14, <2>1
    <3>2. QED
      BY <1>2, <1>3, <1>4, <1>14, <2>1, <3>1 DEF PartOK
  <2>2. CASE op = "rename"
    BY <1>6, <2>2 DEF PartOK
  <2>3. CASE op \notin {"copy", "rename"}
    <3>1. t.part = "none"
      BY <1>1, <1>10, <2>3 DEF PartOK
    <3>2. QED
      BY <1>5, <2>3, <3>1 DEF PartOK
  <2>4. QED
    BY <2>1, <2>2, <2>3
<1>21. WholeOK'
  <2>1. Past("Shrink")' => Past("Shrink") \/ op = "shrink"
    BY <1>10, <1>11
  <2>2. Past("Compress")' => Past("Compress") \/ op = "compress"
    BY <1>10, <1>11
  <2>3. Past("Shrink") => Past("Shrink")'
    BY <1>11
  <2>4. op \in Images => op \in {"create"} \/ t'.image \in {"none", "whole"}
    BY <1>6 DEF Images
  <2>5. Run!Live(config) => t'.image \in {"none", "whole"}
    BY <1>1, <1>5, <1>8, <2>4 DEF WholeOK
  <2>6. Run!Image(config) /\ Past("Shrink")' => t'.image \in {"none", "whole"}
    <3>1. CASE op \in Images
      BY <1>9, <2>1, <2>4, <3>1
    <3>2. CASE op \notin Images
      BY <1>1, <1>5, <2>1, <3>2 DEF WholeOK, Images
    <3>3. QED
      BY <3>1, <3>2
  <2>7. Run!Image(config) /\ config.compress /\ Past("Compress")' => t'.xz \in {"none", "whole"}
    BY <1>1, <1>5, <1>6, <2>2 DEF WholeOK
  <2>8. t'.xz # "none" => config.compress /\ Past("Shrink")'
    BY <1>1, <1>5, <1>6, <1>8, <1>9, <2>3 DEF WholeOK
  <2>9. Run!Image(config) /\ config.place = "made" /\ status # "FAILED" /\ Past("Shrink")' => Run!Result(t)' = "whole"
    <3>1. SUFFICES ASSUME Run!Image(config), config.place = "made", status # "FAILED", Past("Shrink")'
                   PROVE  Run!Result(t)' = "whole"
      OBVIOUS
    <3>2. ~Run!Live(config)
      BY <1>8, <3>1
    <3>3. Run!Result(t)' = (IF t'.xz # "none" THEN t'.xz ELSE t'.image)
      BY <1>2, <3>2 DEF Run!Result, Run!Live
    <3>4. Run!Result(t) = (IF t.xz # "none" THEN t.xz ELSE t.image)
      BY <3>2 DEF Run!Result
    <3>5. CASE op = "shrink"
      <4>1. t.xz = "none"
        BY <1>1, <1>9, <3>5 DEF WholeOK
      <4>2. QED
        BY <1>5, <1>6, <3>3, <3>5, <4>1
    <3>6. CASE op = "compress"
      BY <1>6, <3>3, <3>6
    <3>7. CASE op \notin {"shrink", "compress"}
      <4>1. Past("Shrink")
        BY <2>1, <3>1, <3>7
      <4>2. Run!Result(t) = "whole"
        BY <1>1, <1>4, <3>1, <4>1 DEF WholeOK
      <4>3. op \notin {"create", "renameIso", "replace", "removeSource"}
        BY <1>8, <1>9, <1>10, <3>1, <3>2, <4>1
      <4>4. t'.image = t.image /\ t'.xz = t.xz
        BY <1>5, <3>7, <4>3 DEF Images
      <4>5. QED
        BY <3>3, <3>4, <4>2, <4>4
    <3>8. QED
      BY <3>5, <3>6, <3>7
  <2>10. QED
    BY <1>2, <1>3, <1>4, <2>5, <2>6, <2>7, <2>8, <2>9 DEF WholeOK
<1>22. OutputOK'
  <2>1. op \in Deliveries => t'.output = "whole"
    BY <1>6, <1>12, <1>13 DEF Deliveries
  <2>2. config.target \in {"image", "iso"} => t'.output \in {"none", "whole"}
    BY <1>1, <1>5, <2>1 DEF OutputOK
  <2>3. ASSUME NEW n \in 1 .. Len(StepsNow), n < step + 1, StepsNow[n] \in Deliveries PROVE t'.output = "whole"
    <3>1. CASE n = step
      BY <2>1, <2>3, <3>1 DEF op, Run!Op, StepsNow
    <3>2. CASE n # step
      <4>1. n < step
        BY <1>4, <2>3, <3>2
      <4>2. t.output = "whole"
        BY <1>1, <1>4, <2>3, <4>1 DEF OutputOK
      <4>3. QED
        BY <1>5, <2>1, <4>2
    <3>3. QED
      BY <3>1, <3>2
  <2>4. ASSUME NEW x \in SaveStages, Delivers(config), x = Save(config), Past(x)' PROVE t'.output = "whole"
    <3>1. CASE Past(x)
      <4>1. t.output = "whole"
        BY <1>1, <2>4, <3>1 DEF OutputOK
      <4>2. QED
        BY <1>5, <2>1, <4>1
    <3>2. CASE Run!Stage = x /\ step + 1 > Len(StepsNow)
      <4>1. StepsNow = Run!Steps(Save(config), config)
        BY <2>4, <3>2 DEF StepsNow
      <4>2. PICK n \in 1 .. Len(StepsNow) : StepsNow[n] \in Deliveries
        BY <1>1, <2>4, <4>1, ConfigIs, IsoMoves, StepsAreThere
      <4>3. n < step + 1
        BY <1>4, <3>2, <4>2
      <4>4. QED
        BY <2>3, <4>2, <4>3
    <3>3. QED
      BY <1>11, <2>4, <3>1, <3>2
  <2>5. Run!ResultIsWhole'
    BY <1>2, <1>4, <2>2 DEF Run!ResultIsWhole
  <2>6. QED
    BY <1>2, <1>3, <2>2, <2>3, <2>4, <2>5 DEF OutputOK
<1>23. QED
  BY <1>5, <1>17, <1>18, <1>19, <1>20, <1>21, <1>22 DEF TargetInv

-----------------------------------------------------------------------------

DeploymentInv == ControlInv /\ TargetInv

LEMMA DeploymentInit == Run!Init => DeploymentInv
BY ControlInit, TargetInit DEF DeploymentInv

LEMMA DeploymentStep == DeploymentInv /\ [Run!Next]_runVars => DeploymentInv'
<1>1. SUFFICES ASSUME DeploymentInv, [Run!Next]_runVars PROVE DeploymentInv'
  OBVIOUS
<1>2. ControlInv /\ TargetInv
  BY <1>1 DEF DeploymentInv
<1>3. CASE Run!Continue
  BY <1>2, <1>3, ControlContinue, TargetContinue DEF DeploymentInv
<1>4. CASE Run!StageStarts \/ Run!StageCompletes \/ Run!CommandStarts
  BY <1>2, <1>4, ControlThread, TargetThread DEF DeploymentInv
<1>5. CASE Run!CommandSucceeds
  BY <1>2, <1>5, ControlSucceeds, TargetSucceeds DEF DeploymentInv
<1>6. CASE Run!CommandFails
  BY <1>2, <1>6, ControlThread, TargetFails DEF DeploymentInv
<1>7. CASE Run!Finishes
  BY <1>2, <1>7, ControlFinishes, TargetFinishes DEF DeploymentInv
<1>8. CASE Run!Cancel
  BY <1>2, <1>8, ControlFinishes, TargetCancel DEF DeploymentInv
<1>9. CASE UNCHANGED runVars
  BY <1>2, <1>9, ControlStays, TargetStays DEF DeploymentInv
<1>10. Run!Ended => UNCHANGED runVars
  BY DEF Run!Ended, Run!vars, Run!procVars, Run!threadVars, runVars
<1>11. QED
  BY <1>1, <1>3, <1>4, <1>5, <1>6, <1>7, <1>8, <1>9, <1>10 DEF Run!Next, Run!Works

LEMMA EndOfInvariant == DeploymentInv => EndsWell
<1>1. SUFFICES ASSUME DeploymentInv PROVE EndsWell
  OBVIOUS
<1>2. /\ ControlTypeOK /\ ControlOK /\ UsesOK /\ t \in TargetType
      /\ MountsOK /\ ImageOK /\ LiveOK /\ PartOK /\ WholeOK /\ OutputOK
  BY <1>1 DEF DeploymentInv, ControlInv, TargetInv
<1>3. Run!TypeOK
  <2>1. used \in Nat
    BY <1>2 DEF UsesOK
  <2>2. QED
    BY <1>2, <2>1 DEF ControlTypeOK, Run!TypeOK
<1>4. Run!EndedClean
  <2>1. SUFFICES ASSUME Run!Over, ~canceled
                 PROVE  /\ dopen = {} /\ used = 0
                        /\ config.target # "ssh" => ~t.mounts
                        /\ ~t.loop /\ ~t.live /\ ~t.folder /\ ~t.workspace /\ t.part = "none"
                        /\ status = "FAILED" => t.image = "none" /\ t.xz = "none"
    BY DEF Run!EndedClean
  <2>2. finishing = "closed" /\ thread = "none" /\ reported = "none"
    BY <2>1 DEF Run!Over
  <2>3. dopen = {} /\ used = 0
    BY <1>2, <2>1, <2>2 DEF UsesOK
  <2>4. config.target # "ssh" => ~t.mounts
    BY <1>2, <2>1, <2>2 DEF MountsOK
  <2>5. t.part = "none"
    BY <1>2, <2>2 DEF PartOK
  <2>6. ~t.loop /\ (status = "FAILED" => t.xz = "none")
    BY <1>2, <2>1, <2>2 DEF ImageOK
  <2>7. ~t.live /\ ~t.folder /\ ~t.workspace
    BY <1>2, <2>1, <2>2 DEF LiveOK
  <2>8. status = "FAILED" => t.image = "none"
    BY <1>2, <2>1, <2>2 DEF ImageOK, LiveOK
  <2>9. QED
    BY <2>3, <2>4, <2>5, <2>6, <2>7, <2>8
<1>5. Run!ResultIsWhole
  BY <1>2 DEF OutputOK
<1>6. QED
  BY <1>3, <1>4, <1>5 DEF EndsWell

LEMMA DeploymentOfSpec == AllSpec => Run!Init /\ [][Run!Next]_runVars
<1>1. AllInit => Run!Init
  BY DEF AllInit, MCInit
<1>2. [AllNext]_<<mcvars, toolVars, snapshotVars>> => [Run!Next]_runVars
  BY DEF AllNext, MCNext, mcvars
<1>3. QED
  BY <1>1, <1>2, PTL DEF AllSpec

\* Whichever command of a deployment fails, and wherever it fails, the end
\* of a deployment that was not canceled leaves nothing mounted, attached or
\* open and no unfinished file, and what is in the place that the user
\* selected is a whole file or none, even when the copying was canceled.
THEOREM DeploymentEndsWell == AllSpec => []EndsWell
<1>1. DeploymentInv => EndsWell
  BY EndOfInvariant
<1>2. QED
  BY <1>1, DeploymentInit, DeploymentStep, DeploymentOfSpec, PTL

-----------------------------------------------------------------------------
(* The pages of a disk and its boot.                                       *)

\* Machines that can run a build (machine_architecture()), whose firmware is
\* one of those their architecture has.
Architectures == GrubTargets \cup {"ppc64", "ppc64le"}
MachineRecords == [arch : Architectures, firmware : UNION {FirmwareOptions(a) : a \in Architectures}, local : BOOLEAN,
                   image : BOOLEAN, memory : Nat, disk : Nat]

\* The firmware is one the architecture has, and the row shows a bootloader
\* that such a machine can have.
BootInv ==
  /\ machine \in MachineRecords /\ machine.firmware \in FirmwareOptions(machine.arch)
  /\ bootloader \in Options(machine)

LEMMA DefaultOffered ==
  ASSUME NEW m \in MachineRecords, m.firmware \in FirmwareOptions(m.arch), NEW c
  PROVE  DefaultBootloader(c, m) \in Options(m)
<1>1. m.arch \in Architectures
  BY DEF MachineRecords
<1>2. CASE RaspberryPi(m)
  <2>1. m.firmware = "RASPBERRY_PI"
    BY <1>2 DEF RaspberryPi
  <2>2. m.arch \in RaspberryPiArchitectures
    BY <1>1, <2>1 DEF FirmwareOptions, X86, RaspberryPiArchitectures
  <2> QED BY <1>2, <2>1, <2>2 DEF DefaultBootloader, Options, Supported, Uefi, Bootloaders
<1>3. CASE ~RaspberryPi(m) /\ Supported("KBOOT", m)
  BY <1>3 DEF DefaultBootloader, Options, Bootloaders
<1>4. CASE ~RaspberryPi(m) /\ ~Supported("KBOOT", m) /\ Found(c, m) # {}
  <2> DEFINE order == <<"GRUB", "SYSTEMD_BOOT", "REFIND", "EFI_STUB">>
             first(i) == order[i] \in Found(c, m) /\ \A j \in 1 .. i - 1 : order[j] \notin Found(c, m)
  <2>1. order[1] = "GRUB" /\ order[2] = "SYSTEMD_BOOT" /\ order[3] = "REFIND" /\ order[4] = "EFI_STUB"
    OBVIOUS
  <2>2. Found(c, m) \subseteq {"GRUB", "SYSTEMD_BOOT", "REFIND", "EFI_STUB"} \cap Options(m)
    BY DEF Found, Options, Bootloaders
  <2>3. \E i \in 1 .. 4 : first(i)
    <3> HIDE DEF order
    <3>1. CASE order[1] \in Found(c, m)
      BY <3>1
    <3>2. CASE order[1] \notin Found(c, m) /\ order[2] \in Found(c, m)
      BY <3>2
    <3>3. CASE order[1] \notin Found(c, m) /\ order[2] \notin Found(c, m) /\ order[3] \in Found(c, m)
      BY <3>3
    <3>4. CASE order[1] \notin Found(c, m) /\ order[2] \notin Found(c, m) /\ order[3] \notin Found(c, m)
      <4>1. order[4] \in Found(c, m)
        BY <1>4, <2>1, <2>2, <3>4
      <4> QED BY <3>4, <4>1
    <3> QED BY <3>1, <3>2, <3>3, <3>4
  <2>4. order[CHOOSE i \in 1 .. 4 : first(i)] \in Found(c, m)
    BY <2>3
  <2>5. DefaultBootloader(c, m) = order[CHOOSE i \in 1 .. 4 : first(i)]
    BY <1>4 DEF DefaultBootloader
  <2> QED BY <2>2, <2>4, <2>5
<1>5. CASE ~RaspberryPi(m) /\ ~Supported("KBOOT", m) /\ Found(c, m) = {}
  BY <1>5 DEF DefaultBootloader, Options, Supported, Bootloaders
<1> QED BY <1>2, <1>3, <1>4, <1>5

LEMMA BootInit == ASSUME Machines \subseteq MachineRecords, Init PROVE BootInv
BY LayoutAssumption, DefaultOffered DEF Init, BootInv

LEMMA BootStep == ASSUME BootInv, [Next]_vars PROVE BootInv'
<1>1. CASE FirmwareChanged
  <2>1. PICK f \in FirmwareOptions(machine.arch) : machine' = [machine EXCEPT !.firmware = f]
    BY <1>1 DEF FirmwareChanged
  <2>2. machine'.arch = machine.arch /\ machine'.firmware = f /\ machine' \in MachineRecords
    BY <2>1 DEF BootInv, MachineRecords
  <2>3. PICK m \in MachineRecords : m = machine'
    BY <2>2
  <2>4. bootloader' = DefaultBootloader(contents, m)
    BY <1>1, <2>3 DEF FirmwareChanged, ShowBoot
  <2>5. m.firmware \in FirmwareOptions(m.arch)
    BY <2>1, <2>2, <2>3
  <2>6. bootloader' \in Options(m)
    BY <2>4, <2>5, DefaultOffered
  <2> QED BY <2>2, <2>3, <2>5, <2>6 DEF BootInv
<1>2. CASE ScanDone
  <2>1. PICK c : bootloader' = DefaultBootloader(c, machine)
    BY <1>2 DEF ScanDone, ShowBoot
  <2>2. bootloader' \in Options(machine)
    BY <2>1, DefaultOffered DEF BootInv
  <2> QED BY <1>2, <2>2 DEF BootInv, ScanDone
<1>3. CASE SelectBootloader
  BY <1>3 DEF BootInv, SelectBootloader
<1>4. CASE UNCHANGED <<machine, bootloader>>
  BY <1>4 DEF BootInv
<1>5. \/ FirmwareChanged \/ ScanDone \/ SelectBootloader \/ UNCHANGED <<machine, bootloader>>
  BY DEF Next, vars, bootVars, ResetLayout, TableChanged, AddPartition, MovePartition, RemovePartition, EditType, EditMount,
     EditFilesystem, EditSize, LayoutEdited, SelectKernel
<1> QED BY <1>1, <1>2, <1>3, <1>4, <1>5

LEMMA BootFollows == BootInv => BootloaderInstalls
<1> SUFFICES ASSUME BootInv PROVE BootloaderInstalls
  OBVIOUS
<1>1. bootloader \in Options(machine) /\ Supported(bootloader, machine) /\ machine.arch \in Architectures
  BY DEF BootInv, Options, MachineRecords
<1>2. ASSUME Plan PROVE HasScript(bootloader, machine, layout)
  <2>1. Uefi(machine) => \E i \in DOMAIN layout : layout[i].type = "EFI" /\ layout[i].mount # Unset
    <3> SUFFICES ASSUME Uefi(machine) PROVE \E i \in DOMAIN layout : layout[i].type = "EFI" /\ layout[i].mount # Unset
      OBVIOUS
    <3>1. {i \in DOMAIN layout : layout[i].type = "EFI"} # {} /\ \A i \in Mounted(layout) : layout[i].mount # Unset
      BY <1>2 DEF Plan, Accepted
    <3> QED BY <3>1 DEF Mounted, MountedTypes
  <2>2. bootloader = "GRUB" => machine.arch \in (IF Uefi(machine) THEN GrubTargets ELSE X86)
    <3>1. bootloader = "GRUB" => Uefi(machine) \/ machine.arch \in X86
      BY <1>1 DEF Supported
    <3>2. Uefi(machine) => machine.arch \in GrubTargets
      BY <1>1 DEF BootInv, Uefi, Architectures, FirmwareOptions, X86, RaspberryPiArchitectures
    <3> QED BY <3>1, <3>2
  <2> QED BY <2>1, <2>2 DEF HasScript
<1> QED BY <1>1, <1>2 DEF BootloaderInstalls

\* Whatever the user selects and edits, and whatever the scan of the archive
\* finds, in any order: the bootloader that the boot page shows is one that the
\* machine with its firmware of now can have, and a plan that is accepted has
\* what its script needs.  Of machines that can run a build.
THEOREM BootSelectionInstalls == ASSUME Machines \subseteq MachineRecords PROVE AllSpec => []BootloaderInstalls
<1>1. AllInit => Init
  BY DEF AllInit, MCInit
<1>2. [AllNext]_<<mcvars, toolVars, snapshotVars>> => [Next]_vars
  BY DEF AllNext, MCNext, mcvars
<1>3. BootInv /\ [Next]_vars => BootInv'
  BY BootStep
<1> QED BY <1>1, <1>2, <1>3, BootInit, BootFollows, PTL DEF AllSpec
===============================================================================
