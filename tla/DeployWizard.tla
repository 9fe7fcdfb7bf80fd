---------------------------- MODULE DeployWizard ----------------------------
(***************************************************************************)
(* Connections of the deploy wizard (deploy_create_view.py): a worker of   *)
(* "Connect" or "Find disks" closes the connection that was there, opens   *)
(* another and lists the disks; done() shows them in the main loop.  The   *)
(* connection goes to the installation that the user confirms.             *)
(* Connections are numbered; owner tells where each of them leads.         *)
(***************************************************************************)
EXTENDS Integers, FiniteSets

CONSTANTS
  Hosts,    \* machines reached through SSH
  MaxOpen   \* connections made, a bound for model checking

This == "this computer"
Methods == {"SSH", "LOCAL_DISK", "IMAGE_FILE"}
None == 0

WizardAssumption == MaxOpen \in Nat \ {0} /\ This \notin Hosts

VARIABLES
  method,      \* selected method
  host,        \* text of the host row
  worker,      \* thread that connects: at, local, host, previous, connection
  connection,  \* self.connection, None or a number
  machine,     \* self.machine: None or the connection that listed its disks
  disk,        \* a disk is selected, there is a plan for it
  dialog,      \* None or the machine whose disk "Erase disk?" names
  install,     \* the installation: its connection and the machine of its plan
  shown,       \* the wizard was not closed
  owner,       \* function of connections made, a host or This
  open,        \* connections that are open
  hurried      \* history: what the user did while the wizard connected

view == <<method, host, connection, machine, disk, dialog, install, shown>>
vars == <<view, worker, owner, open, hurried>>

NoInstallation == [connection |-> None, plan |-> None]
Idle == [at |-> "idle", local |-> FALSE, host |-> This, previous |-> None, connection |-> None, lists |-> FALSE]
Connecting == worker.at # "idle"
Local(m) == m \in {"LOCAL_DISK", "IMAGE_FILE"}
Made == DOMAIN owner
New == Cardinality(Made) + 1
Make(where) == owner' = [n \in Made \cup {New} |-> IF n = New THEN where ELSE owner[n]]

Init ==
  /\ method \in Methods \ {"IMAGE_FILE"} /\ host \in Hosts
  /\ worker = Idle /\ connection = None /\ machine = None /\ disk = FALSE
  /\ dialog = None /\ install = NoInstallation /\ shown = TRUE
  /\ owner = [n \in {} |-> This] /\ open = {} /\ hurried = {}

\* The user acts in the wizard, nothing of an installation is shown, and the
\* dialog is modal.  While the wizard connects, only its button is off.
User == shown /\ install = NoInstallation /\ dialog = None
Hurries(what) == hurried' = IF Connecting THEN hurried \cup {what} ELSE hurried

\* on_connection_changed(), and _prepare_image() for an image, whose
\* connection is opened by the installation.
ConnectionChanged(m) ==
  LET reset == machine # None /\ ~Connecting IN
  /\ open' = IF reset THEN open \ {connection} ELSE open
  /\ IF m = "IMAGE_FILE"
     THEN New <= MaxOpen /\ Make(This) /\ connection' = New /\ machine' = New /\ disk' = TRUE
     ELSE /\ connection' = IF reset THEN None ELSE connection
          /\ machine' = IF reset THEN None ELSE machine
          /\ disk' = (disk /\ ~reset)
          /\ UNCHANGED owner

SelectMethod ==
  /\ User
  /\ \E m \in Methods \ {method} : method' = m /\ ConnectionChanged(m)
  /\ UNCHANGED <<host, worker, dialog, install, shown, hurried>>

EditHost ==
  /\ User /\ method = "SSH"
  /\ \E h \in Hosts \ {host} : host' = h /\ ConnectionChanged(method)
  /\ UNCHANGED <<method, worker, dialog, install, shown, hurried>>

\* on_connect_clicked() and _find_local_disks(), which keeps a connection to
\* this computer that is alive.
Connect ==
  /\ User /\ ~Connecting /\ method # "IMAGE_FILE" /\ New <= MaxOpen
  /\ worker' = [at |-> "close", local |-> Local(method), host |-> host, previous |-> connection,
                connection |-> None, lists |-> FALSE]
  /\ UNCHANGED <<view, owner, open, hurried>>

Reused == worker.local /\ worker.previous \in open /\ owner[worker.previous] = This

\* Fault: the connection that was there stays open.
WorkerKeepsPrevious ==
  /\ worker.at = "close"
  /\ worker' = [worker EXCEPT !.at = IF Reused THEN "list" ELSE "connect",
                              !.connection = IF Reused THEN worker.previous ELSE None]
  /\ UNCHANGED <<open, view, owner, hurried>>

WorkerCloses ==
  /\ worker.at = "close"
  /\ worker' = [worker EXCEPT !.at = IF Reused THEN "list" ELSE "connect",
                              !.connection = IF Reused THEN worker.previous ELSE None]
  /\ open' = IF Reused THEN open ELSE open \ {worker.previous}
  /\ UNCHANGED <<view, owner, hurried>>

\* The other end answers and lets the user in, or not.
Opens(where) ==
  /\ New <= MaxOpen /\ Make(where)
  /\ \E connected \in BOOLEAN :
       /\ open' = IF connected THEN open \cup {New} ELSE open
       /\ worker' = [worker EXCEPT !.at = IF connected THEN "list" ELSE "done", !.connection = New]
  /\ UNCHANGED <<view, hurried>>

\* SSHConnection.connect() stops the master that it started when it fails.
ConnectSSH == worker.at = "connect" /\ ~worker.local /\ Opens(worker.host)

\* LocalDiskConnection.connect() gets root access in the user's session.
ConnectLocalDisk == worker.at = "connect" /\ worker.local /\ Opens(This)

\* A connection that cannot be read is closed.
Lists ==
  /\ \E listed \in BOOLEAN :
       /\ worker' = [worker EXCEPT !.at = "done", !.lists = listed]
       /\ open' = IF listed THEN open ELSE open \ {worker.connection}
  /\ UNCHANGED <<view, owner, hurried>>

Load == worker.at = "list" /\ ~worker.local /\ Lists
LoadLocal == worker.at = "list" /\ worker.local /\ Lists

\* Fault: a machine that is shown stays, with its disk.
DoneKeepsMachine ==
  /\ worker.at = "done" /\ worker' = Idle
  /\ LET shows == IF worker.lists THEN worker.connection ELSE None IN
     IF Local(method) # worker.local
     THEN open' = open \ {worker.connection} /\ UNCHANGED <<connection, machine, disk>>
     ELSE /\ connection' = shows
          /\ machine' = (IF machine = None THEN shows ELSE machine) /\ UNCHANGED <<disk, open>>
  /\ UNCHANGED <<method, host, dialog, install, shown, owner, hurried>>

\* done(): the machine that was connected is shown, unless the method was
\* changed to one of the other kind.
Done ==
  /\ worker.at = "done" /\ worker' = Idle
  /\ LET shows == IF worker.lists THEN worker.connection ELSE None IN
     IF Local(method) # worker.local
     THEN open' = open \ {worker.connection} /\ UNCHANGED <<connection, machine, disk>>
     ELSE connection' = shows /\ machine' = shows /\ disk' = FALSE /\ UNCHANGED open
  /\ UNCHANGED <<method, host, dialog, install, shown, owner, hurried>>

SelectDisk ==
  /\ User /\ machine # None /\ disk' = TRUE
  /\ UNCHANGED <<method, host, connection, machine, dialog, install, shown, worker, owner, open, hurried>>

\* begin_installation() asks, with the disk that is selected.
Begin ==
  /\ User /\ machine # None /\ disk /\ connection # None
  /\ dialog' = machine /\ Hurries("go on")
  /\ UNCHANGED <<method, host, connection, machine, disk, install, shown, worker, owner, open>>

\* _on_confirm_response(): the connection is the one of now, the plan that
\* of the dialog.
Respond ==
  /\ shown /\ dialog # None /\ dialog' = None
  /\ \/ UNCHANGED install
     \/ machine # None /\ connection # None /\ install' = [connection |-> connection, plan |-> dialog]
  /\ UNCHANGED <<method, host, connection, machine, disk, shown, worker, owner, open, hurried>>

\* on_unrealize() closes a connection that no installation has.
Leave ==
  /\ shown /\ shown' = FALSE /\ dialog' = None /\ Hurries("leave")
  /\ IF install = NoInstallation THEN open' = open \ {connection} /\ connection' = None ELSE UNCHANGED <<open, connection>>
  /\ UNCHANGED <<method, host, machine, disk, install, worker, owner>>

Next ==
  \/ SelectMethod \/ EditHost \/ Connect \/ SelectDisk \/ Begin \/ Respond \/ Leave
  \/ WorkerCloses \/ ConnectSSH \/ ConnectLocalDisk \/ Load \/ LoadLocal \/ Done

Spec == Init /\ [][Next]_vars

-----------------------------------------------------------------------------
(* Properties.                                                             *)

TypeOK ==
  /\ method \in Methods /\ host \in Hosts /\ connection \in Made \cup {None} /\ machine \in Made \cup {None}
  /\ open \subseteq Made /\ worker.at \in {"idle", "close", "connect", "list", "done"}

\* A connection that is open, and with it a session of another machine or
\* root access to this one, belongs to the wizard that shows it, to the worker
\* that makes it, or to the installation.  One connection can be nobody's, the
\* last that a worker handed over, and only when the user went on or left
\* while the wizard connected.
ConnectionsOwned ==
  open \subseteq (IF shown \/ hurried # {} THEN {connection} ELSE {})
                   \cup (IF Connecting THEN {worker.connection, worker.previous} ELSE {})
                   \cup (IF install = NoInstallation THEN {} ELSE {install.connection})

\* The installation erases the disk that the dialog named: its connection
\* leads to the machine whose disks were listed for the plan, if it is open
\* and the user did not go on to the dialog while the wizard connected.
ErasesNamed ==
  install # NoInstallation /\ install.connection \in open /\ "go on" \notin hurried =>
    owner[install.connection] = owner[install.plan]
=============================================================================
