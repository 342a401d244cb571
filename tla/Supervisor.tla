----------------------------- MODULE Supervisor -----------------------------
(***************************************************************************)
(* The shell supervisors of the plugin (supervisor.sh), the lock directory *)
(* they share, and the backends they launch: start-up (main.go) with the   *)
(* database lock, and the control socket (control/socket.go).  A backend   *)
(* has the name of the supervisor that launched it; a record names the     *)
(* process whose pid and start time it holds.                              *)
(***************************************************************************)
CONSTANTS
  Supervisors,  \* runs of the script
  Nobody        \* no such file, no such process

ASSUME NobodyAssumption == Nobody \notin Supervisors

VARIABLES
  lock,      \* the lock directory exists
  rec,       \* its files: owner, ident (owner.start and .exe), child
  pidFile,   \* server.pid
  dropped,   \* Daemon:stop has removed server.pid since it was written
  sock,      \* the control socket's path: the backend that bound it
  firewall,  \* the Kindle's firewall lets the port through
  pc,        \* where a supervisor is
  target,    \* the child a recovering supervisor ends
  backend,   \* how far a backend is
  db,        \* the backend that holds the lock of zenfm.db
  lost,      \* backends whose supervisor was killed before it recorded them
  regime     \* what happens: see SupervisorInit

pid   == <<pidFile, dropped>>
files == <<lock, rec, pid, sock, firewall>>
supervisorVars == <<files, pc, target, backend, db, lost, regime>>

Records == {"owner", "ident", "child"}

\* The steps that own the lock, up to the end of cleanup.
Owned ==
  {"owner", "ident", "pid", "firewall", "launch", "record", "exe", "wait", "stop", "reap",
   "shut", "check", "dropSocket", "dropPid", "dropOwner", "dropIdent", "dropChild", "free"}

\* The steps before it: none, one or both locks on the way.
Acquiring == {"read", "term", "kill", "unlinkOwner", "unlinkIdent", "unlinkChild", "rmdir", "mkdir"}

SupervisorTypeOK ==
  /\ lock \in BOOLEAN /\ firewall \in BOOLEAN /\ dropped \in BOOLEAN
  /\ rec \in [Records -> Supervisors \cup {Nobody}]
  /\ pidFile \in Supervisors \cup {Nobody}
  /\ sock \in Supervisors \cup {Nobody}
  /\ pc \in [Supervisors -> Owned \cup Acquiring \cup {"new", "done", "killed"}]
  /\ target \in [Supervisors -> Supervisors \cup {Nobody}]
  /\ \A s \in Supervisors : pc[s] = "kill" => target[s] # Nobody
  /\ backend \in [Supervisors -> {"off", "opening", "bound", "serving", "stopping", "closed", "dead"}]
  /\ db \in Supervisors \cup {Nobody}
  /\ lost \subseteq Supervisors
  /\ regime \in {"together", "alone", "any"}

\* Starters come together but none is killed; or they may be killed and one at
\* a time acquires the lock; or both.
SupervisorInit ==
  /\ lock = FALSE /\ firewall = FALSE /\ dropped = FALSE
  /\ rec = [f \in Records |-> Nobody]
  /\ pidFile = Nobody /\ sock = Nobody /\ db = Nobody
  /\ pc = [s \in Supervisors |-> "new"]
  /\ target = [s \in Supervisors |-> Nobody]
  /\ backend = [s \in Supervisors |-> "off"]
  /\ lost = {}
  /\ regime \in {"together", "alone", "any"}

Live(s)  == pc[s] \notin {"new", "done", "killed"}
Alive(b) == backend[b] \notin {"off", "dead"}

Go(s, label)  == pc' = [pc EXCEPT ![s] = label]
Write(f, who) == rec' = [rec EXCEPT ![f] = who]
-----------------------------------------------------------------------------
\* mkdir "$lock_dir"
StartSupervisor(s) ==
  /\ pc[s] = "new"
  /\ regime = "alone" => \A t \in Supervisors : pc[t] \notin Acquiring
  /\ lock' = TRUE
  /\ Go(s, IF lock THEN "read" ELSE "owner")
  /\ UNCHANGED <<rec, pid, sock, firewall, target, backend, db, lost, regime>>

\* Mutant: an owner that has not recorded what identifies it counts as dead.
MutRefuse == rec["owner"] = Nobody \/ (Live(rec["owner"]) /\ rec["ident"] = rec["owner"])

\* The owner is not known, not yet identified, or it is alive.
Refuse ==
  rec["owner"] = Nobody \/ (Live(rec["owner"]) /\ rec["ident"] \in {Nobody, rec["owner"]})

\* It waits for the records to be complete, but not for ever.
ReadRecords(s) ==
  /\ pc[s] = "read"
  /\ Go(s, IF Refuse THEN "done" ELSE "term")
  /\ UNCHANGED <<files, target, backend, db, lost, regime>>

\* A TERM ends a backend that has not yet asked for it (signal.NotifyContext);
\* one that has may still begin to listen.
Signal(b) ==
  \/ backend[b] \in {"opening", "bound"} /\ backend' = [backend EXCEPT ![b] = "closed"]
  \/ backend[b] = "serving" /\ backend' = [backend EXCEPT ![b] = "stopping"]
  \/ backend[b] \in {"bound", "stopping", "closed"} /\ UNCHANGED backend

Die(b) ==
  /\ backend' = [backend EXCEPT ![b] = "dead"]
  /\ db' = IF db = b THEN Nobody ELSE db

\* Mutant: what a dead supervisor left running is left running.
MutTerminateChild(s) ==
  /\ pc[s] = "term"
  /\ Go(s, "unlinkOwner")
  /\ UNCHANGED <<files, target, backend, db, lost, regime>>

\* terminate_recorded_child; it gives up if it cannot tell whether the child is
\* a backend.
TerminateChild(s) ==
  LET c == rec["child"]
      running == c # Nobody /\ Alive(c)
  IN
    /\ pc[s] = "term"
    /\ \/ running /\ Signal(c) /\ Go(s, "kill") /\ target' = [target EXCEPT ![s] = c]
       \/ running /\ Go(s, "done") /\ UNCHANGED <<backend, target>>
       \/ ~running /\ Go(s, "unlinkOwner") /\ UNCHANGED <<backend, target>>
    /\ UNCHANGED <<files, db, lost, regime>>

\* It waits, then kills; if even that does not help it gives up.
KillChild(s) ==
  /\ pc[s] = "kill"
  /\ \/ ~Alive(target[s]) /\ Go(s, "unlinkOwner") /\ UNCHANGED <<backend, db>>
     \/ Alive(target[s]) /\ Die(target[s]) /\ Go(s, "unlinkOwner")
     \/ Alive(target[s]) /\ Go(s, "done") /\ UNCHANGED <<backend, db>>
  /\ UNCHANGED <<files, target, lost, regime>>

\* rm, file by file: of a recovered lock, and at the end of one's own
Unlink(s, label, f, next) ==
  /\ pc[s] = label
  /\ Write(f, Nobody)
  /\ Go(s, next)
  /\ UNCHANGED <<lock, pid, sock, firewall, target, backend, db, lost, regime>>

UnlinkRecord(s) ==
  \/ Unlink(s, "unlinkOwner", "owner", "unlinkIdent")
  \/ Unlink(s, "unlinkIdent", "ident", "unlinkChild")
  \/ Unlink(s, "unlinkChild", "child", "rmdir")
  \/ Unlink(s, "dropOwner", "owner", "dropIdent")
  \/ Unlink(s, "dropIdent", "ident", "dropChild")
  \/ Unlink(s, "dropChild", "child", "free")

Empty == \A f \in Records : rec[f] = Nobody

RemoveLock(s) ==
  /\ pc[s] = "rmdir"
  /\ IF lock /\ Empty
     THEN lock' = FALSE /\ Go(s, "mkdir")
     ELSE Go(s, "done") /\ UNCHANGED lock
  /\ UNCHANGED <<rec, pid, sock, firewall, target, backend, db, lost, regime>>

MakeLock(s) ==
  /\ pc[s] = "mkdir"
  /\ lock' = TRUE
  /\ Go(s, IF lock THEN "done" ELSE "owner")
  /\ UNCHANGED <<rec, pid, sock, firewall, target, backend, db, lost, regime>>
-----------------------------------------------------------------------------
\* What the owner writes into the lock; without the directory the script ends.
Record(s, label, f, next) ==
  /\ pc[s] = label
  /\ IF lock
     THEN Write(f, s) /\ Go(s, next)
     ELSE Go(s, "stop") /\ UNCHANGED rec
  /\ UNCHANGED <<lock, pid, sock, firewall, target, backend, db, lost, regime>>

RecordOwner(s) == Record(s, "owner", "owner", "ident")
RecordIdent(s) == Record(s, "ident", "ident", "pid")
RecordChild(s) == Record(s, "record", "child", "exe")

WritePid(s) ==
  /\ pc[s] = "pid"
  /\ pidFile' = s /\ dropped' = FALSE
  /\ Go(s, "firewall")
  /\ UNCHANGED <<lock, rec, sock, firewall, target, backend, db, lost, regime>>

OpenFirewall(s) ==
  /\ pc[s] = "firewall"
  /\ firewall' = TRUE
  /\ Go(s, "launch")
  /\ UNCHANGED <<lock, rec, pid, sock, target, backend, db, lost, regime>>

Launch(s) ==
  /\ pc[s] = "launch"
  /\ backend' = [backend EXCEPT ![s] = "opening"]
  /\ Go(s, "record")
  /\ UNCHANGED <<files, target, db, lost, regime>>

\* child.exe, the last file the script writes
RecordExe(s) ==
  /\ pc[s] = "exe"
  /\ Go(s, IF lock THEN "wait" ELSE "stop")
  /\ UNCHANGED <<files, target, backend, db, lost, regime>>

\* The backend ended, or the script was told to.
Awake(s) ==
  /\ pc[s] = "wait"
  /\ Go(s, "stop")
  /\ UNCHANGED <<files, target, backend, db, lost, regime>>

\* cleanup: the child
StopChild(s) ==
  /\ pc[s] = "stop"
  /\ IF Alive(s) THEN Signal(s) /\ Go(s, "reap") ELSE Go(s, "shut") /\ UNCHANGED backend
  /\ UNCHANGED <<files, target, db, lost, regime>>

Reap(s) ==
  /\ pc[s] = "reap"
  /\ IF Alive(s) THEN Die(s) ELSE UNCHANGED <<backend, db>>
  /\ Go(s, "shut")
  /\ UNCHANGED <<files, target, lost, regime>>

\* cleanup: the firewall, if the script got as far as opening it
Shut(s) ==
  /\ pc[s] = "shut"
  /\ firewall' = (firewall /\ backend[s] = "off")
  /\ Go(s, "check")
  /\ UNCHANGED <<lock, rec, pid, sock, target, backend, db, lost, regime>>

\* cleanup: the lock, if it is still this supervisor's
Check(s) ==
  /\ pc[s] = "check"
  /\ Go(s, IF rec["owner"] = s THEN "dropSocket" ELSE "done")
  /\ UNCHANGED <<files, target, backend, db, lost, regime>>

DropSocket(s) ==
  /\ pc[s] = "dropSocket"
  /\ sock' = Nobody
  /\ Go(s, "dropPid")
  /\ UNCHANGED <<lock, rec, pid, firewall, target, backend, db, lost, regime>>

DropPid(s) ==
  /\ pc[s] = "dropPid"
  /\ pidFile' = Nobody
  /\ Go(s, "dropOwner")
  /\ UNCHANGED <<lock, rec, dropped, sock, firewall, target, backend, db, lost, regime>>

Free(s) ==
  /\ pc[s] = "free"
  /\ lock' = (lock /\ ~Empty)
  /\ Go(s, "done")
  /\ UNCHANGED <<rec, pid, sock, firewall, target, backend, db, lost, regime>>

\* SIGKILL, or the system is short of memory
Kill(s) ==
  /\ regime # "together" /\ Live(s)
  /\ Go(s, "killed")
  /\ lost' = IF pc[s] = "record" THEN lost \cup {s} ELSE lost
  /\ UNCHANGED <<files, target, backend, db, regime>>
-----------------------------------------------------------------------------
\* The backend: state.Open waits a second for the lock of the database.
Open(b) ==
  /\ backend[b] = "opening"
  /\ IF db = Nobody
     THEN db' = b /\ backend' = [backend EXCEPT ![b] = "bound"]
     ELSE backend' = [backend EXCEPT ![b] = "closed"] /\ UNCHANGED db
  /\ UNCHANGED <<files, pc, target, lost, regime>>

\* Mutant: a socket nobody listens on is not removed.
MutListen(b) ==
  /\ backend[b] = "bound"
  /\ backend' = [backend EXCEPT ![b] = "serving"]
  /\ sock' = IF sock = Nobody THEN b ELSE sock
  /\ UNCHANGED <<lock, rec, pid, firewall, pc, target, db, lost, regime>>

\* removeStaleSocket and ListenUnix; a socket somebody listens on is refused.
Listen(b) ==
  /\ backend[b] = "bound"
  /\ IF sock # Nobody /\ backend[sock] \in {"serving", "stopping"}
     THEN backend' = [backend EXCEPT ![b] = "closed"] /\ UNCHANGED sock
     ELSE backend' = [backend EXCEPT ![b] = "serving"] /\ sock' = b
  /\ UNCHANGED <<lock, rec, pid, firewall, pc, target, db, lost, regime>>

\* The command stop, or nobody used it for a while (watchIdle)
Stop(b) ==
  /\ backend[b] = "serving"
  /\ backend' = [backend EXCEPT ![b] = "stopping"]
  /\ UNCHANGED <<files, pc, target, db, lost, regime>>

\* Closing the listener removes what is at its path.
CloseSocket(b) ==
  /\ backend[b] = "stopping"
  /\ backend' = [backend EXCEPT ![b] = "closed"]
  /\ sock' = Nobody
  /\ UNCHANGED <<lock, rec, pid, firewall, pc, target, db, lost, regime>>

\* It exits, with or without that, or crashes.
Exit(b) ==
  /\ Alive(b)
  /\ Die(b)
  /\ UNCHANGED <<files, pc, target, lost, regime>>

\* Daemon:stop got no answer to the command stop nor to status: no backend
\* listened when it asked, or one was too slow.  One may listen by now.
StopUnanswered ==
  /\ pidFile # Nobody
  /\ pidFile' = Nobody /\ dropped' = TRUE
  /\ UNCHANGED <<lock, rec, sock, firewall, pc, target, backend, db, lost, regime>>

Acquire(s) ==
  StartSupervisor(s) \/ ReadRecords(s) \/ TerminateChild(s) \/ KillChild(s) \/ UnlinkRecord(s)
  \/ RemoveLock(s) \/ MakeLock(s)
Run(s) ==
  RecordOwner(s) \/ RecordIdent(s) \/ WritePid(s) \/ OpenFirewall(s) \/ Launch(s) \/ RecordChild(s)
  \/ RecordExe(s) \/ Awake(s)
Cleanup(s) ==
  StopChild(s) \/ Reap(s) \/ Shut(s) \/ Check(s) \/ DropSocket(s) \/ DropPid(s) \/ Free(s)
Backend(b) == Open(b) \/ Listen(b) \/ Stop(b) \/ CloseSocket(b) \/ Exit(b)

SupervisorNext ==
  \/ \E s \in Supervisors : Acquire(s) \/ Run(s) \/ Cleanup(s) \/ Kill(s) \/ Backend(s)
  \/ StopUnanswered

SupervisorSpec == SupervisorInit /\ [][SupervisorNext]_supervisorVars
-----------------------------------------------------------------------------
\* At most one supervisor has the lock, whether starters race for a free one
\* ("Truly simultaneous starters must launch exactly one backend",
\* supervisor_test.sh:102) or one at a time takes over from others that were
\* killed at any step.
OneOwner ==
  regime # "any" =>
    \A s, t \in Supervisors : pc[s] \in Owned /\ pc[t] \in Owned => s = t

\* The plugin reaches a backend that serves under a supervisor: the control
\* socket and the firewall are its own, whatever earlier supervisors and
\* backends left behind or still clean up.  So is server.pid, unless
\* Daemon:stop removed it because nobody had answered it; nobody reads that
\* file, and wait_until_stopped looks for the lock as well.
Reachable ==
  regime # "any" =>
    \A b \in Supervisors : backend[b] = "serving" /\ pc[b] \in {"record", "exe", "wait"} =>
      sock = b /\ firewall /\ (pidFile = b \/ (dropped /\ pidFile = Nobody))

\* A free lock means that no backend runs, which the plugin waits for before
\* it replaces files (Daemon:wait_until_stopped), and that nothing is left but
\* what supervisors leave that are killed.  Only a backend whose supervisor
\* died before it was recorded is not known.
Killed == {s \in Supervisors : pc[s] = "killed"}

Released ==
  regime # "any" /\ ~lock =>
    /\ \A b \in Supervisors \ lost : ~Alive(b)
    /\ pidFile \in Killed \cup {Nobody} /\ sock \in Killed \cup {Nobody}
    /\ firewall => Killed # {}

=============================================================================
