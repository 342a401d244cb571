---------------------------- MODULE PluginUpdate ----------------------------
(***************************************************************************)
(* The KOReader plugin on an e-reader: start, stop and restart of the      *)
(* backend (zenfm_daemon.lua) and the update that replaces the plugin's    *)
(* directory, checks the new backend and rolls back (zenfm_updater.lua).   *)
(* KOReader runs one operation at a time; it may be killed at every step,  *)
(* while the supervisor and the backend run on without it.  The supervisor *)
(* is reduced to what the plugin sees of it: its lock, which it takes some *)
(* time after it was launched, and the control socket.  The directories    *)
(* are named by what is appended to plugin_dir.                            *)
(***************************************************************************)
EXTENDS Naturals

CONSTANTS
  Versions,   \* releases, the first of which is installed
  None,       \* nothing there
  Torn,       \* a tree some of whose files are missing
  MaxStarting,\* supervisors that are on their way to the lock at a time
  MaxFaults   \* file system calls that fail although nothing is in their way

ASSUME VersionsAssumption == Versions \subseteq Nat \ {0} /\ Versions # {}
ASSUME NoneAssumption ==
  None \notin Nat /\ Torn \notin Nat /\ None # Torn /\ None \notin {"resume", "stop"}
ASSUME FaultsAssumption == MaxFaults \in Nat
ASSUME StartingAssumption == MaxStarting \in Nat \ {0}

Places == {"plugin", "stage", "incoming", "rollback", "failed"}
Trees  == Versions \cup {None, Torn}

VARIABLES
  dir,        \* what each directory holds
  pending,    \* .update-pending in the plugin directory
  installed,  \* the version of the executable in the state directory
  source,     \* the version source.version says it is
  backend,    \* the version of the backend process
  phase,      \* how far that process is; it answers when it is "serving"
  lock,       \* the supervisor's: free, held, or left by a dead supervisor
  starting,   \* supervisors that were launched and have not come to the lock
  pc,         \* where KOReader is
  goal,       \* what the present stop or start is a part of
  resume,     \* was_running
  wanted,     \* the service was asked for since it was last off
  stuck,      \* the marker of an update that was found healthy stayed behind
  missed,     \* the last wait ended while a supervisor was starting
  faults

disk    == <<dir, pending, installed, source>>
service == <<backend, phase, lock, starting>>
control == <<pc, goal, resume>>
history == <<wanted, stuck, missed>>
vars    == <<disk, service, control, history, faults>>

Goals == {"toggle", "restart", "reset", "activate", "verify", "settle", "rollback"}

TypeOK ==
  /\ dir \in [Places -> Trees]
  /\ pending \in {None, "resume", "stop"}
  /\ installed \in Versions \cup {None}
  /\ source \in Versions \cup {None}
  /\ backend \in Versions \cup {None}
  /\ phase \in {"off", "booting", "serving", "stopping"}
  /\ lock \in {"free", "held", "stale"}
  /\ starting \in 0..MaxStarting
  /\ pc \in {"down", "idle", "stop", "recheck", "wait", "start", "copy", "mark", "launch",
             "poll", "health", "clearIncoming", "clearRollback", "stage", "aside", "dropIncoming",
             "swap", "undo", "write", "dropPlugin", "unmark", "discard", "clearFailed",
             "setAside", "restore", "dropFailed"}
  /\ goal \in Goals
  /\ resume \in BOOLEAN
  /\ wanted \in BOOLEAN /\ stuck \in BOOLEAN /\ missed \in BOOLEAN
  /\ faults \in 0..MaxFaults

Init ==
  /\ \E v \in Versions :
       /\ \A w \in Versions : v <= w
       /\ dir = [p \in Places |-> IF p = "plugin" THEN v ELSE None]
  /\ pending = None /\ installed = None /\ source = None
  /\ backend = None /\ phase = "off" /\ lock = "free" /\ starting = 0
  /\ pc = "idle" /\ goal = "toggle" /\ resume = FALSE
  /\ wanted = FALSE /\ stuck = FALSE /\ missed = FALSE
  /\ faults = 0

Whole(p) == dir[p] \in Versions
Running  == phase = "serving"
Off      == phase = "off" /\ lock = "free"

Go(label)    == pc' = label /\ UNCHANGED <<goal, resume>>
Do(g, label) == pc' = label /\ goal' = g /\ UNCHANGED resume

\* A file system call fails without a reason in the model.
Fault == faults < MaxFaults /\ faults' = faults + 1
Clean == UNCHANGED faults

\* os.rename of a directory: there must be one, and nothing in its way.
CanRename(from, to) == dir[from] # None /\ dir[to] = None
Rename(from, to) ==
  /\ CanRename(from, to)
  /\ dir' = [dir EXCEPT ![to] = dir[from], ![from] = None]
  /\ Clean
RenameFails(from, to) ==
  /\ Fault \/ (~CanRename(from, to) /\ Clean)
  /\ UNCHANGED dir

\* Util.remove_tree, file by file.
Remove(p) == dir' = [dir EXCEPT ![p] = None] /\ Clean
RemoveFails(p) ==
  /\ dir[p] # None
  /\ Fault
  /\ \E left \in {dir[p], Torn} : dir' = [dir EXCEPT ![p] = left]
-----------------------------------------------------------------------------
\* What follows a stop, a wait and a start depends on what they are part of.
EndStop(ok) ==
  IF ok /\ goal # "toggle" THEN Go("wait")
  ELSE IF goal \in {"verify", "settle"} THEN Do("rollback", "stop")
  ELSE Go("idle")

AfterWait ==
  CASE goal = "restart"  -> "start"
    [] goal = "reset"    -> "copy"
    [] goal = "activate" -> "clearIncoming"
    [] goal = "verify"   -> "start"
    [] goal = "settle"   -> "unmark"
    [] goal = "rollback" -> "clearFailed"
    [] OTHER             -> "idle"

EndWait(ok) ==
  IF ok THEN Go(AfterWait)
  ELSE IF goal \in {"verify", "settle"} THEN Do("rollback", "stop")
  ELSE Go("idle")

EndStart(ok) ==
  IF goal # "verify" THEN Go("idle")
  ELSE IF ok THEN Go("health") ELSE Do("rollback", "stop")

\* Daemon:stop, with or without an answer of the control socket
Stop ==
  /\ pc = "stop"
  /\ \/ Running /\ phase' = "stopping" /\ EndStop(TRUE)
     \/ UNCHANGED phase /\ Go("recheck")
  /\ UNCHANGED <<disk, backend, lock, starting, history, faults>>

\* No answer to the command: "already stopped", unless it answers now.
Recheck ==
  /\ pc = "recheck"
  /\ EndStop(~Running)
  /\ UNCHANGED <<disk, service, history, faults>>

\* Mutant: the lock of the old supervisor is not waited for.
MutGone == ~Running

\* Daemon:wait_until_stopped; reset_login waits for the socket only.  Neither
\* sees a supervisor that is starting.
Gone == ~Running /\ (goal = "reset" \/ lock = "free")

Wait ==
  /\ pc = "wait"
  /\ EndWait(Gone)
  /\ missed' = (IF Gone /\ goal # "reset" THEN starting > 0 ELSE missed)
  /\ UNCHANGED <<disk, service, wanted, stuck, faults>>

\* Daemon:start; the health check calls ensure_backend before it as well,
\* which is the same twice.
Start ==
  /\ pc = "start"
  /\ IF Running THEN EndStart(TRUE) ELSE Go("copy")
  /\ UNCHANGED <<disk, service, history, faults>>

\* Daemon:ensure_backend: the executable, then the file that names it.  After
\* it reset_login runs the executable once, start launches it.
Deployed == Go(IF goal = "reset" THEN "idle" ELSE "launch")

UpToDate == installed # None /\ source = dir["plugin"]

Keep ==
  /\ pc = "copy" /\ Whole("plugin") /\ UpToDate
  /\ Deployed
  /\ UNCHANGED <<disk, service, history, faults>>

\* A release that was unpacked once more may differ in its times: it is then
\* copied although the versions agree.
Copy ==
  /\ pc = "copy" /\ Whole("plugin")
  /\ installed' = dir["plugin"]
  /\ Go("mark")
  /\ UNCHANGED <<dir, pending, source, service, history, faults>>

CopyFails ==
  /\ pc = "copy"
  /\ (Whole("plugin") /\ Fault) \/ (~Whole("plugin") /\ Clean)
  /\ EndStart(FALSE)
  /\ UNCHANGED <<disk, service, history>>

Mark ==
  /\ pc = "mark"
  /\ source' = dir["plugin"]
  /\ Deployed
  /\ UNCHANGED <<dir, pending, installed, service, history, faults>>

MarkFails ==
  /\ pc = "mark"
  /\ Fault
  /\ EndStart(FALSE)
  /\ UNCHANGED <<disk, service, history>>

\* A supervisor is started in the background and not waited for.
Launch ==
  /\ pc = "launch" /\ starting < MaxStarting
  /\ starting' = starting + 1
  /\ wanted' = (wanted \/ goal # "verify" \/ pending = "resume")
  /\ Go("poll")
  /\ UNCHANGED <<disk, backend, phase, lock, stuck, missed, faults>>

Poll ==
  /\ pc = "poll"
  /\ EndStart(Running)
  /\ UNCHANGED <<disk, service, history, faults>>
-----------------------------------------------------------------------------
\* What the owner does: the menu's switch, a changed setting, reset_login.
Toggle ==
  /\ pc = "idle"
  /\ Do("toggle", IF Running THEN "stop" ELSE "start")
  /\ UNCHANGED <<disk, service, history, faults>>

Restart ==
  /\ pc = "idle" /\ Running
  /\ Do("restart", "stop")
  /\ UNCHANGED <<disk, service, history, faults>>

ResetLogin ==
  /\ pc = "idle"
  /\ Do("reset", "stop")
  /\ UNCHANGED <<disk, service, history, faults>>

Newer(v) == Whole("plugin") => v > dir["plugin"]

\* Mutant: an update is prepared while another is pending.
MutPrepare(v) ==
  /\ pc = "idle" /\ Newer(v)
  /\ dir' = [dir EXCEPT !["stage"] = v]
  /\ pc' = "stop" /\ goal' = "activate" /\ resume' = Running
  /\ UNCHANGED <<pending, installed, source, service, history, faults>>

\* prepare_latest, and the start of activate_stage
Prepare(v) ==
  /\ pc = "idle" /\ pending = None /\ Newer(v)
  /\ dir' = [dir EXCEPT !["stage"] = v]
  /\ pc' = "stop" /\ goal' = "activate" /\ resume' = Running
  /\ UNCHANGED <<pending, installed, source, service, history, faults>>

PrepareFails ==
  /\ pc = "idle" /\ pending = None
  /\ \E left \in {None, Torn} : dir' = [dir EXCEPT !["stage"] = left]
  /\ UNCHANGED <<pending, installed, source, service, control, history, faults>>

\* finalize_pending, which every start of the plugin calls: at the start of
\* KOReader, if there is a plugin, and whenever a book is opened or closed.
Finalize ==
  /\ pc = "idle" \/ (pc = "down" /\ Whole("plugin"))
  /\ pending # None
  /\ Do("verify", "stop")
  /\ UNCHANGED <<disk, service, history, faults>>

Begin ==
  /\ pc = "down" /\ Whole("plugin") /\ pending = None
  /\ Go("idle")
  /\ UNCHANGED <<disk, service, history, faults>>
-----------------------------------------------------------------------------
\* install_stage.  It ends with a start if the service ran before.
EndInstall == Go(IF resume THEN "start" ELSE "idle")

ClearIncoming ==
  /\ pc = "clearIncoming"
  /\ \/ Remove("incoming") /\ Go("clearRollback")
     \/ RemoveFails("incoming") /\ EndInstall
  /\ UNCHANGED <<pending, installed, source, service, history>>

ClearRollback ==
  /\ pc = "clearRollback"
  /\ \/ Remove("rollback") /\ Go("stage")
     \/ RemoveFails("rollback") /\ EndInstall
  /\ UNCHANGED <<pending, installed, source, service, history>>

\* Where the stage cannot be renamed it is copied, file by file.
Stage ==
  /\ pc = "stage"
  /\ \/ Rename("stage", "incoming") /\ Go("aside")
     \/ dir' = [dir EXCEPT !["incoming"] = dir["stage"]] /\ Clean /\ Go("aside")
     \/ dir' = [dir EXCEPT !["incoming"] = Torn] /\ Fault /\ EndInstall
  /\ UNCHANGED <<pending, installed, source, service, history>>

\* Mutant: the old plugin is removed, not moved.
MutAside ==
  /\ pc = "aside"
  /\ \/ Remove("plugin") /\ Go("swap")
     \/ RenameFails("plugin", "rollback") /\ Go("dropIncoming")
  /\ UNCHANGED <<pending, installed, source, service, history>>

Aside ==
  /\ pc = "aside"
  /\ \/ Rename("plugin", "rollback") /\ Go("swap")
     \/ RenameFails("plugin", "rollback") /\ Go("dropIncoming")
  /\ UNCHANGED <<pending, installed, source, service, history>>

DropIncoming ==
  /\ pc = "dropIncoming"
  /\ Remove("incoming") \/ RemoveFails("incoming")
  /\ EndInstall
  /\ UNCHANGED <<pending, installed, source, service, history>>

Swap ==
  /\ pc = "swap"
  /\ \/ Rename("incoming", "plugin") /\ Go("write")
     \/ RenameFails("incoming", "plugin") /\ Go("undo")
  /\ UNCHANGED <<pending, installed, source, service, history>>

Write ==
  /\ pc = "write"
  /\ \/ pending' = (IF resume THEN "resume" ELSE "stop") /\ Clean /\ EndInstall
     \/ Fault /\ Go("dropPlugin") /\ UNCHANGED pending
  /\ UNCHANGED <<dir, installed, source, service, history>>

DropPlugin ==
  /\ pc = "dropPlugin"
  /\ \/ Remove("plugin") /\ Go("undo")
     \/ RemoveFails("plugin") /\ EndInstall
  /\ UNCHANGED <<pending, installed, source, service, history>>

Undo ==
  /\ pc = "undo"
  /\ Rename("rollback", "plugin") \/ RenameFails("rollback", "plugin")
  /\ EndInstall
  /\ UNCHANGED <<pending, installed, source, service, history>>
-----------------------------------------------------------------------------
\* The rest of finalize_pending: the verdict, and what comes of it.

AfterHealth == IF pending = "stop" THEN Do("settle", "stop") ELSE Go("unmark")

Health ==
  /\ pc = "health"
  /\ IF Running THEN AfterHealth ELSE Do("rollback", "stop")
  /\ UNCHANGED <<disk, service, history, faults>>

\* Whether the marker could be removed is not looked at.
Unmark ==
  /\ pc = "unmark"
  /\ \/ pending' = None /\ Clean /\ UNCHANGED stuck
     \/ Fault /\ UNCHANGED pending /\ stuck' = TRUE
  /\ Go("discard")
  /\ UNCHANGED <<dir, installed, source, service, wanted, missed>>

Discard ==
  /\ pc = "discard"
  /\ Remove("rollback") \/ RemoveFails("rollback")
  /\ Go("idle")
  /\ UNCHANGED <<pending, installed, source, service, history>>

ClearFailed ==
  /\ pc = "clearFailed"
  /\ \/ Remove("failed") /\ Go("setAside")
     \/ RemoveFails("failed") /\ Go("idle")
  /\ UNCHANGED <<pending, installed, source, service, history>>

\* The marker moves with the directory it is in.
SetAside ==
  /\ pc = "setAside"
  /\ \/ Rename("plugin", "failed") /\ pending' = None /\ Go("restore")
     \/ RenameFails("plugin", "failed") /\ Go("idle") /\ UNCHANGED pending
  /\ UNCHANGED <<installed, source, service, history>>

Restore ==
  /\ pc = "restore"
  /\ \/ Rename("rollback", "plugin") /\ Go("dropFailed")
     \/ RenameFails("rollback", "plugin") /\ Go("idle")
  /\ UNCHANGED <<pending, installed, source, service, history>>

DropFailed ==
  /\ pc = "dropFailed"
  /\ Remove("failed") \/ RemoveFails("failed")
  /\ Go("idle")
  /\ UNCHANGED <<pending, installed, source, service, history>>
-----------------------------------------------------------------------------
\* What each step was removing or copying is torn when it is cut short.
InWork ==
  CASE pc = "clearIncoming" -> {"incoming"}
    [] pc = "dropIncoming"  -> {"incoming"}
    [] pc = "stage"         -> {"incoming"}
    [] pc = "clearRollback" -> {"rollback"}
    [] pc = "discard"       -> {"rollback"}
    [] pc = "dropPlugin"    -> {"plugin"}
    [] pc = "clearFailed"   -> {"failed"}
    [] pc = "dropFailed"    -> {"failed"}
    [] OTHER                -> {}

CutShort ==
  /\ \E torn \in SUBSET InWork :
       /\ \A p \in torn : dir[p] # None \/ pc = "stage"
       /\ dir' = [p \in Places |-> IF p \in torn THEN Torn ELSE dir[p]]
  /\ Go("down")
  /\ UNCHANGED <<pending, installed, source, stuck, missed, faults>>

\* KOReader ends, or is killed.
Quit == pc # "down" /\ CutShort /\ UNCHANGED <<service, wanted>>

\* The device restarts; /tmp, where lock and socket are, is empty then.
PowerLoss ==
  /\ CutShort
  /\ backend' = None /\ phase' = "off" /\ lock' = "free" /\ starting' = 0
  /\ wanted' = FALSE
-----------------------------------------------------------------------------
\* The backend and its supervisor, which run without KOReader.

\* Nothing runs, and nothing is about to.
Ended == phase' = "off" /\ starting' = 0

\* The supervisor comes to the lock: from a dead one it takes the lock over
\* and ends what is left of its backend.
TakeLock ==
  /\ starting > 0 /\ lock # "held"
  /\ starting' = starting - 1
  /\ lock' = "held" /\ backend' = installed /\ phase' = "booting"
  /\ UNCHANGED <<disk, control, history, faults>>

\* It gives way to a living supervisor, or fails before it has the lock.
GiveWay ==
  /\ starting > 0
  /\ starting' = starting - 1
  /\ UNCHANGED <<disk, backend, phase, lock, control, stuck, missed, faults>>
  /\ wanted' = (wanted /\ ~Ended)

Boot ==
  /\ phase = "booting"
  /\ phase' = "serving"
  /\ UNCHANGED <<disk, backend, lock, starting, control, history, faults>>

\* It does not come up, crashes, or was idle for too long.
Halt ==
  /\ phase \in {"booting", "serving"}
  /\ phase' = "stopping"
  /\ UNCHANGED <<disk, backend, lock, starting, control, history, faults>>

\* The process has ended and a living supervisor has cleaned up.
Exit ==
  /\ phase = "stopping"
  /\ phase' = "off" /\ backend' = None
  /\ lock' = (IF lock = "held" THEN "free" ELSE lock)
  /\ UNCHANGED <<disk, starting, control, stuck, missed, faults>>
  /\ wanted' = (wanted /\ ~Ended)

\* The supervisor is killed, for want of memory.
Abandon ==
  /\ lock = "held"
  /\ lock' = "stale"
  /\ UNCHANGED <<disk, backend, phase, starting, control, history, faults>>

Owner == Toggle \/ Restart \/ ResetLogin \/ PrepareFails \/ \E v \in Versions : Prepare(v)
Lifecycle == Stop \/ Recheck \/ Wait \/ Start \/ Keep \/ Copy \/ CopyFails \/ Mark \/ MarkFails
             \/ Launch \/ Poll
Install == ClearIncoming \/ ClearRollback \/ Stage \/ Aside \/ DropIncoming \/ Swap \/ Write
           \/ DropPlugin \/ Undo
Conclude == Health \/ Unmark \/ Discard \/ ClearFailed \/ SetAside \/ Restore \/ DropFailed
Service == TakeLock \/ GiveWay \/ Boot \/ Halt \/ Exit \/ Abandon

Next == Owner \/ Lifecycle \/ Begin \/ Finalize \/ Install \/ Conclude \/ Quit \/ PowerLoss \/ Service

Spec == Init /\ [][Next]_vars
-----------------------------------------------------------------------------
\* Whatever fails once and wherever KOReader or the device goes down, a whole
\* plugin is left on the disk, under its name or one that an installation or
\* a rollback gave it (install_stage and finalize_pending).  This is lost only
\* where .update-pending could not be removed, which goes unnoticed.
Recoverable == stuck \/ \E p \in {"plugin", "rollback", "failed"} : Whole(p)

\* As long as an update is pending, the version it replaced can be restored
\* and is older ("a second update cannot erase rollback state before
\* restart", daemon_test.lua:1295).
RollbackKept ==
  pending # None =>
    stuck \/ (Whole("rollback") /\ Whole("plugin") /\ dir["rollback"] < dir["plugin"])

\* The files of a plugin are moved only while nothing runs that was started
\* from them, in whatever state stop, wait and start left the service
\* (activate_stage and finalize_pending).  One case is left open, and lost in
\* the code: a supervisor that had not come to its lock when
\* wait_until_stopped looked starts its backend among the moving files.
SwapsStopped ==
  pc \in {"clearIncoming", "clearRollback", "stage", "aside", "swap", "write", "undo",
          "setAside", "restore"} => Off \/ missed

\* An update that found the service stopped leaves it stopped, also when
\* KOReader ended while the new backend ran for its health check
\* ("update health verification restores a stopped service",
\* daemon_test.lua:1360).  The supervisor that was started for the check and
\* comes to its lock after the wait is the same open case.
Uninvited == pc = "idle" /\ pending = None /\ Running => wanted \/ missed

=============================================================================
