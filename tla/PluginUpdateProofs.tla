------------------------- MODULE PluginUpdateProofs -------------------------
(***************************************************************************)
(* Theorems about PluginUpdate: type correctness, what holds of the        *)
(* service while the plugin's files move, and what is left on the disk.    *)
(***************************************************************************)
EXTENDS PluginUpdate, TLAPS

\* source.version is written for a plugin that is whole.
MarkWhole == pc = "mark" => Whole("plugin")

LEMMA TypeInit == Init => TypeOK /\ MarkWhole
<1> SUFFICES ASSUME Init PROVE TypeOK /\ MarkWhole
  OBVIOUS
<1> USE VersionsAssumption, NoneAssumption, FaultsAssumption, StartingAssumption
<1>1. dir \in [Places -> Trees]
  BY DEF Init, Places, Trees
<1>2. wanted \in BOOLEAN /\ stuck \in BOOLEAN /\ missed \in BOOLEAN /\ resume \in BOOLEAN
  BY DEF Init
<1>3. faults \in 0..MaxFaults /\ starting \in 0..MaxStarting
  BY DEF Init
<1>4. QED
  BY <1>1, <1>2, <1>3 DEF Init, TypeOK, MarkWhole, Goals

LEMMA TypeStep == TypeOK /\ MarkWhole /\ [Next]_vars => TypeOK' /\ MarkWhole'
<1> SUFFICES ASSUME TypeOK, MarkWhole, [Next]_vars PROVE TypeOK' /\ MarkWhole'
  OBVIOUS
<1> USE VersionsAssumption, NoneAssumption, FaultsAssumption, StartingAssumption
    DEF TypeOK, MarkWhole, Goals, Places, Trees, Go, Do, Fault, Clean, disk, service, control, history,
        Whole, Running, EndStop, EndWait, EndStart, Deployed, EndInstall, Gone,
        Rename, RenameFails, CanRename, Remove, RemoveFails
<1>1. CASE Toggle        BY <1>1 DEF Toggle
<1>2. CASE Restart       BY <1>2 DEF Restart
<1>3. CASE ResetLogin    BY <1>3 DEF ResetLogin
<1>4. CASE PrepareFails  BY <1>4 DEF PrepareFails
<1>5. ASSUME NEW v \in Versions, Prepare(v) PROVE TypeOK' /\ MarkWhole'
  BY <1>5 DEF Prepare
<1>6. CASE Stop          BY <1>6 DEF Stop
<1>7. CASE Recheck       BY <1>7 DEF Recheck
<1>8. CASE Wait
  <2>1. missed' \in BOOLEAN /\ UNCHANGED <<wanted, stuck>>
    <3>1. missed' = (IF Gone /\ goal # "reset" THEN starting > 0 ELSE missed)
      BY <1>8 DEF Wait
    <3>2. CASE Gone /\ goal # "reset"
      <4>1. missed' = (starting > 0)
        BY <3>1, <3>2
      <4>2. (starting > 0) \in BOOLEAN
        BY SMT
      <4>3. QED
        BY <1>8, <4>1, <4>2 DEF Wait
    <3>3. CASE ~(Gone /\ goal # "reset")
      <4>1. missed' = missed
        BY <3>1, <3>3
      <4>2. QED
        BY <1>8, <4>1 DEF Wait
    <3>4. QED
      BY <3>2, <3>3
  <2>2. QED
    BY <1>8, <2>1 DEF Wait, AfterWait
<1>9. CASE Start         BY <1>9 DEF Start
<1>10. CASE Keep         BY <1>10 DEF Keep
<1>11. CASE Copy         BY <1>11 DEF Copy
<1>12. CASE CopyFails    BY <1>12 DEF CopyFails
<1>13. CASE Mark         BY <1>13 DEF Mark
<1>14. CASE MarkFails    BY <1>14 DEF MarkFails
<1>15. CASE Launch
  <2>1. wanted' \in BOOLEAN /\ UNCHANGED <<missed, stuck>>
    BY <1>15 DEF Launch
  <2>2. starting' \in 0..MaxStarting
    BY <1>15 DEF Launch
  <2>3. QED
    BY <1>15, <2>1, <2>2 DEF Launch
<1>16. CASE Poll         BY <1>16 DEF Poll
<1>17. CASE Begin        BY <1>17 DEF Begin
<1>18. CASE Finalize     BY <1>18 DEF Finalize
<1>19. CASE ClearIncoming BY <1>19 DEF ClearIncoming
<1>20. CASE ClearRollback BY <1>20 DEF ClearRollback
<1>21. CASE Stage        BY <1>21 DEF Stage
<1>22. CASE Aside        BY <1>22 DEF Aside
<1>23. CASE DropIncoming BY <1>23 DEF DropIncoming
<1>24. CASE Swap         BY <1>24 DEF Swap
<1>25. CASE Write        BY <1>25 DEF Write
<1>26. CASE DropPlugin   BY <1>26 DEF DropPlugin
<1>27. CASE Undo         BY <1>27 DEF Undo
<1>28. CASE Health       BY <1>28 DEF Health, AfterHealth
<1>29. CASE Unmark
  <2>1. stuck' \in BOOLEAN /\ wanted' \in BOOLEAN /\ missed' \in BOOLEAN
    BY <1>29 DEF Unmark
  <2>2. QED
    BY <1>29, <2>1 DEF Unmark
<1>30. CASE Discard      BY <1>30 DEF Discard
<1>31. CASE ClearFailed  BY <1>31 DEF ClearFailed
<1>32. CASE SetAside     BY <1>32 DEF SetAside
<1>33. CASE Restore      BY <1>33 DEF Restore
<1>34. CASE DropFailed   BY <1>34 DEF DropFailed
<1>35. CASE Quit         BY <1>35 DEF Quit, CutShort
<1>36. CASE PowerLoss
  <2>1. starting' \in 0..MaxStarting /\ faults' \in 0..MaxFaults
    BY <1>36 DEF PowerLoss, CutShort
  <2>2. dir' \in [Places -> Trees]
    BY <1>36 DEF PowerLoss, CutShort
  <2>3. wanted' \in BOOLEAN /\ stuck' \in BOOLEAN /\ missed' \in BOOLEAN /\ resume' \in BOOLEAN
    BY <1>36 DEF PowerLoss, CutShort
  <2>4. /\ pending' = pending /\ installed' = installed /\ source' = source /\ goal' = goal
        /\ backend' = None /\ phase' = "off" /\ lock' = "free" /\ pc' = "down"
    BY <1>36 DEF PowerLoss, CutShort
  <2>5. QED
    BY <2>1, <2>2, <2>3, <2>4
<1>37. CASE Boot         BY <1>37 DEF Boot
<1>38. CASE Halt         BY <1>38 DEF Halt
<1>39. CASE Exit
  <2>1. stuck' \in BOOLEAN /\ wanted' \in BOOLEAN /\ missed' \in BOOLEAN
    BY <1>39 DEF Exit, Ended
  <2>2. lock' \in {"free", "held", "stale"}
    BY <1>39 DEF Exit
  <2>3. QED
    BY <1>39, <2>1, <2>2 DEF Exit
<1>40. CASE Abandon      BY <1>40 DEF Abandon
<1>41. CASE TakeLock     BY <1>41 DEF TakeLock
<1>42. CASE GiveWay
  <2>1. wanted' \in BOOLEAN /\ UNCHANGED <<missed, stuck>>
    BY <1>42 DEF GiveWay, Ended
  <2>2. starting' \in 0..MaxStarting
    BY <1>42 DEF GiveWay
  <2>3. QED
    BY <1>42, <2>1, <2>2 DEF GiveWay
<1>43. CASE UNCHANGED vars BY <1>43 DEF vars
<1>44. QED
  BY <1>1, <1>2, <1>3, <1>4, <1>5, <1>6, <1>7, <1>8, <1>9, <1>10, <1>11, <1>12, <1>13, <1>14,
     <1>15, <1>16, <1>17, <1>18, <1>19, <1>20, <1>21, <1>22, <1>23, <1>24, <1>25, <1>26, <1>27,
     <1>28, <1>29, <1>30, <1>31, <1>32, <1>33, <1>34, <1>35, <1>36, <1>37, <1>38, <1>39, <1>40,
     <1>41, <1>42, <1>43 DEF Next, Owner, Lifecycle, Install, Conclude, Service
-----------------------------------------------------------------------------
\* An installation, from the first removal to the last rename.
Installing ==
  pc \in {"clearIncoming", "clearRollback", "stage", "aside", "dropIncoming", "swap", "write",
          "dropPlugin", "undo"}

\* The files of the plugin or of a copy of it are moved.
Moving == Installing \/ pc \in {"clearFailed", "setAside", "restore", "dropFailed"}

\* finalize_pending, before it has come to a verdict
Verifying ==
  \/ pc \in {"stop", "recheck", "wait"} /\ goal \in {"verify", "settle", "rollback"}
  \/ pc \in {"start", "copy", "mark", "launch", "poll"} /\ goal = "verify"
  \/ pc \in {"health", "unmark", "clearFailed", "setAside"}

\* Nothing runs and nothing is about to.
Silent == Off /\ starting = 0

\* Whoever waits for the lock has waited for the backend, nothing starts
\* while files move but what the wait missed, and what was started only to be
\* checked is known by the marker.
Quiet ==
  /\ lock = "free" => phase = "off"
  /\ Moving => Silent \/ missed
  /\ Installing => goal = "activate"
  /\ Verifying => pending # None
  /\ (phase = "off" /\ starting = 0) \/ wanted \/ pending = "stop" \/ missed
  /\ pc = "unmark" => Silent \/ missed \/ pending = "resume"

LEMMA QuietInit == Init => Quiet
BY NoneAssumption DEF Init, Quiet, Silent, Off, Moving, Installing, Verifying

LEMMA QuietStep == TypeOK /\ Quiet /\ [Next]_vars => Quiet'
<1> SUFFICES ASSUME TypeOK, Quiet, [Next]_vars PROVE Quiet'
  OBVIOUS
<1> USE NoneAssumption
    DEF TypeOK, Quiet, Silent, Moving, Installing, Verifying, Off, Goals, Go, Do, Fault, Clean, disk,
        service, control, history, Running, EndStop, EndWait, EndStart, Deployed, EndInstall,
        Gone
<1>1. CASE Toggle        BY <1>1 DEF Toggle
<1>2. CASE Restart       BY <1>2 DEF Restart
<1>3. CASE ResetLogin    BY <1>3 DEF ResetLogin
<1>4. CASE PrepareFails  BY <1>4 DEF PrepareFails
<1>5. ASSUME NEW v \in Versions, Prepare(v) PROVE Quiet'
  BY <1>5 DEF Prepare
<1>6. CASE Stop          BY <1>6 DEF Stop
<1>7. CASE Recheck       BY <1>7 DEF Recheck
<1>8. CASE Wait
  <2>1. CASE Gone /\ goal # "reset"
    <3>1. starting > 0 <=> ~(starting = 0)
      OBVIOUS
    <3>2. lock = "free" /\ phase = "off" /\ UNCHANGED <<pending, starting, phase, lock>>
      BY <1>8, <2>1 DEF Wait
    <3>3. missed' = (starting > 0)
      BY <1>8, <2>1 DEF Wait
    <3>4. Silent' \/ missed'
      BY <3>1, <3>2, <3>3
    <3>5. pc = "wait" /\ UNCHANGED resume /\ pc' = AfterWait /\ UNCHANGED goal
      BY <1>8, <2>1 DEF Wait
    <3>6. QED
      BY <3>2, <3>4, <3>5, <1>8 DEF AfterWait
  <2>2. CASE ~(Gone /\ goal # "reset")
    <3>1. (missed' <=> missed) /\ (wanted' <=> wanted)
      BY <1>8, <2>2, Zenon DEF Wait, TypeOK
    <3>2. UNCHANGED <<pending, starting, phase, lock>> /\ pc = "wait"
      BY <1>8 DEF Wait
    <3>3. \/ goal = "reset" /\ pc' = "copy" /\ goal' = goal
          \/ goal \in {"verify", "settle"} /\ pc' = "stop" /\ goal' = "rollback"
          \/ pc' = "idle" /\ goal' = goal
      <4>0. EndWait(Gone)
        BY <1>8 DEF Wait
      <4>1. CASE Gone
        <5>1. goal = "reset" /\ pc' = AfterWait /\ goal' = goal
          BY <4>0, <2>2, <4>1
        <5>2. AfterWait = "copy"
          BY <5>1 DEF AfterWait
        <5>3. QED
          BY <5>1, <5>2
      <4>2. CASE ~Gone
        BY <4>0, <4>2
      <4>3. QED
        BY <4>1, <4>2
    <3>4. QED
      BY <3>1, <3>2, <3>3
  <2>3. QED
    BY <2>1, <2>2
<1>9. CASE Start         BY <1>9 DEF Start
<1>10. CASE Keep         BY <1>10 DEF Keep
<1>11. CASE Copy         BY <1>11 DEF Copy
<1>12. CASE CopyFails    BY <1>12 DEF CopyFails
<1>13. CASE Mark         BY <1>13 DEF Mark
<1>14. CASE MarkFails    BY <1>14 DEF MarkFails
<1>15. CASE Launch       BY <1>15 DEF Launch
<1>16. CASE Poll         BY <1>16 DEF Poll
<1>17. CASE Begin        BY <1>17 DEF Begin
<1>18. CASE Finalize     BY <1>18 DEF Finalize
<1>19. CASE ClearIncoming BY <1>19 DEF ClearIncoming
<1>20. CASE ClearRollback BY <1>20 DEF ClearRollback
<1>21. CASE Stage        BY <1>21 DEF Stage
<1>22. CASE Aside        BY <1>22 DEF Aside
<1>23. CASE DropIncoming BY <1>23 DEF DropIncoming
<1>24. CASE Swap         BY <1>24 DEF Swap
<1>25. CASE Write        BY <1>25 DEF Write
<1>26. CASE DropPlugin   BY <1>26 DEF DropPlugin
<1>27. CASE Undo         BY <1>27 DEF Undo
<1>28. CASE Health       BY <1>28 DEF Health, AfterHealth
<1>29. CASE Unmark       BY <1>29 DEF Unmark
<1>30. CASE Discard      BY <1>30 DEF Discard
<1>31. CASE ClearFailed  BY <1>31 DEF ClearFailed
<1>32. CASE SetAside     BY <1>32 DEF SetAside
<1>33. CASE Restore      BY <1>33 DEF Restore
<1>34. CASE DropFailed   BY <1>34 DEF DropFailed
<1>35. CASE Quit         BY <1>35 DEF Quit, CutShort
<1>36. CASE PowerLoss    BY <1>36 DEF PowerLoss, CutShort
<1>37. CASE Boot         BY <1>37 DEF Boot
<1>38. CASE Halt         BY <1>38 DEF Halt
<1>39. CASE Exit         BY <1>39 DEF Exit, Ended
<1>40. CASE Abandon      BY <1>40 DEF Abandon
<1>41. CASE TakeLock     BY <1>41 DEF TakeLock
<1>42. CASE GiveWay      BY <1>42 DEF GiveWay, Ended
<1>43. CASE UNCHANGED vars BY <1>43 DEF vars
<1>44. QED
  BY <1>1, <1>2, <1>3, <1>4, <1>5, <1>6, <1>7, <1>8, <1>9, <1>10, <1>11, <1>12, <1>13, <1>14,
     <1>15, <1>16, <1>17, <1>18, <1>19, <1>20, <1>21, <1>22, <1>23, <1>24, <1>25, <1>26,
     <1>27, <1>28, <1>29, <1>30, <1>31, <1>32, <1>33, <1>34, <1>35, <1>36, <1>37, <1>38,
     <1>39, <1>40, <1>41, <1>42, <1>43 DEF Next, Owner, Lifecycle, Install, Conclude, Service

LEMMA QuietHolds == Quiet => SwapsStopped /\ Uninvited
BY NoneAssumption DEF Quiet, Silent, SwapsStopped, Uninvited, Moving, Installing, Running

\* All variables keep their types, for any set of releases and any number of
\* failing calls.
THEOREM PluginTypeCorrect == Spec => []TypeOK
<1>1. TypeOK /\ MarkWhole /\ [Next]_vars => (TypeOK /\ MarkWhole)'
  BY TypeStep
<1>2. QED
  BY <1>1, TypeInit, PTL DEF Spec

\* No file of the plugin is moved while a supervisor or a backend is there,
\* and a service that was off is off again after an update, however many
\* calls fail and wherever KOReader ends: unless a supervisor had been
\* launched and had not come to its lock when wait_until_stopped looked.
THEOREM PluginMovesAlone == Spec => [](SwapsStopped /\ Uninvited)
<1>1. Quiet /\ TypeOK /\ [Next]_vars => Quiet'
  BY QuietStep
<1>2. QED
  BY <1>1, QuietInit, QuietHolds, PluginTypeCorrect, PTL DEF Spec
-----------------------------------------------------------------------------
\* The plugin that is here, or after a rollback that stopped half way the one
\* that was put aside; then there is nothing under the plugin's name.
Left == Whole("plugin") \/ (dir["plugin"] = None /\ Whole("failed"))

\* How far an installation is.
Preparing == pc \in {"stop", "recheck", "wait"} /\ goal = "activate"

Staged ==
  /\ Preparing \/ pc \in {"clearIncoming", "clearRollback", "stage"} =>
       /\ Whole("stage")
       /\ Whole("plugin") => dir["plugin"] < dir["stage"]
  /\ pc = "aside" =>
       /\ Whole("incoming")
       /\ Whole("plugin") => dir["plugin"] < dir["incoming"]
  /\ pc = "swap" =>
       /\ Whole("incoming")
       /\ dir["rollback"] < dir["incoming"]

Swapping ==
  /\ pc \in {"swap", "undo", "restore"} => dir["plugin"] = None
  /\ pc \in {"swap", "undo", "write", "dropPlugin", "restore"} => Whole("rollback")
  /\ pc = "write" => Whole("plugin") /\ dir["rollback"] < dir["plugin"]
  /\ pc = "restore" => Whole("failed")
  /\ pc \in {"undo", "dropPlugin"} => faults = MaxFaults
  /\ pc \in {"discard", "dropFailed"} => Whole("plugin")

\* What is on the disk, unless a marker could not be removed: a file that
\* moves is accounted for by the step that moves it, and outside of these
\* steps there is a plugin.
Kept ==
  /\ Preparing \/ Installing \/ pc \in {"restore", "discard", "dropFailed"} => pending = None
  /\ pending # None =>
       Whole("plugin") /\ Whole("rollback") /\ dir["rollback"] < dir["plugin"]
  /\ pc \notin {"down", "swap", "undo", "dropPlugin", "restore"} => Left
  /\ pc = "down" => \E p \in {"plugin", "rollback", "failed"} : Whole(p)
  /\ Staged
  /\ Swapping

LEMMA KeptInit == Init => Kept
BY VersionsAssumption, NoneAssumption
   DEF Init, Kept, Preparing, Installing, Left, Staged, Swapping, Whole, Places

\* What the calls of the file system do to the places one by one.
LEMMA Removed ==
  ASSUME TypeOK, NEW p \in Places, Remove(p)
  PROVE  /\ dir'[p] = None
         /\ \A q \in Places \ {p} : dir'[q] = dir[q]
         /\ faults' = faults
BY DEF TypeOK, Remove, Clean

LEMMA NotRemoved ==
  ASSUME TypeOK, NEW p \in Places, RemoveFails(p)
  PROVE  /\ dir[p] # None
         /\ \A q \in Places \ {p} : dir'[q] = dir[q]
         /\ faults < MaxFaults /\ faults' = faults + 1
BY DEF TypeOK, RemoveFails, Fault

LEMMA Renamed ==
  ASSUME TypeOK, NEW p \in Places, NEW q \in Places, p # q, Rename(p, q)
  PROVE  /\ dir[p] # None /\ dir[q] = None
         /\ dir'[q] = dir[p] /\ dir'[p] = None
         /\ \A r \in Places \ {p, q} : dir'[r] = dir[r]
         /\ faults' = faults
BY DEF TypeOK, Rename, CanRename, Clean

LEMMA NotRenamed ==
  ASSUME TypeOK, NEW p \in Places, NEW q \in Places, RenameFails(p, q)
  PROVE  /\ dir' = dir
         /\ \/ faults < MaxFaults /\ faults' = faults + 1
            \/ (dir[p] = None \/ dir[q] # None) /\ faults' = faults
BY DEF TypeOK, RenameFails, CanRename, Fault, Clean

LEMMA KeptStep ==
  MaxFaults <= 1 /\ TypeOK /\ Quiet /\ Kept /\ [Next]_vars => stuck' \/ Kept'
<1> SUFFICES ASSUME MaxFaults <= 1, TypeOK, Quiet, Kept, [Next]_vars, ~stuck'
             PROVE  Kept'
  OBVIOUS
<1> USE VersionsAssumption, NoneAssumption, FaultsAssumption
    DEF Kept, Preparing, Installing, Verifying, Left, Staged, Swapping, Whole, Places, Trees,
        Go, Do, Fault, Clean, disk, service, control, history, EndStop, EndWait, EndStart,
        Deployed, EndInstall
<1>a. Verifying => pending # None
  BY DEF Quiet
<1>b. faults \in 0..MaxFaults /\ MaxFaults \in {0, 1}
  BY DEF TypeOK
<1>1. CASE Toggle        BY <1>1 DEF Toggle
<1>2. CASE Restart       BY <1>2 DEF Restart
<1>3. CASE ResetLogin    BY <1>3 DEF ResetLogin
<1>4. CASE PrepareFails  BY <1>4 DEF PrepareFails
<1>5. ASSUME NEW v \in Versions, Prepare(v) PROVE Kept'
  <2>1. dir'["stage"] = v /\ \A q \in Places \ {"stage"} : dir'[q] = dir[q]
    BY <1>5 DEF Prepare, TypeOK
  <2>2. Whole("plugin") => dir["plugin"] < v
    BY <1>5 DEF Prepare, Newer, TypeOK
  <2>3. QED
    BY <1>5, <2>1, <2>2 DEF Prepare
<1>6. CASE Stop          BY <1>6 DEF Stop
<1>7. CASE Recheck       BY <1>7 DEF Recheck
<1>8. CASE Wait          BY <1>8 DEF Wait, AfterWait
<1>9. CASE Start         BY <1>9 DEF Start
<1>10. CASE Keep         BY <1>10 DEF Keep
<1>11. CASE Copy         BY <1>11 DEF Copy
<1>12. CASE CopyFails    BY <1>12 DEF CopyFails
<1>13. CASE Mark         BY <1>13 DEF Mark
<1>14. CASE MarkFails    BY <1>14 DEF MarkFails
<1>15. CASE Launch       BY <1>15 DEF Launch
<1>16. CASE Poll         BY <1>16 DEF Poll
<1>17. CASE Begin        BY <1>17 DEF Begin
<1>18. CASE Finalize     BY <1>18 DEF Finalize
<1>19. CASE ClearIncoming
  <2>1. CASE Remove("incoming") /\ Go("clearRollback")
    BY <1>19, <1>a, <2>1, Removed DEF ClearIncoming
  <2>2. CASE RemoveFails("incoming") /\ EndInstall
    BY <1>19, <1>a, <2>2, NotRemoved DEF ClearIncoming
  <2>3. QED
    BY <1>19, <2>1, <2>2 DEF ClearIncoming
<1>20. CASE ClearRollback
  <2>1. CASE Remove("rollback") /\ Go("stage")
    BY <1>20, <1>a, <2>1, Removed DEF ClearRollback
  <2>2. CASE RemoveFails("rollback") /\ EndInstall
    BY <1>20, <1>a, <2>2, NotRemoved DEF ClearRollback
  <2>3. QED
    BY <1>20, <2>1, <2>2 DEF ClearRollback
<1>21. CASE Stage
  <2>1. CASE Rename("stage", "incoming") /\ Go("aside")
    BY <1>21, <2>1, Renamed DEF Stage
  <2>2. CASE dir' = [dir EXCEPT !["incoming"] = dir["stage"]] /\ Go("aside")
    <3>1. dir'["incoming"] = dir["stage"] /\ \A q \in Places \ {"incoming"} : dir'[q] = dir[q]
      BY <2>2 DEF TypeOK
    <3>2. QED
      BY <1>21, <2>2, <3>1 DEF Stage
  <2>3. CASE dir' = [dir EXCEPT !["incoming"] = Torn] /\ EndInstall
    <3>1. \A q \in Places \ {"incoming"} : dir'[q] = dir[q]
      BY <2>3 DEF TypeOK
    <3>2. QED
      BY <1>21, <2>3, <3>1 DEF Stage
  <2>4. QED
    BY <1>21, <2>1, <2>2, <2>3 DEF Stage
<1>22. CASE Aside
  <2>1. CASE Rename("plugin", "rollback") /\ Go("swap")
    BY <1>22, <1>a, <2>1, Renamed DEF Aside
  <2>2. CASE RenameFails("plugin", "rollback") /\ Go("dropIncoming")
    BY <1>22, <1>a, <2>2, NotRenamed DEF Aside
  <2>3. QED
    BY <1>22, <2>1, <2>2 DEF Aside
<1>23. CASE DropIncoming
  <2>1. CASE Remove("incoming")
    BY <1>23, <1>a, <2>1, Removed DEF DropIncoming
  <2>2. CASE RemoveFails("incoming")
    BY <1>23, <1>a, <2>2, NotRemoved DEF DropIncoming
  <2>3. QED
    BY <1>23, <2>1, <2>2 DEF DropIncoming
<1>24. CASE Swap
  <2>1. CASE Rename("incoming", "plugin") /\ Go("write")
    BY <1>24, <1>a, <2>1, Renamed DEF Swap
  <2>2. CASE RenameFails("incoming", "plugin") /\ Go("undo")
    <3>1. dir["plugin"] = None /\ dir["incoming"] # None /\ Whole("rollback") /\ pending = None
      BY <1>24 DEF Swap
    <3>2. dir' = dir /\ faults < MaxFaults /\ faults' = faults + 1
      BY <2>2, <3>1, NotRenamed
    <3>3. faults' = MaxFaults
      BY <1>b, <3>2
    <3>4. QED
      BY <1>24, <2>2, <3>1, <3>2, <3>3 DEF Swap
  <2>3. QED
    BY <1>24, <2>1, <2>2 DEF Swap
<1>25. CASE Write
  <2>1. pending = None /\ dir' = dir
    BY <1>25 DEF Write
  <2>2. CASE pending' = (IF resume THEN "resume" ELSE "stop") /\ EndInstall
    BY <1>25, <2>1, <2>2 DEF Write
  <2>3. CASE faults < MaxFaults /\ faults' = faults + 1 /\ Go("dropPlugin") /\ pending' = pending
    BY <1>25, <1>b, <2>1, <2>3 DEF Write
  <2>4. QED
    BY <1>25, <2>2, <2>3 DEF Write
<1>26. CASE DropPlugin
  <2>1. CASE Remove("plugin") /\ Go("undo")
    BY <1>26, <1>a, <2>1, Removed DEF DropPlugin
  <2>2. CASE RemoveFails("plugin") /\ EndInstall
    BY <1>26, <1>a, <2>2, NotRemoved DEF DropPlugin
  <2>3. QED
    BY <1>26, <2>1, <2>2 DEF DropPlugin
<1>27. CASE Undo
  <2>1. CASE Rename("rollback", "plugin")
    BY <1>27, <1>a, <2>1, Renamed DEF Undo
  <2>2. CASE RenameFails("rollback", "plugin")
    BY <1>27, <1>a, <2>2, NotRenamed DEF Undo
  <2>3. QED
    BY <1>27, <2>1, <2>2 DEF Undo
<1>28. CASE Health       BY <1>28 DEF Health, AfterHealth
<1>29. CASE Unmark
  <2>1. pending' = None /\ Whole("plugin") /\ UNCHANGED <<dir, faults>>
    BY <1>29, <1>a DEF Unmark
  <2>2. QED
    BY <1>29, <2>1 DEF Unmark
<1>30. CASE Discard
  <2>1. CASE Remove("rollback")
    BY <1>30, <1>a, <2>1, Removed DEF Discard
  <2>2. CASE RemoveFails("rollback")
    BY <1>30, <1>a, <2>2, NotRemoved DEF Discard
  <2>3. QED
    BY <1>30, <2>1, <2>2 DEF Discard
<1>31. CASE ClearFailed
  <2>1. CASE Remove("failed") /\ Go("setAside")
    BY <1>31, <1>a, <2>1, Removed DEF ClearFailed
  <2>2. CASE RemoveFails("failed") /\ Go("idle")
    BY <1>31, <1>a, <2>2, NotRemoved DEF ClearFailed
  <2>3. QED
    BY <1>31, <2>1, <2>2 DEF ClearFailed
<1>32. CASE SetAside
  <2>1. CASE Rename("plugin", "failed") /\ pending' = None /\ Go("restore")
    BY <1>32, <1>a, <2>1, Renamed DEF SetAside
  <2>2. CASE RenameFails("plugin", "failed") /\ Go("idle") /\ UNCHANGED pending
    BY <1>32, <1>a, <2>2, NotRenamed DEF SetAside
  <2>3. QED
    BY <1>32, <2>1, <2>2 DEF SetAside
<1>33. CASE Restore
  <2>1. CASE Rename("rollback", "plugin") /\ Go("dropFailed")
    BY <1>33, <1>a, <2>1, Renamed DEF Restore
  <2>2. CASE RenameFails("rollback", "plugin") /\ Go("idle")
    BY <1>33, <1>a, <2>2, NotRenamed DEF Restore
  <2>3. QED
    BY <1>33, <2>1, <2>2 DEF Restore
<1>34. CASE DropFailed
  <2>1. CASE Remove("failed")
    BY <1>34, <1>a, <2>1, Removed DEF DropFailed
  <2>2. CASE RemoveFails("failed")
    BY <1>34, <1>a, <2>2, NotRemoved DEF DropFailed
  <2>3. QED
    BY <1>34, <2>1, <2>2 DEF DropFailed
<1>35. CASE Quit
  <2>1. pc' = "down" /\ pending' = pending
    BY <1>35 DEF Quit, CutShort
  <2>2. \A p \in Places : dir'[p] = dir[p] \/ (p \in InWork /\ dir'[p] = Torn)
    BY <1>35 DEF Quit, CutShort
  <2>3. QED
    BY <1>35, <1>a, <2>1, <2>2 DEF InWork
<1>36. CASE PowerLoss
  <2>1. pc' = "down" /\ pending' = pending
    BY <1>36 DEF PowerLoss, CutShort
  <2>2. \A p \in Places : dir'[p] = dir[p] \/ (p \in InWork /\ dir'[p] = Torn)
    BY <1>36 DEF PowerLoss, CutShort
  <2>3. QED
    BY <1>36, <1>a, <2>1, <2>2 DEF InWork
<1>37. CASE Boot         BY <1>37 DEF Boot
<1>38. CASE Halt         BY <1>38 DEF Halt
<1>39. CASE Exit         BY <1>39 DEF Exit, Ended
<1>40. CASE Abandon      BY <1>40 DEF Abandon
<1>41. CASE TakeLock     BY <1>41 DEF TakeLock
<1>42. CASE GiveWay      BY <1>42 DEF GiveWay, Ended
<1>43. CASE UNCHANGED vars BY <1>43 DEF vars
<1>44. QED
  BY <1>1, <1>2, <1>3, <1>4, <1>5, <1>6, <1>7, <1>8, <1>9, <1>10, <1>11, <1>12, <1>13, <1>14,
     <1>15, <1>16, <1>17, <1>18, <1>19, <1>20, <1>21, <1>22, <1>23, <1>24, <1>25, <1>26,
     <1>27, <1>28, <1>29, <1>30, <1>31, <1>32, <1>33, <1>34, <1>35, <1>36, <1>37, <1>38,
     <1>39, <1>40, <1>41, <1>42, <1>43 DEF Next, Owner, Lifecycle, Install, Conclude, Service

LEMMA StuckStays == TypeOK /\ stuck /\ [Next]_vars => stuck'
<1> SUFFICES ASSUME TypeOK, stuck, [Next]_vars PROVE stuck'
  OBVIOUS
<1> USE DEF history
<1>1. CASE Toggle        BY <1>1 DEF Toggle
<1>2. CASE Restart       BY <1>2 DEF Restart
<1>3. CASE ResetLogin    BY <1>3 DEF ResetLogin
<1>4. CASE PrepareFails  BY <1>4 DEF PrepareFails
<1>5. ASSUME NEW v \in Versions, Prepare(v) PROVE stuck'
  BY <1>5 DEF Prepare
<1>6. CASE Stop          BY <1>6 DEF Stop
<1>7. CASE Recheck       BY <1>7 DEF Recheck
<1>8. CASE Wait          BY <1>8 DEF Wait, AfterWait
<1>9. CASE Start         BY <1>9 DEF Start
<1>10. CASE Keep         BY <1>10 DEF Keep
<1>11. CASE Copy         BY <1>11 DEF Copy
<1>12. CASE CopyFails    BY <1>12 DEF CopyFails
<1>13. CASE Mark         BY <1>13 DEF Mark
<1>14. CASE MarkFails    BY <1>14 DEF MarkFails
<1>15. CASE Launch       BY <1>15 DEF Launch
<1>16. CASE Poll         BY <1>16 DEF Poll
<1>17. CASE Begin        BY <1>17 DEF Begin
<1>18. CASE Finalize     BY <1>18 DEF Finalize
<1>19. CASE ClearIncoming BY <1>19 DEF ClearIncoming
<1>20. CASE ClearRollback BY <1>20 DEF ClearRollback
<1>21. CASE Stage        BY <1>21 DEF Stage
<1>22. CASE Aside        BY <1>22 DEF Aside
<1>23. CASE DropIncoming BY <1>23 DEF DropIncoming
<1>24. CASE Swap         BY <1>24 DEF Swap
<1>25. CASE Write        BY <1>25 DEF Write
<1>26. CASE DropPlugin   BY <1>26 DEF DropPlugin
<1>27. CASE Undo         BY <1>27 DEF Undo
<1>28. CASE Health       BY <1>28 DEF Health, AfterHealth
<1>29. CASE Unmark       BY <1>29 DEF Unmark
<1>30. CASE Discard      BY <1>30 DEF Discard
<1>31. CASE ClearFailed  BY <1>31 DEF ClearFailed
<1>32. CASE SetAside     BY <1>32 DEF SetAside
<1>33. CASE Restore      BY <1>33 DEF Restore
<1>34. CASE DropFailed   BY <1>34 DEF DropFailed
<1>35. CASE Quit         BY <1>35 DEF Quit, CutShort
<1>36. CASE PowerLoss    BY <1>36 DEF PowerLoss, CutShort
<1>37. CASE Boot         BY <1>37 DEF Boot
<1>38. CASE Halt         BY <1>38 DEF Halt
<1>39. CASE Exit         BY <1>39 DEF Exit, Ended
<1>40. CASE Abandon      BY <1>40 DEF Abandon
<1>41. CASE TakeLock     BY <1>41 DEF TakeLock
<1>42. CASE GiveWay      BY <1>42 DEF GiveWay, Ended
<1>43. CASE UNCHANGED vars BY <1>43 DEF vars
<1>44. QED
  BY <1>1, <1>2, <1>3, <1>4, <1>5, <1>6, <1>7, <1>8, <1>9, <1>10, <1>11, <1>12, <1>13, <1>14,
     <1>15, <1>16, <1>17, <1>18, <1>19, <1>20, <1>21, <1>22, <1>23, <1>24, <1>25, <1>26,
     <1>27, <1>28, <1>29, <1>30, <1>31, <1>32, <1>33, <1>34, <1>35, <1>36, <1>37, <1>38,
     <1>39, <1>40, <1>41, <1>42, <1>43 DEF Next, Owner, Lifecycle, Install, Conclude, Service

\* While an update is pending the older version it replaced can be restored,
\* and a whole plugin survives any crash, if no more than one call fails and
\* the marker of an update could always be removed.
THEOREM PluginSurvives == MaxFaults <= 1 => (Spec => [](Recoverable /\ RollbackKept))
<1>1. stuck \/ Kept => Recoverable /\ RollbackKept
  BY DEF Kept, Left, Staged, Swapping, Recoverable, RollbackKept, Installing
<1>2. MaxFaults <= 1 /\ TypeOK /\ Quiet /\ (stuck \/ Kept) /\ [Next]_vars => (stuck \/ Kept)'
  BY KeptStep, StuckStays
<1>3. Quiet /\ TypeOK /\ [Next]_vars => Quiet'
  BY QuietStep
<1>4. SUFFICES ASSUME MaxFaults <= 1 PROVE Spec => [](Recoverable /\ RollbackKept)
  OBVIOUS
<1>5. TypeOK /\ Quiet /\ (stuck \/ Kept) /\ [Next]_vars => (stuck \/ Kept)'
  BY <1>2, <1>4
<1>6. QED
  BY <1>1, <1>3, <1>5, QuietInit, KeptInit, PluginTypeCorrect, PTL DEF Spec

\* While an update is pending, both the plugin and the older version in
\* .rollback are complete, so that finalize_pending can put that one back
\* however often the device is restarted before it runs: under the same bound
\* on failing calls, and unless the marker of an update found healthy stayed behind.
THEOREM PluginRollbackRemains == MaxFaults <= 1 => (Spec => []RollbackKept)
  BY PluginSurvives, PTL

\* A service that was off when the update began is not left running by it,
\* however many calls fail: the finalizer starts one only to see that the new
\* version answers, and waits for it to end.  One that comes to its lock only
\* after that wait is excepted.
THEOREM PluginUninvited == Spec => []Uninvited
  BY PluginMovesAlone, PTL
=============================================================================
