----------------------------- MODULE PathAction -----------------------------
(***************************************************************************)
(* Renaming, moving and copying from the web interface: PathActionDialog   *)
(* of src/frontend/src/components/FileDialogs and the ways FilesPage leads *)
(* to it (menus, keys, the clipboard, dragging).  One action of the user   *)
(* is carried out by several requests in a row, is stopped by conflicts,   *)
(* taken up again with the user's answer, cancelled while a request is     *)
(* under way, and followed by other actions while it still runs.           *)
(*                                                                         *)
(* A path is the sequence of its names; the tree maps a path to what it    *)
(* holds.                                                                  *)
(***************************************************************************)
EXTENDS Naturals, FiniteSets, SequencesExt

CONSTANTS
  Places,       \* the paths of the tree: a bound
  FirstTree,    \* what they hold at first: "dir", "file" or None
  Selections,   \* the sequences of entries the user may act on
  Typed,        \* the destinations the user may type: a bound
  Copies,       \* for a name, the sequence of names of its duplicates
  Slots,        \* the mutations that can run together: a bound
  Actions,      \* how many actions the user begins: a bound
  None

Root == <<>>
Parent(p) == Front(p)
Dirs(tree) == {Root} \cup {p \in Places : tree[p] = "dir"}
Under(p) == {q \in Places : IsPrefix(p, q)}

\* An entry is what a listing said of a path, some time ago.
Entries == UNION {ToSet(s) : s \in Selections}

VARIABLES
  tree,          \* what the server holds
  dialog,        \* the action that is shown, or None
  destination,   \* what its field or its list of folders says
  answer,        \* what its mutation shows: idle, pending, conflict or error
  completed,     \* the refs of PathActionDialog: the entries that are done,
  conflictPath,  \* the entry of the last conflict,
  copyPlan,      \* whether the sizes are known
  jobs,          \* the mutations that run
  asked,         \* the <<source, target>> of the last conflict shown
  acked,         \* the entries of this action whose request has succeeded
  begun,         \* the actions begun so far
  mixed          \* whether another action ran since this one was opened

refs == <<completed, conflictPath, copyPlan>>
shown == <<dialog, destination, answer>>
ghosts == <<asked, acked, mixed>>
vars == <<tree, shown, refs, jobs, ghosts, begun>>

TypeOK ==
  /\ tree \in [Places -> {"dir", "file", None}]
  /\ dialog = None \/ /\ dialog.action \in {"rename", "move", "copy", "drop"}
                      /\ ToSet(dialog.entries) \subseteq Entries
  /\ answer \in {"idle", "pending", "conflict", "error"}
  /\ completed \subseteq Places /\ acked \subseteq Places
  /\ conflictPath \in Places \cup {None}
  /\ copyPlan \in BOOLEAN /\ mixed \in BOOLEAN
  /\ \A j \in Slots : jobs[j] = None \/ /\ jobs[j].phase \in {"measure", "list", "item"}
                                        /\ jobs[j].result \in {"none", "ok", "conflict", "error"}

\* What the server holds at first.
Seeded == tree = FirstTree

Init ==
  /\ Seeded
  /\ dialog = None /\ destination = Root /\ answer = "idle"
  /\ completed = {} /\ conflictPath = None /\ copyPlan = FALSE
  /\ jobs = [j \in Slots |-> None]
  /\ asked = None /\ acked = {} /\ mixed = FALSE /\ begun = 0

Running == {j \in Slots : jobs[j] # None}
Shown(d) == dialog # None /\ dialog.action \in d
PathActions == {"rename", "move", "copy"}

-----------------------------------------------------------------------------
\* Where an entry goes.

Target(act, item, dest) ==
  IF act.action = "rename" THEN Parent(item.path) \o dest
  ELSE IF act.into # None THEN Append(act.into, Last(item.path))
  ELSE IF act.action \in {"move", "drop"} \/ Len(act.entries) > 1
  THEN Append(dest, Last(item.path))
  ELSE dest

\* The entries pasted into the folder they are in.
InPlace(act) ==
  {e \in ToSet(act.entries) : act.into # None /\ Append(act.into, Last(e.path)) = e.path}

FirstDestination(act, start) ==
  LET first == Head(act.entries) IN
  IF start # None THEN start
  ELSE IF act.action = "rename" THEN <<Last(first.path)>>
  ELSE IF act.action = "move" \/ Len(act.entries) > 1 THEN Parent(first.path)
  ELSE first.path

\* A folder is not moved into itself.
MayMoveInto(e, dir) == e.dir => ~IsPrefix(e.path, dir)
CanMoveTo(e, dir) == Append(dir, Last(e.path)) # e.path /\ MayMoveInto(e, dir)
CanPasteInto(e, dir) ==
  LET target == Append(dir, Last(e.path)) IN
  e.dir => target = e.path \/ ~IsStrictPrefix(e.path, target)

-----------------------------------------------------------------------------
\* The mutation.

\* The name of a duplicate: the first that is not taken.
Duplicates(item, k) == Append(Parent(item.path), Copies[Last(item.path)][k])
FreeNames(item, taken) ==
  {k \in DOMAIN Copies[Last(item.path)] : Duplicates(item, k) \notin taken}

DuplicateOf(item, taken) ==
  LET free == FreeNames(item, taken) IN
  Duplicates(item, CHOOSE k \in free : \A l \in free : k <= l)

\* The entry that is next, if any.
Left(job, done) == {k \in job.at + 1 .. Len(job.entries) : job.entries[k].path \notin done}

\* Mutant: one answer covers whatever follows.
MutReplaces(job, item, target, conflict) == job.overwrite

\* Whether a request may replace what is at its target.
Replaces(job, item, target, conflict) ==
  job.overwrite /\ (job.action = "drop" \/ conflict = item.path \/ target = item.path)

\* The request for entry k is sent.
Ask(job, k, conflict) ==
  LET item == job.entries[k]
      wanted == Target(job, item, job.dest)
      again == job.duplicate /\ wanted = item.path
      target == IF again THEN DuplicateOf(item, job.taken) ELSE wanted
  IN [job EXCEPT !.phase = "item", !.at = k, !.target = target, !.result = "none",
                 !.taken = IF again THEN @ \cup {target} ELSE @,
                 !.replace = Replaces(job, item, target, conflict)]

\* Mutant: the next action finds the entries that the last one has completed.
MutResetRefs == completed' = completed /\ conflictPath' = None /\ copyPlan' = FALSE

\* The effect that follows a change of the action forgets the refs and leaves
\* a mutation that runs to itself.
ResetRefs ==
  /\ completed' = {} /\ conflictPath' = None /\ copyPlan' = FALSE

Unobserved(js) ==
  [j \in Slots |-> IF js[j] = None THEN None ELSE [js[j] EXCEPT !.observed = FALSE]]

\* Nothing more is followed of an action that met another one.
Mix(met) ==
  /\ mixed' = met
  /\ asked' = (IF met THEN None ELSE asked) /\ acked' = (IF met THEN {} ELSE acked)

\* The last entry is done: the dialog that is open is closed.
Succeed(job, left, conflict, plan) ==
  IF Shown(IF job.action = "drop" THEN {"drop"} ELSE PathActions)
  THEN /\ dialog' = None /\ answer' = "idle" /\ destination' = Root
       /\ jobs' = Unobserved(left)
       /\ IF job.action = "drop" THEN UNCHANGED refs ELSE ResetRefs
  ELSE /\ jobs' = left
       /\ completed' = IF job.action = "drop" THEN completed ELSE {}
       /\ conflictPath' = conflict /\ copyPlan' = plan
       /\ UNCHANGED shown

Pending(job) == answer' = IF job.observed THEN "pending" ELSE answer

\* The loop goes on with the next entry that is not done.
GoOn(j, job, done, conflict, plan) ==
  IF Left(job, done) = {} THEN Succeed(job, [jobs EXCEPT ![j] = None], conflict, plan)
  ELSE LET k == CHOOSE k \in Left(job, done) : \A l \in Left(job, done) : k <= l IN
       /\ jobs' = [jobs EXCEPT ![j] = Ask(job, k, conflict)]
       /\ completed' = done /\ conflictPath' = conflict /\ copyPlan' = plan
       /\ Pending(job)
       /\ UNCHANGED <<dialog, destination>>

\* Its first call: the sizes of a copy, a listing for the duplicates.
Wait(j, job, phase, plan) ==
  /\ jobs' = [jobs EXCEPT ![j] = [job EXCEPT !.phase = phase]]
  /\ copyPlan' = plan
  /\ Pending(job)
  /\ UNCHANGED <<completed, conflictPath, dialog, destination>>

AfterMeasure(j, job, plan) ==
  IF job.duplicate THEN Wait(j, job, "list", plan)
  ELSE GoOn(j, job, completed, conflictPath, plan)

\* A drop is a single request, that knows nothing of the refs.
Confirmed(j, job) ==
  /\ jobs' = [jobs EXCEPT ![j] = Ask(job, 1, None)]
  /\ Pending(job)
  /\ UNCHANGED <<refs, dialog, destination>>

NewJob(act, dest, choice) ==
  [action |-> act.action, entries |-> act.entries, into |-> act.into, dest |-> dest,
   overwrite |-> choice.overwrite, duplicate |-> choice.duplicate, may |-> choice.may,
   phase |-> "item", at |-> 0, target |-> None, replace |-> FALSE, taken |-> {},
   result |-> "none", observed |-> TRUE]

Plainly == [overwrite |-> FALSE, duplicate |-> FALSE, may |-> {}]

\* A button of the dialog starts the mutation.
Start(choice) ==
  /\ dialog # None /\ answer # "pending"
  /\ Mix(mixed \/ Running # {})
  /\ \E j \in Slots \ Running :
       LET job == NewJob(dialog, destination, choice) IN
       CASE job.action = "drop" -> Confirmed(j, job)
         [] job.action = "copy" /\ ~copyPlan -> Wait(j, job, "measure", FALSE)
         [] OTHER -> AfterMeasure(j, job, copyPlan)
  /\ UNCHANGED <<tree, begun>>

-----------------------------------------------------------------------------
\* The dialog.

Open(act, start) ==
  /\ dialog = None /\ begun < Actions
  /\ dialog' = act /\ destination' = FirstDestination(act, start)
  /\ IF act.action = "drop" THEN UNCHANGED refs ELSE ResetRefs
  /\ asked' = None /\ acked' = {} /\ mixed' = (Running # {}) /\ begun' = begun + 1
  /\ UNCHANGED tree

Action(name, entries, into) == [action |-> name, entries |-> entries, into |-> into]

\* From the menu of the selection, or F2.
BeginAction(name, entries) ==
  /\ name \in PathActions /\ (name = "rename" => Len(entries) = 1)
  /\ Open(Action(name, entries, None), None)
  /\ answer' = "idle" /\ UNCHANGED jobs

\* The clipboard into a folder: the copy begins at once, unless it would
\* meet the entries themselves.
Paste(entries, into) ==
  LET act == Action("copy", entries, into) IN
  /\ \A e \in ToSet(entries) : CanPasteInto(e, into)
  /\ Open(act, None)
  /\ \/ InPlace(act) # {} /\ answer' = "idle" /\ UNCHANGED jobs
     \/ /\ InPlace(act) = {} /\ answer' = "pending"
        /\ \E j \in Slots \ Running :
             jobs' = [jobs EXCEPT ![j] =
                        [NewJob(act, destination', Plainly) EXCEPT !.phase = "measure"]]

\* Several entries dragged to a folder are moved with the dialog, one entry is
\* confirmed on its own.
Drop(entries, into) ==
  /\ \A e \in ToSet(entries) : CanMoveTo(e, into)
  /\ Open(Action(IF Len(entries) > 1 THEN "move" ELSE "drop", entries, None), into)
  /\ answer' = "idle" /\ UNCHANGED jobs

\* Another destination forgets the error, and the mutation if it runs.
Redirect(dest) ==
  /\ destination' = dest /\ answer' = "idle" /\ jobs' = Unobserved(jobs)
  /\ Mix(mixed \/ answer = "pending")
  /\ UNCHANGED <<tree, dialog, refs, begun>>

Type(dest) ==
  /\ Shown({"rename", "copy"}) /\ dialog.into = None
  /\ IF dialog.action = "rename" THEN Len(dest) = 1
     ELSE Len(dialog.entries) > 1 \/ dest # Root
  /\ Redirect(dest)

\* The folders that are listed below the destination, and the one above.
Browse(dir) ==
  /\ Shown({"move"})
  /\ \/ destination # Root /\ dir = Parent(destination)
     \/ /\ dir \in Dirs(tree) \ {Root} /\ Parent(dir) = destination
        /\ \A e \in ToSet(dialog.entries) : MayMoveInto(e, dir)
  /\ Redirect(dir)

\* Confirm, also when a drop is confirmed.
Submit ==
  /\ dialog # None /\ answer # "conflict" /\ dialog.into = None
  /\ dialog.action = "move" =>
       \E e \in ToSet(dialog.entries) : Parent(e.path) # destination
  /\ Start(Plainly)

\* Replace: the user has read of one conflict.
Replace ==
  /\ dialog # None /\ answer = "conflict" /\ InPlace(dialog) = {}
  /\ Start([overwrite |-> TRUE, duplicate |-> FALSE, may |-> {asked}])

\* Duplicate or Overwrite, for what is pasted where it is.
Duplicate ==
  /\ dialog # None /\ InPlace(dialog) # {}
  /\ Start([overwrite |-> FALSE, duplicate |-> TRUE, may |-> {}])

Overwrite ==
  /\ dialog # None /\ InPlace(dialog) # {}
  /\ Start([overwrite |-> TRUE, duplicate |-> FALSE,
            may |-> {asked} \cup {<<e.path, e.path>> : e \in InPlace(dialog)}])

\* Cancel, or Back: what runs, runs on.
Cancel ==
  /\ dialog # None
  /\ dialog' = None /\ answer' = "idle" /\ destination' = Root /\ jobs' = Unobserved(jobs)
  /\ IF dialog.action = "drop" THEN UNCHANGED refs ELSE ResetRefs
  /\ asked' = None /\ acked' = {} /\ UNCHANGED <<tree, mixed, begun>>

-----------------------------------------------------------------------------
\* The server.

Exists(p) == p \in Places /\ tree[p] # None
Source(job) == job.entries[job.at].path

\* Where a path below the source arrives, and where one below the target
\* comes from.
Rebased(q, from, to) == to \o SubSeq(q, Len(from) + 1, Len(q))

Allowed(job) ==
  LET s == Source(job)
      t == job.target
  IN /\ Exists(s) /\ t \in Places /\ Parent(t) \in Dirs(tree)
     /\ ~(tree[s] = "dir" /\ IsStrictPrefix(s, t))
     /\ s = t => job.action = "copy"
     /\ \A q \in Under(s) : tree[q] # None => Rebased(q, s, t) \in Places

Carried(job) ==
  LET s == Source(job)
      t == job.target
  IN [q \in Places |->
        IF IsPrefix(t, q)
        THEN LET r == Rebased(q, t, s) IN IF r \in Places THEN tree[r] ELSE None
        ELSE IF job.action # "copy" /\ IsPrefix(s, q) THEN None ELSE tree[q]]

Result(j, r) == jobs' = [jobs EXCEPT ![j].result = r]

\* The server carries out a request, answers a conflict or fails; or its
\* answer is lost.
Serve(j) ==
  /\ jobs[j] # None /\ jobs[j].phase = "item" /\ jobs[j].result = "none"
  /\ LET job == jobs[j] IN
     \/ Result(j, "error") /\ UNCHANGED tree
     \/ /\ Allowed(job) /\ Exists(job.target) /\ ~job.replace
        /\ Result(j, "conflict") /\ UNCHANGED tree
     \/ /\ Allowed(job) /\ (Exists(job.target) => job.replace)
        /\ Result(j, "ok") \/ Result(j, "error")
        /\ tree' = Carried(job)
  /\ UNCHANGED <<shown, refs, ghosts, begun>>

-----------------------------------------------------------------------------
\* Answers.

\* A call of the mutation fails: so does the mutation.
FailWith(j, what) ==
  /\ jobs' = [jobs EXCEPT ![j] = None]
  /\ answer' = IF jobs[j].observed THEN what ELSE answer
  /\ UNCHANGED <<tree, dialog, destination, acked, mixed, begun>>

Measured(j) ==
  /\ jobs[j] # None /\ jobs[j].phase = "measure"
  /\ \/ FailWith(j, "error") /\ UNCHANGED <<refs, asked>>
     \/ /\ AfterMeasure(j, jobs[j], TRUE)
        /\ UNCHANGED <<tree, ghosts, begun>>

Siblings(job) ==
  {p \in Places : tree[p] # None /\ \E e \in InPlace(job) : Parent(e.path) = Parent(p)}

Listed(j) ==
  /\ jobs[j] # None /\ jobs[j].phase = "list"
  /\ \/ FailWith(j, "error") /\ UNCHANGED <<refs, asked>>
     \/ /\ \A e \in InPlace(jobs[j]) : FreeNames(e, Siblings(jobs[j])) # {}
        /\ GoOn(j, [jobs[j] EXCEPT !.taken = Siblings(jobs[j])], completed, conflictPath,
                copyPlan)
        /\ UNCHANGED <<tree, ghosts, begun>>

Done(j) ==
  /\ jobs[j] # None /\ jobs[j].phase = "item" /\ jobs[j].result = "ok"
  /\ IF jobs[j].action = "drop"
     THEN Succeed(jobs[j], [jobs EXCEPT ![j] = None], conflictPath, copyPlan)
     ELSE GoOn(j, jobs[j], completed \cup {Source(jobs[j])}, None, copyPlan)
  /\ acked' = IF jobs[j].observed /\ ~mixed THEN acked \cup {Source(jobs[j])} ELSE acked
  /\ UNCHANGED <<tree, asked, mixed, begun>>

Failed(j) ==
  /\ jobs[j] # None /\ jobs[j].phase = "item" /\ jobs[j].result \in {"conflict", "error"}
  /\ FailWith(j, jobs[j].result)
  /\ conflictPath' = IF jobs[j].result = "conflict" /\ jobs[j].action # "drop"
                     THEN Source(jobs[j]) ELSE conflictPath
  /\ asked' = IF jobs[j].result = "conflict" /\ jobs[j].observed /\ ~mixed
              THEN <<Source(jobs[j]), jobs[j].target>> ELSE asked
  /\ UNCHANGED <<completed, copyPlan>>

-----------------------------------------------------------------------------
Next ==
  \/ \E s \in Selections :
       \/ \E name \in PathActions : BeginAction(name, s)
       \/ \E dir \in Dirs(tree) : Paste(s, dir) \/ Drop(s, dir)
  \/ \E dest \in Typed : Type(dest)
  \/ \E dir \in Dirs(tree) \cup Places : Browse(dir)
  \/ Submit \/ Replace \/ Duplicate \/ Overwrite \/ Cancel
  \/ \E j \in Slots : Serve(j) \/ Measured(j) \/ Listed(j) \/ Done(j) \/ Failed(j)

Spec == Init /\ [][Next]_vars

-----------------------------------------------------------------------------
\* What is at a target is only replaced if the user has read of that very
\* conflict, of that entry with that target, and answered it: one answer never
\* covers the conflicts of the entries that follow, nor a destination typed
\* since.  (A copy onto itself loses nothing.)  An action that was cancelled and
\* still runs can break this.
ReplacesWhatWasAsked ==
  ~mixed => \A j \in Running :
    jobs[j].replace /\ jobs[j].target # Source(jobs[j]) =>
      <<Source(jobs[j]), jobs[j].target>> \in jobs[j].may

\* However often an action was stopped and taken up again, the dialog closes by
\* itself only when every entry was carried out.
ClosesComplete ==
  dialog # None /\ dialog' = None /\ ~Cancel /\ ~mixed =>
    \A e \in ToSet(dialog.entries) : e.path \in acked'
=============================================================================
