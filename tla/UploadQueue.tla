----------------------------- MODULE UploadQueue -----------------------------
(***************************************************************************)
(* The upload queue of the files page (src/frontend/src/pages/FilesPage):  *)
(* batches that are picked or dropped wait for each other, a batch makes   *)
(* its directories level by level and then sends its files with a few      *)
(* workers, asks once what to do with files that exist, and can be         *)
(* cancelled, fail, or be ended by leaving the page at any moment.         *)
(*                                                                         *)
(* Everything a JavaScript task does before it returns to the event loop,  *)
(* promise reactions included, is one step.                                *)
(***************************************************************************)
EXTENDS Naturals, Sequences, SequencesExt, FiniteSets

CONSTANTS
  Batches,      \* what the user picks or drops
  Files,        \* the files of all the batches
  BatchOf,      \* the batch of a file
  PathOf,       \* where a file is to go, a sequence of names
  EmptyDirs,    \* the paths of a batch's directories that hold no file
  Size,         \* the size of a file
  Small,        \* the largest size that is sent with one plain request
  Packable,     \* the files small enough to be compressed in memory
  Concurrency,  \* uploadConcurrency
  Contested,    \* the paths other programs write
  None

VARIABLES
  mounted,   \* not uploadsStopped: the page is shown
  auto,      \* the setting autoOverwriteUploads
  dropped,   \* droppedUpload, the batch a dialog asks to confirm
  queue,     \* the batches chained behind the running one
  batch,     \* the running batch
  signal,    \* its AbortController: "none", "abort" or "error"
  policy,    \* its conflictPolicy
  toMake,    \* the directories it has not asked for yet
  making,    \* the directories it waits for
  stage,     \* where each file is
  over,      \* whether its request may replace a file
  answer,    \* what the server has answered to it and the page not yet seen
  sent,      \* displayProgress
  asking,    \* conflictQueue: the files that wait for a decision
  conflict,  \* the file the conflict dialog shows
  outcome,   \* what became of each batch
  disk,      \* the server's files: a path's file, "other" or None
  dirs,      \* the server's directories under the destination
  stray      \* requests the page has given up and the server may still serve

\* What the properties need to remember.
VARIABLES
  consent,   \* the batches whose user agreed to replace files
  skipping,  \* the batches whose user chose to skip files
  stored,    \* the files the server has stored
  replaced   \* the files that took the place of another file

page == <<mounted, auto, dropped, queue, batch, signal, policy, toMake, making,
          stage, over, answer, sent, asking, conflict, outcome>>
server == <<disk, dirs, stray>>
history == <<consent, skipping, stored, replaced>>
vars == <<page, server, history>>

-----------------------------------------------------------------------------
\* The directories a path goes through.
Parents(p) == {SubSeq(p, 1, n) : n \in 1 .. Len(p) - 1}

FilesOf(b) == {f \in Files : BatchOf[f] = b}

\* Every directory of a batch, each once.
DirectoriesOf(b) ==
  UNION {Parents(PathOf[f]) : f \in FilesOf(b)}
    \cup UNION {Parents(d) \cup {d} : d \in EmptyDirs[b]}

Paths == {PathOf[f] : f \in Files}
Dirs == UNION {DirectoriesOf(b) : b \in Batches}

ASSUME UploadAssumption ==
  /\ IsFiniteSet(Files)
  /\ BatchOf \in [Files -> Batches]
  /\ Size \in [Files -> Nat]
  /\ Small \in Nat
  /\ Packable \subseteq Files
  /\ Contested \subseteq Paths
  /\ Concurrency \in Nat \ {0}
  /\ None \notin Batches \cup Files \cup {"other"}
  /\ "other" \notin Files

Requesting == {"direct", "resumable"}
Ended == {"done", "cancelled", "failed", "dropped"}

TypeOK ==
  /\ mounted \in BOOLEAN /\ auto \in BOOLEAN
  /\ dropped \in Batches \cup {None}
  /\ queue \in Seq(Batches)
  /\ batch \in Batches \cup {None}
  /\ signal \in {"none", "abort", "error"}
  /\ policy \in {"ask", "replace", "skip"}
  /\ toMake \in SUBSET Dirs /\ making \in SUBSET Dirs
  /\ stage \in [Files -> Requesting \cup
                  {"todo", "packing", "conflict", "done", "skipped", "failed"}]
  /\ over \in [Files -> BOOLEAN]
  /\ answer \in [Files -> {"none", "ok", "conflict", "missing", "error"}]
  /\ sent \in [Files -> Nat]
  /\ asking \in Seq(Files)
  /\ conflict \in Files \cup {None}
  /\ outcome \in [Batches -> Ended \cup {"new", "queued", "running"}]
  /\ disk \in [Paths -> Files \cup {"other", None}]
  /\ dirs \in SUBSET Dirs
  /\ stray \in SUBSET (Files \X BOOLEAN)
  /\ consent \in SUBSET Batches /\ skipping \in SUBSET Batches
  /\ stored \in SUBSET Files /\ replaced \in SUBSET Files

Init ==
  /\ mounted = TRUE /\ auto \in BOOLEAN
  /\ dropped = None /\ queue = <<>> /\ batch = None
  /\ signal = "none" /\ policy = "ask"
  /\ toMake = {} /\ making = {}
  /\ stage = [f \in Files |-> "todo"]
  /\ over = [f \in Files |-> FALSE]
  /\ answer = [f \in Files |-> "none"]
  /\ sent = [f \in Files |-> 0]
  /\ asking = <<>> /\ conflict = None
  /\ outcome = [b \in Batches |-> "new"]
  /\ disk \in {d \in [Paths -> {"other", None}] : \A p \in Paths \ Contested : d[p] = None}
  /\ dirs = {p \in Dirs : \E q \in Paths : disk[q] # None /\ p \in Parents(q)}
  /\ stray = {}
  /\ consent = {} /\ skipping = {} /\ stored = {} /\ replaced = {}

-----------------------------------------------------------------------------
\* Choosing what to upload.

\* safeUploadFiles: the batch is chained behind the earlier ones.
Enqueue(b) ==
  /\ queue' = IF FilesOf(b) \cup DirectoriesOf(b) = {} THEN queue ELSE Append(queue, b)
  /\ outcome' = [outcome EXCEPT ![b] = IF FilesOf(b) \cup DirectoriesOf(b) = {}
                                       THEN "done" ELSE "queued"]

\* Files are picked, or dropped on the folder that is shown.
Submit(b) ==
  /\ mounted /\ outcome[b] = "new" /\ dropped # b
  /\ Enqueue(b)
  /\ UNCHANGED <<mounted, auto, dropped, batch, signal, policy, toMake, making, stage,
                 over, answer, sent, asking, conflict, server, history>>

\* Files are dropped on a folder in the listing: a dialog asks first.  Another
\* drop takes the dialog over.
DropElsewhere(b) ==
  /\ mounted /\ outcome[b] = "new" /\ FilesOf(b) \cup DirectoriesOf(b) # {}
  /\ dropped' = b
  /\ UNCHANGED <<mounted, auto, queue, batch, signal, policy, toMake, making, stage, over,
                 answer, sent, asking, conflict, outcome, server, history>>

\* The dialog's answer.
ConfirmDrop(copy) ==
  /\ mounted /\ dropped # None
  /\ dropped' = None
  /\ IF copy THEN Enqueue(dropped) ELSE UNCHANGED <<queue, outcome>>
  /\ UNCHANGED <<mounted, auto, batch, signal, policy, toMake, making, stage, over, answer,
                 sent, asking, conflict, server, history>>

-----------------------------------------------------------------------------
\* The running batch.

\* Mutant: the answer of the batch before is kept.
MutStartBatch ==
  /\ mounted /\ batch = None /\ queue # <<>>
  /\ batch' = Head(queue) /\ queue' = Tail(queue)
  /\ signal' = "none"
  /\ policy' = IF auto THEN "replace" ELSE policy
  /\ toMake' = DirectoriesOf(Head(queue))
  /\ outcome' = [outcome EXCEPT ![Head(queue)] = "running"]
  /\ consent' = IF auto THEN consent \cup {Head(queue)} ELSE consent
  /\ UNCHANGED <<mounted, auto, dropped, making, stage, over, answer, sent, asking, conflict,
                 server, skipping, stored, replaced>>

\* The next batch starts when the one before it has settled.
StartBatch ==
  /\ mounted /\ batch = None /\ queue # <<>>
  /\ batch' = Head(queue) /\ queue' = Tail(queue)
  /\ signal' = "none"
  /\ policy' = IF auto THEN "replace" ELSE "ask"
  /\ toMake' = DirectoriesOf(Head(queue))
  /\ outcome' = [outcome EXCEPT ![Head(queue)] = "running"]
  /\ consent' = IF auto THEN consent \cup {Head(queue)} ELSE consent
  /\ UNCHANGED <<mounted, auto, dropped, making, stage, over, answer, sent, asking, conflict,
                 server, skipping, stored, replaced>>

\* The directories of the lowest level that is left, a few at a time.
Shallowest == {d \in toMake : \A e \in toMake : Len(d) <= Len(e)}

MakeDirectories ==
  /\ making = {} /\ toMake # {}
  /\ making' \in SUBSET Shallowest
  /\ \/ Cardinality(making') = Concurrency
     \/ making' = Shallowest /\ Cardinality(Shallowest) <= Concurrency
  /\ toMake' = toMake \ making'
  /\ UNCHANGED <<mounted, auto, dropped, queue, batch, signal, policy, stage, over, answer,
                 sent, asking, conflict, outcome, server, history>>

\* The server makes a directory, or has it already: the page merges into it.
DirectoryMade(d) ==
  /\ d \in making /\ Parents(d) \subseteq dirs
  /\ making' = making \ {d}
  /\ dirs' = dirs \cup {d}
  /\ UNCHANGED <<mounted, auto, dropped, queue, batch, signal, policy, toMake, stage, over,
                 answer, sent, asking, conflict, outcome, disk, stray, history>>

\* The batch is over: uploadAbort and the progress are cleared, and a failure
\* is told unless it is an abort.
Settle(how) ==
  /\ batch' = None
  /\ outcome' = [outcome EXCEPT ![batch] = how]

\* A directory cannot be made, or the answer is lost: the batch fails at once,
\* whatever the directories asked for with it become.
DirectoryFails(d) ==
  /\ d \in making
  /\ making' = {} /\ toMake' = {}
  /\ \E late \in SUBSET {e \in making : Parents(e) \subseteq dirs} : dirs' = dirs \cup late
  /\ Settle("failed")
  /\ UNCHANGED <<mounted, auto, dropped, queue, signal, policy, stage, over, answer, sent,
                 asking, conflict, disk, stray, history>>

Active(f) ==
  /\ f \in FilesOf(batch)
  /\ stage[f] \in Requesting \cup {"packing", "conflict"}

\* How uploadFile begins to send a file.
Transport(f, o) ==
  IF Size[f] <= Small THEN "direct"
  ELSE IF o /\ f \in Packable THEN "packing"
  ELSE "resumable"

\* A free worker takes the largest file that is left.
TakeFile(f) ==
  /\ batch # None /\ f \in FilesOf(batch) /\ stage[f] = "todo"
  /\ toMake = {} /\ making = {}
  /\ signal = "none"
  /\ \A g \in FilesOf(batch) : stage[g] = "todo" => Size[g] <= Size[f]
  /\ Cardinality({g \in Files : Active(g)}) < Concurrency
  /\ over' = [over EXCEPT ![f] = policy = "replace"]
  /\ stage' = [stage EXCEPT ![f] = Transport(f, policy = "replace")]
  /\ UNCHANGED <<mounted, auto, dropped, queue, batch, signal, policy, toMake, making, answer,
                 sent, asking, conflict, outcome, server, history>>

\* Mutant: an abort during the compression is not noticed.
MutPacked(f) ==
  /\ stage[f] = "packing"
  /\ \E next \in Requesting : stage' = [stage EXCEPT ![f] = next]
  /\ UNCHANGED <<mounted, auto, dropped, queue, batch, signal, policy, toMake, making, over,
                 answer, sent, asking, conflict, outcome, server, history>>

\* Compression ends: a smaller body goes with one request, another file the
\* resumable way; an abort meanwhile is noticed now.
Packed(f) ==
  /\ stage[f] = "packing"
  /\ \E next \in IF signal = "none" THEN Requesting ELSE {"failed"} :
       stage' = [stage EXCEPT ![f] = next]
  /\ UNCHANGED <<mounted, auto, dropped, queue, batch, signal, policy, toMake, making, over,
                 answer, sent, asking, conflict, outcome, server, history>>

\* The transport tells how much of its request has gone.  A new request
\* counts from zero: the file's share never goes back.
Progress(f, n) ==
  /\ stage[f] \in Requesting
  /\ sent' = [sent EXCEPT ![f] = IF n > @ THEN n ELSE @]
  /\ UNCHANGED <<mounted, auto, dropped, queue, batch, signal, policy, toMake, making, stage,
                 over, answer, asking, conflict, outcome, server, history>>

-----------------------------------------------------------------------------
\* The server.

\* It stores a file: only a request that may replace takes a path in use.
Stores(f, o) ==
  /\ Parents(PathOf[f]) \subseteq dirs
  /\ disk[PathOf[f]] = None \/ o
  /\ disk' = [disk EXCEPT ![PathOf[f]] = f]
  /\ stored' = stored \cup {f}
  /\ replaced' = IF disk[PathOf[f]] \in {None, f} THEN replaced ELSE replaced \cup {f}

Waits(f) == stage[f] \in Requesting /\ answer[f] = "none"

Serve(f) ==
  /\ Waits(f) /\ Stores(f, over[f])
  /\ answer' = [answer EXCEPT ![f] = "ok"]
  /\ UNCHANGED <<mounted, auto, dropped, queue, batch, signal, policy, toMake, making, stage,
                 over, sent, asking, conflict, outcome, dirs, stray, consent, skipping>>

\* The file is stored and the answer lost.  A plain request fails; a resumable
\* one is tried again, as a new upload when the finished one is gone.
ServeLost(f) ==
  /\ Waits(f) /\ Stores(f, over[f])
  /\ answer' = [answer EXCEPT ![f] = IF stage[f] = "direct" THEN "error" ELSE "none"]
  /\ UNCHANGED <<mounted, auto, dropped, queue, batch, signal, policy, toMake, making, stage,
                 over, sent, asking, conflict, outcome, dirs, stray, consent, skipping>>

\* The path is in use, resumable uploads are not offered, or something fails.
Refuse(f) ==
  /\ Waits(f)
  /\ \E a \in {"conflict", "missing", "error"} :
       /\ a = "conflict" => disk[PathOf[f]] # None /\ ~over[f]
       /\ a = "missing" => stage[f] = "resumable"
       /\ answer' = [answer EXCEPT ![f] = a]
  /\ UNCHANGED <<mounted, auto, dropped, queue, batch, signal, policy, toMake, making, stage,
                 over, sent, asking, conflict, outcome, server, history>>

\* A request that was given up is served after all, or never.
StrayLands(f, o) ==
  /\ <<f, o>> \in stray
  /\ stray' = stray \ {<<f, o>>}
  /\ Stores(f, o) \/ UNCHANGED <<disk, stored, replaced>>
  /\ UNCHANGED <<page, dirs, consent, skipping>>

\* Another program makes or removes a file.
OtherWrites(p) ==
  /\ disk[p] = None /\ Parents(p) \subseteq dirs
  /\ disk' = [disk EXCEPT ![p] = "other"]
  /\ UNCHANGED <<page, dirs, stray, history>>

OtherRemoves(p) ==
  /\ disk[p] # None
  /\ disk' = [disk EXCEPT ![p] = None]
  /\ UNCHANGED <<page, dirs, stray, history>>

-----------------------------------------------------------------------------
\* Ends, cancellations and answers.

\* Mutant: the question stays open.
MutAbort(why, failed) ==
  /\ signal' = why
  /\ toMake' = {} /\ making' = {}
  /\ stage' = [f \in Files |->
                 IF f \in failed \/ (Active(f) /\ stage[f] # "packing")
                 THEN "failed" ELSE stage[f]]
  /\ answer' = [f \in Files |-> "none"]
  /\ stray' = stray \cup {<<f, over[f]>> : f \in {g \in FilesOf(batch) \ failed : Waits(g)}}
  /\ UNCHANGED <<asking, conflict>>

\* controller.abort: the transports end, the question is withdrawn and the
\* files that wait for it give up; compression is not interrupted.
Abort(why, failed) ==
  /\ signal' = why
  /\ toMake' = {} /\ making' = {}
  /\ stage' = [f \in Files |->
                 IF f \in failed \/ (Active(f) /\ stage[f] # "packing")
                 THEN "failed" ELSE stage[f]]
  /\ answer' = [f \in Files |-> "none"]
  /\ stray' = stray \cup {<<f, over[f]>> : f \in {g \in FilesOf(batch) \ failed : Waits(g)}}
  /\ asking' = <<>> /\ conflict' = None

\* The page sees an answer.
Finish(f) ==
  /\ answer[f] = "ok" /\ stage[f] \in Requesting
  /\ stage' = [stage EXCEPT ![f] = "done"]
  /\ sent' = [sent EXCEPT ![f] = Size[f]]
  /\ answer' = [answer EXCEPT ![f] = "none"]
  /\ UNCHANGED <<mounted, auto, dropped, queue, batch, signal, policy, toMake, making, over,
                 asking, conflict, outcome, server, history>>

\* Mutant: a 501 is taken for a success.
MutFallBack(f) ==
  /\ answer[f] = "missing" /\ stage[f] \in Requesting
  /\ stage' = [stage EXCEPT ![f] = "done"]
  /\ answer' = [answer EXCEPT ![f] = "none"]
  /\ UNCHANGED <<mounted, auto, dropped, queue, batch, signal, policy, toMake, making, over,
                 sent, asking, conflict, outcome, server, history>>

\* A 501: the file goes with a plain request.
FallBack(f) ==
  /\ answer[f] = "missing" /\ stage[f] \in Requesting
  /\ stage' = [stage EXCEPT ![f] = "direct"]
  /\ answer' = [answer EXCEPT ![f] = "none"]
  /\ UNCHANGED <<mounted, auto, dropped, queue, batch, signal, policy, toMake, making, over,
                 sent, asking, conflict, outcome, server, history>>

\* Files in conflict, once it is known what to do with them.
Resume(fs, choice) ==
  /\ stage' = [f \in Files |-> IF f \notin fs THEN stage[f]
                               ELSE IF choice = "replace" THEN Transport(f, TRUE)
                               ELSE "skipped"]
  /\ over' = [f \in Files |-> over[f] \/ (f \in fs /\ choice = "replace")]
  /\ sent' = [f \in Files |-> IF f \in fs /\ choice = "skip" THEN Size[f] ELSE sent[f]]

\* A 409: the policy answers, or the file waits for the question, which is
\* asked when no other is open.
Conflict(f) ==
  /\ answer[f] = "conflict" /\ stage[f] \in Requesting
  /\ answer' = [answer EXCEPT ![f] = "none"]
  /\ \/ /\ policy # "ask"
        /\ Resume({f}, policy)
        /\ UNCHANGED <<asking, conflict>>
     \/ /\ policy = "ask"
        /\ stage' = [stage EXCEPT ![f] = "conflict"]
        /\ asking' = Append(asking, f)
        /\ conflict' = IF conflict = None THEN f ELSE conflict
        /\ UNCHANGED <<over, sent>>
  /\ UNCHANGED <<mounted, auto, dropped, queue, batch, signal, policy, toMake, making, outcome,
                 server, history>>

\* Any other answer ends the batch.
Fail(f) ==
  /\ answer[f] = "error" /\ stage[f] \in Requesting
  /\ Abort("error", {f})
  /\ UNCHANGED <<mounted, auto, dropped, queue, batch, policy, over, sent, outcome, disk, dirs,
                 history>>

\* 30 seconds without progress end a resumable upload, until its last byte
\* has gone.
Stall(f) ==
  /\ stage[f] = "resumable" /\ sent[f] < Size[f]
  /\ Abort("error", {f})
  /\ UNCHANGED <<mounted, auto, dropped, queue, batch, policy, over, sent, outcome, disk, dirs,
                 history>>

\* Mutant: the answer goes to the file of the question alone.
MutChoose(choice) ==
  /\ mounted /\ conflict # None
  /\ policy' = choice
  /\ Resume({conflict}, choice)
  /\ asking' = Tail(asking) /\ conflict' = None
  /\ consent' = IF choice = "replace" THEN consent \cup {batch} ELSE consent
  /\ skipping' = IF choice = "skip" THEN skipping \cup {batch} ELSE skipping
  /\ UNCHANGED <<mounted, auto, dropped, queue, batch, signal, toMake, making, answer, outcome,
                 server, stored, replaced>>

\* The user answers the question, for this file and every later one of the
\* batch.
Choose(choice) ==
  /\ mounted /\ conflict # None
  /\ policy' = choice
  /\ Resume(ToSet(asking), choice)
  /\ asking' = <<>> /\ conflict' = None
  /\ consent' = IF choice = "replace" THEN consent \cup {batch} ELSE consent
  /\ skipping' = IF choice = "skip" THEN skipping \cup {batch} ELSE skipping
  /\ UNCHANGED <<mounted, auto, dropped, queue, batch, signal, toMake, making, answer, outcome,
                 server, stored, replaced>>

\* Cancel, on the progress or in the dialog.
Cancel ==
  /\ mounted /\ batch # None /\ signal = "none"
  /\ Abort("abort", {})
  /\ UNCHANGED <<mounted, auto, dropped, queue, batch, policy, over, sent, outcome, disk, dirs,
                 history>>

\* The page is left: the running batch is aborted and the queue given up.
Leave ==
  /\ mounted
  /\ mounted' = FALSE
  /\ dropped' = None /\ queue' = <<>>
  /\ outcome' = [b \in Batches |-> IF outcome[b] = "queued" THEN "dropped" ELSE outcome[b]]
  /\ \/ batch # None /\ signal = "none" /\ Abort("abort", {})
     \/ /\ batch = None \/ signal # "none"
        /\ UNCHANGED <<signal, toMake, making, stage, answer, stray, asking, conflict>>
  /\ UNCHANGED <<auto, batch, policy, over, sent, disk, dirs, history>>

\* Every worker has ended.
EndBatch ==
  /\ batch # None /\ toMake = {} /\ making = {}
  /\ \A f \in Files : ~Active(f)
  /\ signal = "none" => \A f \in FilesOf(batch) : stage[f] # "todo"
  /\ Settle(CASE signal = "none" -> "done"
              [] signal = "abort" -> "cancelled"
              [] signal = "error" -> "failed")
  /\ UNCHANGED <<mounted, auto, dropped, queue, signal, policy, toMake, making, stage, over,
                 answer, sent, asking, conflict, server, history>>

-----------------------------------------------------------------------------
Step(f) ==
  \/ TakeFile(f) \/ Packed(f)
  \/ Serve(f) \/ ServeLost(f) \/ Refuse(f)
  \/ Finish(f) \/ FallBack(f) \/ Conflict(f) \/ Fail(f) \/ Stall(f)
  \/ \E n \in 0 .. Size[f] : Progress(f, n)
  \/ \E o \in BOOLEAN : StrayLands(f, o)

Next ==
  \/ \E b \in Batches : Submit(b) \/ DropElsewhere(b)
  \/ \E copy \in BOOLEAN : ConfirmDrop(copy)
  \/ StartBatch
  \/ MakeDirectories
  \/ \E d \in Dirs : DirectoryMade(d) \/ DirectoryFails(d)
  \/ \E f \in Files : Step(f)
  \/ \E p \in Contested : OtherWrites(p) \/ OtherRemoves(p)
  \/ \E choice \in {"replace", "skip"} : Choose(choice)
  \/ Cancel
  \/ Leave
  \/ EndBatch

Spec == Init /\ [][Next]_vars

\* The event loop runs what is ready, the server or the browser's timers end
\* every request, compression ends.  The user need not answer anything, and a
\* resumable upload loses its answers only as often as it is tried again.
Fairness ==
  /\ WF_vars(StartBatch) /\ WF_vars(MakeDirectories) /\ WF_vars(EndBatch)
  /\ \A d \in Dirs : WF_vars(DirectoryMade(d) \/ DirectoryFails(d))
  /\ \A f \in Files :
       /\ WF_vars(TakeFile(f)) /\ WF_vars(Packed(f))
       /\ WF_vars(Serve(f) \/ Refuse(f))
       /\ WF_vars(Finish(f) \/ FallBack(f) \/ Conflict(f) \/ Fail(f))

FairSpec == Spec /\ Fairness

-----------------------------------------------------------------------------
\* A file takes the place of another only in a batch whose user agreed to
\* that, with the setting or in the dialog of that batch: whatever came of the
\* question in another batch, of a request the page has given up, or of a file
\* that appeared between two requests.
Consent == \A f \in replaced : BatchOf[f] \in consent

\* A batch that ends as done has had every file stored, or the user chose to
\* skip the files that exist: no worker, retry or fallback leaves one out.
DoneIsStored ==
  \A f \in Files :
    outcome[BatchOf[f]] = "done" => f \in stored \/ BatchOf[f] \in skipping

\* The dialog shows the oldest question of the running batch, while it is
\* neither aborted nor decided; no file waits without it.
QuestionOpen ==
  /\ conflict # None => /\ batch # None /\ BatchOf[conflict] = batch
                        /\ signal = "none" /\ policy = "ask"
                        /\ asking # <<>> /\ conflict = Head(asking)
  /\ conflict = None => \A f \in Files : ~(Active(f) /\ stage[f] = "conflict")

\* No request begins after the batch was cancelled or has failed, or the page
\* was left.
NoWorkAfterAbort ==
  [][\A f \in Files :
       stage'[f] \in Requesting /\ (stage'[f] # stage[f] \/ over'[f] # over[f])
         => mounted /\ signal = "none" /\ batch = BatchOf[f]]_vars

\* Every batch that was queued ends, unless its question is left unanswered.
BatchEnds ==
  \A b \in Batches :
    outcome[b] \in {"queued", "running"} ~> outcome[b] \in Ended \/ conflict # None
=============================================================================
