------------------------- MODULE UploadQueueProofs -------------------------
(***************************************************************************)
(* Proofs about UploadQueue for every set of batches and files, any number *)
(* of workers and any answers of the server.                               *)
(***************************************************************************)
EXTENDS UploadQueue, TLAPS

AtWork == Requesting \cup {"packing", "conflict"}

\* A file a worker has in hand is one of the running batch, whose directories
\* are there.
Working ==
  \A f \in Files :
    stage[f] \in AtWork => batch # None /\ BatchOf[f] = batch /\ toMake = {} /\ making = {}

\* After an abort only a compression goes on; a page that was left has aborted.
Quiet ==
  /\ \A f \in Files : stage[f] \in Requesting \cup {"conflict"} => signal = "none"
  /\ ~mounted => batch = None \/ signal # "none"

\* The files that wait for the question, in order; the first is shown.
Asked ==
  /\ \A f \in Files : stage[f] = "conflict" <=> \E i \in 1 .. Len(asking) : asking[i] = f
  /\ asking = <<>> => conflict = None
  /\ asking # <<>> => conflict = asking[1] /\ policy = "ask"

\* Whatever may replace a file belongs to a batch whose user agreed.
Agreed ==
  /\ batch # None /\ policy = "replace" => batch \in consent
  /\ \A f \in Files : over[f] => BatchOf[f] \in consent
  /\ \A f \in Files : <<f, TRUE>> \in stray => BatchOf[f] \in consent
  /\ Consent

\* A batch waits once, and is untouched until it runs.
Waiting ==
  /\ dropped # None => outcome[dropped] = "new"
  /\ batch # None => outcome[batch] = "running"
  /\ \A i \in 1 .. Len(queue) : outcome[queue[i]] = "queued"
  /\ \A i, j \in 1 .. Len(queue) : queue[i] = queue[j] => i = j
  /\ \A f \in Files : outcome[BatchOf[f]] \in {"new", "queued"} => stage[f] = "todo"

\* How each file ended, and that none fails unnoticed.
Accounted ==
  /\ \A f \in Files : stage[f] = "done" \/ answer[f] = "ok" => f \in stored
  /\ \A f \in Files : stage[f] = "skipped" => BatchOf[f] \in skipping
  /\ batch # None /\ policy = "skip" => batch \in skipping
  /\ \A f \in Files : stage[f] = "failed" /\ BatchOf[f] = batch => signal # "none"
  /\ DoneIsStored

Inv == TypeOK /\ Working /\ Quiet /\ Asked /\ Agreed /\ Waiting /\ Accounted

-----------------------------------------------------------------------------
(* The steps, by what they leave alone *)

\* The user chooses what to upload.
Choosing ==
  \/ \E b \in Batches : Submit(b) \/ DropElsewhere(b)
  \/ \E copy \in BOOLEAN : ConfirmDrop(copy)

\* The server serves and refuses, the transport counts, others write.
Serving ==
  \/ \E f \in Files : \/ Serve(f) \/ ServeLost(f) \/ Refuse(f)
                      \/ \E n \in 0 .. Size[f] : Progress(f, n)
                      \/ \E o \in BOOLEAN : StrayLands(f, o)
  \/ \E p \in Contested : OtherWrites(p) \/ OtherRemoves(p)

\* The batch is aborted.
Aborting == Cancel \/ Leave \/ \E f \in Files : Fail(f) \/ Stall(f)

\* A worker goes on with a file.
Handling(f) == TakeFile(f) \/ Packed(f) \/ Finish(f) \/ FallBack(f) \/ Conflict(f)

LEMMA Steps ==
  ASSUME [Next]_vars
  PROVE  \/ UNCHANGED vars
         \/ Choosing \/ Serving \/ Aborting
         \/ \E f \in Files : Handling(f)
         \/ StartBatch \/ MakeDirectories \/ EndBatch
         \/ \E d \in Dirs : DirectoryMade(d) \/ DirectoryFails(d)
         \/ \E choice \in {"replace", "skip"} : Choose(choice)
BY DEF Next, Step, Choosing, Serving, Aborting, Handling

LEMMA ChoosingLeaves ==
  ASSUME Choosing
  PROVE  UNCHANGED <<mounted, auto, batch, signal, policy, toMake, making, stage, over, answer,
                     sent, asking, conflict, server, history>>
BY DEF Choosing, Submit, DropElsewhere, ConfirmDrop

LEMMA ServingLeaves ==
  ASSUME Serving
  PROVE  UNCHANGED <<mounted, auto, dropped, queue, batch, signal, policy, toMake, making, stage,
                     over, asking, conflict, outcome, dirs, consent, skipping>>
BY DEF Serving, Serve, ServeLost, Refuse, Progress, StrayLands, OtherWrites, OtherRemoves, page,
       server, history

-----------------------------------------------------------------------------
(* Operators *)

\* A file begins with a request or with its compression.
LEMMA TransportType ==
  ASSUME NEW f \in Files, NEW o \in BOOLEAN
  PROVE  Transport(f, o) \in Requesting \cup {"packing"}
BY DEF Transport, Requesting

\* An abort leaves nothing at work but compressions.
LEMMA AbortEnds ==
  ASSUME Working, NEW why, NEW failed, Abort(why, failed), NEW f \in Files
  PROVE  /\ stage'[f] \notin Requesting \cup {"conflict"}
         /\ \/ stage'[f] = stage[f]
            \/ stage'[f] = "failed" /\ (f \in failed \/ stage[f] \in AtWork)
         /\ answer'[f] = "none"
         /\ toMake' = {} /\ making' = {} /\ asking' = <<>> /\ conflict' = None
         /\ signal' = why
<1>1. /\ f \in failed \/ (Active(f) /\ stage[f] # "packing") => stage'[f] = "failed"
      /\ ~(f \in failed \/ (Active(f) /\ stage[f] # "packing")) => stage'[f] = stage[f]
  BY DEF Abort
<1>2. stage[f] \in Requesting \cup {"conflict"} => Active(f) /\ stage[f] # "packing"
  BY DEF Working, Active, FilesOf, AtWork, Requesting
<1>3. Active(f) => stage[f] \in AtWork
  BY DEF Active, AtWork
<1>4. /\ answer'[f] = "none" /\ signal' = why
      /\ toMake' = {} /\ making' = {} /\ asking' = <<>> /\ conflict' = None
  BY DEF Abort
<1>5. stage'[f] \notin Requesting \cup {"conflict"}
  BY <1>1, <1>2 DEF Requesting
<1>6. stage'[f] = stage[f] \/ (stage'[f] = "failed" /\ (f \in failed \/ stage[f] \in AtWork))
  BY <1>1, <1>3
<1> QED
  BY <1>4, <1>5, <1>6

\* The file in the dialog is in the hands of the running batch.
LEMMA AskedFirst ==
  ASSUME TypeOK, Working, Asked, conflict # None
  PROVE  /\ asking # <<>> /\ conflict = asking[1] /\ conflict = Head(asking)
         /\ conflict \in Files /\ stage[conflict] = "conflict"
         /\ batch # None /\ BatchOf[conflict] = batch /\ policy = "ask"
<1>1. asking # <<>> /\ conflict = asking[1] /\ policy = "ask" /\ conflict \in Files
  BY DEF Asked, TypeOK
<1>2. 1 \in 1 .. Len(asking) /\ Head(asking) = asking[1]
  BY <1>1 DEF TypeOK
<1>3. stage[conflict] = "conflict"
  BY <1>1, <1>2 DEF Asked
<1> QED
  BY <1>1, <1>2, <1>3 DEF Working, AtWork

-----------------------------------------------------------------------------
(* Type correctness *)

LEMMA InitType == Init => TypeOK
BY UploadAssumption DEF Init, TypeOK, Requesting

LEMMA ChoosingType ==
  ASSUME TypeOK, Choosing
  PROVE  TypeOK'
<1>1. UNCHANGED <<mounted, auto, batch, signal, policy, toMake, making, stage, over, answer, sent,
                  asking, conflict, disk, dirs, stray, consent, skipping, stored, replaced>>
  BY ChoosingLeaves DEF server, history
<1>2. ASSUME NEW b \in Batches, Enqueue(b)
      PROVE  /\ queue' \in Seq(Batches)
             /\ outcome' \in [Batches -> Ended \cup {"new", "queued", "running"}]
  BY <1>2 DEF Enqueue, TypeOK, Ended
<1>3. ASSUME NEW b \in Batches, Submit(b) \/ DropElsewhere(b)
      PROVE  TypeOK'
  BY <1>1, <1>2, <1>3 DEF Submit, DropElsewhere, TypeOK
<1>4. ASSUME NEW copy \in BOOLEAN, ConfirmDrop(copy)
      PROVE  TypeOK'
  BY <1>1, <1>2, <1>4 DEF ConfirmDrop, TypeOK
<1> QED
  BY <1>3, <1>4 DEF Choosing

LEMMA ServingType ==
  ASSUME TypeOK, Serving
  PROVE  TypeOK'
<1>1. UNCHANGED <<mounted, auto, dropped, queue, batch, signal, policy, toMake, making, stage,
                  over, asking, conflict, outcome, dirs, consent, skipping>>
  BY ServingLeaves
<1>2. ASSUME NEW f \in Files, NEW o \in BOOLEAN, Stores(f, o)
      PROVE  /\ disk' \in [Paths -> Files \cup {"other", None}]
             /\ stored' \in SUBSET Files /\ replaced' \in SUBSET Files
  BY <1>2, UploadAssumption DEF Stores, Paths, TypeOK
<1>3. ASSUME NEW f \in Files, Serve(f) \/ ServeLost(f)
      PROVE  TypeOK'
  <2>1. /\ answer' \in [Files -> {"none", "ok", "conflict", "missing", "error"}]
        /\ UNCHANGED <<sent, stray>>
    BY <1>3 DEF Serve, ServeLost, TypeOK
  <2>2. over[f] \in BOOLEAN /\ Stores(f, over[f])
    BY <1>3 DEF Serve, ServeLost, TypeOK
  <2> QED
    BY <1>1, <1>2, <2>1, <2>2 DEF TypeOK
<1>4. ASSUME NEW f \in Files, Refuse(f) \/ \E n \in 0 .. Size[f] : Progress(f, n)
      PROVE  TypeOK'
  <2>1. answer' \in [Files -> {"none", "ok", "conflict", "missing", "error"}]
    BY <1>4 DEF Refuse, Progress, TypeOK
  <2>2. sent' \in [Files -> Nat]
    <3>1. CASE Refuse(f)
      BY <3>1 DEF Refuse, TypeOK
    <3>2. ASSUME NEW n \in 0 .. Size[f], Progress(f, n)
          PROVE  sent' \in [Files -> Nat]
      <4>1. n \in Nat
        BY UploadAssumption
      <4> QED
        BY <3>2, <4>1 DEF Progress, TypeOK
    <3> QED
      BY <1>4, <3>1, <3>2
  <2>3. UNCHANGED <<disk, stray, stored, replaced>>
    BY <1>4 DEF Refuse, Progress, server, history
  <2> QED
    BY <1>1, <2>1, <2>2, <2>3 DEF TypeOK
<1>5. CASE \E f \in Files, o \in BOOLEAN : StrayLands(f, o)
  BY <1>1, <1>2, <1>5 DEF StrayLands, TypeOK, page
<1>6. CASE \E p \in Contested : OtherWrites(p) \/ OtherRemoves(p)
  BY <1>1, <1>6 DEF OtherWrites, OtherRemoves, TypeOK, page, history
<1> QED
  BY <1>3, <1>4, <1>5, <1>6 DEF Serving

LEMMA AbortingType ==
  ASSUME TypeOK, Aborting
  PROVE  TypeOK'
<1>1. ASSUME NEW why \in {"abort", "error"}, NEW failed, Abort(why, failed)
      PROVE  /\ signal' \in {"none", "abort", "error"}
             /\ toMake' \in SUBSET Dirs /\ making' \in SUBSET Dirs
             /\ stage' \in [Files -> Requesting \cup
                              {"todo", "packing", "conflict", "done", "skipped", "failed"}]
             /\ answer' \in [Files -> {"none", "ok", "conflict", "missing", "error"}]
             /\ stray' \in SUBSET (Files \X BOOLEAN)
             /\ asking' \in Seq(Files) /\ conflict' \in Files \cup {None}
  BY <1>1 DEF Abort, TypeOK, FilesOf
<1>2. CASE Cancel \/ \E f \in Files : Fail(f) \/ Stall(f)
  BY <1>1, <1>2 DEF Cancel, Fail, Stall, TypeOK, history
<1>3. CASE Leave
  <2>1. outcome' \in [Batches -> Ended \cup {"new", "queued", "running"}]
    BY <1>3 DEF Leave, TypeOK, Ended
  <2>2. mounted' = FALSE /\ dropped' = None /\ queue' = <<>>
    BY <1>3 DEF Leave
  <2>3. UNCHANGED <<auto, batch, policy, over, sent, disk, dirs, consent, skipping, stored, replaced>>
    BY <1>3 DEF Leave, history
  <2>4. \/ Abort("abort", {})
        \/ UNCHANGED <<signal, toMake, making, stage, answer, stray, asking, conflict>>
    BY <1>3 DEF Leave
  <2>5. mounted' \in BOOLEAN
    BY <2>2
  <2>6. queue' \in Seq(Batches)
    BY <2>2
  <2>7. CASE Abort("abort", {})
    BY <1>1, <2>1, <2>2, <2>3, <2>6, <2>7, <2>5 DEF TypeOK
  <2>8. CASE UNCHANGED <<signal, toMake, making, stage, answer, stray, asking, conflict>>
    BY <2>1, <2>2, <2>3, <2>6, <2>8, <2>5 DEF TypeOK
  <2> QED
    BY <2>4, <2>7, <2>8
<1> QED
  BY <1>2, <1>3 DEF Aborting

LEMMA ResumeType ==
  ASSUME TypeOK, NEW fs, NEW choice, Resume(fs, choice)
  PROVE  /\ stage' \in [Files -> Requesting \cup
                          {"todo", "packing", "conflict", "done", "skipped", "failed"}]
         /\ over' \in [Files -> BOOLEAN]
         /\ sent' \in [Files -> Nat]
<1>1. \A f \in Files : Transport(f, TRUE) \in Requesting \cup {"packing"}
  BY TransportType
<1>2. stage' \in [Files -> Requesting \cup
                     {"todo", "packing", "conflict", "done", "skipped", "failed"}]
  BY <1>1 DEF Resume, TypeOK
<1>3. over' \in [Files -> BOOLEAN]
  BY DEF Resume, TypeOK
<1>4. sent' \in [Files -> Nat]
  BY UploadAssumption DEF Resume, TypeOK
<1> QED
  BY <1>2, <1>3, <1>4

LEMMA HandlingType ==
  ASSUME TypeOK, NEW f \in Files, Handling(f)
  PROVE  TypeOK'
<1>1. CASE TakeFile(f)
  BY <1>1, TransportType DEF TakeFile, TypeOK, server, history, Requesting
<1>2. CASE Packed(f)
  BY <1>2 DEF Packed, TypeOK, server, history, Requesting
<1>3. CASE Finish(f) \/ FallBack(f)
  <2>1. sent' \in [Files -> Nat]
    <3>1. CASE Finish(f)
      <4>1. Size[f] \in Nat
        BY UploadAssumption
      <4> QED
        BY <3>1, <4>1 DEF Finish, TypeOK
    <3>2. CASE FallBack(f)
      BY <3>2 DEF FallBack, TypeOK
    <3> QED
      BY <1>3, <3>1, <3>2
  <2>2. /\ stage' \in [Files -> Requesting \cup
                           {"todo", "packing", "conflict", "done", "skipped", "failed"}]
        /\ answer' \in [Files -> {"none", "ok", "conflict", "missing", "error"}]
    BY <1>3 DEF Finish, FallBack, TypeOK, Requesting
  <2>3. UNCHANGED <<mounted, auto, dropped, queue, batch, signal, policy, toMake, making, over,
                    asking, conflict, outcome, server, history>>
    BY <1>3 DEF Finish, FallBack
  <2> QED
    BY <2>1, <2>2, <2>3 DEF TypeOK, server, history
<1>4. CASE Conflict(f)
  <2>1. CASE Resume({f}, policy) /\ UNCHANGED <<asking, conflict>>
    BY <1>4, <2>1, ResumeType DEF Conflict, TypeOK, server, history
  <2>2. CASE ~(Resume({f}, policy) /\ UNCHANGED <<asking, conflict>>)
    <3>1. /\ stage' = [stage EXCEPT ![f] = "conflict"] /\ asking' = Append(asking, f)
          /\ conflict' = f \/ conflict' = conflict
          /\ answer' = [answer EXCEPT ![f] = "none"]
          /\ UNCHANGED <<mounted, auto, dropped, queue, batch, signal, policy, toMake, making, over,
                         sent, outcome, server, history>>
      BY <1>4, <2>2 DEF Conflict
    <3> QED
      BY <3>1 DEF TypeOK, server, history
  <2> QED
    BY <2>1, <2>2
<1> QED
  BY <1>1, <1>2, <1>3, <1>4 DEF Handling

LEMMA NextType ==
  ASSUME TypeOK, Working, Asked, [Next]_vars
  PROVE  TypeOK'
<1>1. CASE UNCHANGED vars
  BY <1>1 DEF TypeOK, vars, page, server, history
<1>2. CASE StartBatch
  BY <1>2 DEF StartBatch, TypeOK, server, Dirs
<1>3. CASE MakeDirectories
  BY <1>3 DEF MakeDirectories, Shallowest, TypeOK, server, history
<1>4. CASE \E d \in Dirs : DirectoryMade(d) \/ DirectoryFails(d)
  BY <1>4 DEF DirectoryMade, DirectoryFails, Settle, TypeOK, server, history, Ended
<1>5. ASSUME NEW choice \in {"replace", "skip"}, Choose(choice)
      PROVE  TypeOK'
  <2>1. Resume(ToSet(asking), choice) /\ batch \in Batches
    BY <1>5, AskedFirst DEF Choose, TypeOK
  <2>2. /\ policy' \in {"ask", "replace", "skip"}
        /\ asking' \in Seq(Files) /\ conflict' \in Files \cup {None}
        /\ consent' \in SUBSET Batches /\ skipping' \in SUBSET Batches
    BY <1>5, <2>1 DEF Choose, TypeOK
  <2> QED
    BY <1>5, <2>1, <2>2, ResumeType DEF Choose, TypeOK, server
<1>6. CASE EndBatch
  BY <1>6 DEF EndBatch, Settle, TypeOK, server, history, Ended
<1> QED
  BY <1>1, <1>2, <1>3, <1>4, <1>5, <1>6, Steps, ChoosingType, ServingType, AbortingType, HandlingType

-----------------------------------------------------------------------------
(* Who is at work *)

LEMMA InitWorking == Init => Working /\ Quiet /\ Asked
BY DEF Init, Working, Quiet, Asked, AtWork, Requesting

LEMMA AbortingWorking ==
  ASSUME TypeOK, Working, Quiet, Asked, Aborting
  PROVE  Working' /\ Quiet' /\ Asked'
<1>1. UNCHANGED <<batch, policy>> /\ (mounted' = mounted \/ Leave)
  BY DEF Aborting, Cancel, Leave, Fail, Stall
<1>2. ASSUME NEW why \in {"abort", "error"}, NEW failed \in SUBSET Files, Abort(why, failed),
             \A f \in failed : stage[f] \in AtWork
      PROVE  Working' /\ Quiet' /\ Asked'
  <2>1. \A f \in Files : /\ stage'[f] \notin Requesting \cup {"conflict"}
                         /\ stage'[f] \in AtWork => stage[f] \in AtWork
    BY <1>2, AbortEnds DEF AtWork, Requesting
  <2>2. toMake' = {} /\ making' = {} /\ asking' = <<>> /\ conflict' = None /\ signal' = why
    BY <1>2 DEF Abort
  <2>3. Working'
    BY <1>1, <2>1, <2>2 DEF Working
  <2>4. Quiet'
    BY <1>2, <2>1, <2>2 DEF Quiet
  <2>5. Asked'
    BY <2>1, <2>2 DEF Asked
  <2> QED
    BY <2>3, <2>4, <2>5
<1>3. CASE Cancel
  BY <1>2, <1>3 DEF Cancel
<1>4. ASSUME NEW f \in Files, Fail(f) \/ Stall(f)
      PROVE  Working' /\ Quiet' /\ Asked'
  BY <1>2, <1>4 DEF Fail, Stall, AtWork, Requesting
<1>5. CASE Leave
  <2>1. CASE Abort("abort", {})
    BY <1>2, <2>1
  <2>2. CASE /\ batch = None \/ signal # "none"
             /\ UNCHANGED <<signal, toMake, making, stage, answer, stray, asking, conflict>>
    BY <1>1, <2>2 DEF Working, Quiet, Asked
  <2> QED
    BY <1>5, <2>1, <2>2 DEF Leave
<1> QED
  BY <1>3, <1>4, <1>5 DEF Aborting

LEMMA HandlingWorking ==
  ASSUME TypeOK, Working, Quiet, Asked, NEW f \in Files, Handling(f)
  PROVE  Working' /\ Quiet' /\ Asked'
<1>1. UNCHANGED <<mounted, batch, signal, policy, toMake, making>>
  BY DEF Handling, TakeFile, Packed, Finish, FallBack, Conflict
<1>2. \A o \in BOOLEAN : Transport(f, o) \in Requesting \cup {"packing"}
  BY TransportType
<1>3. ASSUME UNCHANGED <<asking, conflict>>, stage[f] # "conflict", NEW s, s # "conflict",
             stage' = [stage EXCEPT ![f] = s],
             s \in AtWork => batch # None /\ BatchOf[f] = batch /\ toMake = {} /\ making = {},
             s \in Requesting => signal = "none"
      PROVE  Working' /\ Quiet' /\ Asked'
  BY <1>1, <1>3 DEF Working, Quiet, Asked, TypeOK
<1>4. CASE TakeFile(f)
  BY <1>2, <1>3, <1>4 DEF TakeFile, FilesOf, Requesting, TypeOK
<1>5. CASE Packed(f)
  BY <1>3, <1>5 DEF Packed, Working, AtWork, Requesting
<1>6. CASE Finish(f) \/ FallBack(f)
  BY <1>3, <1>6 DEF Finish, FallBack, Working, Quiet, AtWork, Requesting
<1>7. CASE Conflict(f)
  <2>1. /\ stage[f] \in Requesting /\ signal = "none"
        /\ batch # None /\ BatchOf[f] = batch /\ toMake = {} /\ making = {}
    BY <1>7 DEF Conflict, Working, Quiet, AtWork
  <2>2. CASE Resume({f}, policy) /\ UNCHANGED <<asking, conflict>>
    <3>1. PICK s \in Requesting \cup {"packing", "skipped"} :
            stage' = [g \in Files |-> IF g \notin {f} THEN stage[g] ELSE s]
      BY <1>2, <2>2 DEF Resume
    <3>2. stage' = [stage EXCEPT ![f] = s]
      BY <3>1 DEF TypeOK
    <3> QED
      BY <1>3, <2>1, <2>2, <3>1, <3>2 DEF Requesting
  <2>3. CASE /\ policy = "ask"
             /\ stage' = [stage EXCEPT ![f] = "conflict"] /\ asking' = Append(asking, f)
             /\ conflict' = IF conflict = None THEN f ELSE conflict
    <3>1. Working' /\ Quiet'
      BY <1>1, <2>1, <2>3 DEF Working, Quiet, AtWork, TypeOK
    <3>2. /\ Len(asking') = Len(asking) + 1 /\ asking'[Len(asking) + 1] = f
          /\ \A i \in 1 .. Len(asking) : asking'[i] = asking[i]
          /\ Len(asking) \in Nat
      BY <2>3 DEF TypeOK
    <3>3. \A g \in Files : stage'[g] = "conflict" <=> \E i \in 1 .. Len(asking') : asking'[i] = g
      BY <2>3, <3>2 DEF Asked, TypeOK
    <3>4. asking' # <<>> /\ conflict' = asking'[1]
      BY <2>3, <3>2, UploadAssumption DEF Asked, TypeOK
    <3> QED
      BY <1>1, <2>3, <3>1, <3>3, <3>4 DEF Asked
  <2> QED
    BY <1>7, <2>2, <2>3 DEF Conflict
<1> QED
  BY <1>4, <1>5, <1>6, <1>7 DEF Handling

LEMMA NextWorking ==
  ASSUME TypeOK, Working, Quiet, Asked, [Next]_vars
  PROVE  Working' /\ Quiet' /\ Asked'
<1>1. CASE UNCHANGED vars \/ Choosing \/ Serving
  <2>1. UNCHANGED <<mounted, batch, signal, policy, toMake, making, stage, asking, conflict>>
    BY <1>1, ChoosingLeaves, ServingLeaves DEF vars, page
  <2> QED
    BY <2>1 DEF Working, Quiet, Asked
<1>2. CASE StartBatch
  BY <1>2 DEF StartBatch, Working, Quiet, Asked, AtWork, TypeOK
<1>3. CASE MakeDirectories
  BY <1>3 DEF MakeDirectories, Working, Quiet, Asked
<1>4. CASE \E d \in Dirs : DirectoryMade(d) \/ DirectoryFails(d)
  BY <1>4 DEF DirectoryMade, DirectoryFails, Settle, Working, Quiet, Asked
<1>5. ASSUME NEW choice \in {"replace", "skip"}, Choose(choice)
      PROVE  Working' /\ Quiet' /\ Asked'
  <2>1. conflict # None /\ asking' = <<>> /\ conflict' = None
    BY <1>5 DEF Choose
  <2>2. \A f \in Files : f \in ToSet(asking) <=> stage[f] = "conflict"
    BY DEF Asked, ToSet, TypeOK
  <2>3. \A f \in Files : IF stage[f] = "conflict"
                        THEN stage'[f] \in Requesting \cup {"packing", "skipped"}
                        ELSE stage'[f] = stage[f]
    BY <1>5, <2>2, TransportType DEF Choose, Resume
  <2>4. UNCHANGED <<mounted, batch, signal, toMake, making>>
    BY <1>5 DEF Choose
  <2>5. signal = "none"
    BY <2>1, AskedFirst DEF Quiet
  <2> QED
    BY <2>1, <2>3, <2>4, <2>5 DEF Working, Quiet, Asked, AtWork, Requesting
<1>6. CASE EndBatch
  BY <1>6 DEF EndBatch, Settle, Working, Quiet, Asked, Active, FilesOf, AtWork, Requesting
<1> QED
  BY <1>1, <1>2, <1>3, <1>4, <1>5, <1>6, Steps, AbortingWorking, HandlingWorking

-----------------------------------------------------------------------------
(* Consent *)

LEMMA InitAgreed == Init => Agreed
BY DEF Init, Agreed, Consent

\* What takes the place of a file was allowed to.
LEMMA StoresAgreed ==
  ASSUME TypeOK, Consent, NEW f \in Files, NEW o \in BOOLEAN, Stores(f, o),
         o => BatchOf[f] \in consent, UNCHANGED consent
  PROVE  Consent'
BY DEF Stores, Consent, TypeOK

LEMMA ServingAgreed ==
  ASSUME TypeOK, Agreed, Serving
  PROVE  Agreed'
<1>1. UNCHANGED <<batch, policy, over, consent>>
  BY ServingLeaves
<1>2. /\ stray' \in SUBSET stray
      /\ replaced' # replaced =>
           \E f \in Files, o \in BOOLEAN : Stores(f, o) /\ (o => over[f] \/ <<f, o>> \in stray)
  <2>1. ASSUME NEW f \in Files, Serve(f) \/ ServeLost(f)
        PROVE  Stores(f, over[f]) /\ over[f] \in BOOLEAN /\ stray' = stray
    BY <2>1 DEF Serve, ServeLost, TypeOK
  <2>2. ASSUME NEW f \in Files, NEW o \in BOOLEAN, StrayLands(f, o)
        PROVE  /\ stray' \in SUBSET stray /\ <<f, o>> \in stray
               /\ Stores(f, o) \/ replaced' = replaced
    BY <2>2 DEF StrayLands
  <2>3. ASSUME \/ \E f \in Files : Refuse(f) \/ \E n \in 0 .. Size[f] : Progress(f, n)
               \/ \E p \in Contested : OtherWrites(p) \/ OtherRemoves(p)
        PROVE  UNCHANGED <<stray, replaced>>
    BY <2>3 DEF Refuse, Progress, OtherWrites, OtherRemoves, server, history
  <2> QED
    BY <2>1, <2>2, <2>3 DEF Serving
<1>3. Consent'
  <2>1. CASE replaced' = replaced
    BY <1>1, <2>1 DEF Agreed, Consent
  <2>2. CASE replaced' # replaced
    <3>1. PICK f \in Files, o \in BOOLEAN : Stores(f, o) /\ (o => over[f] \/ <<f, o>> \in stray)
      BY <1>2, <2>2
    <3>2. o => BatchOf[f] \in consent
      BY <3>1 DEF Agreed
    <3> QED
      BY <1>1, <3>1, <3>2, StoresAgreed DEF Agreed
  <2> QED
    BY <2>1, <2>2
<1> QED
  BY <1>1, <1>2, <1>3 DEF Agreed

LEMMA AbortingAgreed ==
  ASSUME TypeOK, Agreed, Aborting
  PROVE  Agreed'
<1>1. UNCHANGED <<batch, policy, over, consent, replaced>>
  BY DEF Aborting, Cancel, Leave, Fail, Stall, history
<1>2. \/ stray' = stray
      \/ \E S \in SUBSET Files : stray' = stray \cup {<<f, over[f]>> : f \in S}
  <2>1. ASSUME NEW why, NEW failed, Abort(why, failed)
        PROVE  \E S \in SUBSET Files : stray' = stray \cup {<<f, over[f]>> : f \in S}
    BY <2>1 DEF Abort, FilesOf
  <2> QED
    BY <2>1 DEF Aborting, Cancel, Leave, Fail, Stall
<1> QED
  BY <1>1, <1>2 DEF Agreed, Consent

LEMMA HandlingAgreed ==
  ASSUME TypeOK, Working, Agreed, NEW f \in Files, Handling(f)
  PROVE  Agreed'
<1>1. UNCHANGED <<batch, policy, stray, consent, replaced>>
  BY DEF Handling, TakeFile, Packed, Finish, FallBack, Conflict, server, history
<1>2. \A g \in Files : over'[g] => over[g] \/ (policy = "replace" /\ batch # None /\ BatchOf[g] = batch)
  <2>1. CASE TakeFile(f)
    BY <2>1 DEF TakeFile, FilesOf, TypeOK
  <2>2. CASE Conflict(f)
    <3>1. batch # None /\ BatchOf[f] = batch
      BY <2>2 DEF Conflict, Working, AtWork
    <3> QED
      BY <2>2, <3>1 DEF Conflict, Resume, TypeOK
  <2>3. CASE UNCHANGED over
    BY <2>3
  <2> QED
    BY <2>1, <2>2, <2>3 DEF Handling, Packed, Finish, FallBack
<1> QED
  BY <1>1, <1>2 DEF Agreed, Consent

LEMMA NextAgreed ==
  ASSUME TypeOK, Working, Asked, Agreed, [Next]_vars
  PROVE  Agreed'
<1>1. CASE UNCHANGED vars \/ Choosing
  BY <1>1, ChoosingLeaves DEF Agreed, Consent, vars, page, server, history
<1>2. CASE StartBatch
  BY <1>2 DEF StartBatch, Agreed, Consent, server
<1>3. CASE MakeDirectories \/ EndBatch \/ \E d \in Dirs : DirectoryMade(d) \/ DirectoryFails(d)
  BY <1>3 DEF MakeDirectories, EndBatch, DirectoryMade, DirectoryFails, Settle, Agreed, Consent, server,
              history
<1>4. ASSUME NEW choice \in {"replace", "skip"}, Choose(choice)
      PROVE  Agreed'
  <2>1. \A f \in Files : f \in ToSet(asking) => batch # None /\ BatchOf[f] = batch
    BY DEF Asked, Working, AtWork, ToSet, TypeOK
  <2>2. /\ policy' = choice
        /\ consent' = IF choice = "replace" THEN consent \cup {batch} ELSE consent
        /\ UNCHANGED <<batch, stray, replaced>>
    BY <1>4 DEF Choose, server
  <2>3. \A f \in Files : over'[f] => over[f] \/ (choice = "replace" /\ f \in ToSet(asking))
    BY <1>4 DEF Choose, Resume
  <2> QED
    BY <2>1, <2>2, <2>3 DEF Agreed, Consent
<1> QED
  BY <1>1, <1>2, <1>3, <1>4, Steps, ServingAgreed, AbortingAgreed, HandlingAgreed

-----------------------------------------------------------------------------
(* What became of every batch and file *)

LEMMA InitWaiting == Init => Waiting /\ Accounted
BY UploadAssumption DEF Init, Waiting, Accounted, DoneIsStored

LEMMA EnqueueWaiting ==
  ASSUME TypeOK, Waiting, Accounted, NEW b \in Batches, outcome[b] = "new", Enqueue(b),
         dropped' = None \/ (dropped' = dropped /\ dropped # b),
         UNCHANGED <<batch, stage, answer, signal, policy, stored, skipping>>
  PROVE  Waiting' /\ Accounted'
<1>1. CASE FilesOf(b) \cup DirectoriesOf(b) = {}
  <2>1. \A f \in Files : BatchOf[f] # b
    BY <1>1 DEF FilesOf
  <2>2. queue' = queue /\ outcome' = [outcome EXCEPT ![b] = "done"]
    BY <1>1 DEF Enqueue
  <2> QED
    BY <2>1, <2>2, UploadAssumption DEF Waiting, Accounted, DoneIsStored, TypeOK
<1>2. CASE FilesOf(b) \cup DirectoriesOf(b) # {}
  <2>1. queue' = Append(queue, b) /\ outcome' = [outcome EXCEPT ![b] = "queued"]
    BY <1>2 DEF Enqueue
  <2>2. /\ Len(queue') = Len(queue) + 1 /\ queue'[Len(queue) + 1] = b /\ Len(queue) \in Nat
        /\ \A i \in 1 .. Len(queue) : queue'[i] = queue[i] /\ queue[i] \in Batches
    BY <2>1 DEF TypeOK
  <2>3. \A i \in 1 .. Len(queue) : queue[i] # b
    BY DEF Waiting
  <2>4. \A i \in 1 .. Len(queue') : i \in 1 .. Len(queue) \/ i = Len(queue) + 1
    BY <2>2
  <2>5. /\ \A i \in 1 .. Len(queue') : outcome'[queue'[i]] = "queued"
        /\ \A i, j \in 1 .. Len(queue') : queue'[i] = queue'[j] => i = j
    BY <2>1, <2>2, <2>3, <2>4 DEF Waiting, TypeOK
  <2> QED
    BY <2>1, <2>5, UploadAssumption DEF Waiting, Accounted, DoneIsStored, TypeOK
<1> QED
  BY <1>1, <1>2

LEMMA ChoosingWaiting ==
  ASSUME TypeOK, Waiting, Accounted, Choosing
  PROVE  Waiting' /\ Accounted'
<1>1. UNCHANGED <<batch, stage, answer, signal, policy, stored, skipping>>
  BY ChoosingLeaves DEF history
<1>2. ASSUME NEW b \in Batches, Submit(b)
      PROVE  Waiting' /\ Accounted'
  BY <1>1, <1>2, EnqueueWaiting DEF Submit
<1>3. ASSUME NEW b \in Batches, DropElsewhere(b)
      PROVE  Waiting' /\ Accounted'
  BY <1>1, <1>3 DEF DropElsewhere, Waiting, Accounted, DoneIsStored
<1>4. ASSUME NEW copy \in BOOLEAN, ConfirmDrop(copy)
      PROVE  Waiting' /\ Accounted'
  <2>1. dropped \in Batches /\ outcome[dropped] = "new" /\ dropped' = None
    BY <1>4 DEF ConfirmDrop, Waiting, TypeOK
  <2>2. CASE Enqueue(dropped)
    BY <1>1, <2>1, <2>2, EnqueueWaiting
  <2>3. CASE UNCHANGED <<queue, outcome>>
    BY <1>1, <2>1, <2>3 DEF Waiting, Accounted, DoneIsStored
  <2> QED
    BY <1>4, <2>2, <2>3 DEF ConfirmDrop
<1> QED
  BY <1>2, <1>3, <1>4 DEF Choosing

LEMMA ServingWaiting ==
  ASSUME TypeOK, Waiting, Accounted, Serving
  PROVE  Waiting' /\ Accounted'
<1>1. UNCHANGED <<dropped, queue, batch, signal, policy, stage, outcome, skipping>>
  BY ServingLeaves
<1>2. stored \in SUBSET stored'
  BY DEF Serving, Serve, ServeLost, Refuse, Progress, StrayLands, OtherWrites, OtherRemoves, Stores,
         history
<1>3. \A f \in Files : answer'[f] = "ok" => answer[f] = "ok" \/ f \in stored'
  <2>1. ASSUME NEW f \in Files, Serve(f) \/ ServeLost(f)
        PROVE  f \in stored' /\ \A g \in Files : g # f => answer'[g] = answer[g]
    BY <2>1 DEF Serve, ServeLost, Stores, TypeOK
  <2>2. ASSUME NEW f \in Files, Refuse(f)
        PROVE  \A g \in Files : answer'[g] = "ok" => answer[g] = "ok"
    BY <2>2 DEF Refuse, TypeOK
  <2>3. ASSUME \/ \E f \in Files : \/ \E n \in 0 .. Size[f] : Progress(f, n)
                                   \/ \E o \in BOOLEAN : StrayLands(f, o)
               \/ \E p \in Contested : OtherWrites(p) \/ OtherRemoves(p)
        PROVE  UNCHANGED answer
    BY <2>3 DEF Progress, StrayLands, OtherWrites, OtherRemoves, page
  <2> QED
    BY <2>1, <2>2, <2>3 DEF Serving
<1> QED
  BY <1>1, <1>2, <1>3 DEF Waiting, Accounted, DoneIsStored

LEMMA AbortingWaiting ==
  ASSUME TypeOK, Working, Waiting, Accounted, Aborting
  PROVE  Waiting' /\ Accounted'
<1>1. UNCHANGED <<batch, policy, stored, skipping>>
  BY DEF Aborting, Cancel, Leave, Fail, Stall, history
<1>2. \/ UNCHANGED <<dropped, queue, outcome>>
      \/ /\ dropped' = None /\ queue' = <<>>
         /\ outcome' = [b \in Batches |-> IF outcome[b] = "queued" THEN "dropped" ELSE outcome[b]]
  BY DEF Aborting, Cancel, Leave, Fail, Stall
<1>3. /\ \A f \in Files : \/ stage'[f] = stage[f]
                          \/ /\ stage'[f] = "failed" /\ signal' # "none"
                             /\ stage[f] \in AtWork
      /\ \A f \in Files : answer'[f] = answer[f] \/ answer'[f] = "none"
      /\ signal' = signal \/ signal' # "none"
  <2>1. ASSUME NEW why \in {"abort", "error"}, NEW failed \in SUBSET Files, Abort(why, failed),
               \A f \in failed : stage[f] \in AtWork
        PROVE  /\ \A f \in Files : \/ stage'[f] = stage[f]
                                   \/ stage'[f] = "failed" /\ stage[f] \in AtWork
               /\ \A f \in Files : answer'[f] = "none"
               /\ signal' # "none"
    <3>1. signal' # "none"
      BY <2>1 DEF Abort
    <3>2. ASSUME NEW f \in Files
          PROVE  /\ answer'[f] = "none"
                 /\ stage'[f] = stage[f] \/ (stage'[f] = "failed" /\ stage[f] \in AtWork)
      BY <2>1, AbortEnds
    <3> QED
      BY <3>1, <3>2
  <2>2. CASE Abort("abort", {})
    BY <2>1, <2>2
  <2>3. ASSUME NEW g \in Files, Fail(g) \/ Stall(g)
        PROVE  /\ Abort("error", {g}) /\ {g} \in SUBSET Files
               /\ \A f \in {g} : stage[f] \in AtWork
    BY <2>3 DEF Fail, Stall, AtWork, Requesting
  <2>4. CASE \E g \in Files : Fail(g) \/ Stall(g)
    <3>1. PICK g \in Files : Fail(g) \/ Stall(g)
      BY <2>4
    <3>2. Abort("error", {g}) /\ {g} \in SUBSET Files /\ \A f \in {g} : stage[f] \in AtWork
      BY <2>3, <3>1
    <3> QED
      BY <2>1, <3>2
  <2>5. CASE UNCHANGED <<signal, stage, answer>>
    BY <2>5
  <2> QED
    BY <2>2, <2>4, <2>5 DEF Aborting, Cancel, Leave
<1>4. Waiting'
  <2>1. \A f \in Files : BatchOf[f] \in Batches /\ (stage[f] = "todo" => stage'[f] = "todo")
    BY <1>3, UploadAssumption DEF AtWork, Requesting
  <2>2. CASE UNCHANGED <<dropped, queue, outcome>>
    BY <1>1, <2>1, <2>2 DEF Waiting
  <2>3. CASE /\ dropped' = None /\ queue' = <<>>
             /\ outcome' = [b \in Batches |-> IF outcome[b] = "queued" THEN "dropped" ELSE outcome[b]]
    BY <1>1, <2>1, <2>3 DEF Waiting, TypeOK
  <2> QED
    BY <1>2, <2>2, <2>3
<1>5. Accounted'
  BY <1>1, <1>2, <1>3, UploadAssumption DEF Accounted, DoneIsStored, TypeOK
<1> QED
  BY <1>4, <1>5

LEMMA HandlingWaiting ==
  ASSUME TypeOK, Working, Waiting, Accounted, NEW f \in Files, Handling(f)
  PROVE  Waiting' /\ Accounted'
<1>1. UNCHANGED <<dropped, queue, batch, signal, policy, outcome, stored, skipping>>
  BY DEF Handling, TakeFile, Packed, Finish, FallBack, Conflict, history
<1>2. batch # None /\ BatchOf[f] = batch
  BY DEF Handling, TakeFile, Packed, Finish, FallBack, Conflict, FilesOf, Working, AtWork, Requesting
<1>3. /\ \A g \in Files : g # f => stage'[g] = stage[g]
      /\ \A g \in Files : answer'[g] = answer[g] \/ answer'[g] = "none"
  BY DEF Handling, TakeFile, Packed, Finish, FallBack, Conflict, Resume, TypeOK
<1>4. /\ stage'[f] = "done" => answer[f] = "ok"
      /\ stage'[f] = "skipped" => policy = "skip"
      /\ stage'[f] = "failed" => signal # "none"
  <2>1. CASE TakeFile(f)
    BY <2>1, TransportType DEF TakeFile, TypeOK, Requesting
  <2>2. CASE Packed(f) \/ Finish(f) \/ FallBack(f)
    BY <2>2 DEF Packed, Finish, FallBack, TypeOK, Requesting
  <2>3. CASE Conflict(f)
    BY <2>3, TransportType DEF Conflict, Resume, TypeOK, Requesting
  <2> QED
    BY <2>1, <2>2, <2>3 DEF Handling
<1>5. Waiting'
  BY <1>1, <1>2, <1>3 DEF Waiting
<1>6. Accounted'
  BY <1>1, <1>2, <1>3, <1>4 DEF Accounted, DoneIsStored
<1> QED
  BY <1>5, <1>6

\* The running batch is over.
LEMMA SettleWaiting ==
  ASSUME TypeOK, Waiting, Accounted, NEW how \in {"done", "cancelled", "failed"}, Settle(how),
         how = "done" => \A f \in FilesOf(batch) : f \in stored \/ batch \in skipping,
         UNCHANGED <<dropped, queue, stage, answer, signal, policy, stored, skipping>>
  PROVE  Waiting' /\ Accounted'
<1>1. \A f \in Files : BatchOf[f] \in Batches /\ BatchOf[f] # None
  BY UploadAssumption
<1>2. batch' = None /\ outcome' = [outcome EXCEPT ![batch] = how]
  BY DEF Settle
<1>3. Waiting'
  <2>1. outcome[batch] \notin {"new", "queued"} \/ batch \notin Batches
    BY UploadAssumption DEF Waiting, TypeOK
  <2>2. \A b \in Batches : outcome'[b] \in {"new", "queued"} => outcome[b] = outcome'[b]
    BY <1>2 DEF TypeOK
  <2>3. \A b \in Batches : outcome[b] \in {"new", "queued"} => outcome'[b] = outcome[b]
    BY <1>2, <2>1 DEF TypeOK
  <2>4. \A i \in 1 .. Len(queue) : queue[i] \in Batches
    BY DEF TypeOK
  <2> QED
    BY <1>1, <1>2, <2>2, <2>3, <2>4 DEF Waiting, TypeOK
<1>4. Accounted'
  BY <1>1, <1>2 DEF Accounted, DoneIsStored, FilesOf, TypeOK
<1> QED
  BY <1>3, <1>4

LEMMA NextWaiting ==
  ASSUME TypeOK, Working, Asked, Waiting, Accounted, [Next]_vars
  PROVE  Waiting' /\ Accounted'
<1>1. CASE UNCHANGED vars
  BY <1>1 DEF Waiting, Accounted, DoneIsStored, vars, page, history
<1>2. CASE StartBatch
  <2>1. /\ queue # <<>> /\ batch' = Head(queue) /\ queue' = Tail(queue) /\ policy' # "skip"
        /\ outcome' = [outcome EXCEPT ![Head(queue)] = "running"]
        /\ UNCHANGED <<dropped, stage, answer, stored, skipping>>
    BY <1>2 DEF StartBatch
  <2>2. /\ Head(queue) = queue[1] /\ 1 \in 1 .. Len(queue) /\ Head(queue) \in Batches
        /\ Len(queue') = Len(queue) - 1 /\ Len(queue) \in Nat
        /\ \A i \in 1 .. Len(queue') : i + 1 \in 1 .. Len(queue) /\ queue'[i] = queue[i + 1]
    BY <2>1 DEF TypeOK
  <2>3. outcome[Head(queue)] = "queued" /\ \A i \in 2 .. Len(queue) : queue[i] # Head(queue)
    BY <2>2 DEF Waiting
  <2>4. Waiting'
    BY <2>1, <2>2, <2>3 DEF Waiting, TypeOK
  <2>5. Accounted'
    <3>1. \A f \in Files : BatchOf[f] = batch' => stage[f] = "todo"
      BY <2>1, <2>3 DEF Waiting
    <3>2. DoneIsStored'
      BY <2>1, <2>3 DEF Accounted, DoneIsStored, TypeOK
    <3> QED
      BY <2>1, <3>1, <3>2 DEF Accounted
  <2> QED
    BY <2>4, <2>5
<1>3. CASE MakeDirectories \/ \E d \in Dirs : DirectoryMade(d)
  BY <1>3 DEF MakeDirectories, DirectoryMade, Waiting, Accounted, DoneIsStored, history
<1>4. ASSUME NEW d \in Dirs, DirectoryFails(d)
      PROVE  Waiting' /\ Accounted'
  BY <1>4, SettleWaiting DEF DirectoryFails, history
<1>5. ASSUME NEW choice \in {"replace", "skip"}, Choose(choice)
      PROVE  Waiting' /\ Accounted'
  <2>1. \A f \in Files : f \in ToSet(asking) => batch # None /\ BatchOf[f] = batch
    BY DEF Asked, Working, AtWork, ToSet, TypeOK
  <2>2. /\ skipping' = IF choice = "skip" THEN skipping \cup {batch} ELSE skipping
        /\ policy' = choice
        /\ UNCHANGED <<dropped, queue, batch, signal, answer, outcome, stored>>
    BY <1>5 DEF Choose
  <2>3. \A f \in Files : \/ stage'[f] = stage[f]
                         \/ /\ f \in ToSet(asking)
                            /\ stage'[f] \in Requesting \cup {"packing", "skipped"}
                            /\ stage'[f] = "skipped" => choice = "skip"
    BY <1>5, TransportType DEF Choose, Resume, Requesting
  <2>4. Waiting'
    BY <2>1, <2>2, <2>3 DEF Waiting
  <2>5. Accounted'
    BY <2>1, <2>2, <2>3 DEF Accounted, DoneIsStored, Requesting
  <2> QED
    BY <2>4, <2>5
<1>6. CASE EndBatch
  <2>1. PICK how \in {"done", "cancelled", "failed"} : Settle(how) /\ (how = "done" => signal = "none")
    BY <1>6 DEF EndBatch, TypeOK
  <2>2. UNCHANGED <<dropped, queue, stage, answer, signal, policy, stored, skipping>>
    BY <1>6 DEF EndBatch, history
  <2>3. ASSUME how = "done", NEW f \in FilesOf(batch)
        PROVE  f \in stored \/ batch \in skipping
    <3>1. f \in Files /\ BatchOf[f] = batch /\ stage[f] # "todo" /\ ~Active(f)
      BY <1>6, <2>1, <2>3 DEF EndBatch, FilesOf
    <3>2. stage[f] \in {"done", "skipped", "failed"}
      BY <3>1 DEF Active, FilesOf, TypeOK
    <3> QED
      BY <2>1, <2>3, <3>1, <3>2 DEF Accounted
  <2> QED
    BY <2>1, <2>2, <2>3, SettleWaiting
<1> QED
  BY <1>1, <1>2, <1>3, <1>4, <1>5, <1>6, Steps, ChoosingWaiting, ServingWaiting, AbortingWaiting,
     HandlingWaiting

-----------------------------------------------------------------------------
(* The theorems *)

LEMMA Invariance == Spec => []Inv
<1>1. Init => Inv
  BY InitType, InitWorking, InitAgreed, InitWaiting DEF Inv
<1>2. Inv /\ [Next]_vars => Inv'
  <2> SUFFICES ASSUME Inv, [Next]_vars PROVE Inv'
    OBVIOUS
  <2>1. TypeOK'
    BY NextType DEF Inv
  <2>2. Working' /\ Quiet' /\ Asked'
    BY NextWorking DEF Inv
  <2>3. Agreed'
    BY NextAgreed DEF Inv
  <2>4. Waiting' /\ Accounted'
    BY NextWaiting DEF Inv
  <2> QED
    BY <2>1, <2>2, <2>3, <2>4 DEF Inv
<1> QED
  BY <1>1, <1>2, PTL DEF Spec

\* The refs and states of the page keep their types, whatever is dropped,
\* cancelled or refused.
THEOREM QueueTypeCorrect == Spec => []TypeOK
<1>1. Inv => TypeOK
  BY DEF Inv
<1> QED
  BY <1>1, Invariance, PTL

\* No file is replaced in a batch whose user did not agree, for any number of
\* batches, files and workers (uploadOne, decideConflict, resolveConflict).
THEOREM ReplacedWithConsent == Spec => []Consent
<1>1. Inv => Consent
  BY DEF Inv, Agreed
<1> QED
  BY <1>1, Invariance, PTL

\* A batch that ends as done has every file stored or was told to skip
\* (uploadFiles).
THEOREM DoneBatchIsStored == Spec => []DoneIsStored
<1>1. Inv => DoneIsStored
  BY DEF Inv, Accounted
<1> QED
  BY <1>1, Invariance, PTL

\* The conflict dialog shows the oldest question of the running batch, and no
\* file waits for one that is not shown (askAboutConflict, resolveConflict).
THEOREM OneOpenQuestion == Spec => []QuestionOpen
<1>1. Inv => QuestionOpen
  <2> SUFFICES ASSUME Inv PROVE QuestionOpen
    OBVIOUS
  <2>1. CASE conflict # None
    <3>1. stage[conflict] = "conflict" /\ conflict \in Files
      BY <2>1, AskedFirst DEF Inv
    <3>2. signal = "none"
      BY <3>1 DEF Inv, Quiet
    <3> QED
      BY <2>1, <3>2, AskedFirst DEF Inv, QuestionOpen
  <2>2. CASE conflict = None
    <3>1. asking = <<>>
      <4>1. SUFFICES ASSUME asking # <<>> PROVE FALSE
        OBVIOUS
      <4>2. asking[1] \in Files
        BY <4>1 DEF Inv, TypeOK
      <4> QED
        BY <2>2, <4>1, <4>2, UploadAssumption DEF Inv, Asked
    <3>2. \A f \in Files : stage[f] # "conflict"
      BY <3>1 DEF Inv, Asked
    <3> QED
      BY <2>2, <3>2 DEF QuestionOpen
  <2> QED
    BY <2>1, <2>2
<1> QED
  BY <1>1, Invariance, PTL

\* After a cancellation, a failure or the end of the page no request begins
\* (uploadFile, uploadOne, the workers).
THEOREM NothingAfterAbort == Spec => NoWorkAfterAbort
<1> DEFINE Late == \A f \in Files :
             stage'[f] \in Requesting /\ (stage'[f] # stage[f] \/ over'[f] # over[f])
               => mounted /\ signal = "none" /\ batch = BatchOf[f]
<1>1. Inv /\ [Next]_vars => [Late]_vars
  <2> SUFFICES ASSUME Inv, [Next]_vars PROVE Late
    OBVIOUS
  <2>1. CASE UNCHANGED <<stage, over>>
    BY <2>1
  <2>2. CASE Aborting
    <3>1. ASSUME NEW why, NEW failed, Abort(why, failed)
          PROVE  Late
      BY <3>1, AbortEnds DEF Inv
    <3>2. CASE UNCHANGED <<stage, over>>
      BY <3>2
    <3> QED
      BY <2>2, <3>1, <3>2 DEF Aborting, Cancel, Leave, Fail, Stall
  <2>3. ASSUME NEW f \in Files, Handling(f)
        PROVE  Late
    <3>1. batch # None /\ BatchOf[f] = batch
      BY <2>3 DEF Handling, TakeFile, Packed, Finish, FallBack, Conflict, FilesOf, Inv, Working,
                  AtWork, Requesting
    <3>2. \A g \in Files : g # f => stage'[g] = stage[g] /\ over'[g] = over[g]
      <4>1. CASE Conflict(f)
        <5>1. CASE Resume({f}, policy)
          <6>1. ASSUME NEW g \in Files, g # f
                PROVE  stage'[g] = stage[g] /\ over'[g] = (over[g] \/ FALSE)
            BY <5>1, <6>1 DEF Resume
          <6> QED
            BY <6>1 DEF Inv, TypeOK
        <5>2. CASE ~Resume({f}, policy)
          BY <4>1, <5>2 DEF Conflict, Inv, TypeOK
        <5> QED
          BY <5>1, <5>2
      <4>2. CASE ~Conflict(f)
        BY <2>3, <4>2 DEF Handling, TakeFile, Packed, Finish, FallBack, Inv, TypeOK
      <4> QED
        BY <4>1, <4>2
    <3>3. stage'[f] \in Requesting => signal = "none"
      BY <2>3 DEF Handling, TakeFile, Packed, Finish, FallBack, Conflict, Inv, Quiet, TypeOK, Requesting
    <3> QED
      BY <3>1, <3>2, <3>3 DEF Inv, Quiet
  <2>4. ASSUME NEW choice \in {"replace", "skip"}, Choose(choice)
        PROVE  Late
    <3>1. mounted /\ conflict # None
      BY <2>4 DEF Choose
    <3>2. signal = "none"
      BY <3>1, AskedFirst DEF Inv, Quiet
    <3>3. \A f \in Files : f \in ToSet(asking) => BatchOf[f] = batch
      BY DEF Inv, Asked, Working, AtWork, ToSet, TypeOK
    <3>4. \A f \in Files : f \notin ToSet(asking) => stage'[f] = stage[f] /\ over'[f] = over[f]
      BY <2>4 DEF Choose, Resume, Inv, TypeOK
    <3> QED
      BY <3>1, <3>2, <3>3, <3>4
  <2>5. CASE \/ UNCHANGED vars \/ Choosing \/ Serving \/ StartBatch \/ MakeDirectories \/ EndBatch
             \/ \E d \in Dirs : DirectoryMade(d) \/ DirectoryFails(d)
    <3>1. UNCHANGED <<stage, over>>
      BY <2>5, ChoosingLeaves, ServingLeaves
         DEF vars, page, StartBatch, MakeDirectories, EndBatch, DirectoryMade, DirectoryFails
    <3> QED
      BY <2>1, <3>1
  <2> QED
    BY <2>2, <2>3, <2>4, <2>5, Steps
<1>2. Spec => [][Late]_vars
  BY <1>1, Invariance, PTL DEF Spec
<1> QED
  BY <1>2 DEF NoWorkAfterAbort

=============================================================================
