------------------------------- MODULE Uploads -------------------------------
(***************************************************************************)
(* Resumable uploads (internal/server/uploads.go with the upload records   *)
(* of internal/state/store.go and PublishTemporary and WriteContext of     *)
(* internal/files/root.go).                                                *)
(*                                                                         *)
(* An upload lives in two places: a record in the database and a partial   *)
(* file.  A request changes them one after the other, so the process can   *)
(* end between any two steps, and PruneExpired deletes records without     *)
(* the upload's lock.  A byte is the position the sender gave it, so a     *)
(* file is right when it reads 1, 2, 3, ...  The lock of an upload is the  *)
(* one that UploadLocks describes.                                         *)
(***************************************************************************)
EXTENDS Integers, FiniteSets, Sequences

CONSTANTS
  Uploads,    \* upload identifiers
  Paths,      \* destinations in the served tree
  Length,     \* Upload.Length
  Target,     \* Upload.Path
  Overwrite,  \* the uploads with Upload.Overwrite
  Crossing,   \* destinations on another file system than the partial files
  Atomic,     \* destinations whose file system can rename or link without replacing
  Requests,   \* requests that can be under way at once
  Slots,      \* PATCH requests that can be under way at once
  MaxActive,  \* uploadManager.maxActive
  Foreign,    \* a file that is not an upload's
  None

ASSUME LengthAssumption == Length \in [Uploads -> Nat]
ASSUME TargetAssumption == Target \in [Uploads -> Paths]
ASSUME BoundAssumption  == MaxActive \in Nat /\ Slots \in Nat \ {0}
ASSUME NameAssumption   == Foreign # None /\ Uploads \cap {Foreign, None} = {}
ASSUME KindAssumption   ==
  Overwrite \subseteq Uploads /\ Crossing \subseteq Paths /\ Atomic \subseteq Paths

VARIABLES
  up,       \* the service runs
  used,     \* identifiers that were given out
  live,     \* uploads with a record
  offset,   \* Upload.Offset
  expired,  \* uploads whose time is over
  parts,    \* uploads with a partial file
  body,     \* what is in the partial file
  synced,   \* how much of it survives a loss of power
  ended,    \* history: uploads that were published, given up or cancelled
  dropped,  \* history: of the others, those whose partial file went as the database failed
  owner,    \* who wrote the file at a destination
  content,  \* and what is in it, if an upload did
  raced,    \* history: the destination, if others changed it since the look before a rename
  mode,     \* what a request is: "create", "patch", "cancel" or "prune"
  pc,       \* its next step
  job,      \* the upload it is about
  from,     \* a PATCH: the Upload-Offset it was sent with
  base,     \* and the offset the record had
  todo      \* expired uploads whose partial file it has to remove

records  == <<used, live, offset, expired>>
partials == <<parts, body, synced>>
targets  == <<owner, content, raced>>
history  == <<ended, dropped>>
places   == <<mode, pc, job, from, base>>
requests == <<places, todo>>
vars == <<up, records, partials, history, targets, requests>>

Whole(u) == [i \in 1..Length[u] |-> i]
Steps    == {"idle", "lock", "write", "undo", "advance", "finalize", "commit", "rename",
             "delete", "remove", "drop", "clean", "store"}

TypeOK ==
  /\ up \in BOOLEAN
  /\ used \subseteq Uploads /\ live \subseteq used /\ expired \subseteq used
  /\ parts \subseteq used /\ ended \subseteq used /\ dropped \subseteq used
  /\ offset \in [Uploads -> Nat] /\ \A u \in Uploads : offset[u] <= Length[u]
  /\ body \in [Uploads -> Seq(Nat)]
  /\ synced \in [Uploads -> Nat]
  /\ owner \in [Paths -> Uploads \cup {Foreign, None}]
  /\ content \in [Paths -> Seq(Nat)]
  /\ raced \subseteq Paths
  /\ mode \in [Requests -> {"none", "create", "patch", "cancel", "prune"}]
  /\ pc \in [Requests -> Steps]
  /\ job \in [Requests -> Uploads \cup {None}]
  /\ from \in [Requests -> Nat]
  /\ base \in [Requests -> Nat]
  /\ todo \in [Requests -> SUBSET Uploads]

Init ==
  /\ up = TRUE
  /\ used = {} /\ live = {} /\ expired = {} /\ parts = {} /\ ended = {} /\ dropped = {}
  /\ offset = [u \in Uploads |-> 0]
  /\ body = [u \in Uploads |-> <<>>]
  /\ synced = [u \in Uploads |-> 0]
  /\ owner \in [Paths -> {Foreign, None}]
  /\ content = [p \in Paths |-> <<>>]
  /\ raced = {}
  /\ mode = [r \in Requests |-> "none"]
  /\ pc = [r \in Requests |-> "idle"]
  /\ job = [r \in Requests |-> None]
  /\ from = [r \in Requests |-> 0]
  /\ base = [r \in Requests |-> 0]
  /\ todo = [r \in Requests |-> {}]

-----------------------------------------------------------------------------
(* Locks and steps *)

\* The lock of u is held from the first step after "lock" to the end.
Holds(r, u) == job[r] = u /\ mode[r] \in {"patch", "cancel"} /\ pc[r] # "lock"

Unlocked(u) == \A r \in Requests : ~Holds(r, u)

\* createMu is held by a creation from its first step to its last.
Creating(r) == mode[r] = "create"

\* Nobody knows the identifier of an upload before it was created.
Known(u) == u \in used /\ \A r \in Requests : ~(job[r] = u /\ Creating(r))

Usable(u) == u \in live \ expired

\* Uploads that a client may still continue.
Open == live \ (expired \cup ended \cup dropped)

Start(r, m, p, u, f) ==
  /\ up
  /\ pc[r] = "idle"
  /\ mode' = [mode EXCEPT ![r] = m]
  /\ pc' = [pc EXCEPT ![r] = p]
  /\ job' = [job EXCEPT ![r] = u]
  /\ from' = [from EXCEPT ![r] = f]
  /\ UNCHANGED base

To(r, p) == pc' = [pc EXCEPT ![r] = p] /\ UNCHANGED <<mode, job, from, base>>

Finish(r) ==
  /\ mode' = [mode EXCEPT ![r] = "none"]
  /\ pc' = [pc EXCEPT ![r] = "idle"]
  /\ job' = [job EXCEPT ![r] = None]
  /\ from' = [from EXCEPT ![r] = 0]
  /\ base' = [base EXCEPT ![r] = 0]

Fill(u, s, n) ==
  /\ body' = [body EXCEPT ![u] = s]
  /\ synced' = [synced EXCEPT ![u] = n]

\* removePartial
RemovePart(u) ==
  /\ parts' = parts \ {u}
  /\ Fill(u, <<>>, 0)

-----------------------------------------------------------------------------
(* pruneExpired, from maybePrune or from createUpload *)

\* The transaction of Store.PruneExpired.
PruneRecords(r) ==
  /\ live' = live \ expired
  /\ todo' = [todo EXCEPT ![r] = live \cap expired]
  /\ UNCHANGED <<used, offset, expired>>

Prune(r) ==
  /\ Start(r, "prune", "clean", None, 0)
  /\ PruneRecords(r)
  /\ UNCHANGED <<up, partials, history, targets>>

\* Under the lock of u; an upload is removed from the list with its file.
PrunePart(r, u) ==
  /\ pc[r] = "clean"
  /\ u \in todo[r]
  /\ Unlocked(u)
  /\ RemovePart(u)
  /\ todo' = [todo EXCEPT ![r] = @ \ {u}]
  /\ UNCHANGED <<up, records, history, targets, places>>

PruneEnd(r) ==
  /\ pc[r] = "clean" /\ mode[r] = "prune"
  /\ todo[r] = {}
  /\ Finish(r)
  /\ UNCHANGED <<up, records, partials, history, targets, todo>>

-----------------------------------------------------------------------------
(* createUpload *)

\* It takes createMu and prunes first.
Create(r, u) ==
  /\ u \notin used
  /\ \A q \in Requests : ~Creating(q)
  /\ Start(r, "create", "clean", u, 0)
  /\ PruneRecords(r)
  /\ UNCHANGED <<up, partials, history, targets>>

CanCreate(u) ==
  /\ Cardinality(live) < MaxActive
  /\ owner[Target[u]] = None \/ u \in Overwrite

\* Too many records, a conflict, an invalid path or a full disk.
CreateRefused(r) ==
  /\ pc[r] = "clean" /\ Creating(r)
  /\ todo[r] = {}
  /\ Finish(r)
  /\ UNCHANGED <<up, records, partials, history, targets, todo>>

\* The partial file comes first.
CreatePart(r) ==
  /\ pc[r] = "clean" /\ Creating(r)
  /\ todo[r] = {}
  /\ CanCreate(job[r])
  /\ used' = used \cup {job[r]}
  /\ parts' = parts \cup {job[r]}
  /\ To(r, "store")
  /\ UNCHANGED <<up, live, offset, expired, body, synced, history, targets, todo>>

\* Store.CreateUpload; an upload of length 0 is complete at once.
CreateRecord(r) ==
  /\ pc[r] = "store"
  /\ live' = live \cup {job[r]}
  /\ IF Length[job[r]] = 0 THEN To(r, "finalize") ELSE Finish(r)
  /\ UNCHANGED <<up, used, offset, expired, partials, history, targets, todo>>

CreateFails(r) ==
  /\ pc[r] = "store"
  /\ RemovePart(job[r])
  /\ Finish(r)
  /\ UNCHANGED <<up, records, history, targets, todo>>

-----------------------------------------------------------------------------
(* patchUpload *)

\* It takes a slot, then waits for the lock.
Patch(r, u, f) ==
  /\ Known(u)
  /\ Cardinality({q \in Requests : mode[q] = "patch"}) < Slots
  /\ Start(r, "patch", "lock", u, f)
  /\ UNCHANGED <<up, records, partials, history, targets, todo>>

\* Mutant: the partial file is pruned while the lock is held.
MutPatchGone(r) ==
  /\ pc[r] = "lock" /\ mode[r] = "patch"
  /\ Unlocked(job[r])
  /\ ~Usable(job[r])
  /\ todo' = [todo EXCEPT ![r] = {job[r]}]
  /\ To(r, "clean")
  /\ UNCHANGED <<up, records, partials, history, targets>>

\* Store.Upload has an error, for a record that is not there or is expired, or
\* because its transaction fails.  The partial file is removed in each case.
PatchGone(r) ==
  /\ pc[r] = "lock" /\ mode[r] = "patch"
  /\ Unlocked(job[r])
  /\ RemovePart(job[r])
  /\ dropped' = IF Usable(job[r]) THEN dropped \cup {job[r]} ELSE dropped
  /\ Finish(r)
  /\ UNCHANGED <<up, records, ended, targets, todo>>

Consistent(u, f) ==
  /\ offset[u] = f
  /\ u \in parts
  /\ Len(body[u]) = offset[u]

\* Not consistent, or too much for the upload or for the disk.
PatchRefused(r) ==
  /\ pc[r] = "lock" /\ mode[r] = "patch"
  /\ Unlocked(job[r])
  /\ Usable(job[r])
  /\ Finish(r)
  /\ UNCHANGED <<up, records, partials, history, targets, todo>>

PatchLocked(r) ==
  /\ pc[r] = "lock" /\ mode[r] = "patch"
  /\ Unlocked(job[r])
  /\ Usable(job[r])
  /\ Consistent(job[r], from[r])
  /\ base' = [base EXCEPT ![r] = offset[job[r]]]
  /\ pc' = [pc EXCEPT ![r] = "write"]
  /\ UNCHANGED <<up, records, partials, history, targets, mode, job, from, todo>>

Written(r) == Len(body[job[r]]) - base[r]

\* The body is copied, at most one byte beyond the declared length.
Write(r) ==
  /\ pc[r] = "write"
  /\ Len(body[job[r]]) <= Length[job[r]]
  /\ body' = [body EXCEPT ![job[r]] = Append(@, from[r] + Written(r) + 1)]
  /\ UNCHANGED <<up, records, parts, synced, history, targets, requests>>

\* Mutant: a body that is too long is not noticed, and is published.
MutWriteTooLong(r) ==
  /\ pc[r] = "write"
  /\ synced' = [synced EXCEPT ![job[r]] = Len(body[job[r]])]
  /\ To(r, IF Len(body[job[r]]) >= Length[job[r]] THEN "finalize" ELSE "advance")
  /\ UNCHANGED <<up, records, parts, body, history, targets, todo>>

WriteDone(r) ==
  /\ pc[r] = "write"
  /\ Len(body[job[r]]) <= Length[job[r]]
  /\ synced' = [synced EXCEPT ![job[r]] = Len(body[job[r]])]
  /\ To(r, IF Len(body[job[r]]) = Length[job[r]] THEN "finalize" ELSE "advance")
  /\ UNCHANGED <<up, records, parts, body, history, targets, todo>>

\* The body is too long or breaks off, or the disk is full.
WriteFails(r) ==
  /\ pc[r] = "write"
  /\ To(r, "undo")
  /\ UNCHANGED <<up, records, partials, history, targets, todo>>

\* Mutant: the bytes of a chunk that failed stay.
MutUndo(r) ==
  /\ pc[r] = "undo"
  /\ Finish(r)
  /\ UNCHANGED <<up, records, partials, history, targets, todo>>

\* The partial file is cut back to the offset of the record.
Undo(r) ==
  /\ pc[r] = "undo"
  /\ Fill(job[r], SubSeq(body[job[r]], 1, base[r]), base[r])
  /\ Finish(r)
  /\ UNCHANGED <<up, records, parts, history, targets, todo>>

\* Store.AdvanceUpload compares the offset; it does not look at the time.
Advance(r) ==
  /\ pc[r] = "advance"
  /\ job[r] \in live
  /\ offset[job[r]] = base[r]
  /\ offset' = [offset EXCEPT ![job[r]] = Len(body[job[r]])]
  /\ Finish(r)
  /\ UNCHANGED <<up, used, live, expired, partials, history, targets, todo>>

AdvanceFails(r) ==
  /\ pc[r] = "advance"
  /\ To(r, "undo")
  /\ UNCHANGED <<up, records, partials, history, targets, todo>>

-----------------------------------------------------------------------------
(* finalizeUpload *)

MayPublish(u) == owner[Target[u]] = None \/ u \in Overwrite

\* PublishTemporary moves the partial file to its destination; WriteContext
\* copies it to another file system and renames the copy.
Moved(u) == Target[u] \notin Crossing

Ready(r) ==
  \/ pc[r] = "finalize" /\ Moved(job[r]) /\ job[r] \in parts
  \/ pc[r] = "commit"

\* publishMu is held from the look at the destination to the rename.
Publishing == \E r \in Requests : pc[r] = "rename"

Stop(r) ==
  /\ To(r, IF Creating(r) THEN "delete" ELSE "undo")
  /\ ended' = IF Creating(r) THEN ended \cup {job[r]} ELSE ended

\* The file is at its destination.  WriteContext then looks at it again, and an
\* error there counts as one of the publication.
Place(r) ==
  /\ owner' = [owner EXCEPT ![Target[job[r]]] = job[r]]
  /\ content' = [content EXCEPT ![Target[job[r]]] = body[job[r]]]
  /\ IF Moved(job[r]) THEN RemovePart(job[r]) ELSE UNCHANGED partials
  /\ \/ To(r, "delete") /\ ended' = ended \cup {job[r]}
     \/ ~Moved(job[r]) /\ Stop(r)

\* An upload that may overwrite is renamed.  Any other is renamed or linked
\* where the file system refuses to replace something.
Publish(r) ==
  /\ Ready(r)
  /\ ~Publishing
  /\ job[r] \in Overwrite \/ Target[job[r]] \in Atomic
  /\ MayPublish(job[r])
  /\ Place(r)
  /\ UNCHANGED <<up, records, dropped, raced, todo>>

\* Mutant: the destination is not looked at again.
MutPublishLook(r) ==
  /\ Ready(r)
  /\ ~Publishing
  /\ job[r] \notin Overwrite /\ Target[job[r]] \notin Atomic
  /\ To(r, "rename")
  /\ UNCHANGED <<up, records, partials, history, targets, todo>>

\* Elsewhere (FAT, Android) the destination is looked at first, ...
PublishLook(r) ==
  /\ Ready(r)
  /\ ~Publishing
  /\ job[r] \notin Overwrite /\ Target[job[r]] \notin Atomic
  /\ owner[Target[job[r]]] = None
  /\ To(r, "rename")
  /\ UNCHANGED <<up, records, partials, history, targets, todo>>

\* ... and the file is renamed, whatever is there by now.
PublishRename(r) ==
  /\ pc[r] = "rename"
  /\ Moved(job[r]) => job[r] \in parts
  /\ Place(r)
  /\ raced' = {}
  /\ UNCHANGED <<up, records, dropped, todo>>

\* WriteContext looks at the destination and copies into a temporary file.
CopyPart(r) ==
  /\ pc[r] = "finalize"
  /\ ~Moved(job[r])
  /\ job[r] \in parts
  /\ MayPublish(job[r])
  /\ To(r, "commit")
  /\ UNCHANGED <<up, records, partials, history, targets, todo>>

\* A conflict, an error, or the client has gone.  A creation is given up.
FinalizeFails(r) ==
  /\ pc[r] \in {"finalize", "commit", "rename"}
  /\ Stop(r)
  /\ raced' = IF pc[r] = "rename" THEN {} ELSE raced
  /\ UNCHANGED <<up, records, partials, dropped, owner, content, todo>>

\* Store.DeleteUpload; its error is ignored.
DeleteRecord(r) ==
  /\ pc[r] = "delete"
  /\ live' \in {live, live \ {job[r]}}
  /\ To(r, "remove")
  /\ UNCHANGED <<up, used, offset, expired, partials, history, targets, todo>>

\* Mutant: the partial file of a copied upload stays.
MutDiscard(r) ==
  /\ pc[r] = "remove"
  /\ Finish(r)
  /\ UNCHANGED <<up, records, partials, history, targets, todo>>

Discard(r) ==
  /\ pc[r] = "remove"
  /\ RemovePart(job[r])
  /\ Finish(r)
  /\ UNCHANGED <<up, records, history, targets, todo>>

-----------------------------------------------------------------------------
(* cancelUpload *)

Cancel(r, u) ==
  /\ Known(u)
  /\ Start(r, "cancel", "lock", u, 0)
  /\ UNCHANGED <<up, records, partials, history, targets, todo>>

\* No record, or an error of the database or of the file system.
CancelRefused(r) ==
  /\ pc[r] = "lock" /\ mode[r] = "cancel"
  /\ Unlocked(job[r])
  /\ Finish(r)
  /\ UNCHANGED <<up, records, partials, history, targets, todo>>

CancelLocked(r) ==
  /\ pc[r] = "lock" /\ mode[r] = "cancel"
  /\ Unlocked(job[r])
  /\ Usable(job[r])
  /\ RemovePart(job[r])
  /\ ended' = ended \cup {job[r]}
  /\ dropped' = dropped \ {job[r]}
  /\ To(r, "drop")
  /\ UNCHANGED <<up, records, targets, todo>>

\* Store.DeleteUpload can fail; the record then stays without its partial file.
CancelRecord(r) ==
  /\ pc[r] = "drop"
  /\ live' \in {live, live \ {job[r]}}
  /\ Finish(r)
  /\ UNCHANGED <<up, used, offset, expired, partials, history, targets, todo>>

-----------------------------------------------------------------------------
(* Time, other writers, the end of the process and the next start *)

Expire(u) ==
  /\ u \in live \ expired
  /\ expired' = expired \cup {u}
  /\ dropped' = dropped \ {u}
  /\ UNCHANGED <<up, used, live, offset, partials, ended, targets, requests>>

\* The device's other programs, and the owner's other requests.
Others(p) ==
  /\ owner' = [owner EXCEPT ![p] = IF @ = None THEN Foreign ELSE None]
  /\ content' = [content EXCEPT ![p] = <<>>]
  /\ raced' = IF \E r \in Requests : pc[r] = "rename" /\ Target[job[r]] = p
              THEN raced \cup {p} ELSE raced
  /\ UNCHANGED <<up, records, partials, history, requests>>

\* A partial file keeps at least what was synced.
Crash ==
  /\ up
  /\ up' = FALSE
  /\ \E n \in [Uploads -> UNION {0..Len(body[u]) : u \in Uploads}] :
       /\ \A u \in Uploads : synced[u] <= n[u] /\ n[u] <= Len(body[u])
       /\ body' = [u \in Uploads |-> SubSeq(body[u], 1, n[u])]
       /\ synced' = n
  /\ mode' = [r \in Requests |-> "none"]
  /\ pc' = [r \in Requests |-> "idle"]
  /\ job' = [r \in Requests |-> None]
  /\ from' = [r \in Requests |-> 0]
  /\ base' = [r \in Requests |-> 0]
  /\ todo' = [r \in Requests |-> {}]
  /\ raced' = {}
  /\ UNCHANGED <<records, parts, history, owner, content>>

Kept == {u \in live \ expired : u \in parts /\ Len(body[u]) >= offset[u]}

\* startupCleanup, before the service listens.
Restart ==
  /\ ~up
  /\ up' = TRUE
  /\ live' = Kept
  /\ parts' = Kept
  /\ body' = [u \in Uploads |-> IF u \in Kept THEN SubSeq(body[u], 1, offset[u]) ELSE <<>>]
  /\ synced' = [u \in Uploads |-> Len(body'[u])]
  /\ dropped' = {}
  /\ UNCHANGED <<used, offset, expired, ended, targets, requests>>

-----------------------------------------------------------------------------
LockStep(r) ==
  \/ PatchGone(r) \/ PatchRefused(r) \/ PatchLocked(r)
  \/ CancelRefused(r) \/ CancelLocked(r)
  \/ \E u \in todo[r] : PrunePart(r, u)

Step(r) ==
  \/ PruneEnd(r)
  \/ CreateRefused(r) \/ CreatePart(r) \/ CreateRecord(r) \/ CreateFails(r)
  \/ WriteDone(r) \/ WriteFails(r) \/ Undo(r) \/ Advance(r) \/ AdvanceFails(r)
  \/ Publish(r) \/ PublishLook(r) \/ PublishRename(r) \/ CopyPart(r) \/ FinalizeFails(r)
  \/ DeleteRecord(r) \/ Discard(r) \/ CancelRecord(r)

Request(r) ==
  \/ Prune(r)
  \/ \E u \in Uploads : Create(r, u) \/ Cancel(r, u) \/ \E f \in 0..Length[u] : Patch(r, u, f)

Next ==
  \/ \E r \in Requests : Request(r) \/ Write(r) \/ Step(r) \/ LockStep(r)
  \/ \E u \in Uploads : Expire(u)
  \/ \E p \in Paths : Others(p)
  \/ Crash
  \/ Restart

Spec == Init /\ [][Next]_vars

(***************************************************************************)
(* progressReader breaks a body off that stands still, and a body has an   *)
(* end; Go's mutexes starve nobody; the owner's requests make maybePrune   *)
(* run again and again; the service is started again.                      *)
(***************************************************************************)
Fairness ==
  /\ \A r \in Requests : WF_vars(Step(r)) /\ SF_vars(LockStep(r))
  /\ SF_vars(\E r \in Requests : Prune(r))
  /\ WF_vars(Restart)

FairSpec == Spec /\ Fairness

-----------------------------------------------------------------------------
(* Properties *)

\* A file that an upload left at its destination is the whole of what was
\* sent, in order, whoever else wrote, cancelled or crashed (finalizeUpload).
PublishedWhole ==
  \A p \in Paths : owner[p] \in Uploads => content[p] = Whole(owner[p])

Acknowledged ==
  \A u \in Open :
    /\ u \in parts
    /\ offset[u] <= synced[u]
    /\ synced[u] <= Len(body[u])
    /\ \A i \in 1..offset[u] : body[u][i] = i

Continues ==
  up => \A u \in Open : Unlocked(u) => Len(body[u]) = offset[u]

\* What the client was told is stored can be built upon: until an upload is
\* published or cancelled its partial file has the acknowledged bytes on disk,
\* and while no request works on it nothing else: interrupted bodies, failed
\* publications and crashes leave nothing behind.  The exception is the code's:
\* a PATCH whose transaction fails in Store.Upload removes the partial file of a
\* record that stays (dropped).
Resumable == Acknowledged /\ Continues

\* maxActive bounds the records, also of requests that create at the same time.
ActiveBound == Cardinality(live) <= MaxActive

\* A partial file without a record is in the hands of a request that removes it
\* or makes the record.
NoOrphan ==
  up => \A u \in parts \ live : \E r \in Requests : job[r] = u \/ u \in todo[r]

\* No upload replaces a file without being told to (Upload.Overwrite), except
\* one that somebody else put there between the look and the rename, where the
\* file system has no rename or link that refuses to replace.
Excused(p) == p \in raced \ Atomic

NoOverwrite ==
  [][\A p \in Paths : owner'[p] # owner[p] /\ owner'[p] \in Uploads /\ owner[p] # None
                        => owner'[p] \in Overwrite \/ Excused(p)]_owner

\* A record moves forward, and one that was deleted stays deleted.
RecordsForward ==
  [][\A u \in used : /\ u \in live' \ live => u \notin ended \cup expired
                     /\ u \in live \cap live' => offset'[u] >= offset[u]]_records

\* Every request comes to an end: createMu, the locks and the slots do not
\* make one wait for another for ever.
RequestsEnd == \A r \in Requests : pc[r] # "idle" ~> pc[r] = "idle"
=============================================================================
