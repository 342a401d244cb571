---------------------------- MODULE UploadsProofs ----------------------------
(***************************************************************************)
(* Proofs about Uploads for all uploads, requests and bounds.              *)
(***************************************************************************)
EXTENDS Uploads, UploadLocks, FiniteSetTheorems, TLAPS

USE LengthAssumption, TargetAssumption, BoundAssumption, KindAssumption

LEMMA Names == None \notin Uploads /\ Foreign \notin Uploads /\ Foreign # None
BY NameAssumption

USE Names

\* What a request of each kind can be doing, and about which upload.
Shape(r) ==
  /\ pc[r] # "clean" => todo[r] = {}
  /\ todo[r] \subseteq expired \ live
  /\ \/ mode[r] = "none" /\ pc[r] = "idle" /\ job[r] = None
     \/ mode[r] = "prune" /\ pc[r] = "clean" /\ job[r] = None
     \/ /\ mode[r] = "create"
        /\ pc[r] \in {"clean", "store", "finalize", "commit", "rename", "delete", "remove"}
        /\ job[r] \in Uploads
        /\ pc[r] = "clean" <=> job[r] \notin used
     \/ /\ mode[r] = "patch"
        /\ pc[r] \in {"lock", "write", "undo", "advance", "finalize", "commit", "rename", "delete",
                     "remove"}
        /\ job[r] \in used
     \/ mode[r] = "cancel" /\ pc[r] \in {"lock", "drop"} /\ job[r] \in used

Shapes == /\ \A r \in Requests : Shape(r)
          /\ ~up => \A r \in Requests : pc[r] = "idle"

\* One request at a time works on an upload, and a new one has its creation alone.
Apart ==
  \A r, q \in Requests :
    r # q => /\ job[r] # None /\ job[r] = job[q] => pc[r] = "lock" \/ pc[q] = "lock"
             /\ Creating(r) => job[q] # job[r] /\ ~Creating(q)

\* A partial file reads 1, 2, 3, ... and is as long on disk as its record says.
Run(n) == [i \in 1..n |-> i]

Stored ==
  \A u \in Uploads :
    /\ body[u] = Run(Len(body[u]))
    /\ synced[u] <= Len(body[u])
    /\ u \in parts => offset[u] <= synced[u]
    /\ u \notin parts => body[u] = <<>>
    /\ u \notin used => offset[u] = 0

\* What a request may rely on while it works on its upload.
Local(r) ==
  /\ pc[r] = "store" => /\ job[r] \in parts
                        /\ job[r] \notin live \cup expired \cup ended
                        /\ body[job[r]] = <<>>
                        /\ offset[job[r]] = 0
  /\ pc[r] \in {"write", "undo", "advance"} => job[r] \in parts /\ base[r] = offset[job[r]]
  /\ pc[r] = "write" => from[r] = base[r]
  /\ pc[r] = "advance" => /\ Len(body[job[r]]) = synced[job[r]]
                          /\ Len(body[job[r]]) <= Length[job[r]]
  /\ pc[r] \in {"finalize", "commit", "rename"} =>
       /\ Len(body[job[r]]) = Length[job[r]]
       /\ mode[r] = "patch" => job[r] \in parts /\ base[r] = offset[job[r]]
       /\ mode[r] = "create" => Length[job[r]] = 0 /\ offset[job[r]] = 0
  /\ pc[r] \in {"delete", "remove", "drop"} => job[r] \in ended
  /\ pc[r] = "drop" => job[r] \notin parts

Locals == \A r \in Requests : Local(r)

LiveParts == Open \subseteq parts

\* A partial file without a record is on a list, or its request is next to deal with it.
CaredFor(u) == \E r \in Requests : u \in todo[r] \/ (job[r] = u /\ pc[r] \in {"store", "remove"})

Tended == up => \A u \in parts \ live : CaredFor(u)

Bounded ==
  /\ IsFiniteSet(live)
  /\ ActiveBound
  /\ \A r \in Requests : pc[r] = "store" => Cardinality(live) < MaxActive

\* One file at a time is about to be renamed, and only others can have put
\* something at its destination since the look.
Looked(r) ==
  pc[r] = "rename" =>
    /\ job[r] \in Uploads \ Overwrite /\ Target[job[r]] \notin Atomic
    /\ owner[Target[job[r]]] = None \/ Target[job[r]] \in raced
    /\ \A q \in Requests \ {r} : pc[q] # "rename"

LookedAll == \A r \in Requests : Looked(r)

Inv == /\ TypeOK /\ Shapes /\ Apart
       /\ Stored /\ Locals /\ LiveParts
       /\ Tended /\ Continues /\ Bounded /\ PublishedWhole /\ LookedAll

-----------------------------------------------------------------------------
(* Sequences that read 1, 2, 3, ... *)

LEMMA EmptyRun == <<>> \in Seq(Nat) /\ Len(<<>>) = 0 /\ <<>> = Run(0)
BY DEF Run

LEMMA GrowRun ==
  ASSUME NEW s \in Seq(Nat), s = Run(Len(s)), NEW x \in Nat, x = Len(s) + 1
  PROVE  /\ Append(s, x) \in Seq(Nat)
         /\ Len(Append(s, x)) = Len(s) + 1
         /\ Append(s, x) = Run(Len(s) + 1)
BY DEF Run

LEMMA CutRun ==
  ASSUME NEW s \in Seq(Nat), s = Run(Len(s)), NEW n \in 0..Len(s)
  PROVE  /\ SubSeq(s, 1, n) \in Seq(Nat)
         /\ Len(SubSeq(s, 1, n)) = n
         /\ SubSeq(s, 1, n) = Run(n)
BY DEF Run

-----------------------------------------------------------------------------
(* Types, shapes and who works on what *)

Control == TypeOK /\ Shapes /\ Apart

LEMMA InitControl == Init => Control
<1> SUFFICES ASSUME Init PROVE Control
  OBVIOUS
<1>1. TypeOK
  BY EmptyRun DEF Init, TypeOK, Steps
<1>2. Shapes /\ Apart
  BY DEF Init, Shapes, Shape, Apart, Creating
<1> QED BY <1>1, <1>2 DEF Control

LEMMA BeginControl ==
  ASSUME Inv, NEW r \in Requests, Request(r)
  PROVE  Control'
<1> USE DEF records, partials, history, targets, places, requests, Start
<1>1. CASE Prune(r)
  <2>1. TypeOK'
    BY <1>1 DEF Inv, TypeOK, Prune, PruneRecords, Steps
  <2>2. Shapes'
    BY <1>1 DEF Inv, TypeOK, Shapes, Shape, Prune, PruneRecords
  <2>3. Apart'
    BY <1>1 DEF Inv, TypeOK, Shapes, Shape, Apart, Creating, Prune, PruneRecords
  <2> QED BY <2>1, <2>2, <2>3 DEF Control
<1>2. ASSUME NEW u \in Uploads, Create(r, u)
      PROVE  Control'
  <2>1. TypeOK'
    BY <1>2 DEF Inv, TypeOK, Create, PruneRecords, Steps
  <2>2. Shapes'
    BY <1>2 DEF Inv, TypeOK, Shapes, Shape, Create, PruneRecords
  <2>3. \A q \in Requests : ~Creating(q) /\ job[q] # u
    BY <1>2 DEF Inv, Shapes, Shape, Creating, Create
  <2>4. Apart'
    BY <1>2, <2>3 DEF Inv, TypeOK, Apart, Creating, Create
  <2> QED BY <2>1, <2>2, <2>4 DEF Control
<1>3. ASSUME NEW u \in Uploads, Cancel(r, u)
      PROVE  Control'
  <2>1. TypeOK'
    BY <1>3 DEF Inv, TypeOK, Cancel, Steps
  <2>2. Shapes'
    BY <1>3 DEF Inv, TypeOK, Shapes, Shape, Cancel, Known
  <2>3. Apart'
    BY <1>3 DEF Inv, TypeOK, Shapes, Shape, Apart, Creating, Cancel, Known
  <2> QED BY <2>1, <2>2, <2>3 DEF Control
<1>4. ASSUME NEW u \in Uploads, NEW f \in 0..Length[u], Patch(r, u, f)
      PROVE  Control'
  <2>1. TypeOK'
    BY <1>4 DEF Inv, TypeOK, Patch, Steps
  <2>2. Shapes'
    BY <1>4 DEF Inv, TypeOK, Shapes, Shape, Patch, Known
  <2>3. Apart'
    BY <1>4 DEF Inv, TypeOK, Shapes, Shape, Apart, Creating, Patch, Known
  <2> QED BY <2>1, <2>2, <2>3 DEF Control
<1> QED BY <1>1, <1>2, <1>3, <1>4 DEF Request

\* A request that goes on or ends disturbs no other.
LEMMA MoveApart ==
  ASSUME Inv, NEW r \in Requests, pc[r] # "lock",
         UNCHANGED <<used, todo>>,
         Finish(r) \/ \E p \in Steps \ {"lock", "idle", "clean"} : To(r, p)
  PROVE  Apart'
<1> USE DEF Inv, TypeOK, Apart, Creating
<1>1. CASE Finish(r)
  <2>1. \A q \in Requests : Creating(q) => job[q] \in Uploads
    BY DEF Shapes, Shape
  <2> QED BY <1>1, <2>1 DEF Finish
<1>2. ASSUME NEW p \in Steps \ {"lock", "idle", "clean"}, To(r, p)
      PROVE  Apart'
  BY <1>2 DEF To
<1> QED BY <1>1, <1>2

\* The steps of a request that is under way.
LEMMA MoveControl ==
  ASSUME Inv, NEW r \in Requests, Write(r) \/ Step(r)
  PROVE  Control'
<1> USE DEF records, partials, history, targets, places, requests
<1> DEFINE u == job[r]
<1>1. CASE PruneEnd(r)
  <2>1. TypeOK'
    BY <1>1 DEF Inv, TypeOK, PruneEnd, Finish, Steps
  <2>2. Shapes'
    BY <1>1 DEF Inv, TypeOK, Shapes, Shape, PruneEnd, Finish
  <2> QED BY <1>1, <2>1, <2>2, MoveApart DEF Control, PruneEnd
<1>2. CASE CreateRefused(r)
  <2>1. TypeOK'
    BY <1>2 DEF Inv, TypeOK, CreateRefused, Finish, Steps
  <2>2. Shapes'
    BY <1>2 DEF Inv, TypeOK, Shapes, Shape, CreateRefused, Finish
  <2> QED BY <1>2, <2>1, <2>2, MoveApart DEF Control, CreateRefused
<1>3. CASE CreatePart(r)
  <2>1. TypeOK'
    BY <1>3 DEF Inv, TypeOK, Shapes, Shape, Creating, CreatePart, To, Steps
  <2>2. Shapes'
    BY <1>3 DEF Inv, TypeOK, Shapes, Shape, Apart, Creating, CreatePart, To
  <2>3. Apart'
    BY <1>3 DEF Inv, TypeOK, Apart, Creating, CreatePart, To
  <2> QED BY <2>1, <2>2, <2>3 DEF Control
<1>4. CASE CreateRecord(r)
  <2>1. u \in used /\ u \notin expired /\ mode[r] = "create" /\ todo[r] = {}
    BY <1>4 DEF Inv, Shapes, Shape, Locals, Local, CreateRecord
  <2>2. UNCHANGED <<up, used, offset, expired, parts, body, synced, ended, dropped, owner, content, raced, todo>>
    BY <1>4 DEF CreateRecord
  <2>3. live' = live \cup {u}
    BY <1>4 DEF CreateRecord
  <2>4. CASE To(r, "finalize")
    <3>1. TypeOK'
      BY <2>1, <2>2, <2>3, <2>4 DEF Inv, TypeOK, To, Steps
    <3>2. Shapes'
      BY <1>4, <2>1, <2>2, <2>3, <2>4 DEF Inv, TypeOK, Shapes, Shape, CreateRecord, To
    <3> QED BY <1>4, <2>2, <2>4, <3>1, <3>2, MoveApart DEF Control, CreateRecord, Steps
  <2>5. CASE Finish(r)
    <3>1. TypeOK'
      BY <2>1, <2>2, <2>3, <2>5 DEF Inv, TypeOK, Finish, Steps
    <3>2. Shapes'
      BY <1>4, <2>1, <2>2, <2>3, <2>5 DEF Inv, TypeOK, Shapes, Shape, CreateRecord, Finish
    <3> QED BY <1>4, <2>2, <2>5, <3>1, <3>2, MoveApart DEF Control, CreateRecord
  <2> QED BY <1>4, <2>4, <2>5 DEF CreateRecord
<1>5. CASE CreateFails(r)
  <2>1. TypeOK'
    BY <1>5, EmptyRun DEF Inv, TypeOK, Shapes, Shape, CreateFails, RemovePart, Fill, Finish, Steps
  <2>2. Shapes'
    BY <1>5 DEF Inv, TypeOK, Shapes, Shape, CreateFails, Finish
  <2> QED BY <1>5, <2>1, <2>2, MoveApart DEF Control, CreateFails
<1>6. CASE Write(r)
  <2>1. u \in Uploads /\ body[u] \in Seq(Nat) /\ body[u] = Run(Len(body[u]))
    BY <1>6 DEF Inv, TypeOK, Shapes, Shape, Write, Stored
  <2>2. from[r] + Written(r) + 1 = Len(body[u]) + 1
    BY <1>6, <2>1 DEF Inv, TypeOK, Locals, Local, Write, Written
  <2>3. Append(body[u], from[r] + Written(r) + 1) \in Seq(Nat)
    BY <2>1, <2>2, GrowRun
  <2>4. TypeOK'
    BY <1>6, <2>1, <2>3 DEF Inv, TypeOK, Write
  <2>5. Shapes' /\ Apart'
    BY <1>6 DEF Inv, Shapes, Shape, Apart, Creating, Write
  <2> QED BY <2>4, <2>5 DEF Control
<1>7. CASE WriteDone(r)
  <2>1. u \in Uploads
    BY <1>7 DEF Inv, TypeOK, Shapes, Shape, WriteDone
  <2>2. Len(body[u]) \in Nat
    BY <2>1 DEF Inv, TypeOK
  <2>3. TypeOK'
    BY <1>7, <2>1, <2>2 DEF Inv, TypeOK, WriteDone, To, Steps
  <2>4. Shapes'
    BY <1>7 DEF Inv, TypeOK, Shapes, Shape, WriteDone, To
  <2> QED BY <1>7, <2>3, <2>4, MoveApart DEF Control, WriteDone, Steps
<1>8. CASE WriteFails(r) \/ AdvanceFails(r)
  <2>1. TypeOK'
    BY <1>8 DEF Inv, TypeOK, Shapes, Shape, WriteFails, AdvanceFails, To, Steps
  <2>2. Shapes'
    BY <1>8 DEF Inv, TypeOK, Shapes, Shape, WriteFails, AdvanceFails, To
  <2> QED BY <1>8, <2>1, <2>2, MoveApart DEF Control, WriteFails, AdvanceFails, Steps
<1>9. CASE Undo(r)
  <2>1. u \in Uploads /\ base[r] \in 0..Len(body[u]) /\ base[r] = offset[u]
    BY <1>9 DEF Inv, TypeOK, Shapes, Shape, Locals, Local, Stored, Undo
  <2>2. SubSeq(body[u], 1, base[r]) \in Seq(Nat)
    BY <2>1, CutRun DEF Inv, TypeOK, Stored
  <2>3. TypeOK'
    BY <1>9, <2>1, <2>2 DEF Inv, TypeOK, Undo, Fill, Finish, Steps
  <2>4. Shapes'
    BY <1>9 DEF Inv, TypeOK, Shapes, Shape, Undo, Finish
  <2> QED BY <1>9, <2>3, <2>4, MoveApart DEF Control, Undo
<1>10. CASE Advance(r)
  <2>1. u \in Uploads /\ Len(body[u]) \in Nat /\ Len(body[u]) <= Length[u]
    BY <1>10 DEF Inv, TypeOK, Shapes, Shape, Locals, Local, Advance
  <2>2. TypeOK'
    BY <1>10, <2>1 DEF Inv, TypeOK, Advance, Finish, Steps
  <2>3. Shapes'
    BY <1>10 DEF Inv, TypeOK, Shapes, Shape, Advance, Finish
  <2> QED BY <1>10, <2>2, <2>3, MoveApart DEF Control, Advance
<1>11. CASE Publish(r) \/ PublishRename(r)
  <2>1. u \in used /\ u \in Uploads
    BY <1>11 DEF Inv, TypeOK, Shapes, Shape, Publish, PublishRename, Ready
  <2>2. /\ Place(r) /\ raced' \in {raced, {}}
        /\ UNCHANGED <<up, used, live, offset, expired, dropped, todo>>
    BY <1>11 DEF Publish, PublishRename
  <2>3. \E p \in {"delete", "undo"} : To(r, p) /\ (p = "undo" => ~Creating(r))
    BY <2>2 DEF Place, Stop
  <2>4. parts' \subseteq used /\ body' \in [Uploads -> Seq(Nat)] /\ synced' \in [Uploads -> Nat]
    <3>1. RemovePart(u) \/ UNCHANGED <<parts, body, synced>>
      BY <2>2 DEF Place
    <3>2. CASE RemovePart(u)
      BY <2>1, <3>2, EmptyRun DEF Inv, TypeOK, RemovePart, Fill
    <3> QED BY <3>1, <3>2 DEF Inv, TypeOK
  <2>5. /\ ended' \subseteq used /\ owner' \in [Paths -> Uploads \cup {Foreign, None}]
        /\ content' \in [Paths -> Seq(Nat)]
    BY <2>1, <2>2 DEF Inv, TypeOK, Place, Stop
  <2>6. TypeOK'
    BY <2>2, <2>3, <2>4, <2>5 DEF Inv, TypeOK, To, Steps
  <2>7. Shapes'
    BY <1>11, <2>2, <2>3 DEF Inv, TypeOK, Shapes, Shape, Creating, Publish, PublishRename, Ready, To
  <2>8. pc[r] # "lock"
    BY <1>11 DEF Publish, PublishRename, Ready
  <2>9. Apart'
    BY <2>2, <2>3, <2>8, MoveApart DEF Steps
  <2> QED BY <2>6, <2>7, <2>9 DEF Control
<1>12. CASE CopyPart(r) \/ PublishLook(r)
  <2>1. TypeOK'
    BY <1>12 DEF Inv, TypeOK, CopyPart, PublishLook, To, Steps
  <2>2. Shapes'
    <3>1. /\ \E p \in {"commit", "rename"} : pc' = [pc EXCEPT ![r] = p]
          /\ UNCHANGED <<up, used, live, expired, mode, job, todo>>
          /\ pc[r] \in {"finalize", "commit"} /\ up
      BY <1>12 DEF Inv, Shapes, CopyPart, PublishLook, Ready, To
    <3> QED BY <3>1 DEF Inv, TypeOK, Shapes, Shape
  <2>3. pc[r] # "lock" /\ UNCHANGED <<used, todo>> /\ \E p \in {"commit", "rename"} : To(r, p)
    BY <1>12 DEF CopyPart, PublishLook, Ready
  <2> QED BY <2>1, <2>2, <2>3, MoveApart DEF Control, Steps
<1>13. CASE FinalizeFails(r)
  <2>1. u \in used
    BY <1>13 DEF Inv, Shapes, Shape, FinalizeFails
  <2>2. TypeOK'
    BY <1>13, <2>1 DEF Inv, TypeOK, FinalizeFails, Stop, To, Steps
  <2>3. Shapes'
    BY <1>13 DEF Inv, TypeOK, Shapes, Shape, Creating, FinalizeFails, Stop, To
  <2>4. pc[r] # "lock" /\ UNCHANGED <<used, todo>> /\ \E p \in {"delete", "undo"} : To(r, p)
    BY <1>13 DEF FinalizeFails, Stop
  <2> QED BY <2>2, <2>3, <2>4, MoveApart DEF Control, Steps
<1>14. CASE DeleteRecord(r)
  <2>1. TypeOK'
    BY <1>14 DEF Inv, TypeOK, DeleteRecord, To, Steps
  <2>2. Shapes'
    BY <1>14 DEF Inv, TypeOK, Shapes, Shape, DeleteRecord, To
  <2> QED BY <1>14, <2>1, <2>2, MoveApart DEF Control, DeleteRecord, Steps
<1>15. CASE Discard(r)
  <2>1. TypeOK'
    BY <1>15, EmptyRun DEF Inv, TypeOK, Discard, RemovePart, Fill, Finish, Steps
  <2>2. Shapes'
    BY <1>15 DEF Inv, TypeOK, Shapes, Shape, Discard, Finish
  <2> QED BY <1>15, <2>1, <2>2, MoveApart DEF Control, Discard
<1>16. CASE CancelRecord(r)
  <2>1. TypeOK'
    BY <1>16 DEF Inv, TypeOK, CancelRecord, Finish, Steps
  <2>2. Shapes'
    BY <1>16 DEF Inv, TypeOK, Shapes, Shape, CancelRecord, Finish
  <2> QED BY <1>16, <2>1, <2>2, MoveApart DEF Control, CancelRecord
<1> QED BY <1>1, <1>2, <1>3, <1>4, <1>5, <1>6, <1>7, <1>8, <1>9, <1>10, <1>11, <1>12,
           <1>13, <1>14, <1>15, <1>16 DEF Step

\* The steps that need the lock of an upload.
LEMMA LockControl ==
  ASSUME Inv, NEW r \in Requests, LockStep(r)
  PROVE  Control'
<1> USE DEF records, partials, history, targets, places, requests
<1> DEFINE u == job[r]
<1>1. CASE PatchGone(r) \/ PatchRefused(r) \/ CancelRefused(r)
  <2>1. Finish(r) /\ UNCHANGED <<up, used, live, expired, ended, offset, owner, content, raced, todo>>
    BY <1>1 DEF PatchGone, PatchRefused, CancelRefused
  <2>2. u \in Uploads /\ pc[r] = "lock"
    BY <1>1 DEF Inv, TypeOK, Shapes, Shape, PatchGone, PatchRefused, CancelRefused
  <2>3. RemovePart(u) \/ UNCHANGED <<parts, body, synced>>
    BY <1>1 DEF PatchGone, PatchRefused, CancelRefused
  <2>4. parts' \subseteq used /\ body' \in [Uploads -> Seq(Nat)] /\ synced' \in [Uploads -> Nat]
    <3>1. CASE RemovePart(u)
      BY <2>2, <3>1, EmptyRun DEF Inv, TypeOK, RemovePart, Fill
    <3> QED BY <2>3, <3>1 DEF Inv, TypeOK
  <2>5. dropped' \subseteq used
    BY <1>1, <2>2 DEF Inv, TypeOK, Usable, PatchGone, PatchRefused, CancelRefused
  <2>6. TypeOK'
    BY <2>1, <2>4, <2>5 DEF Inv, TypeOK, Finish, Steps
  <2>7. Shapes'
    BY <2>1, <2>2 DEF Inv, TypeOK, Shapes, Shape, Finish
  <2>8. \A q \in Requests : Creating(q) => job[q] \in Uploads
    BY DEF Inv, Shapes, Shape, Creating
  <2>9. Apart'
    BY <2>1, <2>8 DEF Inv, TypeOK, Apart, Creating, Finish
  <2> QED BY <2>6, <2>7, <2>9 DEF Control
<1>2. CASE PatchLocked(r) \/ CancelLocked(r)
  <2>1. u \in used /\ mode[r] \in {"patch", "cancel"} /\ pc[r] = "lock" /\ u # None /\ u \in Uploads
    BY <1>2 DEF Inv, TypeOK, Shapes, Shape, PatchLocked, CancelLocked
  <2>2. TypeOK'
    <3>1. CASE PatchLocked(r)
      BY <2>1, <3>1 DEF Inv, TypeOK, PatchLocked, Steps
    <3>2. CASE CancelLocked(r)
      BY <2>1, <3>2, EmptyRun DEF Inv, TypeOK, CancelLocked, RemovePart, Fill, To, Steps
    <3> QED BY <1>2, <3>1, <3>2
  <2>3. Shapes'
    BY <1>2 DEF Inv, TypeOK, Shapes, Shape, PatchLocked, CancelLocked, To
  <2>4. \A q \in Requests \ {r} : ~Creating(q) /\ job[q] = u => pc[q] = "lock"
    BY <1>2, <2>1 DEF Inv, Shapes, Shape, Creating, PatchLocked, CancelLocked, Unlocked, Holds
  <2>5. UNCHANGED <<mode, job>> /\ \A q \in Requests \ {r} : pc'[q] = pc[q]
    BY <1>2 DEF Inv, TypeOK, PatchLocked, CancelLocked, To
  <2>6. Apart'
    BY <2>1, <2>4, <2>5 DEF Inv, Apart, Creating
  <2> QED BY <2>2, <2>3, <2>6 DEF Control
<1>3. ASSUME NEW v \in todo[r], PrunePart(r, v)
      PROVE  Control'
  <2>1. v \in Uploads
    BY DEF Inv, TypeOK
  <2>2. TypeOK'
    BY <1>3, <2>1, EmptyRun DEF Inv, TypeOK, PrunePart, RemovePart, Fill
  <2>3. Shapes' /\ Apart'
    BY <1>3 DEF Inv, TypeOK, Shapes, Shape, Apart, Creating, PrunePart
  <2> QED BY <2>2, <2>3 DEF Control
<1> QED BY <1>1, <1>2, <1>3 DEF LockStep

LEMMA OutsideControl ==
  ASSUME Inv, \/ \E u \in Uploads : Expire(u)
              \/ \E p \in Paths : Others(p)
              \/ Crash \/ Restart \/ UNCHANGED vars
  PROVE  Control'
<1> USE DEF records, partials, history, targets, places, requests
<1>1. CASE \E u \in Uploads : Expire(u)
  BY <1>1 DEF Inv, Control, TypeOK, Shapes, Shape, Apart, Creating, Expire
<1>2. CASE \E p \in Paths : Others(p)
  <2>1. TypeOK'
    BY <1>2, EmptyRun DEF Inv, TypeOK, Others
  <2>2. Shapes' /\ Apart'
    BY <1>2 DEF Inv, Shapes, Shape, Apart, Creating, Others
  <2> QED BY <2>1, <2>2 DEF Control
<1>3. CASE Crash
  <2>1. PICK n \in [Uploads -> UNION {0..Len(body[u]) : u \in Uploads}] :
          /\ \A u \in Uploads : synced[u] <= n[u] /\ n[u] <= Len(body[u])
          /\ body' = [u \in Uploads |-> SubSeq(body[u], 1, n[u])]
          /\ synced' = n
    BY <1>3 DEF Crash
  <2>2. \A u \in Uploads : n[u] \in 0..Len(body[u])
    BY <2>1 DEF Inv, TypeOK
  <2>3. \A u \in Uploads : SubSeq(body[u], 1, n[u]) \in Seq(Nat)
    BY <2>2, CutRun DEF Inv, TypeOK, Stored
  <2>4. body' \in [Uploads -> Seq(Nat)] /\ synced' \in [Uploads -> Nat]
    BY <2>1, <2>2, <2>3
  <2>5. TypeOK'
    BY <1>3, <2>4 DEF Inv, TypeOK, Crash, Steps
  <2>6. Shapes' /\ Apart'
    BY <1>3 DEF Inv, Shapes, Shape, Apart, Creating, Crash
  <2> QED BY <2>5, <2>6 DEF Control
<1>4. CASE Restart
  <2>1. \A u \in Kept : offset[u] \in 0..Len(body[u])
    BY DEF Inv, TypeOK, Kept
  <2>2. \A u \in Kept : SubSeq(body[u], 1, offset[u]) \in Seq(Nat)
    BY <2>1, CutRun DEF Inv, TypeOK, Stored, Kept
  <2>3. body' \in [Uploads -> Seq(Nat)]
    BY <1>4, <2>2, EmptyRun DEF Restart
  <2>4. synced' \in [Uploads -> Nat]
    BY <1>4, <2>3 DEF Restart
  <2>5. TypeOK'
    BY <1>4, <2>3, <2>4 DEF Inv, TypeOK, Restart, Kept
  <2>6. Shapes' /\ Apart'
    BY <1>4 DEF Inv, TypeOK, Shapes, Shape, Apart, Creating, Restart, Kept
  <2> QED BY <2>5, <2>6 DEF Control
<1>5. CASE UNCHANGED vars
  BY <1>5 DEF vars, Inv, Control, TypeOK, Shapes, Shape, Apart, Creating
<1> QED BY <1>1, <1>2, <1>3, <1>4, <1>5

-----------------------------------------------------------------------------
(* Partial files, records and what is published *)

Data == Stored /\ Locals /\ LiveParts /\ PublishedWhole

LEMMA InitData == Init => Data
<1> SUFFICES ASSUME Init PROVE Data
  OBVIOUS
<1>1. Stored
  BY EmptyRun DEF Init, Stored
<1>2. Locals /\ LiveParts
  BY DEF Init, Locals, Local, LiveParts, Open
<1>3. PublishedWhole
  BY DEF Init, PublishedWhole
<1> QED BY <1>1, <1>2, <1>3 DEF Data

\* Nothing about upload v has changed that a request could mind.
Same(v) ==
  /\ body'[v] = body[v] /\ synced'[v] = synced[v] /\ offset'[v] = offset[v]
  /\ v \in parts <=> v \in parts'
  /\ v \in ended => v \in ended'
  /\ v \notin live \cup expired \cup ended => v \notin live' \cup expired' \cup ended'

Still(q) ==
  /\ pc'[q] = pc[q] /\ mode'[q] = mode[q] /\ job'[q] = job[q]
  /\ from'[q] = from[q] /\ base'[q] = base[q]

LEMMA LocalFrame ==
  ASSUME Inv, NEW q \in Requests, Still(q), pc[q] \in {"lock", "idle", "clean"} \/ Same(job[q])
  PROVE  Local(q)'
BY DEF Inv, Locals, Local, Still, Same

\* A request that works on u leaves the others alone, if it leaves the other
\* uploads alone.
LEMMA OthersFrame ==
  ASSUME Inv, NEW r \in Requests, pc[r] # "lock", job[r] # None,
         \A q \in Requests \ {r} : Still(q),
         \A v \in Uploads \ {job[r]} : Same(v)
  PROVE  \A q \in Requests \ {r} : Local(q)'
<1> SUFFICES ASSUME NEW q \in Requests \ {r}, pc[q] \notin {"lock", "idle", "clean"}
             PROVE  Local(q)'
  BY LocalFrame
<1>1. job[q] \in Uploads
  BY DEF Inv, Shapes, Shape, TypeOK
<1>2. job[q] # job[r]
  BY <1>1 DEF Inv, Apart
<1> QED BY <1>1, <1>2, LocalFrame

LEMMA ToFrame ==
  ASSUME Inv, NEW r \in Requests, Finish(r) \/ \E p \in Steps : To(r, p)
  PROVE  \A q \in Requests \ {r} : Still(q)
BY DEF Inv, TypeOK, Finish, To, Still

\* Steps that change no upload, beyond marking one as ended or dropping records.
LEMMA QuietData ==
  ASSUME Inv,
         UNCHANGED <<used, offset, expired, parts, body, synced, owner, content>>,
         live' \subseteq live, ended \subseteq ended', dropped \subseteq dropped',
         \A q \in Requests : Local(q)'
  PROVE  Data'
BY DEF Inv, Data, Stored, Locals, LiveParts, Open, PublishedWhole

LEMMA BeginData ==
  ASSUME Inv, NEW r \in Requests, Request(r)
  PROVE  Data'
<1> USE DEF records, partials, history, targets
<1>1. UNCHANGED <<used, offset, expired, parts, body, synced, ended, dropped, owner, content>>
  BY DEF Request, Prune, Create, Cancel, Patch, PruneRecords
<1>2. live' \subseteq live
  BY DEF Request, Prune, Create, Cancel, Patch, PruneRecords
<1>3. \A q \in Requests \ {r} : Still(q)
  BY DEF Inv, TypeOK, Request, Prune, Create, Cancel, Patch, Start, Still
<1>4. pc'[r] \in {"clean", "lock"}
  BY DEF Inv, TypeOK, Request, Prune, Create, Cancel, Patch, Start
<1>5. \A q \in Requests : Local(q)'
  <2>1. Local(r)'
    BY <1>4 DEF Local
  <2>2. ASSUME NEW q \in Requests \ {r}
        PROVE  Local(q)'
    <3>1. Same(job[q])
      BY <1>1, <1>2 DEF Same
    <3> QED BY <1>3, <3>1, LocalFrame
  <2> QED BY <2>1, <2>2
<1> QED BY <1>1, <1>2, <1>5, QuietData

\* The steps that end a request or move it on and change no partial file.
LEMMA QuietStepData ==
  ASSUME Inv, NEW r \in Requests,
         \/ PruneEnd(r) \/ CreateRefused(r) \/ WriteFails(r) \/ AdvanceFails(r) \/ CopyPart(r)
         \/ PublishLook(r) \/ FinalizeFails(r) \/ DeleteRecord(r) \/ CancelRecord(r)
         \/ PatchRefused(r) \/ CancelRefused(r)
  PROVE  Data'
<1> USE DEF records, partials, history, targets
<1>1. UNCHANGED <<used, offset, expired, parts, body, synced, owner, content>>
  BY DEF PruneEnd, CreateRefused, WriteFails, AdvanceFails, CopyPart, PublishLook,
         FinalizeFails, Stop, DeleteRecord, CancelRecord, PatchRefused, CancelRefused
<1>2. live' \subseteq live /\ ended \subseteq ended' /\ dropped \subseteq dropped'
  BY DEF PruneEnd, CreateRefused, WriteFails, AdvanceFails, CopyPart, PublishLook,
         FinalizeFails, Stop, DeleteRecord, CancelRecord, PatchRefused, CancelRefused
<1>3. Finish(r) \/ \E p \in Steps : To(r, p)
  BY DEF PruneEnd, CreateRefused, WriteFails, AdvanceFails, CopyPart, PublishLook,
         FinalizeFails, Stop, DeleteRecord, CancelRecord, PatchRefused, CancelRefused, Steps
<1>4. ended' = ended \/ (pc[r] # "lock" /\ job[r] # None /\ ended' = ended \cup {job[r]})
  BY DEF PruneEnd, CreateRefused, WriteFails, AdvanceFails, CopyPart, PublishLook,
         FinalizeFails, Stop, DeleteRecord, CancelRecord, PatchRefused, CancelRefused, Inv, Shapes, Shape, Creating
<1>5. \A q \in Requests \ {r} : Local(q)'
  <2>1. CASE ended' = ended
    <3>1. \A v : Same(v)
      BY <1>1, <1>2, <2>1 DEF Same
    <3> QED BY <1>3, <3>1, ToFrame, LocalFrame
  <2>2. CASE pc[r] # "lock" /\ job[r] # None /\ ended' = ended \cup {job[r]}
    <3>1. \A v \in Uploads \ {job[r]} : Same(v)
      BY <1>1, <1>2, <2>2 DEF Same
    <3> QED BY <1>3, <2>2, <3>1, ToFrame, OthersFrame
  <2> QED BY <1>4, <2>1, <2>2
<1>6. Local(r)'
  <2>1. CASE Finish(r)
    BY <2>1 DEF Inv, TypeOK, Finish, Local
  <2>2. CASE WriteFails(r) \/ AdvanceFails(r)
    BY <1>1, <2>2 DEF Inv, TypeOK, Locals, Local, WriteFails, AdvanceFails, To
  <2>3. CASE CopyPart(r) \/ PublishLook(r)
    BY <1>1, <2>3 DEF Inv, TypeOK, Locals, Local, CopyPart, PublishLook, Ready, To
  <2>4. CASE FinalizeFails(r)
    BY <1>1, <2>4 DEF Inv, TypeOK, Shapes, Shape, Creating, Locals, Local, FinalizeFails, Stop, To
  <2>5. CASE DeleteRecord(r)
    BY <1>1, <2>5 DEF Inv, TypeOK, Locals, Local, DeleteRecord, To
  <2> QED BY <2>1, <2>2, <2>3, <2>4, <2>5 DEF PruneEnd, CreateRefused, CancelRecord, PatchRefused,
                                             CancelRefused
<1> QED BY <1>1, <1>2, <1>5, <1>6, QuietData

LEMMA CreateData ==
  ASSUME Inv, NEW r \in Requests, CreatePart(r) \/ CreateRecord(r) \/ CreateFails(r)
  PROVE  Data'
<1> USE DEF records, partials, history, targets
<1> DEFINE u == job[r]
<1>1. u \in Uploads /\ u # None /\ pc[r] # "lock"
  BY DEF Inv, TypeOK, Shapes, Shape, Creating, CreatePart, CreateRecord, CreateFails
<1>2. Finish(r) \/ \E p \in Steps : To(r, p)
  BY DEF CreatePart, CreateRecord, CreateFails, Steps
<1>3. \A v \in Uploads \ {u} : Same(v)
  BY <1>1 DEF Inv, TypeOK, CreatePart, CreateRecord, CreateFails, RemovePart, Fill, Same
<1>4. \A q \in Requests \ {r} : Local(q)'
  BY <1>1, <1>2, <1>3, ToFrame, OthersFrame
<1>5. UNCHANGED <<offset, expired, ended, owner, content>>
  BY DEF CreatePart, CreateRecord, CreateFails
<1>6. PublishedWhole'
  BY <1>5 DEF Inv, PublishedWhole
<1>7. CASE CreatePart(r)
  <2>1. u \notin used /\ u \notin parts /\ body[u] = <<>> /\ offset[u] = 0 /\ synced[u] \in Nat
    BY <1>1, <1>7 DEF Inv, TypeOK, Shapes, Shape, Creating, CreatePart, Stored
  <2>2. Stored'
    BY <1>1, <1>7, <2>1 DEF Inv, TypeOK, Stored, CreatePart
  <2>3. Local(r)'
    BY <1>1, <1>7, <2>1 DEF Inv, TypeOK, Local, CreatePart, To
  <2>4. LiveParts'
    BY <1>7 DEF Inv, LiveParts, Open, CreatePart
  <2> QED BY <1>4, <1>6, <2>2, <2>3, <2>4 DEF Data, Locals
<1>8. CASE CreateRecord(r)
  <2>1. u \in parts /\ body[u] = <<>> /\ offset[u] = 0
    BY <1>8 DEF Inv, Locals, Local, CreateRecord
  <2>2. Stored'
    BY <1>8 DEF Inv, Stored, CreateRecord
  <2>3. Local(r)'
    <3>1. CASE Length[u] # 0
      BY <1>8, <3>1 DEF Inv, TypeOK, Local, CreateRecord, Finish
    <3>2. CASE Length[u] = 0
      <4>1. To(r, "finalize") /\ UNCHANGED body
        BY <1>8, <3>2 DEF CreateRecord
      <4>2. pc'[r] = "finalize" /\ job'[r] = u /\ mode'[r] = "create"
        BY <1>8, <4>1 DEF Inv, TypeOK, Shapes, Shape, CreateRecord, To
      <4>3. Len(body'[u]) = 0 /\ offset'[u] = 0
        BY <1>5, <2>1, <4>1, EmptyRun
      <4> QED BY <3>2, <4>2, <4>3 DEF Local
    <3> QED BY <3>1, <3>2
  <2>4. LiveParts'
    BY <1>8, <2>1 DEF Inv, LiveParts, Open, CreateRecord
  <2> QED BY <1>4, <1>6, <2>2, <2>3, <2>4 DEF Data, Locals
<1>9. CASE CreateFails(r)
  <2>1. u \notin live
    BY <1>9 DEF Inv, Locals, Local, CreateFails
  <2>2. Stored'
    BY <1>1, <1>9, EmptyRun DEF Inv, TypeOK, Stored, CreateFails, RemovePart, Fill
  <2>3. Local(r)'
    BY <1>9 DEF Inv, TypeOK, Local, CreateFails, Finish
  <2>4. LiveParts'
    BY <1>9, <2>1 DEF Inv, LiveParts, Open, CreateFails, RemovePart
  <2> QED BY <1>4, <1>6, <2>2, <2>3, <2>4 DEF Data, Locals
<1> QED BY <1>7, <1>8, <1>9

LEMMA PatchData ==
  ASSUME Inv, NEW r \in Requests, Write(r) \/ WriteDone(r) \/ Undo(r) \/ Advance(r)
  PROVE  Data'
<1> USE DEF records, partials, history, targets, requests, places
<1> DEFINE u == job[r]
<1>1. pc[r] \in {"write", "undo", "advance"}
  BY DEF Write, WriteDone, Undo, Advance
<1>2. u \in Uploads /\ u # None /\ pc[r] # "lock" /\ mode[r] = "patch"
  BY <1>1 DEF Inv, TypeOK, Shapes, Shape
<1>3. \A q \in Requests \ {r} : Still(q)
  BY DEF Inv, TypeOK, Write, WriteDone, Undo, Advance, To, Finish, Still
<1>4. \A v \in Uploads \ {u} : Same(v)
  BY <1>2 DEF Inv, TypeOK, Write, WriteDone, Undo, Advance, Fill, Same
<1>5. \A q \in Requests \ {r} : Local(q)'
  BY <1>2, <1>3, <1>4, OthersFrame
<1>6. UNCHANGED <<used, live, expired, ended, dropped, parts, owner, content>>
  BY DEF Write, WriteDone, Undo, Advance
<1>7. PublishedWhole' /\ LiveParts'
  BY <1>6 DEF Inv, PublishedWhole, LiveParts, Open
<1>8. /\ u \in parts /\ base[r] = offset[u] /\ offset[u] \in Nat /\ synced[u] \in Nat
      /\ body[u] \in Seq(Nat) /\ body[u] = Run(Len(body[u])) /\ Len(body[u]) \in Nat
      /\ offset[u] <= synced[u] /\ synced[u] <= Len(body[u])
  BY <1>1, <1>2 DEF Inv, TypeOK, Stored, Locals, Local
<1>9. ASSUME Stored', Local(r)'
      PROVE  Data'
  BY <1>5, <1>7, <1>9 DEF Data, Locals
<1>10. CASE Write(r)
  <2>1. from[r] + Written(r) + 1 = Len(body[u]) + 1
    BY <1>8, <1>10 DEF Inv, Locals, Local, Write, Written
  <2>2. body' = [body EXCEPT ![u] = Append(body[u], Len(body[u]) + 1)] /\ UNCHANGED <<offset, synced>>
    BY <1>10, <2>1 DEF Write
  <2>3. body'[u] = Append(body[u], Len(body[u]) + 1)
    BY <1>2, <2>2 DEF Inv, TypeOK
  <2>4. Len(body[u]) + 1 \in Nat
    BY <1>8
  <2>5. body'[u] = Run(Len(body'[u])) /\ Len(body'[u]) = Len(body[u]) + 1
    BY <1>8, <2>3, <2>4, GrowRun
  <2>6. Stored'
    <3>1. ASSUME NEW v \in Uploads, v # u
          PROVE  body'[v] = body[v] /\ synced'[v] = synced[v] /\ offset'[v] = offset[v]
      BY <2>2, <3>1 DEF Inv, TypeOK
    <3>2. synced'[u] = synced[u] /\ offset'[u] = offset[u]
      BY <2>2
    <3> QED BY <1>2, <1>6, <1>8, <2>5, <3>1, <3>2 DEF Inv, Stored
  <2>7. Local(r)'
    BY <1>6, <1>8, <1>10, <2>2 DEF Inv, Locals, Local, Write
  <2> QED BY <1>9, <2>6, <2>7
<1>11. CASE WriteDone(r)
  <2>1. synced' = [synced EXCEPT ![u] = Len(body[u])] /\ UNCHANGED <<offset, body>>
    BY <1>11 DEF WriteDone
  <2>2. Stored'
    BY <1>2, <1>6, <1>8, <2>1 DEF Inv, TypeOK, Stored
  <2>3. Local(r)'
    BY <1>2, <1>6, <1>8, <1>11, <2>1 DEF Inv, TypeOK, Local, WriteDone, To
  <2> QED BY <1>9, <2>2, <2>3
<1>12. CASE Undo(r)
  <2>1. /\ body' = [body EXCEPT ![u] = SubSeq(body[u], 1, offset[u])]
        /\ synced' = [synced EXCEPT ![u] = offset[u]]
        /\ UNCHANGED offset
    BY <1>8, <1>12 DEF Undo, Fill
  <2>2. body'[u] = SubSeq(body[u], 1, offset[u]) /\ synced'[u] = offset[u] /\ offset'[u] = offset[u]
    BY <1>2, <2>1 DEF Inv, TypeOK
  <2>3. offset[u] \in 0..Len(body[u])
    BY <1>8
  <2>4. body'[u] = Run(Len(body'[u])) /\ Len(body'[u]) = offset[u]
    BY <1>8, <2>2, <2>3, CutRun
  <2>5. Stored'
    <3>1. ASSUME NEW v \in Uploads, v # u
          PROVE  body'[v] = body[v] /\ synced'[v] = synced[v] /\ offset'[v] = offset[v]
      BY <2>1, <3>1 DEF Inv, TypeOK
    <3>2. synced'[u] <= Len(body'[u]) /\ offset'[u] <= synced'[u]
      BY <1>8, <2>4, <2>2
    <3>3. u \in parts' /\ u \in used'
      BY <1>6, <1>8 DEF Inv, TypeOK
    <3> QED BY <1>6, <2>4, <3>1, <3>2, <3>3 DEF Inv, Stored
  <2>6. Local(r)'
    BY <1>12 DEF Inv, TypeOK, Local, Undo, Finish
  <2> QED BY <1>9, <2>5, <2>6
<1>13. CASE Advance(r)
  <2>1. offset' = [offset EXCEPT ![u] = Len(body[u])] /\ UNCHANGED <<body, synced>>
    BY <1>13 DEF Advance
  <2>2. Len(body[u]) = synced[u] /\ u \in used
    BY <1>6, <1>13 DEF Inv, TypeOK, Locals, Local, Advance
  <2>3. Stored'
    BY <1>2, <1>6, <1>8, <2>1, <2>2 DEF Inv, TypeOK, Stored
  <2>4. Local(r)'
    BY <1>13 DEF Inv, TypeOK, Local, Advance, Finish
  <2> QED BY <1>9, <2>3, <2>4
<1> QED BY <1>10, <1>11, <1>12, <1>13

\* Removing the partial file of an upload that is not to be continued.
LEMMA RemoveData ==
  ASSUME Inv, NEW u \in Uploads, RemovePart(u),
         UNCHANGED <<used, live, offset, expired>>,
         ended' \in {ended, ended \cup {u}}, dropped \ {u} \subseteq dropped',
         u \notin Open'
  PROVE  /\ Stored' /\ LiveParts'
         /\ body'[u] = <<>> /\ u \notin parts'
         /\ \A v \in Uploads \ {u} : Same(v)
<1> USE DEF RemovePart, Fill
<1>1. body'[u] = <<>> /\ synced'[u] = 0 /\ u \notin parts'
  BY DEF Inv, TypeOK
<1>2. ASSUME NEW v \in Uploads \ {u}
      PROVE  body'[v] = body[v] /\ synced'[v] = synced[v] /\ (v \in parts <=> v \in parts')
  BY DEF Inv, TypeOK
<1>3. Stored'
  BY <1>1, <1>2, EmptyRun DEF Inv, Stored
<1>4. LiveParts'
  BY DEF Inv, LiveParts, Open
<1>5. \A v \in Uploads \ {u} : Same(v)
  BY <1>2 DEF Same
<1> QED BY <1>1, <1>3, <1>4, <1>5

\* Nobody minds who waits for the lock, or creates an upload of length 0.
LEMMA RemoveFrame ==
  ASSUME Inv, NEW u \in Uploads, NEW q \in Requests, Still(q),
         UNCHANGED offset, ended \subseteq ended', body'[u] = <<>>,
         \A v \in Uploads \ {u} : Same(v),
         job[q] = u => pc[q] = "lock" \/ (Creating(q) /\ pc[q] # "store")
  PROVE  Local(q)'
<1>1. CASE pc[q] \in {"lock", "idle", "clean"}
  BY <1>1, LocalFrame
<1>2. CASE pc[q] \notin {"lock", "idle", "clean"} /\ job[q] # u
  <2>1. job[q] \in Uploads
    BY <1>2 DEF Inv, Shapes, Shape, TypeOK
  <2> QED BY <1>2, <2>1, LocalFrame
<1>3. CASE pc[q] \notin {"lock", "idle", "clean"} /\ job[q] = u
  <2>1. mode[q] = "create" /\ pc[q] \in {"finalize", "commit", "rename", "delete", "remove"}
    BY <1>3 DEF Creating, Inv, Shapes, Shape
  <2>2. mode'[q] = "create" /\ pc'[q] = pc[q] /\ job'[q] = u
    BY <1>3, <2>1 DEF Still
  <2>3. CASE pc[q] \in {"finalize", "commit", "rename"}
    <3>1. Length[u] = 0 /\ offset'[u] = 0
      BY <1>3, <2>1, <2>3 DEF Inv, Locals, Local
    <3>2. Len(body'[u]) = 0
      BY EmptyRun
    <3> QED BY <2>2, <2>3, <3>1, <3>2 DEF Local
  <2>4. CASE pc[q] \in {"delete", "remove"}
    <3>1. u \in ended'
      BY <1>3, <2>4 DEF Inv, Locals, Local
    <3> QED BY <2>2, <2>4, <3>1 DEF Local
  <2> QED BY <2>1, <2>3, <2>4
<1> QED BY <1>1, <1>2, <1>3

\* Nobody but r works on job[r] once r has left "lock".
LEMMA Alone ==
  ASSUME Inv, NEW r \in Requests, pc[r] # "lock", job[r] # None, NEW q \in Requests \ {r}
  PROVE  job[q] = job[r] => pc[q] = "lock"
BY DEF Inv, Apart

LEMMA PublishData ==
  ASSUME Inv, NEW r \in Requests, Publish(r) \/ PublishRename(r) \/ Discard(r)
  PROVE  Data'
<1> USE DEF records, partials, history, targets
<1> DEFINE u == job[r]
<1>1. pc[r] \in {"finalize", "commit", "rename", "remove"}
  BY DEF Publish, PublishRename, Ready, Discard
<1>2. u \in Uploads /\ u # None /\ pc[r] # "lock"
  BY <1>1 DEF Inv, TypeOK, Shapes, Shape
<1>3. \A q \in Requests \ {r} : Still(q)
  <2>1. Finish(r) \/ \E p \in Steps : To(r, p)
    BY DEF Publish, PublishRename, Place, Stop, Discard, Steps
  <2> QED BY <2>1, ToFrame
<1>4. UNCHANGED <<used, live, offset, expired, dropped>>
  BY DEF Publish, PublishRename, Discard
<1>5. ended' \in {ended, ended \cup {u}}
  BY DEF Publish, PublishRename, Discard, Place, Stop
<1>6. Local(r)'
  <2>1. CASE Discard(r)
    BY <2>1 DEF Inv, TypeOK, Discard, Finish, Local
  <2>2. ASSUME To(r, "delete"), u \in ended'
        PROVE  Local(r)'
    <3>1. pc'[r] = "delete" /\ job'[r] = u
      BY <2>2 DEF To, Inv, TypeOK
    <3> QED BY <2>2, <3>1 DEF Local
  <2>3. ASSUME ~Discard(r), To(r, "undo"), ~Creating(r), UNCHANGED partials
        PROVE  Local(r)'
    <3>1. pc'[r] = "undo" /\ job'[r] = u /\ base'[r] = base[r]
      BY <2>3 DEF To, Inv, TypeOK
    <3>2. pc[r] \in {"finalize", "commit", "rename"} /\ mode[r] = "patch"
      BY <1>1, <2>3 DEF Publish, PublishRename, Ready, Creating, Inv, Shapes, Shape
    <3>3. u \in parts /\ base[r] = offset[u]
      BY <3>2 DEF Inv, Locals, Local
    <3> QED BY <1>4, <2>3, <3>1, <3>3 DEF Local
  <2>4. CASE Publish(r) \/ PublishRename(r)
    <3>1. ~Discard(r)
      BY <2>4 DEF Publish, PublishRename, Ready, Discard
    <3>2. Place(r)
      BY <2>4 DEF Publish, PublishRename
    <3> QED BY <2>2, <2>3, <3>1, <3>2 DEF Place, Stop
  <2> QED BY <2>1, <2>4
<1>7. ASSUME RemovePart(u), u \in ended'
      PROVE  Stored' /\ Locals' /\ LiveParts'
  <2>1. Stored' /\ LiveParts' /\ body'[u] = <<>> /\ \A v \in Uploads \ {u} : Same(v)
    <3>1. u \notin Open' /\ dropped \ {u} \subseteq dropped'
      BY <1>4, <1>7 DEF Open
    <3> QED BY <1>2, <1>4, <1>5, <1>7, <3>1, RemoveData
  <2>2. ended \subseteq ended'
    BY <1>5
  <2>3. ASSUME NEW q \in Requests \ {r}
        PROVE  Local(q)'
    <3>1. job[q] = u => pc[q] = "lock"
      BY <1>2, Alone
    <3> QED BY <1>2, <1>3, <1>4, <2>1, <2>2, <3>1, RemoveFrame
  <2> QED BY <1>6, <2>1, <2>3 DEF Locals
<1>8. ASSUME UNCHANGED partials
      PROVE  Stored' /\ Locals' /\ LiveParts'
  <2>1. Stored' /\ LiveParts'
    BY <1>4, <1>5, <1>8 DEF Inv, Stored, LiveParts, Open
  <2>2. \A v \in Uploads \ {u} : Same(v)
    BY <1>4, <1>5, <1>8 DEF Same
  <2>3. \A q \in Requests \ {r} : Local(q)'
    BY <1>2, <1>3, <2>2, OthersFrame
  <2> QED BY <1>6, <2>1, <2>3 DEF Locals
<1>9. Stored' /\ Locals' /\ LiveParts'
  <2>1. CASE Discard(r)
    BY <1>7, <2>1 DEF Discard, Inv, Locals, Local
  <2>2. CASE Publish(r) \/ PublishRename(r)
    BY <1>7, <1>8, <2>2 DEF Publish, PublishRename, Place
  <2> QED BY <2>1, <2>2
<1>10. PublishedWhole'
  <2>1. CASE Discard(r)
    BY <2>1 DEF Discard, Inv, PublishedWhole
  <2>2. CASE Publish(r) \/ PublishRename(r)
    <3>1. body[u] = Whole(u)
      BY <1>2, <2>2 DEF Inv, Locals, Local, Stored, Publish, PublishRename, Ready, Run, Whole
    <3>2. /\ owner' = [owner EXCEPT ![Target[u]] = u] /\ Target[u] \in Paths
          /\ content' = [content EXCEPT ![Target[u]] = body[u]]
      BY <1>2, <2>2 DEF Publish, PublishRename, Place
    <3> QED BY <3>1, <3>2 DEF Inv, TypeOK, PublishedWhole
  <2> QED BY <2>1, <2>2
<1> QED BY <1>9, <1>10 DEF Data

LEMMA LockData ==
  ASSUME Inv, NEW r \in Requests, PatchGone(r) \/ PatchLocked(r) \/ CancelLocked(r)
  PROVE  Data'
<1> USE DEF records, partials, history, targets
<1> DEFINE u == job[r]
<1>1. u \in Uploads /\ u # None /\ pc[r] = "lock" /\ u \in used /\ Unlocked(u)
  BY DEF Inv, TypeOK, Shapes, Shape, PatchGone, PatchLocked, CancelLocked
<1>2. \A q \in Requests \ {r} : Still(q)
  BY DEF Inv, TypeOK, PatchGone, PatchLocked, CancelLocked, Finish, To, Still
<1>3. ASSUME NEW q \in Requests \ {r}
      PROVE  job[q] = u => pc[q] = "lock"
  BY <1>1 DEF Inv, Shapes, Shape, Apart, Creating, Unlocked, Holds, PatchGone, PatchLocked, CancelLocked
<1>4. UNCHANGED <<used, live, offset, expired, owner, content>>
  BY DEF PatchGone, PatchLocked, CancelLocked
<1>5. PublishedWhole'
  BY <1>4 DEF Inv, PublishedWhole
<1>6. CASE PatchGone(r) \/ CancelLocked(r)
  <2>1. /\ RemovePart(u) /\ ended' \in {ended, ended \cup {u}}
        /\ dropped \ {u} \subseteq dropped' /\ u \notin Open'
    BY <1>6 DEF PatchGone, CancelLocked, Usable, Open
  <2>2. /\ Stored' /\ LiveParts' /\ body'[u] = <<>> /\ u \notin parts'
        /\ \A v \in Uploads \ {u} : Same(v)
    BY <1>1, <1>4, <2>1, RemoveData
  <2>3. ASSUME NEW q \in Requests \ {r}
        PROVE  Local(q)'
    <3>1. ended \subseteq ended'
      BY <2>1
    <3> QED BY <1>1, <1>2, <1>3, <1>4, <2>2, <3>1, RemoveFrame
  <2>4. Local(r)'
    <3>1. CASE PatchGone(r)
      BY <3>1 DEF Inv, TypeOK, PatchGone, Finish, Local
    <3>2. CASE CancelLocked(r)
      <4>1. pc'[r] = "drop" /\ job'[r] = u /\ u \in ended'
        BY <3>2 DEF Inv, TypeOK, CancelLocked, To
      <4> QED BY <2>2, <4>1 DEF Local
    <3> QED BY <1>6, <3>1, <3>2
  <2> QED BY <1>5, <2>2, <2>3, <2>4 DEF Data, Locals
<1>7. CASE PatchLocked(r)
  <2>1. UNCHANGED <<parts, body, synced, ended, dropped>>
    BY <1>7 DEF PatchLocked
  <2>2. Stored' /\ LiveParts'
    BY <1>4, <2>1 DEF Inv, Stored, LiveParts, Open
  <2>3. ASSUME NEW q \in Requests \ {r}
        PROVE  Local(q)'
    <3>1. Same(job[q])
      BY <1>4, <2>1 DEF Same
    <3> QED BY <1>2, <3>1, LocalFrame
  <2>4. Local(r)'
    BY <1>4, <1>7, <2>1 DEF Inv, TypeOK, PatchLocked, Consistent, Local
  <2> QED BY <1>5, <2>2, <2>3, <2>4 DEF Data, Locals
<1> QED BY <1>6, <1>7

LEMMA PrunePartData ==
  ASSUME Inv, NEW r \in Requests, NEW u \in todo[r], PrunePart(r, u)
  PROVE  Data'
<1> USE DEF records, partials, history, targets, places
<1>1. u \in Uploads /\ u \in expired /\ u \notin live
  BY DEF Inv, TypeOK, Shapes, Shape
<1>2. RemovePart(u) /\ UNCHANGED <<used, live, offset, expired, ended, dropped, owner, content>>
  BY DEF PrunePart
<1>3. Stored' /\ LiveParts' /\ body'[u] = <<>> /\ \A v \in Uploads \ {u} : Same(v)
  <2>1. u \notin Open'
    BY <1>1, <1>2 DEF Open
  <2> QED BY <1>1, <1>2, <2>1, RemoveData
<1>4. ASSUME NEW q \in Requests
      PROVE  Local(q)'
  <2>1. Still(q)
    BY DEF PrunePart, Still
  <2>2. job[q] = u => pc[q] = "lock" \/ (Creating(q) /\ pc[q] # "store")
    BY <1>1 DEF Inv, Shapes, Shape, Locals, Local, Creating, PrunePart, Unlocked, Holds
  <2> QED BY <1>1, <1>2, <1>3, <2>1, <2>2, RemoveFrame
<1>5. PublishedWhole'
  BY <1>2 DEF Inv, PublishedWhole
<1> QED BY <1>3, <1>4, <1>5 DEF Data, Locals

LEMMA OutsideData ==
  ASSUME Inv, \/ \E u \in Uploads : Expire(u)
              \/ \E p \in Paths : Others(p)
              \/ Crash \/ Restart \/ UNCHANGED vars
  PROVE  Data'
<1> USE DEF records, partials, history, targets, requests, places
<1>1. ASSUME NEW u \in Uploads, Expire(u)
      PROVE  Data'
  <2>1. Stored' /\ LiveParts' /\ PublishedWhole'
    BY <1>1 DEF Expire, Inv, Stored, LiveParts, Open, PublishedWhole
  <2>2. \A v : Same(v)
    BY <1>1 DEF Expire, Same
  <2>3. \A q \in Requests : Still(q)
    BY <1>1 DEF Expire, Still
  <2> QED BY <2>1, <2>2, <2>3, LocalFrame DEF Data, Locals
<1>2. ASSUME NEW p \in Paths, Others(p)
      PROVE  Data'
  <2>1. Stored' /\ Locals' /\ LiveParts'
    BY <1>2 DEF Others, Inv, Stored, Locals, Local, LiveParts, Open
  <2>2. PublishedWhole'
    BY <1>2 DEF Others, Inv, TypeOK, PublishedWhole
  <2> QED BY <2>1, <2>2 DEF Data
<1>3. CASE Crash
  <2>1. PICK n \in [Uploads -> UNION {0..Len(body[u]) : u \in Uploads}] :
          /\ \A u \in Uploads : synced[u] <= n[u] /\ n[u] <= Len(body[u])
          /\ body' = [u \in Uploads |-> SubSeq(body[u], 1, n[u])]
          /\ synced' = n
    BY <1>3 DEF Crash
  <2>2. ASSUME NEW u \in Uploads
        PROVE  /\ body'[u] = Run(Len(body'[u])) /\ synced'[u] <= Len(body'[u])
               /\ u \in parts => offset[u] <= synced'[u]
               /\ u \notin parts => body'[u] = <<>>
    <3>1. /\ n[u] \in 0..Len(body[u]) /\ synced[u] <= n[u] /\ body[u] \in Seq(Nat)
          /\ body[u] = Run(Len(body[u])) /\ synced[u] \in Nat /\ offset[u] \in Nat
      BY <2>1 DEF Inv, TypeOK, Stored
    <3>2. body'[u] = SubSeq(body[u], 1, n[u]) /\ synced'[u] = n[u]
      BY <2>1
    <3>3. body'[u] = Run(n[u]) /\ Len(body'[u]) = n[u]
      BY <3>1, <3>2, CutRun
    <3>4. u \in parts => offset[u] <= n[u]
      BY <3>1 DEF Inv, Stored
    <3>5. u \notin parts => n[u] = 0
      BY <3>1, EmptyRun DEF Inv, Stored
    <3>6. u \notin parts => body'[u] = <<>>
      BY <3>3, <3>5, EmptyRun
    <3>7. body'[u] = Run(Len(body'[u]))
      BY <3>3
    <3>8. synced'[u] <= Len(body'[u]) /\ (u \in parts => offset[u] <= synced'[u])
      BY <3>1, <3>2, <3>3, <3>4
    <3> QED BY <3>6, <3>7, <3>8
  <2>3. Stored'
    BY <1>3, <2>2 DEF Inv, Stored, Crash
  <2>4. Locals'
    BY <1>3 DEF Locals, Local, Crash
  <2>5. LiveParts' /\ PublishedWhole'
    BY <1>3 DEF Inv, LiveParts, Open, PublishedWhole, Crash
  <2> QED BY <2>3, <2>4, <2>5 DEF Data
<1>4. CASE Restart
  <2>1. ASSUME NEW u \in Uploads
        PROVE  /\ body'[u] = Run(Len(body'[u])) /\ synced'[u] = Len(body'[u])
               /\ u \in Kept => Len(body'[u]) = offset[u]
               /\ u \notin Kept => body'[u] = <<>>
    <3>1. body'[u] = IF u \in Kept THEN SubSeq(body[u], 1, offset[u]) ELSE <<>>
      BY <1>4 DEF Restart
    <3>2. synced'[u] = Len(body'[u])
      BY <1>4 DEF Restart
    <3>3. CASE u \in Kept
      <4>1. /\ offset[u] \in 0..Len(body[u]) /\ body[u] \in Seq(Nat)
            /\ body[u] = Run(Len(body[u]))
        BY <3>3 DEF Inv, TypeOK, Stored, Kept
      <4> QED BY <3>1, <3>2, <3>3, <4>1, CutRun
    <3>4. CASE u \notin Kept
      BY <3>1, <3>2, <3>4, EmptyRun
    <3> QED BY <3>3, <3>4
  <2>2. \A u \in Uploads : offset[u] \in Nat /\ Len(body'[u]) \in Nat
    BY OutsideControl, <1>4 DEF Control, Inv, TypeOK
  <2>3. UNCHANGED <<used, offset, expired, ended, owner, content>> /\ parts' = Kept /\ live' = Kept
    BY <1>4 DEF Restart
  <2>4. Stored'
    BY <2>1, <2>2, <2>3 DEF Inv, Stored
  <2>5. Locals'
    BY <1>4 DEF Inv, Shapes, Locals, Local, Restart
  <2>6. LiveParts' /\ PublishedWhole'
    BY <2>3 DEF Inv, LiveParts, Open, PublishedWhole
  <2> QED BY <2>4, <2>5, <2>6 DEF Data
<1>5. CASE UNCHANGED vars
  BY <1>5 DEF vars, Data, Inv, Stored, Locals, Local, LiveParts, Open, PublishedWhole
<1> QED BY <1>1, <1>2, <1>3, <1>4, <1>5

-----------------------------------------------------------------------------
(* What becomes of a partial file without a record *)

\* Steps that change no list and neither add partial files nor drop records.
LEMMA TendedFrame ==
  ASSUME Inv, up' => up,
         parts' \subseteq parts, live \subseteq live', UNCHANGED todo,
         \A q \in Requests : pc[q] \in {"store", "remove"} =>
            \/ job[q] \in live' \/ job[q] \notin parts'
            \/ pc'[q] = pc[q] /\ job'[q] = job[q]
  PROVE  Tended'
<1> SUFFICES ASSUME up', NEW u \in parts' \ live'
             PROVE  CaredFor(u)'
  BY DEF Tended
<1>1. PICK q \in Requests : u \in todo[q] \/ (job[q] = u /\ pc[q] \in {"store", "remove"})
  BY DEF Inv, Tended, CaredFor
<1>2. CASE u \in todo[q]
  BY <1>2 DEF CaredFor
<1>3. CASE job[q] = u /\ pc[q] \in {"store", "remove"}
  <2>1. pc'[q] = pc[q] /\ job'[q] = job[q]
    BY <1>3
  <2> QED BY <1>3, <2>1 DEF CaredFor
<1> QED BY <1>1, <1>2, <1>3

LEMMA BeginTended ==
  ASSUME Inv, NEW r \in Requests, Request(r)
  PROVE  Tended'
<1> USE DEF records, partials, history, targets
<1>1. UNCHANGED <<up, parts>> /\ pc[r] = "idle" /\ todo[r] = {}
  BY DEF Request, Prune, Create, Cancel, Patch, Start, Inv, Shapes, Shape
<1>2. \A q \in Requests : pc[q] \in {"store", "remove"} => pc'[q] = pc[q] /\ job'[q] = job[q]
  BY DEF Request, Prune, Create, Cancel, Patch, Start, Inv, TypeOK
<1>3. CASE UNCHANGED <<live, todo>>
  BY <1>1, <1>2, <1>3, TendedFrame
<1>4. CASE PruneRecords(r)
  <2> SUFFICES ASSUME up', NEW u \in parts' \ live'
               PROVE  CaredFor(u)'
    BY DEF Tended
  <2>1. CASE u \in live
    BY <1>4, <2>1 DEF PruneRecords, Inv, TypeOK, CaredFor
  <2>2. CASE u \notin live
    <3>1. PICK q \in Requests : u \in todo[q] \/ (job[q] = u /\ pc[q] \in {"store", "remove"})
      BY <1>1, <2>2 DEF Inv, Tended, CaredFor
    <3>2. q # r
      BY <1>1, <3>1
    <3> QED BY <1>2, <1>4, <3>1, <3>2 DEF PruneRecords, Inv, TypeOK, CaredFor
  <2> QED BY <2>1, <2>2
<1> QED BY <1>3, <1>4 DEF Request, Prune, Create, Cancel, Patch

LEMMA StepTended ==
  ASSUME Inv, NEW r \in Requests, Write(r) \/ Step(r) \/ LockStep(r)
  PROVE  Tended'
<1> USE DEF records, partials, history, targets, requests, places
<1> DEFINE u == job[r]
<1>1. CASE Write(r)
  BY <1>1, TendedFrame DEF Write
<1>2. CASE CreatePart(r)
  <2> SUFFICES ASSUME up', NEW v \in parts' \ live'
               PROVE  CaredFor(v)'
    BY DEF Tended
  <2>1. CASE v = u
    BY <1>2, <2>1 DEF Inv, TypeOK, CreatePart, To, CaredFor
  <2>2. CASE v # u
    <3>1. PICK q \in Requests : v \in todo[q] \/ (job[q] = v /\ pc[q] \in {"store", "remove"})
      BY <1>2, <2>2 DEF Inv, Tended, CreatePart, CaredFor
    <3> QED BY <1>2, <2>2, <3>1 DEF CreatePart, To, Inv, TypeOK, CaredFor
  <2> QED BY <2>1, <2>2
<1>3. CASE DeleteRecord(r)
  <2>1. pc'[r] = "remove" /\ job' = job /\ \A q \in Requests \ {r} : pc'[q] = pc[q]
    BY <1>3 DEF DeleteRecord, To, Inv, TypeOK
  <2> SUFFICES ASSUME up', NEW v \in parts' \ live'
               PROVE  CaredFor(v)'
    BY DEF Tended
  <2>2. CASE v = u
    BY <2>1, <2>2 DEF CaredFor
  <2>3. CASE v # u
    <3>1. PICK q \in Requests : v \in todo[q] \/ (job[q] = v /\ pc[q] \in {"store", "remove"})
      BY <1>3, <2>3 DEF Inv, Tended, DeleteRecord, CaredFor
    <3> QED BY <1>3, <2>1, <2>3, <3>1 DEF DeleteRecord, CaredFor
  <2> QED BY <2>2, <2>3
<1>4. CASE CancelRecord(r)
  <2>1. u \notin parts
    BY <1>4 DEF Inv, Locals, Local, CancelRecord
  <2>2. \A q \in Requests \ {r} : pc'[q] = pc[q] /\ job'[q] = job[q]
    BY <1>4 DEF CancelRecord, Finish, Inv, TypeOK
  <2> SUFFICES ASSUME up', NEW v \in parts' \ live'
               PROVE  CaredFor(v)'
    BY DEF Tended
  <2>3. PICK q \in Requests : v \in todo[q] \/ (job[q] = v /\ pc[q] \in {"store", "remove"})
    BY <1>4, <2>1 DEF Inv, Tended, CancelRecord, CaredFor
  <2> QED BY <1>4, <2>1, <2>2, <2>3 DEF CancelRecord, CaredFor
<1>5. ASSUME NEW v \in todo[r], PrunePart(r, v)
      PROVE  Tended'
  <2> SUFFICES ASSUME up', NEW w \in parts' \ live'
               PROVE  CaredFor(w)'
    BY DEF Tended
  <2>1. w # v
    BY <1>5 DEF PrunePart, RemovePart
  <2>2. PICK q \in Requests : w \in todo[q] \/ (job[q] = w /\ pc[q] \in {"store", "remove"})
    BY <1>5 DEF Inv, Tended, PrunePart, RemovePart, CaredFor
  <2> QED BY <1>5, <2>1, <2>2 DEF PrunePart, Inv, TypeOK, CaredFor
<1>6. CASE CreateRecord(r) \/ CreateFails(r) \/ Discard(r)
  <2>1. UNCHANGED <<up, todo>> /\ parts' \subseteq parts /\ live \subseteq live'
    BY <1>6 DEF CreateRecord, CreateFails, Discard, RemovePart
  <2>2. u \in live' \/ u \notin parts'
    BY <1>6 DEF CreateRecord, CreateFails, Discard, RemovePart
  <2>3. \A q \in Requests \ {r} : pc'[q] = pc[q] /\ job'[q] = job[q]
    BY <1>6 DEF CreateRecord, CreateFails, Discard, Finish, To, Inv, TypeOK
  <2> QED BY <2>1, <2>2, <2>3, TendedFrame
<1>7. CASE \/ PruneEnd(r) \/ CreateRefused(r) \/ WriteDone(r) \/ WriteFails(r) \/ Undo(r)
           \/ Advance(r) \/ AdvanceFails(r) \/ Publish(r) \/ PublishLook(r) \/ PublishRename(r)
           \/ CopyPart(r) \/ FinalizeFails(r)
  <2>1. UNCHANGED <<up, todo, live>> /\ parts' \subseteq parts
    BY <1>7 DEF PruneEnd, CreateRefused, WriteDone, WriteFails, Undo, Advance, AdvanceFails,
                Publish, PublishLook, PublishRename, Ready, Place, Stop, CopyPart, FinalizeFails, RemovePart, Fill
  <2>2. pc[r] \notin {"store", "remove"}
    BY <1>7 DEF PruneEnd, CreateRefused, WriteDone, WriteFails, Undo, Advance, AdvanceFails,
                Publish, PublishLook, PublishRename, Ready, Place, Stop, CopyPart, FinalizeFails
  <2>3. Finish(r) \/ \E p \in Steps : To(r, p)
    BY <1>7 DEF PruneEnd, CreateRefused, WriteDone, WriteFails, Undo, Advance, AdvanceFails,
                Publish, PublishLook, PublishRename, Ready, Place, Stop, CopyPart, FinalizeFails, Steps
  <2>4. \A q \in Requests \ {r} : pc'[q] = pc[q] /\ job'[q] = job[q]
    BY <2>3, ToFrame DEF Still
  <2> QED BY <2>1, <2>2, <2>4, TendedFrame
<1>8. CASE PatchGone(r) \/ PatchRefused(r) \/ PatchLocked(r) \/ CancelRefused(r) \/ CancelLocked(r)
  <2>1. UNCHANGED <<up, todo, live>> /\ parts' \subseteq parts /\ pc[r] = "lock"
    BY <1>8 DEF PatchGone, PatchRefused, PatchLocked, CancelRefused, CancelLocked, RemovePart
  <2>2. \A q \in Requests \ {r} : pc'[q] = pc[q] /\ job'[q] = job[q]
    BY <1>8 DEF PatchGone, PatchRefused, PatchLocked, CancelRefused, CancelLocked, Finish, To,
                Inv, TypeOK
  <2> QED BY <2>1, <2>2, TendedFrame
<1> QED BY <1>1, <1>2, <1>3, <1>4, <1>5, <1>6, <1>7, <1>8 DEF Step, LockStep

LEMMA OutsideTended ==
  ASSUME Inv, \/ \E u \in Uploads : Expire(u)
              \/ \E p \in Paths : Others(p)
              \/ Crash \/ Restart \/ UNCHANGED vars
  PROVE  Tended'
<1> USE DEF records, partials, history, targets, requests, places
<1>1. CASE (\E u \in Uploads : Expire(u)) \/ (\E p \in Paths : Others(p)) \/ UNCHANGED vars
  BY <1>1, TendedFrame DEF Expire, Others, vars
<1>2. CASE Crash
  BY <1>2 DEF Crash, Tended
<1>3. CASE Restart
  BY <1>3 DEF Restart, Tended
<1> QED BY <1>1, <1>2, <1>3

-----------------------------------------------------------------------------
(* The number of records *)

LEMMA FewerRecords ==
  ASSUME Inv, live' \subseteq live, \A q \in Requests : pc'[q] = "store" => pc[q] = "store"
  PROVE  Bounded'
<1>1. IsFiniteSet(live) /\ IsFiniteSet(live')
  BY FS_Subset DEF Inv, Bounded
<1>2. Cardinality(live') <= Cardinality(live) /\ Cardinality(live) \in Nat /\ Cardinality(live') \in Nat
  BY <1>1, FS_Subset, FS_CardinalityType
<1> QED BY <1>1, <1>2 DEF Inv, Bounded, ActiveBound

LEMMA NextBounded ==
  ASSUME Inv, [Next]_vars
  PROVE  Bounded'
<1> USE DEF records, partials, history, targets, requests, places
<1>1. ASSUME NEW r \in Requests, CreatePart(r)
      PROVE  Bounded'
  <2>1. live' = live /\ Cardinality(live) < MaxActive
    BY <1>1 DEF CreatePart, CanCreate
  <2> QED BY <2>1 DEF Inv, Bounded, ActiveBound
<1>2. ASSUME NEW r \in Requests, CreateRecord(r)
      PROVE  Bounded'
  <2>1. /\ live' = live \cup {job[r]} /\ job[r] \notin live
        /\ IsFiniteSet(live) /\ Cardinality(live) < MaxActive
    BY <1>2 DEF Inv, CreateRecord, Locals, Local, Bounded
  <2>2. IsFiniteSet(live') /\ Cardinality(live') = Cardinality(live) + 1
    BY <2>1, FS_AddElement
  <2>3. Cardinality(live) \in Nat
    BY <2>1, FS_CardinalityType
  <2>4. ASSUME NEW q \in Requests
        PROVE  pc'[q] # "store"
    <3>1. Creating(r) /\ (pc[q] = "store" => Creating(q))
      BY <1>2 DEF Inv, Shapes, Shape, Creating, CreateRecord
    <3>2. q # r => pc[q] # "store" /\ pc'[q] = pc[q]
      BY <1>2, <3>1 DEF Inv, TypeOK, Apart, CreateRecord, To, Finish
    <3>3. pc'[r] # "store"
      BY <1>2 DEF Inv, TypeOK, CreateRecord, To, Finish
    <3> QED BY <3>2, <3>3
  <2>5. Cardinality(live') <= MaxActive
    BY <2>1, <2>2, <2>3
  <2> QED BY <2>2, <2>4, <2>5 DEF Bounded, ActiveBound
<1>3. ASSUME NEW r \in Requests,
             Request(r) \/ Write(r) \/ LockStep(r) \/ (Step(r) /\ ~CreatePart(r) /\ ~CreateRecord(r))
      PROVE  Bounded'
  <2>1. live' \subseteq live
    BY <1>3 DEF Request, Prune, Create, PruneRecords, Cancel, Patch, Write, LockStep, PatchGone,
                PatchRefused, PatchLocked, CancelRefused, CancelLocked, PrunePart, Step, PruneEnd,
                CreateRefused, CreateFails, WriteDone, WriteFails, Undo, Advance, AdvanceFails,
                Publish, PublishLook, PublishRename, Place, Stop, CopyPart, FinalizeFails, DeleteRecord, Discard,
                CancelRecord
  <2>2. \/ UNCHANGED pc
        \/ \E p \in Steps \ {"store"} : pc' = [pc EXCEPT ![r] = p]
    BY <1>3 DEF Request, Prune, Create, Start, Cancel, Patch, Write, LockStep, PatchGone,
                PatchRefused, PatchLocked, CancelRefused, CancelLocked, PrunePart, Step, PruneEnd,
                CreateRefused, CreateFails, WriteDone, WriteFails, Undo, Advance, AdvanceFails,
                Publish, PublishLook, PublishRename, Place, Stop, CopyPart, FinalizeFails, DeleteRecord, Discard,
                CancelRecord, To, Finish, Steps
  <2>3. \A q \in Requests : pc'[q] = "store" => pc[q] = "store"
    BY <2>2 DEF Inv, TypeOK
  <2> QED BY <2>1, <2>3, FewerRecords
<1>4. CASE (\E u \in Uploads : Expire(u)) \/ (\E p \in Paths : Others(p)) \/ UNCHANGED vars
  <2>1. UNCHANGED <<live, pc>>
    BY <1>4 DEF Expire, Others, vars
  <2> QED BY <2>1, FewerRecords
<1>5. CASE Crash \/ Restart
  <2>1. live' \subseteq live /\ \A q \in Requests : pc'[q] = "store" => pc[q] = "store"
    BY <1>5 DEF Crash, Restart, Kept
  <2> QED BY <2>1, FewerRecords
<1> QED BY <1>1, <1>2, <1>3, <1>4, <1>5 DEF Next, Step

-----------------------------------------------------------------------------
(* Where an upload nobody works on can be continued *)

Fine(u) == Unlocked(u) => Len(body[u]) = offset[u]

\* Request r is the only one that moves, and it works on job[r], if on any.
LEMMA ContinuesFrame ==
  ASSUME Inv, NEW r \in Requests, up' => up,
         \A q \in Requests \ {r} : Still(q),
         \A v \in Uploads \ {job[r]} :
            /\ body'[v] = body[v] /\ offset'[v] = offset[v]
            /\ v \in Open' => v \in Open,
         live' \subseteq Uploads,
         \A v \in Uploads : v = job[r] /\ v \in Open' => Fine(v)'
  PROVE  Continues'
<1> SUFFICES ASSUME up', NEW u \in Uploads, u \in Open', Unlocked(u)',
                    u # job[r]
             PROVE  Len(body'[u]) = offset'[u]
  BY DEF Continues, Open, Fine
<1>1. Unlocked(u)
  BY DEF Unlocked, Holds, Still
<1> QED BY <1>1 DEF Inv, Continues, Open

LEMMA BeginContinues ==
  ASSUME Inv, NEW r \in Requests, Request(r)
  PROVE  Continues'
<1> USE DEF records, partials, history, targets
<1>1. UNCHANGED <<up, body, offset, expired, ended, dropped>> /\ live' \subseteq live
  BY DEF Request, Prune, Create, Cancel, Patch, Start, PruneRecords
<1>2. \A q \in Requests \ {r} : Still(q)
  BY DEF Inv, TypeOK, Request, Prune, Create, Cancel, Patch, Start, Still
<1>3. job[r] = None
  BY DEF Inv, Shapes, Shape, Request, Prune, Create, Cancel, Patch, Start
<1> QED BY <1>1, <1>2, <1>3, ContinuesFrame DEF Inv, TypeOK, Open

LEMMA StepContinues ==
  ASSUME Inv, NEW r \in Requests, Write(r) \/ Step(r)
  PROVE  Continues'
<1> USE DEF records, partials, history, targets, requests, places
<1> DEFINE u == job[r]
<1>1. ASSUME Publish(r) \/ PublishRename(r)
      PROVE  Place(r) /\ pc[r] \in {"finalize", "commit", "rename"}
  BY <1>1 DEF Publish, PublishRename, Ready
<1>2. CASE \/ CreatePart(r) \/ WriteDone(r) \/ WriteFails(r) \/ AdvanceFails(r) \/ CopyPart(r)
           \/ PublishLook(r) \/ FinalizeFails(r) \/ DeleteRecord(r)
           \/ (~Moved(u) /\ (Publish(r) \/ PublishRename(r)))
  <2>1. /\ UNCHANGED <<up, body, offset, expired, dropped>> /\ live' \subseteq live
        /\ ended \subseteq ended' /\ pc[r] # "lock" /\ \E p \in Steps \ {"lock"} : To(r, p)
    BY <1>1, <1>2 DEF CreatePart, WriteDone, WriteFails, AdvanceFails, CopyPart, PublishLook, Ready,
                Publish, PublishRename, Place, Stop, FinalizeFails, DeleteRecord, Steps
  <2>2. \A v : Unlocked(v)' => Unlocked(v)
    BY <2>1 DEF Unlocked, Holds, To, Inv, TypeOK
  <2> QED BY <2>1, <2>2 DEF Inv, Continues, Open
<1>3. CASE Write(r)
  <2>1. ASSUME NEW v \in Uploads, v = u
        PROVE  Fine(v)'
    BY <1>3, <2>1 DEF Write, Fine, Unlocked, Holds, Inv, TypeOK, Shapes, Shape
  <2>2. \A q \in Requests : Still(q)
    BY <1>3 DEF Write, Still
  <2>3. \A v \in Uploads \ {u} : body'[v] = body[v]
    BY <1>3 DEF Write, Inv, TypeOK
  <2>4. UNCHANGED <<up, offset, live, expired, ended, dropped>>
    BY <1>3 DEF Write
  <2> QED BY <2>1, <2>2, <2>3, <2>4, ContinuesFrame DEF Inv, TypeOK, Open
<1>4. ASSUME \/ PruneEnd(r) \/ CreateRefused(r) \/ CreateRecord(r) \/ CreateFails(r) \/ Undo(r)
             \/ Advance(r) \/ Discard(r) \/ CancelRecord(r)
             \/ (Moved(u) /\ (Publish(r) \/ PublishRename(r)))
      PROVE  Continues'
  <2>1. Finish(r) \/ \E p \in Steps : To(r, p)
    BY <1>4 DEF PruneEnd, CreateRefused, CreateRecord, CreateFails, Undo, Advance, Publish,
                PublishRename, Place, Discard, CancelRecord, Steps
  <2>2. \A q \in Requests \ {r} : Still(q)
    BY <2>1, ToFrame
  <2>3. UNCHANGED <<up, expired, dropped>> /\ live' \subseteq live \cup {u} /\ ended \subseteq ended'
    BY <1>4 DEF PruneEnd, CreateRefused, CreateRecord, CreateFails, Undo, Advance, Publish,
                PublishRename, Place, Discard, CancelRecord
  <2>4. /\ body' = body \/ \E x : body' = [body EXCEPT ![u] = x]
        /\ offset' = offset \/ \E x : offset' = [offset EXCEPT ![u] = x]
    BY <1>4 DEF PruneEnd, CreateRefused, CreateRecord, CreateFails, Undo, Advance, Publish,
                PublishRename, Place, Discard, CancelRecord, RemovePart, Fill
  <2>5. \A v \in Uploads \ {u} : body'[v] = body[v] /\ offset'[v] = offset[v]
    BY <2>4 DEF Inv, TypeOK
  <2>6. live' \subseteq Uploads
    BY MoveControl, <1>4 DEF Step, Control, TypeOK
  <2>7. \A v \in Uploads \ {u} : v \in Open' => v \in Open
    BY <2>3 DEF Open
  <2>8. CASE u \notin live' \/ u \in ended'
    <3>1. u \notin Open'
      BY <2>8 DEF Open
    <3> QED BY <2>2, <2>3, <2>5, <2>6, <2>7, <3>1, ContinuesFrame
  <2>9. CASE PruneEnd(r) \/ CreateRefused(r) \/ CreateFails(r) \/ CancelRecord(r)
    <3>1. u \notin live' \/ u \in ended'
      <4>1. CASE PruneEnd(r) \/ CreateRefused(r)
        <5>1. u = None \/ u \notin used
          BY <4>1 DEF PruneEnd, CreateRefused, Inv, Shapes, Shape, Creating
        <5> QED BY <4>1, <5>1 DEF PruneEnd, CreateRefused, Inv, TypeOK
      <4>2. CASE CreateFails(r) \/ CancelRecord(r)
        BY <4>2 DEF CreateFails, CancelRecord, Inv, Locals, Local
      <4> QED BY <2>9, <4>1, <4>2
    <3> QED BY <3>1, <2>8
  <2>10. CASE Discard(r) \/ (Moved(u) /\ (Publish(r) \/ PublishRename(r)))
    <3>1. u \in ended'
      BY <1>1, <2>10 DEF Place, Discard, Inv, Locals, Local
    <3> QED BY <3>1, <2>8
  <2>11. CASE CreateRecord(r)
    <3>1. Len(body'[u]) = 0 /\ offset'[u] = 0
      BY <2>11, EmptyRun DEF CreateRecord, Inv, Locals, Local
    <3> QED BY <2>2, <2>3, <2>5, <2>6, <2>7, <3>1, ContinuesFrame DEF Fine
  <2>12. CASE Undo(r)
    <3>1. /\ u \in Uploads /\ u \in parts /\ body[u] \in Seq(Nat) /\ body[u] = Run(Len(body[u]))
          /\ base[r] = offset[u] /\ offset[u] \in Nat /\ synced[u] \in Nat /\ Len(body[u]) \in Nat
          /\ offset[u] <= synced[u] /\ synced[u] <= Len(body[u])
      BY <2>12 DEF Undo, Inv, TypeOK, Shapes, Shape, Locals, Local, Stored
    <3>2. offset[u] \in 0..Len(body[u])
      BY <3>1
    <3>3. body'[u] = SubSeq(body[u], 1, offset[u]) /\ offset'[u] = offset[u]
      BY <2>12, <3>1 DEF Undo, Fill, Inv, TypeOK
    <3>4. Len(body'[u]) = offset'[u]
      BY <3>1, <3>2, <3>3, CutRun
    <3> QED BY <2>2, <2>3, <2>5, <2>6, <2>12, <2>7, <3>4, ContinuesFrame DEF Fine, Undo
  <2>13. CASE Advance(r)
    <3>1. Len(body'[u]) = offset'[u]
      BY <2>13 DEF Advance, Inv, TypeOK, Shapes, Shape
    <3>2. \A v \in Uploads : v = u => Fine(v)'
      BY <3>1 DEF Fine
    <3>3. live' = live
      BY <2>13 DEF Advance
    <3> QED BY <2>2, <2>3, <2>5, <2>6, <2>7, <3>2, <3>3, ContinuesFrame
  <2> QED BY <1>4, <2>9, <2>10, <2>11, <2>12, <2>13
<1> QED BY <1>2, <1>3, <1>4 DEF Step

LEMMA LockContinues ==
  ASSUME Inv, NEW r \in Requests, LockStep(r)
  PROVE  Continues'
<1> USE DEF records, partials, history, targets, requests, places
<1> DEFINE u == job[r]
<1>1. CASE PatchRefused(r) \/ CancelRefused(r) \/ PatchLocked(r)
  <2>1. /\ UNCHANGED <<up, body, offset, expired, live, ended, dropped>> /\ Unlocked(u)
        /\ \A q \in Requests \ {r} : Still(q)
    BY <1>1 DEF PatchRefused, CancelRefused, PatchLocked, Finish, Still, Inv, TypeOK
  <2>2. \A v \in Uploads : v = u /\ v \in Open => Fine(v)'
    <3>1. up
      BY <1>1 DEF PatchRefused, CancelRefused, PatchLocked, Inv, Shapes
    <3> QED BY <2>1, <3>1 DEF Fine, Inv, Continues, Open
  <2> QED BY <2>1, <2>2, ContinuesFrame DEF Inv, TypeOK, Open
<1>2. CASE PatchGone(r) \/ CancelLocked(r)
  <2>1. /\ UNCHANGED <<up, offset, expired, live>> /\ ended \subseteq ended' /\ RemovePart(u)
        /\ dropped \ {u} \subseteq dropped' /\ u \notin Open'
        /\ \A q \in Requests \ {r} : Still(q)
    BY <1>2 DEF PatchGone, CancelLocked, Usable, Open, Finish, To, Still, Inv, TypeOK
  <2>2. \A v \in Uploads \ {u} : body'[v] = body[v]
    BY <2>1 DEF RemovePart, Fill, Inv, TypeOK
  <2>3. live' \subseteq Uploads
    BY <2>1 DEF Inv, TypeOK
  <2>4. \A v \in Uploads \ {u} : v \in Open' => v \in Open
    BY <2>1 DEF Open
  <2> QED BY <2>1, <2>2, <2>3, <2>4, ContinuesFrame
<1>3. ASSUME NEW v \in todo[r], PrunePart(r, v)
      PROVE  Continues'
  <2>1. v \notin live /\ UNCHANGED <<up, offset, expired, live, ended, dropped, pc, mode, job>>
    BY <1>3 DEF PrunePart, Inv, Shapes, Shape
  <2>2. \A w \in live : body'[w] = body[w]
    BY <1>3, <2>1 DEF PrunePart, RemovePart, Fill, Inv, TypeOK
  <2>3. \A w : Unlocked(w)' => Unlocked(w)
    BY <2>1 DEF Unlocked, Holds
  <2> QED BY <2>1, <2>2, <2>3 DEF Inv, Continues, Open
<1> QED BY <1>1, <1>2, <1>3 DEF LockStep

LEMMA OutsideContinues ==
  ASSUME Inv, \/ \E u \in Uploads : Expire(u)
              \/ \E p \in Paths : Others(p)
              \/ Crash \/ Restart \/ UNCHANGED vars
  PROVE  Continues'
<1> USE DEF records, partials, history, targets, requests, places
<1>1. CASE (\E u \in Uploads : Expire(u)) \/ (\E p \in Paths : Others(p)) \/ UNCHANGED vars
  <2>1. UNCHANGED <<up, body, offset, live, mode, pc, job>> /\ Open' \subseteq Open
    BY <1>1 DEF Expire, Others, Open, vars
  <2> QED BY <2>1 DEF Inv, Continues, Open, Unlocked, Holds
<1>2. CASE Crash
  BY <1>2 DEF Crash, Continues, Open
<1>3. CASE Restart
  <2>1. ASSUME NEW u \in Kept
        PROVE  Len(body'[u]) = offset[u]
    <3>1. /\ offset[u] \in 0..Len(body[u]) /\ body[u] \in Seq(Nat) /\ u \in Uploads
          /\ body[u] = Run(Len(body[u]))
      BY DEF Inv, TypeOK, Stored, Kept
    <3>2. body'[u] = SubSeq(body[u], 1, offset[u])
      BY <1>3, <3>1 DEF Restart
    <3> QED BY <3>1, <3>2, CutRun
  <2> QED BY <1>3, <2>1 DEF Restart, Continues, Open
<1> QED BY <1>1, <1>2, <1>3

-----------------------------------------------------------------------------
(* The look at a destination before a rename *)

\* Steps that bring nothing to "rename" and put nothing in the place of a file.
LEMMA LookedFrame ==
  ASSUME Inv, \A q \in Requests : pc'[q] = "rename" => pc[q] = "rename" /\ job'[q] = job[q],
         UNCHANGED <<owner, raced>>
  PROVE  LookedAll'
BY DEF Inv, LookedAll, Looked

LEMMA NextLooked ==
  ASSUME Inv, [Next]_vars
  PROVE  LookedAll'
<1> USE DEF records, partials, history, targets, requests, places
<1>1. ASSUME NEW r \in Requests, PublishLook(r)
      PROVE  LookedAll'
  <2>1. /\ pc' = [pc EXCEPT ![r] = "rename"] /\ UNCHANGED <<job, owner, raced>>
        /\ \A q \in Requests : pc[q] # "rename"
        /\ job[r] \notin Overwrite /\ Target[job[r]] \notin Atomic /\ owner[Target[job[r]]] = None
        /\ pc[r] \in {"finalize", "commit"}
    BY <1>1 DEF PublishLook, Publishing, Ready, To
  <2>2. job[r] \in Uploads
    BY <2>1 DEF Inv, TypeOK, Shapes, Shape
  <2> QED BY <2>1, <2>2 DEF Inv, TypeOK, LookedAll, Looked
<1>2. ASSUME NEW r \in Requests, Publish(r) \/ PublishRename(r)
      PROVE  LookedAll'
  <2>1. \A q \in Requests \ {r} : pc[q] # "rename"
    BY <1>2 DEF Publish, PublishRename, Publishing, Inv, LookedAll, Looked
  <2>2. \E p \in {"delete", "undo"} : pc' = [pc EXCEPT ![r] = p]
    BY <1>2 DEF Publish, PublishRename, Place, Stop, To
  <2> QED BY <2>1, <2>2 DEF Inv, TypeOK, LookedAll, Looked
<1>3. ASSUME NEW r \in Requests, FinalizeFails(r)
      PROVE  LookedAll'
  <2>1. (\E p \in {"delete", "undo"} : pc' = [pc EXCEPT ![r] = p]) /\ UNCHANGED <<job, owner>>
    BY <1>3 DEF FinalizeFails, Stop, To
  <2>2. CASE pc[r] = "rename"
    <3>1. \A q \in Requests \ {r} : pc[q] # "rename"
      BY <2>2 DEF Inv, LookedAll, Looked
    <3> QED BY <2>1, <3>1 DEF Inv, TypeOK, LookedAll, Looked
  <2>3. CASE pc[r] # "rename"
    <3>1. raced' = raced
      BY <1>3, <2>3 DEF FinalizeFails
    <3> QED BY <2>1, <3>1, LookedFrame DEF Inv, TypeOK
  <2> QED BY <2>2, <2>3
<1>4. ASSUME NEW p \in Paths, Others(p)
      PROVE  LookedAll'
  <2> SUFFICES ASSUME NEW r \in Requests, pc[r] = "rename"
               PROVE  /\ job[r] \in Uploads \ Overwrite /\ Target[job[r]] \notin Atomic
                      /\ owner'[Target[job[r]]] = None \/ Target[job[r]] \in raced'
                      /\ \A q \in Requests \ {r} : pc[q] # "rename"
    BY <1>4 DEF Others, LookedAll, Looked
  <2>1. Looked(r)
    BY DEF Inv, LookedAll
  <2>2. raced \subseteq raced' /\ (Target[job[r]] = p => p \in raced')
    BY <1>4 DEF Others
  <2>3. Target[job[r]] # p => owner'[Target[job[r]]] = owner[Target[job[r]]]
    BY <1>4, <2>1 DEF Others, Inv, TypeOK, Looked
  <2> QED BY <2>1, <2>2, <2>3 DEF Looked
<1>5. CASE Crash
  BY <1>5 DEF Crash, LookedAll, Looked
<1>6. ASSUME NEW r \in Requests,
             \/ Request(r) \/ Write(r) \/ LockStep(r)
             \/ Step(r) /\ ~PublishLook(r) /\ ~Publish(r) /\ ~PublishRename(r) /\ ~FinalizeFails(r)
      PROVE  LookedAll'
  <2>1. UNCHANGED <<owner, raced>>
    BY <1>6 DEF Request, Prune, Create, PruneRecords, Cancel, Patch, Write, LockStep, PatchGone,
                PatchRefused, PatchLocked, CancelRefused, CancelLocked, PrunePart, Step, PruneEnd,
                CreateRefused, CreatePart, CreateRecord, CreateFails, WriteDone, WriteFails, Undo,
                Advance, AdvanceFails, CopyPart, DeleteRecord, Discard, CancelRecord
  <2>2. \/ UNCHANGED <<pc, job>>
        \/ \E p \in Steps \ {"rename"} : \E u : pc' = [pc EXCEPT ![r] = p] /\ job' = [job EXCEPT ![r] = u]
        \/ \E p \in Steps \ {"rename"} : pc' = [pc EXCEPT ![r] = p] /\ job' = job
    BY <1>6 DEF Request, Prune, Create, Start, Cancel, Patch, Write, LockStep, PatchGone,
                PatchRefused, PatchLocked, CancelRefused, CancelLocked, PrunePart, Step, PruneEnd,
                CreateRefused, CreatePart, CreateRecord, CreateFails, WriteDone, WriteFails, Undo,
                Advance, AdvanceFails, CopyPart, DeleteRecord, Discard, CancelRecord, To, Finish,
                Steps
  <2>3. \A q \in Requests : pc'[q] = "rename" => pc[q] = "rename" /\ job'[q] = job[q]
    BY <2>2 DEF Inv, TypeOK
  <2> QED BY <2>1, <2>3, LookedFrame
<1>7. CASE (\E u \in Uploads : Expire(u)) \/ Restart \/ UNCHANGED vars
  BY <1>7, LookedFrame DEF Expire, Restart, vars
<1> QED BY <1>1, <1>2, <1>3, <1>4, <1>5, <1>6, <1>7 DEF Next

-----------------------------------------------------------------------------
(* The invariant *)

LEMMA InitInv == Init => Inv
<1> SUFFICES ASSUME Init PROVE Inv
  OBVIOUS
<1>1. Tended /\ Continues /\ LookedAll
  BY DEF Init, Tended, Continues, LookedAll, Looked, Open
<1>2. Bounded
  BY FS_EmptySet DEF Init, Bounded, ActiveBound
<1> QED BY <1>1, <1>2, InitControl, InitData DEF Inv, Control, Data

LEMMA NextData == Inv /\ [Next]_vars => Data'
<1> SUFFICES ASSUME Inv, [Next]_vars PROVE Data'
  OBVIOUS
<1>1. ASSUME NEW r \in Requests, Request(r) \/ Write(r) \/ Step(r) \/ LockStep(r)
      PROVE  Data'
  <2>1. CASE Request(r)
    BY <2>1, BeginData
  <2>2. CASE Write(r) \/ Step(r)
    BY <2>2, QuietStepData, CreateData, PatchData, PublishData DEF Step
  <2>3. CASE LockStep(r)
    BY <2>3, QuietStepData, LockData, PrunePartData DEF LockStep
  <2> QED BY <1>1, <2>1, <2>2, <2>3
<1> QED BY <1>1, OutsideData DEF Next

LEMMA NextInv == Inv /\ [Next]_vars => Inv'
<1> SUFFICES ASSUME Inv, [Next]_vars PROVE Inv'
  OBVIOUS
<1>1. Control'
  <2>1. ASSUME NEW r \in Requests, Request(r) \/ Write(r) \/ Step(r) \/ LockStep(r)
        PROVE  Control'
    BY <2>1, BeginControl, MoveControl, LockControl
  <2> QED BY <2>1, OutsideControl DEF Next
<1>2. Data'
  BY NextData
<1>3. Tended'
  <2>1. ASSUME NEW r \in Requests, Request(r) \/ Write(r) \/ Step(r) \/ LockStep(r)
        PROVE  Tended'
    BY <2>1, BeginTended, StepTended
  <2> QED BY <2>1, OutsideTended DEF Next
<1>4. Continues'
  <2>1. ASSUME NEW r \in Requests, Request(r) \/ Write(r) \/ Step(r) \/ LockStep(r)
        PROVE  Continues'
    BY <2>1, BeginContinues, StepContinues, LockContinues
  <2> QED BY <2>1, OutsideContinues DEF Next
<1>5. Bounded' /\ LookedAll'
  BY NextBounded, NextLooked
<1> QED BY <1>1, <1>2, <1>3, <1>4, <1>5 DEF Inv, Control, Data

LEMMA Invariance == Spec => []Inv
BY InitInv, NextInv, PTL DEF Spec

-----------------------------------------------------------------------------
(* What holds of every instance *)

\* The types of the state: offsets stay within the declared length.
THEOREM UploadsTypeCorrect == Spec => []TypeOK
<1>1. Inv => TypeOK
  BY DEF Inv
<1> QED BY <1>1, Invariance, PTL

\* A file that an upload left at its destination is the whole upload, whatever
\* crashed, expired or was sent again on the way (finalizeUpload).
THEOREM PublishedStaysWhole == Spec => []PublishedWhole
<1>1. Inv => PublishedWhole
  BY DEF Inv
<1> QED BY <1>1, Invariance, PTL

LEMMA InvAcknowledged == Inv => Acknowledged
<1> SUFFICES ASSUME Inv, NEW u \in Open
             PROVE  /\ u \in parts /\ offset[u] <= synced[u] /\ synced[u] <= Len(body[u])
                    /\ \A i \in 1..offset[u] : body[u][i] = i
  BY DEF Acknowledged
<1>1. u \in Uploads /\ u \in parts
  BY DEF Inv, TypeOK, LiveParts, Open
<1>2. /\ body[u] = Run(Len(body[u])) /\ offset[u] <= synced[u] /\ synced[u] <= Len(body[u])
      /\ offset[u] \in Nat /\ synced[u] \in Nat /\ Len(body[u]) \in Nat
  BY <1>1 DEF Inv, TypeOK, Stored
<1>3. ASSUME NEW i \in 1..offset[u]
      PROVE  body[u][i] = i
  <2>1. i \in 1..Len(body[u])
    BY <1>2
  <2> QED BY <1>2, <2>1 DEF Run
<1> QED BY <1>1, <1>2, <1>3

\* Acknowledged bytes are on disk, in order, and an upload nobody works on
\* continues where its record says (patchUpload, startupCleanup).
THEOREM AlwaysResumable == Spec => []Resumable
<1>1. Inv => Resumable
  BY InvAcknowledged DEF Inv, Resumable
<1> QED BY <1>1, Invariance, PTL

\* createMu keeps the number of records within maxActive (createUpload).
THEOREM RecordsBounded == Spec => []ActiveBound
<1>1. Inv => ActiveBound
  BY DEF Inv, Bounded
<1> QED BY <1>1, Invariance, PTL

\* Every partial file without a record is in the hands of a request.
THEOREM NoOrphans == Spec => []NoOrphan
<1>1. Inv => NoOrphan
  BY DEF Inv, Tended, CaredFor, NoOrphan
<1> QED BY <1>1, Invariance, PTL

\* An upload replaces no file it was not told to replace, except what others put
\* at its destination between the look and the rename of the portable fallback
\* (commitTempLocked, PublishTemporary).
THEOREM NothingOverwritten == Spec => NoOverwrite
<1>1. Inv /\ [Next]_vars =>
        [\A p \in Paths : owner'[p] # owner[p] /\ owner'[p] \in Uploads /\ owner[p] # None
                             => owner'[p] \in Overwrite \/ Excused(p)]_owner
  <2> SUFFICES ASSUME Inv, [Next]_vars, NEW p \in Paths,
                      owner'[p] # owner[p], owner'[p] \in Uploads, owner[p] # None
               PROVE  owner'[p] \in Overwrite \/ Excused(p)
    OBVIOUS
  <2> USE DEF records, partials, history, targets, requests, places
  <2>1. ASSUME NEW r \in Requests, Publish(r) \/ PublishRename(r)
        PROVE  owner'[p] \in Overwrite \/ Excused(p)
    <3>1. owner' = [owner EXCEPT ![Target[job[r]]] = job[r]]
      BY <2>1 DEF Publish, PublishRename, Place
    <3>2. p = Target[job[r]] /\ owner'[p] = job[r]
      BY <3>1 DEF Inv, TypeOK
    <3>3. CASE Publish(r)
      BY <3>2, <3>3 DEF Publish, MayPublish
    <3>4. CASE PublishRename(r)
      BY <3>2, <3>4 DEF PublishRename, Inv, LookedAll, Looked, Excused
    <3> QED BY <2>1, <3>3, <3>4
  <2>2. ASSUME NEW q \in Paths, Others(q)
        PROVE  FALSE
    BY <2>2 DEF Others, Inv, TypeOK
  <2>3. owner' = owner \/ (\E r \in Requests : Publish(r) \/ PublishRename(r))
                       \/ (\E q \in Paths : Others(q))
    BY DEF Next, vars, Request, Prune, Create, Cancel, Patch, Write, LockStep, PatchGone,
           PatchRefused, PatchLocked, CancelRefused, CancelLocked, PrunePart, Step, PruneEnd,
           CreateRefused, CreatePart, CreateRecord, CreateFails, WriteDone, WriteFails, Undo,
           Advance, AdvanceFails, PublishLook, CopyPart, FinalizeFails, DeleteRecord, Discard,
           CancelRecord, Expire, Crash, Restart
  <2> QED BY <2>1, <2>2, <2>3
<1> QED BY <1>1, Invariance, PTL DEF Spec, NoOverwrite

\* Offsets only grow and a record that was deleted is not made again
\* (Store.AdvanceUpload, Store.CreateUpload, startupCleanup).
THEOREM RecordsOnlyForward == Spec => RecordsForward
<1>1. Inv /\ [Next]_vars =>
        [\A u \in used : /\ u \in live' \ live => u \notin ended \cup expired
                         /\ u \in live \cap live' => offset'[u] >= offset[u]]_records
  <2> SUFFICES ASSUME Inv, [Next]_vars, NEW u \in used
               PROVE  /\ u \in live' \ live => u \notin ended \cup expired
                      /\ u \in live \cap live' => offset'[u] >= offset[u]
    OBVIOUS
  <2> USE DEF records, partials, history, targets, requests, places
  <2>1. u \in Uploads /\ offset[u] \in Nat
    BY DEF Inv, TypeOK
  <2>2. ASSUME NEW r \in Requests, CreateRecord(r)
        PROVE  /\ u \in live' \ live => u \notin ended \cup expired
               /\ u \in live \cap live' => offset'[u] >= offset[u]
    BY <2>1, <2>2 DEF CreateRecord, Inv, Locals, Local
  <2>3. ASSUME NEW r \in Requests, Advance(r)
        PROVE  live' = live /\ offset'[u] >= offset[u]
    <3>1. live' = live /\ offset' = [offset EXCEPT ![job[r]] = Len(body[job[r]])]
      BY <2>3 DEF Advance
    <3>2. CASE u = job[r]
      <4>1. u \in parts /\ Len(body[u]) = synced[u]
        BY <2>3, <3>2 DEF Advance, Inv, Locals, Local
      <4> QED BY <2>1, <3>1, <3>2, <4>1 DEF Inv, TypeOK, Stored
    <3>3. CASE u # job[r]
      BY <2>1, <3>1, <3>3 DEF Inv, TypeOK
    <3> QED BY <3>1, <3>2, <3>3
  <2>4. \/ offset' = offset /\ live' \subseteq live
        \/ \E r \in Requests : CreateRecord(r) \/ Advance(r)
    <3>1. ASSUME NEW r \in Requests, Request(r) \/ Write(r) \/ LockStep(r)
          PROVE  offset' = offset /\ live' \subseteq live
      BY <3>1 DEF Request, Prune, Create, PruneRecords, Cancel, Patch, Write, LockStep, PatchGone,
                  PatchRefused, PatchLocked, CancelRefused, CancelLocked, PrunePart
    <3>2. ASSUME NEW r \in Requests, Step(r), ~CreateRecord(r), ~Advance(r)
          PROVE  offset' = offset /\ live' \subseteq live
      BY <3>2 DEF Step, PruneEnd, CreateRefused, CreatePart, CreateFails, WriteDone, WriteFails,
                  Undo, AdvanceFails, Publish, PublishLook, PublishRename, Place, Stop, CopyPart, FinalizeFails,
                  DeleteRecord, Discard, CancelRecord
    <3>3. CASE (\E v \in Uploads : Expire(v)) \/ (\E q \in Paths : Others(q)) \/ UNCHANGED vars
               \/ Crash \/ Restart
      BY <3>3 DEF Expire, Others, vars, Crash, Restart, Kept
    <3> QED BY <3>1, <3>2, <3>3 DEF Next
  <2> QED BY <2>1, <2>2, <2>3, <2>4
<1> QED BY <1>1, Invariance, PTL DEF Spec, RecordsForward

-----------------------------------------------------------------------------
(***************************************************************************)
(* The table of locks: an upload is locked by one request at a time, for   *)
(* every number of requests and uploads.                                   *)
(***************************************************************************)

USE CallersAssumption, NilAssumption

Users(e) == {r \in Callers : entry[r] = e}

\* A request that has begun refers to the entry the table has for its upload.
Referring ==
  \A r \in Callers :
    /\ at[r] = "idle" => entry[r] = Nil
    /\ at[r] # "idle" => /\ id[r] \in Ids
                         /\ entry[r] \in Entries
                         /\ locks[id[r]] = entry[r]

\* The count is the number of references.
Counted == \A e \in Entries : refs[e] = Cardinality(Users(e))

\* An entry belongs to one upload.
Distinct == \A i, k \in Ids : locks[i] = locks[k] /\ locks[i] # Nil => i = k

\* The mutex of an entry is held by a request that is in.
Held == \A r \in Callers : at[r] = "in" => holder[entry[r]] = r

LocksInv == LocksTypeOK /\ Referring /\ Counted /\ Distinct /\ Held /\ NoLeak

LEMMA UsersFinite ==
  \A e : IsFiniteSet(Users(e)) /\ Cardinality(Users(e)) \in Nat
<1> SUFFICES ASSUME NEW e
             PROVE  IsFiniteSet(Users(e)) /\ Cardinality(Users(e)) \in Nat
  OBVIOUS
<1>1. Users(e) \subseteq Callers
  BY DEF Users
<1> QED BY <1>1, FS_Subset, FS_CardinalityType

\* What taking an element away does to the size of a set.
LEMMA OneLess ==
  ASSUME NEW S, NEW T, NEW x \in S, IsFiniteSet(S), T = S \ {x}
  PROVE  /\ Cardinality(S) \in Nat \ {0}
         /\ Cardinality(T) = Cardinality(S) - 1
         /\ Cardinality(S) = 1 <=> T = {}
<1>1. Cardinality(S) \in Nat /\ Cardinality(S) # 0
  BY FS_CardinalityType, FS_EmptySet
<1>2. IsFiniteSet(T) /\ Cardinality(T) = Cardinality(S) - 1
  BY FS_RemoveElement
<1>3. Cardinality(T) = 0 <=> T = {}
  BY <1>2, FS_EmptySet
<1> QED BY <1>1, <1>2, <1>3

LEMMA LocksInitInv == LocksInit => LocksInv
<1> SUFFICES ASSUME LocksInit PROVE LocksInv
  OBVIOUS
<1>1. \A e \in Entries : Users(e) = {}
  BY DEF LocksInit, Users
<1>2. Counted
  BY <1>1, FS_EmptySet DEF LocksInit, Counted
<1> QED BY <1>2 DEF LocksInit, LocksInv, LocksTypeOK, LocksSteps, Referring, Distinct, Held, NoLeak

LEMMA ReferInv ==
  ASSUME LocksInv, NEW r \in Callers, NEW i \in Ids, NEW e \in Entries, Refer(r, i, e)
  PROVE  LocksInv'
<1> USE DEF LocksInv, LocksTypeOK
<1>1. entry[r] = Nil /\ entry' = [entry EXCEPT ![r] = e] /\ at' = [at EXCEPT ![r] = "wait"]
  BY DEF Refer, Referring
<1>2. LocksTypeOK'
  BY DEF Refer, LocksSteps
<1>3. \A k \in Ids : locks[k] # Nil => locks'[k] = locks[k]
  BY DEF Refer
<1>4. locks'[i] = e /\ id' = [id EXCEPT ![r] = i]
  BY DEF Refer
<1>5. Referring'
  BY <1>1, <1>3, <1>4 DEF Referring, Refer
<1>6. \A d \in Entries \ {e} : Users(d)' = Users(d)
  BY <1>1 DEF Users
<1>7. Users(e)' = Users(e) \cup {r} /\ r \notin Users(e)
  BY <1>1 DEF Users
<1>8. locks[i] = Nil => Users(e) = {}
  BY DEF Refer, Free, Users
<1>9. Cardinality(Users(e)') = Cardinality(Users(e)) + 1
  BY <1>7, UsersFinite, FS_AddElement
<1>10. refs'[e] = Cardinality(Users(e)')
  <2>1. CASE locks[i] = Nil
    <3>1. Cardinality(Users(e)) = 0
      BY <1>8, <2>1, FS_EmptySet
    <3>2. refs'[e] = 1
      BY <2>1 DEF Refer
    <3> QED BY <1>9, <3>1, <3>2
  <2>2. CASE locks[i] # Nil
    BY <1>9, <2>2 DEF Refer, Counted
  <2> QED BY <2>1, <2>2
<1>11. Counted'
  <2> SUFFICES ASSUME NEW d \in Entries PROVE refs'[d] = Cardinality(Users(d)')
    BY DEF Counted, Users
  <2>1. CASE d = e
    BY <1>10, <2>1
  <2>2. CASE d # e
    BY <1>6, <2>2 DEF Refer, Counted
  <2> QED BY <2>1, <2>2
<1>12. Distinct'
  BY DEF Refer, Free, Distinct
<1>13. Held'
  <2> SUFFICES ASSUME NEW q \in Callers, at'[q] = "in"
               PROVE  holder'[entry'[q]] = q
    BY DEF Held
  <2>1. q # r /\ entry'[q] = entry[q] /\ holder[entry[q]] = q /\ entry[q] \in Entries
    BY <1>1 DEF Held, Referring
  <2>2. locks[i] = Nil => entry[q] # e
    BY DEF Refer, Free
  <2> QED BY <2>1, <2>2 DEF Refer
<1>14. NoLeak'
  BY <1>1, <1>3, <1>4 DEF Refer, NoLeak
<1> QED BY <1>2, <1>5, <1>11, <1>12, <1>13, <1>14

LEMMA DropInv ==
  ASSUME LocksInv, NEW r \in Callers, Drop(r), NEW e, e = entry[r]
  PROVE  LocksInv'
<1> USE DEF LocksInv, LocksTypeOK
<1>1. e \in Entries /\ id[r] \in Ids /\ locks[id[r]] = e
  BY DEF Drop, Referring
<1>2. Users(e)' = Users(e) \ {r} /\ r \in Users(e)
  BY <1>1 DEF Drop, Users
<1>3. /\ Cardinality(Users(e)) \in Nat \ {0}
      /\ Cardinality(Users(e)') = Cardinality(Users(e)) - 1
      /\ Cardinality(Users(e)) = 1 <=> Users(e)' = {}
  <2>1. IsFiniteSet(Users(e))
    BY UsersFinite
  <2> QED BY <1>2, <2>1, OneLess
<1>4. refs[e] = Cardinality(Users(e))
  BY <1>1 DEF Counted
<1>5. \A d \in Entries \ {e} : Users(d)' = Users(d)
  BY <1>1 DEF Drop, Users
<1>6. LocksTypeOK'
  BY <1>1, <1>3, <1>4 DEF Drop, LocksSteps
<1>7. Counted'
  <2> SUFFICES ASSUME NEW d \in Entries PROVE refs'[d] = Cardinality(Users(d)')
    BY DEF Counted, Users
  <2>1. CASE d = e
    BY <1>1, <1>3, <1>4, <2>1 DEF Drop
  <2>2. CASE d # e
    BY <1>1, <1>5, <2>2 DEF Drop, Counted
  <2> QED BY <2>1, <2>2
<1>8. ASSUME NEW q \in Callers \ {r}, entry[q] = e
      PROVE  refs[e] # 1
  <2>1. q \in Users(e)'
    BY <1>2, <1>8 DEF Users
  <2> QED BY <1>3, <1>4, <2>1
<1>9. Referring'
  <2> SUFFICES ASSUME NEW q \in Callers
               PROVE  /\ at'[q] = "idle" => entry'[q] = Nil
                      /\ at'[q] # "idle" => /\ id'[q] \in Ids
                                            /\ entry'[q] \in Entries
                                            /\ locks'[id'[q]] = entry'[q]
    BY DEF Referring
  <2>1. CASE q = r
    BY <2>1 DEF Drop
  <2>2. CASE q # r
    BY <1>1, <1>8, <2>2 DEF Drop, Referring
  <2> QED BY <2>1, <2>2
<1>10. Distinct'
  BY <1>1 DEF Drop, Distinct
<1>11. Held'
  BY DEF Drop, Held
<1>12. NoLeak'
  <2> SUFFICES ASSUME NEW i \in Ids, locks'[i] # Nil
               PROVE  \E q \in Callers : entry'[q] = locks'[i] /\ id'[q] = i
    BY DEF NoLeak
  <2>1. locks'[i] = locks[i]
    BY <1>1 DEF Drop
  <2>2. CASE locks[i] # e
    BY <1>1, <2>1, <2>2 DEF Drop, NoLeak
  <2>3. CASE locks[i] = e
    <3>1. i = id[r] /\ refs[e] # 1
      BY <1>1, <2>1, <2>3 DEF Drop, Distinct
    <3>2. Users(e)' # {}
      BY <1>3, <1>4, <3>1
    <3>3. PICK q \in Callers \ {r} : entry[q] = e
      BY <1>2, <3>2 DEF Users
    <3>4. at[q] # "idle"
      BY <1>1, <3>3 DEF Referring
    <3>5. id[q] = i
      BY <1>1, <3>1, <3>3, <3>4 DEF Referring, Distinct
    <3> QED BY <2>1, <2>3, <3>3, <3>5 DEF Drop
  <2> QED BY <2>2, <2>3
<1> QED BY <1>6, <1>7, <1>9, <1>10, <1>11, <1>12

LEMMA LocksNextInv ==
  ASSUME LocksInv, [LocksNext]_lockVars
  PROVE  LocksInv'
<1>1. ASSUME UNCHANGED <<locks, refs, id, entry>>
      PROVE  Counted' /\ Distinct' /\ NoLeak'
  <2>1. \A e \in Entries : Users(e)' = Users(e)
    BY <1>1 DEF Users
  <2> QED BY <1>1, <2>1 DEF LocksInv, Counted, Distinct, NoLeak
<1>2. ASSUME NEW r \in Callers, Lock(r)
      PROVE  LocksInv'
  BY <1>1, <1>2 DEF Lock, LocksInv, LocksTypeOK, LocksSteps, Referring, Held
<1>3. ASSUME NEW r \in Callers, Unlock(r)
      PROVE  LocksInv'
  BY <1>1, <1>3 DEF Unlock, LocksInv, LocksTypeOK, LocksSteps, Referring, Held
<1>4. CASE UNCHANGED lockVars
  BY <1>1, <1>4 DEF lockVars, LocksInv, LocksTypeOK, Referring, Held
<1> QED BY <1>2, <1>3, <1>4, ReferInv, DropInv DEF LocksNext, LocksStep

LEMMA LocksInvariance == LocksSpec => []LocksInv
<1> QED BY LocksInitInv, LocksNextInv, PTL DEF LocksSpec

\* The table and the counts keep their types; a count never goes below zero.
THEOREM LocksTypeCorrect == LocksSpec => []LocksTypeOK
BY LocksInvariance, PTL DEF LocksInv

\* lock gives an upload to one request at a time.
THEOREM OneHolder == LocksSpec => []Exclusive
<1>1. LocksInv => Exclusive
  BY DEF LocksInv, LocksTypeOK, Exclusive, Referring, Held
<1> QED BY <1>1, LocksInvariance, PTL

\* The table of locks does not grow with the uploads it has seen.
THEOREM NoEntryLeaks == LocksSpec => []NoLeak
BY LocksInvariance, PTL DEF LocksInv
=============================================================================
