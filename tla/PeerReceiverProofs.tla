-------------------------- MODULE PeerReceiverProofs --------------------------
(***************************************************************************)
(* Proofs about PeerReceiver for every table of offers, manifest, number   *)
(* of requests and destinations.                                           *)
(***************************************************************************)
EXTENDS PeerReceiver, TLAPS

\* A request that is under way names an offer, and a PUT a file it declares.
RequestsOK ==
  \A r \in Requests :
    /\ pc[r] # "idle" => target[r] \in Offers
    /\ pc[r] \in {"open", "copy", "record"} => file[r] \in Manifest[target[r]]

\* A cleanup is that of an accepted offer.
CleanupOK ==
  removing # None => /\ up
                     /\ status[removing] = "accepted"
                     /\ outcome \in {"canceled", "error"}

\* An offer that was accepted, or has left the table.
Settled(o) == status[o] \in {"accepted"} \cup Closed

\* A request under way has found its offer accepted.
TargetsOK == \A r \in Requests : pc[r] # "idle" => Settled(target[r])

Typing == TypeOK /\ RequestsOK /\ CleanupOK /\ TargetsOK

USE NoneAssumption, ManifestAssumption, BoundAssumption

LEMMA IndexFacts ==
  /\ Indexes \subseteq Int
  /\ 0 \in Indexes
  /\ 0 \in 0..Chunks
  /\ Nowhere # InStage
  /\ Nowhere \notin Indexes
  /\ InStage \notin Indexes
BY DEF Indexes, Nowhere, InStage

\* A group of variables that a step leaves alone keeps its type.
LEMMA Unchanged ==
  ASSUME TypeOK
  PROVE  /\ UNCHANGED tableVars => TableType'
         /\ UNCHANGED eventVars => EventType'
         /\ UNCHANGED diskVars => DiskType'
         /\ UNCHANGED requestVars => RequestType'
         /\ UNCHANGED cleanupVars => CleanupType'
<1> USE DEF TypeOK
<1>1. UNCHANGED tableVars => TableType'
  BY DEF TableType, tableVars
<1>2. UNCHANGED eventVars => EventType'
  BY DEF EventType, eventVars
<1>3. UNCHANGED diskVars => DiskType'
  BY DEF DiskType, diskVars
<1>4. UNCHANGED requestVars => RequestType'
  BY DEF RequestType, requestVars
<1>5. UNCHANGED cleanupVars => CleanupType'
  BY DEF CleanupType, cleanupVars
<1> QED BY <1>1, <1>2, <1>3, <1>4, <1>5

\* Writing the event file, or failing to, keeps the events well typed.
LEMMA WriteType ==
  ASSUME TypeOK, event' \in Events, WriteEvents
  PROVE  EventType'
<1>1. eventFile' \in Events
  BY DEF TypeOK, EventType, WriteEvents
<1>2. unwritten' \in BOOLEAN
  BY DEF WriteEvents
<1> QED BY <1>1, <1>2 DEF EventType

\* Announcing a status keeps the events well typed.
LEMMA AnnounceType ==
  ASSUME TypeOK, NEW o \in Offers,
         NEW s \in {"accepted", "declined", "expired", "complete", "canceled", "error"},
         Announce(o, s)
  PROVE  EventType'
<1>1. event' \in Events
  BY DEF TypeOK, EventType, Events, Announce
<1> QED BY <1>1, WriteType DEF Announce

\* A request that moves on, begins or ends stays well typed.
LEMMA StepType ==
  ASSUME TypeOK, NEW r \in Requests, NEW s \in Steps, To(r, s)
  PROVE  RequestType'
BY DEF TypeOK, RequestType, To

LEMMA BeginType ==
  ASSUME TypeOK, NEW r \in Requests, NEW s \in Steps, NEW o \in Offers \cup {None},
         NEW f \in Files \cup {None}, NEW n \in 0..Chunks, Begin(r, s, o, f, n)
  PROVE  RequestType'
BY IndexFacts DEF TypeOK, RequestType, Begin

LEMMA DoneType ==
  ASSUME TypeOK, NEW r \in Requests, Done(r)
  PROVE  RequestType'
<1>1. "idle" \in Steps /\ Begin(r, "idle", None, None, 0)
  BY DEF Done, Steps
<1> QED BY <1>1, BeginType, IndexFacts

LEMMA StartCleanupType ==
  ASSUME TypeOK, NEW o \in Offers, NEW c \in {"canceled", "error"}, StartCleanup(o, c)
  PROVE  up' \in BOOLEAN /\ TableType' /\ EventType' /\ DiskType' /\ CleanupType'
<1>1. CleanupType'
  BY DEF StartCleanup, CleanupType
<1> QED BY <1>1, Unchanged DEF StartCleanup, TypeOK

\* The initial state is well typed.
LEMMA InitType == Init => TypeOK
<1> SUFFICES ASSUME Init PROVE TypeOK
  OBVIOUS
<1> USE IndexFacts DEF Init, InitWith
<1>1. TableType
  BY DEF TableType, Statuses
<1>2. EventType
  BY DEF EventType, Events, NoEvent
<1>3. DiskType
  BY DEF DiskType
<1>4. RequestType
  BY DEF RequestType, Steps
<1>5. CleanupType
  BY DEF CleanupType
<1> QED BY <1>1, <1>2, <1>3, <1>4, <1>5 DEF TypeOK

-----------------------------------------------------------------------------
(* Type correctness, one group of actions at a time *)

LEMMA OfferType ==
  ASSUME TypeOK, NEW o \in Offers, OfferStep(o)
  PROVE  TypeOK'
<1> USE Unchanged DEF TypeOK
<1>1. CASE CreateOffer(o)
  <2>1. PrunedStatus \in [Offers -> Statuses]
    BY DEF PrunedStatus, TableType, Statuses, Closed
  <2>2. TableType'
    BY <1>1, <2>1 DEF CreateOffer, TableType, Statuses
  <2>3. EventType'
    <3>1. event' \in Events
      BY <1>1 DEF CreateOffer, Events
    <3> QED BY <1>1, <3>1, WriteType DEF CreateOffer
  <2> QED BY <1>1, <2>2, <2>3 DEF CreateOffer
<1>2. CASE Expire(o)
  <2>1. TableType'
    BY <1>2 DEF Expire, TableType, Statuses, Release
  <2>2. EventType'
    BY <1>2, AnnounceType DEF Expire
  <2> QED BY <1>2, <2>1, <2>2 DEF Expire
<1>3. CASE Decline(o)
  <2>1. TableType'
    BY <1>3 DEF Decline, TableType, Statuses, Release
  <2>2. EventType'
    BY <1>3, AnnounceType DEF Decline
  <2> QED BY <1>3, <2>1, <2>2 DEF Decline
<1>4. CASE Accept(o)
  <2>1. PrunedStatus \in [Offers -> Statuses]
    BY DEF PrunedStatus, TableType, Statuses, Closed
  <2>2. TableType'
    BY <1>4, <2>1 DEF Accept, TableType, Statuses
  <2>3. EventType'
    BY <1>4, AnnounceType DEF Accept
  <2>4. DiskType'
    BY <1>4 DEF Accept, DiskType
  <2> QED BY <1>4, <2>2, <2>3, <2>4 DEF Accept
<1>5. CASE CancelOffer(o)
  <2>1. TableType'
    BY <1>5 DEF CancelOffer, TableType, Statuses, Closed, Release
  <2>2. EventType'
    BY <1>5, AnnounceType DEF CancelOffer
  <2> QED BY <1>5, <2>1, <2>2 DEF CancelOffer
<1>6. CASE CancelAccepted(o) \/ TimeOut(o) \/ PutInvalid(o) \/ CompleteTooEarly(o)
  <2>1. UNCHANGED requestVars /\ (StartCleanup(o, "canceled") \/ StartCleanup(o, "error"))
    BY <1>6 DEF CancelAccepted, TimeOut, PutInvalid, CompleteTooEarly
  <2> QED BY <2>1, StartCleanupType
<1>7. CASE Deadline(o)
  <2>1. TableType'
    BY <1>7 DEF Deadline, TableType
  <2> QED BY <1>7, <2>1 DEF Deadline
<1>8. CASE Stall(o)
  <2>1. TableType'
    BY <1>8 DEF Stall, TableType
  <2> QED BY <1>8, <2>1 DEF Stall
<1> QED
  BY <1>1, <1>2, <1>3, <1>4, <1>5, <1>6, <1>7, <1>8 DEF OfferStep

LEMMA CleanupStepType ==
  ASSUME TypeOK, CleanupOK, CleanupStep
  PROVE  TypeOK'
<1> USE Unchanged DEF TypeOK
<1>1. CASE CleanupList
  <2>1. CleanupType'
    BY <1>1 DEF CleanupList, CleanupType
  <2> QED BY <1>1, <2>1 DEF CleanupList
<1>2. ASSUME NEW f \in Files, CleanupUnlink(f) PROVE TypeOK'
  <2>1. CleanupType'
    BY <1>2 DEF CleanupUnlink, CleanupType
  <2>2. removing \in Offers
    BY <1>2 DEF CleanupUnlink, CleanupType
  <2>3. DiskType'
    BY <1>2, <2>2 DEF CleanupUnlink, DiskType
  <2> QED BY <1>2, <2>1, <2>3 DEF CleanupUnlink
<1>3. CASE CleanupEnd
  <2>1. removing \in Offers /\ outcome \in {"canceled", "error"}
    BY <1>3 DEF CleanupEnd, CleanupType, CleanupOK
  <2>2. TableType'
    BY <1>3, <2>1 DEF CleanupEnd, TableType, Statuses, Closed, Release
  <2>3. EventType'
    BY <1>3, <2>1, AnnounceType DEF CleanupEnd
  <2>4. DiskType'
    BY <1>3, <2>1 DEF CleanupEnd, DiskType
  <2>5. CleanupType'
    BY <1>3 DEF CleanupEnd, NoCleanup, CleanupType
  <2> QED BY <1>3, <2>2, <2>3, <2>4, <2>5 DEF CleanupEnd
<1> QED
  BY <1>1, <1>2, <1>3 DEF CleanupStep

LEMMA RequestStepType ==
  ASSUME TypeOK, RequestsOK, NEW r \in Requests, RequestStep(r)
  PROVE  TypeOK'
<1> USE Unchanged DEF TypeOK
<1> DEFINE o == target[r]
           f == file[r]
<1>0. pc[r] # "idle" => o \in Offers
  BY DEF RequestsOK
<1>1. CASE PutOpen(r)
  <2>1. o \in Offers /\ f \in Files
    BY <1>0, <1>1 DEF PutOpen, RequestsOK
  <2>2. DiskType'
    <3>1. content' \in [Offers -> [Files -> {"absent", "partial", "whole"}]]
      <4>1. content' = [content EXCEPT ![o] = [@ EXCEPT ![f] = "partial"]] \/ UNCHANGED content
        BY <1>1 DEF PutOpen
      <4> QED BY <4>1, <2>1 DEF DiskType
    <3>2. place' \in [Offers -> {Nowhere, InStage} \cup Indexes]
      BY <1>1, <2>1 DEF PutOpen, DiskType
    <3> QED BY <1>1, <3>1, <3>2 DEF PutOpen, DiskType
  <2>3. RequestType'
    BY <1>1, StepType DEF PutOpen, Steps
  <2> QED BY <1>1, <2>2, <2>3 DEF PutOpen
<1>2. CASE PutProgress(r)
  <2>1. TableType'
    BY <1>2 DEF PutProgress, TableType
  <2>2. EventType'
    BY <1>2 DEF PutProgress, WriteEvents, EventType
  <2>3. RequestType'
    BY <1>2 DEF PutProgress, RequestType
  <2> QED BY <1>2, <2>1, <2>2, <2>3 DEF PutProgress
<1>3. CASE PutCopied(r)
  <2>1. DiskType'
    BY <1>3 DEF PutCopied, DiskType
  <2>2. RequestType'
    BY <1>3, StepType DEF PutCopied, Steps
  <2> QED BY <1>3, <2>1, <2>2 DEF PutCopied
<1>4. CASE PutRecord(r)
  <2>1. o \in Offers /\ f \in Files
    BY <1>0, <1>4 DEF PutRecord, RequestsOK
  <2>2. TableType'
    <3>1. received' \in [Offers -> SUBSET Files]
      BY <1>4, <2>1 DEF PutRecord, TableType
    <3>2. stalled' \in [Offers -> BOOLEAN]
      BY <1>4 DEF PutRecord, TableType
    <3> QED BY <1>4, <3>1, <3>2 DEF PutRecord, TableType
  <2>3. EventType'
    BY <1>4 DEF PutRecord, WriteEvents, EventType
  <2> QED BY <1>4, <2>2, <2>3, DoneType DEF PutRecord
<1>5. CASE Abort(r)
  <2>1. o \in Offers
    BY <1>0, <1>5 DEF Abort
  <2> QED BY <1>5, <2>1, DoneType, StartCleanupType DEF Abort
<1>6. CASE ChooseDestination(r)
  <2>1. RequestType'
    <3>1. CASE To(r, "abort")
      BY <3>1, StepType DEF Steps
    <3>2. CASE ~To(r, "abort")
      BY <1>6, <3>2 DEF ChooseDestination, RequestType, Steps
    <3> QED BY <3>1, <3>2
  <2> QED BY <1>6, <2>1 DEF ChooseDestination
<1>7. CASE Publish(r) \/ PublishRename(r)
  <2>1. o \in Offers /\ index[r] \in Indexes
    BY <1>0, <1>7 DEF Publish, PublishRename, RequestType
  <2>2. DiskType'
    BY <1>7, <2>1 DEF Publish, PublishRename, Reveal, DiskType
  <2>3. RequestType'
    BY <1>7, StepType DEF Publish, PublishRename, Steps
  <2> QED BY <1>7, <2>2, <2>3 DEF Publish, PublishRename
<1>10. CASE PublishLook(r)
  BY <1>10, StepType DEF PublishLook, Steps
<1>8. CASE Unstage(r)
  <2>1. DiskType'
    BY <1>8 DEF Unstage, DiskType
  <2>2. RequestType'
    BY <1>8, StepType DEF Unstage, Steps
  <2> QED BY <1>8, <2>1, <2>2 DEF Unstage
<1>9. CASE CompleteFinish(r)
  <2>1. o \in Offers
    BY <1>0, <1>9 DEF CompleteFinish
  <2>2. TableType'
    BY <1>9, <2>1 DEF CompleteFinish, TableType, Statuses, Closed, Release
  <2>3. EventType'
    BY <1>9, <2>1, AnnounceType DEF CompleteFinish
  <2> QED BY <1>9, <2>2, <2>3, DoneType DEF CompleteFinish
<1> QED
  BY <1>1, <1>2, <1>3, <1>4, <1>5, <1>6, <1>7, <1>8, <1>9, <1>10 DEF RequestStep

LEMMA OtherType ==
  ASSUME TypeOK,
         \/ \E r \in Requests, o \in Offers : RequestStart(r, o)
         \/ \E i \in Indexes : LocalCreate(i)
         \/ PruneOnly \/ Crash \/ Close \/ Restart \/ UNCHANGED vars
  PROVE  TypeOK'
<1> USE Unchanged DEF TypeOK
<1>1. ASSUME NEW r \in Requests, NEW o \in Offers, RequestStart(r, o) PROVE TypeOK'
  <2>1. ASSUME NEW f \in Files, PutCheck(r, o, f) PROVE TypeOK'
    <3>1. RequestType'
      BY <2>1, BeginType DEF PutCheck, Steps
    <3> QED BY <2>1, <3>1 DEF PutCheck
  <2>2. ASSUME CompleteCheck(r, o) PROVE TypeOK'
    <3>1. RequestType'
      BY <2>2, BeginType, IndexFacts DEF CompleteCheck, Steps
    <3> QED BY <2>2, <3>1 DEF CompleteCheck
  <2> QED BY <1>1, <2>1, <2>2 DEF RequestStart
<1>2. ASSUME NEW i \in Indexes, LocalCreate(i) PROVE TypeOK'
  <2>1. DiskType'
    BY <1>2 DEF LocalCreate, DiskType
  <2> QED BY <1>2, <2>1 DEF LocalCreate
<1>3. CASE PruneOnly
  <2>1. TableType'
    BY <1>3 DEF PruneOnly, PrunedStatus, PrunedIncoming, TableType, Statuses, Closed
  <2>2. EventType'
    BY <1>3 DEF PruneOnly, PrunedEvent, EventType, Events
  <2> QED BY <1>3, <2>1, <2>2 DEF PruneOnly
<1>4. ASSUME AllIdle PROVE RequestType'
  BY <1>4, IndexFacts DEF AllIdle, RequestType, Steps
<1>5. CASE Crash
  <2>1. TableType'
    BY <1>5 DEF Crash, TableType, Statuses, Closed
  <2>2. EventType'
    BY <1>5 DEF Crash, EventType, Events, NoEvent
  <2>3. CleanupType'
    BY <1>5 DEF Crash, NoCleanup, CleanupType
  <2> QED BY <1>4, <1>5, <2>1, <2>2, <2>3 DEF Crash
<1>6. CASE Close
  <2>1. TableType'
    BY <1>6 DEF Close, TableType, Statuses, Closed
  <2>2. EventType'
    <3>1. event' \in Events
      BY <1>6 DEF Close, Events, NoEvent
    <3> QED BY <1>6, <3>1, WriteType DEF Close
  <2>3. DiskType'
    BY <1>6 DEF Close, DiskType
  <2> QED BY <1>4, <1>6, <2>1, <2>2, <2>3 DEF Close
<1>7. CASE Restart
  <2>1. EventType'
    BY <1>7 DEF Restart, EventType
  <2>2. DiskType'
    BY <1>7 DEF Restart, DiskType
  <2> QED BY <1>7, <2>1, <2>2 DEF Restart
<1>8. CASE UNCHANGED vars
  BY <1>8 DEF vars
<1> QED
  BY <1>1, <1>2, <1>3, <1>5, <1>6, <1>7, <1>8

-----------------------------------------------------------------------------
(* Requests name live arguments, and cleanups accepted offers *)

LEMMA RequestsKept ==
  ASSUME TypeOK, RequestsOK, [Next]_vars
  PROVE  RequestsOK'
<1> USE DEF RequestsOK
<1>1. CASE UNCHANGED requestVars
  BY <1>1 DEF requestVars
<1>2. ASSUME NEW r \in Requests, Done(r) PROVE RequestsOK'
  BY <1>2 DEF Done, Begin, TypeOK, RequestType
<1>3. ASSUME NEW r \in Requests, RequestStep(r) PROVE RequestsOK'
  <2> USE DEF TypeOK, RequestType
  <2>1. CASE PutOpen(r)
    BY <1>3, <2>1 DEF PutOpen, To
  <2>2. CASE PutProgress(r)
    BY <2>2 DEF PutProgress
  <2>3. CASE PutCopied(r)
    BY <2>3 DEF PutCopied, To
  <2>4. CASE PutRecord(r) \/ Abort(r) \/ CompleteFinish(r)
    BY <1>2, <2>4 DEF PutRecord, Abort, CompleteFinish
  <2>5. CASE ChooseDestination(r)
    BY <2>5 DEF ChooseDestination, To
  <2>6. CASE Publish(r) \/ PublishLook(r) \/ PublishRename(r)
    BY <2>6 DEF Publish, PublishLook, PublishRename, To
  <2>7. CASE Unstage(r)
    BY <2>7 DEF Unstage, To
  <2> QED
    BY <1>3, <2>1, <2>2, <2>3, <2>4, <2>5, <2>6, <2>7 DEF RequestStep
<1>4. ASSUME NEW r \in Requests, NEW o \in Offers, RequestStart(r, o) PROVE RequestsOK'
  BY <1>4 DEF RequestStart, PutCheck, CompleteCheck, Begin, TypeOK, RequestType
<1>5. CASE Crash \/ Close
  BY <1>5 DEF Crash, Close, AllIdle
<1>6. ASSUME NEW o \in Offers, OfferStep(o) PROVE UNCHANGED requestVars
  BY <1>6 DEF OfferStep, CreateOffer, Expire, Decline, Accept, CancelOffer, CancelAccepted,
              TimeOut, PutInvalid, CompleteTooEarly, Deadline, Stall
<1>7. CASE PruneOnly \/ CleanupStep \/ Restart \/ (\E i \in Indexes : LocalCreate(i))
           \/ UNCHANGED vars
  BY <1>1, <1>7 DEF PruneOnly, CleanupStep, CleanupList, CleanupUnlink, CleanupEnd, Restart,
                    LocalCreate, vars
<1> QED
  BY <1>1, <1>3, <1>4, <1>5, <1>6, <1>7 DEF Next

LEMMA StatusForward ==
  ASSUME TypeOK, CleanupOK, [Next]_vars, NEW p \in Offers, Settled(p)
  PROVE  Settled(p)'
<1> USE DEF Settled
<1>1. CASE UNCHANGED status
  BY <1>1
<1>2. CASE status' = PrunedStatus
  BY <1>2 DEF PrunedStatus, Due, Prunable, Closed
<1>3. ASSUME NEW o \in Offers, OfferStep(o) PROVE Settled(p)'
  <2> USE DEF TypeOK, TableType, Closed
  <2>1. CASE CreateOffer(o)
    BY <2>1 DEF CreateOffer, PrunedStatus, Due, Prunable
  <2>2. CASE Accept(o)
    BY <2>2 DEF Accept, PrunedStatus, Due, Prunable
  <2>3. CASE Expire(o) \/ Decline(o) \/ CancelOffer(o)
    BY <2>3 DEF Expire, Decline, CancelOffer
  <2>4. CASE CancelAccepted(o) \/ TimeOut(o) \/ PutInvalid(o) \/ CompleteTooEarly(o)
    BY <1>1, <2>4 DEF CancelAccepted, TimeOut, PutInvalid, CompleteTooEarly, StartCleanup,
                      tableVars
  <2>5. CASE Deadline(o) \/ Stall(o)
    BY <1>1, <2>5 DEF Deadline, Stall
  <2> QED
    BY <1>3, <2>1, <2>2, <2>3, <2>4, <2>5 DEF OfferStep
<1>4. CASE CleanupStep
  <2>1. CASE CleanupEnd
    BY <2>1 DEF CleanupEnd, CleanupOK, CleanupType, TypeOK, TableType, Closed
  <2> QED
    BY <1>1, <1>4, <2>1 DEF CleanupStep, CleanupList, CleanupUnlink, tableVars
<1>5. ASSUME NEW r \in Requests, RequestStep(r) PROVE Settled(p)'
  <2>1. CASE CompleteFinish(r)
    BY <2>1 DEF CompleteFinish, TypeOK, TableType, Closed
  <2> QED
    BY <1>1, <1>5, <2>1 DEF RequestStep, PutOpen, PutProgress, PutCopied, PutRecord, Abort,
       StartCleanup, ChooseDestination, Publish, PublishLook, PublishRename, Unstage, tableVars
<1>6. CASE \E r \in Requests, o \in Offers : RequestStart(r, o)
  BY <1>1, <1>6 DEF RequestStart, PutCheck, CompleteCheck, tableVars
<1>7. CASE Crash \/ Close
  BY <1>7 DEF Crash, Close, Closed
<1>8. CASE Restart \/ (\E i \in Indexes : LocalCreate(i)) \/ UNCHANGED vars
  BY <1>1, <1>8 DEF Restart, LocalCreate, tableVars, vars
<1>9. CASE PruneOnly
  BY <1>2, <1>9 DEF PruneOnly
<1> QED
  BY <1>3, <1>4, <1>5, <1>6, <1>7, <1>8, <1>9 DEF Next

\* A request that is under way after a step was so before, for the same offer,
\* or has just found the offer accepted.
LEMMA RequestOrigin ==
  ASSUME TypeOK, [Next]_vars, NEW q \in Requests, pc'[q] # "idle"
  PROVE  \/ pc[q] # "idle" /\ target'[q] = target[q]
         \/ target'[q] \in Offers /\ status[target'[q]] = "accepted"
<1> USE DEF TypeOK, RequestType
<1>1. CASE UNCHANGED requestVars
  BY <1>1 DEF requestVars
<1>2. ASSUME NEW r \in Requests, RequestStep(r), r = q PROVE pc[q] # "idle" /\ target'[q] = target[q]
  BY <1>2 DEF RequestStep, PutOpen, PutProgress, PutCopied, PutRecord, Abort, ChooseDestination,
              Publish, PublishLook, PublishRename, Unstage, CompleteFinish, To, Done, Begin
<1>3. ASSUME NEW r \in Requests, RequestStep(r), r # q PROVE pc[q] # "idle" /\ target'[q] = target[q]
  BY <1>3 DEF RequestStep, PutOpen, PutProgress, PutCopied, PutRecord, Abort, ChooseDestination,
              Publish, PublishLook, PublishRename, Unstage, CompleteFinish, To, Done, Begin
<1>4. ASSUME NEW r \in Requests, NEW o \in Offers, RequestStart(r, o)
      PROVE  \/ pc[q] # "idle" /\ target'[q] = target[q]
             \/ target'[q] \in Offers /\ status[target'[q]] = "accepted"
  BY <1>4 DEF RequestStart, PutCheck, CompleteCheck, Begin
<1>5. CASE Crash \/ Close
  BY <1>5 DEF Crash, Close, AllIdle
<1>6. ASSUME NEW o \in Offers, OfferStep(o) PROVE UNCHANGED requestVars
  BY <1>6 DEF OfferStep, CreateOffer, Expire, Decline, Accept, CancelOffer, CancelAccepted,
              TimeOut, PutInvalid, CompleteTooEarly, Deadline, Stall
<1>7. CASE PruneOnly \/ CleanupStep \/ Restart \/ (\E i \in Indexes : LocalCreate(i))
           \/ UNCHANGED vars
  BY <1>1, <1>7 DEF PruneOnly, CleanupStep, CleanupList, CleanupUnlink, CleanupEnd, Restart,
                    LocalCreate, vars
<1> QED
  BY <1>1, <1>2, <1>3, <1>4, <1>5, <1>6, <1>7 DEF Next

LEMMA TargetsKept ==
  ASSUME TypeOK, RequestsOK, CleanupOK, TargetsOK, [Next]_vars
  PROVE  TargetsOK'
<1> SUFFICES ASSUME NEW q \in Requests, pc'[q] # "idle" PROVE Settled(target[q])'
  BY DEF TargetsOK
<1>1. target'[q] \in Offers /\ Settled(target'[q])
  BY RequestOrigin DEF TargetsOK, RequestsOK, Settled
<1> QED BY <1>1, StatusForward DEF Settled

LEMMA CleanupKept ==
  ASSUME TypeOK, RequestsOK, CleanupOK, TargetsOK, [Next]_vars
  PROVE  CleanupOK'
<1> USE DEF CleanupOK
<1>1. CASE UNCHANGED <<up, status, removing, outcome>>
  BY <1>1
<1>2. CASE removing' = None
  BY <1>2
<1>3. ASSUME NEW o \in Offers, status[o] = "accepted", Unlocked,
             StartCleanup(o, "canceled") \/ StartCleanup(o, "error")
      PROVE  CleanupOK'
  BY <1>3 DEF StartCleanup, Unlocked, tableVars
<1>4. ASSUME NEW o \in Offers, OfferStep(o) PROVE CleanupOK'
  <2>1. CASE CreateOffer(o) \/ Expire(o) \/ Decline(o) \/ Accept(o) \/ CancelOffer(o)
    BY <1>2, <2>1 DEF CreateOffer, Expire, Decline, Accept, CancelOffer, Unlocked, cleanupVars
  <2>2. CASE CancelAccepted(o) \/ TimeOut(o) \/ PutInvalid(o) \/ CompleteTooEarly(o)
    BY <1>3, <2>2 DEF CancelAccepted, TimeOut, PutInvalid, CompleteTooEarly
  <2>3. CASE Deadline(o) \/ Stall(o)
    BY <1>1, <2>3 DEF Deadline, Stall, cleanupVars
  <2> QED
    BY <1>4, <2>1, <2>2, <2>3 DEF OfferStep
<1>5. CASE CleanupStep
  BY <1>5 DEF CleanupStep, CleanupList, CleanupUnlink, CleanupEnd, NoCleanup, tableVars
<1>6. ASSUME NEW r \in Requests, RequestStep(r) PROVE CleanupOK'
  <2>1. CASE Abort(r)
    <3>1. target[r] \in Offers /\ Settled(target[r])
      BY <2>1 DEF Abort, RequestsOK, TargetsOK
    <3>2. CASE InTable(target[r])
      BY <1>3, <2>1, <3>1, <3>2 DEF Abort, InTable, Settled, Closed
    <3> QED
      BY <1>1, <2>1, <3>2 DEF Abort, tableVars, cleanupVars
  <2>2. CASE PutRecord(r) \/ CompleteFinish(r)
    BY <1>2, <2>2 DEF PutRecord, CompleteFinish, Unlocked, cleanupVars
  <2> QED
    BY <1>1, <1>6, <2>1, <2>2 DEF RequestStep, PutOpen, PutProgress, PutCopied,
       ChooseDestination, Publish, PublishLook, PublishRename, Unstage, tableVars, cleanupVars
<1>7. CASE \E r \in Requests, o \in Offers : RequestStart(r, o)
  BY <1>1, <1>7 DEF RequestStart, PutCheck, CompleteCheck, tableVars, cleanupVars
<1>8. CASE PruneOnly \/ Crash \/ Close
  BY <1>2, <1>8 DEF PruneOnly, Crash, Close, NoCleanup, Unlocked, cleanupVars
<1>9. CASE Restart \/ (\E i \in Indexes : LocalCreate(i)) \/ UNCHANGED vars
  BY <1>1, <1>9 DEF Restart, LocalCreate, tableVars, cleanupVars, vars
<1> QED
  BY <1>4, <1>5, <1>6, <1>7, <1>8, <1>9 DEF Next

\* Type correctness of every behaviour: in particular a request never acts on
\* an offer it has not found accepted, and RemoveAll only on an accepted one.
LEMMA TypingInvariant == Spec => []Typing
<1>1. Init => Typing
  BY InitType DEF Init, InitWith, Typing, RequestsOK, CleanupOK, TargetsOK
<1>2. Typing /\ [Next]_vars => Typing'
  <2> SUFFICES ASSUME Typing, [Next]_vars PROVE Typing'
    OBVIOUS
  <2>1. TypeOK /\ RequestsOK /\ CleanupOK /\ TargetsOK
    BY DEF Typing
  <2>2. TypeOK'
    BY <2>1, OfferType, CleanupStepType, RequestStepType, OtherType DEF Next
  <2> QED
    BY <2>1, <2>2, RequestsKept, CleanupKept, TargetsKept DEF Typing
<1> QED BY <1>1, <1>2, PTL DEF Spec

\* Every variable of the offer table, the events, the disk, the requests and
\* the cleanup in progress keeps its type, for any number of each.
THEOREM TypeCorrect == Spec => []TypeOK
BY TypingInvariant, PTL DEF Typing

-----------------------------------------------------------------------------
(* The slot, the event and the event file *)

SlotOK == SlotHeld /\ EventMatchesIncoming /\ EventFileCurrent

LEMMA OfferSlot ==
  ASSUME Typing, SlotOK, NEW o \in Offers, OfferStep(o)
  PROVE  SlotOK'
<1> USE DEF Typing, TypeOK, TableType, SlotOK
<1>1. CASE CreateOffer(o)
  <2>1. \A p \in Offers \ {o} : status'[p] \notin {"pending", "accepted"}
    BY <1>1 DEF CreateOffer, PrunedStatus, PrunedIncoming, Due, Prunable, SlotHeld
  <2>2. status'[o] = "pending" /\ incoming' = o
    BY <1>1 DEF CreateOffer, PrunedStatus
  <2>3. SlotHeld'
    BY <2>1, <2>2 DEF SlotHeld
  <2> QED
    BY <1>1, <2>2, <2>3 DEF CreateOffer, WriteEvents, EventMatchesIncoming, EventFileCurrent
<1>2. CASE Expire(o) \/ Decline(o) \/ CancelOffer(o)
  <2>1. SlotHeld'
    BY <1>2 DEF Expire, Decline, CancelOffer, SlotHeld, Release
  <2>2. EventMatchesIncoming'
    BY <1>2 DEF Expire, Decline, CancelOffer, SlotHeld, EventMatchesIncoming, Release, Announce
  <2>3. EventFileCurrent'
    BY <1>2 DEF Expire, Decline, CancelOffer, EventFileCurrent, Announce, WriteEvents
  <2> QED BY <2>1, <2>2, <2>3
<1>3. CASE Accept(o)
  <2>1. \A p \in Offers \ {o} : status[p] \notin {"pending", "accepted"}
    BY <1>3 DEF Accept, SlotHeld
  <2>2. \A p \in Offers \ {o} : status'[p] \notin {"pending", "accepted"}
    BY <1>3, <2>1 DEF Accept, PrunedStatus, Due, Prunable
  <2>3. status'[o] = "accepted" /\ incoming = o /\ incoming' = o
    BY <1>3 DEF Accept, PrunedStatus
  <2>4. SlotHeld'
    BY <2>2, <2>3 DEF SlotHeld
  <2>5. EventMatchesIncoming' /\ EventFileCurrent'
    BY <1>3, <2>3 DEF Accept, Announce, WriteEvents, EventMatchesIncoming, EventFileCurrent
  <2> QED BY <2>4, <2>5
<1>4. CASE CancelAccepted(o) \/ TimeOut(o) \/ PutInvalid(o) \/ CompleteTooEarly(o)
  <2>1. UNCHANGED <<up, tableVars, eventVars>>
    BY <1>4 DEF CancelAccepted, TimeOut, PutInvalid, CompleteTooEarly, StartCleanup
  <2> QED
    BY <2>1 DEF tableVars, eventVars, SlotHeld, EventMatchesIncoming, EventFileCurrent
<1>5. CASE Deadline(o) \/ Stall(o)
  BY <1>5 DEF Deadline, Stall, eventVars, SlotHeld, EventMatchesIncoming, EventFileCurrent
<1> QED
  BY <1>1, <1>2, <1>3, <1>4, <1>5 DEF OfferStep

LEMMA CleanupSlot ==
  ASSUME Typing, SlotOK, CleanupStep
  PROVE  SlotOK'
<1> USE DEF Typing, TypeOK, TableType, SlotOK
<1>1. CASE CleanupEnd
  <2>1. /\ removing \in Offers
        /\ status[removing] = "accepted"
        /\ outcome \in {"canceled", "error"}
    BY <1>1 DEF CleanupEnd, CleanupOK, CleanupType
  <2>2. SlotHeld'
    BY <1>1, <2>1 DEF CleanupEnd, SlotHeld, Release
  <2>3. EventMatchesIncoming'
    BY <1>1, <2>1 DEF CleanupEnd, SlotHeld, EventMatchesIncoming, Release, Announce
  <2>4. EventFileCurrent'
    BY <1>1 DEF CleanupEnd, EventFileCurrent, Announce, WriteEvents
  <2> QED BY <2>2, <2>3, <2>4
<1>2. CASE UNCHANGED <<up, tableVars, eventVars>>
  BY <1>2 DEF tableVars, eventVars, SlotHeld, EventMatchesIncoming, EventFileCurrent
<1> QED
  BY <1>1, <1>2 DEF CleanupStep, CleanupList, CleanupUnlink

LEMMA RequestSlot ==
  ASSUME Typing, SlotOK, NEW r \in Requests, RequestStep(r)
  PROVE  SlotOK'
<1> USE DEF Typing, TypeOK, TableType, SlotOK
<1>1. CASE UNCHANGED <<up, tableVars, eventVars>>
  BY <1>1 DEF tableVars, eventVars, SlotHeld, EventMatchesIncoming, EventFileCurrent
<1>2. CASE PutProgress(r) \/ PutRecord(r)
  <2>1. UNCHANGED <<up, status, incoming, event>>
    BY <1>2 DEF PutProgress, PutRecord, eventVars
  <2>2. WriteEvents \/ UNCHANGED <<eventFile, unwritten>>
    BY <1>2 DEF PutProgress, PutRecord, eventVars
  <2>3. EventFileCurrent'
    BY <2>1, <2>2 DEF WriteEvents, EventFileCurrent
  <2> QED
    BY <2>1, <2>3 DEF SlotHeld, EventMatchesIncoming
<1>3. CASE CompleteFinish(r)
  <2>1. target[r] \in Offers
    BY <1>3 DEF CompleteFinish, RequestsOK
  <2>2. SlotHeld'
    BY <1>3, <2>1 DEF CompleteFinish, SlotHeld, Release, InTable
  <2>3. incoming' # None => incoming' = incoming /\ incoming # target[r]
                            /\ status'[incoming] = status[incoming]
    <3>1. status[target[r]] \in {"accepted"} \cup Closed
      BY <1>3 DEF CompleteFinish, TargetsOK, Settled
    <3> QED
      BY <1>3, <2>1, <3>1 DEF CompleteFinish, Release, InTable, SlotHeld, Closed
  <2>4. EventMatchesIncoming'
    BY <1>3, <2>3 DEF CompleteFinish, EventMatchesIncoming, Announce
  <2>5. EventFileCurrent'
    BY <1>3 DEF CompleteFinish, EventFileCurrent, Announce, WriteEvents
  <2> QED BY <2>2, <2>4, <2>5
<1>4. CASE Abort(r)
  BY <1>1, <1>4 DEF Abort, StartCleanup
<1> QED
  BY <1>1, <1>2, <1>3, <1>4 DEF RequestStep, PutOpen, PutCopied, ChooseDestination, Publish, PublishLook, PublishRename, Unstage

LEMMA OtherSlot ==
  ASSUME Typing, SlotOK,
         \/ \E r \in Requests, o \in Offers : RequestStart(r, o)
         \/ \E i \in Indexes : LocalCreate(i)
         \/ PruneOnly \/ Crash \/ Close \/ Restart \/ UNCHANGED vars
  PROVE  SlotOK'
<1> USE DEF Typing, TypeOK, TableType, SlotOK
<1>1. CASE UNCHANGED <<up, tableVars, eventVars>>
  BY <1>1 DEF tableVars, eventVars, SlotHeld, EventMatchesIncoming, EventFileCurrent
<1>2. CASE PruneOnly
  <2>1. SlotHeld'
    BY <1>2 DEF PruneOnly, PrunedStatus, PrunedIncoming, Due, Prunable, SlotHeld
  <2>2. \/ incoming # None /\ Due(incoming)
        \/ UNCHANGED <<incoming, event>> /\ (incoming # None => status'[incoming] = status[incoming])
    BY <1>2 DEF PruneOnly, PrunedStatus, PrunedIncoming, PrunedEvent, Due, Prunable, SlotHeld,
                EventMatchesIncoming, EventType, Events
  <2>3. EventMatchesIncoming'
    BY <1>2, <2>2 DEF PruneOnly, PrunedIncoming, EventMatchesIncoming
  <2>4. EventFileCurrent'
    BY <1>2, <2>2 DEF PruneOnly, PrunedEvent, Due, SlotHeld, EventMatchesIncoming, EventFileCurrent,
                EventType, Events
  <2> QED BY <2>1, <2>3, <2>4
<1>3. CASE Crash \/ Close
  BY <1>3 DEF Crash, Close, InTable, SlotHeld, EventMatchesIncoming, EventFileCurrent
<1>4. CASE Restart
  BY <1>4 DEF Restart, tableVars, SlotHeld, EventMatchesIncoming, EventFileCurrent
<1> QED
  BY <1>1, <1>2, <1>3, <1>4 DEF RequestStart, PutCheck, CompleteCheck, LocalCreate, eventVars, vars

LEMMA SlotInvariant == Spec => [](Typing /\ SlotOK)
<1>1. Init => SlotOK
  BY DEF Init, InitWith, SlotOK, SlotHeld, EventMatchesIncoming, EventFileCurrent
<1>2. Typing /\ SlotOK /\ [Next]_vars => SlotOK'
  BY OfferSlot, CleanupSlot, RequestSlot, OtherSlot DEF Next
<1> QED BY <1>1, <1>2, TypingInvariant, PTL DEF Spec

\* At most one offer is pending or accepted, it is the one in the slot, and the
\* event is about it, whatever ends late for another.
THEOREM SlotAgrees == Spec => []OneIncoming
BY SlotInvariant, PTL DEF SlotOK, OneIncoming

\* The event file is behind the event only if the last write of it failed or
\* pruneLocked expired the offer that is shown.
THEOREM EventFileAgrees == Spec => []EventFileCurrent
BY SlotInvariant, PTL DEF SlotOK

-----------------------------------------------------------------------------
(* The promise of PeerOffers *)

PhaseOf(s) == IF s \in {"new", "pending", "accepted", "complete"} THEN s ELSE "over"

LEMMA PhaseValue == \A o \in Offers : Phase[o] = PhaseOf(status[o])
BY DEF Phase, PhaseOf

\* When one status changes, the phase moves like it.
LEMMA PhaseMove ==
  ASSUME Typing, NEW o \in Offers, NEW s, status' = [status EXCEPT ![o] = s]
  PROVE  Phase' = [Phase EXCEPT ![o] = PhaseOf(s)]
BY DEF Typing, TypeOK, TableType, Phase, PhaseOf

LEMMA EndStep ==
  ASSUME Typing, NEW o \in Offers, status[o] \in {"pending", "accepted"},
         Phase' = [Phase EXCEPT ![o] = "over"]
  PROVE  Promise!Next
BY PhaseValue DEF PhaseOf, Promise!Next, Promise!End, Promise!Move

LEMMA OfferPromise ==
  ASSUME Typing, SlotOK, NEW o \in Offers, OfferStep(o)
  PROVE  Promise!Next \/ UNCHANGED Phase
<1> USE DEF Typing, TypeOK, TableType
<1>1. CASE CreateOffer(o)
  <2>1. Phase[o] = "new"
    BY <1>1, PhaseValue DEF CreateOffer, PhaseOf
  <2>2. CASE incoming = None
    <3>1. \A p \in Offers : ~Promise!Open(p)
      BY <2>2, PhaseValue DEF SlotOK, SlotHeld, Promise!Open, PhaseOf
    <3>2. Phase' = [Phase EXCEPT ![o] = "pending"]
      BY <1>1, <2>2 DEF CreateOffer, PrunedStatus, Prunable, Due, SlotOK, SlotHeld, Phase
    <3> QED
      BY <2>1, <3>1, <3>2 DEF Promise!Next, Promise!Ask, Promise!Move
  <2>3. CASE incoming # None
    <3> DEFINE p == incoming
    <3>1. p \in Offers /\ Due(p) /\ p # o
      BY <1>1, <2>3 DEF CreateOffer, PrunedIncoming, Due
    <3>2. Phase[p] = "pending" /\ \A q \in Offers \ {p} : ~Promise!Open(q)
      BY <3>1, PhaseValue DEF Due, SlotOK, SlotHeld, Promise!Open, PhaseOf
    <3>3. Phase' = [Phase EXCEPT ![p] = "over", ![o] = "pending"]
      BY <1>1, <3>1 DEF CreateOffer, PrunedStatus, Prunable, Due, SlotOK, SlotHeld, Phase
    <3> QED
      BY <2>1, <3>1, <3>2, <3>3 DEF Promise!Next, Promise!Replace
  <2> QED BY <2>2, <2>3
<1>2. CASE Expire(o) \/ Decline(o) \/ CancelOffer(o)
  <2>1. \E s \in {"expired", "declined", "canceled"} : status' = [status EXCEPT ![o] = s]
    BY <1>2 DEF Expire, Decline, CancelOffer
  <2>2. Phase' = [Phase EXCEPT ![o] = "over"]
    BY <2>1, PhaseMove DEF PhaseOf
  <2>3. CASE status[o] = "pending"
    BY <2>2, <2>3, EndStep
  <2>4. CASE status[o] # "pending"
    BY <1>2, <2>2, <2>4 DEF Expire, Decline, CancelOffer, Phase
  <2> QED BY <2>3, <2>4
<1>3. CASE Accept(o)
  <2>1. status[o] = "pending"
    BY <1>3 DEF Accept, PrunedStatus, Due
  <2>2. Phase' = [Phase EXCEPT ![o] = "accepted"]
    BY <1>3, <2>1 DEF Accept, PrunedStatus, Prunable, Due, SlotOK, SlotHeld, Phase
  <2> QED
    BY <2>1, <2>2, PhaseValue DEF PhaseOf, Promise!Next, Promise!Approve, Promise!Move
<1>4. CASE CancelAccepted(o) \/ TimeOut(o) \/ PutInvalid(o) \/ CompleteTooEarly(o)
  BY <1>4 DEF CancelAccepted, TimeOut, PutInvalid, CompleteTooEarly, StartCleanup, tableVars, Phase
<1>5. CASE Deadline(o) \/ Stall(o)
  BY <1>5 DEF Deadline, Stall, Phase
<1> QED
  BY <1>1, <1>2, <1>3, <1>4, <1>5 DEF OfferStep

LEMMA OtherPromise ==
  ASSUME Typing, SlotOK, [Next]_vars, ~\E o \in Offers : OfferStep(o)
  PROVE  Promise!Next \/ UNCHANGED Phase
<1> USE DEF Typing, TypeOK, TableType
<1>1. CASE UNCHANGED status
  BY <1>1 DEF Phase
<1>2. CASE PruneOnly
  <2>1. CASE incoming # None /\ Due(incoming)
    <3>1. Phase' = [Phase EXCEPT ![incoming] = "over"]
      BY <1>2, <2>1 DEF PruneOnly, PrunedStatus, Prunable, Due, SlotOK, SlotHeld, Phase
    <3> QED BY <2>1, <3>1, EndStep DEF Due
  <2>2. CASE ~(incoming # None /\ Due(incoming))
    BY <1>2, <2>2 DEF PruneOnly, PrunedStatus, Prunable, Due, SlotOK, SlotHeld, Phase
  <2> QED BY <2>1, <2>2
<1>3. CASE CleanupEnd
  <2>1. /\ removing \in Offers
        /\ status[removing] = "accepted"
        /\ outcome \in {"canceled", "error"}
        /\ status' = [status EXCEPT ![removing] = outcome]
    BY <1>3 DEF CleanupEnd, CleanupOK, CleanupType
  <2>2. Phase' = [Phase EXCEPT ![removing] = "over"]
    BY <2>1, PhaseMove DEF PhaseOf
  <2> QED BY <2>1, <2>2, EndStep
<1>4. ASSUME NEW r \in Requests, CompleteFinish(r) PROVE Promise!Next \/ UNCHANGED Phase
  <2>1. target[r] \in Offers /\ Settled(target[r])
    BY <1>4 DEF CompleteFinish, RequestsOK, TargetsOK
  <2>2. CASE InTable(target[r])
    <3>1. status[target[r]] = "accepted"
      BY <2>1, <2>2 DEF Settled, InTable, Closed
    <3>2. Phase' = [Phase EXCEPT ![target[r]] = "complete"]
      BY <1>4, <2>1, <2>2, PhaseMove DEF CompleteFinish, PhaseOf
    <3> QED
      BY <2>1, <3>1, <3>2, PhaseValue DEF PhaseOf, Promise!Next, Promise!Complete, Promise!Move
  <2> QED BY <1>1, <1>4, <2>2 DEF CompleteFinish
<1>5. CASE Crash \/ Close
  <2>1. status' = [o \in Offers |-> IF InTable(o) THEN "lost" ELSE status[o]]
    BY <1>5 DEF Crash, Close
  <2>2. CASE incoming = None
    BY <2>1, <2>2 DEF SlotOK, SlotHeld, InTable, Phase
  <2>3. CASE incoming # None
    <3>1. Phase' = [Phase EXCEPT ![incoming] = "over"]
      BY <2>1, <2>3 DEF SlotOK, SlotHeld, InTable, Phase
    <3> QED BY <2>3, <3>1, EndStep DEF SlotOK, SlotHeld
  <2> QED BY <2>2, <2>3
<1>6. ASSUME NEW r \in Requests, RequestStep(r), ~CompleteFinish(r) PROVE UNCHANGED status
  BY <1>6 DEF RequestStep, PutOpen, PutProgress, PutCopied, PutRecord, Abort, StartCleanup,
              ChooseDestination, Publish, PublishLook, PublishRename, Unstage, tableVars
<1>7. CASE CleanupStep /\ ~CleanupEnd
  BY <1>1, <1>7 DEF CleanupStep, CleanupList, CleanupUnlink, tableVars
<1>8. CASE \/ \E r \in Requests, o \in Offers : RequestStart(r, o)
           \/ \E i \in Indexes : LocalCreate(i)
           \/ Restart \/ UNCHANGED vars
  BY <1>1, <1>8 DEF RequestStart, PutCheck, CompleteCheck, LocalCreate, Restart, tableVars, vars
<1> QED
  BY <1>1, <1>2, <1>3, <1>4, <1>5, <1>6, <1>7, <1>8 DEF Next

\* The receiver, with its mutex dropped in the middle of requests, its prunings
\* and its crashes, implements PeerOffers for any number of offers.
THEOREM ReceiverKeepsPromise == Spec => KeepsPromise
<1>1. Init => Promise!Init
  BY DEF Init, InitWith, Promise!Init, Phase
<1>2. Typing /\ SlotOK /\ [Next]_vars => [Promise!Next]_Phase
  BY OfferPromise, OtherPromise
<1> QED BY <1>1, <1>2, SlotInvariant, PTL DEF Spec, KeepsPromise, Promise!Spec

-----------------------------------------------------------------------------
(***************************************************************************)
(* The files: what is recorded as received is on the disk, a completed     *)
(* offer is published whole, and publication replaces nothing.             *)
(***************************************************************************)


\* The offer is being transferred and nobody removes its stage.
Live(o) == status[o] = "accepted" /\ removing # o

\* It is live after the step.
StaysLive(o) == status'[o] = "accepted" /\ removing' # o

\* A process that is down has no offers; no offer has received a file it did
\* not declare, and one that was not accepted has received nothing.
TableOK ==
  /\ ~up => \A o \in Offers : ~InTable(o)
  /\ \A o \in Offers : /\ received[o] \subseteq Manifest[o]
                       /\ ~Settled(o) => received[o] = {}

\* The payload of a single file exists wherever it is.
PlacedOK ==
  \A o \in Offers \ Folders :
    place[o] # Nowhere => \A f \in Manifest[o] : content[o][f] # "absent"

\* A PUT of a live offer has created its file, and then written it in full.
PutsOK ==
  \A r \in Requests :
    Live(target[r]) => /\ pc[r] = "copy" => content[target[r]][file[r]] # "absent"
                       /\ pc[r] = "record" => content[target[r]][file[r]] = "whole"

\* A POST publishes an offer that has received everything.
PostsOK ==
  \A r \in Requests :
    /\ pc[r] \in {"choose", "publish", "rename", "unstage", "finish"} /\ Live(target[r])
         => received[target[r]] = Manifest[target[r]]
    /\ pc[r] \in {"unstage", "finish"} => place[target[r]] \in Indexes

\* Only behind a publication is a file staged again.
LateOK == \A o \in late : Settled(o) /\ place[o] \in Indexes

DiskOK ==
  /\ Typing /\ TableOK /\ PlacedOK /\ LateOK /\ ReceivedOnDisk
  /\ PutsOK /\ PostsOK /\ CompleteIsWhole

USE NoneAssumption, ManifestAssumption, BoundAssumption DEF DiskOK, Typing

-----------------------------------------------------------------------------
(* How a step changes one offer *)

\* Only a pending offer is accepted, and only an accepted one is removed.
LEMMA LiveOrigin ==
  ASSUME DiskOK, [Next]_vars, NEW o \in Offers, StaysLive(o)
  PROVE  Live(o) \/ ~Settled(o)
<1> USE DEF Live, StaysLive, TypeOK, TableType
<1>1. CASE UNCHANGED <<status, removing>>
  BY <1>1
<1>2. CASE removing = None /\ status' = PrunedStatus
  BY <1>2 DEF PrunedStatus, Due, Prunable, Settled, Closed
<1>3. ASSUME NEW p \in Offers, OfferStep(p) PROVE Live(o) \/ ~Settled(o)
  <2>1. CASE CreateOffer(p)
    BY <2>1 DEF CreateOffer, PrunedStatus, Due, Prunable, Settled, Closed, Unlocked
  <2>2. CASE Accept(p)
    BY <2>2 DEF Accept, PrunedStatus, Due, Prunable, Settled, Closed, Unlocked
  <2>3. CASE Expire(p) \/ Decline(p) \/ CancelOffer(p)
    BY <2>3 DEF Expire, Decline, CancelOffer, Unlocked
  <2>4. CASE CancelAccepted(p) \/ TimeOut(p) \/ PutInvalid(p) \/ CompleteTooEarly(p)
    BY <2>4 DEF CancelAccepted, TimeOut, PutInvalid, CompleteTooEarly, StartCleanup, tableVars,
                Unlocked
  <2>5. CASE Deadline(p) \/ Stall(p)
    BY <1>1, <2>5 DEF Deadline, Stall, cleanupVars
  <2> QED
    BY <1>3, <2>1, <2>2, <2>3, <2>4, <2>5 DEF OfferStep
<1>4. CASE CleanupStep
  <2>1. CASE CleanupEnd
    BY <2>1 DEF CleanupEnd, CleanupOK, CleanupType
  <2> QED
    BY <1>1, <1>4, <2>1 DEF CleanupStep, CleanupList, CleanupUnlink, tableVars
<1>5. ASSUME NEW r \in Requests, RequestStep(r) PROVE Live(o) \/ ~Settled(o)
  <2>1. CASE Abort(r) \/ CompleteFinish(r)
    BY <2>1 DEF Abort, StartCleanup, CompleteFinish, Unlocked, tableVars
  <2> QED
    BY <1>1, <1>5, <2>1 DEF RequestStep, PutOpen, PutProgress, PutCopied, PutRecord,
       ChooseDestination, Publish, PublishLook, PublishRename, Unstage, tableVars, cleanupVars
<1>6. CASE Crash \/ Close
  BY <1>6 DEF Crash, Close, InTable
<1>7. CASE \/ \E r \in Requests, p \in Offers : RequestStart(r, p)
           \/ \E i \in Indexes : LocalCreate(i)
           \/ Restart \/ UNCHANGED vars
  BY <1>1, <1>7 DEF RequestStart, PutCheck, CompleteCheck, LocalCreate, Restart, tableVars,
                    cleanupVars, vars
<1>8. CASE PruneOnly
  BY <1>2, <1>8 DEF PruneOnly, Unlocked
<1> QED
  BY <1>3, <1>4, <1>5, <1>6, <1>7, <1>8 DEF Next

\* While an offer is live no step takes back what is in a file of it: only a
\* PUT that has created the file writes it, and only its own cleanup unlinks.
\* A completed offer is never touched.
LEMMA ContentKept ==
  ASSUME DiskOK, [Next]_vars, NEW o \in Offers, NEW f \in Files,
         StaysLive(o) \/ (status[o] = "complete" /\ f \in Manifest[o])
  PROVE  /\ content[o][f] = "whole" => content'[o][f] = "whole"
         /\ content[o][f] # "absent" => content'[o][f] # "absent"
<1> DEFINE Kept == /\ content[o][f] = "whole" => content'[o][f] = "whole"
                   /\ content[o][f] # "absent" => content'[o][f] # "absent"
<1> USE DEF TypeOK, DiskType
<1>1. CASE UNCHANGED content
  BY <1>1
<1>2. ASSUME NEW r \in Requests, RequestStep(r) PROVE Kept
  <2>1. CASE PutOpen(r)
    <3>1. target[r] \in Offers /\ file[r] \in Files
      BY <2>1 DEF PutOpen, RequestsOK
    <3>2. \/ UNCHANGED content
          \/ /\ content[target[r]][file[r]] = "absent"
             /\ content' = [content EXCEPT ![target[r]] = [@ EXCEPT ![file[r]] = "partial"]]
      BY <2>1 DEF PutOpen
    <3> QED BY <3>1, <3>2
  <2>2. CASE PutCopied(r)
    <3>1. target[r] \in Offers /\ file[r] \in Files
      BY <2>2 DEF PutCopied, RequestsOK
    <3>2. \/ UNCHANGED content
          \/ content' = [content EXCEPT ![target[r]] = [@ EXCEPT ![file[r]] = "whole"]]
      BY <2>2 DEF PutCopied
    <3> QED BY <3>1, <3>2
  <2> QED
    BY <1>1, <1>2, <2>1, <2>2 DEF RequestStep, PutProgress, PutRecord, Abort, StartCleanup,
       ChooseDestination, Publish, PublishLook, PublishRename, Unstage, CompleteFinish, diskVars
<1>3. CASE CleanupStep
  <2>1. ASSUME NEW g \in Files, CleanupUnlink(g) PROVE Kept
    <3>1. removing \in Offers /\ removing # o
      BY <2>1 DEF CleanupUnlink, CleanupOK, CleanupType, StaysLive, tableVars
    <3>2. \/ UNCHANGED content
          \/ content' = [content EXCEPT ![removing] = [@ EXCEPT ![g] = "absent"]]
      BY <2>1 DEF CleanupUnlink
    <3> QED BY <3>1, <3>2
  <2> QED
    BY <1>1, <1>3, <2>1 DEF CleanupStep, CleanupList, CleanupEnd, diskVars
<1>4. CASE Close
  BY <1>4 DEF Close, StaysLive, InTable
<1>5. CASE Restart
  BY <1>5 DEF Restart, StaysLive, InTable, TableOK, CompleteIsWhole, tableVars, Indexes, InStage
<1>6. ASSUME NEW p \in Offers, OfferStep(p) PROVE UNCHANGED content
  BY <1>6 DEF OfferStep, CreateOffer, Expire, Decline, Accept, CancelOffer, CancelAccepted,
              TimeOut, PutInvalid, CompleteTooEarly, Deadline, Stall, StartCleanup, diskVars
<1>7. CASE \/ \E r \in Requests, p \in Offers : RequestStart(r, p)
           \/ \E i \in Indexes : LocalCreate(i)
           \/ PruneOnly \/ Crash \/ UNCHANGED vars
  BY <1>1, <1>7 DEF RequestStart, PutCheck, CompleteCheck, LocalCreate, PruneOnly, Crash,
                    diskVars, vars
<1> QED
  BY <1>1, <1>2, <1>3, <1>4, <1>5, <1>6, <1>7 DEF Next

\* What is published stays where it is.
LEMMA PlaceKept ==
  ASSUME DiskOK, [Next]_vars, NEW o \in Offers, Settled(o), place[o] \in Indexes
  PROVE  place'[o] = place[o]
<1> USE DEF TypeOK, DiskType
<1>0. place[o] # InStage /\ place[o] # Nowhere
  BY IndexFacts
<1>1. CASE UNCHANGED place
  BY <1>1
<1>2. ASSUME NEW r \in Requests, RequestStep(r) PROVE place'[o] = place[o]
  <2>1. CASE PutOpen(r)
    <3>1. target[r] \in Offers /\ file[r] \in Manifest[target[r]]
      BY <2>1 DEF PutOpen, RequestsOK
    <3>2. \/ UNCHANGED place
          \/ /\ place' = [place EXCEPT ![target[r]] = InStage]
             /\ target[r] \in Folders => place[target[r]] = InStage
             /\ content[target[r]][file[r]] = "absent"
      BY <2>1 DEF PutOpen
    <3> QED BY <1>0, <3>1, <3>2 DEF PlacedOK
  <2>2. CASE Publish(r) \/ PublishRename(r)
    BY <1>0, <2>2 DEF Publish, PublishRename, Reveal, RequestsOK
  <2> QED
    BY <1>1, <1>2, <2>1, <2>2 DEF RequestStep, PutCopied, PutProgress, PutRecord, Abort,
       StartCleanup, ChooseDestination, PublishLook, Unstage, CompleteFinish, diskVars
<1>3. CASE CleanupStep
  BY <1>0, <1>3 DEF CleanupStep, CleanupList, CleanupUnlink, CleanupEnd, diskVars
<1>4. CASE Close \/ Restart
  BY <1>0, <1>4 DEF Close, Restart
<1>5. ASSUME NEW p \in Offers, OfferStep(p) PROVE place'[o] = place[o]
  <2>1. CASE Accept(p)
    <3>1. ~Settled(p)
      BY <2>1 DEF Accept, PrunedStatus, Due, Settled, Closed
    <3> QED BY <2>1, <3>1 DEF Accept
  <2> QED
    BY <1>1, <1>5, <2>1 DEF OfferStep, CreateOffer, Expire, Decline, CancelOffer, CancelAccepted,
       TimeOut, PutInvalid, CompleteTooEarly, Deadline, Stall, StartCleanup, diskVars
<1>6. CASE \/ \E r \in Requests, p \in Offers : RequestStart(r, p)
           \/ \E i \in Indexes : LocalCreate(i)
           \/ PruneOnly \/ Crash \/ UNCHANGED vars
  BY <1>1, <1>6 DEF RequestStart, PutCheck, CompleteCheck, LocalCreate, PruneOnly, Crash,
                    diskVars, vars
<1> QED
  BY <1>1, <1>2, <1>3, <1>4, <1>5, <1>6 DEF Next

\* An offer receives a file only from a PUT that wrote it, while it is live.
LEMMA ReceivedOrigin ==
  ASSUME DiskOK, [Next]_vars, NEW o \in Offers
  PROVE  \/ received'[o] = received[o]
         \/ \E r \in Requests :
              /\ pc[r] = "record" /\ target[r] = o /\ Live(o) /\ file[r] \notin received[o]
              /\ received'[o] = received[o] \cup {file[r]}
              /\ UNCHANGED <<status, diskVars, removing, up>>
<1> USE DEF TypeOK, TableType
<1>1. CASE UNCHANGED received
  BY <1>1
<1>2. ASSUME NEW r \in Requests, PutRecord(r)
      PROVE  \/ received'[o] = received[o]
             \/ /\ pc[r] = "record" /\ target[r] = o /\ Live(o) /\ file[r] \notin received[o]
                /\ received'[o] = received[o] \cup {file[r]}
                /\ UNCHANGED <<status, diskVars, removing, up>>
  BY <1>2 DEF PutRecord, Unlocked, Live, cleanupVars
<1>3. ASSUME NEW r \in Requests, RequestStep(r), ~PutRecord(r) PROVE UNCHANGED received
  BY <1>3 DEF RequestStep, PutOpen, PutProgress, PutCopied, Abort, StartCleanup,
              ChooseDestination, Publish, PublishLook, PublishRename, Unstage, CompleteFinish, tableVars
<1>4. ASSUME NEW p \in Offers, OfferStep(p) PROVE UNCHANGED received
  BY <1>4 DEF OfferStep, CreateOffer, Expire, Decline, Accept, CancelOffer, CancelAccepted,
              TimeOut, PutInvalid, CompleteTooEarly, Deadline, Stall, StartCleanup, tableVars
<1>5. CASE CleanupStep
  BY <1>1, <1>5 DEF CleanupStep, CleanupList, CleanupUnlink, CleanupEnd, tableVars
<1>6. CASE \/ \E r \in Requests, p \in Offers : RequestStart(r, p)
           \/ \E i \in Indexes : LocalCreate(i)
           \/ PruneOnly \/ Crash \/ Close \/ Restart \/ UNCHANGED vars
  BY <1>1, <1>6 DEF RequestStart, PutCheck, CompleteCheck, LocalCreate, PruneOnly, Crash, Close,
                    Restart, tableVars, vars
<1> QED
  BY <1>1, <1>2, <1>3, <1>4, <1>5, <1>6 DEF Next

\* A request changes only by its own steps, and by the end of the process.
LEMMA RequestMoves ==
  ASSUME DiskOK, [Next]_vars, NEW q \in Requests
  PROVE  \/ pc'[q] = pc[q] /\ target'[q] = target[q] /\ file'[q] = file[q]
         \/ RequestStep(q)
         \/ \E o \in Offers : RequestStart(q, o)
         \/ pc'[q] = "idle"
<1> DEFINE Same == pc'[q] = pc[q] /\ target'[q] = target[q] /\ file'[q] = file[q]
<1> USE DEF TypeOK, RequestType
<1>1. CASE UNCHANGED requestVars
  BY <1>1 DEF requestVars
<1>2. ASSUME NEW r \in Requests, RequestStep(r), r # q PROVE Same
  BY <1>2 DEF RequestStep, PutOpen, PutProgress, PutCopied, PutRecord, Abort, ChooseDestination,
              Publish, PublishLook, PublishRename, Unstage, CompleteFinish, To, Done, Begin
<1>3. ASSUME NEW r \in Requests, NEW o \in Offers, RequestStart(r, o), r # q PROVE Same
  BY <1>3 DEF RequestStart, PutCheck, CompleteCheck, Begin
<1>4. CASE Crash \/ Close
  BY <1>4 DEF Crash, Close, AllIdle
<1>5. ASSUME NEW o \in Offers, OfferStep(o) PROVE UNCHANGED requestVars
  BY <1>5 DEF OfferStep, CreateOffer, Expire, Decline, Accept, CancelOffer, CancelAccepted,
              TimeOut, PutInvalid, CompleteTooEarly, Deadline, Stall
<1>6. CASE PruneOnly \/ CleanupStep \/ Restart \/ (\E i \in Indexes : LocalCreate(i))
           \/ UNCHANGED vars
  BY <1>1, <1>6 DEF PruneOnly, CleanupStep, CleanupList, CleanupUnlink, CleanupEnd, Restart,
                    LocalCreate, vars
<1> QED
  BY <1>1, <1>2, <1>3, <1>4, <1>5, <1>6 DEF Next

\* An offer is completed by a POST that finds it live.
LEMMA CompleteOrigin ==
  ASSUME DiskOK, [Next]_vars, NEW o \in Offers, status'[o] = "complete"
  PROVE  \/ status[o] = "complete"
         \/ \E r \in Requests :
              pc[r] = "finish" /\ target[r] = o /\ Live(o) /\ UNCHANGED diskVars
<1> USE DEF TypeOK, TableType
<1>1. CASE UNCHANGED status
  BY <1>1
<1>2. CASE status' = PrunedStatus
  BY <1>2 DEF PrunedStatus
<1>3. ASSUME NEW r \in Requests, CompleteFinish(r)
      PROVE  \/ status[o] = "complete"
             \/ pc[r] = "finish" /\ target[r] = o /\ Live(o) /\ UNCHANGED diskVars
  BY <1>3 DEF CompleteFinish, Live, Unlocked, InTable, TargetsOK, RequestsOK, Settled, Closed
<1>4. ASSUME NEW r \in Requests, RequestStep(r), ~CompleteFinish(r) PROVE UNCHANGED status
  BY <1>4 DEF RequestStep, PutOpen, PutProgress, PutCopied, PutRecord, Abort, StartCleanup,
              ChooseDestination, Publish, PublishLook, PublishRename, Unstage, tableVars
<1>5. ASSUME NEW p \in Offers, OfferStep(p) PROVE status[o] = "complete"
  BY <1>5 DEF OfferStep, CreateOffer, Expire, Decline, Accept, CancelOffer, CancelAccepted,
              TimeOut, PutInvalid, CompleteTooEarly, Deadline, Stall, StartCleanup, tableVars,
              PrunedStatus
<1>6. CASE CleanupStep
  BY <1>1, <1>6 DEF CleanupStep, CleanupList, CleanupUnlink, CleanupEnd, CleanupOK, CleanupType,
                    tableVars
<1>7. CASE Crash \/ Close
  BY <1>7 DEF Crash, Close
<1>8. CASE \/ \E r \in Requests, p \in Offers : RequestStart(r, p)
           \/ \E i \in Indexes : LocalCreate(i)
           \/ Restart \/ UNCHANGED vars
  BY <1>1, <1>8 DEF RequestStart, PutCheck, CompleteCheck, LocalCreate, Restart, tableVars, vars
<1>9. CASE PruneOnly
  BY <1>2, <1>9 DEF PruneOnly
<1> QED
  BY <1>1, <1>3, <1>4, <1>5, <1>6, <1>7, <1>8, <1>9 DEF Next

-----------------------------------------------------------------------------
(* The invariant is kept *)

LEMMA TableKept ==
  ASSUME DiskOK, [Next]_vars
  PROVE  TableOK'
<1>1. ~up' => \A o \in Offers : ~InTable(o)'
  <2>1. CASE ~up
    <3>1. UNCHANGED status \/ up'
      BY <2>1 DEF Next, OfferStep, CreateOffer, Expire, Decline, Accept, CancelOffer,
         CancelAccepted, TimeOut, PutInvalid, CompleteTooEarly, Deadline, Stall, PruneOnly,
         CleanupStep, CleanupList, CleanupUnlink, CleanupEnd, RequestStep, PutOpen, PutProgress,
         PutCopied, PutRecord, Abort, ChooseDestination, Publish, PublishLook, PublishRename, Unstage, CompleteFinish,
         RequestStart, PutCheck, CompleteCheck, LocalCreate, Crash, Close, Restart, Unlocked,
         tableVars, vars
    <3> QED BY <2>1, <3>1 DEF TableOK, InTable
  <2>2. CASE up /\ ~(Crash \/ Close)
    BY <2>2 DEF Next, OfferStep, CreateOffer, Expire, Decline, Accept, CancelOffer,
       CancelAccepted, TimeOut, PutInvalid, CompleteTooEarly, StartCleanup, Deadline, Stall,
       PruneOnly, CleanupStep, CleanupList, CleanupUnlink, CleanupEnd, RequestStep, PutOpen,
       PutProgress, PutCopied, PutRecord, Abort, ChooseDestination, Publish, PublishLook, PublishRename, Unstage,
       CompleteFinish, RequestStart, PutCheck, CompleteCheck, LocalCreate, Restart, vars
  <2>3. CASE Crash \/ Close
    BY <2>3 DEF Crash, Close, InTable
  <2> QED BY <2>1, <2>2, <2>3
<1>2. ASSUME NEW o \in Offers PROVE received'[o] \subseteq Manifest[o]
  BY ReceivedOrigin, <1>2 DEF TableOK, RequestsOK
<1>3. ASSUME NEW o \in Offers, ~Settled(o)' PROVE received'[o] = {}
  <2>1. ~Settled(o)
    BY <1>3, StatusForward
  <2> QED BY <2>1, ReceivedOrigin DEF TableOK, Live, Settled
<1> QED BY <1>1, <1>2, <1>3 DEF TableOK

LEMMA PlacedKept ==
  ASSUME DiskOK, [Next]_vars
  PROVE  PlacedOK'
<1> USE DEF TypeOK, DiskType, PlacedOK
<1>1. CASE UNCHANGED <<place, content>>
  BY <1>1
<1>2. ASSUME NEW r \in Requests, RequestStep(r) PROVE PlacedOK'
  <2>1. CASE PutOpen(r)
    <3>1. target[r] \in Offers /\ file[r] \in Manifest[target[r]] /\ file[r] \in Files
      BY <2>1 DEF PutOpen, RequestsOK
    <3>2. CASE UNCHANGED <<content, place>>
      BY <1>1, <3>2
    <3>3. CASE /\ content' = [content EXCEPT ![target[r]] = [@ EXCEPT ![file[r]] = "partial"]]
               /\ place' = [place EXCEPT ![target[r]] = InStage]
      <4> SUFFICES ASSUME NEW o \in Offers \ Folders, place'[o] # Nowhere, NEW f \in Manifest[o]
                   PROVE  content'[o][f] # "absent"
        OBVIOUS
      <4>1. f \in Files
        OBVIOUS
      <4>2. CASE o = target[r]
        <5>1. f = file[r]
          BY <3>1, <4>2
        <5> QED BY <3>1, <3>3, <4>1, <4>2, <5>1
      <4>3. CASE o # target[r]
        BY <3>1, <3>3, <4>3
      <4> QED BY <4>2, <4>3
    <3> QED BY <2>1, <3>2, <3>3 DEF PutOpen
  <2>2. CASE PutCopied(r)
    <3>1. target[r] \in Offers /\ file[r] \in Files
      BY <2>2 DEF PutCopied, RequestsOK
    <3>2. \/ UNCHANGED content
          \/ content' = [content EXCEPT ![target[r]] = [@ EXCEPT ![file[r]] = "whole"]]
      BY <2>2 DEF PutCopied
    <3> QED BY <2>2, <3>1, <3>2 DEF PutCopied
  <2>3. CASE Publish(r) \/ PublishRename(r)
    <3>1. target[r] \in Offers
      BY <2>3 DEF Publish, PublishRename, RequestsOK
    <3> QED BY <2>3, <3>1, IndexFacts DEF Publish, PublishRename, Reveal
  <2> QED
    BY <1>1, <1>2, <2>1, <2>2, <2>3 DEF RequestStep, PutProgress, PutRecord, Abort, StartCleanup,
       ChooseDestination, PublishLook, Unstage, CompleteFinish, diskVars
<1>3. CASE CleanupStep
  <2>1. ASSUME NEW f \in Files, CleanupUnlink(f) PROVE PlacedOK'
    <3>1. removing \in Offers
      BY <2>1 DEF CleanupUnlink, CleanupType
    <3>2. CASE removing \in Folders
      BY <2>1, <3>1, <3>2 DEF CleanupUnlink
    <3>3. CASE removing \notin Folders
      BY <2>1, <3>1, <3>3 DEF CleanupUnlink
    <3> QED BY <3>2, <3>3
  <2>2. CASE CleanupEnd
    BY <2>2 DEF CleanupEnd
  <2> QED
    BY <1>1, <1>3, <2>1, <2>2 DEF CleanupStep, CleanupList, diskVars
<1>4. CASE Close \/ Restart
  BY <1>4 DEF Close, Restart
<1>5. ASSUME NEW p \in Offers, OfferStep(p) PROVE PlacedOK'
  <2>1. CASE Accept(p)
    BY <2>1 DEF Accept
  <2> QED
    BY <1>1, <1>5, <2>1 DEF OfferStep, CreateOffer, Expire, Decline, CancelOffer, CancelAccepted,
       TimeOut, PutInvalid, CompleteTooEarly, Deadline, Stall, StartCleanup, diskVars
<1>6. CASE \/ \E r \in Requests, p \in Offers : RequestStart(r, p)
           \/ \E i \in Indexes : LocalCreate(i)
           \/ PruneOnly \/ Crash \/ UNCHANGED vars
  BY <1>1, <1>6 DEF RequestStart, PutCheck, CompleteCheck, LocalCreate, PruneOnly, Crash,
                    diskVars, vars
<1> QED
  BY <1>1, <1>2, <1>3, <1>4, <1>5, <1>6 DEF Next

LEMMA LateKept ==
  ASSUME DiskOK, [Next]_vars
  PROVE  LateOK'
<1> SUFFICES ASSUME NEW o \in late' PROVE Settled(o)' /\ place'[o] \in Indexes
  BY DEF LateOK
<1> USE DEF TypeOK, DiskType
<1>1. o \in late \/ \E r \in Requests : target[r] = o /\ PutOpen(r) /\ place[o] \in Indexes
  BY DEF Next, OfferStep, CreateOffer, Expire, Decline, Accept, CancelOffer, CancelAccepted,
         TimeOut, PutInvalid, CompleteTooEarly, StartCleanup, Deadline, Stall, PruneOnly,
         CleanupStep, CleanupList, CleanupUnlink, CleanupEnd, RequestStep, PutOpen, PutProgress,
         PutCopied, PutRecord, Abort, ChooseDestination, Publish, PublishLook, PublishRename,
         Reveal, Unstage, CompleteFinish, RequestStart, PutCheck, CompleteCheck, LocalCreate,
         Crash, Close, Restart, diskVars, vars
<1>2. o \in Offers /\ Settled(o) /\ place[o] \in Indexes
  <2>1. CASE o \in late
    BY <2>1 DEF LateOK
  <2>2. ASSUME NEW r \in Requests, target[r] = o, PutOpen(r), place[o] \in Indexes
        PROVE  o \in Offers /\ Settled(o)
    <3>1. pc[r] # "idle"
      BY <2>2 DEF PutOpen
    <3> QED BY <2>2, <3>1 DEF TargetsOK, RequestsOK
  <2> QED BY <1>1, <2>1, <2>2
<1> QED BY <1>2, PlaceKept, StatusForward

LEMMA ReceivedKept ==
  ASSUME DiskOK, [Next]_vars
  PROVE  ReceivedOnDisk'
<1> SUFFICES ASSUME NEW o \in Offers, StaysLive(o), NEW f \in received'[o]
             PROVE  content'[o][f] = "whole"
  BY DEF ReceivedOnDisk, StaysLive
<1>1. CASE f \in received[o]
  <2>1. Live(o)
    BY <1>1, LiveOrigin DEF TableOK
  <2>2. f \in Files /\ content[o][f] = "whole"
    BY <1>1, <2>1 DEF ReceivedOnDisk, Live, TypeOK, TableType
  <2> QED BY <2>2, ContentKept
<1>2. CASE f \notin received[o]
  BY <1>2, ReceivedOrigin DEF PutsOK, diskVars
<1> QED BY <1>1, <1>2

LEMMA PutsKept ==
  ASSUME DiskOK, [Next]_vars
  PROVE  PutsOK'
<1> SUFFICES ASSUME NEW r \in Requests, pc'[r] \in {"copy", "record"}, StaysLive(target'[r])
             PROVE  /\ pc'[r] = "copy" => content'[target'[r]][file'[r]] # "absent"
                    /\ pc'[r] = "record" => content'[target'[r]][file'[r]] = "whole"
  BY DEF PutsOK, Live, StaysLive
<1> USE DEF TypeOK, RequestType, DiskType
<1> DEFINE o == target[r]
           f == file[r]
<1>1. CASE pc'[r] = pc[r] /\ target'[r] = o /\ file'[r] = f
  <2>1. o \in Offers /\ f \in Files /\ Settled(o) /\ StaysLive(o)
    BY <1>1 DEF RequestsOK, TargetsOK
  <2>2. Live(o)
    BY <2>1, LiveOrigin
  <2> QED BY <1>1, <2>1, <2>2, ContentKept DEF PutsOK
<1>2. CASE PutOpen(r)
  <2>1. o \in Offers /\ f \in Manifest[o] /\ f \in Files
    BY <1>2 DEF PutOpen, RequestsOK
  <2>2. pc'[r] = "copy" /\ target'[r] = o /\ file'[r] = f
    BY <1>2 DEF PutOpen, To
  <2>3. \/ content' = [content EXCEPT ![o] = [@ EXCEPT ![f] = "partial"]]
        \/ o \notin Folders /\ place[o] # Nowhere /\ UNCHANGED content
    BY <1>2, <2>2, IndexFacts DEF PutOpen, To
  <2> QED BY <2>1, <2>2, <2>3 DEF PlacedOK
<1>3. CASE PutCopied(r)
  <2>1. o \in Offers /\ f \in Files /\ Settled(o)
    BY <1>3 DEF PutCopied, RequestsOK, TargetsOK
  <2>2. pc[r] = "copy" /\ pc'[r] = "record" /\ target'[r] = o /\ file'[r] = f
    BY <1>3 DEF PutCopied, To
  <2>3. Live(o)
    BY <2>1, <2>2, LiveOrigin
  <2>4. content[o][f] \in {"partial", "whole"}
    BY <2>1, <2>2, <2>3 DEF PutsOK
  <2>5. content' = IF content[o][f] = "partial"
                   THEN [content EXCEPT ![o] = [@ EXCEPT ![f] = "whole"]] ELSE content
    BY <1>3, <2>2 DEF PutCopied, To
  <2> QED BY <2>1, <2>2, <2>4, <2>5
<1>4. ASSUME RequestStep(r), ~PutOpen(r), ~PutCopied(r)
      PROVE  pc'[r] = pc[r] /\ target'[r] = o /\ file'[r] = f
  BY <1>4 DEF RequestStep, PutProgress, PutRecord, Abort, ChooseDestination, Publish, PublishLook, PublishRename, Unstage,
              CompleteFinish, To, Done, Begin
<1>5. ~\E p \in Offers : RequestStart(r, p)
  BY DEF RequestStart, PutCheck, CompleteCheck, Begin
<1> QED
  BY <1>1, <1>2, <1>3, <1>4, <1>5, RequestMoves

LEMMA PostsKept ==
  ASSUME DiskOK, [Next]_vars
  PROVE  PostsOK'
<1> DEFINE Posting == {"choose", "publish", "rename", "unstage", "finish"}
<1> SUFFICES ASSUME NEW r \in Requests, pc'[r] \in Posting
             PROVE  /\ StaysLive(target'[r]) => received'[target'[r]] = Manifest[target'[r]]
                    /\ pc'[r] \in {"unstage", "finish"} => place'[target'[r]] \in Indexes
  BY DEF PostsOK, Live, StaysLive
<1> USE DEF TypeOK, RequestType, DiskType
<1> DEFINE o == target[r]
<1>1. CASE pc[r] \in Posting /\ target'[r] = o
  <2>1. o \in Offers /\ Settled(o)
    BY <1>1 DEF RequestsOK, TargetsOK
  <2>2. StaysLive(o) => received'[o] = Manifest[o]
    <3> SUFFICES ASSUME StaysLive(o) PROVE received'[o] = Manifest[o]
      OBVIOUS
    <3>1. received[o] = Manifest[o]
      BY <1>1, <2>1, LiveOrigin DEF PostsOK
    <3> QED BY <2>1, <3>1, ReceivedOrigin DEF RequestsOK
  <2>3. CASE pc[r] \in {"unstage", "finish"}
    BY <1>1, <2>1, <2>2, <2>3, PlaceKept DEF PostsOK
  <2>4. CASE pc[r] \in {"choose", "publish", "rename"} /\ pc'[r] \in {"unstage", "finish"}
    <3>1. Publish(r) \/ PublishRename(r)
      BY <2>4, RequestMoves DEF RequestStep, PutOpen, PutProgress, PutCopied, PutRecord, Abort,
         ChooseDestination, PublishLook, Unstage, CompleteFinish, RequestStart, PutCheck,
         CompleteCheck, To
    <3>2. place[o] = InStage \/ o \in late
      BY <2>4, <3>1, <1>1 DEF Publish, PublishRename, To, HasPayload
    <3>3. place'[o] \in Indexes
      BY <2>1, <2>4, <3>1, <3>2 DEF Publish, PublishRename, Reveal, LateOK, To
    <3> QED BY <1>1, <2>2, <3>3
  <2> QED BY <1>1, <2>2, <2>3, <2>4
<1>2. ASSUME NEW p \in Offers, RequestStart(r, p)
      PROVE  /\ pc'[r] = "choose"
             /\ received'[target'[r]] = Manifest[target'[r]]
  BY <1>2 DEF RequestStart, PutCheck, CompleteCheck, Begin, tableVars
<1>3. ASSUME RequestStep(r) PROVE pc[r] \in Posting /\ target'[r] = o
  BY <1>3 DEF RequestStep, PutOpen, PutProgress, PutCopied, PutRecord, Abort, ChooseDestination,
              Publish, PublishLook, PublishRename, Unstage, CompleteFinish, To, Done, Begin
<1> QED
  BY <1>1, <1>2, <1>3, RequestMoves

LEMMA CompleteKept ==
  ASSUME DiskOK, [Next]_vars
  PROVE  CompleteIsWhole'
<1> SUFFICES ASSUME NEW o \in Offers, status'[o] = "complete"
             PROVE  place'[o] \in Indexes /\ \A f \in Manifest[o] : content'[o][f] = "whole"
  BY DEF CompleteIsWhole, Whole
<1>1. CASE status[o] = "complete"
  <2>1. place'[o] \in Indexes
    BY <1>1, PlaceKept DEF CompleteIsWhole, Settled, Closed
  <2>2. \A f \in Manifest[o] : f \in Files /\ content[o][f] = "whole"
    BY <1>1 DEF CompleteIsWhole, Whole
  <2> QED BY <1>1, <2>1, <2>2, ContentKept
<1>2. CASE status[o] # "complete"
  <2>1. PICK r \in Requests :
          pc[r] = "finish" /\ target[r] = o /\ Live(o) /\ UNCHANGED diskVars
    BY <1>2, CompleteOrigin
  <2>2. place[o] \in Indexes /\ received[o] = Manifest[o]
    BY <2>1 DEF PostsOK
  <2> QED BY <2>1, <2>2 DEF ReceivedOnDisk, Live, diskVars
<1> QED BY <1>1, <1>2

LEMMA DiskInvariant == Spec => []DiskOK
<1>1. Init /\ Typing => DiskOK
  BY DEF Init, InitWith, TableOK, PlacedOK, LateOK, ReceivedOnDisk, PutsOK, PostsOK, CompleteIsWhole
<1>2. DiskOK /\ [Next]_vars /\ Typing' => DiskOK'
  BY TableKept, PlacedKept, LateKept, ReceivedKept, PutsKept, PostsKept, CompleteKept
<1> QED BY <1>1, <1>2, TypingInvariant, PTL DEF Spec

-----------------------------------------------------------------------------
\* The files recorded as received are whole on the disk until the cleanup of
\* their offer starts, for any number of concurrent PUTs.
THEOREM ReceivedStays == Spec => []ReceivedOnDisk
BY DiskInvariant, PTL

\* An offer that completed is published with every file it declared, and stays
\* so, whatever requests and cleanups run without the mutex.
THEOREM CompleteStays == Spec => []CompleteIsWhole
BY DiskInvariant, PTL

(***************************************************************************)
(* Publications exclude each other from the look at the name to the        *)
(* rename, and meanwhile only others can take the name.                    *)
(***************************************************************************)
RenameOK ==
  \A r \in Requests : pc[r] = "rename" =>
    /\ target[r] \in Offers \ Atomic
    /\ dir[index[r]] = Free \/ (dir[index[r]] = Local /\ index[r] \in raced)
    /\ \A q \in Requests : pc[q] = "rename" => q = r

\* Who changes the receive root, and who joins those between look and rename.
LEMMA DirOrigin ==
  ASSUME Typing, [Next]_vars
  PROVE  \/ UNCHANGED <<dir, raced>>
         \/ \E r \in Requests : Publish(r) \/ PublishRename(r)
         \/ \E i \in Indexes : LocalCreate(i)
<1>1. CASE UNCHANGED diskVars
  BY <1>1 DEF diskVars
<1>2. ASSUME NEW r \in Requests, RequestStep(r), ~Publish(r), ~PublishRename(r)
      PROVE  UNCHANGED <<dir, raced>>
  BY <1>2 DEF RequestStep, PutOpen, PutProgress, PutCopied, PutRecord, Abort, StartCleanup,
              ChooseDestination, PublishLook, Unstage, CompleteFinish, diskVars
<1>3. ASSUME NEW o \in Offers, OfferStep(o) PROVE UNCHANGED <<dir, raced>>
  BY <1>3 DEF OfferStep, CreateOffer, Expire, Decline, Accept, CancelOffer, CancelAccepted,
              TimeOut, PutInvalid, CompleteTooEarly, Deadline, Stall, StartCleanup, diskVars
<1>4. CASE \/ \E r \in Requests, o \in Offers : RequestStart(r, o)
           \/ PruneOnly \/ CleanupStep \/ Crash \/ Close \/ Restart \/ UNCHANGED vars
  BY <1>1, <1>4 DEF RequestStart, PutCheck, CompleteCheck, PruneOnly, CleanupStep, CleanupList,
                    CleanupUnlink, CleanupEnd, Crash, Close, Restart, diskVars, vars
<1> QED
  BY <1>2, <1>3, <1>4 DEF Next

LEMMA RenameOrigin ==
  ASSUME Typing, [Next]_vars, NEW q \in Requests, pc'[q] = "rename"
  PROVE  \/ PublishLook(q) /\ target'[q] = target[q] /\ index'[q] = index[q]
         \/ pc[q] = "rename" /\ target'[q] = target[q] /\ index'[q] = index[q]
<1> USE DEF Typing, TypeOK, RequestType
<1>1. CASE UNCHANGED requestVars
  BY <1>1 DEF requestVars
<1>2. ASSUME NEW r \in Requests, RequestStep(r), r = q
      PROVE  PublishLook(q) /\ target'[q] = target[q] /\ index'[q] = index[q]
  <2>1. CASE PublishLook(r)
    BY <1>2, <2>1 DEF PublishLook, To
  <2>2. ~PutProgress(r)
    BY <1>2 DEF PutProgress
  <2>3. ~(PutOpen(r) \/ PutCopied(r) \/ Publish(r) \/ PublishRename(r) \/ Unstage(r))
    BY <1>2 DEF PutOpen, PutCopied, Publish, PublishRename, Unstage, To
  <2>4. ~(PutRecord(r) \/ Abort(r) \/ CompleteFinish(r))
    BY <1>2 DEF PutRecord, Abort, CompleteFinish, Done, Begin
  <2>5. ~ChooseDestination(r)
    BY <1>2 DEF ChooseDestination, To
  <2> QED
    BY <1>2, <2>1, <2>2, <2>3, <2>4, <2>5 DEF RequestStep
<1>3. ASSUME NEW r \in Requests, RequestStep(r), r # q
      PROVE  pc[q] = "rename" /\ target'[q] = target[q] /\ index'[q] = index[q]
  BY <1>3 DEF RequestStep, PutOpen, PutProgress, PutCopied, PutRecord, Abort, ChooseDestination,
              Publish, PublishLook, PublishRename, Unstage, CompleteFinish, To, Done, Begin
<1>4. ASSUME NEW r \in Requests, NEW o \in Offers, RequestStart(r, o)
      PROVE  pc[q] = "rename" /\ target'[q] = target[q] /\ index'[q] = index[q]
  BY <1>4 DEF RequestStart, PutCheck, CompleteCheck, Begin
<1>5. CASE Crash \/ Close
  BY <1>5 DEF Crash, Close, AllIdle
<1>6. ASSUME NEW o \in Offers, OfferStep(o) PROVE UNCHANGED requestVars
  BY <1>6 DEF OfferStep, CreateOffer, Expire, Decline, Accept, CancelOffer, CancelAccepted,
              TimeOut, PutInvalid, CompleteTooEarly, Deadline, Stall
<1>7. CASE PruneOnly \/ CleanupStep \/ Restart \/ (\E i \in Indexes : LocalCreate(i))
           \/ UNCHANGED vars
  BY <1>1, <1>7 DEF PruneOnly, CleanupStep, CleanupList, CleanupUnlink, CleanupEnd, Restart,
                    LocalCreate, vars
<1> QED
  BY <1>1, <1>2, <1>3, <1>4, <1>5, <1>6, <1>7 DEF Next

LEMMA RenameKept ==
  ASSUME Typing, RenameOK, [Next]_vars
  PROVE  RenameOK'
<1> SUFFICES ASSUME NEW q \in Requests, pc'[q] = "rename"
             PROVE  /\ target'[q] \in Offers \ Atomic
                    /\ \/ dir'[index'[q]] = Free
                       \/ dir'[index'[q]] = Local /\ index'[q] \in raced'
                    /\ \A r \in Requests : pc'[r] = "rename" => r = q
  BY DEF RenameOK
<1> USE DEF Typing, TypeOK, DiskType, RequestType
<1>1. \A r \in Requests : pc'[r] = "rename" => r = q
  BY RenameOrigin DEF PublishLook, Publishing, RenameOK, To
<1>2. CASE PublishLook(q)
  BY <1>1, <1>2, RenameOrigin DEF PublishLook, RequestsOK, diskVars
<1>3. CASE pc[q] = "rename" /\ target'[q] = target[q] /\ index'[q] = index[q]
  <2>1. ASSUME NEW r \in Requests PROVE ~Publish(r) /\ ~PublishRename(r)
    BY <1>3, RenameOrigin DEF Publish, PublishRename, Publishing, RenameOK, To, PublishLook
  <2>2. CASE UNCHANGED <<dir, raced>>
    BY <1>1, <1>3, <2>2 DEF RenameOK
  <2>3. ASSUME NEW i \in Indexes, LocalCreate(i)
        PROVE  \/ dir'[index[q]] = Free
               \/ dir'[index[q]] = Local /\ index[q] \in raced'
    BY <1>3, <2>3 DEF LocalCreate, RenameOK
  <2> QED BY <1>1, <1>3, <2>1, <2>2, <2>3, DirOrigin DEF RenameOK
<1> QED BY <1>2, <1>3, RenameOrigin

LEMMA RenameInvariant == Spec => [](Typing /\ RenameOK)
<1>1. Init => RenameOK
  BY DEF Init, InitWith, RenameOK
<1>2. Typing /\ RenameOK /\ [Next]_vars => RenameOK'
  BY RenameKept
<1> QED BY <1>1, <1>2, TypingInvariant, PTL DEF Spec

\* A publication gives an entry of the receive root another owner only where the
\* file system cannot refuse to, and only one that others made after its look.
THEOREM NothingReplaced == Spec => NoOverwrite
<1> DEFINE Kept == \A i \in Indexes : dir[i] # Free /\ dir'[i] # dir[i]
                     => dir[i] = Local /\ i \in raced /\ dir'[i] \in Offers \ Atomic
<1>1. Typing /\ RenameOK /\ [Next]_vars => [Kept]_dir
  <2> SUFFICES ASSUME Typing, RenameOK, [Next]_vars,
                      NEW i \in Indexes, dir[i] # Free, dir'[i] # dir[i]
               PROVE  dir[i] = Local /\ i \in raced /\ dir'[i] \in Offers \ Atomic
    OBVIOUS
  <2> USE DEF Typing, TypeOK, DiskType, RequestType
  <2>1. ASSUME NEW r \in Requests, Publish(r) PROVE FALSE
    BY <2>1 DEF Publish, Reveal
  <2>2. ASSUME NEW j \in Indexes, LocalCreate(j) PROVE FALSE
    BY <2>2 DEF LocalCreate
  <2>3. ASSUME NEW r \in Requests, PublishRename(r)
        PROVE  dir[i] = Local /\ i \in raced /\ dir'[i] \in Offers \ Atomic
    BY <2>3 DEF PublishRename, Reveal, RenameOK
  <2> QED
    BY <2>1, <2>2, <2>3, DirOrigin
<1> QED BY <1>1, RenameInvariant, PTL DEF Spec, NoOverwrite
=============================================================================
