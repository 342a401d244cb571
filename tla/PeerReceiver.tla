---------------------------- MODULE PeerReceiver ----------------------------
(***************************************************************************)
(* The receiving half of the peer service (internal/server/peer.go): the   *)
(* offer table, the single incoming slot, the event shown to KOReader, the *)
(* staging directory and the publication of what was received.             *)
(*                                                                         *)
(* One action is one critical section of peerManager.mu, or one stretch of *)
(* a handler that runs without it.  putTransferFile and completeTransfer   *)
(* drop the mutex in the middle, so a request keeps a program counter in   *)
(* pc. cleanupOfferLocked calls RemoveAll with the mutex held; RemoveAll   *)
(* is not atomic with respect to the stretches that run without it, so a   *)
(* cleanup is a sequence of steps during which no critical section starts. *)
(*                                                                         *)
(* Time is abstract: age counts the deadlines an offer has passed (its     *)
(* expiry, then its expiry plus one more TTL) and stalled says that        *)
(* progressTimeout has gone by since LastProgress.  The model starts with  *)
(* owner setup complete (requireReady) and considers the callers that hold *)
(* the capability of the offer they name (authorizedOfferLocked).          *)
(***************************************************************************)
EXTENDS Integers, FiniteSets

CONSTANTS
  Offers,     \* identifiers the offer table can draw
  Files,      \* regular files a manifest can declare
  Manifest,   \* Manifest[o]: the files offer o declares
  Folders,    \* the offers whose item is a directory
  Requests,   \* concurrent PUT and POST requests
  MaxIndex,   \* the destinations tried are "name", "name (1)" .. "name (MaxIndex)"
  Chunks,     \* progress reports one PUT body can produce
  Atomic,     \* the offers whose item the file system publishes in one step that
              \* replaces nothing; FAT and Android's storage have no such step
  None

ASSUME ManifestAssumption ==
  /\ Manifest \in [Offers -> SUBSET Files]
  /\ Folders \subseteq Offers /\ Atomic \subseteq Offers
  /\ \A o \in Offers \ Folders : \E f \in Files : Manifest[o] = {f}

ASSUME BoundAssumption == MaxIndex \in Nat /\ Chunks \in Nat

ASSUME NoneAssumption == None \notin Offers \cup Files \cup Nat

VARIABLES
  up,         \* the service process runs
  status,     \* peerOffer.Status; "new" before, a reason after it left the table
  age,        \* deadlines the offer has passed: 0, 1 (ExpiresAt), 2 (ExpiresAt + TTL)
  stalled,    \* progressTimeout has elapsed since LastProgress
  received,   \* peerOffer.Received
  incoming,   \* peerManager.incoming
  event,      \* peerManager.incomingEvent
  eventFile,  \* the incoming part of peer-events.json
  unwritten,  \* the last attempt to write that file failed
  staged,     \* offers whose stage directory exists
  late,       \* offers with a file in the stage that was published before
  place,      \* where an offer's payload is: Nowhere, InStage or a destination index
  content,    \* files of the payload: "absent", "partial" or "whole"
  dir,        \* the receive root: who owns the entry with that index
  raced,      \* entries others made between a POST's look at the name and its rename
  pc,         \* progress of the requests that span several critical sections,
  target,     \* the offer a request is about,
  file,       \* the file a PUT carries,
  left,       \* the progress reports it has left,
  index,      \* and the destination a POST chose
  removing,   \* the offer whose stage is being removed with the mutex held,
  outcome,    \* what becomes of it,
  listed,     \* whether its payload has been listed,
  doomed      \* and the files still to be unlinked

tableVars   == <<status, age, stalled, received, incoming>>
eventVars   == <<event, eventFile, unwritten>>
diskVars    == <<staged, late, place, content, dir, raced>>
requestVars == <<pc, target, file, left, index>>
cleanupVars == <<removing, outcome, listed, doomed>>
vars == <<up, tableVars, eventVars, diskVars, requestVars, cleanupVars>>

Indexes  == 0 .. MaxIndex
Nowhere  == -2        \* where a payload can be besides a destination
InStage  == -1
Free     == "free"
Local    == "local"   \* an entry made by something else than a peer transfer

Closed   == {"complete", "canceled", "error", "pruned", "lost"}
Statuses == {"new", "pending", "accepted", "declined", "expired"} \cup Closed
Steps    == {"idle", "open", "copy", "record", "choose", "publish", "rename", "unstage",
             "finish", "abort"}

NoEvent == [id |-> None, status |-> "none"]
Events  == [id : Offers \cup {None},
            status : {"none", "pending", "accepted", "declined", "expired",
                      "complete", "canceled", "error"}]

TableType ==
  /\ status \in [Offers -> Statuses]
  /\ age \in [Offers -> 0..2]
  /\ stalled \in [Offers -> BOOLEAN]
  /\ received \in [Offers -> SUBSET Files]
  /\ incoming \in Offers \cup {None}

EventType == event \in Events /\ eventFile \in Events /\ unwritten \in BOOLEAN

DiskType ==
  /\ staged \subseteq Offers /\ late \subseteq Offers /\ raced \subseteq Indexes
  /\ place \in [Offers -> {Nowhere, InStage} \cup Indexes]
  /\ content \in [Offers -> [Files -> {"absent", "partial", "whole"}]]
  /\ dir \in [Indexes -> Offers \cup {Free, Local}]

RequestType ==
  /\ pc \in [Requests -> Steps]
  /\ target \in [Requests -> Offers \cup {None}]
  /\ file \in [Requests -> Files \cup {None}]
  /\ left \in [Requests -> 0..Chunks]
  /\ index \in [Requests -> Indexes]

CleanupType ==
  /\ removing \in Offers \cup {None}
  /\ outcome \in {"none", "canceled", "error"}
  /\ listed \in BOOLEAN
  /\ doomed \subseteq Files

TypeOK ==
  up \in BOOLEAN /\ TableType /\ EventType /\ DiskType /\ RequestType /\ CleanupType

\* newPeerManager on an empty disk; s is not "new" for offers of an earlier process.
InitWith(s) ==
  /\ up = TRUE
  /\ status = s
  /\ age = [o \in Offers |-> 0]
  /\ stalled = [o \in Offers |-> FALSE]
  /\ received = [o \in Offers |-> {}]
  /\ incoming = None
  /\ event = NoEvent
  /\ eventFile = NoEvent /\ unwritten = FALSE
  /\ staged = {} /\ late = {} /\ raced = {}
  /\ place = [o \in Offers |-> Nowhere]
  /\ content = [o \in Offers |-> [f \in Files |-> "absent"]]
  /\ dir = [i \in Indexes |-> Free]
  /\ pc = [r \in Requests |-> "idle"]
  /\ target = [r \in Requests |-> None]
  /\ file = [r \in Requests |-> None]
  /\ left = [r \in Requests |-> 0]
  /\ index = [r \in Requests |-> 0]
  /\ removing = None
  /\ outcome = "none"
  /\ listed = FALSE
  /\ doomed = {}

Init == InitWith([o \in Offers |-> "new"])

-----------------------------------------------------------------------------
(* Building blocks *)

\* The mutex is free, so a critical section may run.
Unlocked == up /\ removing = None

InTable(o) == status[o] \in {"pending", "accepted", "declined", "expired"}

\* publishEventsLocked: the file is replaced by a new one, unless its directory,
\* the writing or the renaming fails, which is logged and left at that.
WriteEvents ==
  \/ eventFile' = event' /\ unwritten' = FALSE
  \/ eventFile' = eventFile /\ unwritten' = TRUE

\* Give the displayed event a new status if it is about offer o, and publish it.
Announce(o, s) ==
  /\ event' = IF event.id = o THEN [id |-> o, status |-> s] ELSE event
  /\ WriteEvents

Release(o) == IF incoming = o THEN None ELSE incoming

\* Start cleanupOfferLocked on an accepted offer; the entry leaves the table
\* with the given outcome when RemoveAll returns (CleanupEnd).
StartCleanup(o, result) ==
  /\ removing' = o
  /\ outcome' = result
  /\ listed' = FALSE
  /\ doomed' = {}
  /\ UNCHANGED <<up, tableVars, eventVars, diskVars>>

NoCleanup ==
  /\ removing' = None
  /\ outcome' = "none"
  /\ listed' = FALSE
  /\ doomed' = {}

\* pruneLocked: expire what is due, drop what was settled long ago.  Nothing
\* is published.
Due(o)    == status[o] = "pending" /\ age[o] >= 1
Prunable(o) == age[o] = 2 /\ (Due(o) \/ status[o] \in {"declined", "expired"})
PrunedStatus == [o \in Offers |-> IF Prunable(o) THEN "pruned"
                                  ELSE IF Due(o) THEN "expired" ELSE status[o]]
PrunedIncoming == IF incoming # None /\ Due(incoming) THEN None ELSE incoming
PrunedEvent == IF event.id # None /\ Due(event.id)
               THEN [id |-> event.id, status |-> "expired"] ELSE event

Whole(o) == \A f \in Manifest[o] : content[o][f] = "whole"

-----------------------------------------------------------------------------
(* Offers *)

\* Mutant: the slot is not looked at.
MutCreateOffer(o) ==
  /\ Unlocked
  /\ status[o] = "new"
  /\ status' = [PrunedStatus EXCEPT ![o] = "pending"]
  /\ incoming' = o
  /\ event' = [id |-> o, status |-> "pending"]
  /\ WriteEvents
  /\ UNCHANGED <<up, age, stalled, received, diskVars, requestVars, cleanupVars>>

\* createOffer: the sender was verified before the mutex was taken.
CreateOffer(o) ==
  /\ Unlocked
  /\ status[o] = "new"
  /\ PrunedIncoming = None
  /\ status' = [PrunedStatus EXCEPT ![o] = "pending"]
  /\ incoming' = o
  /\ event' = [id |-> o, status |-> "pending"]
  /\ WriteEvents
  /\ UNCHANGED <<up, age, stalled, received, diskVars, requestVars, cleanupVars>>

\* createOffer when another offer holds the slot, and accept when the offer is
\* unavailable, too large, or cannot be staged: only pruneLocked took effect.
PruneOnly ==
  /\ Unlocked
  /\ status' = PrunedStatus
  /\ incoming' = PrunedIncoming
  /\ event' = PrunedEvent
  /\ UNCHANGED <<up, age, stalled, received, eventFile, unwritten, diskVars, requestVars, cleanupVars>>

\* Mutant: an offer expires without giving up the slot.
MutExpire(o) ==
  /\ Unlocked
  /\ status[o] = "pending"
  /\ age[o] >= 1
  /\ status' = [status EXCEPT ![o] = "expired"]
  /\ Announce(o, "expired")
  /\ UNCHANGED <<up, age, stalled, received, incoming, diskVars, requestVars, cleanupVars>>

\* The expiry of a pending offer, as watchOffer and getOffer carry it out.
Expire(o) ==
  /\ Unlocked
  /\ status[o] = "pending"
  /\ age[o] >= 1
  /\ status' = [status EXCEPT ![o] = "expired"]
  /\ incoming' = Release(o)
  /\ Announce(o, "expired")
  /\ UNCHANGED <<up, age, stalled, received, diskVars, requestVars, cleanupVars>>

\* Mutant: the refusal is not published.
MutDecline(o) ==
  /\ Unlocked
  /\ status[o] = "pending"
  /\ incoming = o
  /\ status' = [status EXCEPT ![o] = "declined"]
  /\ incoming' = Release(o)
  /\ event' = IF event.id = o THEN [id |-> o, status |-> "declined"] ELSE event
  /\ UNCHANGED <<up, age, stalled, received, eventFile, unwritten, diskVars, requestVars, cleanupVars>>

\* decline: unlike accept it neither prunes nor looks at the expiry.
Decline(o) ==
  /\ Unlocked
  /\ status[o] = "pending"
  /\ incoming = o
  /\ status' = [status EXCEPT ![o] = "declined"]
  /\ incoming' = Release(o)
  /\ Announce(o, "declined")
  /\ UNCHANGED <<up, age, stalled, received, diskVars, requestVars, cleanupVars>>

\* accept: stage directories are made and watchIncoming is started.
Accept(o) ==
  /\ Unlocked
  /\ PrunedStatus[o] = "pending"
  /\ incoming = o
  /\ status' = [PrunedStatus EXCEPT ![o] = "accepted"]
  /\ stalled' = [stalled EXCEPT ![o] = FALSE]
  /\ staged' = staged \cup {o}
  /\ place' = [place EXCEPT ![o] = IF o \in Folders THEN InStage ELSE Nowhere]
  /\ Announce(o, "accepted")
  /\ UNCHANGED <<up, age, received, incoming, late, content, dir, raced, requestVars, cleanupVars>>

\* cancelOffer on an offer without a stage directory.
CancelOffer(o) ==
  /\ Unlocked
  /\ status[o] \in {"pending", "declined", "expired"}
  /\ status' = [status EXCEPT ![o] = "canceled"]
  /\ incoming' = Release(o)
  /\ Announce(o, "canceled")
  /\ UNCHANGED <<up, age, stalled, received, diskVars, requestVars, cleanupVars>>

\* cancelOffer, cancelTransfer and the owner's peer-cancel on an accepted offer.
CancelAccepted(o) ==
  /\ Unlocked
  /\ status[o] = "accepted"
  /\ StartCleanup(o, "canceled")
  /\ UNCHANGED requestVars

\* watchIncoming: no progress for progressTimeout.
TimeOut(o) ==
  /\ Unlocked
  /\ status[o] = "accepted"
  /\ stalled[o]
  /\ StartCleanup(o, "error")
  /\ UNCHANGED requestVars

-----------------------------------------------------------------------------
(* RemoveAll, with the mutex held *)

\* The entries below the payload are read once.  A directory is kept open.
CleanupList ==
  /\ up /\ removing # None /\ ~listed
  /\ listed' = TRUE
  /\ doomed' = IF place[removing] = InStage
               THEN {f \in Files : content[removing][f] # "absent"}
               ELSE IF removing \in late THEN Manifest[removing] ELSE {}
  /\ UNCHANGED <<up, tableVars, eventVars, diskVars, requestVars, removing, outcome>>

\* One unlink.  In a folder it goes through the open directory, wherever that
\* directory has been renamed to; a single file is unlinked by its stage name.
CleanupUnlink(f) ==
  LET o == removing IN
  /\ up /\ o # None /\ listed
  /\ f \in doomed
  /\ doomed' = doomed \ {f}
  /\ content' = IF o \in Folders \/ place[o] = InStage
                THEN [content EXCEPT ![o] = [@ EXCEPT ![f] = "absent"]] ELSE content
  /\ place' = IF o \notin Folders /\ place[o] = InStage
              THEN [place EXCEPT ![o] = Nowhere] ELSE place
  /\ late' = late \ {o}
  /\ UNCHANGED <<up, tableVars, eventVars, staged, dir, raced, requestVars,
                 removing, outcome, listed>>

\* Remove the directories, unless a file appeared since they were listed, and
\* then take the offer out of the table.
CleanupEnd ==
  LET o == removing
      occupied == \/ o \in late
                  \/ place[o] = InStage /\ \E f \in Files : content[o][f] # "absent" IN
  /\ up /\ o # None /\ listed
  /\ doomed = {}
  /\ IF occupied
     THEN UNCHANGED <<staged, place>>
     ELSE /\ staged' = staged \ {o}
          /\ place' = IF place[o] = InStage THEN [place EXCEPT ![o] = Nowhere] ELSE place
  /\ status' = [status EXCEPT ![o] = outcome]
  /\ incoming' = Release(o)
  /\ Announce(o, outcome)
  /\ NoCleanup
  /\ UNCHANGED <<up, age, stalled, received, late, content, dir, raced, requestVars>>

-----------------------------------------------------------------------------
(* putTransferFile *)

\* A request goes on to step s, or begins with its arguments.  What an idle
\* request carries means nothing; it is reset so that states do not differ by it.
To(r, s) ==
  /\ pc' = [pc EXCEPT ![r] = s]
  /\ UNCHANGED <<target, file, left, index>>

Begin(r, s, o, f, n) ==
  /\ pc' = [pc EXCEPT ![r] = s]
  /\ target' = [target EXCEPT ![r] = o]
  /\ file' = [file EXCEPT ![r] = f]
  /\ left' = [left EXCEPT ![r] = n]
  /\ index' = [index EXCEPT ![r] = 0]

Done(r) == Begin(r, "idle", None, None, 0)

AllIdle ==
  /\ pc' = [r \in Requests |-> "idle"]
  /\ target' = [r \in Requests |-> None]
  /\ file' = [r \in Requests |-> None]
  /\ left' = [r \in Requests |-> 0]
  /\ index' = [r \in Requests |-> 0]

PutCheck(r, o, f) ==
  /\ Unlocked
  /\ pc[r] = "idle"
  /\ status[o] = "accepted"
  /\ f \in Manifest[o] \ received[o]
  /\ Begin(r, "open", o, f, Chunks)
  /\ UNCHANGED <<up, tableVars, eventVars, diskVars, cleanupVars>>

\* An undeclared or already received file, or a wrong length.
PutInvalid(o) ==
  /\ Unlocked
  /\ status[o] = "accepted"
  /\ StartCleanup(o, "error")
  /\ UNCHANGED requestVars

\* Exclusive creation of the stage file.  Too little space or a failing
\* OpenFile aborts the transfer.  Behind the publication of a single file the
\* name is free again, and a late duplicate creates the file once more.
PutOpen(r) ==
  LET o == target[r]
      f == file[r] IN
  /\ up
  /\ pc[r] = "open"
  /\ \/ /\ o \in staged
        /\ o \in Folders => place[o] = InStage
        /\ content[o][f] = "absent"
        /\ content' = [content EXCEPT ![o] = [@ EXCEPT ![f] = "partial"]]
        /\ place' = [place EXCEPT ![o] = InStage]
        /\ To(r, "copy")
        /\ UNCHANGED late
     \/ /\ o \in staged \ (Folders \cup late)
        /\ place[o] \in Indexes
        /\ late' = late \cup {o}
        /\ To(r, "copy")
        /\ UNCHANGED <<content, place>>
     \/ To(r, "abort") /\ UNCHANGED <<late, content, place>>
  /\ UNCHANGED <<up, tableVars, eventVars, staged, dir, raced, cleanupVars>>

\* noteIncomingProgress, which publishes only now and then.
PutProgress(r) ==
  LET o == target[r] IN
  /\ Unlocked
  /\ pc[r] = "copy"
  /\ left[r] > 0
  /\ left' = [left EXCEPT ![r] = @ - 1]
  /\ IF status[o] = "accepted"
     THEN /\ stalled' = [stalled EXCEPT ![o] = FALSE]
          /\ event' = event
          /\ WriteEvents \/ UNCHANGED <<eventFile, unwritten>>
     ELSE UNCHANGED <<stalled, eventVars>>
  /\ UNCHANGED <<up, status, age, received, incoming, diskVars,
                 pc, target, file, index, cleanupVars>>

\* The body ends: complete and synced, or short, too long or broken off.
PutCopied(r) ==
  LET o == target[r]
      f == file[r] IN
  /\ up
  /\ pc[r] = "copy"
  /\ \/ /\ To(r, "record")
        /\ content' = IF content[o][f] = "partial"
                      THEN [content EXCEPT ![o] = [@ EXCEPT ![f] = "whole"]] ELSE content
     \/ To(r, "abort") /\ UNCHANGED content
  /\ UNCHANGED <<up, tableVars, eventVars, staged, late, place, dir, raced, cleanupVars>>

\* The second critical section looks the offer up again.
PutRecord(r) ==
  LET o == target[r]
      f == file[r] IN
  /\ Unlocked
  /\ pc[r] = "record"
  /\ Done(r)
  /\ IF status[o] = "accepted" /\ f \notin received[o]
     THEN /\ received' = [received EXCEPT ![o] = @ \cup {f}]
          /\ stalled' = [stalled EXCEPT ![o] = FALSE]
          /\ event' = event /\ WriteEvents
     ELSE UNCHANGED <<received, stalled, eventVars>>
  /\ UNCHANGED <<up, status, age, incoming, diskVars, cleanupVars>>

\* abortIncoming, of a PUT or of a POST that failed.
Abort(r) ==
  LET o == target[r] IN
  /\ Unlocked
  /\ pc[r] = "abort"
  /\ Done(r)
  /\ IF InTable(o) THEN StartCleanup(o, "error")
     ELSE UNCHANGED <<up, tableVars, eventVars, diskVars, cleanupVars>>

-----------------------------------------------------------------------------
(* completeTransfer and publishReceived *)

CompleteCheck(r, o) ==
  /\ Unlocked
  /\ pc[r] = "idle"
  /\ status[o] = "accepted"
  /\ received[o] = Manifest[o]
  /\ Begin(r, "choose", o, None, 0)
  /\ UNCHANGED <<up, tableVars, eventVars, diskVars, cleanupVars>>

CompleteTooEarly(o) ==
  /\ Unlocked
  /\ status[o] = "accepted"
  /\ received[o] # Manifest[o]
  /\ StartCleanup(o, "error")
  /\ UNCHANGED requestVars

\* Open the stage directory and choose the first destination not in use.
ChooseDestination(r) ==
  LET free == {i \in Indexes : dir[i] = Free} IN
  /\ up
  /\ pc[r] = "choose"
  /\ IF target[r] \in staged /\ free # {}
     THEN \E i \in free :
            /\ \A j \in free : i <= j
            /\ pc' = [pc EXCEPT ![r] = "publish"]
            /\ index' = [index EXCEPT ![r] = i]
            /\ UNCHANGED <<target, file, left>>
     ELSE To(r, "abort")
  /\ UNCHANGED <<up, tableVars, eventVars, diskVars, cleanupVars>>

\* What is in the stage appears in the receive root.
HasPayload(o) == place[o] = InStage \/ o \in late
Reveal(o, i) ==
  /\ dir' = [dir EXCEPT ![i] = o]
  /\ IF place[o] = InStage
     THEN place' = [place EXCEPT ![o] = i] /\ UNCHANGED late
     ELSE late' = late \ {o} /\ UNCHANGED place

\* publishMu, which a publication holds from its look at the name to the rename.
Publishing == \E r \in Requests : pc[r] = "rename"

\* PublishTemporary or PublishTemporaryDirectory: a rename, or a link, that
\* replaces nothing.
Publish(r) ==
  LET o == target[r]
      i == index[r] IN
  /\ up
  /\ pc[r] = "publish"
  /\ ~Publishing
  /\ \/ /\ o \in Atomic
        /\ HasPayload(o)
        /\ dir[i] = Free
        /\ Reveal(o, i)
        /\ To(r, "unstage")
     \/ To(r, "abort") /\ UNCHANGED <<late, place, dir>>
  /\ UNCHANGED <<up, tableVars, eventVars, staged, content, raced, cleanupVars>>

\* Mutant: the name chosen earlier is not looked at again.
MutPublishLook(r) ==
  /\ up
  /\ pc[r] = "publish"
  /\ ~Publishing
  /\ target[r] \notin Atomic
  /\ HasPayload(target[r])
  /\ To(r, "rename")
  /\ UNCHANGED <<up, tableVars, eventVars, diskVars, cleanupVars>>

\* Where the file system knows no such step they look at the name again ...
PublishLook(r) ==
  /\ up
  /\ pc[r] = "publish"
  /\ ~Publishing
  /\ target[r] \notin Atomic
  /\ HasPayload(target[r])
  /\ dir[index[r]] = Free
  /\ To(r, "rename")
  /\ UNCHANGED <<up, tableVars, eventVars, diskVars, cleanupVars>>

\* ... and rename, which replaces a file or an empty directory made meanwhile.
PublishRename(r) ==
  LET o == target[r] IN
  /\ up
  /\ pc[r] = "rename"
  /\ \/ HasPayload(o) /\ Reveal(o, index[r]) /\ To(r, "unstage")
     \/ To(r, "abort") /\ UNCHANGED <<late, place, dir>>
  /\ UNCHANGED <<up, tableVars, eventVars, staged, content, raced, cleanupVars>>

\* publishReceived removes the emptied stage directory, without the mutex; a
\* file that a late PUT creates in it meanwhile can keep it.
Unstage(r) ==
  LET o == target[r] IN
  /\ up
  /\ pc[r] = "unstage"
  /\ \/ staged' = staged \ {o} /\ late' = late \ {o}
     \/ o \notin Folders /\ UNCHANGED staged /\ late' \in {late, late \ {o}}
  /\ To(r, "finish")
  /\ UNCHANGED <<up, tableVars, eventVars, place, content, dir, raced, cleanupVars>>

\* Mutant: the offer is not looked up again after the publication.
MutCompleteFinish(r) ==
  LET o == target[r] IN
  /\ Unlocked
  /\ pc[r] = "finish"
  /\ Done(r)
  /\ status' = [status EXCEPT ![o] = "complete"]
  /\ incoming' = Release(o)
  /\ Announce(o, "complete")
  /\ UNCHANGED <<up, age, stalled, received, diskVars, cleanupVars>>

\* The last critical section: the offer may be gone, the event is set anyway.
CompleteFinish(r) ==
  LET o == target[r] IN
  /\ Unlocked
  /\ pc[r] = "finish"
  /\ Done(r)
  /\ IF InTable(o)
     THEN status' = [status EXCEPT ![o] = "complete"] /\ incoming' = Release(o)
     ELSE UNCHANGED <<status, incoming>>
  /\ Announce(o, "complete")
  /\ UNCHANGED <<up, age, stalled, received, diskVars, cleanupVars>>

-----------------------------------------------------------------------------
(* Time, other writers of the receive root, and the process *)

Deadline(o) ==
  /\ up
  /\ status[o] \in {"pending", "declined", "expired"}
  /\ age[o] < 2
  /\ age' = [age EXCEPT ![o] = @ + 1]
  /\ UNCHANGED <<up, status, stalled, received, incoming, eventVars,
                 diskVars, requestVars, cleanupVars>>

Stall(o) ==
  /\ up
  /\ status[o] = "accepted"
  /\ ~stalled[o]
  /\ stalled' = [stalled EXCEPT ![o] = TRUE]
  /\ UNCHANGED <<up, status, age, received, incoming, eventVars,
                 diskVars, requestVars, cleanupVars>>

LocalCreate(i) ==
  /\ dir[i] = Free
  /\ dir' = [dir EXCEPT ![i] = Local]
  /\ raced' = IF \E r \in Requests : pc[r] = "rename" /\ index[r] = i
              THEN raced \cup {i} ELSE raced
  /\ UNCHANGED <<up, tableVars, eventVars, staged, late, place, content, requestVars, cleanupVars>>

\* The process ends without peerManager.close; memory is lost, the disk is not.
Crash ==
  /\ up
  /\ up' = FALSE
  /\ status' = [o \in Offers |-> IF InTable(o) THEN "lost" ELSE status[o]]
  /\ incoming' = None
  /\ event' = NoEvent
  /\ AllIdle
  /\ NoCleanup
  /\ UNCHANGED <<age, stalled, received, eventFile, unwritten, diskVars>>

\* peerManager.close: every stage and the displayed event go, then the process.
\* http.Server.Shutdown has waited for the handlers; those left end with it.
Close ==
  /\ Unlocked
  /\ up' = FALSE
  /\ status' = [o \in Offers |-> IF InTable(o) THEN "lost" ELSE status[o]]
  /\ incoming' = None
  /\ event' = NoEvent
  /\ WriteEvents
  /\ staged' = {o \in staged : status[o] # "accepted"}
  /\ late' = {o \in late : status[o] # "accepted"}
  /\ place' = [o \in Offers |-> IF status[o] = "accepted" /\ place[o] = InStage
                                THEN Nowhere ELSE place[o]]
  /\ content' = [o \in Offers |-> IF status[o] = "accepted" /\ place[o] = InStage
                                  THEN [f \in Files |-> "absent"] ELSE content[o]]
  /\ AllIdle
  /\ UNCHANGED <<age, stalled, received, dir, raced, cleanupVars>>

\* newPeerManager: cleanupStages, then a first publication, which has to succeed.
Restart ==
  /\ ~up
  /\ up' = TRUE
  /\ staged' = {} /\ late' = {}
  /\ place' = [o \in Offers |-> IF place[o] = InStage THEN Nowhere ELSE place[o]]
  /\ content' = [o \in Offers |-> IF place[o] = InStage
                                  THEN [f \in Files |-> "absent"] ELSE content[o]]
  /\ eventFile' = event /\ unwritten' = FALSE
  /\ UNCHANGED <<tableVars, event, dir, raced, requestVars, cleanupVars>>

-----------------------------------------------------------------------------
OfferStep(o) ==
  \/ CreateOffer(o) \/ Expire(o) \/ Decline(o) \/ Accept(o)
  \/ CancelOffer(o) \/ CancelAccepted(o) \/ TimeOut(o)
  \/ PutInvalid(o) \/ CompleteTooEarly(o)
  \/ Deadline(o) \/ Stall(o)

CleanupStep == CleanupList \/ (\E f \in Files : CleanupUnlink(f)) \/ CleanupEnd

RequestStep(r) ==
  \/ PutOpen(r) \/ PutProgress(r) \/ PutCopied(r) \/ PutRecord(r) \/ Abort(r)
  \/ ChooseDestination(r) \/ Publish(r) \/ PublishLook(r) \/ PublishRename(r)
  \/ Unstage(r) \/ CompleteFinish(r)

RequestStart(r, o) ==
  \/ \E f \in Files : PutCheck(r, o, f)
  \/ CompleteCheck(r, o)

Next ==
  \/ \E o \in Offers : OfferStep(o)
  \/ PruneOnly
  \/ CleanupStep
  \/ \E r \in Requests : RequestStep(r)
  \/ \E r \in Requests, o \in Offers : RequestStart(r, o)
  \/ \E i \in Indexes : LocalCreate(i)
  \/ Crash
  \/ Close
  \/ Restart

Spec == Init /\ [][Next]_vars

(***************************************************************************)
(* What the running process guarantees: its timers fire (watchOffer,       *)
(* watchIncoming), time passes, a RemoveAll and a started request come to  *)
(* an end (every read of a body has a deadline).  Senders, the owner and   *)
(* restarts promise nothing.                                               *)
(***************************************************************************)
Fairness ==
  /\ \A o \in Offers : /\ WF_vars(Deadline(o)) /\ WF_vars(Stall(o))
                       /\ WF_vars(Expire(o)) /\ WF_vars(TimeOut(o))
  /\ WF_vars(CleanupStep)
  /\ \A r \in Requests : WF_vars(RequestStep(r))

FairSpec == Spec /\ Fairness

-----------------------------------------------------------------------------
(* Properties *)

SlotHeld ==
  \A o \in Offers : status[o] \in {"pending", "accepted"} <=> incoming = o

EventMatchesIncoming ==
  incoming # None => event = [id |-> incoming, status |-> status[incoming]]

\* The slot, the table and the event agree: an offer is pending or accepted
\* exactly when it holds peerManager.incoming, so at most one transfer is under
\* way, and KOReader is shown that one in its current state, whatever expiries,
\* declines, cancellations, time-outs and requests that end late do to the three.
OneIncoming == SlotHeld /\ EventMatchesIncoming

\* The offer table implements the promise of PeerOffers: the abstract phase is
\* read off the status, all the ways an offer can end being one.
Phase == [o \in Offers |-> IF status[o] \in {"new", "pending", "accepted", "complete"}
                           THEN status[o] ELSE "over"]
Promise == INSTANCE PeerOffers WITH phase <- Phase
KeepsPromise == Promise!Spec

\* What KOReader reads in peer-events.json is the event.  It differs only if the
\* last attempt to write the file failed, which the next one makes up for, or if
\* pruneLocked let the offer that is shown expire, which publishes nothing.
EventFileCurrent ==
  up /\ eventFile # event =>
    \/ unwritten
    \/ eventFile.id = event.id /\ event.status = "expired" /\ eventFile.status = "pending"

\* What the table records as received is on the disk in full, until a cleanup
\* of that offer starts: two PUTs of one file cannot spoil each other.
ReceivedOnDisk ==
  \A o \in Offers : status[o] = "accepted" /\ removing # o
                    => \A f \in received[o] : content[o][f] = "whole"

\* An offer that left the table as complete is published and every declared
\* file is in it, although completeTransfer publishes without the mutex and a
\* cancellation or a time-out may have removed files meanwhile.  (Of a single file
\* a late PUT and a second POST can publish another copy, under another name.)
CompleteIsWhole ==
  \A o \in Offers : status[o] = "complete" => place[o] \in Indexes /\ Whole(o)

\* Publication never replaces what another transfer published, nor what others
\* made before it looked at the name, although the name was chosen earlier;
\* and where the file system can refuse to replace, nothing at all.
NoOverwrite ==
  [][\A i \in Indexes : dir[i] # Free /\ dir'[i] # dir[i]
       => dir[i] = Local /\ i \in raced /\ dir'[i] \in Offers \ Atomic]_dir

\* No offer keeps the only slot forever: it is decided, expires, finishes or
\* times out, also when the sender or the owner disappears.
SlotFreed == \A o \in Offers : incoming = o ~> incoming # o

\* docs/api/peer-v1.md: the receiver "exposes nothing until completion. It then
\* atomically publishes".  Whatever is in the receive root has every file.
PublishedWhole == \A o \in Offers : place[o] \in Indexes => Whole(o)

=============================================================================
