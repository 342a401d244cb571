----------------------------- MODULE PeerSender -----------------------------
(***************************************************************************)
(* The sending half of the peer service (internal/server/peer.go): the one *)
(* outgoing job, its goroutine runOutgoing, and the HTTP calls it makes to *)
(* a receiver that keeps the promise of PeerOffers.  Job j is the one that *)
(* makes offer j.                                                          *)
(*                                                                         *)
(* A call puts a request into net.  The receiver may serve it late or not  *)
(* at all, whether the sender still waits or has given up: a cancelled     *)
(* context, a time-out and a lost answer all look like Fail to the sender. *)
(* Commands come one at a time (control.Server.Run handles a connection    *)
(* before it accepts the next), but send drops the mutex while it walks    *)
(* the source, so the goroutine of an earlier job may run meanwhile.       *)
(***************************************************************************)
EXTENDS Integers

CONSTANTS
  Jobs,      \* transfers the owner can start
  Count,     \* files each of them has to upload, numbered from 1
  None

ASSUME CountAssumption == Count \in Nat
ASSUME NoJobAssumption == None \notin Jobs

VARIABLES
  closed,      \* peerManager.close has run
  preparing,   \* the job whose source send is walking
  outgoing,    \* peerManager.outgoing
  status,      \* peerOutgoing.Status; "new" before
  canceled,    \* its context was cancelled
  knows,       \* what it knows: "nothing", the "offer" or the "session" capability
  pc,          \* the call the goroutine makes or has in flight, or where it waits
  called,      \* the call is in flight
  next,        \* the file it uploads, or has to upload, next
  net,         \* requests the receiver has not served
  answer,      \* the answer the sender has not read
  phase,       \* the receiver: the phase of an offer,
  have,        \* how many files of it were received,
  publishing,  \* the offers that a completion request is publishing,
  published,   \* those that were renamed into its receive root,
  cleaning,    \* the offer whose stage it is removing with its mutex held,
  damaged      \* and those from which that took files

jobVars    == <<closed, preparing, outgoing, status, canceled, knows>>
callVars   == <<pc, called, next>>
diskVars   == <<publishing, published, cleaning, damaged>>
remoteVars == <<phase, have, diskVars>>
vars == <<jobVars, callVars, net, answer, remoteVars>>

Remote == INSTANCE PeerOffers WITH Offers <- Jobs

Active   == {"offering", "waiting", "sending"}
Terminal == {"complete", "declined", "canceled", "error"}
Calls    == {"offer", "poll", "put", "post"}
Kinds    == Calls \cup {"delete"}
Requests == [job : Jobs, kind : Kinds, file : 0..Count]
Request(j, k, f) == [job |-> j, kind |-> k, file |-> f]

JobType ==
  /\ closed \in BOOLEAN
  /\ preparing \in Jobs \cup {None}
  /\ outgoing \in Jobs \cup {None}
  /\ status \in [Jobs -> {"new"} \cup Active \cup Terminal]
  /\ canceled \in [Jobs -> BOOLEAN]
  /\ knows \in [Jobs -> {"nothing", "offer", "session"}]

CallType ==
  /\ pc \in [Jobs -> {"idle", "wait", "done"} \cup Calls]
  /\ called \in [Jobs -> BOOLEAN]
  /\ next \in [Jobs -> 1 .. Count + 1]
  /\ net \subseteq Requests
  /\ answer \in [Jobs -> {"none", "ok", "refused", "pending", "accepted", "declined"}]

RemoteType ==
  /\ phase \in [Jobs -> Remote!Phases]
  /\ have \in [Jobs -> 0..Count]
  /\ publishing \subseteq Jobs /\ published \subseteq Jobs /\ damaged \subseteq Jobs
  /\ cleaning \in Jobs \cup {None}

TypeOK == JobType /\ CallType /\ RemoteType

Init ==
  /\ closed = FALSE
  /\ preparing = None
  /\ outgoing = None
  /\ status = [j \in Jobs |-> "new"]
  /\ canceled = [j \in Jobs |-> FALSE]
  /\ knows = [j \in Jobs |-> "nothing"]
  /\ pc = [j \in Jobs |-> "idle"]
  /\ called = [j \in Jobs |-> FALSE]
  /\ next = [j \in Jobs |-> 1]
  /\ net = {}
  /\ answer = [j \in Jobs |-> "none"]
  /\ Remote!Init
  /\ have = [j \in Jobs |-> 0]
  /\ publishing = {} /\ published = {} /\ damaged = {}
  /\ cleaning = None

-----------------------------------------------------------------------------
(* Commands of the owner *)

Busy == outgoing # None /\ status[outgoing] \notin Terminal

\* send: the first look at the outgoing job, before the source is walked.
SendCheck(j) ==
  /\ ~closed
  /\ preparing = None
  /\ status[j] = "new"
  /\ ~Busy
  /\ preparing' = j
  /\ UNCHANGED <<closed, outgoing, status, canceled, knows, callVars, net, answer, remoteVars>>

\* send: the second look; a refused command can be given again.
SendStart(j) ==
  /\ preparing = j
  /\ preparing' = None
  /\ IF Busy
     THEN UNCHANGED <<outgoing, status, pc>>
     ELSE /\ outgoing' = j
          /\ status' = [status EXCEPT ![j] = "offering"]
          /\ pc' = [pc EXCEPT ![j] = "offer"]
  /\ UNCHANGED <<closed, canceled, knows, called, next, net, answer, remoteVars>>

\* cancel, with the best-effort DELETE it leaves behind.
Cancel(j) ==
  /\ preparing = None
  /\ outgoing = j
  /\ status[j] \notin Terminal
  /\ canceled' = [canceled EXCEPT ![j] = TRUE]
  /\ status' = [status EXCEPT ![j] = "canceled"]
  /\ net' = IF knows[j] = "nothing" THEN net ELSE net \cup {Request(j, "delete", 0)}
  /\ UNCHANGED <<closed, preparing, outgoing, knows, callVars, answer, remoteVars>>

\* peerManager.close: the receiver is not told.
Close ==
  /\ ~closed
  /\ preparing = None
  /\ closed' = TRUE
  /\ IF outgoing # None
     THEN /\ canceled' = [canceled EXCEPT ![outgoing] = TRUE]
          /\ status' = IF Busy THEN [status EXCEPT ![outgoing] = "canceled"] ELSE status
     ELSE UNCHANGED <<canceled, status>>
  /\ UNCHANGED <<preparing, outgoing, knows, callVars, net, answer, remoteVars>>

-----------------------------------------------------------------------------
(* runOutgoing *)

\* updateOutgoing: only while j is still the job that is shown.
Update(j, s, k) ==
  IF outgoing = j
  THEN /\ status' = [status EXCEPT ![j] = s]
       /\ knows' = [knows EXCEPT ![j] = k]
  ELSE UNCHANGED <<status, knows>>

\* peerJSON sends its request, unless the context was cancelled before.
Issue(j) ==
  /\ pc[j] \in Calls
  /\ ~called[j]
  /\ ~canceled[j]
  /\ pc[j] = "put" => next[j] <= Count
  /\ called' = [called EXCEPT ![j] = TRUE]
  /\ net' = net \cup {Request(j, pc[j], IF pc[j] = "put" THEN next[j] ELSE 0)}
  /\ UNCHANGED <<jobVars, pc, next, answer, remoteVars>>

\* The goroutine goes on to call or place p, with nothing in flight.
GoOn(j, p) ==
  /\ pc' = [pc EXCEPT ![j] = p]
  /\ called' = [called EXCEPT ![j] = FALSE]
  /\ answer' = [answer EXCEPT ![j] = "none"]

\* Mutant: a poll that failed is repeated, whatever the reason.
MutFail(j) ==
  /\ pc[j] \in Calls
  /\ called[j] \/ canceled[j] \/ pc[j] = "put"
  /\ IF pc[j] = "poll"
     THEN GoOn(j, "wait") /\ UNCHANGED <<status, knows>>
     ELSE GoOn(j, "done") /\ Update(j, "error", knows[j])
  /\ UNCHANGED <<closed, preparing, outgoing, canceled, next, net, remoteVars>>

\* A call fails: refused, timed out, cancelled or broken off, at any moment, or
\* a source file has changed.  uploadOutgoing hides context.Canceled behind a
\* new error, so a cancelled upload also ends as "error".
Fail(j) ==
  /\ pc[j] \in Calls
  /\ called[j] \/ canceled[j] \/ pc[j] = "put"
  /\ GoOn(j, "done")
  /\ Update(j, "error", knows[j])
  /\ UNCHANGED <<closed, preparing, outgoing, canceled, next, net, remoteVars>>

Offered(j) ==
  /\ pc[j] = "offer" /\ answer[j] = "ok"
  /\ GoOn(j, "poll")
  /\ Update(j, "waiting", "offer")
  /\ UNCHANGED <<closed, preparing, outgoing, canceled, next, net, remoteVars>>

StillPending(j) ==
  /\ pc[j] = "poll" /\ answer[j] = "pending"
  /\ GoOn(j, "wait")
  /\ UNCHANGED <<jobVars, next, net, remoteVars>>

\* The receiver answers "declined" or "expired".
Declined(j) ==
  /\ pc[j] = "poll" /\ answer[j] = "declined"
  /\ GoOn(j, "done")
  /\ Update(j, "declined", knows[j])
  /\ UNCHANGED <<closed, preparing, outgoing, canceled, next, net, remoteVars>>

Accepted(j) ==
  /\ pc[j] = "poll" /\ answer[j] = "accepted"
  /\ GoOn(j, "put")
  /\ Update(j, "sending", "session")
  /\ UNCHANGED <<closed, preparing, outgoing, canceled, next, net, remoteVars>>

\* The timer of the poll fires, or the context is cancelled first.
PollAgain(j) ==
  /\ pc[j] = "wait"
  /\ GoOn(j, "poll")
  /\ UNCHANGED <<jobVars, next, net, remoteVars>>

FinishCanceled(j) ==
  /\ pc[j] = "wait"
  /\ canceled[j]
  /\ GoOn(j, "done")
  /\ Update(j, "canceled", knows[j])
  /\ UNCHANGED <<closed, preparing, outgoing, canceled, next, net, remoteVars>>

\* uploadOutgoing: one file after the other, each acknowledged.
Uploaded(j) ==
  /\ pc[j] = "put" /\ answer[j] = "ok"
  /\ GoOn(j, "put")
  /\ next' = [next EXCEPT ![j] = @ + 1]
  /\ UNCHANGED <<jobVars, net, remoteVars>>

AllUploaded(j) ==
  /\ pc[j] = "put" /\ next[j] = Count + 1
  /\ GoOn(j, "post")
  /\ UNCHANGED <<jobVars, next, net, remoteVars>>

\* Mutant: the status of the answer to the POST is not looked at.
MutCompleted(j) ==
  /\ pc[j] = "post" /\ answer[j] # "none"
  /\ GoOn(j, "done")
  /\ Update(j, "complete", knows[j])
  /\ UNCHANGED <<closed, preparing, outgoing, canceled, next, net, remoteVars>>

Completed(j) ==
  /\ pc[j] = "post" /\ answer[j] = "ok"
  /\ GoOn(j, "done")
  /\ Update(j, "complete", knows[j])
  /\ UNCHANGED <<closed, preparing, outgoing, canceled, next, net, remoteVars>>

JobStep(j) ==
  \/ Issue(j) \/ Fail(j) \/ Offered(j) \/ StillPending(j) \/ Declined(j) \/ Accepted(j)
  \/ PollAgain(j) \/ FinishCanceled(j) \/ Uploaded(j) \/ AllUploaded(j) \/ Completed(j)

-----------------------------------------------------------------------------
(* The receiver, as PeerOffers and PeerReceiver describe it *)

\* Serve request m.  Its answer gets lost when the sender has given up.
Serve(m, a) ==
  /\ m \in net
  /\ net' = net \ {m}
  /\ answer' = IF called[m.job] /\ pc[m.job] = m.kind
               THEN [answer EXCEPT ![m.job] = a] ELSE answer
  /\ UNCHANGED <<jobVars, callVars>>

\* Its mutex is free.
Unlocked == cleaning = None

\* The receiver gives offer j up.  Of an accepted one it first removes the stage,
\* with the mutex held: what has been renamed by then is safe, of anything else
\* some files may be gone.
GiveUp(j) ==
  \/ /\ phase[j] = "pending"
     /\ Remote!End(j)
     /\ UNCHANGED <<cleaning, damaged>>
  \/ /\ phase[j] = "accepted"
     /\ cleaning' = j
     /\ damaged' \in {damaged, damaged \cup ({j} \ published)}
     /\ UNCHANGED phase

CleanupEnd(j) ==
  /\ cleaning = j
  /\ cleaning' = None
  /\ Remote!End(j)
  /\ UNCHANGED <<jobVars, callVars, net, answer, have, publishing, published, damaged>>

\* createOffer; another sender may hold the slot.
ServeOffer(j) ==
  /\ Unlocked
  /\ \/ Serve(Request(j, "offer", 0), "ok") /\ Remote!Ask(j)
     \/ Serve(Request(j, "offer", 0), "refused") /\ UNCHANGED phase
  /\ UNCHANGED <<have, diskVars>>

\* getOffer; an offer that is over may be gone from the table.
ServePoll(j) ==
  /\ Unlocked
  /\ \/ phase[j] = "pending"  /\ Serve(Request(j, "poll", 0), "pending")
     \/ phase[j] = "accepted" /\ Serve(Request(j, "poll", 0), "accepted")
     \/ phase[j] = "over"     /\ Serve(Request(j, "poll", 0), "declined")
     \/ ~Remote!Open(j)       /\ Serve(Request(j, "poll", 0), "refused")
  /\ UNCHANGED remoteVars

\* putTransferFile; a body that breaks off or a file out of turn ends the offer.
ServePut(j, f) ==
  /\ Unlocked
  /\ \/ /\ Serve(Request(j, "put", f), "ok")
        /\ phase[j] = "accepted"
        /\ f = have[j] + 1
        /\ have' = [have EXCEPT ![j] = f]
        /\ UNCHANGED <<phase, cleaning, damaged>>
     \/ /\ Serve(Request(j, "put", f), "refused")
        /\ GiveUp(j) \/ (~Remote!Open(j) /\ UNCHANGED <<phase, cleaning, damaged>>)
        /\ UNCHANGED have
  /\ UNCHANGED <<publishing, published>>

\* completeTransfer up to the point where it drops the mutex.
ServePost(j) ==
  /\ Unlocked
  /\ Request(j, "post", 0) \in net
  /\ phase[j] = "accepted" /\ have[j] = Count
  /\ j \notin publishing
  /\ publishing' = publishing \cup {j}
  /\ UNCHANGED <<jobVars, callVars, net, answer, phase, have, published, cleaning, damaged>>

\* publishReceived renames what is in the stage, cleanup or not.
Publish(j) ==
  /\ j \in publishing
  /\ published' = published \cup {j}
  /\ UNCHANGED <<jobVars, callVars, net, answer, phase, have, publishing, cleaning, damaged>>

\* The end of completeTransfer: the answer says that it worked, whether or not
\* the offer has ended meanwhile.
AnswerPost(j) ==
  /\ Unlocked
  /\ j \in publishing \cap published
  /\ publishing' = publishing \ {j}
  /\ Serve(Request(j, "post", 0), "ok")
  /\ Remote!Complete(j) \/ (phase[j] # "accepted" /\ UNCHANGED phase)
  /\ UNCHANGED <<have, published, cleaning, damaged>>

\* The completion is refused, or the content cannot be published.
RefusePost(j) ==
  /\ Unlocked
  /\ j \notin publishing \cap published
  /\ Serve(Request(j, "post", 0), "refused")
  /\ GiveUp(j) \/ (phase[j] # "accepted" /\ UNCHANGED <<phase, cleaning, damaged>>)
  /\ publishing' = publishing \ {j}
  /\ UNCHANGED <<have, published>>

\* cancelOffer and cancelTransfer.
ServeDelete(j) ==
  /\ Unlocked
  /\ Serve(Request(j, "delete", 0), "none")
  /\ GiveUp(j) \/ (~Remote!Open(j) /\ UNCHANGED <<phase, cleaning, damaged>>)
  /\ UNCHANGED <<have, publishing, published>>

\* A request that nobody will serve.
Lose(m) ==
  /\ m \in net
  /\ m.job \notin publishing
  /\ net' = net \ {m}
  /\ UNCHANGED <<jobVars, callVars, answer, remoteVars>>

\* The receiving owner accepts; an offer ends by refusal, expiry, time-out,
\* cancellation or restart.
Approve(j) ==
  /\ Unlocked
  /\ Remote!Approve(j)
  /\ UNCHANGED <<jobVars, callVars, net, answer, have, diskVars>>

EndOffer(j) ==
  /\ Unlocked
  /\ GiveUp(j)
  /\ UNCHANGED <<jobVars, callVars, net, answer, have, publishing, published>>

RemoteStep(j) ==
  \/ ServeOffer(j) \/ ServePoll(j) \/ ServePost(j) \/ Publish(j) \/ AnswerPost(j)
  \/ RefusePost(j) \/ ServeDelete(j) \/ Approve(j) \/ EndOffer(j) \/ CleanupEnd(j)
  \/ \E f \in 1..Count : ServePut(j, f)

-----------------------------------------------------------------------------
Command(j) == SendCheck(j) \/ SendStart(j) \/ Cancel(j)

Next ==
  \/ \E j \in Jobs : Command(j) \/ JobStep(j) \/ RemoteStep(j)
  \/ \E m \in net : Lose(m)
  \/ Close

Spec == Init /\ [][Next]_vars

(***************************************************************************)
(* A call returns, be it by ResponseHeaderTimeout or by the end of the     *)
(* connection, and the poll timer fires; the receiver ends an offer nobody *)
(* decides or advances (PeerReceiver!SlotFreed).  It need not answer.      *)
(***************************************************************************)
Fairness ==
  \A j \in Jobs : /\ WF_vars(JobStep(j)) /\ WF_vars(SendStart(j))
                  /\ WF_vars(EndOffer(j)) /\ WF_vars(CleanupEnd(j))

FairSpec == Spec /\ Fairness

-----------------------------------------------------------------------------
(* Properties *)

\* A job that is not settled is the outgoing one: the goroutine of a job that
\* was cancelled and replaced cannot bring it back.
OneActive == \A j \in Jobs : status[j] \in Active => outgoing = j

\* A job is reported complete only when the receiver has got every file and put
\* the content into its receive root, where it is whole, unless the receiver had
\* begun to give the offer up before it renamed it and answered "complete" all the
\* same (completeTransfer publishes without the mutex).
CompleteIsPublished ==
  \A j \in Jobs : status[j] = "complete" =>
    /\ j \in published /\ have[j] = Count
    /\ j \in damaged => phase[j] = "over"

\* An honest sender is never refused for its order: a file is sent when all
\* before it have arrived, and completion is asked for when all have.
RequestsInOrder ==
  \A m \in net : /\ m.kind = "put"  => have[m.job] + 1 = m.file
                 /\ m.kind = "post" => have[m.job] = Count

\* docs/api/peer-v1.md: "Only one incoming and one outgoing transfer may be
\* active per service".  Only the outgoing job starts a request; of an earlier
\* one no more than the call in flight is left.
OnlyOutgoingSends ==
  [][\A m \in net' \ net : m.kind # "delete" => outgoing = m.job]_net

\* How a job ended is not changed later, except that a cancelled job may still
\* turn out otherwise.
OutcomeStays ==
  [][\A j \in Jobs : status[j] \in Terminal \ {"canceled"} => status'[j] = status[j]]_status

\* Every job that was started comes to an end, also when answers get lost.
JobEnds == \A j \in Jobs : status[j] \in Active ~> status[j] \in Terminal
=============================================================================
