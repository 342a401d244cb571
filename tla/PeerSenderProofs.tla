-------------------------- MODULE PeerSenderProofs --------------------------
(***************************************************************************)
(* Proofs about PeerSender for every set of jobs and number of files.      *)
(***************************************************************************)
EXTENDS PeerSender, TLAPS

USE CountAssumption, NoJobAssumption

\* A job that runs and was not cancelled is the one that is shown, and active;
\* one that settled otherwise than by cancellation runs no more.
Shown ==
  /\ preparing # None => status[preparing] = "new"
  /\ outgoing # None => status[outgoing] # "new"
  /\ \A j \in Jobs :
       /\ pc[j] = "idle" <=> status[j] = "new"
       /\ (pc[j] \notin {"idle", "done"} /\ ~canceled[j]) =>
            (outgoing = j /\ status[j] \in Active)
       /\ status[j] \in Terminal \ {"canceled"} => pc[j] = "done"

\* A request of a job is the call it waits for, or was left behind when it ended.
Flight ==
  /\ \A j \in Jobs : ~called[j] => answer[j] = "none"
  /\ \A m \in net :
       /\ m.kind # "put" => m.file = 0
       /\ m.kind # "delete" =>
            \/ pc[m.job] = "done"
            \/ pc[m.job] = m.kind /\ called[m.job] /\ answer[m.job] = "none"

\* How far the sender is, and how far the receiver.
Progress ==
  \A j \in Jobs :
    /\ pc[j] \in {"idle", "offer", "poll", "wait"} => have[j] = 0 /\ next[j] = 1
    /\ pc[j] = "put" /\ answer[j] = "ok" => have[j] = next[j]
    /\ pc[j] = "put" /\ answer[j] # "ok" => have[j] + 1 = next[j]
    /\ pc[j] = "post" => have[j] = Count
    /\ pc[j] = "post" /\ answer[j] = "ok" => j \in published
    /\ j \in publishing => have[j] = Count

\* The receiver removes the stage of an accepted offer, and what that took is gone
\* for good: such an offer ends.  Only what was accepted is published.
CleanupOK ==
  /\ cleaning # None => phase[cleaning] = "accepted"
  /\ \A j \in damaged : cleaning = j \/ phase[j] = "over"
  /\ \A j \in publishing : phase[j] \in {"accepted", "complete", "over"}

\* An answer that said "published" is about an offer that has ended.
Told(j) == (pc[j] = "post" /\ answer[j] = "ok") \/ status[j] = "complete"
Ended(j) == phase[j] \in {"complete", "over"}
Answered == \A j \in Jobs : Told(j) => Ended(j)

Stored == \A j \in Jobs : status[j] = "complete" => j \in published /\ have[j] = Count

Sending == Flight /\ RequestsInOrder /\ Progress /\ Stored

Ending == CleanupOK /\ Answered

Inv == TypeOK /\ OneActive /\ Shown /\ Sending /\ Ending

-----------------------------------------------------------------------------
(* Type correctness *)

LEMMA RequestType ==
  ASSUME NEW j \in Jobs, NEW k \in Kinds, NEW f \in 0..Count
  PROVE  Request(j, k, f) \in Requests
BY DEF Request, Requests

LEMMA InitType == Init => TypeOK
<1> SUFFICES ASSUME Init PROVE TypeOK
  OBVIOUS
<1>1. JobType
  BY DEF Init, JobType
<1>2. CallType
  BY DEF Init, CallType
<1>3. RemoteType
  BY DEF Init, RemoteType, Remote!Init, Remote!Phases
<1> QED BY <1>1, <1>2, <1>3 DEF TypeOK

LEMMA UpdateType ==
  ASSUME JobType, NEW j \in Jobs, NEW s \in Active \cup Terminal,
         NEW k \in {"nothing", "offer", "session"}, Update(j, s, k),
         UNCHANGED <<closed, preparing, outgoing, canceled>>
  PROVE  JobType'
BY DEF JobType, Update

LEMMA GoOnType ==
  ASSUME CallType, NEW j \in Jobs, NEW p \in {"wait", "done"} \cup Calls, GoOn(j, p),
         UNCHANGED <<next, net>>
  PROVE  CallType'
BY DEF CallType, GoOn

LEMMA ServeType ==
  ASSUME TypeOK, NEW m \in Requests,
         NEW a \in {"none", "ok", "refused", "pending", "accepted", "declined"}, Serve(m, a)
  PROVE  JobType' /\ CallType'
<1>1. m.job \in Jobs
  BY DEF Requests
<1> QED BY <1>1 DEF TypeOK, JobType, CallType, Serve, jobVars, callVars

LEMMA CommandType ==
  ASSUME TypeOK, NEW j \in Jobs, Command(j)
  PROVE  TypeOK'
<1>1. CASE SendCheck(j)
  BY <1>1 DEF SendCheck, TypeOK, JobType, CallType, RemoteType, callVars, remoteVars, diskVars
<1>2. CASE SendStart(j)
  BY <1>2 DEF SendStart, TypeOK, JobType, CallType, RemoteType, remoteVars, diskVars, Active, Calls
<1>3. CASE Cancel(j)
  <2>1. Request(j, "delete", 0) \in Requests
    BY RequestType DEF Kinds
  <2> QED BY <1>3, <2>1 DEF Cancel, TypeOK, JobType, CallType, RemoteType, callVars, remoteVars, diskVars,
                          Terminal
<1> QED BY <1>1, <1>2, <1>3 DEF Command

LEMMA CloseType ==
  ASSUME TypeOK, Close
  PROVE  TypeOK'
BY DEF Close, Busy, TypeOK, JobType, CallType, RemoteType, callVars, remoteVars, diskVars, Terminal

LEMMA JobStepType ==
  ASSUME TypeOK, Progress, NEW j \in Jobs, JobStep(j)
  PROVE  TypeOK'
<1> USE DEF TypeOK
<1>1. CASE Issue(j)
  <2>1. Request(j, pc[j], IF pc[j] = "put" THEN next[j] ELSE 0) \in Requests
    BY <1>1 DEF Issue, CallType, Request, Requests, Kinds
  <2>2. CallType'
    BY <1>1, <2>1 DEF Issue, CallType
  <2> QED BY <1>1, <2>2 DEF Issue, JobType, RemoteType, jobVars, remoteVars, diskVars
<1>2. ASSUME UNCHANGED remoteVars
      PROVE  RemoteType'
  BY <1>2 DEF RemoteType, remoteVars, diskVars
<1>3. ASSUME UNCHANGED jobVars
      PROVE  JobType'
  BY <1>3 DEF JobType, jobVars
<1>4. knows[j] \in {"nothing", "offer", "session"}
  BY DEF JobType
<1>5. CASE Fail(j)
  BY <1>2, <1>4, <1>5, UpdateType, GoOnType DEF Fail, Terminal
<1>6. CASE Offered(j)
  BY <1>2, <1>6, UpdateType, GoOnType DEF Offered, Active, Calls
<1>7. CASE StillPending(j)
  BY <1>2, <1>3, <1>7, GoOnType DEF StillPending
<1>8. CASE Declined(j)
  BY <1>2, <1>4, <1>8, UpdateType, GoOnType DEF Declined, Terminal
<1>9. CASE Accepted(j)
  BY <1>2, <1>9, UpdateType, GoOnType DEF Accepted, Active, Calls
<1>10. CASE PollAgain(j)
  BY <1>2, <1>3, <1>10, GoOnType DEF PollAgain, Calls
<1>11. CASE FinishCanceled(j)
  BY <1>2, <1>4, <1>11, UpdateType, GoOnType DEF FinishCanceled, Terminal
<1>12. CASE AllUploaded(j)
  BY <1>2, <1>3, <1>12, GoOnType DEF AllUploaded, Calls
<1>13. CASE Completed(j)
  BY <1>2, <1>4, <1>13, UpdateType, GoOnType DEF Completed, Terminal
<1>14. CASE Uploaded(j)
  <2>1. next[j] \in 1..Count
    BY <1>14 DEF Uploaded, Progress, CallType, RemoteType
  <2>2. CallType'
    BY <1>14, <2>1 DEF Uploaded, GoOn, CallType, Calls
  <2> QED BY <1>2, <1>3, <1>14, <2>2 DEF Uploaded
<1> QED BY <1>1, <1>5, <1>6, <1>7, <1>8, <1>9, <1>10, <1>11, <1>12, <1>13, <1>14 DEF JobStep

LEMMA RemoteStepType ==
  ASSUME TypeOK, NEW j \in Jobs, RemoteStep(j)
  PROVE  TypeOK'
<1> USE DEF TypeOK
<1>1. \A k \in Kinds, f \in 0..Count : Request(j, k, f) \in Requests
  BY RequestType
<1>2. 0 \in 0..Count
  OBVIOUS
<1> DEFINE Served == JobType' /\ CallType'
<1>3. \A k \in Kinds, f \in 0..Count :
        \A a \in {"none", "ok", "refused", "pending", "accepted", "declined"} :
          Serve(Request(j, k, f), a) => Served
  BY <1>1, ServeType
<1>4. ASSUME UNCHANGED <<jobVars, callVars, net, answer>>
      PROVE  Served
  BY <1>4 DEF JobType, CallType, jobVars, callVars
<1> HIDE DEF Served
<1>5. Remote!Ask(j) \/ Remote!Approve(j) \/ Remote!Complete(j) \/ Remote!End(j)
        => phase' \in [Jobs -> Remote!Phases]
  BY DEF RemoteType, Remote!Ask, Remote!Approve, Remote!Complete, Remote!End, Remote!Move,
         Remote!Phases
<1>6. GiveUp(j) => /\ phase' \in [Jobs -> Remote!Phases]
                   /\ cleaning' \in Jobs \cup {None} /\ damaged' \subseteq Jobs
  BY <1>5 DEF GiveUp, RemoteType
<1>7. ASSUME UNCHANGED remoteVars
      PROVE  RemoteType'
  BY <1>7 DEF RemoteType, remoteVars, diskVars
<1>8. CASE ServeOffer(j)
  <2>1. RemoteType'
    BY <1>5, <1>8 DEF ServeOffer, RemoteType, diskVars
  <2> QED BY <1>2, <1>3, <1>8, <2>1 DEF ServeOffer, Kinds, Calls, Served
<1>9. CASE ServePoll(j)
  BY <1>2, <1>3, <1>7, <1>9 DEF ServePoll, Kinds, Calls, Served
<1>10. CASE \E f \in 1..Count : ServePut(j, f)
  <2>1. RemoteType'
    BY <1>6, <1>10 DEF ServePut, RemoteType
  <2> QED BY <1>3, <1>10, <2>1 DEF ServePut, Kinds, Calls, Served
<1>11. CASE ServePost(j) \/ Publish(j)
  BY <1>4, <1>11 DEF ServePost, Publish, RemoteType, Served
<1>12. CASE AnswerPost(j)
  BY <1>2, <1>3, <1>5, <1>12 DEF AnswerPost, Kinds, Calls, RemoteType, Served
<1>13. CASE RefusePost(j)
  <2>1. RemoteType'
    BY <1>6, <1>13 DEF RefusePost, RemoteType
  <2> QED BY <1>2, <1>3, <1>13, <2>1 DEF RefusePost, Kinds, Calls, Served
<1>14. CASE ServeDelete(j)
  <2>1. RemoteType'
    BY <1>6, <1>14 DEF ServeDelete, RemoteType
  <2> QED BY <1>2, <1>3, <1>14, <2>1 DEF ServeDelete, Kinds, Served
<1>15. CASE Approve(j) \/ EndOffer(j) \/ CleanupEnd(j)
  <2>1. RemoteType'
    BY <1>5, <1>6, <1>15 DEF Approve, EndOffer, CleanupEnd, RemoteType, diskVars
  <2> QED BY <1>4, <1>15, <2>1 DEF Approve, EndOffer, CleanupEnd, Served
<1> QED BY <1>8, <1>9, <1>10, <1>11, <1>12, <1>13, <1>14, <1>15 DEF RemoteStep

LEMMA NextType ==
  ASSUME TypeOK, Progress, [Next]_vars
  PROVE  TypeOK'
<1>1. ASSUME NEW m \in net, Lose(m)
      PROVE  TypeOK'
  BY <1>1 DEF Lose, TypeOK, JobType, CallType, RemoteType, jobVars, callVars, remoteVars, diskVars
<1>2. CASE UNCHANGED vars
  BY <1>2 DEF vars, TypeOK, JobType, CallType, RemoteType, jobVars, callVars, remoteVars, diskVars
<1> QED BY <1>1, <1>2, CommandType, JobStepType, RemoteStepType, CloseType DEF Next

-----------------------------------------------------------------------------
(* One active job, and who may send *)

LEMMA InitShown == Init => OneActive /\ Shown
BY DEF Init, OneActive, Shown, Active, Terminal

LEMMA CommandShown ==
  ASSUME TypeOK, OneActive, Shown, NEW i \in Jobs, Command(i)
  PROVE  OneActive' /\ Shown'
<1> USE DEF TypeOK, JobType, OneActive, Shown, Active, Terminal
<1>1. CASE SendCheck(i)
  BY <1>1 DEF SendCheck, callVars
<1>2. CASE SendStart(i)
  BY <1>2 DEF SendStart, Busy, CallType
<1>3. CASE Cancel(i)
  BY <1>3 DEF Cancel, callVars
<1> QED BY <1>1, <1>2, <1>3 DEF Command

LEMMA CloseShown ==
  ASSUME TypeOK, OneActive, Shown, Close
  PROVE  OneActive' /\ Shown'
BY DEF TypeOK, JobType, OneActive, Shown, Active, Terminal, Close, Busy, callVars

LEMMA JobStepShown ==
  ASSUME TypeOK, OneActive, Shown, NEW i \in Jobs, JobStep(i)
  PROVE  OneActive' /\ Shown'
<1> USE DEF TypeOK, JobType, CallType, OneActive, Shown, Active, Terminal, Calls
<1>1. CASE Issue(i)
  BY <1>1 DEF Issue, jobVars
<1>2. CASE Fail(i)
  BY <1>2 DEF Fail, GoOn, Update
<1>3. CASE Offered(i)
  BY <1>3 DEF Offered, GoOn, Update
<1>4. CASE StillPending(i) \/ PollAgain(i)
  BY <1>4 DEF StillPending, PollAgain, GoOn, jobVars
<1>5. CASE Declined(i)
  BY <1>5 DEF Declined, GoOn, Update
<1>6. CASE Accepted(i)
  BY <1>6 DEF Accepted, GoOn, Update
<1>7. CASE FinishCanceled(i)
  BY <1>7 DEF FinishCanceled, GoOn, Update
<1>8. CASE Uploaded(i) \/ AllUploaded(i)
  BY <1>8 DEF Uploaded, AllUploaded, GoOn, jobVars
<1>9. CASE Completed(i)
  BY <1>9 DEF Completed, GoOn, Update
<1> QED BY <1>1, <1>2, <1>3, <1>4, <1>5, <1>6, <1>7, <1>8, <1>9 DEF JobStep

LEMMA RemoteLeavesJobs ==
  ASSUME NEW i \in Jobs, RemoteStep(i)
  PROVE  UNCHANGED <<jobVars, callVars>>
BY DEF RemoteStep, ServeOffer, ServePoll, ServePut, ServePost, Publish, AnswerPost, RefusePost,
       ServeDelete, Approve, EndOffer, CleanupEnd, Serve

LEMMA NextShown ==
  ASSUME TypeOK, OneActive, Shown, [Next]_vars
  PROVE  OneActive' /\ Shown'
<1>1. ASSUME UNCHANGED <<jobVars, callVars>>
      PROVE  OneActive' /\ Shown'
  BY <1>1 DEF OneActive, Shown, jobVars, callVars
<1>2. ASSUME NEW m \in net, Lose(m)
      PROVE  OneActive' /\ Shown'
  BY <1>1, <1>2 DEF Lose
<1>3. CASE UNCHANGED vars
  BY <1>1, <1>3 DEF vars
<1> QED BY <1>1, <1>2, <1>3, CommandShown, CloseShown, JobStepShown, RemoteLeavesJobs DEF Next

-----------------------------------------------------------------------------
(* What the receiver has, and what the sender believes it has *)

LEMMA InitSending == Init => Sending
BY DEF Init, Sending, Flight, RequestsInOrder, Progress, Stored

\* What a request in net says.
LEMMA NetFields ==
  ASSUME TypeOK, NEW m \in net
  PROVE  m.job \in Jobs /\ m.kind \in Kinds /\ m.file \in 0..Count
BY DEF TypeOK, CallType, Requests

LEMMA CommandSending ==
  ASSUME Inv, NEW i \in Jobs, Command(i)
  PROVE  Sending'
<1> USE DEF Inv, TypeOK, JobType, CallType, RemoteType, Shown,
            Sending, Flight, RequestsInOrder, Progress, Stored
<1>1. CASE SendCheck(i)
  BY <1>1 DEF SendCheck, callVars, remoteVars, diskVars
<1>2. CASE SendStart(i)
  BY <1>2, NetFields DEF SendStart, remoteVars, diskVars, Kinds, Calls
<1>3. CASE Cancel(i)
  <2>1. \A m \in net' \ net : m.kind = "delete" /\ m.file = 0
    BY <1>3 DEF Cancel, Request
  <2> QED BY <1>3, <2>1 DEF Cancel, callVars, remoteVars, diskVars
<1> QED BY <1>1, <1>2, <1>3 DEF Command

LEMMA CloseSending ==
  ASSUME Inv, Close
  PROVE  Sending'
BY DEF Inv, TypeOK, JobType, Sending, Flight, RequestsInOrder, Progress, Stored,
       Close, callVars, remoteVars, diskVars

\* A job that goes on with nothing in flight has no request on its way.
LEMMA IssueSending ==
  ASSUME Inv, NEW i \in Jobs, Issue(i)
  PROVE  Sending'
<1> DEFINE f == IF pc[i] = "put" THEN next[i] ELSE 0
           r == Request(i, pc[i], f)
<1> USE DEF Inv, TypeOK, JobType, CallType, RemoteType, Calls
<1>1. net' = net \cup {r} /\ called' = [called EXCEPT ![i] = TRUE]
  BY DEF Issue
<1>2. r.job = i /\ r.kind = pc[i] /\ r.file = f
  BY DEF Request
<1>3. UNCHANGED <<status, pc, next, answer, have, publishing, published>>
  BY DEF Issue, jobVars, remoteVars, diskVars
<1>4. pc[i] \in Calls /\ answer[i] = "none"
  BY DEF Issue, Sending, Flight
<1>5. /\ pc[i] = "put" => have[i] + 1 = next[i]
      /\ pc[i] = "post" => have[i] = Count
  BY <1>4 DEF Sending, Progress
<1>6. Flight'
  BY <1>1, <1>2, <1>3, <1>4 DEF Sending, Flight
<1>7. RequestsInOrder'
  BY <1>1, <1>2, <1>3, <1>5 DEF Sending, RequestsInOrder
<1> QED BY <1>3, <1>6, <1>7 DEF Sending, Progress, Stored

LEMMA JobStepSending ==
  ASSUME Inv, NEW i \in Jobs, JobStep(i)
  PROVE  Sending'
<1> USE DEF Inv, TypeOK, JobType, CallType, RemoteType, Shown, Calls,
            Sending, Flight, RequestsInOrder, Progress, Stored
<1>1. CASE Fail(i)
  BY <1>1 DEF Fail, GoOn, Update, remoteVars, diskVars
<1>2. CASE Offered(i)
  BY <1>2 DEF Offered, GoOn, Update, remoteVars, diskVars
<1>3. CASE StillPending(i) \/ PollAgain(i)
  BY <1>3, NetFields DEF StillPending, PollAgain, GoOn, jobVars, remoteVars, diskVars, Kinds
<1>4. CASE Declined(i)
  BY <1>4 DEF Declined, GoOn, Update, remoteVars, diskVars
<1>5. CASE Accepted(i)
  BY <1>5 DEF Accepted, GoOn, Update, remoteVars, diskVars
<1>6. CASE FinishCanceled(i)
  BY <1>6 DEF FinishCanceled, GoOn, Update, remoteVars, diskVars
<1>7. CASE Uploaded(i)
  BY <1>7 DEF Uploaded, GoOn, jobVars, remoteVars, diskVars
<1>8. CASE AllUploaded(i)
  <2>1. have[i] = Count
    BY <1>8 DEF AllUploaded
  <2>2. \A m \in net : m.job = i => m.kind = "delete"
    BY <1>8, <2>1, NetFields DEF AllUploaded
  <2> QED BY <1>8, <2>1, <2>2 DEF AllUploaded, GoOn, jobVars, remoteVars, diskVars
<1>9. CASE Completed(i)
  BY <1>9 DEF Completed, GoOn, Update, remoteVars, diskVars
<1> QED BY <1>1, <1>2, <1>3, <1>4, <1>5, <1>6, <1>7, <1>8, <1>9, IssueSending DEF JobStep

\* Serving a request concerns no other, and gives its job at most one answer.
LEMMA Served ==
  ASSUME Inv, NEW i \in Jobs, NEW k \in Kinds, NEW f \in 0..Count, NEW a,
         Serve(Request(i, k, f), a), a # "none" \/ k = "delete"
  PROVE  /\ Flight'
         /\ Request(i, k, f) \in net
         /\ net' = net \ {Request(i, k, f)}
         /\ UNCHANGED <<status, pc, called, next>>
         /\ \A j \in Jobs \ {i} : answer'[j] = answer[j]
         /\ pc[i] # k => answer'[i] = answer[i]
         /\ pc[i] = k => answer[i] = "none" /\ answer'[i] = a
<1> DEFINE r == Request(i, k, f)
<1> USE DEF Inv, TypeOK, CallType
<1>1. r.job = i /\ r.kind = k /\ r.file = f
  BY DEF Request
<1>2. r \in net /\ net' = net \ {r} /\ UNCHANGED <<status, pc, called, next>>
  BY DEF Serve, jobVars, callVars
<1>3. pc[i] = k => (called[i] /\ answer[i] = "none" /\ k # "delete")
  BY <1>1, <1>2 DEF Sending, Flight, Kinds, Calls
<1>4. answer' = IF called[i] /\ pc[i] = k THEN [answer EXCEPT ![i] = a] ELSE answer
  BY <1>1 DEF Serve
<1>5. \A m \in net' : ~(m.job = i /\ m.kind = k /\ k # "delete")
  <2> SUFFICES ASSUME NEW m \in net', m.job = i, m.kind = k, k # "delete"
               PROVE  FALSE
    OBVIOUS
  <2>1. m \in Requests /\ r \in Requests
    BY <1>2
  <2>2. m.file = r.file
    BY <1>1, <1>2, <2>1 DEF Sending, Flight, RequestsInOrder, Requests
  <2> QED BY <1>1, <1>2, <2>1, <2>2 DEF Requests
<1> QED BY <1>1, <1>2, <1>3, <1>4, <1>5 DEF Sending, Flight

LEMMA ServeOfferSending ==
  ASSUME Inv, NEW i \in Jobs, ServeOffer(i) \/ ServePoll(i)
  PROVE  Sending'
<1> USE DEF Inv, TypeOK, JobType, CallType, RemoteType, Sending
<1>1. PICK k \in {"offer", "poll"}, a \in {"ok", "refused", "pending", "accepted", "declined"} :
        Serve(Request(i, k, 0), a)
  BY DEF ServeOffer, ServePoll
<1>2. UNCHANGED <<have, publishing, published>>
  BY DEF ServeOffer, ServePoll, remoteVars, diskVars
<1>3. 0 \in 0..Count /\ k \in Kinds
  BY DEF Kinds, Calls
<1>4. /\ Flight' /\ net' \subseteq net /\ UNCHANGED <<status, pc, called, next>>
      /\ \A j \in Jobs \ {i} : answer'[j] = answer[j]
      /\ pc[i] # k => answer'[i] = answer[i]
  BY <1>1, <1>3, Served
<1> QED BY <1>2, <1>4 DEF RequestsInOrder, Progress, Stored

\* A file that arrives is the next one; the request that brought it is gone.
LEMMA ServePutSending ==
  ASSUME Inv, NEW i \in Jobs, NEW f \in 1..Count, ServePut(i, f)
  PROVE  Sending'
<1> USE DEF Inv, TypeOK, JobType, CallType, RemoteType, Sending
<1>1. f \in 0..Count /\ "put" \in Kinds
  BY DEF Kinds, Calls
<1>2. CASE Serve(Request(i, "put", f), "refused") /\ UNCHANGED <<have, publishing, published>>
  <2>1. /\ Flight' /\ net' \subseteq net /\ UNCHANGED <<status, pc, called, next>>
        /\ \A j \in Jobs \ {i} : answer'[j] = answer[j]
        /\ answer'[i] = answer[i] \/ (pc[i] = "put" /\ answer[i] = "none" /\ answer'[i] = "refused")
    BY <1>1, <1>2, Served
  <2> QED BY <1>2, <2>1 DEF RequestsInOrder, Progress, Stored
<1>3. CASE /\ Serve(Request(i, "put", f), "ok")
           /\ f = have[i] + 1
           /\ have' = [have EXCEPT ![i] = f]
           /\ UNCHANGED <<publishing, published>>
  <2> DEFINE r == Request(i, "put", f)
  <2>1. /\ Flight' /\ r \in net /\ net' = net \ {r}
        /\ UNCHANGED <<status, pc, called, next>>
        /\ \A j \in Jobs \ {i} : answer'[j] = answer[j]
        /\ pc[i] # "put" => answer'[i] = answer[i]
        /\ pc[i] = "put" => answer[i] = "none" /\ answer'[i] = "ok"
    BY <1>1, <1>3, Served
  <2>2. r.job = i /\ r.kind = "put" /\ r.file = f
    BY DEF Request
  <2>3. pc[i] \in {"put", "done"} /\ have[i] < Count
    BY <1>3, <2>1, <2>2 DEF Flight
  <2>4. \A m \in net' : m.job = i => m.kind \notin {"put", "post"}
    <3> SUFFICES ASSUME NEW m \in net', m.job = i, m.kind \in {"put", "post"}
                 PROVE  FALSE
      OBVIOUS
    <3>1. m.kind = "put" /\ m.file = f
      BY <1>3, <2>1, <2>3 DEF RequestsInOrder
    <3> QED BY <2>1, <2>2, <3>1 DEF Requests
  <2>5. RequestsInOrder'
    BY <1>3, <2>1, <2>4, NetFields DEF RequestsInOrder
  <2>6. Progress'
    BY <1>3, <2>1, <2>3 DEF Progress
  <2>7. Stored'
    BY <1>3, <2>1, <2>3 DEF Stored
  <2> QED BY <2>1, <2>5, <2>6, <2>7
<1> QED BY <1>2, <1>3 DEF ServePut

LEMMA PostSending ==
  ASSUME Inv, NEW i \in Jobs, ServePost(i) \/ Publish(i) \/ AnswerPost(i) \/ RefusePost(i)
  PROVE  Sending'
<1> USE DEF Inv, TypeOK, JobType, CallType, RemoteType, Sending
<1>1. 0 \in 0..Count /\ "post" \in Kinds
  BY DEF Kinds, Calls
<1>2. CASE ServePost(i) \/ Publish(i)
  BY <1>2 DEF ServePost, Publish, jobVars, callVars, Flight, RequestsInOrder, Progress, Stored
<1>3. CASE AnswerPost(i)
  <2>1. /\ Flight' /\ net' \subseteq net /\ UNCHANGED <<status, pc, called, next>>
        /\ \A j \in Jobs \ {i} : answer'[j] = answer[j]
        /\ pc[i] # "post" => answer'[i] = answer[i]
    BY <1>1, <1>3, Served DEF AnswerPost
  <2> QED BY <1>3, <2>1 DEF AnswerPost, RequestsInOrder, Progress, Stored
<1>4. CASE RefusePost(i)
  <2>1. /\ Flight' /\ net' \subseteq net /\ UNCHANGED <<status, pc, called, next>>
        /\ \A j \in Jobs \ {i} : answer'[j] = answer[j]
        /\ pc[i] # "post" => answer'[i] = answer[i]
        /\ pc[i] = "post" => answer'[i] = "refused"
    BY <1>1, <1>4, Served DEF RefusePost
  <2> QED BY <1>4, <2>1 DEF RefusePost, RequestsInOrder, Progress, Stored
<1> QED BY <1>2, <1>3, <1>4

LEMMA OtherSending ==
  ASSUME Inv, NEW i \in Jobs, ServeDelete(i) \/ Approve(i) \/ EndOffer(i) \/ CleanupEnd(i)
  PROVE  Sending'
<1> USE DEF Inv, TypeOK, JobType, CallType, RemoteType, Sending
<1>1. UNCHANGED <<status, pc, called, next, have, publishing, published>> /\ net' \subseteq net
  BY DEF ServeDelete, Approve, EndOffer, CleanupEnd, Serve, jobVars, callVars, diskVars
<1>2. UNCHANGED answer
  BY DEF ServeDelete, Approve, EndOffer, CleanupEnd, Serve, Request, Calls
<1> QED BY <1>1, <1>2 DEF Flight, RequestsInOrder, Progress, Stored

LEMMA NextSending ==
  ASSUME Inv, [Next]_vars
  PROVE  Sending'
<1>1. ASSUME UNCHANGED <<status, pc, called, next, answer, have, publishing, published>>,
             net' \subseteq net
      PROVE  Sending'
  BY <1>1 DEF Inv, Sending, Flight, RequestsInOrder, Progress, Stored
<1>2. ASSUME NEW m \in net, Lose(m)
      PROVE  Sending'
  BY <1>1, <1>2 DEF Lose, jobVars, callVars, remoteVars, diskVars
<1>3. CASE UNCHANGED vars
  BY <1>1, <1>3 DEF vars, jobVars, callVars, remoteVars, diskVars
<1>4. ASSUME NEW i \in Jobs, RemoteStep(i)
      PROVE  Sending'
  BY <1>4, ServeOfferSending, ServePutSending, PostSending, OtherSending DEF RemoteStep
<1> QED BY <1>2, <1>3, <1>4, CommandSending, CloseSending, JobStepSending DEF Next

-----------------------------------------------------------------------------
(* What the receiver gives up *)

LEMMA InitEnding == Init => Ending
BY DEF Init, Ending, CleanupOK, Answered, Told

EndsKept == CleanupOK' /\ \A j \in Jobs : Ended(j) => Ended(j)'

LEMMA GiveUpEnding ==
  ASSUME TypeOK, CleanupOK, Unlocked, NEW i \in Jobs, GiveUp(i), publishing' \subseteq publishing
  PROVE  EndsKept
BY DEF TypeOK, RemoteType, CleanupOK, Unlocked, GiveUp, Remote!End, Remote!Move, Ended, EndsKept

LEMMA RemoteEnding ==
  ASSUME TypeOK, CleanupOK, NEW i \in Jobs, RemoteStep(i)
  PROVE  EndsKept
<1>1. ASSUME UNCHANGED <<phase, cleaning, damaged>>, publishing' \subseteq publishing
      PROVE  EndsKept
  BY <1>1 DEF CleanupOK, Ended, EndsKept
<1>2. ASSUME Unlocked, GiveUp(i), publishing' \subseteq publishing
      PROVE  EndsKept
  BY <1>2, GiveUpEnding
<1>3. ASSUME Unlocked, Remote!Ask(i) \/ Remote!Approve(i) \/ Remote!Complete(i),
             UNCHANGED <<cleaning, damaged>>, publishing' \subseteq publishing
      PROVE  EndsKept
  BY <1>3 DEF Unlocked, CleanupOK, TypeOK, RemoteType, Remote!Ask, Remote!Approve, Remote!Complete,
              Remote!Move, Ended, EndsKept
<1>4. CASE CleanupEnd(i)
  BY <1>4 DEF CleanupEnd, CleanupOK, TypeOK, RemoteType, Remote!End, Remote!Move, Ended, EndsKept
<1>5. CASE ServePost(i)
  BY <1>5 DEF ServePost, CleanupOK, Ended, EndsKept
<1>6. CASE ServeOffer(i) \/ ServePoll(i)
  BY <1>1, <1>3, <1>6 DEF ServeOffer, ServePoll, remoteVars, diskVars
<1>7. CASE \E f \in 1..Count : ServePut(i, f)
  BY <1>1, <1>2, <1>7 DEF ServePut
<1>8. CASE Publish(i)
  BY <1>1, <1>8 DEF Publish
<1>9. CASE AnswerPost(i)
  BY <1>1, <1>3, <1>9 DEF AnswerPost
<1>10. CASE RefusePost(i) \/ ServeDelete(i)
  BY <1>1, <1>2, <1>10 DEF RefusePost, ServeDelete
<1>11. CASE Approve(i) \/ EndOffer(i)
  BY <1>2, <1>3, <1>11 DEF Approve, EndOffer, diskVars
<1> QED BY <1>4, <1>5, <1>6, <1>7, <1>8, <1>9, <1>10, <1>11 DEF RemoteStep

\* Only the answer to a POST says "published", and by then the offer has ended.
LEMMA AnswerOrigin ==
  ASSUME Inv, [Next]_vars, NEW j \in Jobs,
         Told(j)'
  PROVE  Told(j) \/ AnswerPost(j)
<1> USE DEF Inv, TypeOK, JobType, CallType, Told
<1>1. CASE UNCHANGED <<pc, answer, status>>
  BY <1>1
<1>2. ASSUME NEW i \in Jobs, Command(i)
      PROVE  Told(j)
  BY <1>2 DEF Command, SendCheck, SendStart, Cancel, callVars
<1>3. CASE Close
  BY <1>3 DEF Close, callVars
<1>4. ASSUME NEW i \in Jobs, JobStep(i)
      PROVE  Told(j)
  BY <1>4 DEF JobStep, Issue, Fail, Offered, StillPending, Declined, Accepted, PollAgain,
              FinishCanceled, Uploaded, AllUploaded, Completed, GoOn, Update, jobVars
<1>5. ASSUME NEW i \in Jobs, RemoteStep(i)
      PROVE  Told(j) \/ AnswerPost(j)
  <2>1. UNCHANGED <<pc, status>>
    BY <1>5, RemoteLeavesJobs DEF jobVars, callVars
  <2>2. CASE AnswerPost(i)
    <3>1. Request(i, "post", 0).job = i
      BY DEF Request
    <3>2. i # j => answer'[j] = answer[j]
      BY <2>2, <3>1 DEF AnswerPost, Serve
    <3> QED BY <2>1, <2>2, <3>2
  <2>3. CASE ServeOffer(i) \/ \E f \in 1..Count : ServePut(i, f)
    <3>1. \A k \in Kinds, f \in 0..Count : \A a :
            k # "post" /\ Serve(Request(i, k, f), a) /\ pc[j] = "post" => answer'[j] = answer[j]
      BY DEF Serve, Request
    <3>2. PICK k \in {"offer", "put"}, f \in 0..Count, a \in {"ok", "refused"} :
            Serve(Request(i, k, f), a)
      BY <2>3 DEF ServeOffer, ServePut
    <3>3. k \in Kinds /\ k # "post"
      BY DEF Kinds, Calls
    <3>4. pc[j] = "post" => answer'[j] = answer[j]
      BY <3>1, <3>2, <3>3
    <3> QED BY <2>1, <3>4
  <2>4. CASE ServePoll(i) \/ RefusePost(i) \/ ServeDelete(i)
    <3>1. answer'[j] \in {answer[j], "pending", "accepted", "declined", "refused", "none"}
      BY <2>4 DEF ServePoll, RefusePost, ServeDelete, Serve
    <3> QED BY <2>1, <3>1
  <2>5. CASE ServePost(i) \/ Publish(i) \/ Approve(i) \/ EndOffer(i) \/ CleanupEnd(i)
    BY <2>1, <2>5 DEF ServePost, Publish, Approve, EndOffer, CleanupEnd
  <2> QED BY <1>5, <2>2, <2>3, <2>4, <2>5 DEF RemoteStep
<1>6. ASSUME NEW m \in net, Lose(m)
      PROVE  UNCHANGED <<pc, answer, status>>
  BY <1>6 DEF Lose, jobVars, callVars
<1> QED BY <1>1, <1>2, <1>3, <1>4, <1>5, <1>6 DEF Next, vars, jobVars, callVars

LEMMA NextEnding ==
  ASSUME Inv, [Next]_vars
  PROVE  Ending'
<1>1. CleanupOK'
  <2>1. CASE UNCHANGED remoteVars
    BY <2>1 DEF Inv, Ending, CleanupOK, remoteVars, diskVars
  <2>2. ASSUME NEW i \in Jobs, Command(i) \/ JobStep(i)
        PROVE  UNCHANGED remoteVars
    BY <2>2 DEF Command, SendCheck, SendStart, Cancel, JobStep, Issue, Fail, Offered, StillPending,
                Declined, Accepted, PollAgain, FinishCanceled, Uploaded, AllUploaded, Completed
  <2> QED BY <2>1, <2>2, RemoteEnding DEF EndsKept, Inv, Ending, Next, Close, Lose, vars
<1>2. ASSUME NEW j \in Jobs, Told(j)'
      PROVE  Ended(j)'
  <2>1. CASE AnswerPost(j)
    BY <2>1 DEF AnswerPost, Inv, TypeOK, RemoteType, Remote!Complete, Remote!Move, Ended,
                Ending, CleanupOK
  <2>2. CASE Told(j)
    <3>1. Ended(j)
      BY <2>2 DEF Inv, Ending, Answered
    <3>2. ASSUME UNCHANGED phase
          PROVE  Ended(j)'
      BY <3>1, <3>2 DEF Ended
    <3>3. ASSUME NEW i \in Jobs, Command(i) \/ JobStep(i)
          PROVE  UNCHANGED phase
      BY <3>3 DEF Command, SendCheck, SendStart, Cancel, JobStep, Issue, Fail, Offered,
                  StillPending, Declined, Accepted, PollAgain, FinishCanceled, Uploaded,
                  AllUploaded, Completed, remoteVars
    <3> QED BY <3>1, <3>2, <3>3, RemoteEnding DEF EndsKept, Inv, Ending, Next, Close, Lose, vars, remoteVars
  <2> QED BY <1>2, <2>1, <2>2, AnswerOrigin
<1> QED BY <1>1, <1>2 DEF Ending, Answered

-----------------------------------------------------------------------------
(* The theorems *)

LEMMA Invariance == Spec => []Inv
<1>1. Init => Inv
  BY InitType, InitShown, InitSending, InitEnding DEF Inv
<1>2. Inv /\ [Next]_vars => Inv'
  BY NextType, NextShown, NextSending, NextEnding DEF Inv, Sending
<1> QED BY <1>1, <1>2, PTL DEF Spec

\* Jobs, calls and the receiver keep their types, whatever is cancelled or lost.
THEOREM SenderTypeCorrect == Spec => []TypeOK
BY Invariance, PTL DEF Inv

\* A replaced job never becomes active again (updateOutgoing).
THEOREM OneActiveJob == Spec => []OneActive
BY Invariance, PTL DEF Inv

\* The sender uploads in the order the receiver demands (uploadOutgoing), so
\* an honest transfer is never refused for its order.
THEOREM InOrder == Spec => []RequestsInOrder
<1>1. Inv => RequestsInOrder
  BY DEF Inv, Sending
<1> QED BY <1>1, Invariance, PTL

\* "complete" (runOutgoing) means published on the other device with every file,
\* unless the receiver was giving the offer up when it renamed it.
THEOREM CompleteMeansPublished == Spec => []CompleteIsPublished
<1>1. Inv => CompleteIsPublished
  BY DEF Inv, Sending, Stored, Ending, CleanupOK, Answered, Told, Ended, CompleteIsPublished,
         TypeOK, RemoteType
<1> QED BY <1>1, Invariance, PTL

\* Only the job that is shown starts requests: cancel and close cancel the
\* context of a job before another can replace it.
THEOREM OnlyShownJobSends == Spec => OnlyOutgoingSends
<1> DEFINE A == \A m \in net' \ net : m.kind # "delete" => outgoing = m.job
<1>1. Inv /\ [Next]_vars => [A]_net
  <2> SUFFICES ASSUME Inv, [Next]_vars, net' # net, NEW m \in net' \ net, m.kind # "delete"
               PROVE  outgoing = m.job
    OBVIOUS
  <2>1. PICK i \in Jobs : Issue(i) \/ Cancel(i)
    BY DEF Next, vars, Command, JobStep, RemoteStep, SendCheck, SendStart, Close, Fail, Offered,
           StillPending, Declined, Accepted, PollAgain, FinishCanceled, Uploaded, AllUploaded,
           Completed, ServeOffer, ServePoll, ServePut, ServePost, Publish, AnswerPost, RefusePost,
           ServeDelete, Approve, EndOffer, CleanupEnd, Lose, Serve
  <2>2. CASE Issue(i)
    <3>1. m.job = i
      BY <2>2 DEF Issue, Request
    <3> QED BY <2>2, <3>1 DEF Issue, Inv, Shown, Calls
  <2>3. CASE Cancel(i)
    BY <2>3 DEF Cancel, Request
  <2> QED BY <2>1, <2>2, <2>3
<1> QED BY <1>1, Invariance, PTL DEF Spec, OnlyOutgoingSends

\* A settled outcome stays, cancellation aside.
THEOREM SettledStays == Spec => OutcomeStays
<1> DEFINE A == \A j \in Jobs : status[j] \in Terminal \ {"canceled"} => status'[j] = status[j]
<1>1. Inv /\ [Next]_vars => [A]_status
  <2> SUFFICES ASSUME Inv, [Next]_vars, status' # status,
                      NEW j \in Jobs, status[j] \in Terminal \ {"canceled"}
               PROVE  status'[j] = status[j]
    OBVIOUS
  <2>1. pc[j] = "done"
    BY DEF Inv, Shown
  <2>2. CASE Close
    BY <2>2 DEF Close, Busy, Inv, TypeOK, JobType
  <2>3. ASSUME NEW i \in Jobs, Command(i)
        PROVE  status'[j] = status[j]
    BY <2>1, <2>3 DEF Command, SendCheck, SendStart, Cancel, Inv, TypeOK, JobType, Shown, Terminal
  <2>4. ASSUME NEW i \in Jobs, JobStep(i)
        PROVE  status'[j] = status[j]
    <3>1. pc[i] # "done"
      BY <2>4 DEF JobStep, Issue, Fail, Offered, StillPending, Declined, Accepted, PollAgain,
                  FinishCanceled, Uploaded, AllUploaded, Completed, Calls
    <3>2. status' = status \/ \E s \in Active \cup Terminal : status' = [status EXCEPT ![i] = s]
      BY <2>4 DEF JobStep, Issue, Fail, Offered, StillPending, Declined, Accepted, PollAgain,
                  FinishCanceled, Uploaded, AllUploaded, Completed, Update, jobVars,
                  Active, Terminal
    <3> QED BY <2>1, <3>1, <3>2 DEF Inv, TypeOK, JobType
  <2> QED BY <2>2, <2>3, <2>4, RemoteLeavesJobs DEF Next, Lose, jobVars, vars
<1> QED BY <1>1, Invariance, PTL DEF Spec, OutcomeStays
=============================================================================
