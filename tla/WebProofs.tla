------------------------------ MODULE WebProofs ------------------------------
(***************************************************************************)
(* Proofs about the web app: its session (WebSession) and the pages        *)
(* (WebPages), for any files, folders, records, numbers of requests and of *)
(* steps.  Each part has an inductive invariant of its own, stated before  *)
(* the lemmas on its steps; a step of the pages is one of a part           *)
(* (PartSteps), and leaves the others as they are.                         *)
(***************************************************************************)
EXTENDS WebPages, WebSession, FiniteSetTheorems, TLAPS

-----------------------------------------------------------------------------
(***************************************************************************)
(* The session.                                                            *)
(***************************************************************************)

\* What is known of the page that was asked for: the address that the router
\* remembers, the one a sign-in under way will go to, and the one that is shown
\* or leads there, are that page, unless the page has lost it.
Kept ==
  /\ loc = "elsewhere" => returnTo = None
  /\ call["login"] # None => call["login"].to # None
  /\ ~mislaid =>
       /\ landing # None => landing = asked
       /\ \A slot \in Slots : Filled(slot) => call[slot].to = asked
       /\ IF loc \in Private THEN loc = asked ELSE Destination = asked

\* A session that is issued is a new one.
LEMMA FreshIsNew == issued \subseteq Sessions /\ issued # Sessions => Fresh(issued) \in Sessions
  BY DEF Fresh

\* The requests that are sent, and the answers, are of their types.
LEMMA RequestIsTyped ==
  ASSUME TypeOK, NEW slot \in Slots
  PROVE  Request(slot) \in Requests /\ Request(slot).to = None
  BY DEF TypeOK, Request, Requests

LEMMA LoadIsTyped ==
  ASSUME TypeOK, NEW there, NEW state, Load(there, state)
  PROVE  /\ call' \in [Slots -> Requests \cup {None}]
         /\ \A slot \in Slots : call'[slot] # None => call'[slot].to = None
<1>1. PICK g \in Gets : call' = [s \in Slots |-> IF s = g THEN Request(g) ELSE None]
  BY DEF Load
<1>2. g \in Slots
  BY DEF Slots
<1>3. QED
  BY <1>1, <1>2, RequestIsTyped

LEMMA AnswerIsTyped ==
  ASSUME TypeOK, NEW slot \in Slots, NEW a \in {"ok", "initial", "denied", "refused"},
         NEW new \in Sessions \cup {None}, Answer(slot, a, new)
  PROVE  /\ call' \in [Slots -> Requests \cup {None}]
         /\ \A s \in Slots \ {slot} : call'[s] = call[s]
         /\ call'[slot].to = call[slot].to /\ call[slot] # None
<1> DEFINE it == [with |-> None, token |-> None, answer |-> a, new |-> new, to |-> call[slot].to]
<1>1. call[slot] \in Requests /\ call' = [call EXCEPT ![slot] = it]
  BY DEF Answer, TypeOK
<1>2. it \in Requests
  BY <1>1 DEF Requests
<1>3. QED
  BY <1>1, <1>2 DEF TypeOK, Answer

\* Types of the session, one step.
LEMMA SessionTypeStep == TypeOK /\ [Next]_vars => TypeOK'
<1> SUFFICES ASSUME TypeOK, [Next]_vars PROVE TypeOK'
  OBVIOUS
<1> USE SessionAssumption, FreshIsNew DEF TypeOK, auth, router, wish, server, Requests, Slots
<1>1. CASE Reload
  BY <1>1, LoadIsTyped DEF Reload, Load
<1>2. ASSUME NEW there \in Private \cup {"login", "elsewhere"}, Visit(there) PROVE TypeOK'
  BY <1>2, LoadIsTyped DEF Visit, Load
<1>3. ASSUME NEW g \in Gets, Refresh(g) PROVE TypeOK'
  BY <1>3 DEF Refresh, Send, Request
<1>4. ASSUME NEW g \in Gets, Refreshed(g) PROVE TypeOK'
  <2>1. initial' \in BOOLEAN
    BY <1>4 DEF Refreshed, Show, BecomeAnonymous
  <2>2. call[g] \in Requests /\ call' = [call EXCEPT ![g] = None]
    BY <1>4 DEF Refreshed, Take
  <2>3. QED
    BY <1>4, <2>1, <2>2 DEF Refreshed, Show, SetCsrfFrom, BecomeAnonymous
<1>5. ASSUME NEW g \in Gets, PasswordChangedInSettings(g) PROVE TypeOK'
  BY <1>5 DEF PasswordChangedInSettings, SetCsrfFrom
<1>6. CASE SubmitLogin
  BY <1>6 DEF SubmitLogin, Send, Request, Destination
<1>7. CASE ClickLogout
  BY <1>7 DEF ClickLogout, Send, Request
<1>8. CASE SubmitPassword
  BY <1>8 DEF SubmitPassword, Send, Request, Destination
<1>9. CASE PrivateCall
  BY <1>9 DEF PrivateCall, Send, Request
<1>10. ASSUME NEW slot \in Slots, Serve(slot) PROVE TypeOK'
  <2>1. CASE Deny(slot) \/ WrongPassword(slot) \/ RefuseCall(slot)
    BY <1>10, <2>1, AnswerIsTyped DEF Serve, Deny, WrongPassword, RefuseCall
  <2>2. CASE Accept(slot)
    <3>1. Outcome \in {"ok", "initial"}
      BY DEF Outcome
    <3>2. ASSUME issued # Sessions PROVE Fresh(issued) \in Sessions
      BY <3>2, FreshIsNew
    <3>4. call' \in [Slots -> Requests \cup {None}]
      BY <1>10, <2>2, <3>1, <3>2, AnswerIsTyped DEF Accept, Issue, Known
    <3>5. live' \in SUBSET Sessions /\ issued' \in SUBSET Sessions /\ past' \in SUBSET Sessions
      BY <1>10, <2>2, <3>2 DEF Accept, Issue
    <3>6. setup' \in BOOLEAN
      BY <1>10, <2>2 DEF Accept
    <3>7. QED
      BY <1>10, <2>2, <3>4, <3>5, <3>6 DEF Serve
  <2>3. QED
    BY <1>10, <2>1, <2>2 DEF Serve
<1>11. ASSUME NEW slot \in Slots, Unauthorized(slot) PROVE TypeOK'
  BY <1>11 DEF Unauthorized, Take, BecomeAnonymous
<1>12. ASSUME NEW slot \in Slots, Shown(slot) PROVE TypeOK'
  BY <1>12 DEF Shown, Take
<1>13. ASSUME NEW slot \in Slots, Lost(slot) PROVE TypeOK'
  BY <1>13 DEF Lost, BecomeAnonymous
<1>14. ASSUME NEW s \in Sessions, Forget(s) PROVE TypeOK'
  BY <1>14 DEF Forget
<1>15. ASSUME NEW s \in Sessions, Deadline(s) PROVE TypeOK'
  BY <1>15 DEF Deadline
<1>16. CASE OtherTab
  BY <1>16 DEF OtherTab, Issue
<1>17. CASE LoggedIn
  <2>1. initial' \in BOOLEAN
    BY <1>17 DEF LoggedIn, Show
  <2>2. call["login"] \in Requests /\ call' = [call EXCEPT !["login"] = None]
    BY <1>17 DEF LoggedIn, Take
  <2>3. QED
    BY <1>17, <2>1, <2>2 DEF LoggedIn, Show, SetCsrfFrom
<1>18. CASE LoggedOut
  BY <1>18 DEF LoggedOut, Take, BecomeAnonymous
<1>19. CASE PasswordChanged
  BY <1>19 DEF PasswordChanged, Take, Show, SetCsrfFrom
<1>20. CASE AbsoluteTimer
  BY <1>20 DEF AbsoluteTimer, BecomeAnonymous
<1>21. CASE Land
  BY <1>21 DEF Land
<1>22. ASSUME NEW there \in Private, Go(there) PROVE TypeOK'
  <2>1. mislaid' \in BOOLEAN
    BY <1>22 DEF Go
  <2>2. QED
    BY <1>22, <2>1 DEF Go, Filled
<1>23. CASE ToLogin
  <2>1. mislaid' \in BOOLEAN
    BY <1>23 DEF ToLogin
  <2>2. QED
    BY <1>23, <2>1 DEF ToLogin
<1>24. CASE ToSetup
  BY <1>24 DEF ToSetup, Destination
<1>25. CASE ToPrivate
  BY <1>25 DEF ToPrivate, Destination
<1>26. CASE UNCHANGED vars  BY <1>26 DEF vars
<1>27. QED
  BY <1>1, <1>2, <1>3, <1>4, <1>5, <1>6, <1>7, <1>8, <1>9, <1>10, <1>11, <1>12, <1>13, <1>14,
     <1>15, <1>16, <1>17, <1>18, <1>19, <1>20, <1>21, <1>22, <1>23, <1>24, <1>25, <1>26
     DEF Next, Event, Redirect

\* No step leads away from the page that was asked for.
LEMMA KeptStep == TypeOK /\ Kept /\ [Next]_vars => Kept'
<1> SUFFICES ASSUME TypeOK, Kept, [Next]_vars PROVE Kept'
  OBVIOUS
<1> USE SessionAssumption DEF Kept, Filled, Destination, TypeOK, auth, router, wish, server, Requests, Slots
<1>1. CASE Reload
  BY <1>1 DEF Reload, Load, Request
<1>2. ASSUME NEW there \in Private \cup {"login", "elsewhere"}, Visit(there) PROVE Kept'
  BY <1>2 DEF Visit, Load, Request
<1>3. ASSUME NEW g \in Gets, Refresh(g) PROVE Kept'
  BY <1>3 DEF Refresh, Send, Request
<1>4. ASSUME NEW g \in Gets, Refreshed(g) PROVE Kept'
  BY <1>4 DEF Refreshed, Take, Show, SetCsrfFrom, BecomeAnonymous
<1>5. ASSUME NEW g \in Gets, PasswordChangedInSettings(g) PROVE Kept'
  BY <1>5 DEF PasswordChangedInSettings, SetCsrfFrom
<1>6. CASE SubmitLogin
  BY <1>6 DEF SubmitLogin, Send, Request, Destination
<1>7. CASE ClickLogout
  BY <1>7 DEF ClickLogout, Send, Request
<1>8. CASE SubmitPassword
  BY <1>8 DEF SubmitPassword, Send, Request, Destination
<1>9. CASE PrivateCall
  BY <1>9 DEF PrivateCall, Send, Request
<1>10. ASSUME NEW slot \in Slots, Serve(slot) PROVE Kept'
  BY <1>10 DEF Serve, Deny, WrongPassword, RefuseCall, Accept, Answer, Outcome, Issue, Known, Paired
<1>11. ASSUME NEW slot \in Slots, Unauthorized(slot) PROVE Kept'
  BY <1>11 DEF Unauthorized, Take, BecomeAnonymous
<1>12. ASSUME NEW slot \in Slots, Shown(slot) PROVE Kept'
  BY <1>12 DEF Shown, Take
<1>13. ASSUME NEW slot \in Slots, Lost(slot) PROVE Kept'
  BY <1>13 DEF Lost, BecomeAnonymous
<1>14. ASSUME NEW s \in Sessions, Forget(s) PROVE Kept'
  BY <1>14 DEF Forget
<1>15. ASSUME NEW s \in Sessions, Deadline(s) PROVE Kept'
  BY <1>15 DEF Deadline
<1>16. CASE OtherTab
  BY <1>16 DEF OtherTab, Issue
<1>17. CASE LoggedIn
  BY <1>17 DEF LoggedIn, Take, Show, SetCsrfFrom
<1>18. CASE LoggedOut
  BY <1>18 DEF LoggedOut, Take, BecomeAnonymous
<1>19. CASE PasswordChanged
  BY <1>19 DEF PasswordChanged, Take, Show, SetCsrfFrom
<1>20. CASE AbsoluteTimer
  BY <1>20 DEF AbsoluteTimer, BecomeAnonymous
<1>21. CASE Land
  BY <1>21 DEF Land
<1>22. ASSUME NEW there \in Private, Go(there) PROVE Kept'
  BY <1>22 DEF Go, Filled
<1>23. CASE ToLogin
  BY <1>23 DEF ToLogin
<1>24. CASE ToSetup
  BY <1>24 DEF ToSetup, Destination
<1>25. CASE ToPrivate
  BY <1>25 DEF ToPrivate, Destination
<1>26. CASE UNCHANGED vars  BY <1>26 DEF vars
<1>27. QED
  BY <1>1, <1>2, <1>3, <1>4, <1>5, <1>6, <1>7, <1>8, <1>9, <1>10, <1>11, <1>12, <1>13, <1>14,
     <1>15, <1>16, <1>17, <1>18, <1>19, <1>20, <1>21, <1>22, <1>23, <1>24, <1>25, <1>26
     DEF Next, Event, Redirect

LEMMA SessionInit == Init => TypeOK /\ Kept
<1> SUFFICES ASSUME Init PROVE TypeOK /\ Kept
  OBVIOUS
<1> USE SessionAssumption
<1>1. Fresh({}) \in Sessions
  BY DEF Fresh
<1>2. cookie \in Sessions \cup {None} /\ live \in SUBSET Sessions /\ issued \in SUBSET Sessions
  BY <1>1 DEF Init
<1>3. PICK g \in Gets : call = [s \in Slots |-> IF s = g THEN Request(g) ELSE None]
  BY DEF Init
<1>4. g \in Slots /\ g # "login" /\ Request(g).to = None
  BY DEF Slots, Request
<1>5. Request(g) \in Requests
  BY <1>2, <1>4 DEF Init, Request, Requests
<1>6. TypeOK
  BY <1>2, <1>3, <1>5 DEF Init, TypeOK
<1>7. QED
  BY <1>3, <1>4, <1>6 DEF Init, Kept, Filled, Destination, Slots

\* The page believes only what it can of its session (AuthProvider).
THEOREM SessionTypeCorrect == Spec => []TypeOK
  BY SessionInit, SessionTypeStep, PTL DEF Spec

\* Wherever signing in began, and however the requests were answered, lost or
\* refused on the way, the page that shows is the one the user asked for last
\* (App, LoginPage, SetupPage), unless the session ended while the setup showed,
\* or the user followed a link before a form was done.
THEOREM SessionReturns == Spec => []ReturnsWhereAsked
<1>1. Kept => ReturnsWhereAsked
  BY DEF Kept, ReturnsWhereAsked
<1>2. QED
  BY <1>1, SessionInit, SessionTypeStep, KeptStep, PTL DEF Spec

\* A session that is shown is left only as the property says.
LEMMA KeepsStep ==
  TypeOK /\ [Next]_vars =>
    [status = "authenticated" /\ status' = "anonymous" =>
       \/ shown \in past
       \/ \E slot \in Slots :
            /\ call[slot] # None /\ call'[slot] = None
            /\ slot = "logout" \/ call[slot].answer = "denied"]_vars
<1> SUFFICES ASSUME TypeOK, Next, status = "authenticated", status' = "anonymous"
             PROVE  \/ shown \in past
                    \/ \E slot \in Slots :
                         /\ call[slot] # None /\ call'[slot] = None
                         /\ slot = "logout" \/ call[slot].answer = "denied"
  OBVIOUS
<1>1. ASSUME NEW slot \in Slots, NEW as, Take(slot, as)
      PROVE  call[slot] # None /\ call'[slot] = None /\ call[slot].answer \in as
  BY <1>1 DEF Take, TypeOK
<1>2. ASSUME NEW g \in Gets, Refreshed(g) PROVE Take(g, {"denied"})
  BY <1>2 DEF Refreshed, Show
<1>3. ASSUME NEW slot \in Slots, Unauthorized(slot) PROVE Take(slot, {"denied"})
  BY <1>3 DEF Unauthorized
<1>4. ASSUME NEW slot \in Slots, Lost(slot)
      PROVE  slot = "logout" /\ call[slot] # None /\ call'[slot] = None
  BY <1>4 DEF Lost, auth, TypeOK
<1>5. CASE LoggedOut  BY <1>1, <1>5 DEF LoggedOut, Slots
<1>6. CASE AbsoluteTimer  BY <1>6 DEF AbsoluteTimer
<1>7. ~Reload /\ \A there : ~Visit(there)
  BY DEF Reload, Visit, Load
<1>8. ~Redirect /\ ~Land /\ \A there : ~Go(there)
  BY DEF Redirect, ToLogin, ToSetup, ToPrivate, Land, Go, auth
<1>9. ~SubmitLogin /\ ~ClickLogout /\ ~SubmitPassword /\ ~PrivateCall /\ ~OtherTab
  BY DEF SubmitLogin, ClickLogout, SubmitPassword, PrivateCall, OtherTab, auth
<1>10. \A g \in Gets : ~Refresh(g) /\ ~PasswordChangedInSettings(g)
  BY DEF Refresh, PasswordChangedInSettings, auth
<1>11. \A slot \in Slots : ~Serve(slot) /\ ~Shown(slot)
  BY DEF Serve, Shown, auth
<1>12. \A s \in Sessions : ~Forget(s) /\ ~Deadline(s)
  BY DEF Forget, Deadline, auth
<1>13. ~LoggedIn /\ ~PasswordChanged
  BY DEF LoggedIn, PasswordChanged, Show
<1>14. Gets \subseteq Slots
  BY DEF Slots
<1>15. QED
  BY <1>1, <1>2, <1>3, <1>4, <1>5, <1>6, <1>7, <1>8, <1>9, <1>10, <1>11, <1>12, <1>13, <1>14
     DEF Next, Event

\* A session that is shown is left for a logout, a 401 or its deadline alone,
\* however many requests are under way and fail (AuthProvider, api/client).
THEOREM SessionIsKept == Spec => KeepsSession
  BY SessionInit, SessionTypeStep, KeepsStep, PTL DEF Spec, KeepsSession

-----------------------------------------------------------------------------
\* Steps of the composition are steps of its parts.

LEMMA PartSteps ==
  [PagesNext]_pagesVars =>
    /\ [Visitor!ShareNext]_visitorVars
    /\ [Shares!SharesNext]_sharesVars
    /\ [Settings!SettingsNext]_settingsVars
    /\ [Listing!ListingNext]_listingVars
    /\ [Dialogs!DialogsNext]_dialogsVars
    /\ [Acting!Next]_actingVars
  BY DEF PagesNext, Runs, pagesVars

-----------------------------------------------------------------------------
(***************************************************************************)
(* The page of a visitor.                                                  *)
(***************************************************************************)

\* What is read of a folder is that folder, or was unlocked for another; and nothing
\* of a protected share was let out before a password was accepted.
VisitorSound ==
  /\ inside \in SharedFolders
  /\ shared \in [SharedFolders -> SharedFolders \cup {Nothing, Locked}]
  /\ request = [f \in SharedFolders |-> request[f]]
  /\ \A f \in SharedFolders :
       /\ shared[f] \notin {Nothing, Locked} =>
            (f \in misplaced \/ shared[f] = f) /\ (protected => everLet)
       /\ request[f] \in {Nothing, "sent", Locked, f}
       /\ request[f] = f => (f \in {Nothing, "sent", Locked}) \/ (protected => everLet)
  /\ admitted => everLet
  /\ unlock # Nothing => unlock.folder \in SharedFolders /\ (unlock.answered => everLet)

\* What the visitor reads, one step.
LEMMA VisitorStep == VisitorSound /\ [Visitor!ShareNext]_visitorVars => VisitorSound'
<1> SUFFICES ASSUME VisitorSound, [Visitor!ShareNext]_visitorVars PROVE VisitorSound'
  OBVIOUS
<1> USE DEF VisitorSound, Visitor!share, Visitor!queries
<1>1. ASSUME NEW f \in SharedFolders, Visitor!Go(f) PROVE VisitorSound'
  BY <1>1 DEF Visitor!Go, Visitor!Open
<1>2. ASSUME NEW w, Visitor!Type(w) PROVE VisitorSound'
  BY <1>2 DEF Visitor!Type
<1>3. CASE Visitor!Reread
  BY <1>3 DEF Visitor!Reread
<1>4. CASE Visitor!Submit
  BY <1>4 DEF Visitor!Submit
<1>5. CASE Visitor!SessionEnds
  BY <1>5 DEF Visitor!SessionEnds
<1>6. CASE Visitor!Revoked
  BY <1>6 DEF Visitor!Revoked
<1>7. ASSUME NEW f \in SharedFolders, Visitor!Serve(f) PROVE VisitorSound'
  BY <1>7 DEF Visitor!Serve, Visitor!View
<1>8. ASSUME NEW f \in SharedFolders, Visitor!Answered(f) PROVE VisitorSound'
  BY <1>8 DEF Visitor!Answered
<1>9. ASSUME NEW f \in SharedFolders, Visitor!Unread(f) PROVE VisitorSound'
  BY <1>9 DEF Visitor!Unread
<1>10. CASE Visitor!ServeUnlock
  BY <1>10 DEF Visitor!ServeUnlock
<1>11. CASE Visitor!Unlocked
  BY <1>11 DEF Visitor!Unlocked
<1>12. CASE Visitor!UnlockFails
  BY <1>12 DEF Visitor!UnlockFails
<1>13. CASE UNCHANGED visitorVars  BY <1>13 DEF visitorVars
<1>14. QED
  BY <1>1, <1>2, <1>3, <1>4, <1>5, <1>6, <1>7, <1>8, <1>9, <1>10, <1>11, <1>12, <1>13 DEF
     Visitor!ShareNext, Visitor!Visitor, Visitor!ShareOwn

LEMMA VisitorInit == PagesInit => VisitorSound
  BY VisitorAssumption DEF PagesInit, Visitor!ShareInit, VisitorSound

\* A visitor sees the entries of the folder in the address, however readings and
\* the answer of the password form interleave with moving about, unless that
\* answer came for another folder, and nothing of a protected share before a
\* password was accepted (PublicSharePage).
THEOREM VisitorSeesItsFolder == PagesSpec => []SharedFolderShown
<1>1. VisitorSound => SharedFolderShown
  BY DEF VisitorSound, SharedFolderShown, Visitor!SharedFolderShown, Visitor!ShowsEntries
<1>2. QED
  BY <1>1, PartSteps, VisitorInit, VisitorStep, PTL DEF PagesSpec

-----------------------------------------------------------------------------
(***************************************************************************)
(* The lists of shares and tokens.                                         *)
(***************************************************************************)

\* A reading that has just been asked for.
LEMMA FreshReading ==
  /\ Shares!Fresh \in Shares!Readings /\ Shares!Fresh # Nothing
  /\ Shares!Fresh.answer = Nothing /\ Shares!Fresh.current
<1>1. Shares!Fresh \in Shares!Readings
  BY DEF Shares!Fresh, Shares!Readings
<1>2. QED
  BY <1>1, SharesAssumption DEF Shares!Fresh

\* A reading that is begun anew, or goes on as the first.
LEMMA ReadIsTyped ==
  ASSUME Shares!SharesTypeOK, NEW k \in Shares!Kinds
  PROVE  /\ Shares!Read(k) \in [Shares!Kinds -> Shares!Readings \cup {Nothing}]
         /\ \A j \in Shares!Kinds \ {k} : Shares!Read(k)[j] = query[j]
         /\ Shares!Read(k)[k] # Nothing
         /\ Shares!Read(k)[k] # Shares!Fresh => list[k] = Nothing /\ Shares!Read(k)[k] = query[k]
  BY FreshReading DEF Shares!SharesTypeOK, Shares!Read

LEMMA LeftIsTyped ==
  ASSUME NEW r \in Shares!Jobs \cup {Nothing}
  PROVE  /\ Shares!Left(r) \in Shares!Jobs \cup {Nothing}
         /\ r = Nothing <=> Shares!Left(r) = Nothing
         /\ r # Nothing => /\ Shares!Left(r).op = r.op /\ Shares!Left(r).kind = r.kind
                           /\ Shares!Left(r).by = r.by /\ Shares!Left(r).stage = r.stage
                           /\ Shares!Left(r).item = r.item
  BY SharesAssumption DEF Shares!Left, Shares!Jobs

\* What a change of the items does to the reading of their list.
LEMMA AlterIsTyped ==
  ASSUME Shares!SharesTypeOK, NEW k \in Shares!Kinds, NEW items \in SUBSET Nat, Shares!Alter(k, items)
  PROVE  /\ kept' \in [Shares!Kinds -> SUBSET Nat] /\ kept'[k] = items
         /\ query' \in [Shares!Kinds -> Shares!Readings \cup {Nothing}]
         /\ \A j \in Shares!Kinds \ {k} : kept'[j] = kept[j] /\ query'[j] = query[j]
         /\ query[k] = Nothing <=> query'[k] = Nothing
         /\ query'[k] # Nothing =>
              /\ query'[k].answer = query[k].answer
              /\ query'[k].answer = Nothing \/ ~query'[k].current
<1>1. \A r \in Shares!Readings :
         /\ [r EXCEPT !.current = FALSE] \in Shares!Readings
         /\ [r EXCEPT !.current = FALSE].answer = r.answer
         /\ ~[r EXCEPT !.current = FALSE].current
  BY DEF Shares!Readings
<1>2. kept' \in [Shares!Kinds -> SUBSET Nat] /\ kept'[k] = items
      /\ \A j \in Shares!Kinds \ {k} : kept'[j] = kept[j]
  BY DEF Shares!SharesTypeOK, Shares!Alter
<1>3. /\ query' \in [Shares!Kinds -> Shares!Readings \cup {Nothing}]
      /\ \A j \in Shares!Kinds \ {k} : query'[j] = query[j]
  BY <1>1 DEF Shares!SharesTypeOK, Shares!Alter
<1>4. query'[k] = IF query[k] = Nothing \/ query[k].answer = Nothing THEN query[k]
                  ELSE [query[k] EXCEPT !.current = FALSE]
  BY DEF Shares!SharesTypeOK, Shares!Alter
<1>5. QED
  BY <1>1, <1>2, <1>3, <1>4, SharesAssumption DEF Shares!SharesTypeOK

\* What the server keeps after a request is a set of items.
LEMMA AfterIsTyped ==
  ASSUME Shares!SharesTypeOK, NEW job \in Shares!Jobs
  PROVE  Shares!After(job) \in SUBSET Nat
  BY DEF Shares!SharesTypeOK, Shares!After, Shares!Jobs

\* What becomes of a request that is served.
LEMMA ServedIsTyped ==
  ASSUME Shares!SharesTypeOK, NEW r \in 1 .. MaxRequests, Shares!Serve(r)
  PROVE  /\ requests' \in [1 .. MaxRequests -> Shares!Jobs \cup {Nothing}]
         /\ \A q \in (1 .. MaxRequests) \ {r} : requests'[q] = requests[q]
         /\ requests[r].by = "gone" => requests'[r] = Nothing
         /\ requests[r].by # "gone" =>
              /\ requests'[r] # Nothing
              /\ requests'[r].kind = requests[r].kind /\ requests'[r].by = requests[r].by
              /\ requests'[r].stage = IF Shares!Accepts(requests[r]) THEN "done" ELSE "refused"
<1> DEFINE job == requests[r]
           new == IF job.op = "create" THEN count[job.kind] + 1 ELSE job.item
           how == IF Shares!Accepts(job) THEN "done" ELSE "refused"
           next == [job EXCEPT !.stage = how, !.item = new]
<1>1. job \in Shares!Jobs
  BY DEF Shares!Serve, Shares!SharesTypeOK
<1>2. requests' = [requests EXCEPT ![r] = IF job.by = "gone" THEN Nothing ELSE next]
  BY DEF Shares!Serve
<1>3. new \in Nat \cup {Nothing}
  BY <1>1 DEF Shares!SharesTypeOK, Shares!Jobs
<1>4. how \in {"done", "refused"}
  OBVIOUS
<1>5. next \in Shares!Jobs /\ next.kind = job.kind /\ next.by = job.by /\ next.stage = how
  <2> HIDE DEF new, how
  <2> QED
    BY <1>1, <1>3, <1>4 DEF Shares!Jobs
<1>6. next # Nothing
  BY <1>5, SharesAssumption
<1> HIDE DEF next
<1>7. requests \in [1 .. MaxRequests -> Shares!Jobs \cup {Nothing}]
  BY DEF Shares!SharesTypeOK
<1>8. QED
  BY <1>2, <1>5, <1>6, <1>7

LEMMA SharesTypeStep == Shares!SharesTypeOK /\ [Shares!SharesNext]_sharesVars => Shares!SharesTypeOK'
<1> SUFFICES ASSUME Shares!SharesTypeOK, [Shares!SharesNext]_sharesVars PROVE Shares!SharesTypeOK'
  OBVIOUS
<1> USE SharesAssumption DEF Shares!SharesTypeOK, Shares!queries, Shares!forms, Shares!Kinds,
        Shares!Jobs, Shares!Readings
<1>1. ASSUME NEW there \in {"files", "shares", "settings"}, Shares!Visit(there)
      PROVE  Shares!SharesTypeOK'
  <2>1. requests' \in [1 .. MaxRequests -> Shares!Jobs \cup {Nothing}]
    <3>1. requests' = [r \in 1 .. MaxRequests |-> Shares!Left(requests[r])]
      BY <1>1 DEF Shares!Visit
    <3>2. QED
      BY <3>1, LeftIsTyped
  <2>2. query' \in [Shares!Kinds -> Shares!Readings \cup {Nothing}]
    BY <1>1, FreshReading DEF Shares!Visit
  <2>3. QED
    BY <1>1, <2>1, <2>2 DEF Shares!Visit
<1>2. CASE Shares!OpenForm
  BY <1>2 DEF Shares!OpenForm
<1>3. CASE Shares!CloseForm
  BY <1>3 DEF Shares!CloseForm
<1>4. CASE Shares!OpenSharing
  BY <1>4 DEF Shares!OpenSharing
<1>5. CASE Shares!CloseSharing
  BY <1>5 DEF Shares!CloseSharing
<1>6. CASE Shares!CreateSharing
  BY <1>6 DEF Shares!CreateSharing, Shares!Send, Shares!Free
<1>7. CASE Shares!ChangePassword
  BY <1>7 DEF Shares!ChangePassword, Shares!Send, Shares!Free
<1>8. ASSUME NEW k \in Shares!Kinds, Shares!Refetch(k) PROVE Shares!SharesTypeOK'
  BY <1>8, ReadIsTyped DEF Shares!Refetch
<1>9. ASSUME NEW k \in Shares!Kinds, Shares!Fill(k) PROVE Shares!SharesTypeOK'
  BY <1>9 DEF Shares!Fill
<1>10. ASSUME NEW k \in Shares!Kinds, Shares!Create(k) PROVE Shares!SharesTypeOK'
  BY <1>10 DEF Shares!Create, Shares!Send, Shares!Free
<1>11. ASSUME NEW k \in Shares!Kinds, Shares!Revoke(k) PROVE Shares!SharesTypeOK'
  BY <1>11 DEF Shares!Revoke, Shares!Send, Shares!Free
<1>12. ASSUME NEW k \in Shares!Kinds, Shares!CloseSecret(k) PROVE Shares!SharesTypeOK'
  BY <1>12 DEF Shares!CloseSecret
<1>13. ASSUME NEW k \in Shares!Kinds, Shares!Expire(k) PROVE Shares!SharesTypeOK'
  <2>1. PICK item \in kept[k] : Shares!Alter(k, kept[k] \ {item})
    BY <1>13 DEF Shares!Expire
  <2>2. kept[k] \ {item} \in SUBSET Nat
    OBVIOUS
  <2>3. QED
    BY <1>13, <2>1, <2>2, AlterIsTyped DEF Shares!Expire
<1>14. ASSUME NEW k \in Shares!Kinds, Shares!ServeList(k) PROVE Shares!SharesTypeOK'
  BY <1>14 DEF Shares!ServeList
<1>15. ASSUME NEW k \in Shares!Kinds, Shares!Got(k) PROVE Shares!SharesTypeOK'
  BY <1>15 DEF Shares!Got
<1>16. ASSUME NEW k \in Shares!Kinds, Shares!GetFails(k) PROVE Shares!SharesTypeOK'
  BY <1>16 DEF Shares!GetFails
<1>17. ASSUME NEW r \in 1 .. MaxRequests, Shares!Serve(r) PROVE Shares!SharesTypeOK'
  <2> DEFINE job == requests[r]
  <2>1. job \in Shares!Jobs
    BY <1>17 DEF Shares!Serve
  <2>2. /\ kept' \in [Shares!Kinds -> SUBSET Nat]
        /\ query' \in [Shares!Kinds -> Shares!Readings \cup {Nothing}]
    BY <1>17, <2>1, AfterIsTyped, AlterIsTyped DEF Shares!Serve
  <2>3. count' \in [Shares!Kinds -> Nat]
    BY <1>17, <2>1 DEF Shares!Serve
  <2>4. requests' \in [1 .. MaxRequests -> Shares!Jobs \cup {Nothing}]
    BY <1>17, <2>1, ServedIsTyped
  <2>5. unsure' \in [Shares!Kinds -> BOOLEAN]
    BY <1>17, <2>1 DEF Shares!Serve
  <2>6. QED
    BY <1>17, <2>2, <2>3, <2>4, <2>5 DEF Shares!Serve
<1>18. ASSUME NEW r \in 1 .. MaxRequests, Shares!Succeed(r) PROVE Shares!SharesTypeOK'
  <2>1. requests[r] \in Shares!Jobs
    BY <1>18 DEF Shares!Succeed
  <2>2. /\ outdated' \in [Shares!Kinds -> BOOLEAN]
        /\ query' \in [Shares!Kinds -> Shares!Readings \cup {Nothing}]
    <3>1. CASE requests[r].by = "dialog"
      BY <1>18, <3>1 DEF Shares!Succeed
    <3>2. CASE requests[r].by # "dialog"
      <4>1. Shares!Invalidate(requests[r].kind)
        BY <1>18, <3>2 DEF Shares!Succeed
      <4>2. requests[r].kind \in Shares!Kinds
        BY <2>1
      <4>3. QED
        BY <4>1, <4>2, ReadIsTyped DEF Shares!Invalidate
    <3>3. QED
      BY <3>1, <3>2
  <2>3. /\ open' \in BOOLEAN /\ sharing' \in BOOLEAN
        /\ filled' \in [Shares!Kinds -> BOOLEAN] /\ secret' \in [Shares!Kinds -> Nat \cup {Nothing}]
    BY <1>18, <2>1 DEF Shares!Succeed
  <2>4. requests' \in [1 .. MaxRequests -> Shares!Jobs \cup {Nothing}]
        /\ unsure' \in [Shares!Kinds -> BOOLEAN]
    BY <1>18, <2>1 DEF Shares!Succeed
  <2>5. QED
    BY <1>18, <2>2, <2>3, <2>4 DEF Shares!Succeed
<1>19. ASSUME NEW r \in 1 .. MaxRequests, Shares!Fails(r) PROVE Shares!SharesTypeOK'
  BY <1>19 DEF Shares!Fails
<1>20. ASSUME NEW r \in 1 .. MaxRequests, Shares!NeverArrives(r) PROVE Shares!SharesTypeOK'
  BY <1>20 DEF Shares!NeverArrives
<1>21. CASE UNCHANGED sharesVars  BY <1>21 DEF sharesVars
<1>22. QED
  BY <1>1, <1>2, <1>3, <1>4, <1>5, <1>6, <1>7, <1>8, <1>9, <1>10, <1>11, <1>12, <1>13, <1>14,
     <1>15, <1>16, <1>17, <1>18, <1>19, <1>20, <1>21 DEF Shares!SharesNext, Shares!SharesUser,
     Shares!SharesOwn, Shares!SharesTypeOK

\* A change that succeeded of which the page has not heard yet
Owing(k) == \E r \in 1 .. MaxRequests :
  requests[r] # Nothing /\ requests[r].kind = k /\ requests[r].stage = "done"

\* A list that is to be read again, at once if its page is shown
Awaits(k) == outdated[k] /\ (page = Shares!PageOf(k) => query[k] # Nothing)

\* A list that does not agree with the server is known to be wrong, is to be read
\* again, or a request is under way whose success will have it read again; and
\* an answer that is under way agrees unless it is known to be overtaken.
ListsSound ==
  /\ \A r \in 1 .. MaxRequests : requests[r] # Nothing =>
       /\ requests[r].by = "gone" => requests[r].stage = "sent"
       /\ requests[r].by = "dialog" => requests[r].kind = "share"
  /\ \A k \in Shares!Kinds :
       query[k] # Nothing /\ query[k].answer # Nothing /\ query[k].current =>
         query[k].answer = kept[k]
  /\ \A k \in Shares!Kinds :
       list[k] # Nothing /\ ~unsure[k] => list[k] = kept[k] \/ Owing(k) \/ Awaits(k)

LEMMA ListsStep == Shares!SharesTypeOK /\ ListsSound /\ [Shares!SharesNext]_sharesVars => ListsSound'
<1> SUFFICES ASSUME Shares!SharesTypeOK, ListsSound, [Shares!SharesNext]_sharesVars PROVE ListsSound'
  OBVIOUS
<1> USE SharesAssumption DEF ListsSound, Owing, Awaits, Shares!SharesTypeOK, Shares!queries,
        Shares!forms, Shares!Kinds, Shares!Jobs, Shares!Readings
<1>1. ASSUME NEW there \in {"files", "shares", "settings"}, Shares!Visit(there) PROVE ListsSound'
  <2>1. requests' = [r \in 1 .. MaxRequests |-> Shares!Left(requests[r])]
    BY <1>1 DEF Shares!Visit
  <2>2. PICK old \in SUBSET {k \in Shares!Kinds : list[k] # Nothing /\ ~outdated[k]} :
          query' = [k \in Shares!Kinds |->
            IF there # Shares!PageOf(k) \/ k \in old \/ query[k] # Nothing
            THEN query[k] ELSE Shares!Fresh]
    BY <1>1 DEF Shares!Visit
  <2>3. /\ page' = there /\ UNCHANGED <<kept, list, outdated, unsure>>
    BY <1>1 DEF Shares!Visit
  <2>4. \A r \in 1 .. MaxRequests :
          /\ requests[r] = Nothing <=> requests'[r] = Nothing
          /\ requests[r] # Nothing =>
               /\ requests'[r].kind = requests[r].kind /\ requests'[r].by = requests[r].by
               /\ requests'[r].stage = requests[r].stage
    BY <2>1, LeftIsTyped
  <2>5. \A k \in Shares!Kinds : query'[k] = query[k] \/ query'[k] = Shares!Fresh
    BY <2>2
  <2>6. \A k \in Shares!Kinds :
          outdated[k] /\ there = Shares!PageOf(k) => query'[k] # Nothing
    BY <2>2, FreshReading
  <2>7. QED
    BY <2>3, <2>4, <2>5, <2>6, FreshReading
<1>2. CASE Shares!OpenForm
  BY <1>2 DEF Shares!OpenForm
<1>3. CASE Shares!CloseForm
  BY <1>3 DEF Shares!CloseForm
<1>4. CASE Shares!OpenSharing
  BY <1>4 DEF Shares!OpenSharing
<1>5. CASE Shares!CloseSharing
  BY <1>5 DEF Shares!CloseSharing
<1>6. CASE Shares!CreateSharing
  BY <1>6 DEF Shares!CreateSharing, Shares!Send, Shares!Free
<1>7. CASE Shares!ChangePassword
  BY <1>7 DEF Shares!ChangePassword, Shares!Send, Shares!Free
<1>8. ASSUME NEW k \in Shares!Kinds, Shares!Refetch(k) PROVE ListsSound'
  BY <1>8, ReadIsTyped, FreshReading DEF Shares!Refetch
<1>9. ASSUME NEW k \in Shares!Kinds, Shares!Fill(k) PROVE ListsSound'
  BY <1>9 DEF Shares!Fill
<1>10. ASSUME NEW k \in Shares!Kinds, Shares!Create(k) PROVE ListsSound'
  BY <1>10 DEF Shares!Create, Shares!Send, Shares!Free
<1>11. ASSUME NEW k \in Shares!Kinds, Shares!Revoke(k) PROVE ListsSound'
  BY <1>11 DEF Shares!Revoke, Shares!Send, Shares!Free
<1>12. ASSUME NEW k \in Shares!Kinds, Shares!CloseSecret(k) PROVE ListsSound'
  BY <1>12 DEF Shares!CloseSecret
<1>13. ASSUME NEW k \in Shares!Kinds, Shares!Expire(k) PROVE ListsSound'
  BY <1>13 DEF Shares!Expire, Shares!Alter
<1>14. ASSUME NEW k \in Shares!Kinds, Shares!ServeList(k) PROVE ListsSound'
  BY <1>14 DEF Shares!ServeList
<1>15. ASSUME NEW k \in Shares!Kinds, Shares!Got(k) PROVE ListsSound'
  BY <1>15 DEF Shares!Got
<1>16. ASSUME NEW k \in Shares!Kinds, Shares!GetFails(k) PROVE ListsSound'
  BY <1>16 DEF Shares!GetFails
<1>17. ASSUME NEW r \in 1 .. MaxRequests, Shares!Serve(r) PROVE ListsSound'
  <2> DEFINE job == requests[r]
  <2>1. job \in Shares!Jobs /\ job # Nothing /\ job.stage = "sent"
    BY <1>17 DEF Shares!Serve
  <2>2. UNCHANGED <<list, outdated, page>> /\ unsure' \in [Shares!Kinds -> BOOLEAN]
        /\ \A k \in Shares!Kinds :
             unsure'[k] = (unsure[k] \/ (k = job.kind /\ job.by = "gone" /\ Shares!Accepts(job)))
    BY <1>17, <2>1 DEF Shares!Serve
  <2>3. \A q \in 1 .. MaxRequests : requests'[q] # Nothing =>
          /\ requests'[q].by = "gone" => requests'[q].stage = "sent"
          /\ requests'[q].by = "dialog" => requests'[q].kind = "share"
    <3>1. requests'[r] # Nothing => job.by # "gone" /\ requests'[r].by = job.by
                                    /\ requests'[r].kind = job.kind
      BY <1>17, <2>1, ServedIsTyped
    <3>2. \A q \in (1 .. MaxRequests) \ {r} : requests'[q] = requests[q]
      BY <1>17, ServedIsTyped
    <3>3. QED
      BY <2>1, <3>1, <3>2
  <2>4. \A k \in Shares!Kinds : Owing(k) => Owing(k)'
    BY <1>17, <2>1, ServedIsTyped
  <2>5. CASE Shares!Accepts(job)
    <3>1. Shares!Alter(job.kind, Shares!After(job)) /\ job.kind \in Shares!Kinds
      BY <1>17, <2>1, <2>5 DEF Shares!Serve
    <3>2. Shares!After(job) \in SUBSET Nat
      BY <2>1, AfterIsTyped
    <3>3. job.by # "gone" => \A k \in Shares!Kinds : k = job.kind => Owing(k)'
      BY <1>17, <2>5, ServedIsTyped
    <3>4. /\ \A j \in Shares!Kinds \ {job.kind} : kept'[j] = kept[j] /\ query'[j] = query[j]
          /\ query[job.kind] = Nothing <=> query'[job.kind] = Nothing
          /\ query'[job.kind] # Nothing =>
               query'[job.kind].answer = Nothing \/ ~query'[job.kind].current
      BY <3>1, <3>2, AlterIsTyped
    <3>5. \A k \in Shares!Kinds : query'[k] # Nothing /\ query'[k].answer # Nothing /\ query'[k].current
            => query'[k].answer = kept'[k]
      BY <3>4
    <3>6. \A k \in Shares!Kinds : list'[k] # Nothing /\ ~unsure'[k] =>
            list'[k] = kept'[k] \/ Owing(k)' \/ Awaits(k)'
      <4> SUFFICES ASSUME NEW k \in Shares!Kinds, list'[k] # Nothing, ~unsure'[k]
                   PROVE  list'[k] = kept'[k] \/ Owing(k)' \/ Awaits(k)'
        OBVIOUS
      <4>1. list[k] # Nothing /\ ~unsure[k]
        BY <2>2
      <4>2. CASE k = job.kind
        <5>1. job.by # "gone"
          BY <2>2, <2>5, <4>2
        <5>2. QED
          BY <3>3, <4>2, <5>1
      <4>3. CASE k # job.kind
        <5>1. kept'[k] = kept[k] /\ query'[k] = query[k]
          BY <3>4, <4>3
        <5>2. list[k] = kept[k] \/ Owing(k) \/ Awaits(k)
          BY <4>1
        <5>3. Awaits(k) => Awaits(k)'
          BY <2>2, <5>1
        <5>4. QED
          BY <2>2, <2>4, <5>1, <5>2, <5>3
      <4>4. QED
        BY <4>2, <4>3
    <3>7. QED
      BY <2>3, <3>5, <3>6
  <2>6. CASE ~Shares!Accepts(job)
    <3>1. UNCHANGED <<kept, query>>
      BY <1>17, <2>6 DEF Shares!Serve
    <3>2. QED
      BY <2>2, <2>3, <2>4, <3>1
  <2>7. QED
    BY <2>5, <2>6
<1>18. ASSUME NEW r \in 1 .. MaxRequests, Shares!Succeed(r) PROVE ListsSound'
  <2> DEFINE job == requests[r]
  <2>1. job \in Shares!Jobs /\ job # Nothing /\ requests' = [requests EXCEPT ![r] = Nothing]
        /\ UNCHANGED <<kept, list, page>>
    BY <1>18 DEF Shares!Succeed
  <2>2. \A k \in Shares!Kinds \ {job.kind} : Owing(k) => Owing(k)'
    BY <2>1
  <2>3. CASE job.by = "dialog"
    BY <1>18, <2>1, <2>2, <2>3 DEF Shares!Succeed
  <2>4. CASE job.by # "dialog"
    <3>1. Shares!Invalidate(job.kind) /\ unsure' = unsure
      BY <1>18, <2>4 DEF Shares!Succeed
    <3>2. job.kind \in Shares!Kinds
      BY <2>1
    <3>3. /\ \A k \in Shares!Kinds \ {job.kind} : outdated'[k] = outdated[k] /\ query'[k] = query[k]
          /\ outdated'[job.kind] /\ page = Shares!PageOf(job.kind) => query'[job.kind] # Nothing
          /\ outdated'[job.kind]
          /\ query'[job.kind] = query[job.kind] \/ query'[job.kind] = Shares!Fresh
      BY <3>1, <3>2, ReadIsTyped DEF Shares!Invalidate
    <3>4. QED
      BY <2>1, <2>2, <3>1, <3>2, <3>3, FreshReading
  <2>5. QED
    BY <2>3, <2>4
<1>19. ASSUME NEW r \in 1 .. MaxRequests, Shares!Fails(r) PROVE ListsSound'
  BY <1>19 DEF Shares!Fails
<1>20. ASSUME NEW r \in 1 .. MaxRequests, Shares!NeverArrives(r) PROVE ListsSound'
  BY <1>20 DEF Shares!NeverArrives
<1>21. CASE UNCHANGED sharesVars  BY <1>21 DEF sharesVars
<1>22. QED
  BY <1>1, <1>2, <1>3, <1>4, <1>5, <1>6, <1>7, <1>8, <1>9, <1>10, <1>11, <1>12, <1>13, <1>14,
     <1>15, <1>16, <1>17, <1>18, <1>19, <1>20, <1>21 DEF Shares!SharesNext, Shares!SharesUser,
     Shares!SharesOwn, Shares!SharesTypeOK

LEMMA SharesInit == PagesInit => Shares!SharesTypeOK /\ ListsSound
<1> SUFFICES ASSUME Shares!SharesInit PROVE Shares!SharesTypeOK /\ ListsSound
  BY DEF PagesInit
<1> USE SharesAssumption DEF Shares!SharesInit
<1>1. Shares!SharesTypeOK
  <2>1. kept \in [Shares!Kinds -> SUBSET Nat] /\ count \in [Shares!Kinds -> Nat]
    BY DEF Shares!Seed
  <2>2. /\ list \in [Shares!Kinds -> (SUBSET Nat) \cup {Nothing}]
        /\ outdated \in [Shares!Kinds -> BOOLEAN]
    OBVIOUS
  <2>3. /\ query \in [Shares!Kinds -> Shares!Readings \cup {Nothing}]
        /\ unsure \in [Shares!Kinds -> BOOLEAN]
    OBVIOUS
  <2>4. /\ filled \in [Shares!Kinds -> BOOLEAN] /\ secret \in [Shares!Kinds -> Nat \cup {Nothing}]
        /\ requests \in [1 .. MaxRequests -> Shares!Jobs \cup {Nothing}]
    OBVIOUS
  <2>5. QED
    BY <2>1, <2>2, <2>3, <2>4 DEF Shares!SharesTypeOK
<1>2. ListsSound
  BY DEF Shares!SharesInit, ListsSound
<1>3. QED
  BY <1>1, <1>2

\* A list of shares or tokens at rest is the server's, in whatever order the
\* answers of readings, creations and revocations came, and however many of them
\* were under way (SharesPage, SettingsPage).
THEOREM SharesListsCurrent == PagesSpec => []ListsCurrent
<1>1. Shares!SharesTypeOK /\ ListsSound => ListsCurrent
  BY DEF ListsSound, Owing, Awaits, ListsCurrent, Shares!ListsCurrent, Shares!SharesTypeOK
<1>2. QED
  BY <1>1, PartSteps, SharesInit, SharesTypeStep, ListsStep, PTL DEF PagesSpec

LEMMA FirstExists ==
  ASSUME NEW T \in SUBSET Nat, T # {}
  PROVE  \E k \in T : \A l \in T : k <= l
<1> PICK n \in T : TRUE
  OBVIOUS
<1> DEFINE below(k) == {l \in T : l <= k}
           near     == {l \in T : l <= n}
           family   == {below(k) : k \in near}
<1>1. IsFiniteSet(0 .. n)
  BY FS_Interval
<1>2. family \subseteq FiniteSubsetsOf(0 .. n) /\ family # {}
  <2>1. ASSUME NEW k \in near PROVE below(k) \in FiniteSubsetsOf(0 .. n)
    <3>1. below(k) \in SUBSET (0 .. n)
      <4> SUFFICES ASSUME NEW l \in T, l <= k PROVE l \in 0 .. n
        OBVIOUS
      <4>1. l \in Nat /\ k \in Nat /\ n \in Nat /\ k <= n
        OBVIOUS
      <4>. QED
        BY <4>1
    <3>. QED
      BY <1>1, <3>1, FS_Subset DEF FiniteSubsetsOf
  <2>2. n \in near
    OBVIOUS
  <2>. QED
    BY <2>1, <2>2
<1>3. PICK x \in family : \A y \in family : ~(<<y, x>> \in StrictSubsetOrdering(0 .. n))
  <2> HIDE DEF family
  <2>. QED
    BY <1>2, <1>1, FS_StrictSubsetOrderingWellFounded, WFMin
<1>4. PICK k \in near : x = below(k)
  OBVIOUS
<1>5. ASSUME NEW l \in T, l < k PROVE FALSE
  <2>0. l \in Nat /\ k \in Nat /\ n \in Nat
    OBVIOUS
  <2>1. l \in near
    BY <1>5, <2>0
  <2>2. below(l) \subseteq below(k)
    <3> SUFFICES ASSUME NEW m \in T, m <= l PROVE m <= k
      OBVIOUS
    <3>. QED
      BY <1>5, <2>0
  <2>3. k \in below(k) /\ k \notin below(l)
    BY <1>5, <2>0
  <2>4. below(l) \in family /\ below(l) \subseteq x /\ below(l) # x
    BY <1>4, <2>1, <2>2, <2>3
  <2>. HIDE DEF family, below, near
  <2>5. <<below(l), x>> \in StrictSubsetOrdering(0 .. n)
    BY <1>2, <2>4 DEF StrictSubsetOrdering, FiniteSubsetsOf
  <2>. QED
    BY <1>3, <2>4, <2>5
<1>. QED
  BY <1>5

-----------------------------------------------------------------------------
(***************************************************************************)
(* Renaming, moving and copying.                                           *)
(***************************************************************************)

\* Where an action takes the entry at a path.
Aim(act, p, dest) == Acting!Target(act, [path |-> p], dest)

\* The entry whose conflict may be answered, where a path is left in the refs.
InConflict(act, left) == IF act.action = "drop" THEN act.entries[1].path ELSE left

\* Among the pairs is that of the entry in conflict, unless it goes onto itself.
Agreed(act, dest, pairs, left) ==
  act.action = "drop" \/ left # Nothing =>
    LET p == InConflict(act, left) IN
    Aim(act, p, dest) = p \/ <<p, Aim(act, p, dest)>> \in pairs

\* A mutation carries out a selection; a drop has one request.
Made(job) ==
  /\ job = [action |-> job.action, entries |-> job.entries, into |-> job.into,
            dest |-> job.dest, overwrite |-> job.overwrite, duplicate |-> job.duplicate,
            may |-> job.may, phase |-> job.phase, at |-> job.at, target |-> job.target,
            replace |-> job.replace, taken |-> job.taken, result |-> job.result,
            observed |-> job.observed]
  /\ job.at \in Nat /\ job.entries \in Selections

Formed(job) == Made(job) /\ (job.action = "drop" => job.phase = "item" /\ job.at = 1)

\* What a mutation may still replace, and what its request replaces, was agreed to.
Careful(job, left) ==
  /\ job.overwrite => ~job.duplicate
  /\ job.phase # "item" =>
       ~job.replace /\ (job.overwrite => Agreed(job, job.dest, job.may, left))
  /\ job.phase = "item" =>
       LET s == Acting!Source(job) IN
       /\ job.target = Aim(job, s, job.dest) \/ Aim(job, s, job.dest) = s
       /\ job.replace /\ job.target # s => <<s, job.target>> \in job.may

\* The dialog shows the action of a mutation.
Shows(job) ==
  /\ dialog.action = job.action /\ dialog.entries = job.entries /\ dialog.into = job.into
  /\ destination = job.dest

\* While one action at a time is followed, its dialog shows the one mutation that
\* runs, unless it was cancelled; and the conflict that the refs know of is the
\* one the user has read of, with the target it has now.
ActingSound ==
  /\ jobs = [j \in Mutations |-> jobs[j]]
  /\ \A j \in Mutations : jobs[j] # Nothing => Formed(jobs[j])
  /\ dialog # Nothing =>
       /\ dialog.entries \in Selections
       /\ dialog.action \in Acting!PathActions \cup {"drop"}
       /\ dialog.action # "copy" => dialog.into = Nothing
  /\ ~mixed =>
       /\ \A i, j \in Acting!Running : i = j
       /\ \A j \in Acting!Running :
            /\ Careful(jobs[j], conflictPath)
            /\ IF jobs[j].observed THEN Shows(jobs[j]) /\ answer = "pending"
               ELSE dialog = Nothing
       /\ dialog # Nothing /\ (answer = "conflict" \/ dialog.into # Nothing) =>
            Agreed(dialog, destination, {warned}, conflictPath)

LEMMA TargetIsAim ==
  ASSUME NEW act, NEW item, NEW dest
  PROVE  Acting!Target(act, item, dest) = Aim(act, item.path, dest)
BY DEF Aim, Acting!Target

LEMMA AimSame ==
  ASSUME NEW a, NEW b, a.action = b.action, a.into = b.into, a.entries = b.entries,
         NEW p, NEW dest
  PROVE  Aim(a, p, dest) = Aim(b, p, dest)
BY DEF Aim, Acting!Target

LEMMA AgreedSame ==
  ASSUME NEW a, NEW b, a.action = b.action, a.into = b.into, a.entries = b.entries,
         NEW dest, NEW pairs, NEW more, pairs \subseteq more, NEW left, Agreed(a, dest, pairs, left)
  PROVE  Agreed(b, dest, more, left)
<1>1. InConflict(a, left) = InConflict(b, left)
  BY DEF InConflict
<1>2. \A p : Aim(a, p, dest) = Aim(b, p, dest)
  BY AimSame
<1>. QED
  BY <1>1, <1>2 DEF Agreed

LEMMA EntryHasPath ==
  ASSUME NEW s \in Selections, NEW k \in 1 .. Len(s)
  PROVE  s[k].path # Nothing
<1>1. s \in Seq(Acting!Entries)
  BY ActingAssumption
<1>. QED
  BY <1>1, ActingAssumption

\* The same action, to the same destination
Alike(a, b) ==
  /\ a.action = b.action /\ a.entries = b.entries /\ a.into = b.into /\ a.dest = b.dest
  /\ a.observed = b.observed

LEMMA AskedAt ==
  ASSUME NEW job, Made(job), NEW k \in 1 .. Len(job.entries), NEW left
  PROVE  LET it == Acting!Ask(job, k, left) IN
         it.at = k /\ it.phase = "item" /\ it.entries = job.entries /\ it.action = job.action
BY TargetIsAim DEF Made, Acting!Ask

\* Where a mutation may replace, what is in conflict was agreed to.
Answered(job, left) ==
  job.overwrite => ~job.duplicate /\ Agreed(job, job.dest, job.may, left)

LEMMA AskIsCareful ==
  ASSUME NEW job, Made(job), NEW k \in 1 .. Len(job.entries), job.action = "drop" => k = 1,
         NEW left
  PROVE  LET it == Acting!Ask(job, k, left) IN
         /\ Formed(it) /\ Alike(it, job)
         /\ it.overwrite = job.overwrite /\ it.duplicate = job.duplicate /\ it.may = job.may
         /\ Answered(job, left) => \A any : Careful(it, any)
<1> DEFINE it == Acting!Ask(job, k, left)
           item == job.entries[k]
           aim == Aim(job, item.path, job.dest)
           again == job.duplicate /\ aim = item.path
           target == IF again THEN Acting!DuplicateOf(item, job.taken) ELSE aim
           replace == Acting!Replaces(job, item, target, left)
<1>1. it = [job EXCEPT !.phase = "item", !.at = k, !.target = target, !.result = "none",
                       !.taken = IF again THEN @ \cup {target} ELSE @, !.replace = replace]
  BY TargetIsAim DEF Acting!Ask
<1>2. it = [action |-> job.action, entries |-> job.entries, into |-> job.into,
            dest |-> job.dest, overwrite |-> job.overwrite, duplicate |-> job.duplicate,
            may |-> job.may, phase |-> "item", at |-> k, target |-> target,
            replace |-> replace, taken |-> IF again THEN job.taken \cup {target} ELSE job.taken,
            result |-> "none", observed |-> job.observed]
  <2> HIDE DEF it, target, replace, again
  <2>. QED
    BY <1>1 DEF Made
<1>3. k \in Nat /\ Formed(it) /\ Alike(it, job)
  <2> HIDE DEF it, target, replace, again
  <2>. QED
    BY <1>2 DEF Made, Formed, Alike
<1>4. item.path # Nothing
  BY EntryHasPath DEF Made
<1>5. /\ Acting!Source(it) = item.path /\ Aim(it, item.path, job.dest) = aim
      /\ it.target = target /\ it.replace = replace /\ it.may = job.may /\ it.dest = job.dest
      /\ it.phase = "item" /\ it.overwrite = job.overwrite /\ it.duplicate = job.duplicate
  <2>1. Aim(it, item.path, job.dest) = aim
    <3> HIDE DEF it, target, replace, again
    <3>. QED
      BY <1>3, AimSame DEF Alike
  <2>. HIDE DEF it, target, replace, again, aim
  <2>. QED
    BY <1>2, <2>1 DEF Acting!Source
<1>6. target = aim \/ aim = item.path
  OBVIOUS
<1>7. Answered(job, left) /\ replace /\ target # item.path => <<item.path, target>> \in job.may
  <2> SUFFICES ASSUME Answered(job, left), replace, target # item.path
               PROVE  <<item.path, target>> \in job.may
    OBVIOUS
  <2>1. job.overwrite /\ (job.action = "drop" \/ left = item.path)
    BY DEF Acting!Replaces
  <2>2. target = aim /\ Agreed(job, job.dest, job.may, left)
    BY <2>1 DEF Answered
  <2>3. InConflict(job, left) = item.path
    BY <2>1 DEF InConflict
  <2>. QED
    BY <1>4, <2>1, <2>2, <2>3 DEF Agreed
<1>8. Answered(job, left) => \A any : Careful(it, any)
  <2> HIDE DEF it, target, replace, again, aim
  <2>. QED
    BY <1>5, <1>6, <1>7 DEF Careful, Answered
<1>. QED
  BY <1>3, <1>5, <1>8

LEMMA NextIsLeft ==
  ASSUME NEW job, Made(job), NEW done, Acting!Left(job, done) # {}
  PROVE  \E k \in Acting!Left(job, done) :
           /\ k = CHOOSE c \in Acting!Left(job, done) : \A l \in Acting!Left(job, done) : c <= l
           /\ k \in 1 .. Len(job.entries) /\ \A l \in Acting!Left(job, done) : k <= l
<1>0. Len(job.entries) \in Nat /\ job.at \in Nat
  BY ActingAssumption DEF Made
<1>1. \A k \in Acting!Left(job, done) : k \in 1 .. Len(job.entries) /\ k \in Nat
  BY <1>0 DEF Acting!Left
<1>2. \E k \in Acting!Left(job, done) : \A l \in Acting!Left(job, done) : k <= l
  BY <1>1, FirstExists
<1>. QED
  BY <1>1, <1>2

\* A mutation that starts, or goes on, is alone if its action is followed.
Alone(j, job, left) ==
  /\ ~mixed /\ warned' = warned /\ Acting!Running \subseteq {j}
  /\ IF job.observed THEN Shows(job) ELSE dialog = Nothing
  /\ dialog # Nothing /\ dialog.into # Nothing => Agreed(dialog, destination, {warned}, left)

LEMMA AloneSame ==
  ASSUME NEW j, NEW a, NEW b, NEW left, Alone(j, a, left), Alike(b, a)
  PROVE  Alone(j, b, left)
<1>1. Shows(a) => Shows(b)
  BY DEF Shows, Alike
<1>. QED
  BY <1>1 DEF Alone, Alike

LEMMA AnsweredSame ==
  ASSUME NEW a, NEW b, NEW left, Answered(a, left), Alike(b, a),
         b.overwrite = a.overwrite, b.duplicate = a.duplicate, b.may = a.may
  PROVE  Answered(b, left)
BY AgreedSame DEF Alike, Answered

\* What the dialog and the mutations have become
LEMMA OneRuns ==
  ASSUME ActingSound, NEW j \in Mutations, NEW job, Formed(job),
         jobs' = [jobs EXCEPT ![j] = job], UNCHANGED <<dialog, destination>>,
         Acting!Pending(job),
         ~mixed' => Alone(j, job, conflictPath') /\ Careful(job, conflictPath')
  PROVE  ActingSound'
<1> USE DEF ActingSound
<1>1. /\ jobs' = [i \in Mutations |-> jobs'[i]]
      /\ \A i \in Mutations : jobs'[i] # Nothing => Formed(jobs'[i])
  OBVIOUS
<1>2. (dialog # Nothing => dialog.entries \in Selections
                           /\ (dialog.action # "copy" => dialog.into = Nothing))'
  OBVIOUS
<1>3. ASSUME ~mixed' PROVE /\ \A i, k \in Acting!Running' : i = k
                           /\ \A i \in Acting!Running' : i = j /\ jobs'[i] = job
  BY <1>3 DEF Alone, Acting!Running
<1>4. ASSUME ~mixed'
      PROVE  (IF job.observed THEN Shows(job) /\ answer = "pending" ELSE dialog = Nothing)'
  BY <1>4 DEF Alone, Shows, Acting!Pending
<1>5. ASSUME ~mixed', dialog' # Nothing, answer' = "conflict" \/ dialog'.into # Nothing
      PROVE  Agreed(dialog', destination', {warned'}, conflictPath')
  <2>1. dialog.into # Nothing
    BY <1>5 DEF Alone, Acting!Pending
  <2>. QED
    BY <1>5, <2>1 DEF Alone
<1>. QED
  BY <1>1, <1>2, <1>3, <1>4, <1>5

LEMMA UnobservedIsFormed ==
  ASSUME NEW job, Formed(job)
  PROVE  /\ Formed([job EXCEPT !.observed = FALSE])
         /\ ~[job EXCEPT !.observed = FALSE].observed
         /\ \A left : Careful(job, left) => Careful([job EXCEPT !.observed = FALSE], left)
<1> DEFINE it == [job EXCEPT !.observed = FALSE]
<1>1. it = [action |-> job.action, entries |-> job.entries, into |-> job.into,
            dest |-> job.dest, overwrite |-> job.overwrite, duplicate |-> job.duplicate,
            may |-> job.may, phase |-> job.phase, at |-> job.at, target |-> job.target,
            replace |-> job.replace, taken |-> job.taken, result |-> job.result,
            observed |-> FALSE]
  <2>1. it = [job EXCEPT !.observed = FALSE] /\ Made(job)
    BY DEF Formed
  <2>. HIDE DEF it
  <2>. QED
    BY <2>1 DEF Made
<1>2. Formed(it) /\ ~it.observed
  <2> HIDE DEF it
  <2>. QED
    BY <1>1 DEF Formed, Made
<1>3. ASSUME NEW left, Careful(job, left) PROVE Careful(it, left)
  <2>0. /\ it.action = job.action /\ it.into = job.into /\ it.entries = job.entries
        /\ it.dest = job.dest /\ it.may = job.may /\ it.phase = job.phase
        /\ it.overwrite = job.overwrite /\ it.duplicate = job.duplicate /\ it.replace = job.replace
        /\ it.target = job.target /\ it.at = job.at
    <3> HIDE DEF it
    <3>. QED
      BY <1>1
  <2>. HIDE DEF it
  <2>1. \A p : Aim(it, p, job.dest) = Aim(job, p, job.dest)
    BY <2>0, AimSame
  <2>2. Agreed(job, job.dest, job.may, left) => Agreed(it, it.dest, it.may, left)
    BY <2>0, AgreedSame
  <2>3. Acting!Source(it) = Acting!Source(job)
    BY <2>0 DEF Acting!Source
  <2>. QED
    BY <1>3, <2>0, <2>1, <2>2, <2>3 DEF Careful
<1>. QED
  BY <1>2, <1>3

LEMMA SucceedKeeps ==
  ASSUME ActingSound, NEW j \in Mutations, NEW job, NEW left, NEW plan,
         Acting!Succeed(job, [jobs EXCEPT ![j] = Nothing], left, plan),
         ~mixed' => Alone(j, job, left)
  PROVE  ActingSound'
<1> DEFINE rest == [jobs EXCEPT ![j] = Nothing]
<1> USE DEF ActingSound
<1>1. /\ jobs' = [i \in Mutations |-> jobs'[i]]
      /\ \A i \in Mutations : jobs'[i] # Nothing => Formed(jobs'[i])
      /\ ~mixed' => \A i \in Mutations : jobs'[i] = Nothing
  <2>1. /\ rest = [i \in Mutations |-> rest[i]]
        /\ \A i \in Mutations : rest[i] # Nothing => Formed(rest[i])
    OBVIOUS
  <2>2. ~mixed' => \A i \in Mutations : rest[i] = Nothing
    BY DEF Alone, Acting!Running
  <2>3. CASE jobs' = rest
    BY <2>1, <2>2, <2>3
  <2>4. CASE jobs' = Acting!Unobserved(rest)
    <3>1. \A i \in Mutations : rest[i] # Nothing => Formed([rest[i] EXCEPT !.observed = FALSE])
      BY <2>1, UnobservedIsFormed
    <3>. HIDE DEF rest
    <3>. QED
      BY <2>1, <2>2, <2>4, <3>1 DEF Acting!Unobserved
  <2>. QED
    BY <2>3, <2>4 DEF Acting!Succeed
<1>2. CASE dialog' = Nothing
  BY <1>1, <1>2 DEF Acting!Running
<1>3. CASE /\ UNCHANGED <<dialog, destination, answer>> /\ conflictPath' = left
           /\ ~Acting!Shown(IF job.action = "drop" THEN {"drop"} ELSE Acting!PathActions)
  <2>1. ASSUME ~mixed', dialog # Nothing, dialog.into # Nothing \/ answer = "conflict"
        PROVE  Agreed(dialog, destination, {warned}, left) /\ warned' = warned
    BY <1>3, <2>1 DEF Alone, Shows, Acting!Shown
  <2>2. ASSUME ~mixed', dialog' # Nothing, answer' = "conflict" \/ dialog'.into # Nothing
        PROVE  Agreed(dialog', destination', {warned'}, conflictPath')
    BY <1>3, <2>1, <2>2
  <2>. QED
    BY <1>1, <1>3, <2>2 DEF Acting!Running
<1>. QED
  <2>1. CASE Acting!Shown(IF job.action = "drop" THEN {"drop"} ELSE Acting!PathActions)
    BY <1>2, <2>1 DEF Acting!Succeed
  <2>2. CASE ~Acting!Shown(IF job.action = "drop" THEN {"drop"} ELSE Acting!PathActions)
    BY <1>3, <2>2 DEF Acting!Succeed, Acting!shown
  <2>. QED
    BY <2>1, <2>2

LEMMA TakenIsMade ==
  ASSUME NEW job, Made(job), NEW names
  PROVE  LET it == [job EXCEPT !.taken = names] IN
         /\ Made(it) /\ Alike(it, job) /\ it.at = job.at
         /\ it.overwrite = job.overwrite
         /\ it.duplicate = job.duplicate /\ it.may = job.may
<1> DEFINE it == [job EXCEPT !.taken = names]
<1>1. it = [action |-> job.action, entries |-> job.entries, into |-> job.into,
            dest |-> job.dest, overwrite |-> job.overwrite, duplicate |-> job.duplicate,
            may |-> job.may, phase |-> job.phase, at |-> job.at, target |-> job.target,
            replace |-> job.replace, taken |-> names, result |-> job.result,
            observed |-> job.observed]
  <2>1. it = [job EXCEPT !.taken = names]
    OBVIOUS
  <2>. HIDE DEF it
  <2>. QED
    BY <2>1 DEF Made
<1>. HIDE DEF it
<1>. QED
  BY <1>1 DEF Made, Alike

LEMMA GoOnKeeps ==
  ASSUME ActingSound, NEW j \in Mutations, NEW job, Made(job), job.action # "drop",
         NEW done, NEW left, NEW plan, Acting!GoOn(j, job, done, left, plan),
         ~mixed' => Alone(j, job, left) /\ Answered(job, left)
  PROVE  ActingSound'
<1>1. CASE Acting!Left(job, done) = {}
  BY <1>1, SucceedKeeps DEF Acting!GoOn
<1>2. CASE Acting!Left(job, done) # {}
  <2>1. PICK k \in 1 .. Len(job.entries) :
          k = CHOOSE c \in Acting!Left(job, done) : \A l \in Acting!Left(job, done) : c <= l
    BY <1>2, NextIsLeft
  <2> DEFINE it == Acting!Ask(job, k, left)
  <2>2. /\ jobs' = [jobs EXCEPT ![j] = it] /\ conflictPath' = left
        /\ Acting!Pending(job) /\ UNCHANGED <<dialog, destination>>
    BY <1>2, <2>1 DEF Acting!GoOn
  <2>3. Formed(it) /\ it.observed = job.observed
    BY AskIsCareful DEF Alike
  <2>4. ASSUME ~mixed' PROVE Alone(j, it, left) /\ Careful(it, left)
    <3>1. Alone(j, job, left) /\ Answered(job, left)
      BY <2>4
    <3>2. /\ Alike(it, job) /\ Careful(it, left)
          /\ it.overwrite = job.overwrite /\ it.duplicate = job.duplicate /\ it.may = job.may
      BY <3>1, AskIsCareful DEF Alone
    <3>. HIDE DEF it
    <3>. QED
      BY <3>1, <3>2, AloneSame
  <2>. HIDE DEF it
  <2>5. Acting!Pending(it)
    BY <2>2, <2>3 DEF Acting!Pending
  <2>. QED
    BY <2>2, <2>3, <2>4, <2>5, OneRuns
<1>. QED
  BY <1>1, <1>2

LEMMA PhaseIsMade ==
  ASSUME NEW job, Made(job), NEW phase
  PROVE  LET it == [job EXCEPT !.phase = phase] IN
         /\ Made(it) /\ Alike(it, job) /\ it.phase = phase /\ it.replace = job.replace
         /\ it.at = job.at
         /\ it.overwrite = job.overwrite /\ it.duplicate = job.duplicate /\ it.may = job.may
<1> DEFINE it == [job EXCEPT !.phase = phase]
<1>1. it = [action |-> job.action, entries |-> job.entries, into |-> job.into,
            dest |-> job.dest, overwrite |-> job.overwrite, duplicate |-> job.duplicate,
            may |-> job.may, phase |-> phase, at |-> job.at, target |-> job.target,
            replace |-> job.replace, taken |-> job.taken, result |-> job.result,
            observed |-> job.observed]
  <2>1. it = [job EXCEPT !.phase = phase]
    OBVIOUS
  <2>. HIDE DEF it
  <2>. QED
    BY <2>1 DEF Made
<1>. HIDE DEF it
<1>2. /\ Made(it) /\ Alike(it, job) /\ it.phase = phase /\ it.replace = job.replace
         /\ it.at = job.at
      /\ it.overwrite = job.overwrite /\ it.duplicate = job.duplicate /\ it.may = job.may
  BY <1>1 DEF Made, Alike
<1>. QED
  BY <1>2 DEF it

LEMMA WaitKeeps ==
  ASSUME ActingSound, NEW j \in Mutations, NEW job, Made(job), job.action # "drop",
         NEW phase, phase # "item", NEW plan, Acting!Wait(j, job, phase, plan),
         ~mixed' => Alone(j, job, conflictPath) /\ Answered(job, conflictPath) /\ ~job.replace
  PROVE  ActingSound'
<1> DEFINE it == [job EXCEPT !.phase = phase]
<1>1. /\ jobs' = [jobs EXCEPT ![j] = it] /\ conflictPath' = conflictPath
      /\ UNCHANGED <<dialog, destination>> /\ Acting!Pending(job)
  BY DEF Acting!Wait
<1>2. /\ Made(it) /\ Alike(it, job) /\ it.phase = phase /\ it.replace = job.replace
         /\ it.at = job.at
      /\ it.overwrite = job.overwrite /\ it.duplicate = job.duplicate /\ it.may = job.may
  BY PhaseIsMade
<1>. HIDE DEF it
<1>3. Formed(it)
  BY <1>2 DEF Formed, Alike
<1>4. ASSUME ~mixed' PROVE Alone(j, it, conflictPath) /\ Careful(it, conflictPath)
  <2>1. Alone(j, it, conflictPath)
    BY <1>2, <1>4, AloneSame
  <2>2. Answered(it, conflictPath)
    BY <1>2, <1>4, AnsweredSame
  <2>. QED
    BY <1>2, <1>4, <2>1, <2>2 DEF Careful, Answered
<1>5. Acting!Pending(it)
  BY <1>1, <1>2 DEF Acting!Pending, Alike
<1>. QED
  BY <1>1, <1>3, <1>4, <1>5, OneRuns

LEMMA AfterMeasureKeeps ==
  ASSUME ActingSound, NEW j \in Mutations, NEW job, Made(job), job.action # "drop",
         NEW plan, Acting!AfterMeasure(j, job, plan),
         ~mixed' => Alone(j, job, conflictPath) /\ Answered(job, conflictPath) /\ ~job.replace
  PROVE  ActingSound'
BY WaitKeeps, GoOnKeeps DEF Acting!AfterMeasure

LEMMA NewJobIsMade ==
  ASSUME NEW act, act.entries \in Selections, NEW dest, NEW choice
  PROVE  LET job == Acting!NewJob(act, dest, choice) IN
         /\ Made(job) /\ job.action = act.action /\ job.entries = act.entries
         /\ job.into = act.into /\ job.dest = dest /\ job.overwrite = choice.overwrite
         /\ job.duplicate = choice.duplicate /\ job.may = choice.may
         /\ job.observed /\ job.phase = "item" /\ ~job.replace /\ job.at = 0
BY DEF Acting!NewJob, Made

LEMMA StartKeeps ==
  ASSUME ActingSound, NEW choice, Acting!Start(choice),
         choice.overwrite => /\ ~choice.duplicate /\ warned \in choice.may
                             /\ answer = "conflict" \/ dialog.into # Nothing
  PROVE  ActingSound'
<1> DEFINE job == Acting!NewJob(dialog, destination, choice)
<1>1. PICK j \in Mutations \ Acting!Running :
        CASE job.action = "drop" -> Acting!Confirmed(j, job)
          [] job.action = "copy" /\ ~copyPlan -> Acting!Wait(j, job, "measure", FALSE)
          [] OTHER -> Acting!AfterMeasure(j, job, copyPlan)
  BY DEF Acting!Start
<1>2. /\ Made(job) /\ job.action = dialog.action /\ job.entries = dialog.entries
      /\ job.into = dialog.into /\ job.dest = destination /\ job.overwrite = choice.overwrite
      /\ job.duplicate = choice.duplicate /\ job.may = choice.may
      /\ job.observed /\ job.phase = "item" /\ ~job.replace /\ dialog # Nothing
  BY NewJobIsMade DEF Acting!Start, ActingSound
<1>. HIDE DEF job
<1>3. ASSUME ~mixed' PROVE Alone(j, job, conflictPath) /\ Answered(job, conflictPath)
  <2>1. ~mixed /\ Acting!Running = {} /\ warned' = warned
    BY <1>3 DEF Acting!Start, Acting!Mix
  <2>2. answer = "conflict" \/ dialog.into # Nothing =>
          Agreed(dialog, destination, {warned}, conflictPath)
    BY <1>2, <2>1 DEF ActingSound
  <2>3. Answered(job, conflictPath)
    BY <1>2, <2>2, AgreedSame DEF Answered
  <2>4. Shows(job)
    BY <1>2 DEF Shows
  <2>. QED
    BY <1>2, <2>1, <2>2, <2>3, <2>4 DEF Alone
<1>4. CASE job.action = "drop"
  <2>1. Acting!Confirmed(j, job)
    BY <1>1, <1>4
  <2> DEFINE it == Acting!Ask(job, 1, Nothing)
  <2>2. /\ jobs' = [jobs EXCEPT ![j] = it] /\ conflictPath' = conflictPath
        /\ UNCHANGED <<dialog, destination>> /\ Acting!Pending(job)
    BY <2>1 DEF Acting!Confirmed, Acting!refs
  <2>3. 1 \in 1 .. Len(job.entries)
    BY <1>2, ActingAssumption DEF Made
  <2>4. /\ Formed(it) /\ Alike(it, job)
        /\ it.overwrite = job.overwrite /\ it.duplicate = job.duplicate /\ it.may = job.may
        /\ Answered(job, Nothing) => Careful(it, conflictPath)
    BY <1>2, <2>3, AskIsCareful
  <2>. HIDE DEF it
  <2>5. Answered(job, conflictPath) => Answered(job, Nothing)
    BY <1>4 DEF Answered, Agreed, InConflict
  <2>6. ASSUME ~mixed' PROVE Alone(j, it, conflictPath) /\ Careful(it, conflictPath)
    <3>1. Alone(j, it, conflictPath)
      BY <1>3, <2>4, <2>6, AloneSame
    <3>. QED
      BY <1>3, <2>4, <2>5, <2>6, <3>1 DEF Alone
  <2>7. Acting!Pending(it)
    BY <2>2, <2>4 DEF Acting!Pending, Alike
  <2>. QED
    BY <2>2, <2>4, <2>6, <2>7, OneRuns
<1>5. CASE job.action = "copy" /\ ~copyPlan
  BY <1>1, <1>2, <1>3, <1>5, WaitKeeps
<1>6. CASE job.action # "drop" /\ ~(job.action = "copy" /\ ~copyPlan)
  BY <1>1, <1>2, <1>3, <1>6, AfterMeasureKeeps
<1>. QED
  BY <1>4, <1>5, <1>6

LEMMA FailKeeps ==
  ASSUME ActingSound, NEW j \in Mutations, NEW what, Acting!FailWith(j, what), jobs[j] # Nothing,
         ~mixed =>
           IF jobs[j].observed
           THEN dialog # Nothing /\ (dialog.into # Nothing \/ what = "conflict") =>
                  Agreed(dialog, destination, {warned'}, conflictPath')
           ELSE warned' = warned
  PROVE  ActingSound'
<1> USE DEF ActingSound
<1>1. /\ jobs' = [jobs EXCEPT ![j] = Nothing] /\ UNCHANGED <<dialog, destination, mixed>>
      /\ answer' = IF jobs[j].observed THEN what ELSE answer
  BY DEF Acting!FailWith
<1>2. /\ jobs' = [i \in Mutations |-> jobs'[i]]
      /\ \A i \in Mutations : jobs'[i] # Nothing => Formed(jobs'[i])
  BY <1>1
<1>3. (dialog # Nothing =>
         /\ dialog.entries \in Selections
         /\ dialog.action \in Acting!PathActions \cup {"drop"}
         /\ dialog.action # "copy" => dialog.into = Nothing)'
  BY <1>1 DEF Acting!PathActions
<1>4. ~mixed' => Acting!Running' = {}
  BY <1>1 DEF Acting!Running
<1>5. ASSUME ~mixed', dialog' # Nothing, answer' = "conflict" \/ dialog'.into # Nothing
      PROVE  Agreed(dialog', destination', {warned'}, conflictPath')
  <2>1. jobs[j].observed
    BY <1>1, <1>5 DEF Acting!Running
  <2>. QED
    BY <1>1, <1>5, <2>1
<1>. QED
  BY <1>2, <1>3, <1>4, <1>5

LEMMA GoesOnAlone ==
  ASSUME ActingSound, NEW j \in Acting!Running, UNCHANGED <<mixed, warned>>
  PROVE  /\ Formed(jobs[j])
         /\ jobs[j].phase # "item" => jobs[j].action # "drop"
         /\ ~mixed' => Alone(j, jobs[j], conflictPath)
         /\ ~mixed' => Careful(jobs[j], conflictPath)
         /\ ~mixed' /\ jobs[j].phase # "item" =>
              Answered(jobs[j], conflictPath) /\ ~jobs[j].replace
<1>1. Formed(jobs[j]) /\ j \in Mutations
  BY DEF ActingSound, Acting!Running
<1>2. ~mixed' => Alone(j, jobs[j], conflictPath) /\ Careful(jobs[j], conflictPath)
  BY DEF ActingSound, Alone
<1>. QED
  BY <1>1, <1>2 DEF Careful, Answered, Formed

LEMMA UnobservedAre ==
  ASSUME ActingSound, NEW js, js = Acting!Unobserved(jobs)
  PROVE  /\ js = [j \in Mutations |-> js[j]]
         /\ \A j \in Mutations : jobs[j] = Nothing => js[j] = Nothing
         /\ \A j \in Mutations : js[j] # Nothing =>
              /\ Formed(js[j]) /\ ~js[j].observed
              /\ \A left : Careful(jobs[j], left) => Careful(js[j], left)
<1>1. \A j \in Mutations :
        js[j] = IF jobs[j] = Nothing THEN Nothing ELSE [jobs[j] EXCEPT !.observed = FALSE]
  BY DEF Acting!Unobserved
<1>2. \A j \in Mutations : jobs[j] # Nothing => Formed(jobs[j])
  BY DEF ActingSound
<1>. QED
  BY <1>1, <1>2, UnobservedIsFormed DEF Acting!Unobserved

\* A request that is answered is the same request.
LEMMA ResultIsSame ==
  ASSUME NEW job, Made(job), NEW r
  PROVE  LET it == [job EXCEPT !.result = r] IN
         /\ it.phase = job.phase /\ it.at = job.at /\ it.entries = job.entries
         /\ it.action = job.action
BY DEF Made

LEMMA ResultIsCareful ==
  ASSUME NEW job, Formed(job), NEW r
  PROVE  LET it == [job EXCEPT !.result = r] IN
         Formed(it) /\ Alike(it, job) /\ \A left : Careful(job, left) => Careful(it, left)
<1> DEFINE it == [job EXCEPT !.result = r]
<1>1. it = [action |-> job.action, entries |-> job.entries, into |-> job.into,
            dest |-> job.dest, overwrite |-> job.overwrite, duplicate |-> job.duplicate,
            may |-> job.may, phase |-> job.phase, at |-> job.at, target |-> job.target,
            replace |-> job.replace, taken |-> job.taken, result |-> r,
            observed |-> job.observed]
  <2>1. it = [job EXCEPT !.result = r] /\ Made(job)
    BY DEF Formed
  <2>. HIDE DEF it
  <2>. QED
    BY <2>1 DEF Made
<1>. HIDE DEF it
<1>2. Formed(it) /\ Alike(it, job)
  BY <1>1 DEF Formed, Made, Alike
<1>3. ASSUME NEW left, Careful(job, left) PROVE Careful(it, left)
  <2>1. \A p : Aim(it, p, job.dest) = Aim(job, p, job.dest)
    BY <1>2, AimSame DEF Alike
  <2>2. Agreed(job, job.dest, job.may, left) => Agreed(it, it.dest, it.may, left)
    <3>1. it.may = job.may
      BY <1>1
    <3>. QED
      BY <1>2, <3>1, AgreedSame DEF Alike
  <2>3. Acting!Source(it) = Acting!Source(job)
    BY <1>1 DEF Acting!Source
  <2>4. /\ it.overwrite = job.overwrite /\ it.duplicate = job.duplicate /\ it.phase = job.phase
        /\ it.replace = job.replace /\ it.target = job.target /\ it.may = job.may
        /\ it.dest = job.dest
    BY <1>1
  <2>. QED
    BY <1>3, <2>1, <2>2, <2>3, <2>4 DEF Careful
<1>. QED
  BY <1>2, <1>3 DEF it

LEMMA ActingStep == ActingSound /\ [Acting!Next]_actingVars => ActingSound'
<1> SUFFICES ASSUME ActingSound, [Acting!Next]_actingVars PROVE ActingSound'
  OBVIOUS
<1>1. ASSUME NEW s \in Selections, NEW name \in Acting!PathActions, Acting!BeginAction(name, s)
      PROVE  ActingSound'
  BY <1>1 DEF Acting!BeginAction, Acting!Open, Acting!Action, Acting!Running, ActingSound
<1>2. ASSUME NEW s \in Selections, NEW dir, Acting!Paste(s, dir) PROVE ActingSound'
  <2> DEFINE act == Acting!Action("copy", s, dir)
  <2>1. /\ dialog' = act /\ conflictPath' = Nothing /\ mixed' = (Acting!Running # {})
    BY <1>2 DEF Acting!Paste, Acting!Open, Acting!Action, Acting!ResetRefs
  <2>2. act.action = "copy" /\ act.entries = s /\ act.into = dir
    BY DEF Acting!Action
  <2>3. (dialog # Nothing =>
           /\ dialog.entries \in Selections
           /\ dialog.action \in Acting!PathActions \cup {"drop"}
           /\ dialog.action # "copy" => dialog.into = Nothing
           /\ Agreed(dialog, destination, {warned}, conflictPath))'
    BY <2>1, <2>2 DEF Acting!PathActions, Agreed
  <2>4. CASE UNCHANGED jobs
    BY <2>1, <2>3, <2>4 DEF ActingSound, Acting!Running
  <2>5. ASSUME NEW j \in Mutations, answer' = "pending",
               jobs' = [jobs EXCEPT ![j] =
                 [Acting!NewJob(act, destination', Acting!Plainly) EXCEPT !.phase = "measure"]]
        PROVE  ActingSound'
    <3> DEFINE job == Acting!NewJob(act, destination', Acting!Plainly)
    <3>0. PICK it : it = [job EXCEPT !.phase = "measure"]
      OBVIOUS
    <3>1. /\ Made(it) /\ it.action = "copy" /\ it.entries = s /\ it.into = dir
          /\ it.dest = destination' /\ ~it.overwrite /\ ~it.replace /\ it.observed
          /\ it.phase = "measure"
      <4>1. /\ Made(job) /\ job.action = "copy" /\ job.entries = s /\ job.into = dir
            /\ job.dest = destination' /\ ~job.overwrite /\ ~job.replace
            /\ job.observed
        BY <2>2, NewJobIsMade DEF Acting!Plainly
      <4>. HIDE DEF job
      <4>. QED
        BY <3>0, <4>1, PhaseIsMade DEF Alike
    <3>2. Formed(it) /\ \A left : Careful(it, left)
      BY <3>1 DEF Formed, Careful
    <3>. HIDE DEF job, act
    <3>3. /\ jobs' = [i \in Mutations |-> jobs'[i]]
          /\ \A i \in Mutations : jobs'[i] # Nothing => Formed(jobs'[i])
      BY <2>5, <3>0, <3>2 DEF ActingSound, job
    <3>4. ASSUME ~mixed' PROVE \A i \in Acting!Running' : i = j /\ jobs'[i] = it
      BY <2>1, <2>5, <3>0, <3>4 DEF Acting!Running, job, ActingSound
    <3>5. Shows(it)'
      BY <2>1, <2>2, <3>1 DEF Shows
    <3>. QED
      <4>1. ASSUME ~mixed', NEW i \in Acting!Running'
            PROVE  (/\ Careful(jobs[i], conflictPath)
                    /\ IF jobs[i].observed THEN Shows(jobs[i]) /\ answer = "pending"
                       ELSE dialog = Nothing)'
        <5>1. jobs'[i] = it
          BY <3>4, <4>1
        <5>2. Careful(jobs[i], conflictPath)'
          BY <3>2, <5>1 DEF Careful
        <5>3. Shows(jobs[i])'
          BY <3>5, <5>1 DEF Shows
        <5>. QED
          BY <2>5, <3>1, <5>1, <5>2, <5>3
      <4>. QED
        BY <2>3, <3>3, <3>4, <4>1 DEF ActingSound
  <2>. QED
    BY <1>2, <2>1, <2>4, <2>5 DEF Acting!Paste
<1>3. ASSUME NEW s \in Selections, NEW dir, Acting!Drop(s, dir) PROVE ActingSound'
  BY <1>3 DEF Acting!Drop, Acting!Open, Acting!Action, Acting!Running, Acting!PathActions, ActingSound
<1>4. ASSUME NEW there, Acting!Redirect(there), dialog # Nothing, dialog.into = Nothing
      PROVE  ActingSound'
  <2>1. /\ jobs' = Acting!Unobserved(jobs) /\ answer' = "idle" /\ dialog' = dialog
        /\ mixed' = (mixed \/ answer = "pending") /\ (~mixed' => warned' = warned)
    BY <1>4 DEF Acting!Redirect, Acting!Mix
  <2>2. ~mixed' => \A j \in Mutations : jobs'[j] = Nothing
    <3>1. ~mixed' => \A j \in Mutations : jobs[j] = Nothing
      BY <1>4, <2>1 DEF ActingSound, Acting!Running
    <3>. QED
      BY <2>1, <3>1, UnobservedAre
  <2>3. /\ jobs' = [j \in Mutations |-> jobs'[j]]
        /\ \A j \in Mutations : jobs'[j] # Nothing => Formed(jobs'[j])
    BY <2>1, UnobservedAre
  <2>. QED
    BY <1>4, <2>1, <2>2, <2>3 DEF ActingSound, Acting!Running, Acting!PathActions
<1>5. ASSUME NEW there, Acting!Type(there) PROVE ActingSound'
  BY <1>4, <1>5 DEF Acting!Type, Acting!Shown
<1>6. ASSUME NEW dir, Acting!Browse(dir) PROVE ActingSound'
  BY <1>4, <1>6 DEF Acting!Browse, Acting!Shown, ActingSound
<1>7. CASE Acting!Submit
  BY <1>7, StartKeeps DEF Acting!Submit, Acting!Plainly
<1>8. CASE Acting!Replace
  BY <1>8, StartKeeps DEF Acting!Replace
<1>9. CASE Acting!Duplicate
  BY <1>9, StartKeeps DEF Acting!Duplicate
<1>10. CASE Acting!Overwrite
  BY <1>10, StartKeeps DEF Acting!Overwrite, Acting!InPlace
<1>11. CASE Acting!Cancel
  <2>1. /\ jobs' = Acting!Unobserved(jobs) /\ dialog' = Nothing /\ mixed' = mixed
        /\ conflictPath' = conflictPath \/ conflictPath' = Nothing
    BY <1>11 DEF Acting!Cancel, Acting!ResetRefs, Acting!refs
  <2>2. /\ jobs' = [j \in Mutations |-> jobs'[j]]
        /\ \A j \in Mutations : jobs[j] = Nothing => jobs'[j] = Nothing
        /\ \A j \in Mutations : jobs'[j] # Nothing =>
             /\ Formed(jobs'[j]) /\ ~jobs'[j].observed
             /\ \A left : Careful(jobs[j], left) => Careful(jobs'[j], left)
    BY <2>1, UnobservedAre
  <2>3. ASSUME ~mixed', NEW j \in Acting!Running' PROVE Careful(jobs'[j], conflictPath')
    <3>1. j \in Mutations /\ jobs'[j] # Nothing /\ j \in Acting!Running
      BY <2>2 DEF Acting!Running
    <3>2. Careful(jobs[j], conflictPath)
      BY <2>1, <2>3, <3>1 DEF ActingSound
    <3>3. Careful(jobs'[j], conflictPath) /\ Formed(jobs'[j])
      BY <2>2, <3>1, <3>2
    <3>. QED
      BY <2>1, <3>3 DEF Careful, Agreed, Formed
  <2>4. ~mixed' => \A i, j \in Acting!Running' : i = j
    BY <2>1, <2>2 DEF ActingSound, Acting!Running
  <2>. QED
    BY <2>1, <2>2, <2>3, <2>4 DEF ActingSound, Acting!Running
<1>12. ASSUME NEW j \in Mutations, Acting!Serve(j) PROVE ActingSound'
  <2>1. PICK r : jobs' = [jobs EXCEPT ![j] = [jobs[j] EXCEPT !.result = r]]
    BY <1>12 DEF Acting!Serve, Acting!Result
  <2> DEFINE it == [jobs[j] EXCEPT !.result = r]
  <2>2. /\ UNCHANGED <<dialog, destination, answer, conflictPath, warned, mixed>>
        /\ jobs[j] # Nothing
    BY <1>12 DEF Acting!Serve, Acting!shown, Acting!refs, Acting!ghosts
  <2>3. /\ Formed(jobs[j]) /\ Formed(it) /\ Alike(it, jobs[j])
        /\ \A left : Careful(jobs[j], left) => Careful(it, left)
    BY <2>2, ResultIsCareful DEF ActingSound
  <2>. HIDE DEF it
  <2>4. jobs' = [jobs EXCEPT ![j] = it]
    BY <2>1 DEF it
  <2>5. Shows(jobs[j]) => Shows(it)
    BY <2>3 DEF Shows, Alike
  <2>6. \A i \in Mutations : jobs'[i] = IF i = j THEN it ELSE jobs[i]
    BY <2>4 DEF ActingSound
  <2>7. Acting!Running' \subseteq Acting!Running
    BY <2>2, <2>6 DEF Acting!Running
  <2>8. ASSUME ~mixed, NEW i \in Acting!Running'
        PROVE  /\ Careful(jobs'[i], conflictPath)
               /\ IF jobs'[i].observed THEN Shows(jobs'[i]) /\ answer = "pending"
                  ELSE dialog = Nothing
    BY <2>2, <2>3, <2>5, <2>6, <2>7, <2>8 DEF ActingSound, Acting!Running, Alike
  <2>9. /\ jobs' = [i \in Mutations |-> jobs'[i]]
        /\ \A i \in Mutations : jobs'[i] # Nothing => Formed(jobs'[i])
    BY <2>3, <2>4 DEF ActingSound
  <2>. QED
    BY <2>2, <2>7, <2>8, <2>9 DEF ActingSound, Shows
<1>13. ASSUME NEW j \in Mutations, Acting!Measured(j) PROVE ActingSound'
  <2>1. j \in Acting!Running /\ jobs[j].phase = "measure" /\ jobs[j] # Nothing
    BY <1>13 DEF Acting!Measured, Acting!Running
  <2>2. CASE Acting!FailWith(j, "error") /\ UNCHANGED <<completed, conflictPath, copyPlan, warned>>
    BY <2>1, <2>2, FailKeeps DEF ActingSound
  <2>3. CASE Acting!AfterMeasure(j, jobs[j], TRUE) /\ UNCHANGED <<mixed, warned>>
    BY <2>1, <2>3, GoesOnAlone, AfterMeasureKeeps DEF Formed
  <2>. QED
    BY <1>13, <2>2, <2>3 DEF Acting!Measured, Acting!refs, Acting!ghosts
<1>14. ASSUME NEW j \in Mutations, Acting!Listed(j) PROVE ActingSound'
  <2>1. j \in Acting!Running /\ jobs[j].phase = "list" /\ jobs[j] # Nothing
    BY <1>14 DEF Acting!Listed, Acting!Running
  <2>2. CASE Acting!FailWith(j, "error") /\ UNCHANGED <<completed, conflictPath, copyPlan, warned>>
    BY <2>1, <2>2, FailKeeps DEF ActingSound
  <2> DEFINE it == [jobs[j] EXCEPT !.taken = Acting!Siblings(jobs[j])]
  <2>3. CASE Acting!GoOn(j, it, completed, conflictPath, copyPlan) /\ UNCHANGED <<mixed, warned>>
    <3>1. /\ Formed(jobs[j]) /\ jobs[j].action # "drop"
          /\ ~mixed' => Alone(j, jobs[j], conflictPath) /\ Answered(jobs[j], conflictPath)
      BY <2>1, <2>3, GoesOnAlone
    <3>2. /\ Made(it) /\ Alike(it, jobs[j]) /\ it.overwrite = jobs[j].overwrite
          /\ it.duplicate = jobs[j].duplicate /\ it.may = jobs[j].may
      BY <3>1, TakenIsMade DEF Formed
    <3>. HIDE DEF it
    <3>. QED
      BY <2>3, <3>1, <3>2, AloneSame, AnsweredSame, GoOnKeeps DEF Alike
  <2>. QED
    BY <1>14, <2>2, <2>3 DEF Acting!Listed, Acting!refs, Acting!ghosts
<1>15. ASSUME NEW j \in Mutations, Acting!Done(j) PROVE ActingSound'
  <2> DEFINE job == jobs[j]
  <2>1. j \in Acting!Running /\ job # Nothing /\ UNCHANGED <<mixed, warned>>
    BY <1>15 DEF Acting!Done, Acting!Running
  <2>2. Formed(job) /\ (~mixed' => Alone(j, job, conflictPath) /\ Careful(job, conflictPath))
    BY <2>1, GoesOnAlone
  <2>3. CASE job.action = "drop"
    BY <1>15, <2>1, <2>2, <2>3, SucceedKeeps DEF Acting!Done
  <2>4. CASE job.action # "drop"
    <3>1. Acting!GoOn(j, job, completed \cup {Acting!Source(job)}, Nothing, copyPlan)
      BY <1>15, <2>4 DEF Acting!Done
    <3>2. ASSUME ~mixed' PROVE Alone(j, job, Nothing) /\ Answered(job, Nothing)
      <4>1. dialog # Nothing /\ dialog.into # Nothing => Agreed(dialog, destination, {warned}, Nothing)
        BY DEF ActingSound, Agreed
      <4>. QED
        BY <2>2, <2>4, <3>2, <4>1 DEF Alone, Answered, Careful, Agreed
    <3>. HIDE DEF job
    <3>. QED
      BY <2>2, <2>4, <3>1, <3>2, GoOnKeeps DEF Formed
  <2>. QED
    BY <2>3, <2>4
<1>16. ASSUME NEW j \in Mutations, Acting!Failed(j) PROVE ActingSound'
  <2> DEFINE job == jobs[j]
             s   == Acting!Source(job)
  <2>1. j \in Acting!Running /\ job # Nothing /\ job.phase = "item" /\ mixed' = mixed
    BY <1>16 DEF Acting!Failed, Acting!FailWith, Acting!Running
  <2>2. Formed(job)
    BY <2>1 DEF ActingSound, Acting!Running
  <2>3. ASSUME ~mixed PROVE
          IF job.observed
          THEN dialog # Nothing /\ (dialog.into # Nothing \/ job.result = "conflict") =>
                 Agreed(dialog, destination, {warned'}, conflictPath')
          ELSE warned' = warned
    <3>1. CASE ~job.observed
      BY <1>16, <3>1 DEF Acting!Failed
    <3>2. CASE job.observed /\ job.result # "conflict"
      BY <1>16, <2>3, <3>2 DEF Acting!Failed, ActingSound
    <3>3. CASE job.observed /\ job.result = "conflict"
      <4>1. Shows(job) /\ Careful(job, conflictPath)
        BY <2>1, <2>3, <3>3 DEF ActingSound
      <4>2. warned' = <<s, job.target>>
        BY <1>16, <2>3, <3>3 DEF Acting!Failed
      <4>3. Aim(dialog, s, destination) = Aim(job, s, job.dest)
        BY <4>1, AimSame DEF Shows
      <4>4. InConflict(dialog, conflictPath') = s
        <5>1. job.action # "drop" => conflictPath' = s
          BY <1>16, <3>3 DEF Acting!Failed
        <5>2. job.action = "drop" => s = job.entries[1].path
          BY <2>2 DEF Formed, Acting!Source
        <5>. QED
          BY <4>1, <5>1, <5>2 DEF Shows, InConflict
      <4>5. job.target = Aim(job, s, job.dest) \/ Aim(job, s, job.dest) = s
        BY <2>1, <4>1 DEF Careful
      <4>. HIDE DEF job, s
      <4>6. Agreed(dialog, destination, {warned'}, conflictPath')
        BY <4>2, <4>3, <4>4, <4>5 DEF Agreed
      <4>. QED
        BY <3>3, <4>6
    <3>. QED
      BY <3>1, <3>2, <3>3
  <2>. QED
    BY <1>16, <2>1, <2>3, FailKeeps DEF Acting!Failed
<1>17. CASE UNCHANGED actingVars
  BY <1>17 DEF actingVars, ActingSound, Acting!Running, Shows, Acting!PathActions
<1>. QED
  BY <1>1, <1>2, <1>3, <1>5, <1>6, <1>7, <1>8, <1>9, <1>10, <1>11, <1>12, <1>13, <1>14, <1>15,
     <1>16, <1>17 DEF Acting!Next

LEMMA ActingInit == PagesInit => ActingSound
  BY DEF PagesInit, Acting!Init, ActingSound, Acting!Running

\* What is at a target is replaced only where the user has read of that conflict,
\* with that target, and answered it: for any tree, any selections and any number
\* of mutations under way, as long as one action at a time is followed
\* (PathActionDialog, and the dialog of a drop in FilesPage).
THEOREM ReplacesOnlyWhatWasAsked == PagesSpec => []ReplacesWhatWasAsked
<1>1. ActingSound => ReplacesWhatWasAsked
  BY DEF ActingSound, Careful, ReplacesWhatWasAsked, Acting!ReplacesWhatWasAsked
<1>2. QED
  BY <1>1, PartSteps, ActingInit, ActingStep, PTL DEF PagesSpec

\* What the refs call done was acknowledged, and a mutation has left nothing out.
Progress(job) ==
  IF job.phase = "item"
  THEN /\ job.at \in 1 .. Len(job.entries)
       /\ job.action # "drop" => \A l \in 1 .. job.at - 1 : job.entries[l].path \in completed
  ELSE job.at = 0

ActingDone ==
  ~mixed /\ dialog # Nothing =>
    /\ dialog.action # "drop" => completed \subseteq acked
    /\ dialog.action = "drop" => Len(dialog.entries) = 1
    /\ \A j \in Acting!Running : Progress(jobs[j])

LEMMA GoOnCompletes ==
  ASSUME ActingSound, NEW j \in Mutations, NEW job, Made(job), job.action # "drop",
         NEW done, NEW left, NEW plan, Acting!GoOn(j, job, done, left, plan),
         ~mixed, dialog # Nothing, Acting!Running \subseteq {j}, Shows(job), done \subseteq acked',
         \A l \in 1 .. job.at : l <= Len(job.entries) => job.entries[l].path \in done
  PROVE  ActingDone' /\ (dialog' = Nothing => \A e \in ToSet(dialog.entries) : e.path \in acked')
<1>0. /\ dialog.entries = job.entries /\ job.entries \in Seq(Acting!Entries) /\ job.at \in Nat
      /\ dialog.action = job.action /\ job.action \in Acting!PathActions
  BY ActingAssumption DEF Shows, Made, ActingSound
<1>1. CASE Acting!Left(job, done) = {}
  <2>1. \A l \in 1 .. Len(job.entries) : job.entries[l].path \in done
    BY <1>0, <1>1 DEF Acting!Left
  <2>2. \A e \in ToSet(dialog.entries) : e.path \in acked'
    BY <1>0, <2>1 DEF ToSet
  <2>3. dialog' = Nothing
    BY <1>0, <1>1 DEF Acting!GoOn, Acting!Succeed, Acting!Shown
  <2>. QED
    BY <2>2, <2>3 DEF ActingDone
<1>2. CASE Acting!Left(job, done) # {}
  <2>1. PICK k \in 1 .. Len(job.entries) :
          /\ k = CHOOSE c \in Acting!Left(job, done) : \A l \in Acting!Left(job, done) : c <= l
          /\ \A l \in Acting!Left(job, done) : k <= l
    BY <1>2, NextIsLeft
  <2>2. PICK it : it = Acting!Ask(job, k, left)
    OBVIOUS
  <2>3. /\ jobs' = [jobs EXCEPT ![j] = it] /\ completed' = done
        /\ UNCHANGED <<dialog, destination>>
    BY <1>2, <2>1, <2>2 DEF Acting!GoOn
  <2>4. it.at = k /\ it.phase = "item" /\ it.entries = job.entries
    BY <2>2, AskedAt
  <2>5. \A l \in 1 .. k - 1 : job.entries[l].path \in done
    <3> SUFFICES ASSUME NEW l \in 1 .. k - 1, job.entries[l].path \notin done PROVE FALSE
      OBVIOUS
    <3>1. l \in 1 .. Len(job.entries) /\ l < k /\ l \notin Acting!Left(job, done)
      BY <1>0, <2>1
    <3>. QED
      BY <1>0, <3>1 DEF Acting!Left
  <2>6. Acting!Running' \subseteq {j} /\ (j \in Acting!Running' => jobs'[j] = it)
    BY <2>3 DEF ActingSound, Acting!Running
  <2>7. Progress(it)'
    BY <2>3, <2>4, <2>5 DEF Progress
  <2>. QED
    BY <1>0, <2>3, <2>6, <2>7 DEF ActingDone, Progress
<1>. QED
  BY <1>1, <1>2

LEMMA WaitCompletes ==
  ASSUME ActingSound, NEW j \in Mutations, NEW job, Made(job), job.at = 0,
         NEW phase, phase # "item", NEW plan, Acting!Wait(j, job, phase, plan),
         dialog # Nothing, ~mixed, Acting!Running \subseteq {j}, job.action # "drop", Shows(job),
         completed \subseteq acked'
  PROVE  ActingDone' /\ dialog' # Nothing
<1>1. PICK it : it = [job EXCEPT !.phase = phase]
  OBVIOUS
<1>2. it.at = 0 /\ it.phase = phase
  BY <1>1, PhaseIsMade
<1>3. /\ jobs' = [jobs EXCEPT ![j] = it] /\ UNCHANGED <<dialog, completed>>
  BY <1>1 DEF Acting!Wait
<1>4. Acting!Running' \subseteq {j} /\ (j \in Acting!Running' => jobs'[j] = it)
  BY <1>3 DEF ActingSound, Acting!Running
<1>. QED
  BY <1>2, <1>3, <1>4 DEF ActingDone, Progress, Shows

\* What a mutation starts with, and what it goes on with
LEMMA AfterMeasureCompletes ==
  ASSUME ActingSound, NEW j \in Mutations, NEW job, Made(job), job.at = 0,
         NEW plan, Acting!AfterMeasure(j, job, plan),
         dialog # Nothing, ~mixed, Acting!Running \subseteq {j}, job.action # "drop", Shows(job),
         completed \subseteq acked'
  PROVE  ActingDone' /\ (dialog' = Nothing => \A e \in ToSet(dialog.entries) : e.path \in acked')
BY WaitCompletes, GoOnCompletes DEF Acting!AfterMeasure

LEMMA StartCompletes ==
  ASSUME ActingSound, ActingDone, NEW choice, Acting!Start(choice)
  PROVE  ActingDone' /\ (~mixed /\ dialog' = Nothing =>
                           \A e \in ToSet(dialog.entries) : e.path \in acked')
<1> SUFFICES ASSUME ~mixed
             PROVE  ActingDone' /\ (dialog' = Nothing =>
                                      \A e \in ToSet(dialog.entries) : e.path \in acked')
  BY DEF ActingDone, Acting!Start, Acting!Mix
<1>0. /\ dialog # Nothing /\ Acting!Running = {} /\ acked' = acked /\ ~mixed'
  BY DEF Acting!Start, Acting!Mix, ActingSound
<1> DEFINE job == Acting!NewJob(dialog, destination, choice)
<1>1. PICK j \in Mutations \ Acting!Running :
        CASE job.action = "drop" -> Acting!Confirmed(j, job)
          [] job.action = "copy" /\ ~copyPlan -> Acting!Wait(j, job, "measure", FALSE)
          [] OTHER -> Acting!AfterMeasure(j, job, copyPlan)
  BY DEF Acting!Start
<1>2. /\ Made(job) /\ job.action = dialog.action /\ job.entries = dialog.entries
      /\ job.into = dialog.into /\ job.dest = destination /\ job.at = 0
  BY <1>0, NewJobIsMade DEF ActingSound
<1>. HIDE DEF job
<1>3. Shows(job)
  BY <1>2 DEF Shows
<1>4. CASE job.action = "drop"
  <2>1. PICK it : it = Acting!Ask(job, 1, Nothing)
    OBVIOUS
  <2>2. /\ jobs' = [jobs EXCEPT ![j] = it] /\ UNCHANGED <<dialog, destination>>
    BY <1>1, <1>4, <2>1 DEF Acting!Confirmed
  <2>3. Len(job.entries) = 1
    BY <1>0, <1>2, <1>4 DEF ActingDone
  <2>4. it.at = 1 /\ it.phase = "item" /\ it.entries = job.entries /\ it.action = "drop"
    <3>1. 1 \in 1 .. Len(job.entries)
      BY <2>3
    <3>. QED
      BY <1>2, <1>4, <2>1, <3>1, AskedAt
  <2>5. Acting!Running' \subseteq {j} /\ (j \in Acting!Running' => jobs'[j] = it)
    BY <1>0, <2>2 DEF ActingSound, Acting!Running
  <2>. QED
    <3>0. 1 \in 1 .. Len(it.entries)
      <4>1. Len(it.entries) = 1
        BY <2>3, <2>4
      <4>. QED
        BY <4>1
    <3>1. Progress(it)'
      BY <2>4, <3>0 DEF Progress
    <3>2. \A i \in Acting!Running' : Progress(jobs[i])'
      BY <2>5, <3>1 DEF Progress
    <3>3. dialog' = dialog /\ dialog.action = "drop" /\ Len(dialog.entries) = 1
      BY <1>2, <1>4, <2>2, <2>3
    <3>. QED
      BY <1>0, <3>2, <3>3 DEF ActingDone
<1>5. CASE job.action = "copy" /\ ~copyPlan
  <2>1. Acting!Wait(j, job, "measure", FALSE) /\ completed \subseteq acked'
    BY <1>0, <1>1, <1>2, <1>5 DEF ActingDone
  <2>. QED
    BY <1>0, <1>2, <1>3, <1>5, <2>1, WaitCompletes
<1>6. CASE job.action # "drop" /\ ~(job.action = "copy" /\ ~copyPlan)
  <2>1. Acting!AfterMeasure(j, job, copyPlan) /\ completed \subseteq acked'
    BY <1>0, <1>1, <1>2, <1>6 DEF ActingDone
  <2>. QED
    BY <1>0, <1>2, <1>3, <1>6, <2>1, AfterMeasureCompletes
<1>. QED
  BY <1>4, <1>5, <1>6

LEMMA ClosesStep ==
  ASSUME ActingSound, ActingDone, [Acting!Next]_actingVars
  PROVE  ActingDone' /\ [Acting!ClosesComplete]_actingVars
<1> DEFINE closes == ~mixed /\ dialog # Nothing /\ dialog' = Nothing =>
                       \A e \in ToSet(dialog.entries) : e.path \in acked'
           Goal == ActingDone' /\ (closes \/ Acting!Cancel)
<1>0. CASE UNCHANGED actingVars
  <2>1. ActingDone'
    BY <1>0 DEF ActingDone, actingVars, Progress, Acting!Running
  <2>. QED
    BY <1>0, <2>1
<1> SUFFICES ASSUME Acting!Next PROVE Goal
  <2>1. ASSUME Goal PROVE Acting!ClosesComplete
    BY <2>1 DEF Acting!ClosesComplete, ToSet, Acting!ToSet
  <2>. HIDE DEF Goal
  <2>2. Goal => ActingDone'
    BY DEF Goal
  <2>. QED
    BY <1>0, <2>1, <2>2
<1>1. ASSUME dialog = Nothing, dialog' = Nothing PROVE Goal
  BY <1>1 DEF ActingDone
<1>2. ASSUME NEW act, NEW start, Acting!Open(act, start),
             act.action = "drop" => Len(act.entries) = 1,
             ~mixed' => \A j \in Acting!Running' : Progress(jobs[j])'
      PROVE  Goal
  <2>1. /\ dialog = Nothing /\ dialog' = act /\ acked' = {}
        /\ act.action # "drop" => completed' = {}
    BY <1>2 DEF Acting!Open, Acting!ResetRefs
  <2>. QED
    BY <1>2, <2>1 DEF ActingDone
<1>19. ASSUME NEW job, NEW js, NEW left, NEW plan, Acting!Succeed(job, js, left, plan), mixed' = mixed,
              mixed \/ dialog = Nothing
       PROVE  Goal
  <2>1. dialog = Nothing => dialog' = Nothing
    BY <1>19 DEF Acting!Succeed, Acting!shown
  <2>. QED
    BY <1>19, <2>1 DEF ActingDone
<1>18. ASSUME NEW j \in Mutations, NEW job, NEW done, NEW left, NEW plan,
              Acting!GoOn(j, job, done, left, plan), mixed' = mixed, mixed \/ dialog = Nothing
       PROVE  Goal
  <2>1. CASE dialog' = dialog
    BY <1>18, <2>1 DEF ActingDone
  <2>. QED
    BY <1>18, <1>19, <2>1 DEF Acting!GoOn
<1>17. ASSUME NEW j \in Mutations, NEW plan, Acting!AfterMeasure(j, jobs[j], plan), mixed' = mixed,
              mixed \/ dialog = Nothing
       PROVE  Goal
  <2>1. CASE dialog' = dialog
    BY <1>17, <2>1 DEF ActingDone
  <2>. QED
    BY <1>17, <1>18, <2>1 DEF Acting!AfterMeasure, Acting!Wait
<1>3. ASSUME NEW s \in Selections, NEW name \in Acting!PathActions, Acting!BeginAction(name, s)
      PROVE  Goal
  <2>1. ~mixed' => Acting!Running' = {}
    BY <1>3 DEF Acting!BeginAction, Acting!Open, Acting!Running
  <2> DEFINE act == Acting!Action(name, s, Nothing)
  <2>2. act.action # "drop" /\ Acting!Open(act, Nothing)
    BY <1>3 DEF Acting!BeginAction, Acting!Action, Acting!PathActions
  <2>. HIDE DEF act
  <2>. QED
    BY <1>2, <2>1, <2>2
<1>4. ASSUME NEW s \in Selections, NEW dir, Acting!Paste(s, dir) PROVE Goal
  <2> DEFINE act == Acting!Action("copy", s, dir)
  <2>1. act.action # "drop" /\ Acting!Open(act, Nothing) /\ act.entries = s
    BY <1>4 DEF Acting!Paste, Acting!Action
  <2>2. ASSUME ~mixed', NEW j \in Acting!Running' PROVE Progress(jobs[j])'
    <3>1. Acting!Running = {}
      BY <2>1, <2>2 DEF Acting!Open
    <3>2. PICK k \in Mutations : jobs' = [jobs EXCEPT ![k] =
            [Acting!NewJob(act, destination', Acting!Plainly) EXCEPT !.phase = "measure"]]
      BY <1>4, <2>2, <3>1 DEF Acting!Paste, Acting!Running
    <3>3. PICK job : job = Acting!NewJob(act, destination', Acting!Plainly)
      OBVIOUS
    <3>4. PICK it : it = [job EXCEPT !.phase = "measure"]
      OBVIOUS
    <3>5. Made(job) /\ job.at = 0
      BY <2>1, <3>3, NewJobIsMade
    <3>6. it.at = 0 /\ it.phase = "measure"
      BY <3>4, <3>5, PhaseIsMade
    <3>7. jobs' = [jobs EXCEPT ![k] = it]
      BY <3>2, <3>3, <3>4
    <3>8. jobs'[j] = it
      BY <2>2, <3>1, <3>7 DEF ActingSound, Acting!Running
    <3>. QED
      BY <3>6, <3>8 DEF Progress
  <2>. HIDE DEF act
  <2>. QED
    BY <1>2, <2>1, <2>2
<1>5. ASSUME NEW s \in Selections, NEW dir, Acting!Drop(s, dir) PROVE Goal
  <2>1. ~mixed' => Acting!Running' = {}
    BY <1>5 DEF Acting!Drop, Acting!Open, Acting!Running
  <2> DEFINE act == Acting!Action(IF Len(s) > 1 THEN "move" ELSE "drop", s, Nothing)
  <2>2. Acting!Open(act, dir)
    BY <1>5 DEF Acting!Drop
  <2>3. act.action = "drop" => Len(act.entries) = 1
    <3>1. s \in Seq(Acting!Entries) /\ s # <<>>
      BY ActingAssumption
    <3>2. Len(s) \in Nat /\ Len(s) # 0
      BY <3>1
    <3>. QED
      BY <3>2 DEF Acting!Action
  <2>. HIDE DEF act
  <2>. QED
    BY <1>2, <2>1, <2>2, <2>3
<1>6. ASSUME NEW there, Acting!Redirect(there), dialog # Nothing PROVE Goal
  <2>1. /\ jobs' = Acting!Unobserved(jobs) /\ dialog' = dialog /\ completed' = completed
        /\ mixed' = (mixed \/ answer = "pending") /\ (~mixed' => acked' = acked)
    BY <1>6 DEF Acting!Redirect, Acting!Mix, Acting!refs
  <2>2. ~mixed' => \A j \in Mutations : jobs'[j] = Nothing
    <3>1. ~mixed' => \A j \in Mutations : jobs[j] = Nothing
      BY <1>6, <2>1 DEF ActingSound, Acting!Running
    <3>. QED
      BY <2>1, <3>1, UnobservedAre
  <2>. QED
    BY <1>6, <2>1, <2>2 DEF ActingDone, Acting!Running
<1>7. ASSUME NEW there, Acting!Type(there) PROVE Goal
  BY <1>6, <1>7 DEF Acting!Type, Acting!Shown
<1>8. ASSUME NEW dir, Acting!Browse(dir) PROVE Goal
  BY <1>6, <1>8 DEF Acting!Browse, Acting!Shown
<1>9. CASE Acting!Submit \/ Acting!Replace \/ Acting!Duplicate \/ Acting!Overwrite
  BY <1>9, StartCompletes DEF Acting!Submit, Acting!Replace, Acting!Duplicate, Acting!Overwrite
<1>10. CASE Acting!Cancel
  BY <1>10 DEF Acting!Cancel, ActingDone
<1>11. ASSUME NEW j \in Mutations, Acting!Serve(j) PROVE Goal
  <2>1. PICK r : jobs' = [jobs EXCEPT ![j] = [jobs[j] EXCEPT !.result = r]]
    BY <1>11 DEF Acting!Serve, Acting!Result
  <2>2. PICK it : it = [jobs[j] EXCEPT !.result = r]
    OBVIOUS
  <2>3. UNCHANGED <<dialog, completed, acked, mixed>> /\ jobs[j] # Nothing
    BY <1>11 DEF Acting!Serve, Acting!shown, Acting!refs, Acting!ghosts
  <2>4. /\ it.phase = jobs[j].phase /\ it.at = jobs[j].at /\ it.entries = jobs[j].entries
        /\ it.action = jobs[j].action
    BY <2>2, <2>3, ResultIsSame DEF ActingSound, Formed
  <2>5. \A i \in Mutations : jobs'[i] = IF i = j THEN it ELSE jobs[i]
    BY <2>1, <2>2 DEF ActingSound
  <2>6. \A i \in Acting!Running' : i \in Acting!Running /\ (Progress(jobs[i]) => Progress(jobs[i])')
    BY <2>3, <2>4, <2>5 DEF Acting!Running, Progress
  <2>. QED
    BY <2>3, <2>6 DEF ActingDone
<1>12. ASSUME NEW j \in Mutations, NEW what, Acting!FailWith(j, what), jobs[j] # Nothing,
              UNCHANGED completed
       PROVE  Goal
  <2>1. /\ jobs' = [jobs EXCEPT ![j] = Nothing]
        /\ UNCHANGED <<dialog, completed, acked, mixed>>
    BY <1>12 DEF Acting!FailWith
  <2>2. \A i \in Acting!Running' : i \in Acting!Running /\ (Progress(jobs[i]) => Progress(jobs[i])')
    BY <2>1 DEF ActingSound, Acting!Running, Progress
  <2>. QED
    BY <2>1, <2>2 DEF ActingDone
<1>13. ASSUME NEW j \in Mutations, Acting!Measured(j) PROVE Goal
  <2>1. j \in Acting!Running /\ jobs[j].phase = "measure" /\ jobs[j] # Nothing
    BY <1>13 DEF Acting!Measured, Acting!Running
  <2>2. CASE Acting!FailWith(j, "error") /\ UNCHANGED <<completed, conflictPath, copyPlan, warned>>
    BY <1>12, <2>1, <2>2
  <2>3. CASE Acting!AfterMeasure(j, jobs[j], TRUE) /\ UNCHANGED <<warned, acked, mixed>>
    <3>1. CASE mixed \/ dialog = Nothing
      BY <1>17, <2>1, <2>3, <3>1
    <3>2. CASE ~mixed /\ dialog # Nothing
      <4>1. Formed(jobs[j]) /\ jobs[j].action # "drop" /\ Alone(j, jobs[j], conflictPath)
        BY <2>1, <2>3, <3>2, GoesOnAlone
      <4>2. jobs[j].at = 0 /\ Shows(jobs[j])
        BY <2>1, <3>2, <4>1 DEF Alone, ActingDone, Progress
      <4>3. completed \subseteq acked'
        BY <2>3, <3>2, <4>1, <4>2 DEF ActingDone, Shows
      <4>. QED
        BY <2>3, <3>2, <4>1, <4>2, <4>3, AfterMeasureCompletes DEF Alone, Formed
    <3>. QED
      BY <3>1, <3>2
  <2>. QED
    BY <1>13, <2>2, <2>3 DEF Acting!Measured, Acting!refs, Acting!ghosts
<1>14. ASSUME NEW j \in Mutations, Acting!Listed(j) PROVE Goal
  <2>1. j \in Acting!Running /\ jobs[j].phase = "list" /\ jobs[j] # Nothing
    BY <1>14 DEF Acting!Listed, Acting!Running
  <2>2. CASE Acting!FailWith(j, "error") /\ UNCHANGED <<completed, conflictPath, copyPlan, warned>>
    BY <1>12, <2>1, <2>2
  <2> DEFINE it == [jobs[j] EXCEPT !.taken = Acting!Siblings(jobs[j])]
  <2>3. CASE Acting!GoOn(j, it, completed, conflictPath, copyPlan) /\ UNCHANGED <<warned, acked, mixed>>
    <3>0. Formed(jobs[j]) /\ jobs[j].action # "drop" /\ Made(it) /\ Alike(it, jobs[j])
          /\ it.at = jobs[j].at
      BY <2>1, <2>3, GoesOnAlone, TakenIsMade DEF Formed
    <3>. HIDE DEF it
    <3>1. CASE mixed \/ dialog = Nothing
      BY <1>18, <2>1, <2>3, <3>0, <3>1
    <3>2. CASE ~mixed /\ dialog # Nothing
      <4>1. Alone(j, jobs[j], conflictPath)
        BY <2>1, <2>3, <3>2, GoesOnAlone
      <4>2. jobs[j].at = 0 /\ Shows(it)
        BY <2>1, <3>0, <3>2, <4>1 DEF Alone, ActingDone, Progress, Shows, Alike
      <4>3. completed \subseteq acked'
        BY <2>3, <3>0, <3>2, <4>2 DEF ActingDone, Shows, Alike
      <4>. QED
        BY <2>3, <3>0, <3>2, <4>1, <4>2, <4>3, GoOnCompletes DEF Alone, Alike
    <3>. QED
      BY <3>1, <3>2
  <2>. QED
    BY <1>14, <2>2, <2>3 DEF Acting!Listed, Acting!refs, Acting!ghosts
<1>15. ASSUME NEW j \in Mutations, Acting!Done(j) PROVE Goal
  <2> DEFINE job == jobs[j]
             src == Acting!Source(job)
  <2>1. /\ j \in Acting!Running /\ job # Nothing /\ job.phase = "item"
        /\ UNCHANGED <<mixed, warned>>
        /\ acked' = IF job.observed /\ ~mixed THEN acked \cup {src} ELSE acked
    BY <1>15 DEF Acting!Done, Acting!Running
  <2>2. Formed(job) /\ (~mixed => Alone(j, job, conflictPath))
    BY <2>1, GoesOnAlone
  <2>3. CASE mixed \/ dialog = Nothing
    BY <1>15, <1>18, <1>19, <2>1, <2>2, <2>3 DEF Acting!Done, Formed
  <2>4. CASE ~mixed /\ dialog # Nothing
    <3>1. /\ Acting!Running \subseteq {j} /\ Shows(job) /\ job.observed
          /\ Progress(job) /\ acked' = acked \cup {src} /\ src = job.entries[job.at].path
      BY <2>1, <2>2, <2>4 DEF Alone, ActingDone, Acting!Source
    <3>2. job.entries \in Seq(Acting!Entries) /\ job.at \in 1 .. Len(job.entries)
      BY <2>1, <2>2, <3>1, ActingAssumption DEF Formed, Made, Progress
    <3>3. CASE job.action = "drop"
      <4>1. Len(job.entries) = 1 /\ job.at = 1
        BY <2>2, <2>4, <3>1, <3>3 DEF ActingDone, Shows, Formed
      <4>2. \A e \in ToSet(dialog.entries) : e.path \in acked'
        BY <3>1, <3>2, <4>1 DEF ToSet, Shows
      <4>3. Acting!Succeed(job, [jobs EXCEPT ![j] = Nothing], conflictPath, copyPlan)
        BY <1>15, <3>3 DEF Acting!Done
      <4>4. dialog' = Nothing
        BY <2>4, <3>1, <3>3, <4>3 DEF Acting!Succeed, Acting!Shown, Shows
      <4>. QED
        BY <4>2, <4>4 DEF ActingDone
    <3>4. CASE job.action # "drop"
      <4>1. Acting!GoOn(j, job, completed \cup {src}, Nothing, copyPlan)
        BY <1>15, <3>4 DEF Acting!Done
      <4>2. completed \cup {src} \subseteq acked'
        BY <2>4, <3>1, <3>4 DEF ActingDone, Shows
      <4>3. \A l \in 1 .. job.at : job.entries[l].path \in completed \cup {src}
        BY <2>1, <3>1, <3>2, <3>4 DEF Progress
      <4>. HIDE DEF job, src
      <4>. QED
        BY <2>2, <2>4, <3>1, <3>4, <4>1, <4>2, <4>3, GoOnCompletes DEF Formed
    <3>. QED
      BY <3>3, <3>4
  <2>. QED
    BY <2>3, <2>4
<1>16. ASSUME NEW j \in Mutations, Acting!Failed(j) PROVE Goal
  BY <1>12, <1>16 DEF Acting!Failed
<1>. QED
  BY <1>3, <1>4, <1>5, <1>7, <1>8, <1>9, <1>10, <1>11, <1>13, <1>14, <1>15, <1>16 DEF Acting!Next

LEMMA DoneInit == PagesInit => ActingDone
  BY DEF PagesInit, Acting!Init, ActingDone

\* The dialog of an action closes by itself only when each of its entries was
\* carried out, however often the action was stopped by conflicts and errors and
\* taken up again (PathActionDialog, and the dialog of a drop in FilesPage).
THEOREM ClosesWhenAllIsDone == PagesSpec => ClosesWhole
<1>1. ActingSound /\ ActingDone /\ [Acting!Next]_actingVars
        => ActingDone' /\ [Acting!ClosesComplete]_actingVars
  BY ClosesStep
<1>2. QED
  BY <1>1, PartSteps, ActingInit, ActingStep, DoneInit, PTL DEF PagesSpec, ClosesWhole

-----------------------------------------------------------------------------
(***************************************************************************)
(* The settings.                                                           *)
(***************************************************************************)

Busy(r) == puts[r] # Nothing

\* Sent now, a change makes what its user wants of the record, or is refused.
Fits(input, want) ==
  LET next == Settings!Applied(stored, input) IN
  Settings!Given(input.labels, {}) \subseteq next.favorites => want = next

\* What is known of each change under way, and of the reading.
ChangesSound ==
  /\ stored.labels \subseteq stored.favorites
  /\ where = "settings" /\ settings # Nothing => form \in [theme : Settings!Themes, rest : Rests]
  /\ \A r \in 1 .. MaxPuts : Busy(r) =>
       /\ puts[r].stage \in {"read", "written"} => puts[r].base \in Settings!Records
       /\ puts[r].stage = "read" => puts[r].base.labels \subseteq puts[r].base.favorites
       /\ puts[r].by = "gone" => apart
       /\ puts[r].by = "theme" =>
            /\ puts[r].input.theme # Nothing /\ puts[r].input.labels = Nothing
            /\ puts[r].stage # "refused"
            /\ puts[r].stage = "written" => puts[r].base.theme = puts[r].input.theme
  /\ get # Nothing /\ get.clean =>
       /\ \A r \in 1 .. MaxPuts : ~Busy(r)
       /\ get.answer = Nothing \/ get.answer = stored

\* While nothing kept page and server apart, at most one change is under way,
\* and record and cache are the wanted ones up to that change.
OneChange ==
  ~apart =>
    /\ get # Nothing => get.clean
    /\ (\A r \in 1 .. MaxPuts : ~Busy(r)) => stored = wanted /\ settings = stored
    /\ \A r \in 1 .. MaxPuts : Busy(r) =>
         /\ \A q \in 1 .. MaxPuts : Busy(q) => q = r
         /\ get = Nothing /\ stored = wanted
         /\ puts[r].stage # "written" => settings = stored /\ Fits(puts[r].input, puts[r].want)
         /\ puts[r].stage \in {"read", "written"} => puts[r].base = stored

\* The theme that is shown is the record's, or the one that is being stored.
ThemeShown ==
  ~together =>
    /\ settings # Nothing /\ (\A r \in 1 .. MaxPuts : Busy(r) => puts[r].by # "theme")
         => preference = settings.theme
    /\ \A r \in 1 .. MaxPuts : Busy(r) =>
         /\ \A q \in 1 .. MaxPuts : Busy(q) => q = r
         /\ get = Nothing
         /\ puts[r].by = "theme" =>
              preference = puts[r].input.theme /\ puts[r].previous = settings.theme

SettingsSound == ChangesSound /\ OneChange /\ ThemeShown

\* The same changes are under way, whoever watches them.
SameChanges(p, f) ==
  /\ f \in [1 .. MaxPuts -> Settings!Puts \cup {Nothing}]
  /\ \A r \in 1 .. MaxPuts :
       /\ f[r] = Nothing <=> p[r] = Nothing
       /\ p[r] # Nothing =>
            /\ f[r].by = p[r].by /\ f[r].input = p[r].input /\ f[r].want = p[r].want
            /\ f[r].base = p[r].base /\ f[r].stage = p[r].stage
            /\ f[r].previous = p[r].previous

\* A component that goes away only stops watching.
LEMMA ForgetIsTyped ==
  ASSUME NEW p \in [1 .. MaxPuts -> Settings!Puts \cup {Nothing}], NEW by \in {"save", "star", "bar"}
  PROVE  SameChanges(p, Settings!Forget(p, by))
<1>1. DOMAIN p = 1 .. MaxPuts
  OBVIOUS
<1>2. Settings!Forget(p, by) = [r \in 1 .. MaxPuts |->
        IF p[r] # Nothing /\ p[r].by = by THEN [p[r] EXCEPT !.watched = FALSE] ELSE p[r]]
  BY <1>1 DEF Settings!Forget
<1>3. ASSUME NEW r \in 1 .. MaxPuts, p[r] # Nothing
      PROVE  /\ [p[r] EXCEPT !.watched = FALSE] \in Settings!Puts
             /\ [p[r] EXCEPT !.watched = FALSE] # Nothing
  <2>1. p[r] \in Settings!Puts
    BY <1>3
  <2>2. [p[r] EXCEPT !.watched = FALSE] \in Settings!Puts
    BY <2>1 DEF Settings!Puts
  <2>3. QED
    BY <2>2, SettingsAssumption
<1>4. \A r \in 1 .. MaxPuts : p[r] # Nothing => p[r] \in Settings!Puts
  OBVIOUS
<1>5. QED
  BY <1>2, <1>3, <1>4 DEF Settings!Puts, SameChanges

\* A record that enters the cache.
LEMMA EnterIsTyped ==
  ASSUME Settings!SettingsTypeOK, NEW s \in Settings!Records,
         NEW p \in [1 .. MaxPuts -> Settings!Puts \cup {Nothing}], Settings!Enter(s, p)
  PROVE  /\ settings' = s /\ unread' = FALSE
         /\ form' \in [theme : Settings!Themes, rest : Rests] \cup {Nothing}
         /\ form' = IF s # settings /\ where = "settings" THEN Settings!FormOf(s) ELSE form
         /\ Settings!FormOf(s) \in [theme : Settings!Themes, rest : Rests]
         /\ SameChanges(p, puts')
<1>1. Settings!FormOf(s) \in [theme : Settings!Themes, rest : Rests]
  BY DEF Settings!FormOf, Settings!Records
<1>2. puts' = p \/ puts' = Settings!Forget(p, "bar")
  BY DEF Settings!Enter
<1>3. /\ settings' = s /\ unread' = FALSE
      /\ form' = IF s # settings /\ where = "settings" THEN Settings!FormOf(s) ELSE form
  BY DEF Settings!Enter
<1>4. form' \in [theme : Settings!Themes, rest : Rests] \cup {Nothing}
  BY <1>1, <1>3 DEF Settings!SettingsTypeOK
<1>5. SameChanges(p, p)
  BY DEF SameChanges
<1>6. SameChanges(p, Settings!Forget(p, "bar"))
  BY ForgetIsTyped
<1>7. SameChanges(p, puts')
  BY <1>2, <1>5, <1>6
<1>8. QED
  BY <1>1, <1>3, <1>4, <1>7

\* What the server makes of a record.
LEMMA AppliedIsTyped ==
  ASSUME NEW base \in Settings!Records, NEW input \in Settings!Inputs
  PROVE  /\ Settings!Applied(base, input) \in Settings!Records
         /\ Settings!Applied(base, input).labels \subseteq Settings!Applied(base, input).favorites
         /\ input.theme # Nothing => Settings!Applied(base, input).theme = input.theme
  BY DEF Settings!Applied, Settings!Given, Settings!Records, Settings!Inputs

\* A change that is sent.
LEMMA StartIsTyped ==
  ASSUME Settings!SettingsTypeOK, NEW by \in {"theme", "save", "star", "bar"},
         NEW input \in Settings!Inputs, NEW want \in Settings!Records,
         Settings!Start(by, input, want)
  PROVE  \E r \in 1 .. MaxPuts :
           /\ puts[r] = Nothing /\ settings # Nothing
           /\ puts' \in [1 .. MaxPuts -> Settings!Puts \cup {Nothing}]
           /\ \A q \in 1 .. MaxPuts : q # r => puts'[q] = puts[q]
           /\ puts'[r] # Nothing /\ puts'[r].by = by /\ puts'[r].input = input
           /\ puts'[r].want = want /\ puts'[r].stage = "sent" /\ puts'[r].previous = preference
           /\ get' \in [answer : Settings!Records \cup {Nothing}, clean : BOOLEAN] \cup {Nothing}
           /\ get = Nothing => get' = Nothing
           /\ get # Nothing => ~get'.clean /\ get'.answer = get.answer
           /\ apart' = ((\E q \in 1 .. MaxPuts : Busy(q)) \/ get # Nothing \/ apart)
           /\ together' = (together \/ apart')
           /\ UNCHANGED <<stored, settings, unread, where, chosen, wanted>>
<1>1. DOMAIN puts = 1 .. MaxPuts
  BY DEF Settings!SettingsTypeOK
<1>2. PICK r \in DOMAIN puts \ Settings!UnderWay :
        /\ settings # Nothing
        /\ puts' = [puts EXCEPT ![r] = [by |-> by, input |-> input, want |-> want, base |-> Nothing,
             stage |-> "sent", watched |-> TRUE, previous |-> preference]]
        /\ get' = IF get = Nothing THEN Nothing ELSE [get EXCEPT !.clean = FALSE]
        /\ apart' = (Settings!UnderWay # {} \/ get # Nothing \/ apart)
        /\ together' = (together \/ (Settings!UnderWay # {} \/ get # Nothing \/ apart))
        /\ UNCHANGED <<stored, settings, unread, where, chosen, wanted>>
  BY DEF Settings!Start, Settings!place
<1>9. r \in 1 .. MaxPuts /\ puts[r] = Nothing
  BY <1>1 DEF Settings!UnderWay
<1>3. [by |-> by, input |-> input, want |-> want, base |-> Nothing,
       stage |-> "sent", watched |-> TRUE, previous |-> preference] \in Settings!Puts
  BY DEF Settings!Puts, Settings!SettingsTypeOK
<1>4. Settings!UnderWay # {} <=> \E q \in 1 .. MaxPuts : Busy(q)
  BY <1>1 DEF Settings!UnderWay, Busy
<1>5. puts \in [1 .. MaxPuts -> Settings!Puts \cup {Nothing}]
  BY DEF Settings!SettingsTypeOK
<1>6. get' \in [answer : Settings!Records \cup {Nothing}, clean : BOOLEAN] \cup {Nothing}
      /\ (get # Nothing => ~get'.clean /\ get'.answer = get.answer)
  BY <1>2 DEF Settings!SettingsTypeOK
<1>7. /\ puts' \in [1 .. MaxPuts -> Settings!Puts \cup {Nothing}]
      /\ \A q \in 1 .. MaxPuts : q # r => puts'[q] = puts[q]
      /\ puts'[r] # Nothing /\ puts'[r].by = by /\ puts'[r].input = input
      /\ puts'[r].want = want /\ puts'[r].stage = "sent" /\ puts'[r].previous = preference
  BY <1>2, <1>3, <1>5, <1>9, SettingsAssumption
<1>8. QED
  BY <1>2, <1>4, <1>6, <1>7, <1>9

\* A change that was begun asks for what its user expects of the cached record.
Sends ==
  \E by \in {"theme", "save", "star", "bar"}, input \in Settings!Inputs, want \in Settings!Records :
    /\ Settings!Start(by, input, want)
    /\ settings = stored => Fits(input, want)
    /\ IF by = "theme"
       THEN /\ input.theme # Nothing /\ input.labels = Nothing
            /\ preference' = input.theme /\ preference' \in Settings!Themes
       ELSE preference' = preference
    /\ UNCHANGED <<form, menu, editing>>

LEMMA EditedRecord ==
  ASSUME NEW s \in Settings!Records, NEW x \in Settings!Themes, NEW y \in Rests
  PROVE  [s EXCEPT !.theme = x, !.rest = y]
           = [theme |-> x, rest |-> y, favorites |-> s.favorites, labels |-> s.labels]
<1> DEFINE e == [s EXCEPT !.theme = x, !.rest = y]
<1>1. e \in Settings!Records /\ e.theme = x /\ e.rest = y
      /\ e.favorites = s.favorites /\ e.labels = s.labels
  BY DEF Settings!Records
<1> HIDE DEF e
<1>2. e = [theme |-> x, rest |-> y, favorites |-> s.favorites, labels |-> s.labels]
  BY <1>1 DEF Settings!Records
<1>3. QED
  BY <1>2 DEF e

LEMMA WithIsTyped ==
  ASSUME NEW s \in Settings!Records, NEW F \in SUBSET Paths
  PROVE  /\ Settings!With(s, F) \in Settings!Records
         /\ Settings!With(s, F)
              = [theme |-> s.theme, rest |-> s.rest, favorites |-> F, labels |-> s.labels \cap F]
<1> DEFINE w == [s EXCEPT !.favorites = F, !.labels = s.labels \cap F]
<1>1. w \in Settings!Records /\ w.theme = s.theme /\ w.rest = s.rest
      /\ w.favorites = F /\ w.labels = s.labels \cap F
  BY DEF Settings!Records
<1>2. Settings!With(s, F) = w
  BY DEF Settings!With, Settings!Records
<1> HIDE DEF w
<1>3. w = [theme |-> s.theme, rest |-> s.rest, favorites |-> F, labels |-> s.labels \cap F]
  BY <1>1 DEF Settings!Records
<1>4. QED
  BY <1>1, <1>2, <1>3

LEMMA ToggleSends ==
  ASSUME Settings!SettingsTypeOK, ChangesSound, Settings!ToggleTheme
  PROVE  Sends
<1> DEFINE next == IF preference = "dark" \/ (preference = "system" /\ SystemDark)
                   THEN "light" ELSE "dark"
           input == [Settings!NoInput EXCEPT !.theme = next]
           want == [stored EXCEPT !.theme = next]
<1>1. next \in Settings!Themes /\ next # Nothing
  BY SettingsAssumption DEF Settings!Themes
<1>2. input \in Settings!Inputs /\ input.theme = next /\ input.labels = Nothing
      /\ input.rest = Nothing /\ input.favorites = Nothing
  BY <1>1 DEF Settings!Inputs, Settings!NoInput
<1>3. stored \in Settings!Records /\ want \in Settings!Records
  BY <1>1 DEF Settings!SettingsTypeOK, Settings!Records
<1>4. stored.labels \cap stored.favorites = stored.labels
  BY DEF ChangesSound
<1>5. Settings!Applied(stored, input)
        = [theme |-> next, rest |-> stored.rest, favorites |-> stored.favorites,
           labels |-> stored.labels \cap stored.favorites]
  BY <1>1, <1>2 DEF Settings!Applied, Settings!Given
<1>6. want = [theme |-> next, rest |-> stored.rest, favorites |-> stored.favorites,
              labels |-> stored.labels]
  BY <1>3 DEF Settings!Records
<1>7. Fits(input, want)
  BY <1>4, <1>5, <1>6 DEF Fits
<1>8. Settings!Start("theme", input, want) /\ preference' = next /\ UNCHANGED <<form, menu, editing>>
  BY DEF Settings!ToggleTheme, Settings!nav
<1> HIDE DEF next, input, want
<1>9. QED
  BY <1>1, <1>2, <1>3, <1>7, <1>8 DEF Sends

LEMMA SaveSends ==
  ASSUME Settings!SettingsTypeOK, ChangesSound, Settings!Save
  PROVE  Sends
<1> DEFINE input == [Settings!NoInput EXCEPT !.theme = form.theme, !.rest = form.rest]
           want == [stored EXCEPT !.theme = form.theme, !.rest = form.rest]
<1>1. form \in [theme : Settings!Themes, rest : Rests]
  BY DEF Settings!Save, Settings!FormShown, ChangesSound
<1>2. /\ form.theme # Nothing /\ form.rest # Nothing
      /\ form.theme \in Settings!Themes /\ form.rest \in Rests
  BY <1>1, SettingsAssumption
<1>3. input \in Settings!Inputs /\ input.theme = form.theme /\ input.labels = Nothing
      /\ input.rest = form.rest /\ input.favorites = Nothing
  BY <1>2 DEF Settings!Inputs, Settings!NoInput
<1>4. stored \in Settings!Records /\ want \in Settings!Records
  BY <1>2 DEF Settings!SettingsTypeOK, Settings!Records
<1>5. stored.labels \cap stored.favorites = stored.labels
  BY DEF ChangesSound
<1>6. Settings!Applied(stored, input)
        = [theme |-> form.theme, rest |-> form.rest, favorites |-> stored.favorites,
           labels |-> stored.labels \cap stored.favorites]
  BY <1>2, <1>3 DEF Settings!Applied, Settings!Given
<1>7. want = [theme |-> form.theme, rest |-> form.rest, favorites |-> stored.favorites,
              labels |-> stored.labels]
  BY <1>2, <1>4, EditedRecord
<1>8. Fits(input, want)
  BY <1>5, <1>6, <1>7 DEF Fits
<1>9. Settings!Start("save", input, want) /\ UNCHANGED <<preference, form, menu, editing>>
  BY DEF Settings!Save, Settings!nav
<1> HIDE DEF input, want
<1>10. QED
  BY <1>3, <1>4, <1>8, <1>9 DEF Sends

\* A list of favourites is sent whole.
LEMMA FavoritesFit ==
  ASSUME Settings!SettingsTypeOK, NEW F \in SUBSET Paths, NEW G \in SUBSET Paths
  PROVE  /\ [Settings!NoInput EXCEPT !.favorites = F] \in Settings!Inputs
         /\ Settings!With(stored, G) \in Settings!Records
         /\ F = G => Fits([Settings!NoInput EXCEPT !.favorites = F], Settings!With(stored, G))
<1> DEFINE input == [Settings!NoInput EXCEPT !.favorites = F]
           want == Settings!With(stored, G)
<1>1. F # Nothing
  BY SettingsAssumption
<1>2. input \in Settings!Inputs /\ input.theme = Nothing /\ input.labels = Nothing
      /\ input.rest = Nothing /\ input.favorites = F
  BY DEF Settings!Inputs, Settings!NoInput
<1>3. stored \in Settings!Records
  BY DEF Settings!SettingsTypeOK
<1>4. want = [theme |-> stored.theme, rest |-> stored.rest, favorites |-> G,
              labels |-> stored.labels \cap G]
  BY <1>3, WithIsTyped
<1>7. want \in Settings!Records
  BY <1>3, WithIsTyped
<1>5. Settings!Applied(stored, input)
        = [theme |-> stored.theme, rest |-> stored.rest, favorites |-> F,
           labels |-> stored.labels \cap F]
  BY <1>1, <1>2 DEF Settings!Applied, Settings!Given
<1>6. QED
  BY <1>2, <1>4, <1>5, <1>7 DEF Fits

LEMMA StarSends ==
  ASSUME Settings!SettingsTypeOK, ChangesSound, NEW p \in Paths, Settings!Star(p)
  PROVE  Sends
<1> DEFINE F == Settings!Toggled(settings.favorites, p)
           G == Settings!Toggled(stored.favorites, p)
<1>1. settings \in Settings!Records /\ stored \in Settings!Records
  BY DEF Settings!Star, Settings!SettingsTypeOK
<1>2. F \in SUBSET Paths /\ G \in SUBSET Paths
  BY <1>1 DEF Settings!Toggled, Settings!Records
<1>3. settings = stored => F = G
  OBVIOUS
<1>4. Settings!Start("star", [Settings!NoInput EXCEPT !.favorites = F], Settings!With(stored, G))
      /\ UNCHANGED <<preference, form, menu, editing>>
  BY DEF Settings!Star, Settings!nav
<1> HIDE DEF F, G
<1>5. QED
  BY <1>2, <1>3, <1>4, FavoritesFit DEF Sends

LEMMA RemoveSends ==
  ASSUME Settings!SettingsTypeOK, ChangesSound, Settings!RemoveFavorite
  PROVE  Sends
<1> DEFINE F == settings.favorites \ {menu}
           G == stored.favorites \ {menu}
<1>0. settings # Nothing
  BY DEF Settings!RemoveFavorite, Settings!Start
<1>1. settings \in Settings!Records /\ stored \in Settings!Records
  BY <1>0 DEF Settings!SettingsTypeOK
<1>2. F \in SUBSET Paths /\ G \in SUBSET Paths
  BY <1>1 DEF Settings!Records
<1>3. settings = stored => F = G
  OBVIOUS
<1>4. Settings!Start("bar", [Settings!NoInput EXCEPT !.favorites = F], Settings!With(stored, G))
      /\ UNCHANGED <<preference, form, menu, editing>>
  BY DEF Settings!RemoveFavorite, Settings!nav
<1> HIDE DEF F, G
<1>5. QED
  BY <1>2, <1>3, <1>4, FavoritesFit DEF Sends

LEMMA LabelSends ==
  ASSUME Settings!SettingsTypeOK, ChangesSound, Settings!SaveLabel
  PROVE  Sends
<1> DEFINE L == Settings!Labelled(settings.labels)
           M == Settings!Labelled(stored.labels)
           input == [Settings!NoInput EXCEPT !.labels = L]
           want == [stored EXCEPT !.labels = M]
<1>0. settings # Nothing
  BY DEF Settings!SaveLabel, Settings!Start
<1>1. settings \in Settings!Records /\ stored \in Settings!Records
      /\ editing \in [path : Paths, label : BOOLEAN]
  BY <1>0 DEF Settings!SettingsTypeOK, Settings!SaveLabel
<1>2. L \in SUBSET Paths /\ M \in SUBSET Paths
  BY <1>1 DEF Settings!Records, Settings!Labelled
<1>3. settings = stored => L = M
  OBVIOUS
<1>4. Settings!Start("bar", input, want) /\ UNCHANGED <<preference, form, menu, editing>>
  BY DEF Settings!SaveLabel, Settings!nav
<1> HIDE DEF L, M
<1>5. L # Nothing
  BY <1>2, SettingsAssumption
<1>6. input \in Settings!Inputs /\ input.theme = Nothing /\ input.labels = L
      /\ input.rest = Nothing /\ input.favorites = Nothing
  BY <1>2 DEF Settings!Inputs, Settings!NoInput
<1>7. want \in Settings!Records
      /\ want = [theme |-> stored.theme, rest |-> stored.rest, favorites |-> stored.favorites,
                 labels |-> M]
  BY <1>1, <1>2 DEF Settings!Records
<1>8. Settings!Applied(stored, input)
        = [theme |-> stored.theme, rest |-> stored.rest, favorites |-> stored.favorites,
           labels |-> L \cap stored.favorites]
  BY <1>5, <1>6 DEF Settings!Applied, Settings!Given
<1>9. L = M => Fits(input, want)
  <2> SUFFICES ASSUME L = M, L \subseteq stored.favorites
               PROVE  want = Settings!Applied(stored, input)
    BY <1>5, <1>6, <1>8 DEF Fits, Settings!Given
  <2>1. L \cap stored.favorites = M
    OBVIOUS
  <2>2. QED
    BY <1>7, <1>8, <2>1
<1> HIDE DEF input, want
<1>10. QED
  BY <1>3, <1>4, <1>6, <1>7, <1>9 DEF Sends

\* Readings only touch the reading and the flags.
LEMMA ReadingIsTyped ==
  ASSUME Settings!SettingsTypeOK, NEW again \in BOOLEAN, Settings!Reading(again)
  PROVE  /\ get' \in [answer : Settings!Records \cup {Nothing}, clean : BOOLEAN]
         /\ \/ get' = get /\ get # Nothing
            \/ get'.answer = Nothing /\ (get'.clean <=> \A r \in 1 .. MaxPuts : ~Busy(r))
         /\ apart' = (apart \/ \E r \in 1 .. MaxPuts : Busy(r))
         /\ together' = (together \/ \E r \in 1 .. MaxPuts : Busy(r))
<1>1. DOMAIN puts = 1 .. MaxPuts
  BY DEF Settings!SettingsTypeOK
<1>2. Settings!UnderWay = {} <=> \A r \in 1 .. MaxPuts : ~Busy(r)
  BY <1>1 DEF Settings!UnderWay, Busy
<1>3. QED
  BY <1>2 DEF Settings!Reading, Settings!SettingsTypeOK

\* The server's second transaction.
LEMMA WriteIsTyped ==
  ASSUME Settings!SettingsTypeOK, ChangesSound, NEW r \in 1 .. MaxPuts, Settings!WriteRecord(r)
  PROVE  LET new == Settings!Applied(puts[r].base, puts[r].input)
             refused == ~(Settings!Given(puts[r].input.labels, {}) \subseteq new.favorites)
         IN
         /\ puts[r] # Nothing /\ puts[r].stage = "read" /\ puts[r].base \in Settings!Records
         /\ new \in Settings!Records /\ new.labels \subseteq new.favorites
         /\ puts[r].input.theme # Nothing => new.theme = puts[r].input.theme
         /\ puts[r].input.labels = Nothing => ~refused
         /\ stored' = IF refused THEN stored ELSE new
         /\ wanted' = IF refused THEN wanted ELSE puts[r].want
         /\ puts[r].want \in Settings!Records
         /\ puts' \in [1 .. MaxPuts -> Settings!Puts \cup {Nothing}]
         /\ \A q \in 1 .. MaxPuts : q # r => puts'[q] = puts[q]
         /\ puts[r].by = "gone" => puts'[r] = Nothing
         /\ puts[r].by # "gone" =>
              /\ puts'[r] # Nothing /\ puts'[r].by = puts[r].by /\ puts'[r].input = puts[r].input
              /\ puts'[r].want = puts[r].want /\ puts'[r].previous = puts[r].previous
              /\ puts'[r].stage = IF refused THEN "refused" ELSE "written"
              /\ puts'[r].base = new
         /\ UNCHANGED <<settings, unread, preference, form, get, where, chosen, menu, editing,
                        apart, together>>
<1> DEFINE new == Settings!Applied(puts[r].base, puts[r].input)
           refused == ~(Settings!Given(puts[r].input.labels, {}) \subseteq new.favorites)
           how == IF refused THEN "refused" ELSE "written"
           it == [puts[r] EXCEPT !.stage = how, !.base = new]
<1>1. /\ puts[r] # Nothing /\ puts[r].stage = "read"
      /\ stored' = IF refused THEN stored ELSE new
      /\ wanted' = IF refused THEN wanted ELSE puts[r].want
      /\ puts' = [puts EXCEPT ![r] = IF puts[r].by = "gone" THEN Nothing ELSE it]
      /\ UNCHANGED <<settings, unread, preference, form, get, where, chosen, menu, editing,
                     apart, together>>
  BY DEF Settings!WriteRecord, Settings!page, Settings!place, Settings!nav
<1>2. puts[r] \in Settings!Puts /\ puts[r].base \in Settings!Records
      /\ puts \in [1 .. MaxPuts -> Settings!Puts \cup {Nothing}]
  BY <1>1 DEF Settings!SettingsTypeOK, ChangesSound, Busy
<1>3. puts[r].input \in Settings!Inputs /\ puts[r].want \in Settings!Records
  BY <1>2 DEF Settings!Puts
<1>4. new \in Settings!Records /\ new.labels \subseteq new.favorites
      /\ (puts[r].input.theme # Nothing => new.theme = puts[r].input.theme)
  BY <1>2, <1>3, AppliedIsTyped
<1>5. puts[r].input.labels = Nothing => ~refused
  BY DEF Settings!Given
<1> HIDE DEF new, refused
<1>6. how \in {"refused", "written"}
  OBVIOUS
<1>7. it \in Settings!Puts /\ it.by = puts[r].by /\ it.input = puts[r].input
      /\ it.want = puts[r].want /\ it.previous = puts[r].previous /\ it.stage = how
      /\ it.base = new
  BY <1>2, <1>4, <1>6 DEF Settings!Puts
<1>8. it # Nothing
  BY <1>7, SettingsAssumption
<1> HIDE DEF it
<1>9. /\ puts' \in [1 .. MaxPuts -> Settings!Puts \cup {Nothing}]
      /\ \A q \in 1 .. MaxPuts : q # r => puts'[q] = puts[q]
      /\ puts'[r] = IF puts[r].by = "gone" THEN Nothing ELSE it
  BY <1>1, <1>2, <1>7
<1>10. QED
  BY <1>1, <1>2, <1>3, <1>4, <1>5, <1>7, <1>8, <1>9 DEF new, refused

\* The answer reaches the page.
LEMMA SucceedIsTyped ==
  ASSUME Settings!SettingsTypeOK, ChangesSound, NEW r \in 1 .. MaxPuts, Settings!Succeed(r)
  PROVE  /\ puts[r] # Nothing /\ puts[r].stage = "written" /\ puts[r].base \in Settings!Records
         /\ settings' = puts[r].base /\ unread' = FALSE
         /\ form' \in [theme : Settings!Themes, rest : Rests] \cup {Nothing}
         /\ form' = IF puts[r].base # settings /\ where = "settings"
                    THEN Settings!FormOf(puts[r].base) ELSE form
         /\ Settings!FormOf(puts[r].base) \in [theme : Settings!Themes, rest : Rests]
         /\ puts'[r] = Nothing
         /\ SameChanges([puts EXCEPT ![r] = Nothing], puts')
         /\ preference' = IF puts[r].by = "save" THEN puts[r].base.theme
                          ELSE Settings!Shown(puts[r].base)
         /\ preference' \in Settings!Themes
         /\ menu' \in Paths \cup {Nothing}
         /\ editing' \in [path : Paths, label : BOOLEAN] \cup {Nothing}
         /\ UNCHANGED <<stored, get, where, chosen, wanted, apart, together>>
<1> DEFINE p == [puts EXCEPT ![r] = Nothing]
<1>1. puts[r] # Nothing /\ puts[r].stage = "written" /\ puts[r].base \in Settings!Records
  BY DEF Settings!Succeed, ChangesSound, Busy
<1>2. p \in [1 .. MaxPuts -> Settings!Puts \cup {Nothing}] /\ p[r] = Nothing
  BY DEF Settings!SettingsTypeOK
<1>3. Settings!Enter(puts[r].base, p)
  BY DEF Settings!Succeed
<1>4. /\ preference' = IF puts[r].by = "save" THEN puts[r].base.theme
                       ELSE Settings!Shown(puts[r].base)
      /\ UNCHANGED <<stored, get, where, chosen, wanted, apart, together>>
  BY DEF Settings!Succeed, Settings!place, Settings!ghosts
<1>5. /\ menu' \in Paths \cup {Nothing}
      /\ editing' \in [path : Paths, label : BOOLEAN] \cup {Nothing}
  BY DEF Settings!Succeed, Settings!SettingsTypeOK, Settings!nav
<1>6. preference' \in Settings!Themes
  BY <1>1, <1>4 DEF Settings!Shown, Settings!Records, Settings!SettingsTypeOK
<1> HIDE DEF p
<1>7. /\ settings' = puts[r].base /\ unread' = FALSE
      /\ form' \in [theme : Settings!Themes, rest : Rests] \cup {Nothing}
      /\ form' = IF puts[r].base # settings /\ where = "settings"
                 THEN Settings!FormOf(puts[r].base) ELSE form
      /\ Settings!FormOf(puts[r].base) \in [theme : Settings!Themes, rest : Rests]
      /\ SameChanges(p, puts')
  BY <1>1, <1>2, <1>3, EnterIsTyped
<1>8. puts'[r] = Nothing
  BY <1>2, <1>7 DEF SameChanges
<1>9. QED
  BY <1>1, <1>4, <1>5, <1>6, <1>7, <1>8 DEF p

\* The answer does not.
LEMMA FailsIsTyped ==
  ASSUME Settings!SettingsTypeOK, NEW r \in 1 .. MaxPuts, Settings!Fails(r)
  PROVE  /\ puts[r] # Nothing
         /\ puts' \in [1 .. MaxPuts -> Settings!Puts \cup {Nothing}]
         /\ \A q \in 1 .. MaxPuts : q # r => puts'[q] = puts[q]
         /\ \/ puts[r].stage \in {"sent", "refused"} /\ puts'[r] = Nothing /\ apart' = apart
            \/ /\ puts'[r] # Nothing =>
                    /\ puts'[r].by = "gone" /\ puts'[r].stage = puts[r].stage
                    /\ puts'[r].base = puts[r].base
               /\ apart'
         /\ preference' = IF puts[r].by = "theme" THEN puts[r].previous ELSE preference
         /\ preference' \in Settings!Themes /\ apart' \in BOOLEAN
         /\ UNCHANGED <<stored, settings, unread, form, get, where, chosen, menu, editing,
                        wanted, together>>
<1> DEFINE it == [puts[r] EXCEPT !.by = "gone"]
<1>1. puts[r] # Nothing /\ puts[r] \in Settings!Puts
      /\ puts \in [1 .. MaxPuts -> Settings!Puts \cup {Nothing}]
  BY DEF Settings!Fails, Settings!SettingsTypeOK
<1>2. it \in Settings!Puts /\ it.by = "gone" /\ it.stage = puts[r].stage /\ it.base = puts[r].base
  BY <1>1 DEF Settings!Puts
<1>3. /\ \/ /\ puts[r].stage \in {"sent", "refused"}
            /\ puts' = [puts EXCEPT ![r] = Nothing] /\ apart' = apart
         \/ /\ puts' = [puts EXCEPT ![r] = IF puts[r].stage = "written" THEN Nothing ELSE it]
            /\ apart' = TRUE
      /\ preference' = IF puts[r].by = "theme" THEN puts[r].previous ELSE preference
      /\ UNCHANGED <<stored, settings, unread, form, get, where, chosen, menu, editing,
                     wanted, together>>
  BY DEF Settings!Fails, Settings!place, Settings!nav
<1>4. preference' \in Settings!Themes
  BY <1>1, <1>3 DEF Settings!SettingsTypeOK, Settings!Puts
<1> HIDE DEF it
<1>5. QED
  BY <1>1, <1>2, <1>3, <1>4 DEF Settings!SettingsTypeOK

LEMMA SettingsTypeStep ==
  Settings!SettingsTypeOK /\ ChangesSound /\ [Settings!SettingsNext]_settingsVars
    => Settings!SettingsTypeOK'
<1> SUFFICES ASSUME Settings!SettingsTypeOK, ChangesSound, [Settings!SettingsNext]_settingsVars
             PROVE  Settings!SettingsTypeOK'
  OBVIOUS
<1> USE DEF Settings!SettingsTypeOK, Settings!page, Settings!place, Settings!nav, Settings!ghosts
<1>1. CASE Settings!Refresh
  BY <1>1, ReadingIsTyped DEF Settings!Refresh
<1>2. ASSUME NEW there \in {"files", "settings"}, Settings!Visit(there)
      PROVE  Settings!SettingsTypeOK'
  <2>1. form' \in [theme : Settings!Themes, rest : Rests] \cup {Nothing}
    BY <1>2 DEF Settings!Visit, Settings!FormOf, Settings!Records
  <2>2. puts' \in [1 .. MaxPuts -> Settings!Puts \cup {Nothing}]
    <3>1. Settings!Forget(puts, "save") \in [1 .. MaxPuts -> Settings!Puts \cup {Nothing}]
      BY ForgetIsTyped DEF SameChanges
    <3>2. QED
      BY <1>2, <3>1, ForgetIsTyped DEF SameChanges, Settings!Visit
  <2>3. get' \in [answer : Settings!Records \cup {Nothing}, clean : BOOLEAN] \cup {Nothing}
        /\ {apart', together'} \subseteq BOOLEAN
    BY <1>2, ReadingIsTyped DEF Settings!Visit
  <2>4. QED
    BY <1>2, <2>1, <2>2, <2>3 DEF Settings!Visit
<1>3. ASSUME Sends PROVE Settings!SettingsTypeOK'
  <2>1. PICK by \in {"theme", "save", "star", "bar"}, input \in Settings!Inputs,
             want \in Settings!Records :
          /\ Settings!Start(by, input, want)
          /\ preference' \in Settings!Themes
          /\ UNCHANGED <<form, menu, editing>>
    BY <1>3 DEF Sends
  <2>2. /\ puts' \in [1 .. MaxPuts -> Settings!Puts \cup {Nothing}]
        /\ get' \in [answer : Settings!Records \cup {Nothing}, clean : BOOLEAN] \cup {Nothing}
        /\ apart' \in BOOLEAN /\ together' \in BOOLEAN
        /\ UNCHANGED <<stored, settings, unread, where, chosen, wanted>>
    BY <2>1, StartIsTyped
  <2>3. QED
    BY <2>1, <2>2
<1>4. ASSUME NEW theme \in Settings!Themes, NEW rest \in Rests, Settings!Edit(theme, rest)
      PROVE  Settings!SettingsTypeOK'
  BY <1>4 DEF Settings!Edit
<1>5. CASE Settings!OpenChooser
  BY <1>5 DEF Settings!OpenChooser, Settings!FormShown, ChangesSound
<1>6. ASSUME NEW rest \in Rests, Settings!Browse(rest) PROVE Settings!SettingsTypeOK'
  BY <1>6 DEF Settings!Browse
<1>7. CASE Settings!Select
  <2>1. form' \in [theme : Settings!Themes, rest : Rests]
    <3>1. form \in [theme : Settings!Themes, rest : Rests] /\ chosen \in Rests
      BY <1>7 DEF Settings!Select, Settings!FormShown, ChangesSound
    <3>2. QED
      BY <1>7, <3>1 DEF Settings!Select
  <2>2. QED
    BY <1>7, <2>1 DEF Settings!Select
<1>8. CASE Settings!CloseChooser
  BY <1>8 DEF Settings!CloseChooser
<1>9. ASSUME NEW p \in Paths, Settings!OpenMenu(p) PROVE Settings!SettingsTypeOK'
  BY <1>9 DEF Settings!OpenMenu
<1>10. CASE Settings!CloseBar
  BY <1>10 DEF Settings!CloseBar
<1>11. CASE Settings!EditLabel
  BY <1>11 DEF Settings!EditLabel
<1>12. CASE Settings!ClearLabel
  BY <1>12 DEF Settings!ClearLabel
<1>13. ASSUME NEW p \in Paths, Settings!Foreign(p) PROVE Settings!SettingsTypeOK'
  <2>1. Settings!Toggled(stored.favorites, p) \in SUBSET Paths
    BY DEF Settings!Toggled, Settings!Records
  <2>2. stored' \in Settings!Records
    BY <1>13, <2>1, WithIsTyped DEF Settings!Foreign
  <2>3. get' \in [answer : Settings!Records \cup {Nothing}, clean : BOOLEAN] \cup {Nothing}
    BY <1>13 DEF Settings!Foreign
  <2>4. QED
    BY <1>13, <2>2, <2>3 DEF Settings!Foreign
<1>14. CASE Settings!ServeGet
  <2>1. get' \in [answer : Settings!Records \cup {Nothing}, clean : BOOLEAN]
    BY <1>14 DEF Settings!ServeGet
  <2>2. QED
    BY <1>14, <2>1 DEF Settings!ServeGet
<1>15. CASE Settings!Got
  <2>1. get.answer \in Settings!Records /\ get.clean \in BOOLEAN
    BY <1>15 DEF Settings!Got
  <2>2. preference' \in Settings!Themes
    BY <1>15, <2>1 DEF Settings!Got, Settings!Shown, Settings!Records
  <2>3. /\ settings' = get.answer /\ unread' = FALSE
        /\ form' \in [theme : Settings!Themes, rest : Rests] \cup {Nothing}
        /\ puts' \in [1 .. MaxPuts -> Settings!Puts \cup {Nothing}]
    BY <1>15, <2>1, EnterIsTyped DEF Settings!Got, SameChanges
  <2>4. /\ get' = Nothing /\ UNCHANGED <<stored, where, chosen>>
        /\ {apart', together'} \subseteq BOOLEAN /\ wanted' \in Settings!Records
        /\ menu' \in Paths \cup {Nothing}
        /\ editing' \in [path : Paths, label : BOOLEAN] \cup {Nothing}
    BY <1>15, <2>1 DEF Settings!Got
  <2>5. QED
    BY <2>1, <2>2, <2>3, <2>4
<1>16. CASE Settings!GetFails
  BY <1>16 DEF Settings!GetFails
<1>17. ASSUME NEW r \in 1 .. MaxPuts, Settings!ReadRecord(r) PROVE Settings!SettingsTypeOK'
  <2>1. puts[r] \in Settings!Puts
    BY <1>17 DEF Settings!ReadRecord
  <2>2. [puts[r] EXCEPT !.stage = "read", !.base = stored] \in Settings!Puts
    BY <2>1 DEF Settings!Puts
  <2>3. QED
    BY <1>17, <2>2 DEF Settings!ReadRecord
<1>18. ASSUME NEW r \in 1 .. MaxPuts, Settings!WriteRecord(r) PROVE Settings!SettingsTypeOK'
  <2>1. /\ puts' \in [1 .. MaxPuts -> Settings!Puts \cup {Nothing}]
        /\ stored' \in Settings!Records /\ wanted' \in Settings!Records
        /\ UNCHANGED <<settings, unread, preference, form, get, where, chosen, menu, editing,
                       apart, together>>
    BY <1>18, WriteIsTyped
  <2>2. QED
    BY <2>1
<1>19. ASSUME NEW r \in 1 .. MaxPuts, Settings!Succeed(r) PROVE Settings!SettingsTypeOK'
  <2>1. /\ settings' \in Settings!Records /\ unread' = FALSE
        /\ form' \in [theme : Settings!Themes, rest : Rests] \cup {Nothing}
        /\ puts' \in [1 .. MaxPuts -> Settings!Puts \cup {Nothing}]
        /\ preference' \in Settings!Themes
        /\ menu' \in Paths \cup {Nothing}
        /\ editing' \in [path : Paths, label : BOOLEAN] \cup {Nothing}
        /\ UNCHANGED <<stored, get, where, chosen, wanted, apart, together>>
    BY <1>19, SucceedIsTyped DEF SameChanges
  <2>2. QED
    BY <2>1
<1>20. ASSUME NEW r \in 1 .. MaxPuts, Settings!Fails(r) PROVE Settings!SettingsTypeOK'
  BY <1>20, FailsIsTyped
<1>21. CASE UNCHANGED settingsVars  BY <1>21 DEF settingsVars
<1>22. QED
  BY <1>1, <1>2, <1>3, <1>4, <1>5, <1>6, <1>7, <1>8, <1>9, <1>10, <1>11, <1>12, <1>13, <1>14,
     <1>15, <1>16, <1>17, <1>18, <1>19, <1>20, <1>21, ToggleSends, SaveSends, StarSends,
     RemoveSends, LabelSends
     DEF Settings!SettingsNext, Settings!SettingsUser, Settings!SettingsOwn

\* A change that begins alone begins from the wanted record.
LEMMA SendsKeeps ==
  ASSUME Settings!SettingsTypeOK, SettingsSound, Sends
  PROVE  SettingsSound'
<1>1. PICK by \in {"theme", "save", "star", "bar"}, input \in Settings!Inputs,
           want \in Settings!Records :
        /\ Settings!Start(by, input, want)
        /\ settings = stored => Fits(input, want)
        /\ IF by = "theme"
           THEN /\ input.theme # Nothing /\ input.labels = Nothing /\ preference' = input.theme
           ELSE preference' = preference
        /\ UNCHANGED <<form, menu, editing>>
  BY DEF Sends
<1>2. PICK r \in 1 .. MaxPuts :
        /\ puts[r] = Nothing /\ settings # Nothing
        /\ \A q \in 1 .. MaxPuts : q # r => puts'[q] = puts[q]
        /\ puts'[r] # Nothing /\ puts'[r].by = by /\ puts'[r].input = input
        /\ puts'[r].want = want /\ puts'[r].stage = "sent" /\ puts'[r].previous = preference
        /\ get = Nothing => get' = Nothing
        /\ get # Nothing => ~get'.clean /\ get'.answer = get.answer
        /\ apart' = ((\E q \in 1 .. MaxPuts : Busy(q)) \/ get # Nothing \/ apart)
        /\ together' = (together \/ apart')
        /\ UNCHANGED <<stored, settings, unread, where, chosen, wanted>>
  BY <1>1, StartIsTyped
<1>3. \A i, w : Fits(i, w)' <=> Fits(i, w)
  BY <1>2 DEF Fits
<1>4. ChangesSound'
  BY <1>1, <1>2 DEF SettingsSound, ChangesSound, Busy
<1>5. OneChange'
  BY <1>1, <1>2, <1>3 DEF SettingsSound, OneChange, Busy
<1>6. ThemeShown'
  BY <1>1, <1>2 DEF SettingsSound, ThemeShown, Busy
<1>7. QED
  BY <1>4, <1>5, <1>6 DEF SettingsSound

\* A reading is clean while no change is under way.
LEMMA ReadingKeeps ==
  ASSUME Settings!SettingsTypeOK, SettingsSound, NEW again \in BOOLEAN, Settings!Reading(again),
         UNCHANGED <<stored, settings, preference, puts, wanted>>,
         where' = "settings" /\ settings # Nothing =>
           form' \in [theme : Settings!Themes, rest : Rests]
  PROVE  SettingsSound'
<1>1. \A i, w : Fits(i, w)' <=> Fits(i, w)
  BY DEF Fits
<1>2. ChangesSound'
  BY ReadingIsTyped DEF SettingsSound, ChangesSound, Busy
<1>3. OneChange'
  BY <1>1, ReadingIsTyped DEF SettingsSound, OneChange, Busy
<1>4. ThemeShown'
  BY ReadingIsTyped DEF SettingsSound, ThemeShown, Busy
<1>5. QED
  BY <1>2, <1>3, <1>4 DEF SettingsSound

\* Whoever watches a change, and whatever else is shown.
LEMMA SameChangesKeep ==
  ASSUME Settings!SettingsTypeOK, SettingsSound, SameChanges(puts, puts'),
         UNCHANGED <<stored, settings, preference, get, wanted, apart, together>>,
         where' = "settings" /\ settings # Nothing =>
           form' \in [theme : Settings!Themes, rest : Rests]
  PROVE  SettingsSound'
<1>1. \A i, w : Fits(i, w)' <=> Fits(i, w)
  BY DEF Fits
<1>2. ChangesSound'
  BY DEF SettingsSound, ChangesSound, Busy, SameChanges
<1>3. OneChange'
  BY <1>1 DEF SettingsSound, OneChange, Busy, SameChanges
<1>4. ThemeShown'
  BY DEF SettingsSound, ThemeShown, Busy, SameChanges
<1>5. QED
  BY <1>2, <1>3, <1>4 DEF SettingsSound

LEMMA WriteKeeps ==
  ASSUME Settings!SettingsTypeOK, SettingsSound, NEW r \in 1 .. MaxPuts, Settings!WriteRecord(r)
  PROVE  SettingsSound'
<1> DEFINE new == Settings!Applied(puts[r].base, puts[r].input)
           refused == ~(Settings!Given(puts[r].input.labels, {}) \subseteq new.favorites)
<1>1. /\ puts[r] # Nothing /\ puts[r].stage = "read" /\ puts[r].base \in Settings!Records
      /\ new \in Settings!Records /\ new.labels \subseteq new.favorites
      /\ puts[r].input.theme # Nothing => new.theme = puts[r].input.theme
      /\ puts[r].input.labels = Nothing => ~refused
      /\ stored' = IF refused THEN stored ELSE new
      /\ wanted' = IF refused THEN wanted ELSE puts[r].want
      /\ UNCHANGED <<settings, preference, form, get, where, apart, together>>
  BY WriteIsTyped DEF SettingsSound
<1>2. /\ \A q \in 1 .. MaxPuts : q # r => puts'[q] = puts[q]
      /\ puts[r].by = "gone" => puts'[r] = Nothing
      /\ puts[r].by # "gone" =>
           /\ puts'[r] # Nothing /\ puts'[r].by = puts[r].by /\ puts'[r].input = puts[r].input
           /\ puts'[r].want = puts[r].want /\ puts'[r].previous = puts[r].previous
           /\ puts'[r].stage = IF refused THEN "refused" ELSE "written"
           /\ puts'[r].base = new
  BY WriteIsTyped DEF SettingsSound
<1>3. ~apart =>
        /\ puts[r].by # "gone" /\ get = Nothing /\ stored = wanted /\ settings = stored
        /\ puts[r].base = stored
        /\ \A q \in 1 .. MaxPuts : Busy(q) => q = r
        /\ ~refused => puts[r].want = new
  BY <1>1 DEF SettingsSound, ChangesSound, OneChange, Busy, Fits
<1>4. refused => UNCHANGED <<stored, wanted>>
  BY <1>1
<1>5. refused => \A i, w : Fits(i, w)' <=> Fits(i, w)
  BY <1>4 DEF Fits
<1> HIDE DEF new, refused
<1>6. ChangesSound'
  BY <1>1, <1>2 DEF SettingsSound, ChangesSound, Busy
<1>7. OneChange'
  <2>1. CASE refused
    BY <1>1, <1>2, <1>3, <1>4, <1>5, <2>1 DEF SettingsSound, OneChange, Busy
  <2>2. CASE ~refused
    BY <1>1, <1>2, <1>3, <2>2 DEF SettingsSound, OneChange, Busy
  <2>3. QED
    BY <2>1, <2>2
<1>8. ThemeShown'
  BY <1>1, <1>2 DEF SettingsSound, ChangesSound, ThemeShown, Busy
<1>9. QED
  BY <1>6, <1>7, <1>8 DEF SettingsSound

LEMMA FailsKeeps ==
  ASSUME Settings!SettingsTypeOK, SettingsSound, NEW r \in 1 .. MaxPuts, Settings!Fails(r)
  PROVE  SettingsSound'
<1>1. /\ puts[r] # Nothing /\ puts[r].by # "gone"
      /\ \A q \in 1 .. MaxPuts : q # r => puts'[q] = puts[q]
      /\ \/ puts[r].stage \in {"sent", "refused"} /\ puts'[r] = Nothing /\ apart' = apart
         \/ /\ puts'[r] # Nothing =>
                 /\ puts'[r].by = "gone" /\ puts'[r].stage = puts[r].stage
                 /\ puts'[r].base = puts[r].base
            /\ apart'
      /\ preference' = IF puts[r].by = "theme" THEN puts[r].previous ELSE preference
      /\ UNCHANGED <<stored, settings, form, get, where, wanted, together>>
  BY FailsIsTyped DEF Settings!Fails
<1>2. \A i, w : Fits(i, w)' <=> Fits(i, w)
  BY <1>1 DEF Fits
<1>3. ChangesSound'
  BY <1>1 DEF SettingsSound, ChangesSound, Busy
<1>4. OneChange'
  BY <1>1, <1>2 DEF SettingsSound, OneChange, Busy
<1>5. ThemeShown'
  BY <1>1 DEF SettingsSound, ThemeShown, Busy
<1>6. QED
  BY <1>3, <1>4, <1>5 DEF SettingsSound

LEMMA SettingsSoundStep ==
  Settings!SettingsTypeOK /\ SettingsSound /\ [Settings!SettingsNext]_settingsVars => SettingsSound'
<1> SUFFICES ASSUME Settings!SettingsTypeOK, SettingsSound, [Settings!SettingsNext]_settingsVars
             PROVE  SettingsSound'
  OBVIOUS
<1> USE DEF Settings!page, Settings!place, Settings!nav, Settings!ghosts
<1>a. SameChanges(puts, puts) /\ ChangesSound
  BY DEF SameChanges, Settings!SettingsTypeOK, SettingsSound
<1>b. where = "settings" /\ settings # Nothing => form \in [theme : Settings!Themes, rest : Rests]
  BY DEF SettingsSound, ChangesSound
<1>1. CASE Settings!Refresh
  BY <1>1, <1>b, ReadingKeeps DEF Settings!Refresh
<1>2. ASSUME NEW there \in {"files", "settings"}, Settings!Visit(there) PROVE SettingsSound'
  <2>1. SameChanges(puts, puts')
    <3>1. Settings!Forget(puts, "save") \in [1 .. MaxPuts -> Settings!Puts \cup {Nothing}]
          /\ SameChanges(puts, Settings!Forget(puts, "save"))
      BY ForgetIsTyped DEF SameChanges, Settings!SettingsTypeOK
    <3>2. SameChanges(Settings!Forget(puts, "save"), puts')
      BY <1>2, <3>1, ForgetIsTyped DEF Settings!Visit
    <3>3. QED
      BY <3>1, <3>2 DEF SameChanges
  <2>2. where' = "settings" /\ settings # Nothing =>
          form' \in [theme : Settings!Themes, rest : Rests]
    BY <1>2 DEF Settings!Visit, Settings!FormOf, Settings!SettingsTypeOK, Settings!Records
  <2>3. CASE UNCHANGED <<get, apart, together>>
    BY <1>2, <2>1, <2>2, <2>3, SameChangesKeep DEF Settings!Visit
  <2>4. CASE Settings!Reading(FALSE)
    <3>1. UNCHANGED <<stored, settings, preference, wanted>>
      BY <1>2 DEF Settings!Visit
    <3>2. \A i, w : Fits(i, w)' <=> Fits(i, w)
      BY <3>1 DEF Fits
    <3>7. \/ get' = get /\ get # Nothing
          \/ get'.answer = Nothing /\ (get'.clean <=> \A r \in 1 .. MaxPuts : ~Busy(r))
      BY <2>4, ReadingIsTyped
    <3>8. apart => apart'
      BY <2>4, ReadingIsTyped
    <3>9. \A r \in 1 .. MaxPuts : Busy(r)' <=> Busy(r)
      BY <2>1 DEF Busy, SameChanges
    <3>3. ChangesSound'
      BY <2>1, <2>2, <3>1, <3>7, <3>8, <3>9 DEF SettingsSound, ChangesSound, Busy, SameChanges
    <3>4. OneChange'
      BY <2>1, <2>4, <3>1, <3>2, ReadingIsTyped DEF SettingsSound, OneChange, Busy, SameChanges
    <3>5. ThemeShown'
      BY <2>1, <2>4, <3>1, ReadingIsTyped DEF SettingsSound, ThemeShown, Busy, SameChanges
    <3>6. QED
      BY <3>3, <3>4, <3>5 DEF SettingsSound
  <2>5. QED
    BY <1>2, <2>3, <2>4 DEF Settings!Visit
<1>3. ASSUME Sends PROVE SettingsSound'
  BY <1>3, SendsKeeps
<1>4. ASSUME NEW theme \in Settings!Themes, NEW rest \in Rests, Settings!Edit(theme, rest)
      PROVE  SettingsSound'
  BY <1>4, <1>a, SameChangesKeep DEF Settings!Edit
<1>5. CASE Settings!OpenChooser
  BY <1>5, <1>a, <1>b, SameChangesKeep DEF Settings!OpenChooser
<1>6. ASSUME NEW rest \in Rests, Settings!Browse(rest) PROVE SettingsSound'
  BY <1>6, <1>a, <1>b, SameChangesKeep DEF Settings!Browse
<1>7. CASE Settings!Select
  <2>1. form' \in [theme : Settings!Themes, rest : Rests]
    <3>1. form \in [theme : Settings!Themes, rest : Rests] /\ chosen \in Rests
      BY <1>7, <1>b DEF Settings!Select, Settings!FormShown, Settings!SettingsTypeOK
    <3>2. QED
      BY <1>7, <3>1 DEF Settings!Select
  <2>2. QED
    BY <1>7, <2>1, <1>a, SameChangesKeep DEF Settings!Select
<1>8. CASE Settings!CloseChooser
  BY <1>8, <1>a, <1>b, SameChangesKeep DEF Settings!CloseChooser
<1>9. ASSUME NEW p \in Paths, Settings!OpenMenu(p) PROVE SettingsSound'
  BY <1>9, <1>a, <1>b, SameChangesKeep DEF Settings!OpenMenu
<1>10. CASE Settings!CloseBar
  BY <1>10, <1>a, <1>b, SameChangesKeep DEF Settings!CloseBar
<1>11. CASE Settings!EditLabel
  BY <1>11, <1>a, <1>b, SameChangesKeep DEF Settings!EditLabel
<1>12. CASE Settings!ClearLabel
  BY <1>12, <1>a, <1>b, SameChangesKeep DEF Settings!ClearLabel
<1>13. ASSUME NEW p \in Paths, Settings!Foreign(p) PROVE SettingsSound'
  <2>1. Settings!Toggled(stored.favorites, p) \in SUBSET Paths /\ stored \in Settings!Records
    BY DEF Settings!Toggled, Settings!Records, Settings!SettingsTypeOK
  <2>2. stored'.labels \subseteq stored'.favorites
    BY <1>13, <2>1, WithIsTyped DEF Settings!Foreign
  <2>3. /\ apart' = TRUE /\ UNCHANGED <<settings, preference, form, where, puts, wanted, together>>
        /\ get = Nothing => get' = Nothing
        /\ get' # Nothing /\ get'.clean => get' = get /\ get.answer = Nothing
    BY <1>13 DEF Settings!Foreign, Settings!SettingsTypeOK
  <2>4. ChangesSound'
    BY <2>2, <2>3 DEF SettingsSound, ChangesSound, Busy
  <2>5. OneChange'
    BY <2>3 DEF OneChange
  <2>6. ThemeShown'
    BY <2>3 DEF SettingsSound, ThemeShown, Busy
  <2>7. QED
    BY <2>4, <2>5, <2>6 DEF SettingsSound
<1>14. CASE Settings!ServeGet
  <2>1. /\ get # Nothing /\ get'.clean = get.clean /\ get'.answer = stored
        /\ UNCHANGED <<stored, settings, preference, form, where, puts, wanted, apart, together>>
    BY <1>14 DEF Settings!ServeGet, Settings!SettingsTypeOK
  <2>2. \A i, w : Fits(i, w)' <=> Fits(i, w)
    BY <2>1 DEF Fits
  <2>3. ChangesSound'
    BY <2>1 DEF SettingsSound, ChangesSound, Busy
  <2>4. OneChange'
    BY <2>1, <2>2 DEF SettingsSound, OneChange, Busy
  <2>5. ThemeShown'
    BY <2>1 DEF SettingsSound, ThemeShown, Busy
  <2>6. QED
    BY <2>3, <2>4, <2>5 DEF SettingsSound
<1>15. CASE Settings!Got
  <2>1. get # Nothing /\ get.answer # Nothing /\ get.answer \in Settings!Records /\ get' = Nothing
    BY <1>15 DEF Settings!Got, Settings!SettingsTypeOK
  <2>2. /\ settings' = get.answer
        /\ form' = IF get.answer # settings /\ where = "settings"
                   THEN Settings!FormOf(get.answer) ELSE form
        /\ Settings!FormOf(get.answer) \in [theme : Settings!Themes, rest : Rests]
        /\ SameChanges(puts, puts')
    <3>1. Settings!Enter(get.answer, puts) /\ puts \in [1 .. MaxPuts -> Settings!Puts \cup {Nothing}]
      BY <1>15 DEF Settings!Got, Settings!SettingsTypeOK
    <3>2. QED
      BY <2>1, <3>1, EnterIsTyped
  <2>3. /\ preference' = IF get.answer # settings THEN get.answer.theme ELSE preference
        /\ UNCHANGED <<stored, where>>
        /\ IF get.clean
           THEN apart' = FALSE /\ wanted' = stored /\ together' = (together /\ get.answer = settings)
           ELSE UNCHANGED <<wanted, apart, together>>
    BY <1>15 DEF Settings!Got, Settings!Shown
  <2>4. \A i, w : Fits(i, w)' <=> Fits(i, w)
    BY <2>3 DEF Fits
  <2>5. ChangesSound'
    BY <2>1, <2>2, <2>3, <1>b DEF SettingsSound, ChangesSound, Busy, SameChanges
  <2>6. OneChange'
    BY <2>1, <2>2, <2>3, <2>4 DEF SettingsSound, ChangesSound, OneChange, Busy, SameChanges
  <2>7. ThemeShown'
    BY <2>1, <2>2, <2>3 DEF SettingsSound, ChangesSound, ThemeShown, Busy, SameChanges
  <2>8. QED
    BY <2>5, <2>6, <2>7 DEF SettingsSound
<1>16. CASE Settings!GetFails
  <2>1. /\ get # Nothing /\ get' = Nothing
        /\ UNCHANGED <<stored, settings, preference, form, where, puts, wanted, apart, together>>
    BY <1>16 DEF Settings!GetFails
  <2>2. \A i, w : Fits(i, w)' <=> Fits(i, w)
    BY <2>1 DEF Fits
  <2>3. QED
    BY <2>1, <2>2 DEF SettingsSound, ChangesSound, OneChange, ThemeShown, Busy
<1>17. ASSUME NEW r \in 1 .. MaxPuts, Settings!ReadRecord(r) PROVE SettingsSound'
  <2>1. puts[r] \in Settings!Puts /\ puts[r] # Nothing /\ puts[r].stage = "sent"
        /\ stored \in Settings!Records
    BY <1>17 DEF Settings!ReadRecord, Settings!SettingsTypeOK
  <2> DEFINE it == [puts[r] EXCEPT !.stage = "read", !.base = stored]
  <2>2. it \in Settings!Puts /\ it.by = puts[r].by /\ it.input = puts[r].input
        /\ it.want = puts[r].want /\ it.previous = puts[r].previous /\ it.stage = "read"
        /\ it.base = stored
    BY <2>1 DEF Settings!Puts
  <2>3. it # Nothing
    BY <2>2, SettingsAssumption
  <2>4. /\ puts' = [puts EXCEPT ![r] = it]
        /\ UNCHANGED <<stored, settings, preference, form, where, get, wanted, apart, together>>
    BY <1>17 DEF Settings!ReadRecord
  <2> HIDE DEF it
  <2>5. puts'[r] = it /\ \A q \in 1 .. MaxPuts : q # r => puts'[q] = puts[q]
    BY <2>4 DEF Settings!SettingsTypeOK
  <2>6. \A i, w : Fits(i, w)' <=> Fits(i, w)
    BY <2>4 DEF Fits
  <2>7. ChangesSound'
    BY <2>1, <2>2, <2>3, <2>4, <2>5 DEF SettingsSound, ChangesSound, Busy
  <2>8. OneChange'
    BY <2>1, <2>2, <2>3, <2>4, <2>5, <2>6 DEF SettingsSound, OneChange, Busy
  <2>9. ThemeShown'
    BY <2>1, <2>2, <2>3, <2>4, <2>5 DEF SettingsSound, ThemeShown, Busy
  <2>10. QED
    BY <2>7, <2>8, <2>9 DEF SettingsSound
<1>18. ASSUME NEW r \in 1 .. MaxPuts, Settings!WriteRecord(r) PROVE SettingsSound'
  BY <1>18, WriteKeeps
<1>19. ASSUME NEW r \in 1 .. MaxPuts, Settings!Succeed(r) PROVE SettingsSound'
  <2>1. /\ puts[r] # Nothing /\ puts[r].stage = "written" /\ puts[r].base \in Settings!Records
        /\ settings' = puts[r].base
        /\ form' = IF puts[r].base # settings /\ where = "settings"
                   THEN Settings!FormOf(puts[r].base) ELSE form
        /\ Settings!FormOf(puts[r].base) \in [theme : Settings!Themes, rest : Rests]
        /\ preference' = IF puts[r].by = "save" THEN puts[r].base.theme
                         ELSE Settings!Shown(puts[r].base)
        /\ UNCHANGED <<stored, get, where, chosen, wanted, apart, together>>
    BY <1>19, <1>a, SucceedIsTyped
  <2>2. /\ puts'[r] = Nothing
        /\ \A q \in 1 .. MaxPuts : q # r =>
             /\ puts'[q] = Nothing <=> puts[q] = Nothing
             /\ puts[q] # Nothing =>
                  /\ puts'[q].by = puts[q].by /\ puts'[q].input = puts[q].input
                  /\ puts'[q].want = puts[q].want /\ puts'[q].base = puts[q].base
                  /\ puts'[q].stage = puts[q].stage /\ puts'[q].previous = puts[q].previous
    BY <1>19, <1>a, SucceedIsTyped DEF SameChanges, Settings!SettingsTypeOK
  <2>3. \A i, w : Fits(i, w)' <=> Fits(i, w)
    BY <2>1 DEF Fits
  <2>5. ChangesSound'
    BY <2>1, <2>2 DEF SettingsSound, ChangesSound, Busy
  <2>6. OneChange'
    BY <2>1, <2>2, <2>3 DEF SettingsSound, OneChange, Busy
  <2>7. ThemeShown'
    BY <2>1, <2>2 DEF SettingsSound, ChangesSound, ThemeShown, Busy, Settings!Shown
  <2>8. QED
    BY <2>5, <2>6, <2>7 DEF SettingsSound
<1>20. ASSUME NEW r \in 1 .. MaxPuts, Settings!Fails(r) PROVE SettingsSound'
  BY <1>20, FailsKeeps
<1>21. CASE UNCHANGED settingsVars
  BY <1>21, <1>a, <1>b, SameChangesKeep DEF settingsVars
<1>22. QED
  BY <1>1, <1>2, <1>3, <1>4, <1>5, <1>6, <1>7, <1>8, <1>9, <1>10, <1>11, <1>12, <1>13, <1>14,
     <1>15, <1>16, <1>17, <1>18, <1>19, <1>20, <1>21, <1>a, ToggleSends, SaveSends, StarSends,
     RemoveSends, LabelSends
     DEF Settings!SettingsNext, Settings!SettingsUser, Settings!SettingsOwn,
         Settings!SettingsTypeOK

LEMMA SettingsStart == PagesInit => Settings!SettingsTypeOK /\ SettingsSound
<1> SUFFICES ASSUME Settings!SettingsInit PROVE Settings!SettingsTypeOK /\ SettingsSound
  BY DEF PagesInit
<1> USE SettingsAssumption DEF Settings!SettingsInit
<1>1. Settings!SettingsTypeOK
  BY DEF Settings!SettingsTypeOK, Settings!Themes
<1>2. SettingsSound
  BY DEF SettingsSound, ChangesSound, OneChange, ThemeShown, Busy
<1>3. QED
  BY <1>1, <1>2

\* Changes of the settings take none of each other back as long as each is made after
\* the one before it was answered: the record is what the owner asked for, the page
\* has that record, and shows its theme (AppShell, FavoritesNav, FilesPage,
\* SettingsPage, putSettings).
THEOREM SettingsAsWanted == PagesSpec => []SettingsAsAsked
<1>1. Settings!SettingsTypeOK /\ SettingsSound => SettingsAsAsked
  <2> SUFFICES ASSUME Settings!SettingsTypeOK, SettingsSound, Settings!UnderWay = {}, ~apart
               PROVE  stored = wanted /\ settings = stored /\ (~together => preference = stored.theme)
    BY DEF SettingsAsAsked, Settings!SettingsAsAsked
  <2>1. \A r \in 1 .. MaxPuts : ~Busy(r)
    BY DEF Settings!UnderWay, Busy, Settings!SettingsTypeOK
  <2>2. stored = wanted /\ settings = stored
    BY <2>1 DEF SettingsSound, OneChange
  <2>3. settings # Nothing
    BY <2>2, SettingsAssumption DEF Settings!SettingsTypeOK
  <2>4. QED
    BY <2>1, <2>2, <2>3 DEF SettingsSound, ThemeShown
<1>2. Settings!SettingsTypeOK /\ SettingsSound /\ [PagesNext]_pagesVars
        => (Settings!SettingsTypeOK /\ SettingsSound)'
  BY PartSteps, SettingsTypeStep, SettingsSoundStep DEF SettingsSound
<1>3. QED
  BY <1>1, <1>2, SettingsStart, PTL DEF PagesSpec

-----------------------------------------------------------------------------
(***************************************************************************)
(* The listing.                                                            *)
(***************************************************************************)

\* What is known of an entry that was selected, asked about or is being deleted.
ListingTyped ==
  /\ listed \subseteq Listing!Entries
  /\ folder \in Folders /\ searching \in BOOLEAN /\ showHidden \in BOOLEAN
  /\ data \in [Listing!Queries -> {Nothing} \cup SUBSET Listing!Entries]
  /\ stale \in [Listing!Queries -> BOOLEAN]
  /\ fetch \in [Listing!Queries -> {Nothing, Sent} \cup SUBSET Listing!Entries]
  /\ making \in [entry : Listing!Entries, done : BOOLEAN] \cup {Nothing}
  /\ \A job \in removing :
       /\ job = [entries |-> job.entries, left |-> job.left,
                 awaited |-> job.awaited, page |-> job.page]
       /\ job.awaited \in BOOLEAN
       /\ ~job.awaited => job.page \in Folders
       /\ job.left \subseteq job.entries

\* A change of what a query finds that the page will be told of.
Unsettled(q) ==
  \/ \E job \in removing : \E e \in job.entries : Listing!Finds(q, e)
  \/ making # Nothing /\ making.done /\ Listing!Finds(q, making.entry)

\* What is cached, and what is on its way.
QueriesSound ==
  \A q \in Listing!Queries :
    /\ fetch[q] # Nothing /\ data[q] # Nothing => stale[q]
    /\ q \notin behind =>
         /\ fetch[q] \notin {Nothing, Sent} => fetch[q] = Listing!Result(q) \/ Unsettled(q)
         /\ data[q] # Nothing =>
              \/ data[q] = Listing!Result(q)
              \/ Unsettled(q)
              \/ stale[q] /\ (q \in Listing!Active => fetch[q] # Nothing)

\* A dialog waits for the entries it shows, and what is not left of them is gone.
DeletionsSound ==
  \A job \in removing :
    /\ job.awaited => deleting = {} \/ job.entries = deleting
    /\ \A e \in job.entries \ job.left : e \notin listed \/ e \in made

\* Of whose folder a query asks, and what is answered.
LEMMA QueryIsTyped ==
  ASSUME ListingTyped, NEW q \in Listing!Queries
  PROVE  /\ q[2] \in Folders
         /\ q \in Listing!Active => q[2] = folder
         /\ Listing!Result(q) \in SUBSET Listing!Entries
         /\ Listing!Result(q) \notin {Nothing, Sent}
         /\ fetch[q] \notin {Nothing, Sent} => fetch[q] \in SUBSET Listing!Entries
<1>1. q[2] \in Folders
  BY DEF Listing!Queries
<1>2. q \in Listing!Active => q[2] = folder
  BY DEF Listing!Active
<1>3. Listing!Result(q) \in SUBSET Listing!Entries
  BY DEF Listing!Result, ListingTyped
<1>4. fetch[q] \notin {Nothing, Sent} => fetch[q] \in SUBSET Listing!Entries
  BY DEF ListingTyped
<1>5. QED
  BY <1>1, <1>2, <1>3, <1>4, ListingAssumption

\* Nothing a query finds came or went.
Untouched(q) == \A e : Listing!Finds(q, e) => (e \in listed' <=> e \in listed)

LEMMA ResultDepends ==
  ASSUME NEW q \in Listing!Queries, Untouched(q)
  PROVE  Listing!Result(q)' = Listing!Result(q)
<1>1. \A e : Listing!Finds(q, e)' <=> Listing!Finds(q, e)
  BY DEF Listing!Finds
<1>2. QED
  BY <1>1 DEF Listing!Result, Untouched

\* No query is asked, and a query whose answer changes is left to its refresh, or given up.
LEMMA GivenKeeps ==
  ASSUME ListingTyped, QueriesSound,
         UNCHANGED <<data, stale, fetch, folder, searching, showHidden>>,
         behind \subseteq behind',
         \A q \in Listing!Queries :
           \/ data[q] # Nothing \/ fetch[q] \notin {Nothing, Sent} => q \in behind'
           \/ /\ Unsettled(q) => Unsettled(q)'
              /\ Untouched(q) \/ Unsettled(q)'
  PROVE  QueriesSound'
<1>1. Listing!Active' = Listing!Active
  BY DEF Listing!Active
<1>2. SUFFICES ASSUME NEW q \in Listing!Queries, q \notin behind'
               PROVE  /\ fetch[q] \notin {Nothing, Sent} =>
                           fetch[q] = Listing!Result(q)' \/ Unsettled(q)'
                      /\ data[q] # Nothing =>
                           \/ data[q] = Listing!Result(q)'
                           \/ Unsettled(q)'
                           \/ stale[q] /\ (q \in Listing!Active => fetch[q] # Nothing)
  BY <1>1 DEF QueriesSound
<1>4. CASE data[q] # Nothing \/ fetch[q] \notin {Nothing, Sent} => q \in behind'
  BY <1>2, <1>4
<1>5. CASE Unsettled(q)'
  BY <1>5
<1>6. CASE (Unsettled(q) => Unsettled(q)') /\ Untouched(q)
  <2>1. Listing!Result(q)' = Listing!Result(q)
    BY <1>6, ResultDepends
  <2>2. q \notin behind
    BY <1>2
  <2>3. /\ fetch[q] \notin {Nothing, Sent} => fetch[q] = Listing!Result(q) \/ Unsettled(q)
        /\ data[q] # Nothing =>
             \/ data[q] = Listing!Result(q)
             \/ Unsettled(q)
             \/ stale[q] /\ (q \in Listing!Active => fetch[q] # Nothing)
    BY <2>2 DEF QueriesSound
  <2>4. QED
    BY <1>6, <2>1, <2>3
<1>7. QED
  BY <1>4, <1>5, <1>6

\* The queries of a folder are asked again, and an answer from before is not trusted.
LEMMA RefreshKeeps ==
  ASSUME ListingTyped, QueriesSound, NEW p \in Folders, Listing!Refresh(p),
         UNCHANGED <<listed, data, folder, searching, showHidden>>,
         behind \cup Listing!Kept(p) \subseteq behind',
         \A q \in Listing!Queries \ Listing!Keys(p) :
           \/ data[q] # Nothing \/ fetch[q] \notin {Nothing, Sent} => q \in behind'
           \/ Unsettled(q) => Unsettled(q)'
  PROVE  QueriesSound'
<1>1. Listing!Active' = Listing!Active
  BY DEF Listing!Active
<1>2. \A q \in Listing!Queries :
        /\ stale'[q] = (stale[q] \/ q[2] = p)
        /\ fetch'[q] = IF q \in Listing!Active \cap Listing!Keys(p)
                             /\ (data[q] # Nothing \/ fetch[q] = Nothing)
                       THEN Sent ELSE fetch[q]
  BY DEF Listing!Refresh
<1>3. SUFFICES ASSUME NEW q \in Listing!Queries
               PROVE  /\ fetch'[q] # Nothing /\ data[q] # Nothing => stale'[q]
                      /\ q \notin behind' =>
                         /\ fetch'[q] \notin {Nothing, Sent} =>
                              fetch'[q] = Listing!Result(q)' \/ Unsettled(q)'
                         /\ data[q] # Nothing =>
                              \/ data[q] = Listing!Result(q)'
                              \/ Unsettled(q)'
                              \/ stale'[q] /\ (q \in Listing!Active => fetch'[q] # Nothing)
  BY <1>1 DEF QueriesSound
<1>4. q[2] \in Folders /\ (q \in Listing!Keys(p) <=> q[2] = p)
  BY QueryIsTyped DEF Listing!Keys
<1>5. CASE q[2] = p
  <2>1. stale'[q]
    BY <1>2, <1>5
  <2>2. q \in Listing!Active => fetch'[q] # Nothing
    BY <1>2, <1>4, <1>5, ListingAssumption
  <2>3. q \notin behind' => fetch'[q] \in {Nothing, Sent}
    BY <1>2, <1>4, <1>5 DEF Listing!Kept
  <2>4. QED
    BY <2>1, <2>2, <2>3
<1>6. CASE q[2] # p
  <2>6. q \notin Listing!Active \cap Listing!Keys(p)
    BY <1>4, <1>6
  <2>1. stale'[q] = stale[q] /\ fetch'[q] = fetch[q]
    BY <1>2, <1>6, <2>6 DEF ListingTyped
  <2>2. Listing!Result(q)' = Listing!Result(q)
    BY ResultDepends DEF Untouched
  <2>3. CASE data[q] # Nothing \/ fetch[q] \notin {Nothing, Sent} => q \in behind'
    BY <1>4, <2>1, <2>3 DEF QueriesSound
  <2>4. CASE Unsettled(q) => Unsettled(q)'
    BY <1>4, <2>1, <2>2, <2>4 DEF QueriesSound
  <2>5. QED
    BY <1>4, <1>6, <2>3, <2>4
<1>7. QED
  BY <1>5, <1>6

\* Other queries are shown.
LEMMA ObserveKeeps ==
  ASSUME ListingTyped, QueriesSound, Listing!Observe,
         UNCHANGED <<listed, data, stale, behind, removing, making>>
  PROVE  QueriesSound'
<1>1. \A q \in Listing!Queries :
        fetch'[q] = IF /\ q \in Listing!Active' \ Listing!Active
                       /\ fetch[q] = Nothing /\ (data[q] = Nothing \/ stale[q])
                    THEN Sent ELSE fetch[q]
  BY DEF Listing!Observe
<1>2. \A q \in Listing!Queries : Unsettled(q)' <=> Unsettled(q)
  BY DEF Unsettled, Listing!Finds
<1>3. SUFFICES ASSUME NEW q \in Listing!Queries
               PROVE  /\ fetch'[q] # Nothing /\ data[q] # Nothing => stale[q]
                      /\ q \notin behind =>
                         /\ fetch'[q] \notin {Nothing, Sent} =>
                              fetch'[q] = Listing!Result(q)' \/ Unsettled(q)'
                         /\ data[q] # Nothing =>
                              \/ data[q] = Listing!Result(q)'
                              \/ Unsettled(q)'
                              \/ stale[q] /\ (q \in Listing!Active' => fetch'[q] # Nothing)
  BY DEF QueriesSound
<1>4. Listing!Result(q)' = Listing!Result(q) /\ (Unsettled(q)' <=> Unsettled(q))
  BY <1>2, ResultDepends DEF Untouched
<1>5. QED
  BY <1>1, <1>4, ListingAssumption DEF QueriesSound

\* Types of the listing, one step.
LEMMA ListingTypeStep ==
  ListingTyped /\ [Listing!ListingNext]_listingVars => ListingTyped'
<1> SUFFICES ASSUME ListingTyped, [Listing!ListingNext]_listingVars PROVE ListingTyped'
  OBVIOUS
<1> USE DEF ListingTyped, Listing!queryVars, Listing!selection, Listing!mutations,
        Listing!NoSelection
<1>1. ASSUME NEW e \in Listing!Entries, NEW shift \in BOOLEAN, NEW toggle \in BOOLEAN,
             Listing!Click(e, shift, toggle)
      PROVE  ListingTyped'
  BY <1>1 DEF Listing!Click
<1>2. ASSUME NEW e \in Listing!Entries, Listing!OpenMenu(e) PROVE ListingTyped'
  BY <1>2 DEF Listing!OpenMenu
<1>3. ASSUME NEW e \in Listing!Entries, Listing!Make(e) PROVE ListingTyped'
  BY <1>3 DEF Listing!Make
<1>4. ASSUME NEW f \in Folders, Listing!OpenFolder(f) PROVE ListingTyped'
  BY <1>4 DEF Listing!OpenFolder, Listing!Observe, Listing!Free
<1>5. ASSUME NEW on \in BOOLEAN, Listing!Search(on) PROVE ListingTyped'
  BY <1>5 DEF Listing!Search, Listing!Observe
<1>6. ASSUME NEW q \in Listing!Queries, Listing!Age(q) PROVE ListingTyped'
  BY <1>6 DEF Listing!Age
<1>7. CASE Listing!OpenFolderMenu
  BY <1>7 DEF Listing!OpenFolderMenu
<1>8. CASE Listing!CloseMenu
  BY <1>8 DEF Listing!CloseMenu
<1>9. CASE Listing!ShowHidden
  BY <1>9 DEF Listing!ShowHidden, Listing!Observe
<1>10. CASE Listing!PressRefresh
  BY <1>10 DEF Listing!PressRefresh, Listing!Refresh
<1>11. ASSUME NEW entries, Listing!BeginDelete(entries) PROVE ListingTyped'
  <2>1. ASSUME NEW job \in removing'
        PROVE  /\ job = [entries |-> job.entries, left |-> job.left,
                         awaited |-> job.awaited, page |-> job.page]
               /\ job.awaited \in BOOLEAN
               /\ ~job.awaited => job.page \in Folders
               /\ job.left \subseteq job.entries
    <3>1. PICK old \in removing :
            job = IF old.awaited THEN [old EXCEPT !.awaited = FALSE, !.page = folder] ELSE old
      BY <1>11, <2>1 DEF Listing!BeginDelete
    <3>2. CASE ~old.awaited
      BY <3>1, <3>2
    <3>3. CASE old.awaited
      <4>1. old = [entries |-> old.entries, left |-> old.left,
                   awaited |-> old.awaited, page |-> old.page]
        OBVIOUS
      <4>2. job = [old EXCEPT !.awaited = FALSE, !.page = folder]
        BY <3>1, <3>3
      <4>3. job = [entries |-> old.entries, left |-> old.left, awaited |-> FALSE, page |-> folder]
        BY <4>1, <4>2
      <4>4. QED
        BY <4>3
    <3>4. QED
      BY <3>2, <3>3
  <2>2. UNCHANGED <<listed, folder, searching, showHidden, data, stale, fetch, making>>
    BY <1>11 DEF Listing!BeginDelete
  <2>3. QED
    BY <1>11, <2>1, <2>2
<1>12. CASE Listing!PressDelete
  BY <1>11, <1>12 DEF Listing!PressDelete
<1>13. CASE Listing!MenuDelete
  BY <1>11, <1>13 DEF Listing!MenuDelete
<1>14. CASE Listing!CancelDelete
  BY <1>14 DEF Listing!CancelDelete
<1>15. CASE Listing!ConfirmDelete
  <2>1. PICK it : it = [entries |-> deleting, left |-> deleting, awaited |-> TRUE,
                        page |-> Nothing]
    OBVIOUS
  <2>2. removing' = removing \cup {it}
    BY <1>15, <2>1 DEF Listing!ConfirmDelete
  <2>3. /\ it.entries = deleting /\ it.left = deleting /\ it.awaited
        /\ it = [entries |-> it.entries, left |-> it.left,
                 awaited |-> it.awaited, page |-> it.page]
    BY <2>1
  <2>4. QED
    BY <1>15, <2>2, <2>3 DEF Listing!ConfirmDelete
<1>16. ASSUME NEW q \in Listing!Queries, Listing!ServeQuery(q) PROVE ListingTyped'
  BY <1>16, QueryIsTyped DEF Listing!ServeQuery
<1>17. ASSUME NEW q \in Listing!Queries, Listing!Answered(q) PROVE ListingTyped'
  BY <1>17 DEF Listing!Answered
<1>18. ASSUME NEW q \in Listing!Queries, Listing!QueryFails(q) PROVE ListingTyped'
  BY <1>18 DEF Listing!QueryFails
<1>19. ASSUME NEW job \in removing, NEW e \in job.left, Listing!ServeRemove(job, e)
       PROVE  ListingTyped'
  <2>2. listed' \subseteq Listing!Entries
    BY <1>19 DEF Listing!ServeRemove, Listing!Unlink
  <2>3. PICK it : it = [job EXCEPT !.left = job.left \ {e}]
    OBVIOUS
  <2>7. job = [entries |-> job.entries, left |-> job.left,
               awaited |-> job.awaited, page |-> job.page]
    OBVIOUS
  <2>4. it = [entries |-> job.entries, left |-> job.left \ {e},
              awaited |-> job.awaited, page |-> job.page]
    BY <2>3, <2>7
  <2>5. removing' = (removing \ {job}) \cup {it}
    BY <1>19, <2>3 DEF Listing!ServeRemove
  <2>6. QED
    BY <1>19, <2>2, <2>4, <2>5 DEF Listing!ServeRemove
<1>20. ASSUME NEW job \in removing, NEW e \in job.left, Listing!RemoveFails(job, e)
       PROVE  ListingTyped'
  BY <1>20 DEF Listing!RemoveFails
<1>21. ASSUME NEW job \in removing, Listing!Removed(job) PROVE ListingTyped'
  BY <1>21 DEF Listing!Removed, Listing!Refresh
<1>22. ASSUME NEW e \in loose, Listing!ServeLoose(e) PROVE ListingTyped'
  BY <1>22 DEF Listing!ServeLoose, Listing!Unlink
<1>23. CASE Listing!Made
  BY <1>23 DEF Listing!Made, Listing!Refresh
<1>24. CASE Listing!MakeFails
  BY <1>24 DEF Listing!MakeFails
<1>25. CASE Listing!ServeMake
  BY <1>25 DEF Listing!ServeMake
<1>26. CASE UNCHANGED listingVars  BY <1>26 DEF listingVars
<1>28. CASE Listing!ListingUser
  BY <1>1, <1>2, <1>3, <1>4, <1>5, <1>6, <1>7, <1>8, <1>9, <1>10, <1>12, <1>13, <1>14, <1>15,
     <1>28 DEF Listing!ListingUser
<1>29. CASE Listing!ListingOwn
  BY <1>16, <1>17, <1>18, <1>19, <1>20, <1>21, <1>22, <1>23, <1>24, <1>29 DEF Listing!ListingOwn
<1>30. QED
  BY <1>25, <1>26, <1>28, <1>29 DEF Listing!ListingNext

\* What is cached stays right, is asked again, or is given up: one step.
LEMMA QueriesStep ==
  ListingTyped /\ QueriesSound /\ [Listing!ListingNext]_listingVars => QueriesSound'
<1> SUFFICES ASSUME ListingTyped, QueriesSound, [Listing!ListingNext]_listingVars
             PROVE  QueriesSound'
  OBVIOUS
<1> USE DEF Listing!queryVars, Listing!selection, Listing!mutations
<1>0. ASSUME UNCHANGED <<listed, data, stale, fetch, folder, searching, showHidden, behind>>,
             removing \subseteq removing', making # Nothing => making' = making
      PROVE  QueriesSound'
  <2>1. \A q \in Listing!Queries : Unsettled(q) => Unsettled(q)'
    BY <1>0 DEF Unsettled, Listing!Finds
  <2>2. \A q \in Listing!Queries : Untouched(q)
    BY <1>0 DEF Untouched
  <2>3. QED
    BY <1>0, <2>1, <2>2, GivenKeeps
<1>1. ASSUME NEW e \in Listing!Entries, NEW shift \in BOOLEAN, NEW toggle \in BOOLEAN,
             Listing!Click(e, shift, toggle)
      PROVE  QueriesSound'
  BY <1>0, <1>1 DEF Listing!Click
<1>a. ASSUME UNCHANGED <<listed, removing, making>>
      PROVE  \A p \in Listing!Queries :
               Listing!Result(p)' = Listing!Result(p) /\ (Unsettled(p)' <=> Unsettled(p))
  BY <1>a DEF Unsettled, Listing!Result, Listing!Finds
<1>2. ASSUME NEW e \in Listing!Entries, Listing!OpenMenu(e) PROVE QueriesSound'
  BY <1>0, <1>2 DEF Listing!OpenMenu
<1>3. ASSUME NEW e \in Listing!Entries, Listing!Make(e) PROVE QueriesSound'
  <2>1. making = Nothing
        /\ UNCHANGED <<listed, data, stale, fetch, folder, searching, showHidden, behind, removing>>
    BY <1>3 DEF Listing!Make
  <2>2. QED
    BY <1>0, <2>1
<1>4. ASSUME NEW f \in Folders, Listing!OpenFolder(f) PROVE QueriesSound'
  BY <1>4, ObserveKeeps DEF Listing!OpenFolder
<1>5. ASSUME NEW on \in BOOLEAN, Listing!Search(on) PROVE QueriesSound'
  BY <1>5, ObserveKeeps DEF Listing!Search
<1>6. ASSUME NEW q \in Listing!Queries, Listing!Age(q) PROVE QueriesSound'
  <2>1. /\ data[q] # Nothing /\ stale' = [stale EXCEPT ![q] = TRUE] /\ ~stale[q]
        /\ UNCHANGED <<listed, data, fetch, folder, searching, showHidden, behind, removing, making>>
    BY <1>6 DEF Listing!Age
  <2>2. Listing!Active' = Listing!Active
    BY <2>1 DEF Listing!Active
  <2>3. \A p \in Listing!Queries : stale'[p] = (stale[p] \/ p = q)
    BY <2>1 DEF ListingTyped
  <2>4. QED
    BY <1>a, <2>1, <2>2, <2>3 DEF QueriesSound
<1>7. CASE Listing!OpenFolderMenu
  BY <1>0, <1>7 DEF Listing!OpenFolderMenu
<1>8. CASE Listing!CloseMenu
  BY <1>0, <1>8 DEF Listing!CloseMenu
<1>9. CASE Listing!ShowHidden
  BY <1>9, ObserveKeeps DEF Listing!ShowHidden
<1>10. CASE Listing!PressRefresh
  <2>1. /\ Listing!Refresh(folder) /\ folder \in Folders
        /\ UNCHANGED <<listed, data, folder, searching, showHidden, behind, removing, making>>
    BY <1>10 DEF Listing!PressRefresh, ListingTyped
  <2>2. Listing!Active' = Listing!Active
    BY <2>1 DEF Listing!Active
  <2>3. \A q \in Listing!Queries :
          /\ stale'[q] = (stale[q] \/ q[2] = folder)
          /\ fetch'[q] = IF q \in Listing!Active /\ (data[q] # Nothing \/ fetch[q] = Nothing)
                         THEN Sent ELSE fetch[q]
    BY <2>1, QueryIsTyped DEF Listing!Refresh, Listing!Keys
  <2>4. ASSUME NEW q \in Listing!Queries
        PROVE  /\ fetch'[q] # Nothing /\ data[q] # Nothing => stale'[q]
               /\ q \notin behind =>
                    /\ fetch'[q] \notin {Nothing, Sent} =>
                         fetch'[q] = Listing!Result(q) \/ Unsettled(q)
                    /\ data[q] # Nothing =>
                         \/ data[q] = Listing!Result(q)
                         \/ Unsettled(q)
                         \/ stale'[q] /\ (q \in Listing!Active => fetch'[q] # Nothing)
    <3>1. q[2] \in Folders /\ (q \in Listing!Active => q[2] = folder)
      BY QueryIsTyped
    <3>2. QED
      BY <2>3, <3>1, ListingAssumption DEF QueriesSound
  <2>5. QED
    BY <1>a, <2>1, <2>2, <2>4 DEF QueriesSound
<1>11. ASSUME NEW entries, Listing!BeginDelete(entries) PROVE QueriesSound'
  <2>1. /\ removing' = {IF job.awaited THEN [job EXCEPT !.awaited = FALSE, !.page = folder] ELSE job
                          : job \in removing}
        /\ UNCHANGED <<listed, data, stale, fetch, folder, searching, showHidden, behind, making>>
    BY <1>11 DEF Listing!BeginDelete
  <2>2. ASSUME NEW job \in removing PROVE \E new \in removing' : new.entries = job.entries
    <3>1. CASE ~job.awaited
      BY <2>1, <3>1
    <3>2. CASE job.awaited
      <4>1. PICK new : new = [job EXCEPT !.awaited = FALSE, !.page = folder]
        OBVIOUS
      <4>2. job = [entries |-> job.entries, left |-> job.left,
                   awaited |-> job.awaited, page |-> job.page]
        BY DEF ListingTyped
      <4>3. new.entries = job.entries
        BY <4>1, <4>2
      <4>4. new \in removing'
        BY <2>1, <3>2, <4>1
      <4>5. QED
        BY <4>3, <4>4
    <3>3. QED
      BY <3>1, <3>2
  <2>3. \A q \in Listing!Queries : Unsettled(q) => Unsettled(q)'
    BY <2>1, <2>2 DEF Unsettled, Listing!Finds
  <2>4. \A q \in Listing!Queries : Untouched(q)
    BY <2>1 DEF Untouched
  <2>5. QED
    BY <2>1, <2>3, <2>4, GivenKeeps
<1>12. CASE Listing!PressDelete
  BY <1>11, <1>12 DEF Listing!PressDelete
<1>13. CASE Listing!MenuDelete
  BY <1>11, <1>13 DEF Listing!MenuDelete
<1>14. CASE Listing!CancelDelete
  BY <1>0, <1>14 DEF Listing!CancelDelete
<1>15. CASE Listing!ConfirmDelete
  <2>1. /\ removing \subseteq removing'
        /\ UNCHANGED <<listed, data, stale, fetch, folder, searching, showHidden, behind, making>>
    BY <1>15 DEF Listing!ConfirmDelete
  <2>2. QED
    BY <1>0, <2>1
<1>16. ASSUME NEW q \in Listing!Queries, Listing!ServeQuery(q) PROVE QueriesSound'
  <2>1. /\ fetch[q] = Sent /\ fetch' = [fetch EXCEPT ![q] = Listing!Result(q)]
        /\ behind' = behind \ {q}
        /\ UNCHANGED <<listed, data, stale, folder, searching, showHidden, removing, making>>
    BY <1>16 DEF Listing!ServeQuery
  <2>2. Listing!Active' = Listing!Active
    BY <2>1 DEF Listing!Active
  <2>3. /\ \A p \in Listing!Queries \ {q} : fetch'[p] = fetch[p]
        /\ fetch'[q] = Listing!Result(q)
    BY <2>1 DEF ListingTyped
  <2>4. QED
    BY <1>a, <2>1, <2>2, <2>3, QueryIsTyped, ListingAssumption DEF QueriesSound
<1>17. ASSUME NEW q \in Listing!Queries, Listing!Answered(q) PROVE QueriesSound'
  <2>1. /\ fetch[q] \notin {Nothing, Sent} /\ fetch' = [fetch EXCEPT ![q] = Nothing]
        /\ data' = [data EXCEPT ![q] = fetch[q]] /\ stale' = [stale EXCEPT ![q] = FALSE]
        /\ UNCHANGED <<listed, folder, searching, showHidden, removing, making, behind>>
    BY <1>17 DEF Listing!Answered
  <2>2. Listing!Active' = Listing!Active
    BY <2>1 DEF Listing!Active
  <2>3. /\ \A p \in Listing!Queries \ {q} :
             fetch'[p] = fetch[p] /\ data'[p] = data[p] /\ stale'[p] = stale[p]
        /\ fetch'[q] = Nothing /\ data'[q] = fetch[q] /\ ~stale'[q]
    BY <2>1 DEF ListingTyped
  <2>4. QED
    BY <1>a, <2>1, <2>2, <2>3 DEF QueriesSound
<1>18. ASSUME NEW q \in Listing!Queries, Listing!QueryFails(q) PROVE QueriesSound'
  <2>1. /\ fetch[q] = Sent /\ fetch' = [fetch EXCEPT ![q] = Nothing]
        /\ behind' = IF data[q] = Nothing THEN behind ELSE behind \cup {q}
        /\ UNCHANGED <<listed, data, stale, folder, searching, showHidden, removing, making>>
    BY <1>18 DEF Listing!QueryFails
  <2>2. Listing!Active' = Listing!Active
    BY <2>1 DEF Listing!Active
  <2>3. \A p \in Listing!Queries \ {q} : fetch'[p] = fetch[p]
    BY <2>1 DEF ListingTyped
  <2>4. fetch'[q] = Nothing
    BY <2>1 DEF ListingTyped
  <2>5. (data[q] # Nothing => q \in behind') /\ behind \subseteq behind'
    BY <2>1
  <2>6. QED
    BY <1>a, <2>1, <2>2, <2>3, <2>4, <2>5 DEF QueriesSound
<1>19. ASSUME NEW job \in removing, NEW e \in job.left, Listing!ServeRemove(job, e)
       PROVE  QueriesSound'
  <2>1. PICK it : it = [job EXCEPT !.left = job.left \ {e}]
    OBVIOUS
  <2>2. /\ removing' = (removing \ {job}) \cup {it}
        /\ listed' = listed \ {e}
        /\ UNCHANGED <<data, stale, fetch, folder, searching, showHidden, behind, making>>
    BY <1>19, <2>1 DEF Listing!ServeRemove, Listing!Unlink
  <2>3. /\ job = [entries |-> job.entries, left |-> job.left,
                  awaited |-> job.awaited, page |-> job.page]
        /\ e \in job.entries
    BY DEF ListingTyped
  <2>4. it.entries = job.entries
    BY <2>1, <2>3
  <2>5. \A q \in Listing!Queries : Unsettled(q) => Unsettled(q)'
    BY <2>2, <2>4 DEF Unsettled, Listing!Finds
  <2>6. \A q \in Listing!Queries : Listing!Finds(q, e) => Unsettled(q)'
    BY <2>2, <2>3, <2>4 DEF Unsettled, Listing!Finds
  <2>7. \A q \in Listing!Queries : ~Listing!Finds(q, e) => Untouched(q)
    BY <2>2 DEF Untouched
  <2>8. QED
    BY <2>2, <2>5, <2>6, <2>7, GivenKeeps
<1>20. ASSUME NEW job \in removing, NEW e \in job.left, Listing!RemoveFails(job, e)
       PROVE  QueriesSound'
  <2>1. /\ removing' = removing \ {job} /\ behind' = behind \cup Listing!Given(job.entries)
        /\ UNCHANGED <<listed, data, stale, fetch, folder, searching, showHidden, making>>
    BY <1>20 DEF Listing!RemoveFails
  <2>2. ASSUME NEW q \in Listing!Queries
        PROVE  \/ data[q] # Nothing \/ fetch[q] \notin {Nothing, Sent} => q \in behind'
               \/ Unsettled(q) => Unsettled(q)'
    <3>1. CASE \E d \in job.entries : Listing!Finds(q, d)
      BY <2>1, <3>1 DEF Listing!Given
    <3>2. CASE ~\E d \in job.entries : Listing!Finds(q, d)
      BY <2>1, <3>2 DEF Unsettled, Listing!Finds
    <3>3. QED
      BY <3>1, <3>2
  <2>3. \A q \in Listing!Queries : Untouched(q)
    BY <2>1 DEF Untouched
  <2>4. QED
    BY <2>1, <2>2, <2>3, GivenKeeps
<1>21. ASSUME NEW job \in removing, Listing!Removed(job) PROVE QueriesSound'
  <2> DEFINE there == IF job.awaited THEN folder ELSE job.page
  <2>1. /\ removing' = removing \ {job} /\ Listing!Refresh(there)
        /\ behind' = behind \cup Listing!Kept(there)
                       \cup (Listing!Given(job.entries) \ Listing!Keys(there))
        /\ UNCHANGED <<listed, data, folder, searching, showHidden, making>>
    BY <1>21 DEF Listing!Removed
  <2>2. there \in Folders
    BY DEF ListingTyped
  <2> HIDE DEF there
  <2>3. ASSUME NEW q \in Listing!Queries \ Listing!Keys(there)
        PROVE  \/ data[q] # Nothing \/ fetch[q] \notin {Nothing, Sent} => q \in behind'
               \/ Unsettled(q) => Unsettled(q)'
    <3>1. CASE \E d \in job.entries : Listing!Finds(q, d)
      BY <2>1, <3>1 DEF Listing!Given
    <3>2. CASE ~\E d \in job.entries : Listing!Finds(q, d)
      BY <2>1, <3>2 DEF Unsettled, Listing!Finds
    <3>3. QED
      BY <3>1, <3>2
  <2>4. behind \cup Listing!Kept(there) \subseteq behind'
    BY <2>1
  <2>5. QED
    BY <2>1, <2>2, <2>3, <2>4, RefreshKeeps
<1>22. ASSUME NEW e \in loose, Listing!ServeLoose(e) PROVE QueriesSound'
  <2>1. UNCHANGED <<data, stale, fetch, folder, searching, showHidden, removing, making>>
    BY <1>22 DEF Listing!ServeLoose
  <2>2. \A q \in Listing!Queries : Unsettled(q)' <=> Unsettled(q)
    BY <2>1 DEF Unsettled, Listing!Finds
  <2>3. CASE UNCHANGED <<listed, behind>>
    BY <1>0, <2>1, <2>3
  <2>4. CASE Listing!Unlink(e) /\ behind' = behind \cup Listing!Given({e})
    <3>1. ASSUME NEW q \in Listing!Queries, Listing!Finds(q, e)
          PROVE  data[q] # Nothing \/ fetch[q] \notin {Nothing, Sent} => q \in behind'
      BY <2>4, <3>1 DEF Listing!Given
    <3>2. \A q \in Listing!Queries : ~Listing!Finds(q, e) => Untouched(q)
      BY <2>4 DEF Listing!Unlink, Untouched
    <3>3. QED
      BY <2>1, <2>2, <2>4, <3>1, <3>2, GivenKeeps
  <2>5. QED
    BY <1>22, <2>3, <2>4 DEF Listing!ServeLoose
<1>23. CASE Listing!Made
  <2>1. /\ making # Nothing /\ making' = Nothing /\ Listing!Refresh(folder)
        /\ behind' = behind \cup Listing!Kept(folder)
             \cup (Listing!Given({making.entry}) \ Listing!Keys(folder))
        /\ UNCHANGED <<listed, data, folder, searching, showHidden, removing>>
    BY <1>23 DEF Listing!Made
  <2>2. folder \in Folders
    BY DEF ListingTyped
  <2>3. ASSUME NEW q \in Listing!Queries \ Listing!Keys(folder)
        PROVE  \/ data[q] # Nothing \/ fetch[q] \notin {Nothing, Sent} => q \in behind'
               \/ Unsettled(q) => Unsettled(q)'
    <3>1. CASE Listing!Finds(q, making.entry)
      BY <2>1, <3>1 DEF Listing!Given
    <3>2. CASE ~Listing!Finds(q, making.entry)
      BY <2>1, <3>2 DEF Unsettled, Listing!Finds
    <3>3. QED
      BY <3>1, <3>2
  <2>4. behind \cup Listing!Kept(folder) \subseteq behind'
    BY <2>1
  <2>5. QED
    BY <2>1, <2>2, <2>3, <2>4, RefreshKeeps
<1>24. CASE Listing!MakeFails
  <2>1. /\ making # Nothing /\ making' = Nothing
        /\ behind' = IF making.done THEN behind \cup Listing!Given({making.entry}) ELSE behind
        /\ UNCHANGED <<listed, data, stale, fetch, folder, searching, showHidden, removing>>
    BY <1>24 DEF Listing!MakeFails
  <2>2. ASSUME NEW q \in Listing!Queries
        PROVE  \/ data[q] # Nothing \/ fetch[q] \notin {Nothing, Sent} => q \in behind'
               \/ Unsettled(q) => Unsettled(q)'
    <3>1. CASE making.done /\ Listing!Finds(q, making.entry)
      BY <2>1, <3>1 DEF Listing!Given
    <3>2. CASE ~(making.done /\ Listing!Finds(q, making.entry))
      BY <2>1, <3>2 DEF Unsettled, Listing!Finds
    <3>3. QED
      BY <3>1, <3>2
  <2>3. \A q \in Listing!Queries : Untouched(q)
    BY <2>1 DEF Untouched
  <2>4. behind \subseteq behind'
    BY <2>1
  <2>5. QED
    BY <2>1, <2>2, <2>3, <2>4, GivenKeeps
<1>25. CASE Listing!ServeMake
  <2>1. making \in [entry : Listing!Entries, done : BOOLEAN]
    BY <1>25 DEF Listing!ServeMake, ListingTyped
  <2>2. /\ making # Nothing /\ ~making.done
        /\ listed' = listed \cup {making.entry}
        /\ making' = [making EXCEPT !.done = TRUE]
        /\ UNCHANGED <<data, stale, fetch, folder, searching, showHidden, removing, behind>>
    BY <1>25 DEF Listing!ServeMake
  <2>3. making' \in [entry : Listing!Entries, done : BOOLEAN]
        /\ making'.done /\ making'.entry = making.entry
    BY <2>1, <2>2
  <2>4. making' # Nothing
    BY <2>3, ListingAssumption DEF Listing!Entries
  <2>5. \A q \in Listing!Queries : Listing!Finds(q, making.entry) => Unsettled(q)'
    BY <2>3, <2>4 DEF Unsettled, Listing!Finds
  <2>6. \A q \in Listing!Queries : Unsettled(q) => Unsettled(q)'
    BY <2>2 DEF Unsettled, Listing!Finds
  <2>7. \A q \in Listing!Queries : ~Listing!Finds(q, making.entry) => Untouched(q)
    BY <2>2 DEF Untouched
  <2>8. QED
    BY <2>2, <2>5, <2>6, <2>7, GivenKeeps
<1>26. CASE UNCHANGED listingVars
  BY <1>0, <1>26 DEF listingVars
<1>28. CASE Listing!ListingUser
  BY <1>1, <1>2, <1>3, <1>4, <1>5, <1>6, <1>7, <1>8, <1>9, <1>10, <1>12, <1>13, <1>14, <1>15,
     <1>28 DEF Listing!ListingUser
<1>29. CASE Listing!ListingOwn
  BY <1>16, <1>17, <1>18, <1>19, <1>20, <1>21, <1>22, <1>23, <1>24, <1>29 DEF Listing!ListingOwn
<1>30. QED
  BY <1>25, <1>26, <1>28, <1>29 DEF Listing!ListingNext

\* No deletion begins, and only what is made appears.
LEMMA DeletionsKept ==
  ASSUME ListingTyped, DeletionsSound, removing' \subseteq removing,
         deleting' = deleting \/ deleting' = {}, made \subseteq made',
         listed' \subseteq listed \cup made'
  PROVE  DeletionsSound'
<1> SUFFICES ASSUME NEW job \in removing
             PROVE  /\ job.awaited => deleting' = {} \/ job.entries = deleting'
                    /\ \A e \in job.entries \ job.left : e \notin listed' \/ e \in made'
  BY DEF DeletionsSound
<1>1. job.awaited => deleting' = {} \/ job.entries = deleting'
  BY DEF DeletionsSound
<1>2. ASSUME NEW e \in job.entries \ job.left PROVE e \notin listed' \/ e \in made'
  BY DEF DeletionsSound
<1>3. QED
  BY <1>1, <1>2

\* Deletions, one step; and when their dialog closes.
LEMMA DeletionsStep ==
  ListingTyped /\ DeletionsSound /\ [Listing!ListingNext]_listingVars =>
    DeletionsSound' /\ [Listing!ClosesWhenGone]_listingVars
<1> SUFFICES ASSUME ListingTyped, DeletionsSound, [Listing!ListingNext]_listingVars
             PROVE  DeletionsSound' /\ [Listing!ClosesWhenGone]_listingVars
  OBVIOUS
<1> DEFINE Good == DeletionsSound' /\ [Listing!ClosesWhenGone]_listingVars
<1> USE DEF Listing!queryVars, Listing!selection, Listing!mutations
<1>0. ASSUME removing' \subseteq removing, deleting' = deleting, made \subseteq made',
             UNCHANGED listed
      PROVE  Good
  BY <1>0, DeletionsKept DEF Listing!ClosesWhenGone
<1>1. CASE Listing!ServeMake
  <2>1. /\ UNCHANGED <<removing, deleting>> /\ made' = made \cup {making.entry}
        /\ listed' = listed \cup {making.entry}
    BY <1>1 DEF Listing!ServeMake
  <2>2. DeletionsSound'
    BY <2>1, DeletionsKept
  <2>3. QED
    BY <2>1, <2>2 DEF Listing!ClosesWhenGone
<1>2. CASE Listing!ListingUser /\ UNCHANGED made
  <2>1. ASSUME NEW e \in Listing!Entries, NEW shift \in BOOLEAN, NEW toggle \in BOOLEAN,
               Listing!Click(e, shift, toggle)
        PROVE  UNCHANGED <<removing, deleting, listed>>
    BY <2>1 DEF Listing!Click
  <2>2. ASSUME NEW e \in Listing!Entries, Listing!OpenMenu(e) \/ Listing!Make(e)
        PROVE  UNCHANGED <<removing, deleting, listed>>
    BY <2>2 DEF Listing!OpenMenu, Listing!Make
  <2>3. ASSUME NEW f \in Folders, Listing!OpenFolder(f)
        PROVE  UNCHANGED <<removing, deleting, listed>>
    BY <2>3 DEF Listing!OpenFolder
  <2>4. ASSUME NEW on \in BOOLEAN, Listing!Search(on)
        PROVE  UNCHANGED <<removing, deleting, listed>>
    BY <2>4 DEF Listing!Search
  <2>5. ASSUME NEW q \in Listing!Queries, Listing!Age(q)
        PROVE  UNCHANGED <<removing, deleting, listed>>
    BY <2>5 DEF Listing!Age
  <2>6. CASE Listing!OpenFolderMenu \/ Listing!CloseMenu \/ Listing!ShowHidden \/ Listing!PressRefresh
    BY <1>0, <1>2, <2>6
       DEF Listing!OpenFolderMenu, Listing!CloseMenu, Listing!ShowHidden, Listing!PressRefresh
  <2>7. ASSUME NEW entries, Listing!BeginDelete(entries) PROVE Good
    <3>1. /\ deleting = {} /\ listed' = listed
          /\ removing' = {IF job.awaited THEN [job EXCEPT !.awaited = FALSE, !.page = folder]
                          ELSE job : job \in removing}
      BY <2>7 DEF Listing!BeginDelete
    <3>2. ASSUME NEW new \in removing'
          PROVE  /\ ~new.awaited
                 /\ \A e \in new.entries \ new.left : e \notin listed \/ e \in made
      <4>1. PICK job \in removing :
              new = IF job.awaited THEN [job EXCEPT !.awaited = FALSE, !.page = folder] ELSE job
        BY <3>1
      <4>2. CASE ~job.awaited
        BY <4>1, <4>2 DEF DeletionsSound
      <4>3. CASE job.awaited
        <5>1. job = [entries |-> job.entries, left |-> job.left,
                     awaited |-> job.awaited, page |-> job.page]
          BY DEF ListingTyped
        <5>2. new = [job EXCEPT !.awaited = FALSE, !.page = folder]
          BY <4>1, <4>3
        <5>3. ~new.awaited /\ new.entries = job.entries /\ new.left = job.left
          BY <5>1, <5>2
        <5>4. QED
          BY <5>3 DEF DeletionsSound
      <4>4. QED
        BY <4>2, <4>3
    <3>3. QED
      BY <1>2, <3>1, <3>2 DEF DeletionsSound, Listing!ClosesWhenGone
  <2>8. CASE Listing!PressDelete \/ Listing!MenuDelete
    BY <2>7, <2>8 DEF Listing!PressDelete, Listing!MenuDelete
  <2>9. CASE Listing!CancelDelete
    <3>1. UNCHANGED <<removing, listed, made>> /\ deleting' = {}
      BY <1>2, <2>9 DEF Listing!CancelDelete
    <3>2. QED
      BY <2>9, <3>1, DeletionsKept DEF Listing!ClosesWhenGone
  <2>10. CASE Listing!ConfirmDelete
    <3>1. PICK it : it = [entries |-> deleting, left |-> deleting, awaited |-> TRUE,
                          page |-> Nothing]
      OBVIOUS
    <3>2. removing' = removing \cup {it} /\ UNCHANGED <<deleting, listed, made>>
      BY <1>2, <2>10, <3>1 DEF Listing!ConfirmDelete
    <3>3. it.entries = deleting /\ it.left = deleting
      BY <3>1
    <3>4. QED
      BY <3>2, <3>3 DEF DeletionsSound, Listing!ClosesWhenGone
  <2>11. ASSUME UNCHANGED <<removing, deleting, listed>> PROVE Good
    BY <1>0, <1>2, <2>11
  <2>12. QED
    BY <1>2, <2>1, <2>2, <2>3, <2>4, <2>5, <2>6, <2>8, <2>9, <2>10, <2>11
       DEF Listing!ListingUser
<1>3. CASE Listing!ListingOwn /\ UNCHANGED made
  <2>1. ASSUME NEW q \in Listing!Queries,
               Listing!ServeQuery(q) \/ Listing!Answered(q) \/ Listing!QueryFails(q)
        PROVE  UNCHANGED <<removing, deleting, listed>>
    BY <2>1 DEF Listing!ServeQuery, Listing!Answered, Listing!QueryFails
  <2>2. ASSUME NEW job \in removing, NEW e \in job.left, Listing!ServeRemove(job, e) PROVE Good
    <3>1. PICK it : it = [job EXCEPT !.left = job.left \ {e}]
      OBVIOUS
    <3>2. /\ removing' = (removing \ {job}) \cup {it} /\ UNCHANGED <<deleting, made>>
          /\ listed' = listed \ {e}
      BY <1>3, <2>2, <3>1 DEF Listing!ServeRemove, Listing!Unlink
    <3>3. job = [entries |-> job.entries, left |-> job.left,
                 awaited |-> job.awaited, page |-> job.page]
      BY DEF ListingTyped
    <3>4. it.entries = job.entries /\ it.left = job.left \ {e} /\ it.awaited = job.awaited
      BY <3>1, <3>3
    <3>7. ASSUME NEW old \in removing, NEW d \in old.entries \ old.left
          PROVE  d \notin listed' \/ d \in made
      BY <3>2 DEF DeletionsSound
    <3>8. ASSUME NEW d \in it.entries \ it.left PROVE d \notin listed' \/ d \in made
      BY <3>2, <3>4, <3>7
    <3>9. it.awaited => deleting = {} \/ it.entries = deleting
      BY <3>4 DEF DeletionsSound
    <3>10. \A old \in removing : old.awaited => deleting = {} \/ old.entries = deleting
      BY DEF DeletionsSound
    <3>11. \A new \in removing' : new \in removing \/ new = it
      BY <3>2
    <3>12. DeletionsSound'
      BY <3>2, <3>7, <3>8, <3>9, <3>10, <3>11 DEF DeletionsSound
    <3>13. QED
      BY <3>2, <3>12 DEF Listing!ClosesWhenGone
  <2>3. ASSUME NEW job \in removing, NEW e \in job.left, Listing!RemoveFails(job, e) PROVE Good
    BY <1>0, <1>3, <2>3 DEF Listing!RemoveFails
  <2>4. ASSUME NEW job \in removing, Listing!Removed(job) PROVE Good
    <3>1. /\ job.left = {} /\ deleting' = {} /\ removing' = removing \ {job}
          /\ UNCHANGED <<listed, made>>
      BY <1>3, <2>4 DEF Listing!Removed
    <3>2. DeletionsSound'
      BY <3>1, DeletionsKept
    <3>3. ASSUME job.awaited, deleting # {}
          PROVE  \A e \in deleting : e \notin listed \/ e \in made
      BY <3>1, <3>3 DEF DeletionsSound
    <3>4. QED
      BY <3>2, <3>3 DEF Listing!ClosesWhenGone
  <2>5. ASSUME NEW e \in loose, Listing!ServeLoose(e) PROVE Good
    <3>1. UNCHANGED <<removing, deleting, made>>
      BY <1>3, <2>5 DEF Listing!ServeLoose
    <3>2. listed' \subseteq listed
      BY <2>5 DEF Listing!ServeLoose, Listing!Unlink
    <3>3. DeletionsSound'
      BY <3>1, <3>2, DeletionsKept
    <3>4. QED
      BY <3>1, <3>3 DEF Listing!ClosesWhenGone
  <2>6. CASE Listing!Made \/ Listing!MakeFails
    BY <1>0, <1>3, <2>6 DEF Listing!Made, Listing!MakeFails
  <2>7. ASSUME UNCHANGED <<removing, deleting, listed>> PROVE Good
    BY <1>0, <1>3, <2>7
  <2>8. QED
    BY <1>3, <2>1, <2>2, <2>3, <2>4, <2>5, <2>6, <2>7 DEF Listing!ListingOwn
<1>4. CASE UNCHANGED listingVars
  BY <1>0, <1>4 DEF listingVars
<1>5. QED
  BY <1>1, <1>2, <1>3, <1>4 DEF Listing!ListingNext

LEMMA ListingStart ==
  PagesInit => ListingTyped /\ QueriesSound /\ DeletionsSound
<1> SUFFICES ASSUME PagesInit PROVE ListingTyped /\ QueriesSound /\ DeletionsSound
  OBVIOUS
<1>1. Listing!ListingInit
  BY DEF PagesInit
<1>2. ListingTyped
  BY <1>1, ListingAssumption DEF Listing!ListingInit, ListingTyped, Listing!Entries
<1>3. QueriesSound
  BY <1>1, ListingAssumption DEF Listing!ListingInit, QueriesSound
<1>4. DeletionsSound
  BY <1>1 DEF Listing!ListingInit, DeletionsSound
<1>5. QED
  BY <1>2, <1>3, <1>4

LEMMA ListingIsSound ==
  PagesSpec => [](ListingTyped /\ QueriesSound /\ DeletionsSound)
<1>1. ListingTyped /\ QueriesSound /\ DeletionsSound /\ [PagesNext]_pagesVars =>
        (ListingTyped /\ QueriesSound /\ DeletionsSound)'
  BY PartSteps, ListingTypeStep, QueriesStep, DeletionsStep
<1>2. QED
  BY <1>1, ListingStart, PTL DEF PagesSpec

\* What the page of files shows at rest is what the server has, whatever was deleted,
\* made, asked, answered or failed before, except where the page was not told (FilesPage).
THEOREM ListingIsCurrent == PagesSpec => []ListingCurrent
<1>1. ListingTyped /\ QueriesSound => ListingCurrent
  <2> SUFFICES ASSUME ListingTyped, QueriesSound, removing = {}, making = Nothing,
                      NEW q \in Listing!Active \ behind, fetch[q] = Nothing, data[q] # Nothing
               PROVE  data[q] = Listing!Result(q)
    BY DEF ListingCurrent, Listing!ListingCurrent
  <2>1. q \in Listing!Queries
    BY DEF Listing!Active, Listing!Queries, ListingTyped
  <2>2. ~Unsettled(q)
    BY DEF Unsettled
  <2>3. QED
    BY <2>1, <2>2 DEF QueriesSound
<1>2. QED
  BY <1>1, ListingIsSound, PTL

\* The dialog of a deletion closes by itself only over entries that are gone (FilesPage).
THEOREM DeletionsCloseWhole == PagesSpec => DeletesWhole
<1>1. ListingTyped /\ DeletionsSound /\ [PagesNext]_pagesVars =>
        [Listing!ClosesWhenGone]_listingVars
  BY PartSteps, DeletionsStep
<1>2. QED
  BY <1>1, ListingIsSound, PTL DEF PagesSpec, DeletesWhole

-----------------------------------------------------------------------------
(***************************************************************************)
(* The dialogs over a file.                                                *)
(***************************************************************************)

\* What the editor holds, until the user types or leaves while a request is under way.
EditorSound ==
  /\ cached = [f \in Files |-> cached[f]]
  /\ ~overtaken =>
       /\ creating # Nothing => newOpen
       /\ saving # Nothing => editor # Nothing
       /\ unsaved => editor # Nothing /\ cached[editor] # Nothing /\ value # cached[editor]
       /\ saving # Nothing /\ unsaved =>
            saving.phase = "sent" /\ saving.file = editor /\ saving.text = value

\* Which dialogs are open together.
ModalsTyped ==
  /\ editor \in Files \cup {Nothing} /\ fileName \in Files \cup {Nothing}
  /\ preview \in Files \cup {Nothing} /\ confirm \in BOOLEAN /\ newOpen \in BOOLEAN
  /\ creating # Nothing => fileName # Nothing
  /\ newOpen => editor = Nothing /\ preview = Nothing
  /\ confirm => editor # Nothing
  /\ route \in Files => preview = Nothing

\* The dialog that opened last is the last in Modals.
RegisteredSound ==
  \A m \in Dialogs!OpenModals :
    registered[m].under = {n \in Dialogs!OpenModals : Dialogs!Before(n, m)}

\* Where the browser is, and where it is asked to go, as long as the user waits for it.
BrowserSound ==
  /\ pages \in Seq(Files \cup {Dialogs!Folder, Dialogs!Elsewhere}) /\ Len(pages) <= MaxPages
  /\ at \in 1 .. Len(pages)
  /\ hasty \in BOOLEAN /\ route \in Files \cup {Dialogs!Folder, Dialogs!Elsewhere}
  /\ ~hasty =>
       \/ going = <<>> /\ restoring = Nothing /\ pages[at] = route
       \/ /\ going # <<>> /\ going = <<going[1]>> /\ going[1] \in {-1, 1}
          /\ at + going[1] \in 1 .. Len(pages)
          /\ restoring = Nothing /\ pages[at] = route
       \/ /\ going # <<>> /\ going = <<going[1]>> /\ at + going[1] = restoring
          /\ restoring \in 1 .. Len(pages) /\ pages[restoring] = route

\* Every open dialog belongs to the page that is shown, or is about to be.
IndexesSound ==
  /\ DOMAIN registered = Dialogs!OpenModals
  /\ ~hasty => \A m \in Dialogs!OpenModals : registered[m].index = Dialogs!IndexNow

\* Which dialogs are open.
LEMMA OpenAre ==
  /\ Dialogs!OpenModals \subseteq {"preview", "editor", "confirm", "new"}
  /\ "preview" \in Dialogs!OpenModals <=> preview # Nothing /\ route \notin Files
  /\ "editor" \in Dialogs!OpenModals <=> editor # Nothing
  /\ "confirm" \in Dialogs!OpenModals <=> confirm
  /\ "new" \in Dialogs!OpenModals <=> newOpen
<1>1. Dialogs!ToSet(Dialogs!Modals) = {"preview", "editor", "confirm", "new"}
  BY DEF Dialogs!ToSet, Dialogs!Modals
<1>2. QED
  BY <1>1 DEF Dialogs!OpenModals, Dialogs!FullScreen

\* Which dialogs are open after a step.
LEMMA OpenAreNext ==
  /\ Dialogs!OpenModals' \subseteq {"preview", "editor", "confirm", "new"}
  /\ "preview" \in Dialogs!OpenModals' <=> preview' # Nothing /\ route' \notin Files
  /\ "editor" \in Dialogs!OpenModals' <=> editor' # Nothing
  /\ "confirm" \in Dialogs!OpenModals' <=> confirm'
  /\ "new" \in Dialogs!OpenModals' <=> newOpen'
<1>1. Dialogs!ToSet(Dialogs!Modals) = {"preview", "editor", "confirm", "new"}
  BY DEF Dialogs!ToSet, Dialogs!Modals
<1>2. QED
  BY <1>1 DEF Dialogs!OpenModals, Dialogs!FullScreen

\* The order of the dialogs.
LEMMA BeforeIs ==
  \A m, n \in {"preview", "editor", "confirm", "new"} :
    Dialogs!Before(n, m) <=> \/ n = "preview" /\ m # "preview"
                             \/ n = "editor" /\ m \in {"confirm", "new"}
                             \/ n = "confirm" /\ m = "new"
<1>1. /\ DOMAIN Dialogs!Modals = 1 .. 4
      /\ Dialogs!Modals[1] = "preview" /\ Dialogs!Modals[2] = "editor"
      /\ Dialogs!Modals[3] = "confirm" /\ Dialogs!Modals[4] = "new"
  BY DEF Dialogs!Modals
<1>2. QED
  BY <1>1 DEF Dialogs!Before

\* The dialog on top is the question, the editor, or the only one.
LEMMA ActiveIs ==
  ASSUME ModalsTyped, RegisteredSound, Dialogs!OpenModals # {}
  PROVE  Dialogs!Active \in Dialogs!OpenModals /\ (Dialogs!Active = "editor" => ~confirm)
<1> DEFINE Top(m) == \A n \in Dialogs!OpenModals : m \notin registered[n].under
<1>1. \A m, n \in Dialogs!OpenModals : m \in registered[n].under <=> Dialogs!Before(m, n)
  BY DEF RegisteredSound
<1>2. \E m \in Dialogs!OpenModals : Top(m)
  <2>1. CASE newOpen
    <3>1. Dialogs!OpenModals = {"new"}
      BY <2>1, OpenAre DEF ModalsTyped
    <3>2. QED
      BY <1>1, <3>1, BeforeIs
  <2>2. CASE confirm
    <3>1. "confirm" \in Dialogs!OpenModals /\ "new" \notin Dialogs!OpenModals
      BY <2>2, OpenAre DEF ModalsTyped
    <3>2. QED
      BY <1>1, <3>1, OpenAre, BeforeIs
  <2>3. CASE ~newOpen /\ ~confirm /\ editor # Nothing
    <3>1. "editor" \in Dialogs!OpenModals /\ Dialogs!OpenModals \subseteq {"preview", "editor"}
      BY <2>3, OpenAre
    <3>2. QED
      BY <1>1, <3>1, BeforeIs
  <2>4. CASE ~newOpen /\ ~confirm /\ editor = Nothing
    <3>1. Dialogs!OpenModals = {"preview"}
      BY <2>4, OpenAre
    <3>2. QED
      BY <1>1, <3>1, BeforeIs
  <2>5. QED
    BY <2>1, <2>2, <2>3, <2>4 DEF ModalsTyped
<1>3. Dialogs!Active \in Dialogs!OpenModals /\ Top(Dialogs!Active)
  BY <1>2 DEF Dialogs!Active
<1>4. ASSUME Dialogs!Active = "editor", confirm PROVE FALSE
  <2>1. "confirm" \in Dialogs!OpenModals
    BY <1>4, OpenAre
  <2>2. Dialogs!Before("editor", "confirm")
    BY BeforeIs
  <2>3. QED
    BY <1>1, <1>3, <1>4, <2>1, <2>2
<1>5. QED
  BY <1>3, <1>4

\* What useCloseOnHistoryNavigation does after a step.
LEMMA RegisterIs ==
  ASSUME Dialogs!Register
  PROVE  /\ DOMAIN registered' = Dialogs!OpenModals'
         /\ \A m \in Dialogs!OpenModals' \cap Dialogs!OpenModals :
              /\ registered'[m].index = registered[m].index
              /\ registered'[m].under = registered[m].under \cap Dialogs!OpenModals'
         /\ \A m \in Dialogs!OpenModals' \ Dialogs!OpenModals :
              /\ registered'[m].index = Dialogs!IndexNow'
              /\ registered'[m].under =
                   {n \in Dialogs!OpenModals' : n \in Dialogs!OpenModals \/ Dialogs!Before(n, m)}
  BY DEF Dialogs!Register

\* Closing the dialog on top keeps the types.
LEMMA CloseModalKeeps ==
  ASSUME ModalsTyped, NEW m, m = "editor" => ~confirm, Dialogs!CloseModal(m), UNCHANGED route
  PROVE  ModalsTyped' /\ preview' \in {preview, Nothing}
<1>1. /\ preview' \in {preview, Nothing} /\ newOpen' \in {newOpen, FALSE}
      /\ UNCHANGED <<fileName, creating, route>>
  BY DEF Dialogs!CloseModal
<1>2. CASE m = "editor"
  BY <1>1, <1>2 DEF ModalsTyped, Dialogs!CloseModal, Dialogs!RequestClose, Dialogs!Dirty, Dialogs!Data
<1>3. CASE m # "editor"
  BY <1>1, <1>3 DEF ModalsTyped, Dialogs!CloseModal
<1>4. QED
  BY <1>2, <1>3

\* Which dialogs are open, one step; a preview opens only over none.
LEMMA ModalsTypeStep ==
  ASSUME ModalsTyped, RegisteredSound, [Dialogs!DialogsNext]_dialogsVars
  PROVE  ModalsTyped' /\ (preview' \in {preview, Nothing} \/ Dialogs!OpenModals = {})
<1> DEFINE Good == ModalsTyped' /\ (preview' \in {preview, Nothing} \/ Dialogs!OpenModals = {})
<1> USE DEF Dialogs!browser, Dialogs!dialogs, Dialogs!text, Dialogs!queries
<1>0. ASSUME UNCHANGED <<preview, editor, confirm, newOpen, fileName, route>>,
             creating' = Nothing \/ creating # Nothing \/ fileName # Nothing
      PROVE  Good
  BY <1>0 DEF ModalsTyped
<1>1. ASSUME NEW delta \in {-1, 1}, Dialogs!Press(delta) PROVE Good
  BY <1>0, <1>1 DEF Dialogs!Press
<1>2. CASE Dialogs!OpenFolder
  <2>1. UNCHANGED <<preview, editor, confirm, newOpen, fileName, creating>>
        /\ route' = Dialogs!Elsewhere
    BY <1>2 DEF Dialogs!OpenFolder, Dialogs!Push
  <2>2. QED
    BY <2>1, DialogsAssumption DEF ModalsTyped
<1>3. CASE Dialogs!OpenFullScreen
  BY <1>3 DEF Dialogs!OpenFullScreen, Dialogs!Push, ModalsTyped
<1>4. CASE Dialogs!CloseFullScreen
  <2>1. UNCHANGED <<preview, editor, confirm, newOpen, fileName, creating>>
        /\ route' = Dialogs!Folder
    BY <1>4 DEF Dialogs!CloseFullScreen, Dialogs!ReplacePage
  <2>2. QED
    BY <2>1, DialogsAssumption DEF ModalsTyped
<1>5. CASE Dialogs!ClosePreview
  BY <1>5, CloseModalKeeps DEF Dialogs!ClosePreview
<1>6. ASSUME NEW f \in Files, Dialogs!OpenPreview(f) PROVE Good
  <2>1. /\ Dialogs!OpenModals = {} /\ route = Dialogs!Folder /\ preview' = f
        /\ UNCHANGED <<editor, confirm, newOpen, fileName, route, creating>>
    BY <1>6 DEF Dialogs!OpenPreview, Dialogs!NothingOpen
  <2>2. QED
    BY <2>1, OpenAre, DialogsAssumption DEF ModalsTyped
<1>7. ASSUME NEW f \in Files, Dialogs!Edit(f) PROVE Good
  <2>1. /\ editor = Nothing /\ ~newOpen /\ preview' = Nothing /\ editor' = f
        /\ UNCHANGED <<confirm, newOpen, fileName, creating>>
    BY <1>7 DEF Dialogs!Edit
  <2>2. QED
    BY <2>1, DialogsAssumption DEF ModalsTyped
<1>8. ASSUME NEW f \in Files, Dialogs!TypeName(f) PROVE Good
  BY <1>8, DialogsAssumption DEF Dialogs!TypeName, ModalsTyped
<1>9. ASSUME NEW f \in Files, Dialogs!Foreign(f) PROVE Good
  BY <1>0, <1>9 DEF Dialogs!Foreign
<1>10. ASSUME NEW t \in Texts, Dialogs!Type(t) PROVE Good
  BY <1>0, <1>10 DEF Dialogs!Type
<1>11. CASE Dialogs!Refetch
  BY <1>0, <1>11 DEF Dialogs!Refetch
<1>12. CASE Dialogs!Save
  BY <1>0, <1>12 DEF Dialogs!Save
<1>13. CASE Dialogs!CloseEditor
  BY <1>13, CloseModalKeeps DEF Dialogs!CloseEditor
<1>14. CASE Dialogs!KeepEditing
  BY <1>14, CloseModalKeeps DEF Dialogs!KeepEditing
<1>15. CASE Dialogs!Discard
  BY <1>15 DEF Dialogs!Discard, ModalsTyped
<1>16. CASE Dialogs!OpenNew
  <2>1. /\ Dialogs!OpenModals = {} /\ route = Dialogs!Folder /\ newOpen'
        /\ UNCHANGED <<preview, editor, confirm, fileName, route, creating>> /\ newOpen' \in BOOLEAN
    BY <1>16 DEF Dialogs!OpenNew, Dialogs!NothingOpen
  <2>2. QED
    BY <2>1, OpenAre, DialogsAssumption DEF ModalsTyped
<1>17. CASE Dialogs!CancelNew
  BY <1>17, CloseModalKeeps DEF Dialogs!CancelNew
<1>18. CASE Dialogs!Create
  BY <1>0, <1>18 DEF Dialogs!Create
<1>19. CASE Dialogs!Arrive
  <2>1. CASE Dialogs!OpenModals # {} /\ UNCHANGED route /\ Dialogs!CloseModal(Dialogs!Active)
    BY <2>1, ActiveIs, CloseModalKeeps
  <2>2. CASE /\ UNCHANGED <<preview, editor, confirm, newOpen, fileName, creating>>
             /\ UNCHANGED route \/ Dialogs!OpenModals = {}
    BY <1>0, <2>2, OpenAre DEF ModalsTyped
  <2>3. QED
    BY <1>19, <2>1, <2>2 DEF Dialogs!Arrive
<1>20. ASSUME NEW f \in Files, Dialogs!ServeRead(f) PROVE Good
  BY <1>0, <1>20 DEF Dialogs!ServeRead
<1>21. ASSUME NEW f \in Files, Dialogs!Loaded(f) PROVE Good
  BY <1>0, <1>21 DEF Dialogs!Loaded
<1>22. ASSUME NEW f \in Files, Dialogs!LoadFails(f) PROVE Good
  BY <1>0, <1>22 DEF Dialogs!LoadFails
<1>23. CASE Dialogs!ServeSave
  BY <1>0, <1>23 DEF Dialogs!ServeSave
<1>24. CASE Dialogs!Saved
  BY <1>24 DEF Dialogs!Saved, ModalsTyped
<1>25. CASE Dialogs!SaveFails
  BY <1>0, <1>25 DEF Dialogs!SaveFails
<1>26. CASE Dialogs!ServeCreate
  BY <1>0, <1>26 DEF Dialogs!ServeCreate
<1>27. CASE Dialogs!Created
  <2>1. /\ creating # Nothing /\ creating' = Nothing /\ ~newOpen' /\ newOpen' \in BOOLEAN
        /\ fileName' = Nothing /\ editor' = fileName /\ UNCHANGED <<preview, confirm, route>>
    BY <1>27 DEF Dialogs!Created
  <2>2. QED
    BY <2>1 DEF ModalsTyped
<1>28. CASE Dialogs!CreateFails
  BY <1>0, <1>28 DEF Dialogs!CreateFails
<1>29. CASE UNCHANGED dialogsVars
  BY <1>0, <1>29 DEF dialogsVars
<1>30. CASE Dialogs!UserStep
  BY <1>1, <1>2, <1>3, <1>4, <1>5, <1>6, <1>7, <1>8, <1>9, <1>10, <1>11, <1>12, <1>13, <1>14,
     <1>15, <1>16, <1>17, <1>18, <1>30 DEF Dialogs!UserStep
<1>31. CASE Dialogs!OwnStep
  BY <1>19, <1>20, <1>21, <1>22, <1>23, <1>24, <1>25, <1>26, <1>27, <1>28, <1>31 DEF Dialogs!OwnStep
<1>32. QED
  BY <1>29, <1>30, <1>31 DEF Dialogs!DialogsNext

\* A dialog that opens is over those that stay open.
LEMMA RegisteredStep ==
  ASSUME ModalsTyped, RegisteredSound, ModalsTyped', Dialogs!Register,
         preview' \in {preview, Nothing} \/ Dialogs!OpenModals = {}
  PROVE  RegisteredSound'
<1> SUFFICES ASSUME NEW m \in Dialogs!OpenModals', NEW n \in Dialogs!OpenModals'
             PROVE  n \in registered'[m].under <=> Dialogs!Before(n, m)
  <2>1. \A m \in Dialogs!OpenModals' : registered'[m].under \subseteq Dialogs!OpenModals'
    BY RegisterIs
  <2>2. \A m, n : Dialogs!Before(n, m)' <=> Dialogs!Before(n, m)
    BY DEF Dialogs!Before
  <2>3. QED
    BY <2>1, <2>2 DEF RegisteredSound
<1>1. CASE m \in Dialogs!OpenModals /\ n \in Dialogs!OpenModals
  BY <1>1, RegisterIs DEF RegisteredSound
<1>2. CASE m \notin Dialogs!OpenModals /\ n \notin Dialogs!OpenModals
  BY <1>2, RegisterIs
<1>3. ASSUME NEW new \in Dialogs!OpenModals' \ Dialogs!OpenModals,
             NEW old \in Dialogs!OpenModals' \cap Dialogs!OpenModals
      PROVE  Dialogs!Before(old, new) /\ ~Dialogs!Before(new, old)
  <2>1. {new, old} \subseteq {"preview", "editor", "confirm", "new"}
    BY OpenAre, OpenAreNext
  <2>2. new # "preview"
    BY OpenAre, OpenAreNext DEF ModalsTyped
  <2>3. new = "editor" => old = "preview"
    BY <2>1, OpenAre, OpenAreNext DEF ModalsTyped
  <2>4. new = "confirm" => old \in {"preview", "editor"}
    BY <2>1, OpenAre, OpenAreNext DEF ModalsTyped
  <2>5. new = "new" => old # "new"
    OBVIOUS
  <2>6. QED
    BY <2>1, <2>2, <2>3, <2>4, <2>5, BeforeIs
<1>4. CASE m \notin Dialogs!OpenModals /\ n \in Dialogs!OpenModals
  BY <1>3, <1>4, RegisterIs
<1>5. CASE m \in Dialogs!OpenModals /\ n \notin Dialogs!OpenModals
  <2>1. ~Dialogs!Before(n, m)
    BY <1>3, <1>5
  <2>2. n \notin registered[m].under
    BY <1>5 DEF RegisteredSound
  <2>3. QED
    BY <1>5, <2>1, <2>2, RegisterIs
<1>6. QED
  BY <1>1, <1>2, <1>4, <1>5

\* The browser is left alone, a location replaces another, or one is added with no
\* dialog open, or the user presses a key, or the browser arrives.
LEMMA BrowserMoves ==
  ASSUME ModalsTyped, [Dialogs!DialogsNext]_dialogsVars
  PROVE  \/ UNCHANGED <<pages, at, going, route, restoring, hasty>>
         \/ Dialogs!ReplacePage(Dialogs!Folder)
         \/ \E location \in Files \cup {Dialogs!Elsewhere} :
              Dialogs!Push(location) /\ Dialogs!OpenModals' = {}
         \/ \E delta \in {-1, 1} : Dialogs!Press(delta)
         \/ Dialogs!Arrive
<1> DEFINE Good == \/ UNCHANGED <<pages, at, going, route, restoring, hasty>>
                   \/ Dialogs!ReplacePage(Dialogs!Folder)
                   \/ \E location \in Files \cup {Dialogs!Elsewhere} :
                        Dialogs!Push(location) /\ Dialogs!OpenModals' = {}
                   \/ \E delta \in {-1, 1} : Dialogs!Press(delta)
                   \/ Dialogs!Arrive
<1> USE DEF Dialogs!browser
<1>2. CASE Dialogs!OpenFolder
  <2>1. /\ Dialogs!Push(Dialogs!Elsewhere) /\ Dialogs!OpenModals = {} /\ route \notin Files
        /\ UNCHANGED <<preview, editor, confirm, newOpen>> /\ route' = Dialogs!Elsewhere
    BY <1>2 DEF Dialogs!OpenFolder, Dialogs!Push, Dialogs!NothingOpen, Dialogs!FullScreen,
                Dialogs!dialogs
  <2>2. Dialogs!OpenModals' = {}
    BY <2>1, OpenAre, OpenAreNext
  <2>3. QED
    BY <2>1, <2>2
<1>3. CASE Dialogs!OpenFullScreen
  <2>1. /\ Dialogs!Push(preview) /\ preview # Nothing /\ preview' = Nothing
        /\ editor = Nothing /\ ~newOpen /\ UNCHANGED <<editor, confirm, newOpen>>
    BY <1>3, OpenAre DEF Dialogs!OpenFullScreen
  <2>2. Dialogs!OpenModals' = {}
    BY <2>1, OpenAreNext DEF ModalsTyped
  <2>3. QED
    BY <2>1, <2>2 DEF ModalsTyped
<1>4. CASE Dialogs!CloseFullScreen
  BY <1>4 DEF Dialogs!CloseFullScreen
<1>5. CASE Dialogs!ClosePreview \/ Dialogs!CloseEditor \/ Dialogs!KeepEditing \/ Dialogs!CancelNew
  BY <1>5 DEF Dialogs!ClosePreview, Dialogs!CloseEditor, Dialogs!KeepEditing, Dialogs!CancelNew
<1>6. ASSUME NEW f \in Files, Dialogs!OpenPreview(f) \/ Dialogs!TypeName(f) \/ Dialogs!Foreign(f)
      PROVE  Good
  BY <1>6 DEF Dialogs!OpenPreview, Dialogs!TypeName, Dialogs!Foreign
<1>7. ASSUME NEW f \in Files, Dialogs!Edit(f) PROVE Good
  BY <1>7 DEF Dialogs!Edit
<1>8. ASSUME NEW t \in Texts, Dialogs!Type(t) PROVE Good
  BY <1>8 DEF Dialogs!Type
<1>9. CASE Dialogs!Refetch \/ Dialogs!Save \/ Dialogs!Discard \/ Dialogs!OpenNew \/ Dialogs!Create
  BY <1>9 DEF Dialogs!Refetch, Dialogs!Save, Dialogs!Discard, Dialogs!OpenNew, Dialogs!Create
<1>10. ASSUME NEW f \in Files, Dialogs!ServeRead(f) \/ Dialogs!Loaded(f) \/ Dialogs!LoadFails(f)
       PROVE  Good
  BY <1>10 DEF Dialogs!ServeRead, Dialogs!Loaded, Dialogs!LoadFails
<1>11. CASE \/ Dialogs!ServeSave \/ Dialogs!Saved \/ Dialogs!SaveFails
            \/ Dialogs!ServeCreate \/ Dialogs!Created \/ Dialogs!CreateFails
  BY <1>11 DEF Dialogs!ServeSave, Dialogs!Saved, Dialogs!SaveFails, Dialogs!ServeCreate,
               Dialogs!Created, Dialogs!CreateFails
<1>12. CASE UNCHANGED dialogsVars
  BY <1>12 DEF dialogsVars
<1>13. CASE Dialogs!UserStep
  BY <1>2, <1>3, <1>4, <1>5, <1>6, <1>7, <1>8, <1>9, <1>13 DEF Dialogs!UserStep
<1>14. CASE Dialogs!OwnStep
  BY <1>10, <1>11, <1>14 DEF Dialogs!OwnStep
<1>15. QED
  BY <1>12, <1>13, <1>14 DEF Dialogs!DialogsNext

LEMMA OneMove == \A x : Head(<<x>>) = x /\ Tail(<<x>>) = <<>> /\ Append(<<>>, x) = <<x>>
<1> SUFFICES ASSUME NEW x PROVE Head(<<x>>) = x /\ Tail(<<x>>) = <<>> /\ Append(<<>>, x) = <<x>>
  OBVIOUS
<1>1. <<x>> \in Seq({x}) /\ Len(<<x>>) = 1 /\ <<>> \in Seq({x})
  OBVIOUS
<1>2. Head(<<x>>) = x
  OBVIOUS
<1>3. Tail(<<x>>) = <<>>
  BY <1>1
<1>4. Append(<<>>, x) = <<x>>
  BY <1>1
<1>5. QED
  BY <1>2, <1>3, <1>4

LEMMA NumbersAreThere == \A i \in 1 .. MaxPages : i # Nothing
  BY DialogsAssumption

\* Where the browser is, one step; where the dialogs belong changes only for none.
LEMMA BrowserStep ==
  ASSUME ModalsTyped, RegisteredSound, BrowserSound, IndexesSound,
         [Dialogs!DialogsNext]_dialogsVars
  PROVE  /\ BrowserSound'
         /\ \/ hasty' \/ Dialogs!IndexNow' = Dialogs!IndexNow
            \/ Dialogs!OpenModals \cap Dialogs!OpenModals' = {}
<1> DEFINE Here == Files \cup {Dialogs!Folder, Dialogs!Elsewhere}
<1> DEFINE Good == /\ BrowserSound'
                   /\ \/ hasty' \/ Dialogs!IndexNow' = Dialogs!IndexNow
                      \/ Dialogs!OpenModals \cap Dialogs!OpenModals' = {}
<1>1. /\ pages \in Seq(Here) /\ Len(pages) \in Nat /\ Len(pages) <= MaxPages /\ MaxPages \in Nat
      /\ at \in 1 .. Len(pages) /\ DOMAIN pages = 1 .. Len(pages)
  BY DialogsAssumption DEF BrowserSound
<1>2. \A i \in 1 .. Len(pages) : i # Nothing
  BY <1>1, NumbersAreThere
<1>3. CASE UNCHANGED <<pages, at, going, route, restoring, hasty>>
  BY <1>3 DEF BrowserSound, Dialogs!IndexNow
<1>4. CASE Dialogs!ReplacePage(Dialogs!Folder)
  <2>1. /\ pages' = [pages EXCEPT ![at] = Dialogs!Folder] /\ route' = Dialogs!Folder
        /\ hasty' = (hasty \/ going # <<>>) /\ UNCHANGED <<at, going, restoring>>
    BY <1>4 DEF Dialogs!ReplacePage
  <2>2. pages' \in Seq(Here) /\ Len(pages') = Len(pages) /\ pages'[at] = Dialogs!Folder
    BY <1>1, <2>1
  <2>3. QED
    BY <1>1, <2>1, <2>2 DEF BrowserSound, Dialogs!IndexNow
<1>5. ASSUME NEW location \in Here, Dialogs!Push(location), Dialogs!OpenModals' = {} PROVE Good
  <2>1. /\ at < MaxPages /\ pages' = Append(SubSeq(pages, 1, at), location) /\ at' = at + 1
        /\ route' = location /\ hasty' = (hasty \/ going # <<>>) /\ UNCHANGED <<going, restoring>>
    BY <1>5 DEF Dialogs!Push
  <2>2. SubSeq(pages, 1, at) \in Seq(Here) /\ Len(SubSeq(pages, 1, at)) = at
    BY <1>1
  <2>3. /\ pages' \in Seq(Here) /\ Len(pages') = at + 1 /\ pages'[at + 1] = location
    BY <1>1, <2>1, <2>2
  <2>4. ~hasty' => going' = <<>> /\ restoring' = Nothing
    BY <2>1 DEF BrowserSound
  <2>5. at' \in 1 .. Len(pages') /\ Len(pages') <= MaxPages /\ pages'[at'] = route'
    BY <1>1, <2>1, <2>3
  <2>6. hasty' \in BOOLEAN /\ route' \in Here
    BY <2>1
  <2>7. QED
    BY <1>5, <2>3, <2>4, <2>5, <2>6 DEF BrowserSound
<1>6. ASSUME NEW delta \in {-1, 1}, Dialogs!Press(delta) PROVE Good
  <2>1. /\ at + delta \in DOMAIN pages /\ going' = Append(going, delta)
        /\ hasty' = (hasty \/ going # <<>>) /\ UNCHANGED <<pages, at, route, restoring>>
    BY <1>6 DEF Dialogs!Press
  <2>2. CASE hasty'
    BY <2>1, <2>2 DEF BrowserSound
  <2>3. CASE ~hasty'
    <3>0. going = <<>> /\ ~hasty
      BY <2>1, <2>3
    <3>1. going' = <<delta>>
      BY <2>1, <3>0, OneMove
    <3>2. going' # <<>> /\ going'[1] = delta
      BY <3>1
    <3>3. QED
      BY <1>1, <2>1, <3>0, <3>1, <3>2 DEF BrowserSound, Dialogs!IndexNow
  <2>4. QED
    BY <2>2, <2>3
<1>7. CASE Dialogs!Arrive
  <2> DEFINE target == at + Head(going)
  <2>1. going # <<>> /\ UNCHANGED <<pages, hasty>>
    BY <1>7 DEF Dialogs!Arrive
  <2>2. CASE hasty
    <3>0. /\ at' = at \/ at' \in DOMAIN pages
          /\ route' = route \/ \E i \in DOMAIN pages : route' = pages[i]
      BY <1>7 DEF Dialogs!Arrive
    <3>3. \A i \in DOMAIN pages : pages[i] \in Here
      BY <1>1
    <3>4. route \in Here
      BY DEF BrowserSound
    <3>1. at' \in 1 .. Len(pages) /\ route' \in Here
      BY <1>1, <3>0, <3>3, <3>4
    <3>2. QED
      BY <2>1, <2>2, <3>1 DEF BrowserSound
  <2>3. CASE ~hasty
    <3>0. going = <<going[1]>>
      BY <2>1, <2>3 DEF BrowserSound
    <3>1. going = <<going[1]>> /\ target = at + going[1] /\ Tail(going) = <<>>
      BY <3>0, OneMove
    <3>2. target \in 1 .. Len(pages)
      BY <1>1, <2>1, <2>3, <3>1 DEF BrowserSound
    <3>3. CASE target = restoring
      <4>1. at' = target /\ going' = <<>> /\ restoring' = Nothing /\ route' = route
        BY <1>1, <1>7, <3>1, <3>2, <3>3 DEF Dialogs!Arrive
      <4>2. pages[target] = route
        BY <1>2, <2>1, <2>3, <3>1, <3>2, <3>3 DEF BrowserSound
      <4>3. Dialogs!IndexNow' = Dialogs!IndexNow
        BY <1>2, <3>2, <3>3, <4>1 DEF Dialogs!IndexNow
      <4>4. QED
        BY <1>1, <2>1, <2>3, <3>2, <4>1, <4>2, <4>3 DEF BrowserSound
    <3>4. CASE target # restoring /\ Dialogs!OpenModals = {}
      <4>1. at' = target /\ going' = <<>> /\ restoring' = restoring /\ route' = pages[target]
        BY <1>1, <1>7, <3>1, <3>2, <3>4 DEF Dialogs!Arrive
      <4>2. restoring = Nothing
        BY <2>1, <2>3, <3>1, <3>4 DEF BrowserSound
      <4>3. QED
        BY <1>1, <2>1, <2>3, <3>2, <3>4, <4>1, <4>2 DEF BrowserSound
    <3>5. CASE target # restoring /\ Dialogs!OpenModals # {}
      <4> DEFINE home == registered[Dialogs!Active].index
      <4>1. /\ restoring = Nothing /\ pages[at] = route /\ going[1] \in {-1, 1}
        BY <2>1, <2>3, <3>1, <3>5 DEF BrowserSound
      <4>2. home = at
        BY <2>3, <3>5, <4>1, ActiveIs DEF IndexesSound, Dialogs!IndexNow
      <4>3. target # at
        BY <1>1, <3>1, <4>1
      <4>4. /\ at' = target /\ restoring' = home /\ going' = Append(Tail(going), home - target)
            /\ route' = route
        BY <1>1, <1>7, <3>1, <3>2, <3>5, <4>2, <4>3 DEF Dialogs!Arrive
      <4>5. going' = <<at - target>>
        BY <3>1, <4>2, <4>4, OneMove
      <4>9. going' # <<>> /\ going'[1] = at - target
        BY <4>5
      <4>10. target + (at - target) = at
        BY <1>1, <3>2
      <4>6. going' # <<>> /\ going'[1] = at - target /\ at' + going'[1] = restoring'
        BY <4>2, <4>4, <4>9, <4>10
      <4>7. Dialogs!IndexNow' = at /\ Dialogs!IndexNow = at
        BY <1>1, <1>2, <4>1, <4>2, <4>4 DEF Dialogs!IndexNow
      <4>8. QED
        BY <1>1, <2>1, <2>3, <3>2, <4>1, <4>2, <4>4, <4>5, <4>6, <4>7 DEF BrowserSound
    <3>6. QED
      BY <3>3, <3>4, <3>5
  <2>4. QED
    BY <2>2, <2>3
<1>8. QED
  BY <1>3, <1>4, <1>5, <1>6, <1>7, BrowserMoves

\* Where the dialogs belong, one step.
LEMMA IndexesStep ==
  ASSUME ModalsTyped, RegisteredSound, BrowserSound, IndexesSound,
         Dialogs!DialogsNext
  PROVE  IndexesSound'
<1>1. /\ Dialogs!Register
      /\ \/ hasty' \/ Dialogs!IndexNow' = Dialogs!IndexNow
         \/ Dialogs!OpenModals \cap Dialogs!OpenModals' = {}
  BY BrowserStep DEF Dialogs!DialogsNext
<1>2. hasty => hasty'
  BY BrowserMoves DEF Dialogs!ReplacePage, Dialogs!Push, Dialogs!Press, Dialogs!Arrive
<1>3. QED
  BY <1>1, <1>2, RegisterIs DEF IndexesSound

\* The text in the editor, one step; and how it is left.
LEMMA EditorStep ==
  ASSUME ModalsTyped, RegisteredSound, EditorSound, [Dialogs!DialogsNext]_dialogsVars
  PROVE  EditorSound' /\ [Dialogs!LeavesSaved]_dialogsVars
<1> DEFINE Good == EditorSound' /\ [Dialogs!LeavesSaved]_dialogsVars
<1> USE DEF Dialogs!browser, Dialogs!dialogs, Dialogs!text, Dialogs!queries
<1>0. ASSUME UNCHANGED <<editor, value, cached, unsaved, overtaken>>,
             newOpen => newOpen' \/ creating = Nothing,
             creating' # Nothing => creating # Nothing \/ newOpen',
             saving' = saving \/ saving' = Nothing
      PROVE  Good
  BY <1>0 DEF EditorSound, Dialogs!LeavesSaved
<1>1. ASSUME overtaken', cached' = [f \in Files |-> cached'[f]],
             overtaken \/ editor' = editor \/ ~unsaved
      PROVE  Good
  BY <1>1 DEF EditorSound, Dialogs!LeavesSaved
<1>2. ASSUME NEW m, Dialogs!CloseModal(m), m = "editor" => ~confirm PROVE Good
  <2>1. /\ UNCHANGED <<value, cached, saving, creating>>
        /\ newOpen' = (IF m = "new" THEN FALSE ELSE newOpen)
        /\ overtaken' = (overtaken \/ (m = "new" /\ creating # Nothing))
        /\ unsaved' = (unsaved /\ editor' # Nothing)
    BY <1>2 DEF Dialogs!CloseModal
  <2>2. \/ editor' = editor
        \/ editor' = Nothing /\ saving = Nothing /\ (editor # Nothing => ~Dialogs!Dirty)
    BY <1>2 DEF Dialogs!CloseModal, Dialogs!RequestClose
  <2>3. CASE overtaken'
    <3>1. overtaken \/ editor' = editor
      BY <1>2, <2>1, <2>3 DEF Dialogs!CloseModal
    <3>2. QED
      BY <1>1, <2>1, <2>3, <3>1 DEF EditorSound
  <2>4. CASE ~overtaken'
    <3>1. ~overtaken /\ (m = "new" => creating = Nothing)
      BY <2>1, <2>4
    <3>2. editor' = Nothing /\ editor # Nothing => ~unsaved
      BY <2>2, <3>1 DEF EditorSound, Dialogs!Dirty, Dialogs!Data
    <3>3. QED
      BY <2>1, <2>2, <3>1, <3>2 DEF EditorSound, Dialogs!LeavesSaved
  <2>5. QED
    BY <2>3, <2>4
<1>3. ASSUME NEW delta \in {-1, 1}, Dialogs!Press(delta) PROVE Good
  BY <1>0, <1>3 DEF Dialogs!Press
<1>4. CASE Dialogs!OpenFolder
  BY <1>0, <1>4 DEF Dialogs!OpenFolder
<1>5. CASE Dialogs!OpenFullScreen
  BY <1>0, <1>5 DEF Dialogs!OpenFullScreen
<1>6. CASE Dialogs!CloseFullScreen
  BY <1>0, <1>6 DEF Dialogs!CloseFullScreen
<1>7. CASE Dialogs!ClosePreview
  BY <1>2, <1>7 DEF Dialogs!ClosePreview
<1>8. ASSUME NEW f \in Files, Dialogs!OpenPreview(f) PROVE Good
  BY <1>0, <1>8 DEF Dialogs!OpenPreview
<1>9. ASSUME NEW f \in Files, Dialogs!Edit(f) PROVE Good
  <2>1. /\ editor = Nothing /\ editor' = f /\ unsaved' = FALSE
        /\ UNCHANGED <<newOpen, saving, creating, overtaken, cached>>
    BY <1>9 DEF Dialogs!Edit, Dialogs!EditText, Dialogs!OpenQuery
  <2>2. QED
    BY <2>1 DEF EditorSound, Dialogs!LeavesSaved
<1>10. ASSUME NEW f \in Files, Dialogs!TypeName(f) PROVE Good
  <2>1. /\ UNCHANGED <<editor, value, cached, unsaved, newOpen, creating, saving>>
        /\ overtaken' = (overtaken \/ creating # Nothing)
    BY <1>10 DEF Dialogs!TypeName
  <2>2. QED
    BY <2>1 DEF EditorSound, Dialogs!LeavesSaved
<1>11. ASSUME NEW f \in Files, Dialogs!Foreign(f) PROVE Good
  BY <1>0, <1>11 DEF Dialogs!Foreign
<1>12. ASSUME NEW t \in Texts, Dialogs!Type(t) PROVE Good
  <2>1. /\ editor # Nothing /\ cached[editor] # Nothing /\ value' = t
        /\ unsaved' = (t # cached[editor]) /\ overtaken' = (overtaken \/ saving # Nothing)
        /\ UNCHANGED <<editor, cached, newOpen, creating, saving>>
    BY <1>12 DEF Dialogs!Type, Dialogs!Data
  <2>2. QED
    BY <2>1 DEF EditorSound, Dialogs!LeavesSaved
<1>13. CASE Dialogs!Refetch
  BY <1>0, <1>13 DEF Dialogs!Refetch
<1>14. CASE Dialogs!Save
  <2>1. PICK it : it = [file |-> editor, text |-> value, phase |-> "sent"]
    OBVIOUS
  <2>2. /\ editor # Nothing /\ saving' = it
        /\ UNCHANGED <<editor, value, cached, unsaved, overtaken, newOpen, creating>>
    BY <1>14, <2>1 DEF Dialogs!Save
  <2>3. it.file = editor /\ it.text = value /\ it.phase = "sent"
    BY <2>1
  <2>4. QED
    BY <2>2, <2>3 DEF EditorSound, Dialogs!LeavesSaved
<1>15. CASE Dialogs!CloseEditor
  BY <1>2, <1>15 DEF Dialogs!CloseEditor
<1>16. CASE Dialogs!KeepEditing
  BY <1>2, <1>16 DEF Dialogs!KeepEditing
<1>17. CASE Dialogs!Discard
  <2>1. /\ unsaved' = FALSE /\ overtaken' = (overtaken \/ saving # Nothing)
        /\ UNCHANGED <<cached, newOpen, creating, saving>>
    BY <1>17 DEF Dialogs!Discard
  <2>2. QED
    BY <1>17, <2>1 DEF EditorSound, Dialogs!LeavesSaved
<1>18. CASE Dialogs!OpenNew
  BY <1>0, <1>18 DEF Dialogs!OpenNew
<1>19. CASE Dialogs!CancelNew
  BY <1>2, <1>19 DEF Dialogs!CancelNew
<1>20. CASE Dialogs!Create
  BY <1>0, <1>20 DEF Dialogs!Create
<1>21. CASE Dialogs!Arrive
  <2>1. CASE Dialogs!OpenModals # {} /\ Dialogs!CloseModal(Dialogs!Active)
    BY <1>2, <2>1, ActiveIs
  <2>2. CASE UNCHANGED <<editor, newOpen, value, unsaved, cached, saving, creating, overtaken>>
    BY <1>0, <2>2
  <2>3. QED
    BY <1>21, <2>1, <2>2 DEF Dialogs!Arrive
<1>22. ASSUME NEW f \in Files, Dialogs!ServeRead(f) PROVE Good
  BY <1>0, <1>22 DEF Dialogs!ServeRead
<1>23. ASSUME NEW f \in Files, Dialogs!Loaded(f) PROVE Good
  <2>1. /\ cached' = [cached EXCEPT ![f] = reading[f]] /\ reading[f] # Nothing
        /\ IF editor = f /\ cached[f] # reading[f]
           THEN unsaved' = FALSE ELSE UNCHANGED <<value, unsaved>>
        /\ UNCHANGED <<editor, newOpen, saving, creating, overtaken>>
    BY <1>23 DEF Dialogs!Loaded
  <2>2. cached' = [g \in Files |-> cached'[g]]
    BY <2>1 DEF EditorSound
  <2>3. \A g \in Files : g # f => cached'[g] = cached[g]
    BY <2>1 DEF EditorSound
  <2>4. cached'[f] = reading[f]
    BY <2>1 DEF EditorSound
  <2>5. QED
    BY <2>1, <2>2, <2>3, <2>4 DEF EditorSound, ModalsTyped, Dialogs!LeavesSaved
<1>24. ASSUME NEW f \in Files, Dialogs!LoadFails(f) PROVE Good
  BY <1>0, <1>24 DEF Dialogs!LoadFails
<1>25. CASE Dialogs!ServeSave
  <2>1. /\ saving # Nothing
        /\ unsaved' = (unsaved /\ ~(editor = saving.file /\ value = saving.text))
        /\ UNCHANGED <<editor, value, cached, newOpen, creating, overtaken>>
    BY <1>25 DEF Dialogs!ServeSave
  <2>2. QED
    BY <2>1 DEF EditorSound, Dialogs!LeavesSaved
<1>26. CASE Dialogs!Saved
  <2>1. /\ saving # Nothing /\ saving.phase = "stored" /\ saving' = Nothing
        /\ cached' = cached \/ cached' = [cached EXCEPT ![editor] = value]
        /\ editor' = Nothing /\ unsaved' = FALSE
        /\ UNCHANGED <<newOpen, creating, overtaken>>
    BY <1>26 DEF Dialogs!Saved
  <2>2. cached' = [g \in Files |-> cached'[g]]
    BY <2>1 DEF EditorSound
  <2>3. QED
    BY <2>1, <2>2 DEF EditorSound, Dialogs!LeavesSaved
<1>27. CASE Dialogs!SaveFails
  BY <1>0, <1>27 DEF Dialogs!SaveFails
<1>28. CASE Dialogs!ServeCreate
  BY <1>0, <1>28 DEF Dialogs!ServeCreate
<1>29. CASE Dialogs!Created
  <2>1. /\ creating # Nothing /\ creating' = Nothing /\ editor' = fileName /\ unsaved' = FALSE
        /\ UNCHANGED <<cached, saving, overtaken>>
    BY <1>29 DEF Dialogs!Created, Dialogs!EditText, Dialogs!OpenQuery
  <2>2. ~overtaken => editor = Nothing /\ fileName # Nothing
    BY <2>1 DEF EditorSound, ModalsTyped
  <2>3. QED
    BY <2>1, <2>2 DEF EditorSound, Dialogs!LeavesSaved
<1>30. CASE Dialogs!CreateFails
  BY <1>0, <1>30 DEF Dialogs!CreateFails
<1>31. CASE UNCHANGED dialogsVars
  BY <1>0, <1>31 DEF dialogsVars
<1>32. CASE Dialogs!UserStep
  BY <1>3, <1>4, <1>5, <1>6, <1>7, <1>8, <1>9, <1>10, <1>11, <1>12, <1>13, <1>14, <1>15, <1>16,
     <1>17, <1>18, <1>19, <1>20, <1>32 DEF Dialogs!UserStep
<1>33. CASE Dialogs!OwnStep
  BY <1>21, <1>22, <1>23, <1>24, <1>25, <1>26, <1>27, <1>28, <1>29, <1>30, <1>33
     DEF Dialogs!OwnStep
<1>34. QED
  BY <1>31, <1>32, <1>33 DEF Dialogs!DialogsNext

DialogsSound ==
  ModalsTyped /\ RegisteredSound /\ BrowserSound /\ IndexesSound /\ EditorSound

LEMMA DialogsStart == PagesInit => DialogsSound
<1> SUFFICES ASSUME PagesInit PROVE DialogsSound
  OBVIOUS
<1>1. Dialogs!DialogsInit
  BY DEF PagesInit
<1>2. Dialogs!OpenModals = {}
  BY <1>1, OpenAre DEF Dialogs!DialogsInit
<1>3. ModalsTyped
  BY <1>1, DialogsAssumption DEF Dialogs!DialogsInit, ModalsTyped
<1>4. RegisteredSound
  BY <1>2 DEF RegisteredSound
<1>5. BrowserSound
  <2>1. /\ pages = <<Dialogs!Elsewhere, Dialogs!Folder>> /\ at = 2 /\ going = <<>>
        /\ restoring = Nothing /\ route = Dialogs!Folder /\ hasty = FALSE
    BY <1>1 DEF Dialogs!DialogsInit
  <2>2. pages \in Seq(Files \cup {Dialogs!Folder, Dialogs!Elsewhere}) /\ Len(pages) = 2
    BY <2>1
  <2>3. 2 <= MaxPages
    BY DialogsAssumption
  <2>4. at \in 1 .. Len(pages) /\ Len(pages) <= MaxPages /\ pages[at] = route
    BY <2>1, <2>2, <2>3, DialogsAssumption
  <2>5. hasty \in BOOLEAN /\ route \in Files \cup {Dialogs!Folder, Dialogs!Elsewhere}
    BY <2>1
  <2>6. QED
    BY <2>1, <2>2, <2>4, <2>5 DEF BrowserSound
<1>6. IndexesSound
  BY <1>1, <1>2 DEF Dialogs!DialogsInit, IndexesSound
<1>7. EditorSound
  BY <1>1 DEF Dialogs!DialogsInit, EditorSound
<1>8. QED
  BY <1>3, <1>4, <1>5, <1>6, <1>7 DEF DialogsSound

LEMMA DialogsStep == DialogsSound /\ [PagesNext]_pagesVars => DialogsSound'
<1> SUFFICES ASSUME DialogsSound, [Dialogs!DialogsNext]_dialogsVars PROVE DialogsSound'
  BY PartSteps
<1>1. CASE Dialogs!DialogsNext
  <2>1. Dialogs!Register
    BY <1>1 DEF Dialogs!DialogsNext
  <2>2. ModalsTyped' /\ (preview' \in {preview, Nothing} \/ Dialogs!OpenModals = {})
    BY ModalsTypeStep DEF DialogsSound
  <2>3. RegisteredSound'
    BY <2>1, <2>2, RegisteredStep DEF DialogsSound
  <2>4. BrowserSound' /\ IndexesSound'
    BY <1>1, BrowserStep, IndexesStep DEF DialogsSound
  <2>5. EditorSound'
    BY EditorStep DEF DialogsSound
  <2>6. QED
    BY <2>2, <2>3, <2>4, <2>5 DEF DialogsSound
<1>2. CASE UNCHANGED dialogsVars
  <2>1. Dialogs!OpenModals' = Dialogs!OpenModals /\ Dialogs!IndexNow' = Dialogs!IndexNow
    BY <1>2 DEF dialogsVars, Dialogs!OpenModals, Dialogs!FullScreen, Dialogs!IndexNow
  <2>2. \A m, n : Dialogs!Before(n, m)' <=> Dialogs!Before(n, m)
    BY DEF Dialogs!Before
  <2>3. RegisteredSound' /\ IndexesSound'
    BY <1>2, <2>1, <2>2 DEF dialogsVars, DialogsSound, RegisteredSound, IndexesSound
  <2>4. ModalsTyped' /\ BrowserSound' /\ EditorSound'
    BY ModalsTypeStep, BrowserStep, EditorStep DEF DialogsSound
  <2>5. QED
    BY <2>3, <2>4 DEF DialogsSound
<1>3. QED
  BY <1>1, <1>2

\* Once the browser has settled it is at the location the page shows, and every open
\* dialog belongs to it, so that Back closes a dialog and keeps the page, however the
\* dialogs were opened and closed before (modalNavigation).
THEOREM BackStays == PagesSpec => []BackKeepsPlace
<1>1. DialogsSound => BackKeepsPlace
  <2> SUFFICES ASSUME DialogsSound, going = <<>>, ~hasty
               PROVE  /\ pages[at] = route /\ restoring = Nothing
                      /\ \A m \in DOMAIN registered : registered[m].index = at
    BY DEF BackKeepsPlace, Dialogs!BackKeepsPlace
  <2>1. pages[at] = route /\ restoring = Nothing
    BY DEF DialogsSound, BrowserSound
  <2>2. QED
    BY <2>1 DEF DialogsSound, IndexesSound, Dialogs!IndexNow
<1>2. QED
  BY <1>1, DialogsStart, DialogsStep, PTL DEF PagesSpec

\* The editor is left with text that is stored nowhere only by Discard (FileEditorDialog).
THEOREM NothingLeftUnsaved == PagesSpec => LeavesNothingUnsaved
<1>1. DialogsSound /\ [PagesNext]_pagesVars => [Dialogs!LeavesSaved]_dialogsVars
  BY PartSteps, EditorStep DEF DialogsSound
<1>2. QED
  BY <1>1, DialogsStart, DialogsStep, PTL DEF PagesSpec, LeavesNothingUnsaved

=============================================================================
