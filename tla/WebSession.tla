----------------------------- MODULE WebSession -----------------------------
(***************************************************************************)
(* Signing in and out of the web interface (src/frontend/src/auth, App,    *)
(* LoginPage, SetupPage and the request function of api/client): what the  *)
(* page believes of its session while requests are answered late, fail or  *)
(* are refused, deadlines pass, the server forgets sessions, other tabs    *)
(* share the cookie and the page is reloaded; and where the user is taken. *)
(*                                                                         *)
(* A session stands for its cookie and for its CSRF token, which the       *)
(* server pairs.                                                           *)
(***************************************************************************)
EXTENDS Naturals, FiniteSets

CONSTANTS
  Sessions,  \* what the server can issue
  Gets,      \* GET /session calls that can be under way together
  Private,   \* locations only an owner sees
  Startup,   \* the one of the startup directory
  MaxCalls,  \* a bound on the requests under way together
  None

Slots == Gets \cup {"login", "logout", "password", "private"}

ASSUME SessionAssumption ==
  /\ Startup \in Private /\ Sessions # {}
  /\ None \notin Sessions \cup Private
  /\ Private \cap {"login", "setup", "elsewhere"} = {}
  /\ IsFiniteSet(Gets) /\ MaxCalls \in Nat
  /\ Gets \cap {"login", "logout", "password", "private"} = {}

VARIABLES
  status,    \* AuthProvider.status
  shown,     \* AuthProvider.session
  initial,   \* its setupRequired
  error,     \* whether validationError is set
  token,     \* csrfToken of api/client
  call,      \* the requests under way
  loc,       \* where the router is: login, setup, elsewhere or private
  returnTo,  \* the location's state
  landing,   \* where a form still navigates, after offerToSavePassword
  cookie,    \* the browser's cookie
  live,      \* the sessions the server knows
  issued,    \* the sessions it has issued
  past,      \* those whose absolute deadline has passed
  setup,     \* whether the owner must still choose a password
  asked,     \* the location the user asked for last
  mislaid    \* the page has lost it, or a form will lead away from it

auth == <<status, shown, initial, error, token>>
wish == <<asked, mislaid>>
router == <<loc, returnTo, landing, wish>>
server == <<live, issued, past, setup>>
vars == <<auth, call, router, cookie, server>>

-----------------------------------------------------------------------------
Requests == [with : Sessions \cup {None}, token : Sessions \cup {None},
             answer : {"none", "ok", "initial", "denied", "refused"},
             new : Sessions \cup {None}, to : Private \cup {None}]

TypeOK ==
  /\ status \in {"checking", "anonymous", "authenticated"}
  /\ shown \in Sessions \cup {None}
  /\ initial \in BOOLEAN /\ error \in BOOLEAN
  /\ token \in Sessions \cup {None}
  /\ call \in [Slots -> Requests \cup {None}]
  /\ loc \in Private \cup {"login", "setup", "elsewhere"}
  /\ returnTo \in Private \cup {None}
  /\ landing \in Private \cup {None}
  /\ cookie \in Sessions \cup {None}
  /\ live \in SUBSET Sessions /\ issued \in SUBSET Sessions /\ past \in SUBSET Sessions
  /\ setup \in BOOLEAN
  /\ asked \in Private /\ mislaid \in BOOLEAN

\* A request carries the cookie and, if it changes something, the token; a
\* login is judged by neither.
Request(slot) ==
  [with |-> IF slot = "login" THEN None ELSE cookie,
   token |-> IF slot \in {"logout", "password"} THEN token ELSE None,
   answer |-> "none", new |-> None, to |-> None]

\* The page is loaded: AuthProvider asks for the session.
Load(at, state) ==
  /\ status' = "checking" /\ shown' = None /\ initial' = FALSE
  /\ error' = FALSE /\ token' = None
  /\ loc' = at /\ returnTo' = state /\ landing' = None
  /\ \E g \in Gets :
       call' = [s \in Slots |-> IF s = g THEN Request(g) ELSE None]

\* The sessions are alike: a new one is the first that was not issued.
Fresh(old) == CHOOSE s \in Sessions : s \notin old

Init ==
  /\ status = "checking" /\ shown = None /\ initial = FALSE
  /\ error = FALSE /\ token = None
  /\ loc \in Private \cup {"login", "elsewhere"}
  /\ returnTo = None /\ landing = None
  /\ asked = (IF loc \in Private THEN loc ELSE Startup) /\ mislaid = FALSE
  /\ setup \in BOOLEAN
  /\ \/ cookie = None /\ live = {} /\ issued = {}
     \/ cookie = Fresh({}) /\ issued = {cookie} /\ live \in {issued, {}}
  /\ past = {}
  /\ \E g \in Gets : call = [s \in Slots |-> IF s = g THEN Request(g) ELSE None]

\* The user loads the page again, or with another address.
Reload ==
  /\ Load(loc, returnTo)
  /\ UNCHANGED <<wish, cookie, server>>

Visit(at) ==
  /\ Load(at, None)
  /\ asked' = (IF at \in Private THEN at ELSE Startup) /\ mislaid' = FALSE
  /\ UNCHANGED <<cookie, server>>

-----------------------------------------------------------------------------
\* Sending.

\* A form keeps where it will lead.
Send(slot, to) ==
  /\ call[slot] = None
  /\ Cardinality({s \in Slots : call[s] # None}) < MaxCalls
  /\ call' = [call EXCEPT ![slot] = [Request(slot) EXCEPT !.to = to]]

\* Where a location's state leads after signing in.
Destination == IF returnTo # None THEN returnTo ELSE Startup

\* refresh: when the tab becomes visible, with the Retry and Reconnect buttons,
\* and once when the idle deadline passes.
Refresh(g) ==
  /\ status = "authenticated" \/ error
  /\ Send(g, None)
  /\ UNCHANGED <<auth, router, cookie, server>>

SubmitLogin ==
  /\ status = "anonymous" /\ loc = "login"
  /\ Send("login", Destination)
  /\ UNCHANGED <<auth, router, cookie, server>>

ClickLogout ==
  /\ status = "authenticated" /\ ~initial /\ loc \in Private
  /\ Send("logout", None)
  /\ UNCHANGED <<auth, router, cookie, server>>

\* The setup form, or the password form of the settings.
SubmitPassword ==
  /\ status = "authenticated"
  /\ \/ initial /\ loc = "setup" /\ Send("password", Destination)
     \/ ~initial /\ loc \in Private /\ Send("password", None)
  /\ UNCHANGED <<auth, router, cookie, server>>

\* Any other request of a private page.
PrivateCall ==
  /\ status = "authenticated" /\ ~initial /\ loc \in Private
  /\ Send("private", None)
  /\ UNCHANGED <<auth, router, cookie, server>>

-----------------------------------------------------------------------------
\* The server.

Answer(slot, a, new) ==
  /\ call[slot] # None /\ call[slot].answer = "none"
  /\ call' = [call EXCEPT ![slot] =
                 [with |-> None, token |-> None, answer |-> a, new |-> new, to |-> @.to]]

Known(slot) == call[slot] # None /\ call[slot].with \in live

\* A cookie it does not know is refused with 401.
Deny(slot) ==
  /\ slot # "login" /\ ~Known(slot)
  /\ Answer(slot, "denied", None)
  /\ UNCHANGED server

\* So is a wrong password, in a login or a change of password.
WrongPassword(slot) ==
  /\ slot = "login" \/ (slot = "password" /\ Known(slot) /\ ~setup)
  /\ Answer(slot, "denied", None)
  /\ UNCHANGED server

\* Another error, a token that is not the cookie's among them; to a login or
\* a call of a private page it is as good as any answer.
RefuseCall(slot) ==
  /\ slot \notin {"login", "private"} /\ Known(slot)
  /\ Answer(slot, "refused", None)
  /\ UNCHANGED server

Paired(slot) == Known(slot) /\ call[slot].token = call[slot].with

\* A session tells whether the owner must still choose a password.
Outcome == IF setup THEN "initial" ELSE "ok"

Issue(kept) ==
  /\ issued # Sessions
  /\ live' = kept \cup {Fresh(issued)} /\ issued' = issued \cup {Fresh(issued)}

Accept(slot) ==
  \/ /\ slot \in Gets \cup {"private"} /\ Known(slot)
     /\ IF slot = "private" THEN Answer(slot, "ok", None)
                          ELSE Answer(slot, Outcome, call[slot].with)
     /\ UNCHANGED server
  \/ /\ slot = "login"
     /\ Issue(live)
     /\ Answer(slot, Outcome, Fresh(issued))
     /\ UNCHANGED <<past, setup>>
  \/ /\ slot = "logout" /\ Paired(slot)
     /\ live' = live \ {call[slot].with}
     /\ Answer(slot, "ok", None)
     /\ UNCHANGED <<issued, past, setup>>
  \/ /\ slot = "password" /\ Paired(slot)
     /\ Issue({})
     /\ Answer(slot, "ok", Fresh(issued))
     /\ setup' = FALSE
     /\ UNCHANGED past

Serve(slot) ==
  /\ Deny(slot) \/ WrongPassword(slot) \/ RefuseCall(slot) \/ Accept(slot)
  /\ UNCHANGED <<auth, router, cookie>>

\* The server forgets a session: idle too long, logged out or revoked
\* elsewhere; and at its absolute deadline in any case.
Forget(s) ==
  /\ s \in live
  /\ live' = live \ {s}
  /\ UNCHANGED <<auth, call, router, cookie, issued, past, setup>>

Deadline(s) ==
  /\ s \in issued \ past
  /\ past' = past \cup {s} /\ live' = live \ {s}
  /\ UNCHANGED <<auth, call, router, cookie, issued, setup>>

\* Another tab logs in or out: the browser's cookie changes.
OtherTab ==
  /\ \/ Issue(live) /\ cookie' = Fresh(issued)
     \/ /\ cookie # None /\ cookie' = None
        /\ live' = live \ {cookie} /\ UNCHANGED issued
  /\ UNCHANGED <<auth, call, router, past, setup>>

-----------------------------------------------------------------------------
\* Answers.

BecomeAnonymous ==
  /\ status' = "anonymous" /\ shown' = None /\ initial' = FALSE
  /\ error' = FALSE

Show(s, first) ==
  /\ status' = "authenticated" /\ shown' = s /\ initial' = first
  /\ error' = FALSE

\* The token that comes with an answer is the one the next request sends.
SetCsrfFrom(s) == token' = s

Take(slot, as) ==
  /\ call[slot] # None /\ call[slot].answer \in as
  /\ call' = [call EXCEPT ![slot] = None]

\* GET /session: a 401 ends the session for the page, another failure only
\* tells the user.
Refreshed(g) ==
  /\ \/ /\ Take(g, {"ok", "initial"})
        /\ Show(call[g].new, call[g].answer = "initial") /\ SetCsrfFrom(call[g].new)
     \/ /\ Take(g, {"denied"})
        /\ BecomeAnonymous /\ UNCHANGED token
     \/ /\ Take(g, {"refused"})
        /\ error' = TRUE /\ UNCHANGED <<status, shown, initial, token>>
  /\ UNCHANGED <<router, cookie, server>>

\* A 401 to any call but GET /session and login: the token is dropped and
\* the page becomes anonymous, whichever session the call was made with.
Unauthorized(slot) ==
  /\ slot \in {"logout", "password", "private"}
  /\ Take(slot, {"denied"})
  /\ token' = None /\ BecomeAnonymous
  /\ UNCHANGED <<router, cookie, server>>

\* The login form goes to the setup, or where the user wanted to be once the
\* password was offered to the browser's store; App redirects there first.
LoggedIn ==
  /\ Take("login", {"ok", "initial"})
  /\ cookie' = call["login"].new /\ SetCsrfFrom(call["login"].new)
  /\ Show(call["login"].new, call["login"].answer = "initial")
  /\ \/ /\ call["login"].answer = "initial"
        /\ loc' = "setup" /\ returnTo' = call["login"].to
        /\ UNCHANGED landing
     \/ /\ call["login"].answer = "ok"
        /\ landing' = call["login"].to
        /\ UNCHANGED <<loc, returnTo>>
  /\ UNCHANGED <<wish, server>>

\* logout: whatever the answer, the page becomes anonymous; a 401 besides is
\* Unauthorized's.
LoggedOut ==
  /\ \/ Take("logout", {"ok"}) /\ cookie' = None /\ token' = None
     \/ Take("logout", {"refused"}) /\ UNCHANGED <<cookie, token>>
  /\ BecomeAnonymous
  /\ UNCHANGED <<router, server>>

\* The setup form shows the new session; the settings form takes its cookie
\* and token, and refreshes.
PasswordChanged ==
  /\ Take("password", {"ok"})
  /\ cookie' = call["password"].new /\ SetCsrfFrom(call["password"].new)
  /\ call["password"].to # None
  /\ Show(call["password"].new, FALSE)
  /\ landing' = call["password"].to
  /\ UNCHANGED <<loc, returnTo, wish, server>>

PasswordChangedInSettings(g) ==
  /\ call["password"] # None /\ call["password"].answer = "ok"
  /\ call["password"].to = None /\ call[g] = None
  /\ LET new == call["password"].new IN
     /\ cookie' = new /\ SetCsrfFrom(new)
     /\ call' = [call EXCEPT !["password"] = None,
                             ![g] = [with |-> new, token |-> None, answer |-> "none",
                                     new |-> None, to |-> None]]
  /\ UNCHANGED <<status, shown, initial, error, router, server>>

\* An answer that changes nothing here: the form or the page shows it.
Shown(slot) ==
  /\ \/ slot = "login" /\ Take(slot, {"denied"})
     \/ slot = "private" /\ Take(slot, {"ok"})
     \/ slot = "password" /\ Take(slot, {"refused"})
  /\ UNCHANGED <<auth, router, cookie, server>>

\* Mutant: every failure of GET /session ends the session for the page.
MutLost(slot) ==
  /\ call[slot] # None
  /\ call' = [call EXCEPT ![slot] = None]
  /\ \/ slot \in Gets \cup {"logout"} /\ BecomeAnonymous /\ UNCHANGED token
     \/ slot \in {"login", "password", "private"} /\ UNCHANGED auth
  /\ UNCHANGED <<router, cookie, server>>

\* No answer within the client's timeout, or no connection.
Lost(slot) ==
  /\ call[slot] # None
  /\ call' = [call EXCEPT ![slot] = None]
  /\ \/ /\ slot \in Gets
        /\ error' = TRUE /\ UNCHANGED <<status, shown, initial, token>>
     \/ slot = "logout" /\ BecomeAnonymous /\ UNCHANGED token
     \/ slot \in {"login", "password", "private"} /\ UNCHANGED auth
  /\ UNCHANGED <<router, cookie, server>>

\* Mutant: the timers are dropped with a failed validation.
MutAbsoluteTimer ==
  /\ status = "authenticated" /\ shown \in past /\ ~error
  /\ BecomeAnonymous
  /\ UNCHANGED <<token, call, router, cookie, server>>

\* The timer of the absolute deadline.
AbsoluteTimer ==
  /\ status = "authenticated" /\ shown \in past
  /\ BecomeAnonymous
  /\ UNCHANGED <<token, call, router, cookie, server>>

-----------------------------------------------------------------------------
\* Where the user is.

\* The routes of App send every other location somewhere.  The setup is no
\* place to return to, and what its state held is lost.
ToLogin ==
  /\ status = "anonymous" /\ loc # "login"
  /\ loc' = "login"
  /\ returnTo' = IF loc \in Private THEN loc ELSE None
  /\ mislaid' = (mislaid \/ (loc = "setup" /\ returnTo # None))
  /\ UNCHANGED <<auth, call, landing, asked, cookie, server>>

\* Mutant: the location the user is at is not kept.
MutToSetup ==
  /\ status = "authenticated" /\ initial /\ loc # "setup"
  /\ loc' = "setup" /\ returnTo' = Destination
  /\ UNCHANGED <<auth, call, landing, wish, cookie, server>>

ToSetup ==
  /\ status = "authenticated" /\ initial /\ loc # "setup"
  /\ loc' = "setup"
  /\ returnTo' = IF loc \in Private THEN loc ELSE Destination
  /\ UNCHANGED <<auth, call, landing, wish, cookie, server>>

ToPrivate ==
  /\ status = "authenticated" /\ ~initial /\ loc \notin Private
  /\ loc' = Destination /\ returnTo' = None
  /\ UNCHANGED <<auth, call, landing, wish, cookie, server>>

\* A form's own navigation, after the page has moved on.
Land ==
  /\ landing # None
  /\ loc' = landing /\ returnTo' = None /\ landing' = None
  /\ UNCHANGED <<auth, call, wish, cookie, server>>

\* The user follows a link of the shell, perhaps before a form is done, which
\* then leads away again.
Filled(slot) == call[slot] # None /\ call[slot].to # None

Go(at) ==
  /\ status = "authenticated" /\ ~initial /\ loc \in Private /\ at # loc
  /\ loc' = at /\ returnTo' = None
  /\ asked' = at /\ mislaid' = (landing # None \/ \E slot \in Slots : Filled(slot))
  /\ UNCHANGED <<auth, call, landing, cookie, server>>

\* The routes redirect as soon as the page is rendered again, before any other
\* event.
InPlace ==
  /\ status = "anonymous" => loc = "login"
  /\ status = "authenticated" =>
       IF initial THEN loc = "setup" ELSE loc \in Private

Redirect == ToLogin \/ ToSetup \/ ToPrivate

-----------------------------------------------------------------------------
Event ==
  \/ Reload
  \/ \E at \in Private \cup {"login", "elsewhere"} : Visit(at)
  \/ \E g \in Gets : Refresh(g) \/ Refreshed(g) \/ PasswordChangedInSettings(g)
  \/ SubmitLogin \/ ClickLogout \/ SubmitPassword \/ PrivateCall
  \/ \E slot \in Slots : Serve(slot) \/ Unauthorized(slot) \/ Shown(slot) \/ Lost(slot)
  \/ \E s \in Sessions : Forget(s) \/ Deadline(s)
  \/ OtherTab
  \/ LoggedIn \/ LoggedOut \/ PasswordChanged
  \/ AbsoluteTimer
  \/ Land
  \/ \E at \in Private : Go(at)

Next ==
  \/ InPlace /\ Event
  \/ Redirect

Spec == Init /\ [][Next]_vars

\* Time passes, the timer of the deadline that is shown fires, and the page is
\* rendered.
FairSpec ==
  /\ Spec
  /\ WF_vars(Redirect) /\ WF_vars(InPlace /\ AbsoluteTimer)
  /\ \A s \in Sessions : WF_vars(InPlace /\ Deadline(s))

-----------------------------------------------------------------------------
\* A session that is shown is only left for a logout, a 401 or its deadline:
\* a lost connection, a timeout or another error keeps it, as the page says.
KeepsSession ==
  [][status = "authenticated" /\ status' = "anonymous" =>
       \/ shown \in past
       \/ \E slot \in Slots :
            /\ call[slot] # None /\ call'[slot] = None
            /\ slot = "logout" \/ call[slot].answer = "denied"]_vars

\* Whatever the user went through to sign in, once, or again after a session
\* ended, with or without the setup, the page that shows is the one the user
\* asked for last.  The code breaks this in two cases, which are left open
\* here: a session that ends while the setup shows takes the wanted page with
\* it (App.tsx:42), and a form that is still to be answered or to navigate
\* leads away from a link the user followed meanwhile.
ReturnsWhereAsked ==
  status = "authenticated" /\ ~initial /\ loc \in Private => loc = asked \/ mislaid

\* A session the server has forgotten is not shown for ever, even if no
\* request tells the page.
DeadSessionLeaves ==
  (status = "authenticated" /\ shown \notin live)
    ~> ~(status = "authenticated" /\ shown \notin live)
=============================================================================
