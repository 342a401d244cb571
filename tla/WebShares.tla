----------------------------- MODULE WebShares -----------------------------
(***************************************************************************)
(* The shares and the personal tokens of the owner in the web app: the     *)
(* lists of src/frontend/src/pages/SharesPage and SettingsPage, the forms  *)
(* that make one, the dialog of FilesPage that shares an entry             *)
(* (components/FileDialogs), and the secret that is shown once.  The       *)
(* server keeps the items; a request may fail, or its answer be lost after *)
(* the item was made or revoked.                                           *)
(***************************************************************************)
EXTENDS Integers, FiniteSets

CONSTANTS
  Requests, \* how many requests can be under way: a bound
  Changes,  \* how many steps the user and other clients take: a bound
  None

Kinds == {"share", "token"}
PageOf(k) == IF k = "share" THEN "shares" ELSE "settings"

VARIABLES
  kept,    \* the items on the server, of each kind
  made,    \* how many of a kind were made; an item is its number
  list,    \* the list of each kind in the query cache, None before it is read,
  stale,   \* whether it was invalidated,
  reading, \* and the reading under way: its answer, and whether that is still current
  page,    \* the page: files, shares or settings
  open,    \* whether the form of the shares page is open,
  filled,  \* and whether the form of a kind names what to make
  sharing, \* whether the dialog of the files page is open
  secret,  \* the item whose secret is shown
  jobs,    \* the requests under way
  behind,  \* the list may differ from the server's items
  turns    \* the steps taken so far

queries == <<list, stale, reading>>
forms == <<open, filled, sharing, secret>>
sharesVars == <<kept, made, queries, page, forms, jobs, behind, turns>>

\* A reading of a list, and a request.
Readings == [answer : (SUBSET Nat) \cup {None}, current : BOOLEAN]
Jobs == [op : {"create", "remove", "password"}, kind : Kinds, by : {"page", "dialog", "gone"},
         item : Nat \cup {None}, stage : {"sent", "done", "refused"}, watched : BOOLEAN]

SharesTypeOK ==
  /\ kept \in [Kinds -> SUBSET Nat] /\ made \in [Kinds -> Nat]
  /\ list \in [Kinds -> (SUBSET Nat) \cup {None}] /\ stale \in [Kinds -> BOOLEAN]
  /\ reading \in [Kinds -> Readings \cup {None}] /\ behind \in [Kinds -> BOOLEAN]
  /\ page \in {"files", "shares", "settings"} /\ open \in BOOLEAN /\ sharing \in BOOLEAN
  /\ filled \in [Kinds -> BOOLEAN] /\ secret \in [Kinds -> Nat \cup {None}]
  /\ jobs \in [1 .. Requests -> Jobs \cup {None}]

\* One share and one token are there at first.
Seed == made = [k \in Kinds |-> 1] /\ kept = [k \in Kinds |-> {1}]

SharesInit ==
  /\ Seed
  /\ list = [k \in Kinds |-> None] /\ stale = [k \in Kinds |-> FALSE]
  /\ reading = [k \in Kinds |-> None] /\ behind = [k \in Kinds |-> FALSE]
  /\ page = "files" /\ open = FALSE /\ filled = [k \in Kinds |-> FALSE]
  /\ sharing = FALSE /\ secret = [k \in Kinds |-> None]
  /\ jobs = [r \in 1 .. Requests |-> None] /\ turns = 0

-----------------------------------------------------------------------------
\* The lists.

Fresh == [answer |-> None, current |-> TRUE]

\* A reading of a list that is there is begun anew; the first one goes on.
Read(k) == [reading EXCEPT ![k] = IF @ # None /\ list[k] = None THEN @ ELSE Fresh]

\* The list of the page that is shown is read again, another when it is next shown.
Invalidate(k) ==
  /\ stale' = [stale EXCEPT ![k] = TRUE]
  /\ reading' = IF page = PageOf(k) THEN Read(k) ELSE reading

\* The items change: an answer that was given before tells the old ones.
Alter(k, items) ==
  /\ kept' = [kept EXCEPT ![k] = items]
  /\ reading' = [reading EXCEPT ![k] =
       IF @ = None \/ @.answer = None THEN @ ELSE [@ EXCEPT !.current = FALSE]]

Blocked == open \/ sharing \/ \E k \in Kinds : secret[k] # None

\* The page that is left forgets its forms; its requests go on.
Left(r) == IF r # None /\ r.by # "gone" THEN [r EXCEPT !.watched = FALSE] ELSE r

\* A list is read when its page is opened, unless it is ten seconds young and valid.
Visit(where) ==
  /\ where # page /\ ~Blocked /\ page' = where
  /\ filled' = [k \in Kinds |-> FALSE]
  /\ jobs' = [r \in DOMAIN jobs |-> Left(jobs[r])]
  /\ \E old \in SUBSET {k \in Kinds : list[k] # None /\ ~stale[k]} :
       reading' = [k \in Kinds |->
         IF where # PageOf(k) \/ k \in old \/ reading[k] # None THEN reading[k] ELSE Fresh]
  /\ UNCHANGED <<kept, made, list, stale, open, sharing, secret, behind>>

\* A connection that returns, or the button below a list that could not be read.
Refetch(k) ==
  /\ page = PageOf(k) /\ reading' = Read(k)
  /\ UNCHANGED <<kept, made, list, stale, page, forms, jobs, behind>>

ServeList(k) ==
  /\ reading[k] # None /\ reading[k].answer = None
  /\ reading' = [reading EXCEPT ![k].answer = kept[k]]
  /\ UNCHANGED <<kept, made, list, stale, page, forms, jobs, behind>>

Got(k) ==
  /\ reading[k] # None /\ reading[k].answer # None
  /\ list' = [list EXCEPT ![k] = reading[k].answer]
  /\ stale' = [stale EXCEPT ![k] = FALSE] /\ reading' = [reading EXCEPT ![k] = None]
  /\ behind' = [behind EXCEPT ![k] = ~reading[k].current]
  /\ UNCHANGED <<kept, made, page, forms, jobs>>

GetFails(k) ==
  /\ reading[k] # None /\ reading' = [reading EXCEPT ![k] = None]
  /\ behind' = [behind EXCEPT ![k] = TRUE]
  /\ UNCHANGED <<kept, made, list, stale, page, forms, jobs>>

-----------------------------------------------------------------------------
\* Making and revoking.

Free == {r \in DOMAIN jobs : jobs[r] = None}
Pending(op, k, by) == \E r \in DOMAIN jobs \ Free :
  jobs[r].op = op /\ jobs[r].kind = k /\ jobs[r].by = by /\ jobs[r].watched

Send(op, k, by, item) ==
  \E r \in Free :
    /\ \A q \in Free : r <= q
    /\ jobs' = [jobs EXCEPT ![r] = [op |-> op, kind |-> k, by |-> by, item |-> item,
                                    stage |-> "sent", watched |-> TRUE]]

OpenForm ==
  /\ page = "shares" /\ ~Blocked /\ open' = TRUE
  /\ UNCHANGED <<kept, made, queries, page, filled, sharing, secret, jobs, behind>>

\* Back and Escape close it too, also while its request is under way.
CloseForm ==
  /\ open /\ open' = FALSE
  /\ UNCHANGED <<kept, made, queries, page, filled, sharing, secret, jobs, behind>>

Fill(k) ==
  /\ IF k = "share" THEN open ELSE page = "settings" /\ ~Blocked
  /\ filled' = [filled EXCEPT ![k] = ~@]
  /\ UNCHANGED <<kept, made, queries, page, open, sharing, secret, jobs, behind>>

Create(k) ==
  /\ IF k = "share" THEN open ELSE page = "settings" /\ ~Blocked
  /\ filled[k] /\ ~Pending("create", k, "page")
  /\ Send("create", k, "page", None)
  /\ UNCHANGED <<kept, made, queries, page, forms, behind>>

OpenSharing ==
  /\ page = "files" /\ ~Blocked /\ sharing' = TRUE
  /\ UNCHANGED <<kept, made, queries, page, open, filled, secret, jobs, behind>>

CloseSharing ==
  /\ sharing /\ sharing' = FALSE
  /\ UNCHANGED <<kept, made, queries, page, open, filled, secret, jobs, behind>>

\* Its button stays enabled: pressed twice it makes two shares.
CreateSharing ==
  /\ sharing /\ Send("create", "share", "dialog", None)
  /\ UNCHANGED <<kept, made, queries, page, forms, behind>>

Revoke(k) ==
  /\ page = PageOf(k) /\ ~Blocked /\ list[k] # None
  /\ \E item \in list[k] : Send("remove", k, "page", item)
  /\ UNCHANGED <<kept, made, queries, page, forms, behind>>

\* The server revokes every token together with the old password.
ChangePassword ==
  /\ page = "settings" /\ ~Blocked /\ ~Pending("password", "token", "page")
  /\ Send("password", "token", "page", None)
  /\ UNCHANGED <<kept, made, queries, page, forms, behind>>

CloseSecret(k) ==
  /\ secret[k] # None /\ secret' = [secret EXCEPT ![k] = None]
  /\ UNCHANGED <<kept, made, queries, page, open, filled, sharing, jobs, behind>>

\* What the server keeps after a request, and whether it accepts it.
After(job) ==
  CASE job.op = "create" -> kept[job.kind] \cup {made[job.kind] + 1}
    [] job.op = "remove" -> kept[job.kind] \ {job.item}
    [] job.op = "password" -> {}
Accepts(job) == job.op = "remove" => job.item \in kept[job.kind]

Serve(r) ==
  LET job == jobs[r]
      new == IF job.op = "create" THEN made[job.kind] + 1 ELSE job.item
  IN
  /\ job # None /\ job.stage = "sent"
  /\ IF Accepts(job)
     THEN /\ Alter(job.kind, After(job))
          /\ made' = IF job.op = "create" THEN [made EXCEPT ![job.kind] = new] ELSE made
     ELSE UNCHANGED <<kept, made, reading>>
  /\ jobs' = [jobs EXCEPT ![r] = IF job.by = "gone" THEN None
       ELSE [@ EXCEPT !.stage = IF Accepts(job) THEN "done" ELSE "refused", !.item = new]]
  /\ behind' = [behind EXCEPT ![job.kind] = @ \/ (job.by = "gone" /\ Accepts(job))]
  /\ UNCHANGED <<list, stale, page, forms>>

\* Mutant: the form shows the new secret and leaves the list alone.
MutSucceed(r) ==
  LET job == jobs[r]  shown == job.op = "create" /\ job.by = "page" /\ job.watched IN
  /\ job # None /\ job.stage = "done" /\ jobs' = [jobs EXCEPT ![r] = None]
  /\ IF job.by = "dialog" \/ job.op = "create"
     THEN UNCHANGED <<stale, reading>> ELSE Invalidate(job.kind)
  /\ behind' = IF job.by = "dialog" THEN [behind EXCEPT !["share"] = TRUE] ELSE behind
  /\ open' = (open /\ ~(shown /\ job.kind = "share"))
  /\ filled' = IF shown THEN [filled EXCEPT ![job.kind] = FALSE] ELSE filled
  /\ secret' = IF shown THEN [secret EXCEPT ![job.kind] = job.item] ELSE secret
  /\ sharing' = (sharing /\ ~(job.by = "dialog" /\ job.watched))
  /\ UNCHANGED <<kept, made, list, page>>

\* The form closes, whichever one is open by now; the secret is shown if the
\* page is still there; the dialog of the files page refreshes no list.
Succeed(r) ==
  LET job == jobs[r]  shown == job.op = "create" /\ job.by = "page" /\ job.watched IN
  /\ job # None /\ job.stage = "done" /\ jobs' = [jobs EXCEPT ![r] = None]
  /\ IF job.by = "dialog" THEN UNCHANGED <<stale, reading>> ELSE Invalidate(job.kind)
  /\ behind' = IF job.by = "dialog" THEN [behind EXCEPT !["share"] = TRUE] ELSE behind
  /\ open' = (open /\ ~(shown /\ job.kind = "share"))
  /\ filled' = IF shown THEN [filled EXCEPT ![job.kind] = FALSE] ELSE filled
  /\ secret' = IF shown THEN [secret EXCEPT ![job.kind] = job.item] ELSE secret
  /\ sharing' = (sharing /\ ~(job.by = "dialog" /\ job.watched))
  /\ UNCHANGED <<kept, made, list, page>>

\* Refused, or cut off before or after the server did it.
Fails(r) ==
  /\ jobs[r] # None /\ jobs[r].by # "gone"
  /\ jobs' = [jobs EXCEPT ![r] = IF @.stage = "sent" THEN [@ EXCEPT !.by = "gone"] ELSE None]
  /\ behind' = IF jobs[r].stage = "refused" THEN behind ELSE [behind EXCEPT ![jobs[r].kind] = TRUE]
  /\ UNCHANGED <<kept, made, queries, page, forms>>

\* A request that was cut off and never arrived.
NeverArrives(r) ==
  /\ jobs[r] # None /\ jobs[r].by = "gone" /\ jobs' = [jobs EXCEPT ![r] = None]
  /\ UNCHANGED <<kept, made, queries, page, forms, behind>>

\* Another client revokes an item, or it expires.
Expire(k) ==
  /\ \E item \in kept[k] : Alter(k, kept[k] \ {item})
  /\ behind' = [behind EXCEPT ![k] = TRUE]
  /\ UNCHANGED <<made, list, stale, page, forms, jobs>>

-----------------------------------------------------------------------------
SharesUser ==
  \/ \E where \in {"files", "shares", "settings"} : Visit(where)
  \/ OpenForm \/ CloseForm \/ OpenSharing \/ CloseSharing \/ CreateSharing \/ ChangePassword
  \/ \E k \in Kinds : Refetch(k) \/ Fill(k) \/ Create(k) \/ Revoke(k) \/ CloseSecret(k) \/ Expire(k)

SharesOwn ==
  \/ \E k \in Kinds : ServeList(k) \/ Got(k) \/ GetFails(k)
  \/ \E r \in DOMAIN jobs : Serve(r) \/ Succeed(r) \/ Fails(r) \/ NeverArrives(r)

SharesNext ==
  \/ SharesUser /\ turns < Changes /\ turns' = turns + 1
  \/ SharesOwn /\ UNCHANGED turns

-----------------------------------------------------------------------------
(***************************************************************************)
(* Properties.                                                             *)
(***************************************************************************)

\* The list a page shows, once nothing of its kind is under way, is the one of
\* the server, whatever was made, revoked or read on the way and in whatever
\* order the answers came; except after a lost request, a change elsewhere, the
\* dialog of the files page, a first reading that a change overtook, or a page that
\* was left while a change, or the reading after it, was under way.
ListsCurrent ==
  \A k \in Kinds :
    /\ page = PageOf(k) /\ list[k] # None /\ reading[k] = None /\ ~behind[k]
    /\ \A r \in DOMAIN jobs : jobs[r] # None => jobs[r].kind # k
    => list[k] = kept[k]

=============================================================================
