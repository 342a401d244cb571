---------------------------- MODULE PublicShare ----------------------------
(***************************************************************************)
(* The page a visitor opens with the link of a share                       *)
(* (src/frontend/src/pages/PublicSharePage): the folder in the address,    *)
(* the query of each folder, and the password form, whose answer becomes   *)
(* the data of the folder that is in the address by then.  Shared folders  *)
(* are named by their path in the share, and so is what the server tells   *)
(* of one.  The page stays while the visitor moves between folders.        *)
(***************************************************************************)
EXTENDS Integers, FiniteSets

CONSTANTS
  Folders, \* folders of the share
  First,   \* the one the link opens
  Turns,   \* how many steps the visitor and the owner take: a bound
  Locked,  \* the answer that asks for the password
  None

VARIABLES
  protected,  \* whether the share has a password,
  live,       \* and has not been revoked and is not over
  admitted,   \* whether the browser holds a public session of the share,
  everLet,    \* or ever held one
  folder,     \* the folder in the address
  data,       \* what the query cache has of each folder,
  broken,     \* whether the last reading of it failed,
  request,    \* and the reading under way
  word,       \* the password in the form: None, right or wrong
  unlock,     \* the request of the form: its folder and answer
  misplaced,  \* folders whose data came with the answer of another's form
  steps       \* the steps taken so far

share == <<protected, live, admitted, everLet>>
queries == <<data, broken, request>>
shareVars == <<share, folder, queries, word, unlock, misplaced, steps>>

ShareInit ==
  /\ protected \in BOOLEAN /\ live = TRUE /\ admitted = FALSE /\ everLet = FALSE
  /\ folder = First /\ data = [f \in Folders |-> None] /\ broken = [f \in Folders |-> FALSE]
  /\ request = [f \in Folders |-> IF f = First THEN "sent" ELSE None]
  /\ word = None /\ unlock = None /\ misplaced = {} /\ steps = 0

-----------------------------------------------------------------------------
\* What the page shows.
AsksPassword == ~broken[folder] /\ data[folder] = Locked
ShowsEntries == ~broken[folder] /\ data[folder] \notin {None, Locked}

\* A folder is read unless its data are younger than ten seconds.
Open(f) ==
  \/ request' = [request EXCEPT ![f] = IF @ = None THEN "sent" ELSE @]
  \/ data[f] # None /\ ~broken[f] /\ UNCHANGED request

\* Mutant: the old folder's data stand in until the new one's come.
MutGo(f) ==
  /\ f # folder /\ folder' = f /\ Open(f)
  /\ data' = [data EXCEPT ![f] = IF @ = None THEN data[folder] ELSE @]
  /\ UNCHANGED <<share, broken, word, unlock, misplaced>>

\* A link to a folder, or the browser's history.
Go(f) ==
  /\ f # folder /\ folder' = f /\ Open(f)
  /\ UNCHANGED <<share, data, broken, word, unlock, misplaced>>

\* The connection returns.
Reread ==
  /\ request' = [request EXCEPT ![folder] = IF @ = None \/ data[folder] # None THEN "sent" ELSE @]
  /\ UNCHANGED <<share, folder, data, broken, word, unlock, misplaced>>

View(f) == IF protected /\ ~admitted THEN Locked ELSE f

Serve(f) ==
  /\ request[f] = "sent" /\ live
  /\ request' = [request EXCEPT ![f] = View(f)]
  /\ UNCHANGED <<share, folder, data, broken, word, unlock, misplaced>>

Answered(f) ==
  /\ request[f] \notin {None, "sent"}
  /\ data' = [data EXCEPT ![f] = request[f]] /\ broken' = [broken EXCEPT ![f] = FALSE]
  /\ request' = [request EXCEPT ![f] = None] /\ misplaced' = misplaced \ {f}
  /\ UNCHANGED <<share, folder, word, unlock>>

\* The share is gone, the folder is, or the connection; it is not tried again.
Unread(f) ==
  /\ request[f] # None
  /\ request' = [request EXCEPT ![f] = None] /\ broken' = [broken EXCEPT ![f] = TRUE]
  /\ UNCHANGED <<share, folder, data, word, unlock, misplaced>>

Type(w) ==
  /\ AsksPassword /\ word' = w /\ w # word
  /\ UNCHANGED <<share, folder, queries, unlock, misplaced>>

Submit ==
  /\ AsksPassword /\ word # None /\ unlock = None
  /\ unlock' = [folder |-> folder, word |-> word, answered |-> FALSE]
  /\ UNCHANGED <<share, folder, queries, word, misplaced>>

ServeUnlock ==
  /\ unlock # None /\ ~unlock.answered /\ live /\ (protected => unlock.word = "right")
  /\ unlock' = [unlock EXCEPT !.answered = TRUE]
  /\ admitted' = TRUE /\ everLet' = TRUE
  /\ UNCHANGED <<protected, live, folder, queries, word, misplaced>>

\* The answer is stored for the folder in the address; its own reading goes on.
Unlocked ==
  /\ unlock # None /\ unlock.answered /\ unlock' = None
  /\ data' = [data EXCEPT ![folder] = unlock.folder]
  /\ broken' = [broken EXCEPT ![folder] = FALSE]
  /\ misplaced' = IF unlock.folder = folder THEN misplaced \ {folder} ELSE misplaced \cup {folder}
  /\ UNCHANGED <<share, folder, request, word>>

UnlockFails ==
  /\ unlock # None /\ unlock' = None
  /\ UNCHANGED <<share, folder, queries, word, misplaced>>

\* Half an hour later the visitor has to give the password again.
SessionEnds ==
  /\ admitted /\ admitted' = FALSE
  /\ UNCHANGED <<protected, live, everLet, folder, queries, word, unlock, misplaced>>

Revoked ==
  /\ live /\ live' = FALSE /\ admitted' = FALSE
  /\ UNCHANGED <<protected, everLet, folder, queries, word, unlock, misplaced>>

-----------------------------------------------------------------------------
Visitor ==
  \/ \E f \in Folders : Go(f)
  \/ \E w \in {None, "right", "wrong"} : Type(w)
  \/ Reread \/ Submit \/ SessionEnds \/ Revoked

ShareOwn ==
  \/ \E f \in Folders : Serve(f) \/ Answered(f) \/ Unread(f)
  \/ ServeUnlock \/ Unlocked \/ UnlockFails

ShareNext ==
  \/ Visitor /\ steps < Turns /\ steps' = steps + 1
  \/ ShareOwn /\ UNCHANGED steps

-----------------------------------------------------------------------------
(***************************************************************************)
(* Properties.                                                             *)
(***************************************************************************)

\* The entries the page shows are those of the folder in its address, however
\* the visitor moved while readings were under way, unless the password was
\* accepted after the visitor had moved on; and a protected share shows none
\* before a password was accepted.
SharedFolderShown ==
  ShowsEntries =>
    /\ folder \in misplaced \/ data[folder] = folder
    /\ protected => everLet

=============================================================================
