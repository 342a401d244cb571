---------------------------- MODULE FileListing ----------------------------
(***************************************************************************)
(* The listing of the files page (src/frontend/src/pages/FilesPage): the   *)
(* queries it shows, what is selected in it, and the changes that are made *)
(* from it, after which the queries are asked again.  The requests are     *)
(* answered in any order, while the user opens another folder, searches,   *)
(* cancels a dialog or begins the next deletion.                           *)
(***************************************************************************)
EXTENDS Integers, FiniteSets, SequencesExt

CONSTANTS
  Folders,       \* the folders that are visited: a bound
  Home,          \* the first of them
  Below,         \* for each, itself and the folders beneath it
  Order,         \* the entries there can be, folder and name, in the order shown
  Tree,          \* those that exist at first
  Hidden,        \* the names that are shown only with the hidden files,
  Special,       \* those that are neither files nor folders,
  Matching,      \* and those that the search finds
  Visits,        \* how many steps the user takes: a bound
  Sent, None

Entries == ToSet(Order)

\* A query: what is read, of which folder, and whether with the hidden entries.
Queries == {"files", "search"} \X Folders \X BOOLEAN
Keys(f) == {q \in Queries : q[2] = f}

\* What it finds: a listing the entries of its folder, a search those beneath too.
Finds(q, e) ==
  /\ q[3] \/ e[2] \notin Hidden
  /\ IF q[1] = "files" THEN e[1] = q[2] ELSE e[1] \in Below[q[2]] /\ e[2] \in Matching

VARIABLES
  tree,           \* what the server holds
  folder,         \* path
  searching,      \* searchTerm
  showHidden,
  data,           \* for a query, the answer that is cached, if any,
  stale,          \* whether it is to be asked again when it is shown,
  fetch,          \* and the request under way: None, Sent or an answer
  selectedPaths, selected, anchor,
  menuOpen,
  deleting,       \* the entries the dialog asks about
  removing,       \* the deletions that run: the entries, those that are left, whether
                  \* the dialog waits for it, and the folder to refresh if not
  loose,          \* requests whose deletion has failed
  making,         \* the creation that runs: the entry, and whether it exists
  behind,         \* the queries that changes are not told to
  made,           \* the entries that were made since the page was opened
  visits          \* the steps of the user so far

queryVars == <<data, stale, fetch>>
selection == <<selectedPaths, selected, anchor, menuOpen>>
mutations == <<removing, loose, making>>
listingVars == <<tree, folder, searching, showHidden, queryVars, selection, deleting, mutations,
                 behind, made, visits>>

ListingInit ==
  /\ tree = Tree
  /\ folder = Home /\ searching = FALSE /\ showHidden = FALSE
  /\ data = [q \in Queries |-> None] /\ stale = [q \in Queries |-> FALSE]
  /\ fetch = [q \in Queries |-> IF q = <<"files", Home, FALSE>> THEN Sent ELSE None]
  /\ selectedPaths = {} /\ selected = None /\ anchor = None /\ menuOpen = FALSE
  /\ deleting = {} /\ removing = {} /\ loose = {} /\ making = None
  /\ behind = {} /\ made = {} /\ visits = 0

-----------------------------------------------------------------------------
\* The queries.

Active ==
  {<<what, folder, showHidden>> : what \in {"files"} \cup (IF searching THEN {"search"} ELSE {})}

\* A query that is shown is asked if it was never answered or is stale.
Observe ==
  fetch' = [q \in Queries |->
              IF q \in Active' \ Active /\ fetch[q] = None /\ (data[q] = None \/ stale[q])
              THEN Sent ELSE fetch[q]]

\* Mutant: an answer that is under way will do.
MutRefresh(f) ==
  /\ stale' = [q \in Queries |-> stale[q] \/ q[2] = f]
  /\ fetch' = [q \in Queries |-> IF q \in Active /\ q[2] = f /\ fetch[q] = None THEN Sent ELSE fetch[q]]

\* The queries of a folder are invalidated: what is shown is asked again at
\* once, and an answer that is under way is dropped, unless it is the first.
Refresh(f) ==
  /\ stale' = [q \in Queries |-> stale[q] \/ q[2] = f]
  /\ fetch' = [q \in Queries |->
                IF q \in Active \cap Keys(f) /\ (data[q] # None \/ fetch[q] = None) THEN Sent
                ELSE fetch[q]]

\* The queries with an answer that may hold one of these entries, or lack it.
Given(entries) ==
  {q \in Queries : /\ data[q] # None \/ fetch[q] \notin {None, Sent}
                   /\ \E e \in entries : Finds(q, e)}

\* Those whose answer was given before, and is kept: one that is the first,
\* or that is not shown any more.
Kept(f) == {q \in Keys(f) : fetch[q] \notin {None, Sent} /\ (data[q] = None \/ q \notin Active)}

\* What the server finds.
Result(q) == {e \in tree : Finds(q, e)}

ServeQuery(q) ==
  /\ fetch[q] = Sent
  /\ fetch' = [fetch EXCEPT ![q] = Result(q)] /\ behind' = behind \ {q}
  /\ UNCHANGED <<tree, folder, searching, showHidden, data, stale, selection, deleting, mutations>>

Answered(q) ==
  /\ fetch[q] \notin {None, Sent}
  /\ data' = [data EXCEPT ![q] = fetch[q]] /\ stale' = [stale EXCEPT ![q] = FALSE]
  /\ fetch' = [fetch EXCEPT ![q] = None]
  /\ UNCHANGED <<tree, folder, searching, showHidden, selection, deleting, mutations, behind>>

\* The page says so, and goes on showing what it had.
QueryFails(q) ==
  /\ fetch[q] = Sent /\ fetch' = [fetch EXCEPT ![q] = None]
  /\ behind' = IF data[q] = None THEN behind ELSE behind \cup {q}
  /\ UNCHANGED <<tree, folder, searching, showHidden, data, stale, selection, deleting, mutations>>

\* After ten seconds.
Age(q) ==
  /\ data[q] # None /\ ~stale[q] /\ stale' = [stale EXCEPT ![q] = TRUE]
  /\ UNCHANGED <<tree, folder, searching, showHidden, data, fetch, selection, deleting,
                 mutations, behind>>

-----------------------------------------------------------------------------
\* What is shown, and what can be selected of it.

Source == LET q == <<IF searching THEN "search" ELSE "files", folder, showHidden>> IN
  IF data[q] = None THEN {} ELSE data[q]
Shown == SelectSeq(Order, LAMBDA e : e \in Source /\ (showHidden \/ e[2] \notin Hidden))
Selectable == SelectSeq(Shown, LAMBDA e : e[2] \notin Special)
SelectedEntries == ToSet(Selectable) \cap selectedPaths

\* What a menu acts on; its entry may have left the listing.
MenuEntries ==
  IF selected = None \/ selected[2] \in Special THEN {}
  ELSE IF selected \in selectedPaths THEN SelectedEntries ELSE {selected}

Free == deleting = {} /\ ~menuOpen

NoSelection == selectedPaths' = {} /\ selected' = None /\ anchor' = None

Position(e) ==
  LET at == {i \in DOMAIN Selectable : Selectable[i] = e} IN
  IF at = {} THEN 0 ELSE CHOOSE i \in at : TRUE

\* A click, with the shift or the control key.
Click(e, shift, toggle) ==
  LET from == IF anchor = None THEN 0 ELSE Position(anchor)
      to == Position(e)
      range == {Selectable[i] : i \in (IF from < to THEN from .. to ELSE to .. from)}
  IN
  /\ Free /\ e \in ToSet(Shown) /\ selected' = e
  /\ \/ e[2] \in Special /\ selectedPaths' = {} /\ anchor' = None
     \/ /\ e[2] \notin Special /\ shift /\ from > 0
        /\ selectedPaths' = (IF toggle THEN selectedPaths ELSE {}) \cup range
        /\ UNCHANGED anchor
     \/ /\ e[2] \notin Special /\ ~(shift /\ from > 0)
        /\ anchor' = e
        /\ selectedPaths' = IF ~toggle THEN {e}
                            ELSE IF e \in selectedPaths THEN selectedPaths \ {e}
                            ELSE selectedPaths \cup {e}
  /\ UNCHANGED <<tree, folder, searching, showHidden, queryVars, menuOpen, deleting, mutations,
                 behind>>

\* The menu of an entry, and the one of the folder.
OpenMenu(e) ==
  /\ Free /\ e \in ToSet(Shown)
  /\ menuOpen' = TRUE /\ selected' = e
  /\ \/ e[2] \in Special /\ selectedPaths' = {} /\ anchor' = None
     \/ e[2] \notin Special /\ e \notin selectedPaths /\ selectedPaths' = {e} /\ anchor' = e
     \/ e \in selectedPaths /\ UNCHANGED <<selectedPaths, anchor>>
  /\ UNCHANGED <<tree, folder, searching, showHidden, queryVars, deleting, mutations, behind>>

OpenFolderMenu ==
  /\ Free /\ menuOpen' = TRUE /\ selected' = None
  /\ UNCHANGED <<tree, folder, searching, showHidden, queryVars, selectedPaths, anchor, deleting,
                 mutations, behind>>

CloseMenu ==
  /\ menuOpen /\ menuOpen' = FALSE
  /\ UNCHANGED <<tree, folder, searching, showHidden, queryVars, selectedPaths, selected, anchor,
                 deleting, mutations, behind>>

\* Another folder: its path forgets the selection, and the search goes on in it.
OpenFolder(f) ==
  /\ Free /\ f # folder /\ folder' = f
  /\ NoSelection
  /\ UNCHANGED <<tree, searching, showHidden, data, stale, menuOpen, deleting, mutations, behind>>
  /\ Observe

Search(on) ==
  /\ Free /\ searching' = on /\ on # searching
  /\ UNCHANGED <<tree, folder, showHidden, data, stale, selection, deleting, mutations, behind>>
  /\ Observe

\* The settings have been read.
ShowHidden ==
  /\ showHidden' = ~showHidden
  /\ UNCHANGED <<tree, folder, searching, data, stale, selection, deleting, mutations, behind>>
  /\ Observe

PressRefresh ==
  /\ Free /\ Refresh(folder)
  /\ UNCHANGED <<tree, folder, searching, showHidden, data, selection, deleting, mutations, behind>>

-----------------------------------------------------------------------------
\* Deleting.

\* From the menu, or with the key.  A deletion that runs is left to itself.
BeginDelete(entries) ==
  /\ deleting = {} /\ entries # {}
  /\ deleting' = entries /\ menuOpen' = FALSE
  /\ removing' = {IF job.awaited THEN [job EXCEPT !.awaited = FALSE, !.page = folder] ELSE job
                    : job \in removing}
  /\ UNCHANGED <<tree, folder, searching, showHidden, queryVars, selectedPaths, selected, anchor,
                 loose, making, behind>>

PressDelete == Free /\ BeginDelete(SelectedEntries)
MenuDelete == menuOpen /\ BeginDelete(MenuEntries)

CancelDelete ==
  /\ deleting # {} /\ deleting' = {}
  /\ UNCHANGED <<tree, folder, searching, showHidden, queryVars, selection, mutations, behind>>

\* One request for each entry, all at once.
ConfirmDelete ==
  /\ deleting # {} /\ \A job \in removing : ~job.awaited
  /\ removing' = removing \cup
       {[entries |-> deleting, left |-> deleting, awaited |-> TRUE, page |-> None]}
  /\ UNCHANGED <<tree, folder, searching, showHidden, queryVars, selection, deleting, loose, making,
                 behind>>

Unlink(e) == e \in tree /\ tree' = tree \ {e}

ServeRemove(job, e) ==
  /\ job \in removing /\ e \in job.left /\ Unlink(e)
  /\ removing' = (removing \ {job}) \cup {[job EXCEPT !.left = @ \ {e}]}
  /\ UNCHANGED <<folder, searching, showHidden, queryVars, selection, deleting, loose, making, behind>>

\* Mutant: what fails is left out.
MutRemoveFails(job, e) ==
  /\ job \in removing /\ e \in job.left
  /\ removing' = (removing \ {job}) \cup {[job EXCEPT !.left = @ \ {e}]}
  /\ UNCHANGED <<tree, folder, searching, showHidden, queryVars, selection, deleting, loose, making,
                 behind>>

\* One of several that fails is the end of the deletion: the others run on, and
\* what they do is not looked at any more.
RemoveFails(job, e) ==
  /\ job \in removing /\ e \in job.left
  /\ removing' = removing \ {job} /\ loose' = loose \cup (job.left \ {e})
  /\ behind' = behind \cup Given(job.entries)
  /\ UNCHANGED <<tree, folder, searching, showHidden, queryVars, selection, deleting, making>>

ServeLoose(e) ==
  /\ e \in loose /\ loose' = loose \ {e}
  /\ \/ Unlink(e) /\ behind' = behind \cup Given({e})
     \/ UNCHANGED <<tree, behind>>
  /\ UNCHANGED <<folder, searching, showHidden, queryVars, selection, deleting, removing, making>>

\* The folder that is shown by now is asked again, and no other, though a search has
\* found the entries elsewhere; the dialog that is open is closed.
Removed(job) ==
  LET page == IF job.awaited THEN folder ELSE job.page IN
  /\ job \in removing /\ job.left = {}
  /\ removing' = removing \ {job} /\ deleting' = {} /\ NoSelection
  /\ Refresh(page)
  /\ behind' = behind \cup Kept(page) \cup (Given(job.entries) \ Keys(page))
  /\ UNCHANGED <<tree, folder, searching, showHidden, data, menuOpen, loose, making>>

-----------------------------------------------------------------------------
\* A new file or folder, and what others do.

Make(e) ==
  /\ Free /\ making = None /\ e[1] = folder /\ e[2] \notin Special
  /\ making' = [entry |-> e, done |-> FALSE]
  /\ UNCHANGED <<tree, folder, searching, showHidden, queryVars, selection, deleting, removing,
                 loose, behind>>

ServeMake ==
  /\ making # None /\ ~making.done /\ making.entry \notin tree
  /\ tree' = tree \cup {making.entry}
  /\ making' = [making EXCEPT !.done = TRUE] /\ made' = made \cup {making.entry}
  /\ UNCHANGED <<folder, searching, showHidden, queryVars, selection, deleting, removing, loose,
                 behind>>

Made ==
  /\ making # None /\ making.done /\ making' = None
  /\ Refresh(folder)
  /\ behind' = behind \cup Kept(folder) \cup (Given({making.entry}) \ Keys(folder))
  /\ UNCHANGED <<tree, folder, searching, showHidden, data, selection, deleting, removing, loose>>

MakeFails ==
  /\ making # None /\ making' = None
  /\ behind' = IF making.done THEN behind \cup Given({making.entry}) ELSE behind
  /\ UNCHANGED <<tree, folder, searching, showHidden, queryVars, selection, deleting, removing,
                 loose>>

-----------------------------------------------------------------------------
\* What the user does, and time.
ListingUser ==
  \/ \E e \in Entries : \/ \E shift, toggle \in BOOLEAN : Click(e, shift, toggle)
                        \/ OpenMenu(e) \/ Make(e)
  \/ \E f \in Folders : OpenFolder(f)
  \/ \E on \in BOOLEAN : Search(on)
  \/ \E q \in Queries : Age(q)
  \/ OpenFolderMenu \/ CloseMenu \/ ShowHidden \/ PressRefresh
  \/ PressDelete \/ MenuDelete \/ CancelDelete \/ ConfirmDelete

ListingOwn ==
  \/ \E q \in Queries : ServeQuery(q) \/ Answered(q) \/ QueryFails(q)
  \/ \E job \in removing : \/ \E e \in job.left : ServeRemove(job, e) \/ RemoveFails(job, e)
                           \/ Removed(job)
  \/ \E e \in loose : ServeLoose(e)
  \/ Made \/ MakeFails

ListingNext ==
  \/ ListingUser /\ visits < Visits /\ visits' = visits + 1 /\ UNCHANGED made
  \/ ListingOwn /\ UNCHANGED <<made, visits>>
  \/ ServeMake /\ UNCHANGED visits

-----------------------------------------------------------------------------
\* When nothing is under way, what is shown, a listing or what a search found beneath
\* the folder, is what the server has, also if it was being read while entries were
\* removed or made, or if the hidden entries or another folder were shown in between.
\* (A change is told to the folder that is shown when it ends, and to no other: the
\* cached listing of the folder beneath in which a search found the entry, or the
\* search of the folder above, stays as it was until it is asked again.  Nor is the
\* page told of requests that fail or run on after their dialog has failed.)
ListingCurrent ==
  removing = {} /\ making = None =>
    \A q \in Active \ behind : fetch[q] = None /\ data[q] # None => data[q] = Result(q)

\* The dialog of a deletion closes by itself only when every entry it asked about
\* is gone, or was made anew, although the requests are answered in any order and
\* some may fail.  (A deletion that was cancelled while it ran closes the dialog of
\* the next.)
ClosesWhenGone ==
  deleting # {} /\ deleting' = {} /\ ~CancelDelete /\ (\A job \in removing : job.awaited) =>
    \A e \in deleting : e \notin tree \/ e \in made
=============================================================================
