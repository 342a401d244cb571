---------------------------- MODULE FileDialogs ----------------------------
(***************************************************************************)
(* The dialogs of the files page over the browser's history: the preview,  *)
(* in a dialog or as a route of its own, the editor with its question      *)
(* about unsaved text, and the dialog that creates a file                  *)
(* (src/frontend/src/components/FileDialogs, src/modalNavigation).         *)
(*                                                                         *)
(* Back and Forward close the dialog on top: the browser has already moved *)
(* when the page hears of it, so modalNavigation hides the event from the  *)
(* router and asks the browser to move back again, which happens later.    *)
(***************************************************************************)
EXTENDS Integers, SequencesExt

CONSTANTS
  Files,         \* the files of the folder
  FirstText,     \* what they hold at first, None if there is no such file
  Texts,         \* what is typed: a bound
  Empty,         \* the text of a new file
  Pages,         \* the most pages the browser remembers: a bound
  Steps,         \* how many steps the user takes: a bound
  None

Folder == "folder"          \* the listing of the folder the files are in
Elsewhere == "elsewhere"    \* another one
Modals == <<"preview", "editor", "confirm", "new">>   \* in the order of their effects

VARIABLES
  pages,        \* the browser: the locations it remembers,
  at,           \* the one it is at
  going,        \* and the moves it has been asked for
  route,        \* the location the router shows
  registered,   \* modalNavigation: of each open dialog, the index and the dialogs under it
  restoring,    \* restoringIndex
  preview,      \* FilesPage: the entries that preview and editor are open for
  editor,
  confirm,      \* whether the editor asks about its text
  newOpen,      \* the dialog for a new file, and its field
  fileName,
  value,        \* the text in the editor
  cached,       \* for a file, the answer of the query "file-edit", if any,
  failed,       \* whether the last one failed
  reading,      \* and the one under way: None, "sent" or the answer
  saving,       \* the save under way: None or a request
  creating,     \* the creation under way: None or a request
  disk,         \* what the server holds
  unsaved,      \* whether the text was typed and never stored
  hasty,        \* whether the user moved while the browser was moving
  steps,        \* the steps of the user so far
  overtaken     \* whether the user typed or left while a request was under way

browser == <<pages, at, going, route, restoring, hasty>>
dialogs == <<preview, editor, confirm, newOpen, fileName>>
text == <<value, unsaved>>
queries == <<cached, failed, reading>>
dialogVars == <<browser, registered, dialogs, text, queries, saving, creating, disk, overtaken,
                steps>>

DialogsInit ==
  /\ pages = <<Elsewhere, Folder>> /\ at = 2 /\ going = <<>> /\ route = Folder
  /\ registered = [m \in {} |-> None] /\ restoring = None
  /\ preview = None /\ editor = None /\ confirm = FALSE
  /\ newOpen = FALSE /\ fileName = None
  /\ value = Empty /\ unsaved = FALSE
  /\ cached = [f \in Files |-> None] /\ failed = [f \in Files |-> FALSE]
  /\ reading = [f \in Files |-> None]
  /\ saving = None /\ creating = None
  /\ disk = FirstText
  /\ hasty = FALSE /\ overtaken = FALSE /\ steps = 0

-----------------------------------------------------------------------------
\* useCloseOnHistoryNavigation.

FullScreen == route \in Files
OpenModals ==
  {m \in ToSet(Modals) :
     CASE m = "preview" -> preview # None /\ ~FullScreen
       [] m = "editor"  -> editor # None
       [] m = "confirm" -> confirm
       [] m = "new"     -> newOpen}

\* Mutant: the index of the moment.
MutIndexNow == at

IndexNow == IF restoring # None THEN restoring ELSE at

Before(n, m) == \E i, j \in DOMAIN Modals : i < j /\ Modals[i] = n /\ Modals[j] = m

\* After every step, the dialogs that were closed leave and those that were
\* opened join, on top.  A dialog opened while the browser is being moved back
\* belongs to the page the browser is moved to.
Register ==
  registered' = [m \in OpenModals' |->
    IF m \in OpenModals
    THEN [index |-> registered[m].index, under |-> registered[m].under \cap OpenModals']
    ELSE [index |-> IndexNow', under |-> {n \in OpenModals' : n \in OpenModals \/ Before(n, m)}]]

\* The dialog that registered last.
Active ==
  CHOOSE m \in OpenModals : \A n \in OpenModals : m \notin registered[n].under

NothingOpen == OpenModals = {} /\ ~FullScreen

\* Where the browser goes when the page pushes or replaces a location.
Push(location) ==
  /\ at < Pages
  /\ pages' = Append(SubSeq(pages, 1, at), location) /\ at' = at + 1 /\ route' = location
  /\ hasty' = (hasty \/ going # <<>>)
  /\ UNCHANGED <<going, restoring>>

ReplacePage(location) ==
  /\ pages' = [pages EXCEPT ![at] = location] /\ route' = location
  /\ hasty' = (hasty \/ going # <<>>)
  /\ UNCHANGED <<at, going, restoring>>

-----------------------------------------------------------------------------
\* The editor.

\* The data of the query for the file that is edited.
Data == IF editor = None THEN None ELSE cached[editor]
LoadPending == Data = None /\ ~failed[editor]
Dirty == Data # None /\ value # Data

\* Opening it shows what is cached, else what the text field held before,
\* behind the pane that says "loading".
EditText(f) ==
  IF cached[f] # None
  THEN value' = cached[f] /\ unsaved' = FALSE
  ELSE unsaved' = FALSE /\ UNCHANGED value

\* It loads what was never loaded, and again what is stale.
OpenQuery(f) ==
  /\ \/ reading' = [reading EXCEPT ![f] = IF @ = None THEN "sent" ELSE @]
     \/ cached[f] # None /\ ~failed[f] /\ UNCHANGED reading
  /\ failed' = [failed EXCEPT ![f] = @ /\ cached[f] # None]
  /\ UNCHANGED cached

\* Mutant: only text that could not be read again is asked about.
MutRequestClose ==
  /\ confirm' = (confirm \/ (saving = None /\ Dirty /\ failed[editor]))
  /\ editor' = IF saving = None /\ ~(Dirty /\ failed[editor]) THEN None ELSE editor

RequestClose ==
  /\ confirm' = (confirm \/ (saving = None /\ Dirty))
  /\ editor' = IF saving = None /\ ~Dirty THEN None ELSE editor

\* What Back or Forward does to the dialog on top.
CloseModal(m) ==
  /\ preview' = (IF m = "preview" THEN None ELSE preview)
  /\ newOpen' = (IF m = "new" THEN FALSE ELSE newOpen)
  /\ overtaken' = (overtaken \/ (m = "new" /\ creating # None))
  /\ IF m = "editor" THEN RequestClose
     ELSE UNCHANGED editor /\ confirm' = (confirm /\ m # "confirm")
  /\ unsaved' = (unsaved /\ editor' # None)
  /\ UNCHANGED <<fileName, value, queries, saving, creating, disk>>

-----------------------------------------------------------------------------
\* The browser.

\* Back or Forward, by the user: a second one before the page has settled is
\* hasty.
Press(delta) ==
  /\ Len(going) < 2 /\ at + delta \in DOMAIN pages
  /\ going' = Append(going, delta)
  /\ hasty' = (hasty \/ going # <<>>)
  /\ UNCHANGED <<pages, at, route, restoring, dialogs, text, queries, saving, creating, disk,
                 overtaken>>

\* The browser has moved, and handleHistoryNavigation hears of it.  There is no
\* event when there is nowhere to go.
Arrive ==
  LET target == at + Head(going)
      stay == UNCHANGED <<dialogs, text, queries, saving, creating, disk, overtaken>>
  IN
  /\ going # <<>>
  /\ UNCHANGED <<pages, hasty>>
  /\ \/ /\ target \notin DOMAIN pages
        /\ going' = Tail(going) /\ UNCHANGED <<at, route, restoring>> /\ stay
     \/ /\ target \in DOMAIN pages /\ target = restoring
        /\ at' = target /\ going' = Tail(going) /\ restoring' = None
        /\ UNCHANGED route /\ stay
     \/ /\ target \in DOMAIN pages /\ target # restoring /\ OpenModals = {}
        /\ at' = target /\ going' = Tail(going) /\ route' = pages[target]
        /\ UNCHANGED restoring /\ stay
     \/ /\ target \in DOMAIN pages /\ target # restoring /\ OpenModals # {}
        /\ at' = target
        /\ LET home == registered[Active].index IN
           IF home # target
           THEN restoring' = home /\ going' = Append(Tail(going), home - target)
           ELSE going' = Tail(going) /\ UNCHANGED restoring
        /\ UNCHANGED route
        /\ CloseModal(Active)

\* A folder is opened.
OpenFolder ==
  /\ NothingOpen /\ Push(Elsewhere)
  /\ UNCHANGED <<dialogs, text, queries, saving, creating, disk, overtaken>>

-----------------------------------------------------------------------------
\* The preview.

OpenPreview(f) ==
  /\ NothingOpen /\ route = Folder /\ disk[f] # None
  /\ preview' = f
  /\ UNCHANGED <<browser, editor, confirm, newOpen, fileName, text, queries, saving, creating,
                 disk, overtaken>>

\* From the dialog to the route, and out of it.
OpenFullScreen ==
  /\ "preview" \in OpenModals /\ editor = None /\ ~newOpen
  /\ preview' = None /\ Push(preview)
  /\ UNCHANGED <<editor, confirm, newOpen, fileName, text, queries, saving, creating, disk,
                 overtaken>>

CloseFullScreen ==
  /\ FullScreen /\ OpenModals = {} /\ ReplacePage(Folder)
  /\ UNCHANGED <<dialogs, text, queries, saving, creating, disk, overtaken>>

ClosePreview ==
  /\ "preview" \in OpenModals /\ editor = None /\ ~newOpen
  /\ CloseModal("preview") /\ UNCHANGED browser

\* Edit, in the preview or in a menu.
Edit(f) ==
  /\ editor = None /\ ~newOpen
  /\ \/ NothingOpen /\ route = Folder /\ disk[f] # None /\ UNCHANGED browser
     \/ preview = f /\ ~FullScreen /\ UNCHANGED browser
     \/ route = f /\ ReplacePage(Folder)
  /\ preview' = None /\ editor' = f
  /\ EditText(f) /\ OpenQuery(f)
  /\ UNCHANGED <<confirm, newOpen, fileName, saving, creating, disk, overtaken>>

-----------------------------------------------------------------------------
\* The queries.  They are repeated when the network comes back.

Refetch ==
  /\ editor # None /\ reading[editor] = None
  /\ reading' = [reading EXCEPT ![editor] = "sent"]
  /\ failed' = [failed EXCEPT ![editor] = @ /\ cached[editor] # None]
  /\ UNCHANGED <<browser, dialogs, text, cached, saving, creating, disk, overtaken>>

ServeRead(f) ==
  /\ reading[f] = "sent"
  /\ reading' = [reading EXCEPT ![f] = IF disk[f] = None THEN "failed" ELSE disk[f]]
  /\ UNCHANGED <<browser, dialogs, text, cached, failed, saving, creating, disk, overtaken>>

\* Text that differs from the last is shown in the editor, whatever was typed.
Loaded(f) ==
  /\ reading[f] \notin {None, "sent", "failed"}
  /\ cached' = [cached EXCEPT ![f] = reading[f]] /\ failed' = [failed EXCEPT ![f] = FALSE]
  /\ reading' = [reading EXCEPT ![f] = None]
  /\ IF editor = f /\ cached[f] # reading[f]
     THEN value' = reading[f] /\ unsaved' = FALSE
     ELSE UNCHANGED text
  /\ UNCHANGED <<browser, dialogs, saving, creating, disk, overtaken>>

LoadFails(f) ==
  /\ reading[f] # None
  /\ failed' = [failed EXCEPT ![f] = TRUE] /\ reading' = [reading EXCEPT ![f] = None]
  /\ UNCHANGED <<browser, dialogs, text, cached, saving, creating, disk, overtaken>>

-----------------------------------------------------------------------------
\* Typing and saving.

Type(t) ==
  /\ editor # None /\ ~confirm /\ Data # None /\ ~failed[editor] /\ t # value
  /\ value' = t /\ unsaved' = (t # Data)
  /\ overtaken' = (overtaken \/ saving # None)
  /\ UNCHANGED <<browser, dialogs, queries, saving, creating, disk>>

MaySave == saving = None /\ (confirm \/ ~LoadPending)

\* Save, or Save and close in the question.
Save ==
  /\ editor # None /\ MaySave
  /\ saving' = [file |-> editor, text |-> value, phase |-> "sent"]
  /\ UNCHANGED <<browser, dialogs, text, queries, creating, disk, overtaken>>

ServeSave ==
  /\ saving # None /\ saving.phase = "sent"
  /\ disk' = [disk EXCEPT ![saving.file] = saving.text]
  /\ saving' = [saving EXCEPT !.phase = "stored"]
  /\ unsaved' = (unsaved /\ ~(editor = saving.file /\ value = saving.text))
  /\ UNCHANGED <<browser, dialogs, value, queries, creating, overtaken>>

\* The queries are given the text that is in the editor by now.
Saved ==
  /\ saving # None /\ saving.phase = "stored"
  /\ saving' = None
  /\ IF editor = None THEN UNCHANGED <<cached, failed>>
     ELSE /\ cached' = [cached EXCEPT ![editor] = value]
          /\ failed' = [failed EXCEPT ![editor] = FALSE]
  /\ editor' = None /\ confirm' = FALSE /\ unsaved' = FALSE
  /\ UNCHANGED <<browser, preview, newOpen, fileName, value, reading, creating, disk,
                 overtaken>>

\* The request or its answer is lost.
SaveFails ==
  /\ saving # None /\ saving' = None
  /\ UNCHANGED <<browser, dialogs, text, queries, creating, disk, overtaken>>

CloseEditor ==
  /\ editor # None /\ ~confirm /\ saving = None
  /\ CloseModal("editor") /\ UNCHANGED browser

KeepEditing ==
  /\ confirm
  /\ CloseModal("confirm") /\ UNCHANGED browser

Discard ==
  /\ confirm
  /\ value' = (IF Data = None THEN Empty ELSE Data)
  /\ editor' = None /\ confirm' = FALSE /\ unsaved' = FALSE
  /\ overtaken' = (overtaken \/ saving # None)
  /\ UNCHANGED <<browser, preview, newOpen, fileName, queries, saving, creating, disk>>

-----------------------------------------------------------------------------
\* A new file.

OpenNew ==
  /\ NothingOpen /\ route = Folder
  /\ newOpen' = TRUE
  /\ UNCHANGED <<browser, preview, editor, confirm, fileName, text, queries, saving, creating,
                 disk, overtaken>>

TypeName(f) ==
  /\ newOpen /\ f # fileName
  /\ fileName' = f
  /\ overtaken' = (overtaken \/ creating # None)
  /\ UNCHANGED <<browser, preview, editor, confirm, newOpen, text, queries, saving, creating, disk>>

CancelNew ==
  /\ newOpen
  /\ CloseModal("new") /\ UNCHANGED browser

Create ==
  /\ newOpen /\ fileName # None /\ creating = None
  /\ creating' = [file |-> fileName, phase |-> "sent"]
  /\ UNCHANGED <<browser, dialogs, text, queries, saving, disk, overtaken>>

ServeCreate ==
  /\ creating # None /\ creating.phase = "sent" /\ disk[creating.file] = None
  /\ disk' = [disk EXCEPT ![creating.file] = Empty]
  /\ creating' = [creating EXCEPT !.phase = "created"]
  /\ UNCHANGED <<browser, dialogs, text, queries, saving, overtaken>>

\* The editor opens for the name that is in the field by now.
Created ==
  /\ creating # None /\ creating.phase = "created"
  /\ creating' = None /\ newOpen' = FALSE /\ fileName' = None
  /\ LET f == fileName IN
     /\ editor' = f
     /\ EditText(f) /\ OpenQuery(f)
  /\ UNCHANGED <<browser, preview, confirm, saving, disk, overtaken>>

CreateFails ==
  /\ creating # None /\ creating' = None
  /\ UNCHANGED <<browser, dialogs, text, queries, saving, disk, overtaken>>

\* Somebody else writes a file.
Foreign(f) ==
  /\ disk[f] # None /\ \E t \in Texts \ {disk[f]} : disk' = [disk EXCEPT ![f] = t]
  /\ UNCHANGED <<browser, dialogs, text, queries, saving, creating, overtaken>>

-----------------------------------------------------------------------------
\* What the user does, what the network coming back does, and somebody else.
UserStep ==
  \/ \E delta \in {-1, 1} : Press(delta)
  \/ OpenFolder \/ OpenFullScreen \/ CloseFullScreen \/ ClosePreview
  \/ \E f \in Files : OpenPreview(f) \/ Edit(f) \/ TypeName(f) \/ Foreign(f)
  \/ \E t \in Texts : Type(t)
  \/ Refetch \/ Save \/ CloseEditor \/ KeepEditing \/ Discard
  \/ OpenNew \/ CancelNew \/ Create

\* What the browser and the server do by themselves.
OwnStep ==
  \/ Arrive
  \/ \E f \in Files : ServeRead(f) \/ Loaded(f) \/ LoadFails(f)
  \/ ServeSave \/ Saved \/ SaveFails \/ ServeCreate \/ Created \/ CreateFails

DialogsNext ==
  /\ \/ UserStep /\ steps < Steps /\ steps' = steps + 1
     \/ OwnStep /\ UNCHANGED steps
  /\ Register

-----------------------------------------------------------------------------
\* Once the browser has settled, it is at the location that the page shows and
\* every open dialog belongs to it, so that the next Back closes a dialog again
\* instead of leaving the page under it.
BackKeepsPlace ==
  going = <<>> /\ ~hasty =>
    /\ pages[at] = route /\ restoring = None
    /\ \A m \in DOMAIN registered : registered[m].index = at

\* The editor is left with text that was typed and not stored only by Discard.
\* (Typing while the text is being saved, or leaving a dialog while its request
\* is under way, can break this.)
LeavesSaved == editor # None /\ editor' # editor /\ unsaved /\ ~overtaken => Discard
=============================================================================
