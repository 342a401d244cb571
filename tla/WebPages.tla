------------------------------ MODULE WebPages ------------------------------
(***************************************************************************)
(* The parts of the web app that run one at a time: the actions on files   *)
(* (PathAction), the dialogs over a file, the preview of a text, the       *)
(* listing, the settings, the shares and tokens, and the page of a         *)
(* visitor.  A behaviour is that of one of them.                           *)
(***************************************************************************)
EXTENDS Integers, FiniteSets, SequencesExt

CONSTANT Nothing   \* None in each part

-----------------------------------------------------------------------------
\* Renaming, moving and copying.

CONSTANTS Places, FirstTree, Selections, Typed, Copies, Mutations, MaxActions

VARIABLES tree, dialog, destination, answer, completed, conflictPath, copyPlan, jobs, warned,
          acked, begun, mixed

actingVars ==
  <<tree, dialog, destination, answer, completed, conflictPath, copyPlan, jobs, warned,
    acked, mixed, begun>>

Acting == INSTANCE PathAction WITH
  Slots <- Mutations, Actions <- MaxActions, None <- Nothing, asked <- warned

ASSUME ActingAssumption ==
  /\ Selections \subseteq Seq(Acting!Entries) \ {<<>>}
  /\ \A e \in Acting!Entries : e.path # Nothing

-----------------------------------------------------------------------------
\* The dialogs over a file.

CONSTANTS Files, FirstText, Texts, Empty, MaxPages, MaxSteps

VARIABLES pages, at, going, route, registered, restoring, preview, editor, confirm, newOpen,
          fileName, value, cached, failed, reading, saving, creating, disk, unsaved,
          hasty, steps, overtaken

dialogsVars ==
  <<pages, at, going, route, registered, restoring, preview, editor, confirm, newOpen,
    fileName, value, cached, failed, reading, saving, creating, disk, unsaved,
    hasty, steps, overtaken>>

Dialogs == INSTANCE FileDialogs WITH
  Pages <- MaxPages, Steps <- MaxSteps, None <- Nothing

ASSUME DialogsAssumption ==
  /\ MaxPages \in Nat \ {0, 1} /\ \A i \in 1 .. MaxPages : i # Nothing
  /\ Files \cap {Dialogs!Folder, Dialogs!Elsewhere, Nothing} = {}

-----------------------------------------------------------------------------
\* The preview of a text or a table.

CONSTANTS Sources, Lower, Needles, Rows, TableRows, MaxRows, MaxColumns, MaxCellCharacters, MaxCharacters

VARIABLES source, rich, findOpen, findQuery, findIndex, findStart, table

textVars ==
  <<source, rich, findOpen, findQuery, findIndex, findStart, table>>

Text == INSTANCE TextPreview

ASSUME TextAssumption ==
  /\ \A s \in Sources : s.raw \in Seq(STRING) /\ s.rendered \in Seq(STRING)
  /\ \A s \in Sources : s = [raw |-> s.raw, rendered |-> s.rendered]
  /\ \A c \in DOMAIN Lower : Lower[c] \in Seq(STRING \ {Text!Newline})
  /\ Text!Newline \notin DOMAIN Lower
  /\ Needles \subseteq Seq(STRING) /\ \A q \in Needles : Text!Newline \notin ToSet(q)   \* one line
  /\ Rows \subseteq Seq(Seq(STRING)) \ {<<>>}
  /\ MaxRows \in Nat \ {0} /\ MaxColumns \in Nat \ {0}
  /\ MaxCellCharacters \in Nat /\ MaxCharacters \in Nat

-----------------------------------------------------------------------------
\* The listing.

CONSTANTS Folders, Home, Below, Order, Tree, Hidden, Special, Matching, Visits, Sent

VARIABLES listed, folder, searching, showHidden, data, stale, fetch, selectedPaths, selected,
          anchor, menuOpen, deleting, removing, loose, making, behind, made, visits

listingVars ==
  <<listed, folder, searching, showHidden, data, stale, fetch, selectedPaths, selected,
    anchor, menuOpen, deleting, removing, loose, making, behind, made, visits>>

Listing == INSTANCE FileListing WITH tree <- listed, None <- Nothing

ASSUME ListingAssumption ==
  /\ Home \in Folders /\ Tree \subseteq Listing!Entries
  /\ Sent # Nothing /\ \A answers \in SUBSET Listing!Entries : answers \notin {Sent, Nothing}
  /\ Nothing \notin [entry : Listing!Entries, done : BOOLEAN]

-----------------------------------------------------------------------------
\* The settings.

CONSTANTS Paths, Rests, FirstSettings, SystemDark, MaxPuts, MaxChanges

VARIABLES stored, settings, unread, get, preference, where, form, chosen, menu, editing, puts,
          wanted, apart, together, changes

settingsVars ==
  <<stored, settings, unread, get, preference, where, form, chosen, menu, editing, puts,
    wanted, apart, together, changes>>

Settings == INSTANCE WebSettings WITH
  Requests <- MaxPuts, Changes <- MaxChanges, None <- Nothing,
  cached <- settings, failed <- unread, route <- where, asked <- wanted, behind <- apart,
  mixed <- together

\* putSettings drops the label of what is no favourite.
ASSUME SettingsAssumption ==
  /\ FirstSettings \in Settings!Records /\ FirstSettings.labels \subseteq FirstSettings.favorites
  /\ MaxPuts \in Nat
  /\ Nothing \notin Settings!Themes \cup Rests \cup Settings!Records \cup Settings!Puts
  /\ \A paths \in SUBSET Paths : paths # Nothing

-----------------------------------------------------------------------------
\* The shares and the tokens.

CONSTANTS MaxRequests, MaxTurns

VARIABLES kept, count, list, outdated, query, page, open, filled, sharing, secret, requests,
          unsure, turns

sharesVars ==
  <<kept, count, list, outdated, query, page, open, filled, sharing, secret, requests,
    unsure, turns>>

Shares == INSTANCE WebShares WITH
  Requests <- MaxRequests, Changes <- MaxTurns, None <- Nothing, made <- count,
  stale <- outdated, reading <- query, jobs <- requests, behind <- unsure

ASSUME SharesAssumption == MaxRequests \in Nat /\ Nothing \notin Shares!Readings \cup Shares!Jobs

-----------------------------------------------------------------------------
\* The page of a visitor.

CONSTANTS SharedFolders, First, MaxMoves, Locked

ASSUME VisitorAssumption == First \in SharedFolders

VARIABLES protected, offered, admitted, everLet, inside, shared, broken, request, word, unlock,
          misplaced, moves

visitorVars ==
  <<protected, offered, admitted, everLet, inside, shared, broken, request, word, unlock,
    misplaced, moves>>

Visitor == INSTANCE PublicShare WITH
  Folders <- SharedFolders, Turns <- MaxMoves, None <- Nothing,
  live <- offered, folder <- inside, data <- shared, steps <- moves

-----------------------------------------------------------------------------
VARIABLE part   \* the part of the app that runs

Parts == {"actions", "dialogs", "text", "listing", "settings", "shares", "visitor"}

Runs(p) ==
  /\ part = p /\ part' = part
  /\ IF p = "actions" THEN TRUE ELSE UNCHANGED actingVars
  /\ IF p = "dialogs" THEN TRUE ELSE UNCHANGED dialogsVars
  /\ IF p = "text" THEN TRUE ELSE UNCHANGED textVars
  /\ IF p = "listing" THEN TRUE ELSE UNCHANGED listingVars
  /\ IF p = "settings" THEN TRUE ELSE UNCHANGED settingsVars
  /\ IF p = "shares" THEN TRUE ELSE UNCHANGED sharesVars
  /\ IF p = "visitor" THEN TRUE ELSE UNCHANGED visitorVars

PagesInit ==
  /\ part \in Parts
  /\ Acting!Init /\ Dialogs!DialogsInit /\ Text!PreviewInit /\ Listing!ListingInit
  /\ Settings!SettingsInit /\ Shares!SharesInit /\ Visitor!ShareInit
  /\ part # "visitor" => protected   \* one initial state for each other part

PagesNext ==
  \/ Runs("actions")  /\ Acting!Next
  \/ Runs("dialogs")  /\ Dialogs!DialogsNext
  \/ Runs("text")     /\ Text!PreviewNext
  \/ Runs("listing")  /\ Listing!ListingNext
  \/ Runs("settings") /\ Settings!SettingsNext
  \/ Runs("shares")   /\ Shares!SharesNext
  \/ Runs("visitor")  /\ Visitor!ShareNext

pagesVars ==
  <<part, actingVars, dialogsVars, textVars, listingVars, settingsVars, sharesVars, visitorVars>>

PagesSpec == PagesInit /\ [][PagesNext]_pagesVars

-----------------------------------------------------------------------------
(***************************************************************************)
(* The properties of the parts.                                            *)
(***************************************************************************)

\* A request replaces only what the user read of and agreed to (PathActionDialog).
ReplacesWhatWasAsked == Acting!ReplacesWhatWasAsked

\* The dialog of an action closes by itself when every entry is done (PathActionDialog).
ClosesWhole == [][Acting!ClosesComplete]_actingVars

\* Back closes dialogs and keeps the page (modalNavigation).
BackKeepsPlace == Dialogs!BackKeepsPlace

\* Only Discard leaves the editor with text that is stored nowhere (FileEditorDialog).
LeavesNothingUnsaved == [][Dialogs!LeavesSaved]_dialogsVars

\* The number and the marks of the find control agree with the matches (FilePreviewDialog, TextEditor).
FindAgrees == Text!FindAgrees

\* A table is read as it was written, up to the limits (csv).
CsvReadsBack == Text!CsvReadsBack

\* The listing at rest is what the server holds (FilesPage).
ListingCurrent == Listing!ListingCurrent

\* The dialog of a deletion closes when every entry is gone (FilesPage).
DeletesWhole == [][Listing!ClosesWhenGone]_listingVars

\* Changes of the settings one after the other take none of each other back (AppShell,
\* FavoritesNav, FilesPage, SettingsPage).
SettingsAsAsked == Settings!SettingsAsAsked

\* The lists of shares and tokens at rest are the server's (SharesPage, SettingsPage).
ListsCurrent == Shares!ListsCurrent

\* A visitor sees the folder in the address, and nothing of it unasked (PublicSharePage).
SharedFolderShown == Visitor!SharedFolderShown

=============================================================================
