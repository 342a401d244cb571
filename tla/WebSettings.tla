---------------------------- MODULE WebSettings ----------------------------
(***************************************************************************)
(* The owner's settings in the web app: the record the server keeps, the   *)
(* copy in the page's query cache, the theme that is shown, and the four   *)
(* places that change them (src/frontend/src/components/AppShell and       *)
(* FavoritesNav, pages/FilesPage and SettingsPage).  Every change is a PUT *)
(* of some fields, made from what is cached; requests and answers          *)
(* interleave, fail, or lose their answer after the record was written.    *)
(***************************************************************************)
EXTENDS Integers, FiniteSets

CONSTANTS
  Paths,         \* what can be a favourite
  Rests,         \* values of the other fields of the settings form
  FirstSettings, \* the record when the page is opened
  SystemDark,    \* whether the system prefers dark
  Requests,      \* how many changes can be under way: a bound
  Changes,       \* how many steps the user and other clients take: a bound
  None

Themes == {"light", "dark", "system"}

VARIABLES
  stored,      \* the record on the server: theme, rest, favorites, labels
  cached,      \* queryClient's ['settings'], None before the first answer,
  failed,      \* whether the last reading of it failed,
  get,         \* and the reading under way: its answer, and whether nothing changed since
  preference,  \* the theme that is shown
  route,       \* the page: files or settings
  form,        \* the settings form, as it was edited
  chosen,      \* the folder in the chooser of the startup directory, None while closed
  menu,        \* the favourite whose menu is open
  editing,     \* the favourite whose label is edited, and whether it has one
  puts,        \* the changes under way
  asked,       \* the record as the changes that were made would have it
  behind,      \* the page may show another record than the server's
  mixed,       \* requests overlapped since the theme was last taken from the record
  changes      \* the steps taken so far

page == <<cached, failed, preference, form>>
place == <<route, chosen>>
nav == <<menu, editing>>
ghosts == <<asked, behind, mixed>>
settingsVars == <<stored, page, get, place, nav, puts, ghosts, changes>>

Records == [theme : Themes, rest : Rests, favorites : SUBSET Paths, labels : SUBSET Paths]
FormOf(s) == [theme |-> s.theme, rest |-> s.rest]

\* What a change sends: None for a field it leaves alone.
Inputs == [theme : Themes \cup {None}, rest : Rests \cup {None},
           favorites : {None} \cup SUBSET Paths, labels : {None} \cup SUBSET Paths]

\* A change under way: who made it, what its user wants, the record the server
\* has read or answers, and the theme to take back.
Puts == [by : {"theme", "save", "star", "bar", "gone"}, input : Inputs, want : Records,
         base : Records \cup {None}, stage : {"sent", "read", "written", "refused"},
         watched : BOOLEAN, previous : Themes]

SettingsTypeOK ==
  /\ {stored, asked} \subseteq Records /\ cached \in Records \cup {None}
  /\ {failed, behind, mixed} \subseteq BOOLEAN
  /\ get \in [answer : Records \cup {None}, clean : BOOLEAN] \cup {None}
  /\ preference \in Themes /\ route \in {"files", "settings"}
  /\ form \in [theme : Themes, rest : Rests] \cup {None}
  /\ chosen \in Rests \cup {None} /\ menu \in Paths \cup {None}
  /\ editing \in [path : Paths, label : BOOLEAN] \cup {None}
  /\ puts \in [1 .. Requests -> Puts \cup {None}]

SettingsInit ==
  /\ FirstSettings \in Records /\ stored = FirstSettings /\ asked = stored
  /\ cached = None /\ failed = FALSE /\ get = [answer |-> None, clean |-> TRUE]
  /\ preference = "system" /\ route = "files" /\ form = None /\ chosen = None
  /\ menu = None /\ editing = None /\ puts = [r \in 1 .. Requests |-> None]
  /\ behind = TRUE /\ mixed = FALSE /\ changes = 0

-----------------------------------------------------------------------------
UnderWay == {r \in DOMAIN puts : puts[r] # None}
Pending(by) == \E r \in UnderWay : puts[r].by = by /\ puts[r].watched

\* A component that goes away forgets its own mutation; the answer still comes.
Forget(p, by) == [r \in DOMAIN p |->
  IF p[r] # None /\ p[r].by = by THEN [p[r] EXCEPT !.watched = FALSE] ELSE p[r]]

\* A record enters the cache.  If it differs from the one there, the effects
\* of the shell and of the settings page take the theme and the form from it;
\* without a favourite the bar of favourites is gone.
Enter(s, p) ==
  /\ cached' = s /\ failed' = FALSE
  /\ form' = IF s # cached /\ route = "settings" THEN FormOf(s) ELSE form
  /\ puts' = IF s.favorites = {} THEN Forget(p, "bar") ELSE p

Shown(s) == IF s # cached THEN s.theme ELSE preference

\* A reading is sent, in place of one that is under way if asked anew.
Reading(again) ==
  /\ get' = IF get # None /\ ~again THEN get ELSE [answer |-> None, clean |-> UnderWay = {}]
  /\ behind' = (behind \/ UnderWay # {}) /\ mixed' = (mixed \/ UnderWay # {})

\* The button of the files page, or a connection that returns.
Refresh ==
  /\ Reading(cached # None)
  /\ UNCHANGED <<stored, page, place, nav, puts, asked>>

\* A page that is opened asks for the settings when they are ten seconds old.
Visit(where) ==
  /\ route' = where /\ where # route /\ chosen = None /\ chosen' = None
  /\ form' = IF where = "settings" /\ cached # None THEN FormOf(cached) ELSE None
  /\ puts' = Forget(Forget(puts, "save"), "star")
  /\ \/ Reading(FALSE)
     \/ cached # None /\ UNCHANGED <<get, behind, mixed>>
  /\ UNCHANGED <<stored, cached, failed, preference, nav, asked>>

ServeGet ==
  /\ get # None /\ get.answer = None /\ get' = [get EXCEPT !.answer = stored]
  /\ UNCHANGED <<stored, page, place, nav, puts, ghosts>>

Got ==
  /\ get # None /\ get.answer # None
  /\ get' = None /\ Enter(get.answer, puts) /\ preference' = Shown(get.answer)
  /\ IF get.answer.favorites = {} THEN menu' = None /\ editing' = None ELSE UNCHANGED nav
  /\ IF get.clean
     THEN behind' = FALSE /\ asked' = stored /\ mixed' = (mixed /\ get.answer = cached)
     ELSE UNCHANGED ghosts
  /\ UNCHANGED <<stored, place>>

GetFails ==
  /\ get # None /\ get' = None /\ failed' = TRUE
  /\ UNCHANGED <<stored, cached, preference, form, place, nav, puts, ghosts>>

-----------------------------------------------------------------------------
\* The changes.

NoInput == [theme |-> None, rest |-> None, favorites |-> None, labels |-> None]

\* A change is sent from what is cached; want is the record its user expects.
Start(by, input, want) ==
  LET together == UnderWay # {} \/ get # None \/ behind IN
  \E r \in DOMAIN puts \ UnderWay :
    /\ \A q \in DOMAIN puts \ UnderWay : r <= q
    /\ cached # None /\ ~Pending(by)
    /\ puts' = [puts EXCEPT ![r] = [by |-> by, input |-> input, want |-> want, base |-> None,
                 stage |-> "sent", watched |-> TRUE, previous |-> preference]]
    /\ get' = IF get = None THEN None ELSE [get EXCEPT !.clean = FALSE]
    /\ behind' = together /\ mixed' = (mixed \/ together)
    /\ UNCHANGED <<stored, cached, failed, place, asked>>

\* The theme is shown before it is stored.
ToggleTheme ==
  LET dark == preference = "dark" \/ (preference = "system" /\ SystemDark)
      next == IF dark THEN "light" ELSE "dark"
  IN
  /\ chosen = None
  /\ Start("theme", [NoInput EXCEPT !.theme = next], [stored EXCEPT !.theme = next])
  /\ preference' = next
  /\ UNCHANGED <<form, nav>>

FormShown == route = "settings" /\ cached # None /\ ~failed

Edit(theme, rest) ==
  /\ FormShown /\ chosen = None
  /\ form' = [theme |-> theme, rest |-> rest] /\ form' # form
  /\ UNCHANGED <<stored, cached, failed, preference, get, place, nav, puts, ghosts>>

\* The startup directory is browsed for in a dialog, and taken into the form.
OpenChooser ==
  /\ FormShown /\ chosen = None /\ chosen' = form.rest
  /\ UNCHANGED <<stored, page, get, route, nav, puts, ghosts>>

Browse(rest) ==
  /\ FormShown /\ chosen \notin {None, rest} /\ chosen' = rest
  /\ UNCHANGED <<stored, page, get, route, nav, puts, ghosts>>

Select ==
  /\ FormShown /\ chosen # None /\ chosen' = None
  /\ form' = [form EXCEPT !.rest = chosen]
  /\ UNCHANGED <<stored, cached, failed, preference, get, route, nav, puts, ghosts>>

CloseChooser ==
  /\ chosen # None /\ chosen' = None
  /\ UNCHANGED <<stored, page, get, route, nav, puts, ghosts>>

Save ==
  /\ FormShown /\ chosen = None
  /\ Start("save", [NoInput EXCEPT !.theme = form.theme, !.rest = form.rest],
                   [stored EXCEPT !.theme = form.theme, !.rest = form.rest])
  /\ UNCHANGED <<preference, form, nav>>

\* The list of favourites is sent whole, with the path added or removed.
With(s, favorites) == [s EXCEPT !.favorites = favorites, !.labels = @ \cap favorites]
Toggled(favorites, p) == IF p \in favorites THEN favorites \ {p} ELSE favorites \cup {p}

Star(p) ==
  /\ route = "files" /\ cached # None
  /\ Start("star", [NoInput EXCEPT !.favorites = Toggled(cached.favorites, p)],
                   With(stored, Toggled(stored.favorites, p)))
  /\ UNCHANGED <<preference, form, nav>>

OpenMenu(p) ==
  /\ cached # None /\ p \in cached.favorites /\ editing = None /\ chosen = None
  /\ menu' = p /\ UNCHANGED <<stored, page, get, place, editing, puts, ghosts>>

\* Back, Escape or a click beside it; a change of the label is waited for.
CloseBar ==
  /\ menu # None \/ (editing # None /\ ~Pending("bar"))
  /\ menu' = None /\ editing' = IF menu = None THEN None ELSE editing
  /\ UNCHANGED <<stored, page, get, place, puts, ghosts>>

RemoveFavorite ==
  /\ menu # None
  /\ Start("bar", [NoInput EXCEPT !.favorites = cached.favorites \ {menu}],
                  With(stored, stored.favorites \ {menu}))
  /\ UNCHANGED <<preference, form, nav>>

EditLabel ==
  /\ menu # None /\ ~Pending("bar")
  /\ editing' = [path |-> menu, label |-> TRUE] /\ menu' = None
  /\ UNCHANGED <<stored, page, get, place, puts, ghosts>>

ClearLabel ==
  /\ editing # None /\ editing' = [editing EXCEPT !.label = ~@]
  /\ UNCHANGED <<stored, page, get, place, menu, puts, ghosts>>

\* All labels are sent; an empty one is not kept.
Labelled(labels) == IF editing.label THEN labels \cup {editing.path} ELSE labels \ {editing.path}

SaveLabel ==
  /\ editing # None
  /\ Start("bar", [NoInput EXCEPT !.labels = Labelled(cached.labels)],
                  [stored EXCEPT !.labels = Labelled(@)])
  /\ UNCHANGED <<preference, form, nav>>

-----------------------------------------------------------------------------
\* The server reads the record, edits it, and writes it in a transaction of its own.

ReadRecord(r) ==
  /\ puts[r] # None /\ puts[r].stage = "sent"
  /\ puts' = [puts EXCEPT ![r].stage = "read", ![r].base = stored]
  /\ UNCHANGED <<stored, page, get, place, nav, ghosts>>

Given(new, old) == IF new = None THEN old ELSE new

Applied(base, input) ==
  LET favorites == Given(input.favorites, base.favorites) IN
  [theme |-> Given(input.theme, base.theme), rest |-> Given(input.rest, base.rest),
   favorites |-> favorites, labels |-> Given(input.labels, base.labels) \cap favorites]

WriteRecord(r) ==
  /\ puts[r] # None /\ puts[r].stage = "read"
  /\ LET new == Applied(puts[r].base, puts[r].input)
         refused == ~(Given(puts[r].input.labels, {}) \subseteq new.favorites)
     IN
     /\ stored' = IF refused THEN stored ELSE new
     /\ asked' = IF refused THEN asked ELSE puts[r].want
     /\ puts' = [puts EXCEPT ![r] = IF @.by = "gone" THEN None
                   ELSE [@ EXCEPT !.stage = IF refused THEN "refused" ELSE "written", !.base = new]]
  /\ UNCHANGED <<page, get, place, nav, behind, mixed>>

\* Mutant: the answer is only taken where the change was made.
MutSucceed(r) ==
  /\ puts[r] # None /\ puts[r].stage = "written"
  /\ LET put == puts[r]  done == [puts EXCEPT ![r] = None] IN
     /\ IF put.by = "save" THEN Enter(put.base, done) ELSE puts' = done
                                                                /\ UNCHANGED <<cached, failed, form>>
     /\ preference' = IF put.by = "save" THEN put.base.theme ELSE preference
     /\ IF put.by = "bar" /\ put.watched THEN menu' = None /\ editing' = None ELSE UNCHANGED nav
  /\ UNCHANGED <<stored, get, place, ghosts>>

\* The answer enters the cache, whoever asked; a menu or dialog of the bar closes.
Succeed(r) ==
  /\ puts[r] # None /\ puts[r].stage = "written"
  /\ LET put == puts[r] IN
     /\ Enter(put.base, [puts EXCEPT ![r] = None])
     /\ preference' = IF put.by = "save" THEN put.base.theme ELSE Shown(put.base)
     /\ IF (put.by = "bar" /\ put.watched) \/ put.base.favorites = {}
        THEN menu' = None /\ editing' = None ELSE UNCHANGED nav
  /\ UNCHANGED <<stored, get, place, ghosts>>

\* Without the record changed, or without word of it; a theme is taken back.
Fails(r) ==
  /\ puts[r] # None /\ puts[r].by # "gone"
  /\ \/ /\ puts[r].stage \in {"sent", "refused"}
        /\ puts' = [puts EXCEPT ![r] = None] /\ UNCHANGED <<behind, mixed>>
     \/ /\ puts[r].stage \in {"sent", "read", "written"}
        /\ puts' = [puts EXCEPT ![r] = IF @.stage = "written" THEN None ELSE [@ EXCEPT !.by = "gone"]]
        /\ behind' = TRUE /\ UNCHANGED mixed
  /\ preference' = IF puts[r].by = "theme" THEN puts[r].previous ELSE preference
  /\ UNCHANGED <<stored, cached, failed, form, get, place, nav, asked>>

\* Another client, or a move of files, changes the record.
Foreign(p) ==
  /\ stored' = With(stored, Toggled(stored.favorites, p)) /\ behind' = TRUE
  /\ get' = IF get = None \/ get.answer = None THEN get ELSE [get EXCEPT !.clean = FALSE]
  /\ UNCHANGED <<page, place, nav, puts, asked, mixed>>

-----------------------------------------------------------------------------
SettingsUser ==
  \/ Refresh \/ \E where \in {"files", "settings"} : Visit(where)
  \/ ToggleTheme \/ (\E theme \in Themes, rest \in Rests : Edit(theme, rest)) \/ Save
  \/ OpenChooser \/ (\E rest \in Rests : Browse(rest)) \/ Select \/ CloseChooser
  \/ \E p \in Paths : Star(p) \/ OpenMenu(p) \/ Foreign(p)
  \/ CloseBar \/ RemoveFavorite \/ EditLabel \/ ClearLabel \/ SaveLabel

SettingsOwn ==
  \/ ServeGet \/ Got \/ GetFails
  \/ \E r \in DOMAIN puts : ReadRecord(r) \/ WriteRecord(r) \/ Succeed(r) \/ Fails(r)

SettingsNext ==
  \/ SettingsUser /\ changes < Changes /\ changes' = changes + 1
  \/ SettingsOwn /\ UNCHANGED changes

-----------------------------------------------------------------------------
(***************************************************************************)
(* Properties.                                                             *)
(***************************************************************************)

\* When no change is under way, and since the settings were last read no two
\* requests overlapped, no answer was lost and no other client wrote, then the
\* record is what the owner asked for one change after the other (no change of
\* favourites, labels, theme or form takes back another), the page has that
\* record, and it shows its theme, also after a theme that was refused.
SettingsAsAsked ==
  UnderWay = {} /\ ~behind =>
    /\ stored = asked /\ cached = stored
    /\ ~mixed => preference = stored.theme

=============================================================================
