# ZenFM: formal models

TLA+ models of [ZenFM](../src/README.md), a file manager for e-readers: a Go
backend that serves a web interface (TypeScript) over HTTPS, a KOReader plugin
(Lua) that starts and supervises it, and an Android companion (Java) that does so
where KOReader runs as an app. The models are translated from the source; each
definition's source lines are in `PROJECT.json` under `map`.

## 1. The system

| Part | Source | State | Operations |
| --- | --- | --- | --- |
| Peer receiver | `internal/server/peer.go` | offers, the incoming slot, stage directories, `peer-events.json` | create, poll, accept, decline, cancel, PUT a file, POST to publish, expiry and progress timers, restart |
| Peer sender | `internal/server/peer.go` | the one outgoing job | send, poll, upload, complete, cancel |
| Discovery | `internal/server/peer.go` | live peers, nonce, deadline | discover, announce |
| Uploads (tus) | `internal/server/uploads.go` | upload records, partial files, per-upload locks, slots | create, HEAD, PATCH, finalize, cancel, prune, start-up clean-up |
| Sessions and credentials | `internal/server/session.go`, `internal/state/store.go` | owner record, sessions, tokens, attempt limiter | set-up, login, logout, change of password, tokens, idle and absolute expiry |
| Shares | `internal/server/shares.go`, `internal/state/store.go` | shares, public sessions | create, unlock, revoke, expire |
| Rooted files | `internal/files/root.go` | the directory tree under the root | list, write, move, copy, delete, publish temporary files |
| Server shell | `internal/server/server.go`, `streams.go`, `static.go`, `files.go`, `archive.go`, `preview.go` | stream slots, rate limits, activity clock | routing, file API, archives, previews |
| Process | `cmd/zenfm/main.go`, `protocols.go`, `internal/control/socket.go` | listeners, control socket, idle watcher | start, stop on command or idleness, protocol split |
| TLS identity | `internal/tlsutil/certificate.go` | key and certificate files | load, renew, pin |
| KOReader plugin | `plugin/zenfm.koplugin` | daemon state, staged update, settings | start, stop, poll, update, roll back |
| Android companion | `android/app/src/main/java` | service state, update journal, control nonce | start, stop, commands, download and install updates |
| Upload queue | `frontend/src/pages/FilesPage.tsx`, `api/client.ts` | batches, workers, conflict question, progress | pick, drop, confirm, decide, cancel, leave |
| Web session | `frontend/src/auth`, `App.tsx`, `LoginPage.tsx`, `SetupPage.tsx` | status, session, CSRF token, location | login, set-up, logout, refresh, timers, redirects |
| File actions | `components/FileDialogs.tsx`, `FilesPage.tsx` | the action's dialog, what it has done, its conflict | copy, move, rename, duplicate, paste, replace, retry |
| File dialogs | `modalNavigation.ts`, `components/FileDialogs.tsx` | history, open dialogs, text of the editor | open, back, forward, type, save, discard, create |
| Text preview | `components/FileDialogs.tsx`, `components/TextEditor.tsx`, `csv.ts` | text, query, current match, table | find, next, previous, render, parse |
| File listing | `FilesPage.tsx` | query cache, selection, deletions | open, search, select, delete, make, refresh |
| Web settings, shares, visitor's page | `SettingsPage.tsx`, `components/FavoritesNav.tsx`, `SharesPage.tsx`, `PublicSharePage.tsx` | query cache, forms | change, make, revoke, unlock |
| Rest of the web interface | `markdown.ts`, `i18n.ts`, `locales`, `styles.css` | none | rendering, translation |

The owner's browser reaches the backend through the HTTPS listener; KOReader
and the companion reach it through a Unix control socket (`internal/control`)
and read `peer-events.json`. Two devices talk as sender and receiver through
the peer endpoints, each being client and server of the other
(`docs/api/peer-v1.md`). The backend's own parts share the store (bbolt) and
the rooted file system. The web interface is one JavaScript thread: its parts
share the query cache, the browser's history and the requests under way, whose
answers are callbacks that run between the user's events. Hard behaviours are
listed with their lines under `hazards` in `PROJECT.json`; in the backend and the
plugin most come from mutexes that are dropped in the middle of a handler,
records and files that are updated one after the other, and calls whose answers
get lost; in the web interface, from answers that come after the user has gone on.

### What makes each part correct

- **Peer receiver**: at most one incoming transfer, and KOReader is shown that
  one in its current state; what the table records as received is on the disk;
  what is reported complete was published whole; nothing in the receive root is
  replaced; no offer keeps the slot for ever.
- **Peer sender**: at most one active job; calls in the order the receiver
  expects; `complete` only if the receiver published; a job that was replaced
  sends nothing more and cannot change what is shown; every job ends.
- **Discovery**: a peer is listed only if it answered the search that is
  running; a search ends at its deadline.
- **Uploads**: acknowledged bytes are on the disk and the upload can be continued
  from there after any failure; what appears at the destination is the whole
  upload, once, and replaces a file only when told to; partial files and records
  do not outlive each other; bounds hold; every request ends.
- **Sessions and credentials**: a session lives exactly as long as its idle and
  absolute limits say although most uses are not written; a change of password
  ends every session that was opened with the old one.
- **Shares**: a capability ends with its share, and a share with the file it
  names.
- **Rooted files**: an interrupted replacement leaves the old or the new entry.
- **Process and KOReader plugin**: at most one supervised backend; a stop really
  stops it; an update is verified or rolled back, never half installed.
- **Android companion**: an update is either verified by a healthy backend or
  asks for recovery, whatever Android kills in between.
- **Upload queue**: a file is replaced only with its batch's consent; a batch that
  ends as done is stored; a question that waits is shown; nothing is sent after the
  end; every batch ends.
- **Web session**: only a logout, a refusal or a deadline ends it for the page; a
  dead session does not stay on the screen; signing in ends where the user wanted
  to go.
- **File actions, dialogs, listing**: one answer replaces one target; a dialog that
  closes by itself has done everything; Back closes a dialog and never leaves the
  page under it; typed text is not lost; a listing is current.
- **Text preview**: what is marked is what is counted; a table reads back.
- **Settings, shares, visitor's page**: what is shown is what the server keeps;
  a visitor sees the folder in the address, and nothing before the password.

## 2. The modules

| Module | What it is | State | Actions |
| --- | --- | --- | --- |
| `PeerOffers` | abstract specification of an offer table | the phase of each offer | `Ask`, `Approve`, `Complete`, `End`, `Replace` |
| `PeerReceiver` | the receiving half of `peer.go` | offers, slot, events, disk, requests | one per critical section of `peerManager.mu`, one per stretch without it |
| `PeerSender` | the sending half, against a receiver that keeps `PeerOffers` | jobs, calls in flight, receiver | commands, the steps of `runOutgoing`, the receiver's answers, losses |
| `UploadLocks` | the table of per-upload mutexes | entries, reference counts, holders | `Refer`, `Lock`, `Unlock`, `Drop` |
| `Uploads` | `uploads.go` with the records of `store.go` and publication in `root.go` | records, partial files, destinations, requests | the steps of create, PATCH, cancel, prune, start-up clean-up; crash |
| `Sessions` | abstract specification of browser sessions | clock, sessions | begin, request, revoke, prune, restart |
| `SessionStore` | the sessions bucket and the touches in memory | clock, records, notes | `CreateSession`, the outcomes of `Session`, `DeleteSession`, `ReplacePassword`, `PruneExpired`, restart |
| `PluginUpdate` | `zenfm_daemon.lua` and `zenfm_updater.lua`: life cycle of the backend, update, health check, rollback | directories, marker, executable, service, where KOReader is | one per call that can fail or be cut short; crash, power loss; supervisor and backend |
| `Supervisor` | `supervisor.sh`, with start-up and control socket of the backends it launches | lock directory and records, `server.pid`, socket path, firewall, supervisors, backends | one per command of the script that others can see; `Kill`; `Open`, `Listen`, `Stop`, `CloseSocket`, `Exit` of a backend |
| `UploadQueue` | the upload queue of the files page, with the server's files and other writers | batches, the stage of each file, question, requests given up | the user's decisions; directories; `TakeFile`, `Packed`, `Serve`, `Refuse`, `Finish`, `FallBack`, `Conflict`, `Fail` of a file; `EndBatch` |
| `WebSession` | `AuthProvider`, the redirects, and the server's sessions | status, token, calls, location, cookie, live sessions | calls and their answers, timers, redirects, other tabs, reload |
| `PathAction` | copy, move, rename, duplicate, paste | tree, dialog, its mutations | begin, type, submit, replace, cancel; the server's answers |
| `FileDialogs` | preview, editor and new file over the history | history, open dialogs, text, requests | open, back, forward, type, save, close; answers |
| `TextPreview` | search in a text, CSV parser | text, query, current match, table | find, next, previous, switch of the view |
| `FileListing` | listing, search, selection, deletion | queries, selection, mutations, tree | visit, select, delete, make; answers |
| `WebSettings` | the settings record and its four editors | record, cache, form, theme, changes under way | edit, save, revert; both transactions of `putSettings` |
| `WebShares` | shares and tokens on three pages | items, lists, forms, secret | make, revoke, visit; answers |
| `PublicShare` | the page of a visitor | folder, cache, password, public session | go, unlock, revoke; answers |
| `WebPages` | the last seven, as parts of one app, with what is assumed of their constants and their properties | `part`, which of them is looked at | the actions of that part |
| `*Proofs` | theorems about the module they are named after; `UploadsProofs` also those about `UploadLocks`, `ServerProofs` those about `SessionStore` and `Supervisor`, `WebProofs` those about `WebSession` and `WebPages`, but for `TextPreview`, which has `TextProofs` | | |
| `MC*` | instances for TLC | | |

How they compose: `PeerReceiver` implements `PeerOffers` (`KeepsPromise`), and
`PeerSender` instantiates `PeerOffers` for the other device, so that sender and
receiver are checked against one description of the protocol instead of in a
product that is too large to explore. `SessionStore` implements `Sessions`
(`ExactSessions`). `Uploads` relies on mutual exclusion per upload, which
`UploadLocks` shows for the table the code keeps. `UploadQueue` relies on
`Resumable` of `Uploads`: an upload that may replace files is never refused
because a file exists, since record and file agree when it is taken up again.
`WebPages` puts the seven parts of the pages side by side; each of its
behaviours moves one of them, because the router mounts one page at a time and the
dialogs cover the page.

Conventions: names of variables and actions follow the source where they can.
Definitions named `Mut...` are deliberately wrong variants of the definition that
follows them, each a bug that could plausibly be made there; `mutants` in
`PROJECT.json` says which property exposes which. They belong to no
specification.

### 2.1 PeerReceiver

`status[o]` is `peerOffer.Status`, with `new` before the offer and a reason
after it left the table; `incoming` and `event` are `peerManager.incoming` and
`incomingEvent`, `eventFile` the incoming half of `peer-events.json`. A payload
is nowhere, in its stage or at a destination index (`place`): `uniqueDestination`
tries `name`, `name (1)` and so on. A file of a payload is absent, partial or whole.
`putTransferFile` and `completeTransfer` drop the mutex in the middle, so their
requests have a program counter: `PutCheck`, `PutOpen`, `PutProgress`, `PutCopied`,
`PutRecord` and `CompleteCheck`, `ChooseDestination`, `Publish`, `Unstage`,
`CompleteFinish`. `cleanupOfferLocked` runs `RemoveAll` with the mutex held, but
the stretches above do not take the mutex; `CleanupList`, `CleanupUnlink` and
`CleanupEnd` are its steps. Time is the deadlines an offer has passed (`age`)
and whether the progress timer has run out (`stalled`).

`WriteEvents` is `publishEventsLocked`, which keeps the old file when its directory,
the writing or the renaming fails, and only logs it (`unwritten`). `Atomic` are the
offers whose item the file system can publish without replacing anything (`Publish`).
On FAT and on Android's storage it cannot: `root.go` looks at the name and then
renames, holding `publishMu`, which other programs do not know of (`PublishLook`,
`PublishRename`); `raced` are the names at which they made something in between. A
PUT that was admitted before a POST published its single file can create the file in
the stage again (`late`), and a second POST can publish that one.

### 2.2 PeerSender

A job is the record `peerOutgoing` with the goroutine `runOutgoing`. A call puts
a request into `net`; the receiver serves it now, later, after the sender gave
up, or never (`Lose`). `Fail` covers every way in which a call ends without a
usable answer. The owner's `send` looks at the running job twice, because it
walks the source without the mutex (`SendCheck`, `SendStart`); `cancel` leaves a
DELETE behind. Of the receiver it has the phases of the offers and, in
`publishing`, `published`, `cleaning` and `damaged`, what the sender's `complete`
depends on: publication runs without the receiver's mutex, so that an offer which is
given up at that moment may lose files and is answered 200 all the same.

### 2.3 Uploads and UploadLocks

A byte is the number of its position, so that a file is right when it reads
1, 2, 3, ...; `synced` says how much of a partial file survives a loss of power.
A request is a sequence of steps named by `pc`: a PATCH waits for the lock,
writes byte by byte, syncs, and then advances the record or finalizes. The
process may end between any two. `PruneRecords` is the transaction of
`PruneExpired`, after which the partial files go one by one under their locks.
`Crossing` names destinations on another file system, where `finalizeUpload`
copies (`CopyPart`) before it publishes the copy, instead of moving. Publication is
one step for an upload that may replace files and where the file system can refuse
to replace (`Atomic`, `Publish`), otherwise a look and a rename (`PublishLook`,
`PublishRename`, `raced`), as in the receiver. `PatchGone` is any error of
`Store.Upload`: no record, an expired one, or a transaction that fails; the partial
file is removed in each case (`dropped`). In `UploadLocks` an address can be used
again once nothing refers to the entry that had it.

### 2.4 SessionStore

A record has `LastSeenAt`, `IdleUntil` and `AbsoluteEnd`; a note is an entry of
`sessionTouches`. `sessionMu` makes an operation one step, but an operation that
enters the write transaction reads the clock twice: `clock` and `clock'` are the
two readings. While `steady`, which is chosen at the start, the clock never goes
back and no write fails; otherwise both may happen at any time. `TouchLag` is
stated for a steady run only, `NoStrayTouch` and `ExactSessions` for every run.

### 2.5 PluginUpdate

`dir` is what the plugin's directory and the ones beside it hold: `.incoming`,
`.rollback`, `.failed` and the staged release. A tree is a version, missing, or
`Torn`: some of its files are gone. `installed` is the executable in the state
directory, `source` the version in `source.version`, `pending` the marker
`.update-pending`, which moves with the plugin directory. KOReader runs one
operation at a time; `pc` is the call it is about to make and `goal` the
operation that call belongs to, so that `stop`, `wait_until_stopped` and `start`
are written once: `activate` for `activate_stage`, `verify`, `settle` and
`rollback` for the three stops of `finalize_pending`, `restart`, `reset`, and
`toggle` for the menu. `Finalize` may also come in the middle of a session,
because `ZenFM:init` runs whenever a book is opened or closed.

Between any two calls KOReader may end (`Quit`) or the power may fail
(`PowerLoss`); what was being removed or copied is then torn. One call may fail
without a reason (`MaxFaults`). Supervisor and backend go on without KOReader:
`Boot`, `Halt`, `Exit`, and `Abandon` when the supervisor alone is killed. They
are reduced to the two things the plugin looks at, the lock and the control
socket. `Launch` only starts a supervisor in the background (`starting`); it comes to
the lock later, takes it (`TakeLock`), or finds it held or fails (`GiveWay`), and
`wait_until_stopped` sees nothing of it until then (`missed`). That it takes the lock
in one step is an abstraction; how the shell script does that belongs to
`Supervisor`. A torn plugin directory counts as one that
lacks what start needs. Left out: download and validation beyond their
outcome, Android (no backend to check), and PocketBook, where the executable is
not copied.

### 2.6 Supervisor

`lock` is the directory `server.pid.lock`, `rec` its files: `owner`, `ident`
(`owner.start` and `owner.exe`) and `child`; a record names the process whose pid
and start time it holds, so that a pid that is used again is no confusion. `pc`
is the command a supervisor runs next: before the lock is its own (`Acquiring`)
and after (`Owned`), through `cleanup` to the end. A backend takes the lock of
`zenfm.db` (`Open`), binds the control socket (`Listen`, which replaces a path
nobody listens on), and ends on command, signal or idleness; closing the listener
removes whatever is at its path. `StopUnanswered` is the plugin's `Daemon:stop` when
nobody answers at the control socket: it removes `server.pid`, also under a backend
that is still starting (`dropped`).

`Init` chooses what happens (`regime`): starters come together and none is killed,
or supervisors may be killed at any step and one at a time takes over, or both.
The properties are claimed of the first two; in the third, which the run explores
as well, two starters can recover the same stale lock (section 3).
Simplifications: the firewall rules of a Kindle are always set; a TERM is modelled
while the script waits for its backend, which is most of its life; the three files
of an owner are read in one step, although the script waits up to a second for
them. An incomplete lock whose owner is gone (the supervisor was killed before it
wrote `owner`) is refused for ever, as in the script, until the directory goes
with the next reboot.

`PluginUpdate` assumes that a free lock means no backend. `Released` shows it,
except for a backend whose supervisor was killed between launching and recording
it (`lost`).

### 2.7 UploadQueue

A batch is files with their paths and directories. `queue` is the chain of
promises `uploadQueue`, `batch` and `signal` the running batch and its
`AbortController`, `policy` its `conflictPolicy`. Everything the page does before
it returns to the event loop is one step, promise reactions included; so the
workers that meet a conflict together are steps of their own which append to
`asking`, and the dialog shows its head. `stage[f]` says where a file is: to do,
being compressed, under way with a plain or a resumable request, in conflict, or
ended. `Serve` and `Refuse` are the server's answers, put into `answer` and seen
by the page later; a request that the page gives up becomes `stray` and may still
be served. `FallBack` sends with a plain request what got a 501 as a resumable
one; `Stall` is the timer of 30 seconds. Other programs write and remove files at
the paths of `Contested`. `consent`, `skipping`, `stored` and `replaced` only
remember. In the code a request that may replace and is answered 409 again would
make `uploadOne` try for ever; `Refuse` leaves that answer out, for the reason
given above.

### 2.8 WebSession

A session stands for its cookie and its CSRF token. `call` holds the requests
under way with what they were sent with and what was answered; answers arrive in any
order, and `InPlace` says that the redirects of the last render are done before the
next event. `asked` remembers what the user asked for last. `landing` is the
navigation that follows `offerToSavePassword`, which the browser may hold back.
`mislaid` notes the two cases in which the page itself loses what was asked for
(section 3); it is forgotten with the next link that is followed or the next load.

### 2.9 The seven parts of WebPages

- **PathAction**: `jobs` are the mutations of `PathActionDialog`; one carries out
  the entries in turn, each request is served by `Serve` and seen by `Done` or
  `Failed`. The refs `completed`, `conflictPath` and `copyPlan` are kept between
  retries as in the code; a drop onto a folder knows nothing of them. `mixed` notes
  that a mutation outlived its dialog.
- **FileDialogs**: `pages` and `at` are the browser's history, `going` the moves it
  has been asked for and that arrive later, `registered` and `restoring` the state
  of `modalNavigation`: for each open dialog its place in the history, and the
  dialogs that were in the array before it (`under`). `hasty` notes that the user
  moved while the browser was moving, `overtaken` that the user typed or left while
  a request was under way.
- **TextPreview**: a text is a sequence of characters; `Lower` gives each its lower
  case, of one character or more. The dialog searches the text as it is
  (`Searchable`, lower-cased as a whole), the editor the document it holds, whose
  lines all end with one character (`Document`), each range lower-cased by itself.
  `Found` are the matches of the dialog; `Marks` (the editor's decorations, line by
  line in view), the current one (`CurrentMarks`) and `RenderedMarks` (over text
  nodes) are translated and compared for every view and every way to cut the
  rendered text. `ParseCsv` is a fold over the characters and is compared with
  `TableText`, which writes a table.
- **FileListing**: the tree is a set of entries, each a folder with a name. A query
  reads a folder's entries (`files`) or searches the folder and what is beneath it
  (`search`, `Below`), with or without hidden files; `data`, `stale` and `fetch` are its
  entry in the cache, whether it was invalidated, and the request under way. `Refresh`
  invalidates the keys of one path, as `refresh` does. The setting changes only when
  settings are read.
- **WebSettings**: `get` is the reading under way; a change is read from the record
  and written to it in two steps, as `putSettings` does.
- **WebShares** and **PublicShare**: items are numbers; a list is
  what was read; `behind` and `misplaced` note the cases the properties except.

The only server among the TypeScript sources is the development server
`dev/mockApi.ts`; the server's steps in these modules are mapped to its handlers
where it has them.

## 3. What TLC checks

`tlc -config X.cfg M` with the module and configuration of each run:

| Run | Instance | Properties | Distinct states |
| --- | --- | --- | --- |
| `receiver_one` | after a restart, a folder of two files that is published in one step or a single file that is not; two requests, two destinations, one progress report | `EventFileCurrent`, `CompleteIsWhole`, `NoOverwrite` | 240 122 |
| `receiver_two` | a folder and a single file that compete for the slot and one destination, fair | `KeepsPromise`, `SlotFreed` | 415 680 |
| `receiver_whole` | the folder of `receiver_one`, one request | finding: `PublishedWhole` | violated |
| `sender` | two jobs of two files, fair | `CompleteIsPublished`, `JobEnds` | 639 156 |
| `upload_locks` | four requests, two uploads, three addresses, fair | `Exclusive`, `Served` | 10 417 |
| `uploads` | two uploads (one of two bytes that crosses file systems, to where nothing can refuse to be replaced, an empty one that overwrites), two requests, one record at most, fair | `PublishedWhole`, `Resumable`, `NoOrphan`, `NoOverwrite`, `RequestsEnd` | 240 622 |
| `session_store` | two tokens, nine readings of the clock, steady or not | `ExactSessions` | 200 990 |
| `plugin_update` | three releases, one failing call, one supervisor on its way to the lock | `Recoverable`, `RollbackKept`, `SwapsStopped` | 7 874 098 |
| `supervisor` | three supervisors | `OneOwner`, `Reachable`, `Released` | 618 495 |
| `upload_queue` | two batches, three files, two workers, one contested path, fair | `Consent`, `DoneIsStored`, `QuestionOpen`, `NoWorkAfterAbort`, `BatchEnds` | 532 825 |
| `web_session` | two sessions, two private pages, two requests at a time, fair | `ReturnsWhereAsked`, `KeepsSession`, `DeadSessionLeaves` | 872 484 |
| `web_pages` | seven parts: file actions (274 000 states), dialogs (250 000), text and tables (35 000), listing (377 000), settings (611 000), shares and tokens (99 000), visitor's page (24 000) | `ReplacesWhatWasAsked`, `ClosesWhole`; `BackKeepsPlace`, `LeavesNothingUnsaved`; `FindAgrees`, `CsvReadsBack`; `ListingCurrent`, `DeletesWhole`; `SettingsAsAsked`; `ListsCurrent`; `SharedFolderShown` | 1 670 577 |

Safety properties that section 4 proves for every instance and that no run adds
anything to (`ReceivedOnDisk`, `OneIncoming`, `RequestsInOrder`,
`OnlyOutgoingSends`, `OutcomeStays`, `NoLeak`, `ActiveBound`, `RecordsForward`,
`TouchLag`, `NoStrayTouch`, `Uninvited` and the type invariants of the modules
with proofs) are left to the prover. `TypeOK` of `PathAction` documents the types
of its variables.

Why the bounds are enough:

- *Receiver.* Two requests are the PUT that is overtaken and the one that
  overtakes it, or a PUT and a POST; the cleanup that runs against them is a third
  actor. Two files distinguish "some" from "all". Two offers are the one that
  leaves the slot and the one that takes it; no action names three. Both kinds of
  item occur, because `RemoveAll` and the rename treat them differently, and both
  kinds of file system. Two offers in turn, with two requests each, are too many
  states: `receiver_one` has one of the two offers lost with an earlier process
  (`AfterRestart`), `receiver_two` one request. Two destinations let `LocalCreate`
  take the chosen name and leave another.
- *Sender.* Two jobs are the cancelled one, whose call is still in flight, and its
  successor. With two files there is a first, a last and one between PUT and POST.
- *Uploads.* Length 2 has an offset that is neither 0 nor the end; one byte too
  many is the longest body the code reads. The empty upload is published while it
  is created. With `MaxActive = 1` the bound is reached at once, and the second
  creation has to be refused. The upload that may not replace anything goes to
  a file system that cannot refuse to, where publishing it is two steps; that it is
  safe where that is one step is left to the proof.
- *Locks.* Three addresses for two uploads let an address be used again for the
  other upload while requests of the first still run.
- *Sessions.* `Idle = 4`, `MaxInterval = 2` and `Absolute = 7` make the touch
  interval, the idle limit and the absolute end fall on different seconds and let
  a session be kept alive twice before its absolute end. Tokens are
  interchangeable and declared symmetric.
- *Plugin.* Three releases are the one before, the one whose update is rolled back
  or finished, and a second update on top of it. Any one call may fail; crashes
  are not counted. Two faults are more than the code survives: when activation and
  its undoing both fail, the only whole plugin is the rollback copy, and a further
  update in the same session removes it. One supervisor on its way to the lock
  (`MaxStarting`) is the one that nobody sees; of several, all but one give way.
- *Supervisor.* Three are the one that was killed, the one that takes over and a
  further starter, or three that race for a free lock. Each runs once; it has a
  name of its own when it is started again. Supervisors are interchangeable and
  declared symmetric.
- *Upload queue.* Two batches are the one that is asked about or cancelled and its
  successor, which meet at one path. Two workers send the files of the first at
  once, and both can meet a conflict: one with another program's file, one with
  what an earlier request of its own stored before its answer was lost. One file
  is small enough to be compressed, one is sent with a plain request.
- *Web session.* Two sessions are the one that ends and the next; two requests at
  a time let an old answer come after a new one. Two private pages tell the one
  that was asked for from the startup directory.
- *Pages.* Two selected entries tell "the conflict that was answered" from "the next
  one", and two mutations are the one that was left behind and the one that follows.
  Three pages of history hold a page, a dialog and one over it, eight steps of the
  user open, close and reopen them. The texts have matches that touch, overlap and
  cross lines, in either case; one has a line that ends with two characters, two
  have a character that is two in lower case, and so has a query; the fields of the
  tables are those that need quotes. Of two folders one is beneath the other, so
  that a search of the one finds an entry of the other. Four visits are what the
  deletion of two entries takes, with a change of folder between its answers. Two
  requests at a time, four or five changes and six turns are enough for an answer to
  be overtaken by a change, a reading and another page.

Constants bound everything else; no state is cut off by a constraint. Requests are
interchangeable and are declared symmetric where no liveness is checked.
`CHECK_DEADLOCK FALSE` is set for the sender, the supervisors, the upload queue and
the pages only: when all jobs are settled and the manager is closed, all
supervisors and backends have ended, the page was left and every batch
has ended, or the user has taken all the steps of the bound, nothing is left to do.

### Fairness

- *Receiver*: Go timers fire (`Expire`, `TimeOut`), time passes, a started
  request goes on because every read of a body has a deadline, `RemoveAll` ends.
  Nothing is assumed of senders, of the owner or of a restart.
- *Sender*: a call returns (the transport's timeouts, or the context that was
  cancelled) and the poll timer fires; the receiver ends an offer that nobody
  decides or advances, which is `SlotFreed` of the other side. That it answers is
  not assumed.
- *Locks*: a holder unlocks, and a Go mutex starves nobody (strong fairness of
  `Lock`).
- *Uploads*: `progressReader` breaks a body off that stands still, requests keep
  coming so that `maybePrune` runs again and again, and the service is started
  again after a crash.
- *Upload queue*: promises that are settled run their reactions, a request is
  answered (the browser's or the page's time limits), compression ends. Nothing is
  assumed of the user, not even that the question is answered: `BatchEnds` excepts
  a batch whose question is open.
- *Web session*: a redirect is rendered, the timers of the absolute deadline fire
  while the page is shown, and that deadline comes. Nothing is assumed of answers.
- The other parts of the web interface have safety properties only.

### Finding

One run checks what the documentation says and finds an execution of the code
that does otherwise; `findings` in `PROJECT.json` has the quotation.

`PublishedWhole`: `completeTransfer` checks that everything was received,
drops the mutex and publishes. A cancellation in that moment empties the stage
while it is renamed: a folder without some of its files appears in the receive
root. The sender is told of a failure or a success; `CompleteIsWhole` shows
that an offer recorded as complete is never one of these.

### What the properties except

The models follow the code also where it does something a user would not
expect. No document of the repository says otherwise, so these are no findings;
each is a case that a property names as its exception, or that was met while
translating:

- *Receiver.* `peer-events.json` stays behind the table when it cannot be written,
  which is only logged (`peer.go:952-1000`), until the next attempt succeeds
  (`unwritten`); and an offer that `pruneLocked` expires (`peer.go:1243`) stays
  `pending` in it until something else is published. Where the file system has no
  rename that refuses to replace, a file (or an empty directory) that another program
  creates between the look at the name and the rename is lost (`root.go:1010-1028`,
  `1077-1084`; `raced`). Two PUTs and two POSTs for a single file can publish another
  copy of it, perhaps a partial one, under another name (`late`); the one that the
  offer was completed with stays whole.
- *Sender.* A receiver that gives an offer up while it publishes it may lose files of
  it and still answers that it worked (the finding above, seen from the other
  side): the job is then `complete` although the content is not whole (`damaged`).
- *Uploads.* A PATCH whose transaction fails in `Store.Upload` removes the partial file
  of a record that stays (`uploads.go:466-470`), so acknowledged bytes are gone
  (`dropped`); the next PATCH is refused, and the record stays until it is cancelled or
  expires. The look before the rename is raced as in the receiver
  (`root.go:952-957`, `1023-1028`).
- *Plugin.* A supervisor that was launched and has not come to its lock is not seen
  by `wait_until_stopped` (`zenfm_daemon.lua:532-534`, `556-566`), so that it may
  start its backend while the plugin's directories are moved, or after the user
  stopped it (`missed`). Which directories there are in the end does not depend on
  it: `Recoverable` and `RollbackKept` have no such exception. `ensure_backend`
  copies the executable before it writes `source.version` (`zenfm_daemon.lua:252`);
  if that write fails and the update is rolled back, the restored version launches
  the failed one's executable.
- *Supervisor.* Two starters that recover the same stale lock (`supervisor.sh:213`) can
  both get it; the lock of the database lets only one backend serve. A `Daemon:stop`
  that nobody answers removes `server.pid` (`zenfm_daemon.lua:548-551`), and a backend that
  was starting serves without it (`dropped`). A backend whose supervisor was killed
  between launching and recording it is cleaned up by nobody (`lost`).
- *Upload queue.* A failing directory does not stop the requests for its siblings. An
  upload that may replace and is answered 409 would be tried for ever.
- *Web session.* A session that ends while the set-up shows takes the wanted page
  with it (`App.tsx:42` keeps no `returnTo`), and a form that is still to be answered
  or to navigate leads away from a link that was followed meanwhile (`mislaid`).
  A wrong current password in the settings is answered 401 and logs
  the page out; so does a late 401 for an earlier session. Answers to `GET
  /session` are not numbered. Logging out without a connection leaves the session
  alive. A late answer "set-up required" shows the set-up again.
- *File actions.* Cancel, Back and typing while an action is pending leave it
  running (`mixed`). A direct paste that fails otherwise than by a conflict offers no
  retry. Replacing an ancestor directory replaces it with everything in it.
- *Dialogs.* Back twice before the browser has settled leaves `restoringIndex` set
  (`hasty`). What is typed while a save is pending is lost, and the cache says it
  was saved; the success of a save can close the next editor; after a failed
  reading the editor can save the text of the file edited before (`overtaken`). A
  PDF, TIFF or EPUB that cannot be read keeps showing the loading pane.
- *Text.* In a view that begins inside a long line, a query that overlaps itself may
  be marked at other places than are counted. Positions in the lower-cased text are
  used as positions in the text (`FileDialogs.tsx:120-129`, `TextEditor.tsx:36`), so
  a character that is longer in lower case shifts the marks behind it. The dialog
  counts a CRLF as two characters and the editor as one (`TextEditor.tsx:55-62`): in
  a text with a carriage return the editor marks its own matches right, but they
  need not be those that are counted, and the current one is not shown as such. Nor
  is it for a query that is longer in lower case (`TextEditor.tsx:57`). `FindAgrees`
  states the general part for every text that keeps its length, and the agreement of
  dialog and editor for those without a carriage return.
- *Listing.* When one of several deletions fails, the others go on and the
  listing is not asked again; a deletion that was cancelled while it ran closes
  the dialog of the next; only the folder shown at the end is refreshed
  (`FilesPage.tsx:304-308`), and only by its own path: the cached search of a folder above, and
  the cached listing of a folder beneath in which a search found the entry, stay as
  they were until they age; a first answer given before a change is kept (all
  `behind`).
- *Settings.* Changes that overlap lose one another, in the page (whole lists of
  favourites) and in `putSettings` (two transactions); a new record replaces what
  is being edited in the form.
- *Shares.* The dialog of the files page does not refresh the list of shares, and its
  button works twice; a page that is left while a share is made never shows its
  secret, and one that is left while a change or the reading after it is under way
  keeps the list it had (`behind`).
- *Visitor's page.* The answer to a password is stored for the folder that is
  in the address by then; other folders may ask once more.

## 4. What is proved

TLAPS proves the following for every value of the constants that satisfies
the assumptions stated with them (`theorems` in `PROJECT.json` lists all):

- *Receiver* (`PeerReceiverProofs`): type correctness,
  `OneIncoming`, `EventFileCurrent`, the implementation of
  `PeerOffers`, `ReceivedOnDisk`, `CompleteIsWhole`, `NoOverwrite`. Assumed: a
  manifest declares files, a single-file offer exactly one.
  `OneIncoming` is inductive once it is known which offers requests and cleanups
  refer to (`Typing`). The disk needs more: a PUT that is copying has
  created its file, a received file is whole unless a cleanup runs, and a request
  that publishes for an offer that is still accepted finds it untouched. These
  hold per offer only while it is live (`Live`, accepted and not being removed),
  and the argument is that an offer which leaves that state never comes back.
  `NoOverwrite` needs that only one publication is between its look and its
  rename, and that what is at its name by then was made since (`RenameOK`). Nothing
  is assumed of the file system; the exceptions are `raced` and `unwritten`.
- *Sender* (`PeerSenderProofs`): all its safety and action properties. The
  invariant says which job runs (`Shown`), that a request in `net` is the call its
  job waits for or was left behind by a job that is done (`Flight`), and how far
  sender and receiver are with the files (`Progress`), the receiver's publication and
  cleanup included: what it damaged it has begun to give up (`CleanupOK`).
- *Locks* (`UploadsProofs`): `Exclusive` and `NoLeak`. The count of an entry is
  the cardinality of the set of requests that refer to it, and the table has
  that entry for their upload; so an entry is dropped when no other refers to it.
  Assumed: finitely many requests.
- *Uploads* (`UploadsProofs`): all safety and action properties. The
  invariant lists what a request of each kind can be doing (`Shape`) and what
  the upload it has in hand looks like at that step; expired uploads and those
  in somebody's `todo` have no record. An upload that is neither ended nor `dropped`
  has its partial file; and what is at the destination of a request that has looked
  was put there since (`LookedAll`).
- *Sessions* (`ServerProofs`): `NoStrayTouch`, `TouchLag` and the
  implementation of `Sessions`. `Good` relates a record, its note and the
  clock; each operation keeps it token by token, for any clock.
- *Plugin* (`PluginUpdateProofs`): type correctness, `SwapsStopped` and
  `Uninvited` for any number of failing calls, `Recoverable` and `RollbackKept`
  for at most one (`MaxFaults <= 1`), both for any number of supervisors on their way
  to the lock. `Quiet` says that a free lock means no backend, that while files move
  nothing runs and nothing is about to unless the wait for the lock missed a supervisor
  (`Silent`, `missed`), and that a service started only to be checked is known by the
  marker `stop`. `Kept` accounts for each copy at each step: what is staged is newer than
  what is installed, the rollback copy is whole while the plugin's name is
  vacant, and the steps that undo have the one fault behind them.
- *Upload queue* (`UploadQueueProofs`): type correctness, `Consent`, `DoneIsStored`,
  `QuestionOpen` and `NoWorkAfterAbort`, for any number of batches, files and
  workers. The invariant has a part for each reason: a file that a worker has in
  hand belongs to the running batch, whose directories are made (`Working`); after
  an abort only compressions go on, and a page that was left has aborted (`Quiet`);
  the files that wait are in the queue of questions, and the first one is shown
  (`Asked`); a batch waits once and is untouched until it runs (`Waiting`); a request that
  may replace, under way or given up, belongs to a batch whose user agreed
  (`Agreed`); and a file that is done was stored, one that was skipped was skipped
  by choice, and a failed one has ended its batch (`Accounted`).

- *Supervisor* (`ServerProofs`): type correctness, `OneOwner`, `Reachable` and
  `Released`, for any number of supervisors. `Turns` says what a regime allows: of
  starters that come together none takes over, and one at a time acquires where
  supervisors are killed. `Whose` then gives the lock one owner, whose records are
  those it has written and not yet removed. `Children` says of a backend that may
  run that the records name it, or that its supervisor is about to write its name,
  or was killed then; `Database`, which holds in every regime, that one backend
  serves; `Traces` that `server.pid`, the socket and the firewall are those of a
  supervisor that still has them to clean up, or was killed, and that `server.pid`
  is missing under a supervisor that wrote it only if a stop removed it (`dropped`).
  Without `Whose`, a starter that removes a dead owner's records could remove those
  of a living one, which the third regime allows.
- *Web session* (`WebProofs`): type correctness, `ReturnsWhereAsked` and `KeepsSession`,
  for any number of sessions, requests and private pages. The invariant (`Kept`)
  follows the address that was asked for through the redirects: the one the router
  remembers, the one a sign-in under way leads to, and the one that is shown are that
  page, unless it was mislaid. Assumed: there is a session to give out.
- *Visitor's page*: `SharedFolderShown`. What is cached or answered for a folder is
  that folder, unless it was unlocked for another, and of a protected share nothing is let
  out before a password was accepted (`VisitorSound`).
- *Shares and tokens*: `ListsCurrent`. A list that differs from the server's is to be
  read again, or the success of a request under way will have it read again; an answer
  under way agrees unless it is known to be overtaken (`ListsSound`).
- *File actions*: `ReplacesWhatWasAsked` and `ClosesWhole`, for any tree, selection and
  number of mutations. While actions are not mixed, at most one mutation runs, its
  dialog shows it, and the conflict which the refs remember is the one the user has
  read of, with the target it has now (`ActingSound`); what the refs call completed
  was acknowledged, and a mutation has left out only that (`ActingDone`).
- *Settings*: `SettingsAsAsked`, for any number of changes. A change under way holds
  the record it was read from; while nothing kept page and server apart, there is
  one change at a time, and record and cache are the wanted ones up to that
  change (`ChangesSound`, `OneChange`, `ThemeShown`).
- *Listing*: `ListingCurrent` and `DeletesWhole`, for any folders one beneath another,
  names and number of visits. Every answer that is cached, of a listing or of a search
  of everything beneath, is right, or is asked again, or the change that made it wrong
  has still to be told to the page (`Unsettled`, `QueriesSound`); a deletion whose
  dialog waits is of the entries that the dialog shows, and those it has done are
  gone (`DeletionsSound`). The exceptions are those of section 3 (`behind`).
- *Dialogs*: `BackKeepsPlace` and `LeavesNothingUnsaved`, for any length of the history,
  files and number of steps. Which dialogs are open together, and that the one
  that is closed by Back is the one on top of them (`ModalsTyped`, `RegisteredSound`); where
  the browser is and will be: unless the user was hasty at most one move is
  under way, and every open dialog belongs to the place where it ends (`BrowserSound`,
  `IndexesSound`); and what the editor's text is compared with (`EditorSound`).
- *Text preview* (`TextProofs`): `FindAgrees` and `CsvReadsBack`, for any texts,
  queries and rows of any characters, any lower case of them, and any limits. Both
  say what a loop finds in a text. The library's induction theorems take operators,
  which the provers cannot instantiate; `SmallestOf`, `Induction` and `Recursion`
  derive from the well-foundedness of `<` the same for sets of numbers and for
  functions, and every loop is followed with them.
  - *Matches.* A text that keeps its length is lower-cased character by character
    (`LowerIs`), so a part of it can be cut out before or after (`LowerOfSlice`).
    What `indexOf` finds is a chain: each match is the first after the end of the
    one before (`MatchesAre`). A set with that property is the only one
    (`PicksOnce`). What the editor finds in a range and a margin around it has it
    too, if the range begins with a line or the query does not overlap itself
    (`ViewIsClear`), so it marks the matches of its document that reach into the
    view (`MarksAre`). The walk over the pieces of a rendered text keeps the
    invariant `Progress`: what lies before it is marked as far as matches reach, and
    it knows the first match that is not (`RenderedIs`). `StartsCurrent` and
    `MovesCurrent` keep the number that is shown.
  - *Tables.* `At` says where the parser is: the rows, the row and the field it has,
    whether within quotes, and whether it has said that something is cut. A field
    leads from one place to the next whether it was quoted or not (`ReadField`), so
    does a line (`ReadLine`) and a line end (`EndRow`), and so the text of a table
    leads to its rows, up to the limits (`TableReadsBack`).

The assumptions on the constants of the pages stand in `WebPages`. They say that
`Nothing` is no value of any other kind, that what is selected, shown or kept at the start is of
its type, that the history has room for two pages, that a query is one line, that no character
has a line end in its lower case and a line end has none, and that at
least one row and one column of a table are shown.

TLC finds each of these invariants true on the instance of its component as well.

Only model-checked are the liveness properties (`SlotFreed`, `JobEnds`, `Served`,
`RequestsEnd`, `BatchEnds`, `DeadSessionLeaves`): liveness under fairness needs
ENABLED, which is not within reach of the prover.

## 5. What is not modelled

- Data is abstract: names, sizes, digests, JSON and HTTP are left out unless a
  property is about them. Capabilities (offer and session secrets) are modelled by
  who may perform an action.
- Receiver: the checks that refuse a malformed manifest or a path change
  nothing and are left out; `http.Server.Shutdown` may time out with handlers
  running, after which the process ends at once.
- Receiver: a first event file that cannot be written when the service starts, which
  keeps it from starting.
- Uploads: errors of unlink and truncate, directory entries that are lost
  although the file was synced, leftovers of the temporary files of a copy, and
  the one-time migration of the upload directory. Start-up clean-up is one
  action, since the service does not listen yet.
- Sessions: durations of less than a second and records that cannot be decoded.
- Web interface: `locales/translations.ts` is generated data, and layout, styles,
  Markdown, sorting, the estimate of the time left, archive downloads and previews
  of other types are functions of what is shown. The server in its modules is the
  one the pages can tell apart: what it stores and how it answers.
- Listing: the limit on the number of results and what it leaves out. A search reads
  all folders at one point in time, and the folders that are visited are themselves
  neither made nor removed.
- Text: lower case that depends on the characters around it (a final sigma) or on
  pairs of code units.
- Components without a module are listed with the reason under `components`.

## 6. Plan

In this order, each with an instance, its properties and its proofs:

1. `Access`: owner password, login, change of password, personal tokens, and
   shares with their public sessions and the files they name (`session.go`,
   `shares.go`, `files.go`, `store.go`). Hazards: verification and revocation in
   different transactions; a share of a file that is deleted meanwhile. Abstract
   specification: a credential that was revoked is not accepted.
2. `CompanionUpdate`: journal, download, installer and health check of the
   Android companion.
3. `RootMoves`: replacement and moves across file systems in `root.go`.
4. `Discovery`: search and announcements, the last part of `peer.go`.

Every safety and action property that a passing run checks is proved. The theorems
to add are those of the four modules above: that `Access` implements its abstract
specification, and that an entry which is replaced or moved is the old or the new one
at every step.
