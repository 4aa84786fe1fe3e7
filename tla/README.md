# Bulwriter: a formal model

TLA+ modules for the parts of Bulwriter in which things happen at the same
time or can fail halfway, TLC configurations that check them on small
instances, and TLAPS proofs of the results that should hold for every size.
Paths are relative to the repository; "api.go" and the like are under
`src/backend/internal/`, "editor.component.ts" and the like under
`src/frontend/src/app/`.

## 1. The system

A Go server (one process, Postgres behind it, no foreign keys), an Angular
client with a ProseMirror/Yjs editor, and a small MCP server. Writers of a
script share a document through a WebSocket relay; text is kept in Postgres as
snapshots and drafts on branches, written by the editor's page over HTTP.

| Component | State | Operations | Talks to | What is hard | What makes it correct |
|---|---|---|---|---|---|
| Real-time hub (`hub/hub.go`) | rooms, their clients and update logs, in the memory of one goroutine; a channel per client | register with replay, unregister, fan-out, two pumps per connection | browser sync sessions | goroutines and bounded channels: who blocks on whom, closing a channel others send on | a joiner gets the log and what follows, once and in order; Run never stops; no send on a closed channel |
| Version control (`snapshot/snapshot.go`, handlers in `api/api.go`) | rows of `branches` and `snapshots` | CreateBranch, Commit, SaveDraft, History, the three statements of createScript | editor, branch panel | concurrent requests without lock; failure between statements | histories are chains, commits stay in them, branches do not affect each other, a branch shows one tip and one draft |
| Editor session (`editor.component.ts`, `autosave.service.ts`, `branch-panel.component.ts`) | active branch (twice), panel's copy of the branches, dirty flag, timer | type, autosave, select and create branches, snapshot | version control over HTTP, hub | answers in any order, state read before a request and used after it, lost requests | text goes to the branch it was typed on, and all of it is saved in the end |
| Trash, projects, scripts (`trash/`, `project/`, `script/`) | rows with `deleted_at` | create, soft delete, restore, purge now, purge when expired | version control's rows | several transactions per purge, a periodic job against requests, crashes | no live item is purged, nothing outlives its project, expired items go |
| Membership and invites (`membership/`) | members, invites with a status | invite, accept, decline, roles | every handler's role check | check-then-act between statements, the purge of the project | an accepted invite makes a member and nothing else does; roles stay; invites stack, and rows outlive the project, by races only |
| Rate limiter (`middleware/ratelimit.go`) | per key a list of times, under a mutex | Allow, cleanup | public routes | sliding window, shared backing array | never more than the limit in any window |
| Authentication (`middleware/auth.go`, `roles.go`, `clerkapi/`) | cached keys and profiles | verify, get profile | Clerk | cache expiry, two misses at once | a stale entry is not used past its time |
| Donations (`donation/`, `api.go` 1282-1342) | rows keyed by Stripe's session | checkout, webhook | Stripe | duplicated, reordered, lost webhooks | what has been answered is recorded once |
| Schedule (`schedule/`, `stripboard.component.ts`, `editor/stripboard.ts`) | rows of strips and days; a board per page | suggest, merge with the script, drag, days, call sheets, Replace | the script's document | saves that overlap under read committed and that nobody waits for; a script that has changed since | every scene is on the board once; what was saved comes back; the rows are those of one board |
| Casting, scouting (`casting/`, `scouting/` and their pages) | candidates with a chosen flag | add, edit, remove, cast or select | the pages below | clear-then-set by two requests | at most one is chosen |
| Story board and lists (`story/`, `budget/`, `crew/`, `milestone/`, `rehearsal/`, `shotlist/`, `continuity/`, `musicvfx/`, `distribution/`, `presskit/`, `breakdown/`, `credits/` and their pages) | rows with a position, texts that are written over | load, add, edit, remove, reorder | HTTP API | answers that come late or not at all, in any order, to pages that show a change before or after it is stored | a page that has been answered shows what is stored; a late load takes nothing away; nothing is blanked |
| Dashboard, project, trash and collaborator pages | the lists they show | create, rename, trash, restore, invite, accept | HTTP API | the same | the same |
| MCP server (`mcp-server/src/`) | clients, codes and tokens in memory; a cached JWT | register, authorize, exchange, refresh, call a tool | Clerk, the HTTP API | repeated and lost requests, restarts, calls that overlap while the cache is filled | a login makes one grant; a JWT is alive when it is used |
| Line diff (end of `snapshot.go`) | none | Diff | - | pure algorithm | the diff rebuilds both texts |
| AI client, import/export, static pages, migrations | - | - | - | nothing concurrent of their own | covered by unit tests or pure I/O |

`PROJECT.json` lists each component with its status and each hazard at its line.

## 2. Modules

| Module | Models | Extends or uses |
|---|---|---|
| `SyncHub` | the hub: Run, ServeWS, readPump, writePump | - |
| `SyncHubProofs` | theorems about `SyncHub` | `SyncHub`, TLAPS |
| `BranchSlots` | abstract: what a caller sees of branches | - |
| `VersionControl` | the store and its handlers, one SQL statement or transaction a step | instantiates `BranchSlots` |
| `VersionControlProofs` | theorems about `VersionControl`, and that it implements `BranchSlots` | `VersionControl`, TLAPS |
| `EditorSession` | one open editor page, against `BranchSlots` | `BranchSlots` |
| `EditorSessionProofs` | theorems about `EditorSession` | `EditorSession`, TLAPS |
| `Trash` | projects and scripts from creation to purge, with the periodic job | - |
| `TrashProofs` | theorems about `Trash` | `Trash`, TLAPS |
| `Stripboard` | the shooting schedule: boards in several pages, and Replace | `Orders` |
| `StripboardProofs` | theorems about `Stripboard` | `Stripboard`, `OrdersProofs` |
| `ToolServer` | the MCP server: logins, tokens, tool calls, the JWT cache | - |
| `ProductionPages` | the pages with lists and texts, each against its store | `Orders` |
| `ProductionPagesProofs` | theorems about `ProductionPages` | `ProductionPages`, `OrdersProofs` |
| `Orders` | a finite set as a sequence, by the ranks of its elements in an order | - |
| `OrdersProofs` | lemmas about such sequences | `Orders`, TLAPS |
| `Membership` | members and invites of a project, and its purge | - |
| `RateLimiter` | the sliding window of request times | - |
| `Donations` | checkout sessions, webhook deliveries, recorded donations | - |
| `ServiceProofs` | theorems about `RateLimiter`, `Donations`, `ToolServer` and `Membership` | these four, TLAPS |
| `MCSyncHub`, `MCVersionControl`, `MCEditorSession`, `MCTrash`, `MCStripboard` | named constants for TLC | the module after "MC" |
| `MCParts` | six parts side by side in one run: they share no state, and a behaviour is of one of them | `ToolServer`, `Membership`, `RateLimiter`, `Donations`, `ProductionPages`, `Stripboard` |

Operators whose comment begins with "Faulty:" are plausible mistakes, kept beside the
operator they replace; putting one in its place makes a property fail
(`PROJECT.json`, "mutants"). No specification uses them.

### 2.1 SyncHub

`pump` is where a connection's handler, then its readPump, stands; `writer` its
writePump; `conn` its socket; `send` and `broadcast` are the channels' buffers;
`live`, `clients`, `log` are `Hub.rooms`, `Room.clients`, `Room.updates`; `hub` says
whether Run is in its select or inside the loop that replays a log. An
unbuffered channel is a step of both sides at once (`HubRegister`,
`HubUnregister`). `got` and `missed` are history variables: what reached the socket,
what the fan-out dropped.

The loop of the fan-out is one step: its sends do not block, and between two of
them only writePumps run, whose receives could as well come before the loop. The
loop of the replay blocks, so it is a step per update. A socket may fail at any
moment, on either side, and a peer may stop reading for good (`Stalled`).

### 2.2 VersionControl

The rows of three tables, the requests on their way with the statement each has
reached, and a clock. `Commit` is two steps, as in the code: lines 148-167 read the
branch and take the tip as parent and the time; lines 169-204 are a transaction that
inserts the row and moves the tip without looking at it again. `createScript` is
its script row, its branch row and then a commit. `RequestFails` ends a request
anywhere, which is also what a crash of the process does to it: rows stay, there is
no other state. `fork` and `seen` in the rows are history.

`History` is the recursive query of lines 239-257, as the least set closed under
parent. It is written without recursion so that it can be used in proofs.

### 2.3 BranchSlots

The abstract specification: a branch has at most one text at its tip and at most
one draft; a save sets the draft; a commit sets the tip and empties the draft; a
new branch starts empty or at a committed text; each happens at one moment. The
refinement mapping in `VersionControl` reads tips through the snapshot rows
(`TextOf`, `SlotOf`); reading a tip, failing, answering and the script's row are
stuttering steps.

### 2.4 EditorSession

The page's two notions of the active branch (`chosen` in the panel, `editing` in the
editor), the panel's copies of the branches (`known`), the document, the dirty flag,
the autosave switch, and the requests on their way. JavaScript runs to its next await, so
a step is a handler up to there: a save reads the text when it is sent, its answer is
a step of its own. A request is sent, takes effect at the server (the action
of `BranchSlots`) and is answered, each at any time; or it fails, before or after its
effect. `saved`, `home` and `overlap` are history: the text of the last save that was answered, the
branch each text was typed on, and whether a branch was ever chosen while an earlier choice still
waited for its save.

That last case is one `SwitchOnlyAfterSave` has to leave out, as its proof showed. Leaving a branch
saves it first (`editor.component.ts:391-395`: "Save the work on the branch we're leaving ... before
loading the new content"). If the writer chooses a second branch before the answer, the branch
that is saved is the old one again; the first answer opens the first choice and the second one leaves it,
with nothing of it saved. This takes three branches, which the runs have.

A commit empties the draft as the code does, whatever has been saved there meanwhile: a draft of newer text is
lost if the page is closed before its next tick, which no property forbids. A draft of an older text that arrives
after the commit is what the branch shows until the next tick (`TextReachesTheServer`).

An import and the menus that change the text are edits like typing: they keep nothing
of the page while a file is picked and read.

Left out: a second page in the same room, viewers (who never save), the
panel's history list, the branch remembered in localStorage when there is more than
one (a script is opened here with its first branch only).

### 2.5 Trash

`deletedAt` is the row of a project or script (none, live, or its date of deletion), `home` the
`project_id` of each script, `owned` the owners' rows in `project_members`, `texts` the scripts
that have rows of their own in other tables. A goroutine is a request or the job of
`RunPeriodicPurge`; its task says which statement is next and which ids it has listed and
not yet purged. `CheckTrash` and the two listings read; `PurgeScript` and
`PurgeProjectRow` are the transactions of `purgeScript` and `purgeProject`, which look at
nothing again. A goroutine may fail anywhere (`Fail`), which is also what a crash does to it;
the job starts again at its next tick, and the cutoff is taken anew.

`recalled` (what was restored while a goroutine was going to purge it) and `raced` (where something was being
created while it was going to be purged) are history. The user is the owner of the
projects it creates, and `OrphansComeFromRaces` is about such users: an invite accepted during a
purge can leave a member of a project that is gone, as `Membership` has it. The pilot branch and its
snapshot are one step here; `VersionControl` has them apart.

### 2.6 Stripboard

`script` is the sequence of headings in the shared document, which others may change at any
time. `board` is a page's `StripboardComponent`: the scenes it took when it was opened, its
days, and whether they came from `autoSuggestDays`. `strips` and `dayMetas` are the two tables;
a row knows the save that inserted it (`save`, history). A scene's key is its heading, so two
equal headings have one key, as in `computeSceneList`; `BuildFromSaved` merges the saved rows
with the scenes as `buildFromSaved` does, and `AutoSuggestDays` groups by `Location` and cuts. Both
put scenes in an order (`ByPlace`, `ByPosition`), which `Orders` lays out as a sequence by ranks.

Each change of a board (`OnDrop`, `RemoveDay`, `CloseCallSheet`) sends all of it and waits for
nothing; `AddDay`, and a call sheet that is left with the Escape key, stay on the board until the
next one. `getSchedule` reads strips and days one after the other. `Replace` is three steps,
`DeleteStrips`, `DeleteDays` and `Commit`: under read committed a DELETE takes the rows that are
committed when it starts, and waits for a transaction that holds one of them; the inserts are
refused by `UNIQUE (script_id, scene_key)` and `PRIMARY KEY (script_id, day_number)` when a row is
there that the deletes did not see. Two boards with no scene in common could be merged, as
nothing then stands in the way: a save of a script that was rewritten from its first heading to its
last may run beside a save of what it was. `ScheduleIsOneBoard` is about versions any two of which share a
scene (`VersionsShareAScene`, which `MCParts` assumes of the run's scripts); there it holds by the constraints alone.

### 2.7 ToolServer

`clients`, `codes`, `accessTokens`, `refreshTokens` are the maps of `BulwriterOAuthProvider`, `cached`
the two variables of `clerk.ts`. `grants` are requests at the token endpoint, `calls` tool calls,
`held` what connectors know. A handler runs to its next await: the token endpoint looks a code up
(`Challenge`), waits while the verifier is compared, and exchanges it, looking again and deleting in
one breath (`ExchangeAuthorizationCode`). Connectors repeat requests and answers get lost;
`Restart` empties everything in memory, as a redeploy does.

A tool call verifies its access token and reads the cache in one step (the only awaits between
them are of promises that are settled), or asks Clerk: the question is at `started`, the JWT is born when
Clerk answers, and what is cached is dated by the question, over whatever is cached by then.
`Slack` = `JwtTTL` - `CacheTTL` is how long each way over HTTP may take: with 45 and about 60 seconds, 15.
`LifetimesAssumption` also has JwtTTL < 2 * CacheTTL, which these numbers meet.

### 2.8 ProductionPages

The pages are written one like the other, so there is one set of actions, and a page is a record of the
choices in which they differ: what it loads (`gets`), which of it ends the spinner (`awaited`),
whether the spinner hides the controls (`gate`), what must not have failed (`needs`) and what the
right to edit comes from (`rights`). A list knows the requests its service has (`api`), whether it is one text
that is written over (`keyed`), whether such a text can be saved after its load failed (`blank`), and whether a
change is shown at once, on the answer, or by loading again (`shows`). `Pages` has a definition for
each component, mapped to it. `open`, `view`, `got` and `failed` are the component's fields, `store` the
table, `requests` what is on its way.

Adding, editing, removing, choosing and reordering send a request each and do not wait for each other.
A request is served, then answered, each at any time, or fails; another client of the
project may write as well (`Other`). Choosing (`Cast`, `Select`) is a transaction of three steps: it finds the
row and takes the snapshot of its clearing UPDATE, waits for locks, and commits.

Words are what a text is up to the blanks around it, which the inputs trim before they send. An idea
note is the one text that is never saved empty (`filled`): `updateNote` returns without a request when nothing
is left of it, while its field shows what was typed (`LeaveEmpty`). The stored text stays, and the page shows a
blank until it is opened again or something is typed. Amounts and other fields of a row are
saved when they are emptied too; an amount is then stored as 0, which stands here for the same words as
the empty field.

A listing is ordered by position. The listings of idea notes, crew and budget put the older of two
equal positions first, the others leave that to the database. As the next position is read and
stored in one step here, equal ones come up among the notes only, after a reorder that did not name a note added meanwhile.

`history` keeps which lists had two requests that may be served in another order than they were
made (`crossed`: two additions, two choices, two orders, an addition and an order, two saves of one
row, or a change and a load of its list), which a failed load left empty (`blanked`), and to which a row was added under a
choice (`grown`). `QuietPageShowsTheStore` leaves the first out, `AloneNothingIsBlanked` the second,
`OneChosen` the third: if a candidate is added between the clear of one choice and its commit, and chosen by a
request that starts before that commit, the two are both chosen. This takes three requests on one group at a time; the run's
bound of `MaxSent` is one request short of it. `ShownRowsStay` is about pages that wait for a list
before they show its controls; the festival list and the dashboard do not, and there a late
answer can take an added row from the page until it is opened again.

### 2.9 Membership, RateLimiter, Donations

`Membership` has `members` and `invites` for the two tables of one project, and `inviting` for the
handlers under way. `createInvite` is `CreateInvite` (the role of the inviter), `CheckMember`,
`CheckPending` and `InsertInvite`; the first two checks are passed over when they fail, as in the
code. `acceptInvite` is `Accept`, `AddMember` and `MarkAccepted`; `declineInvite` is one update. A
failure or a stop of the server may end a request before each of its writes. `purgeProject`'s
last transaction is `PurgeMembers`, `PurgeInvites` and `PurgeCommit`: a deletion sees the rows that are there when it
runs, and a write to a row that is deleted and not committed waits. `halfway` and `overlapped` are history.
Addresses are users, compared as `strings.EqualFold` does in the handlers. `ListInvitesForEmail`
compares exactly (`membership.go:168`), so an invite typed in other letters' case than the address of
its account is pending for the owner and not listed for its addressee; listings are not modelled.
An accept that has read its invite and a decline may both be answered as done; the member
stays, and so does `accepted`. `AnswersStand` says that nothing else overwrites an answer: an accept must have read the
invite before it was declined.

`RateLimiter` keeps a set of numbered times for each key of `Callers`: nothing in the code depends on
their order, and the shared backing array of `pruneBefore` is written under the mutex only. `Allow` moves the
clock by any amount between its two readings. `allowed` is history. A new process starts with an empty
map, so the promise is one process's, as the type's comment says.

`Donations` has the payment service as external actions: `Complete` (paid, or with the payment still
to come), `Deliver` (again at any time), `Answer` and `AnswerLost`. `NothingToRecord` and
`RecordCompleted` are the webhook: 200 only when there is nothing to do or the row is stored, 500 on an
error of the database. A payment that comes after its session completed is announced by another event, which
`ParseCompletedCheckout` does not act on, and is not recorded; `PaidIsCountedOnce` is about those paid at completion.

## 3. What the runs check

| Run | Result | Question |
|---|---|---|
| `SyncHub_safety` | passes | no send on a closed channel; members have got exactly the log and its continuation; senders' order; nothing dropped and no blocking while logs fit a channel; logs kept while a room is occupied |
| `SyncHub_live` | passes | Run comes back to its select, lost connections leave, updates arrive, with one peer that stops reading |
| `SyncHub_wedge` | violated | the same with a log longer than the channel |
| `VersionControl_safety` | passes | histories are chains; commits leave a history only by a race on their own branch; branches are isolated; a created script has its branch and snapshot; `BranchSlots` is implemented |
| `VersionControl_lost` | violated | every stored commit is in its branch's history |
| `EditorSession_page` | passes | a branch is left only after its save came back; text that stays in the editor is saved for good; a chosen branch is opened |
| `EditorSession_mixed` | violated | the main branch never holds text typed on another |
| `EditorSession_clean` | violated | a page that counts as saved has been saved |
| `Trash_purge` | passes | a row is purged for a reason that holds; only races leave orphans; what has expired goes, also after a failure |
| `Trash_mistake` | violated | a live project is never purged |
| `Parts` | passes | stripboard: every scene is on the board once, a saved board comes back, the rows are one board's; tool server: one grant for a login, the JWT is alive when used; pages: a page at rest shows the store, late loads take nothing away, nothing is blanked, one is chosen; collaborators: members come from invites, roles are kept, an answer is overwritten only by an accept that was under way, invites stack and rows outlive the project by races only; rate limiter: no window holds more than the limit; donations: what is answered is counted once |
| `Stripboard_repeated` | violated | after a save the schedule is not suggested again |

### What the violated runs show

- `SyncHub_wedge`. `hub.go:126` says "Slow client — drop rather than block the hub". The
  replay at line 86 is a plain send, though. If the joiner's writePump ends (one failed
  write is enough) and the log is longer than the channel's 128 entries, Run stays there;
  all rooms stop. The run has a channel of one and a log of two.
- `VersionControl_lost`. `snapshot.go:165` says "current tip becomes this snapshot's parent", and
  226-227 that histories are "exactly like git log". Two commits that overlap read the
  same tip; the one stored first is the parent of nothing and drops out.
  `UncontestedCommitsKept` says, and the proof confirms, that nothing else does this.
- `EditorSession_mixed`. The project's README, line 191: "Branching lets a writer explore an
  alternate ending without touching the main draft". A new script's snapshot is
  empty, and `editor.component.ts:342` loads nothing for an empty snapshot. The panel's copy
  of the main branch does not know of the draft saved when the writer left it. Coming
  back from the new branch, its text stays in the editor, now under the main branch, and
  the next autosave stores it there, over the main draft.
- `EditorSession_clean`. `autosave.service.ts:11`: dirty is "Whether the document has changed
  since the last successful save". Line 65 clears it when the answer comes, also when
  the writer has typed since the save was sent.
- `Trash_mistake`. `trash.go:83-85`: "Refuses to touch a project that isn't currently in the
  trash, so a live project can never be purged by mistake". The check and the purge are
  statements of their own. A restore between them is answered with 204, and the
  project is then purged, live. The job has the same gap between its listing and its deletes.
  `PurgesAreDue` says, and the proof confirms, that this is the only way.

- `Stripboard_repeated`. `editor/stripboard.ts:36-39`: the suggestion is only the starting point, and "once a
  producer saves one (even once, even by just dragging one strip), the persisted day/position
  layout is authoritative and this is never consulted again". Two scenes with the same heading have
  the same `sceneKey`, so a board of theirs breaks `UNIQUE (script_id, scene_key)`, `Replace` rolls
  back, and `persist` does not look at the answer: no schedule of such a script is ever stored.
  The run's script goes back to the yard once. `EverySceneOnBoard` and `SavedBoardComesBack` are about
  scripts without equal headings.

### Bounds

| Run | Bounds | Why they are enough |
|---|---|---|
| `SyncHub_safety` | three connections, two rooms, channel of 1, broadcast of 2, three updates | logs longer than the channel, drops, a joiner during fan-out, a room emptied and made again, two senders |
| `SyncHub_live` | one room, channel of 2, broadcast of 1, two updates, one stalled peer | every log fits; the broadcast channel fills |
| `SyncHub_wedge` | channel of 1, three updates | the shortest log that does not fit |
| `VersionControl_*` | two clients, two scripts, two branches, four requests, two texts (one in `_lost`) | a race of two commits, a fork of each side, a commit beside a draft, a failure in each place |
| `EditorSession_page` | three branches, one edit on top of a draft or not, two choices (a branch, a new branch, a save or a snapshot by hand), one save on its way when the timer ticks, one failure | an autosave that overlaps with a save by hand or on leaving, of another text; a switch to a third branch while another is under way; a failed save on leaving |
| `EditorSession_mixed`, `_clean` | the same with two edits, and two saves on their way when the timer ticks | shortest traces need one |
| `Trash_*` | a project, two scripts, two requests at a time and three in all, three instants, a retention of one, one failure | a restore, a creation and a purge that overlap, the job against a request, a purge that stops between two scripts |

| `Parts`, stripboard | two boards, two scripts (three scenes at two places; an untitled scene), days of two strips, two changes, two openings, one mishap (the script changes or a request fails) | overlapping saves of two boards and of one, a day cut in two, a heading that is gone and one that is new, a board opened between two saves |
| `Parts`, tool server | one connector, one login, three requests for tokens, two calls, three ticks, one restart; lifetimes 1, 2, 2, 3 | a code sent twice before the first answer, rotation, expiry of each kind, two calls that miss the cache together, an old answer over a new one |
| `Parts`, pages | 20 pages, one or two rows in each list at first, two requests beside the loads, two openings, one mishap (a failure or another client's request) | overlapping requests of each pair of kinds, a late load, a failed load, a page that is closed and opened with requests on their way |
| `Parts`, collaborators | an owner and one more user, two roles, three requests, one failure, one purge | two invites at once, an accept beside a decline, the owner invited to the own project after a failed lookup, an accept that stops half way, an invite or a member written during the purge and accepted after it |
| `Parts`, rate limiter | two keys, a limit of two in a window of two ticks, five requests, five ticks | windows that overlap, a clock that moves within a call, refusals and cleanups between |
| `Parts`, donations | two payments, three deliveries | deliveries of one payment that overlap, a lost answer, an error of the database, a payment still to come |
| `Stripboard_repeated` | one script with a repeated heading, no mishaps | one save and two openings |

`MaxArrived`, `MaxFailedStatements`, `MaxDeliveries`, `MaxTicks`, `MaxMoves`, `MaxOpenings`, `MaxBoardMishaps`, `MaxOpens`, `MaxMishaps`, `MaxSent`, `MaxLogins`, `MaxAsked`, `MaxCalls`, `MaxRestarts`, `MaxUpdates`, `MaxRequests`, `MaxTexts`, `MaxTime`, `MaxChoices`, `MaxSaves` and `MaxFailures` are bounds of the
checks, not of the code. Deadlock is not checked in `SyncHub`, `VersionControl`, `Trash` and the parts, where
the bounded environment runs out; it is in `EditorSession`. The symmetry of
`VersionControl`'s runs permutes clients, script ids and branch ids, which no
definition tells apart; no liveness is checked there. `Trash_mistake` permutes scripts and
requests in the same way, `Trash_purge`, which checks liveness, nothing. `Parts` and `Stripboard_repeated` permute the two boards, `Parts` the rate limiter's keys and the two payments as well.

### Fairness

- `SyncHub`: weak fairness of Run, of each readPump past its read, and of each
  writePump that is not stalled: the Go scheduler runs every runnable goroutine.
  Writers need not type, connect or leave. Weak fairness of Run's select as a
  whole is enough because connections and updates are finite in a run.
- `EditorSession`: requests arrive and are answered or fail, the timer ticks while autosave is
  on. The writer need not do anything. `TextReachesTheServer` is about a text that
  stays, in a page that stays on its branch: if the writer goes on, `EditorSession_clean` applies.
- `Trash`: weak fairness of the job: its ticker fires, and its steps are taken (or fail, once in
  the run). Users need not do anything; `ExpiredItemsGo` needs no request.
- No passing property of the other modules needs fairness. That a payment is recorded in the end depends on how
  long its service goes on delivering, which this code does not decide.

## 4. What is proved

For every value of the constants, from the named assumptions in the modules only:

| Theorem | Says |
|---|---|
| `SyncHubProofs!TypeCorrect` | `TypeOK`: the channels stay within their capacities |
| `SyncHubProofs!NoSendOnClosedChannel` | `SendTargetsOpen` |
| `SyncHubProofs!ShortLogsAreSafe` | `ShortLogsNeverBlock` |
| `SyncHubProofs!DeliveryIsExact` | `ExactDelivery` |
| `SyncHubProofs!SendersInOrder` | `SenderOrder` |
| `SyncHubProofs!LogStays` | `LogKeptWhileOccupied`, an action property |
| `VersionControlProofs!TypeCorrect`, `HistoryIsAChain` | `TypeOK`, `AncestryWellFormed` |
| `VersionControlProofs!OnlyRacesLoseCommits` | `UncontestedCommitsKept` |
| `VersionControlProofs!BranchesAreIsolated` | `BranchIsolation` |
| `VersionControlProofs!ServiceImplementsSlots` | `Spec => Slots!SlotSpec` |
| `VersionControlProofs!ScriptsComeWithAPilot` | `DoneScriptsHaveAPilot` |
| `EditorSessionProofs!EditorTypeCorrect` | `TypeOK` |
| `EditorSessionProofs!PageShowsStoredTips` | `TipsAreSnapshots`, which no run checks |
| `EditorSessionProofs!LeavingIsSaved` | `SwitchOnlyAfterSave`, an action property |
| `TrashProofs!TypeCorrect` | `TypeOK` |
| `TrashProofs!OrphansOnlyFromRaces` | `OrphansComeFromRaces` |
| `TrashProofs!PurgesHaveReasons` | `PurgesAreDue` |
| `ServiceProofs!GrantsAreSingle` | `OneGrantPerLogin` |
| `ServiceProofs!JwtStaysAlive` | `JwtAliveWhenUsed` |
| `ServiceProofs!ToolServerTypeCorrect` | `TypeOK` |
| `ServiceProofs!MembersAreInvited` | `MembersComeFromInvites` |
| `ServiceProofs!RolesStay` | `RolesAreKept`, an action property |
| `ServiceProofs!AnswersAreFinal` | `AnswersStand`, an action property |
| `ServiceProofs!StacksComeFromRaces` | `StacksAreRaces` |
| `ServiceProofs!PurgeIsComplete` | `PurgeLeavesNobody` |
| `ServiceProofs!MembershipTypeCorrect` | `MembershipTypeOK` |
| `ServiceProofs!LimiterTypes`, `WindowsHold` | `LimiterTypeOK`, `NeverOverLimit` |
| `ServiceProofs!DonationsTypeCorrect` | `DonationsTypeOK` |
| `ServiceProofs!DonationsAreCountedOnce` | `PaidIsCountedOnce` |
| `ProductionPagesProofs!SoundAlways` | `Sound`: what pages, stores and requests are, and that their numbers are their own |
| `ProductionPagesProofs!NothingIsBlanked` | `AloneNothingIsBlanked` |
| `ProductionPagesProofs!OneIsChosen` | `OneChosen` |
| `ProductionPagesProofs!RowsAreKept` | `ShownRowsStay`, an action property |
| `ProductionPagesProofs!QuietPagesAgree` | `QuietPageShowsTheStore`: the stored rows, in their order, with their words, but for an idea note left empty |
| `StripboardProofs!BoardTypes` | `BoardTypeOK` |
| `StripboardProofs!ScenesStayOnTheBoard` | `EverySceneOnBoard` |
| `StripboardProofs!OneBoardIsStored` | `ScheduleIsOneBoard`, if `VersionsShareAScene` |
| `StripboardProofs!SavedBoardsComeBack` | `SavedBoardComesBack` |

**SyncHub.** `TypeOK` is split into `ControlType` and `DataType`, so that no step of
the proof carries all of it. `SendTargetsOpen` is not inductive: that a client in a room
is open follows from who can be in a room, so `RegistrationInv` ties `clients` and
`closed` to `pump` (in a room exactly while registered, closed exactly when gone) and
says that Run replays to a registered client. `ShortLogsNeverBlock` needs a count of what a
client has been offered: `BacklogInv` says that the updates in its channel are no more
than the part of the log that was offered to it (all of it, or the replayed prefix), and that a
drop has happened only in a log longer than the channel.

`SenderOrder` and `ExactDelivery` are about what comes before the log as well. An update carries its connection and the
number it had when it was read, so `QueueOrder` says of the broadcast channel that each sender's
numbers rise, `LogOrder` that what is logged is older than what still waits there, and
`MissedOrder` the same of what was dropped; `Passed` does not count the update a readPump has in its hands. That a
relayed update is delivered to nobody twice follows from these, and needs `NewcomersInv`
for the joiner: who has not been registered has sent and got nothing, so none of the log that is replayed to it is
its own. `ExactDelivery` says that what a member was given is the log at the places that are `Due`, in order; `PartGrows`
takes one more place, for a live update and for a replayed one, which makes the induction over the log a
step of the specification each. `LogKeptWhileOccupied` is a fact about single steps: only the last to leave
removes a log, and only the first to come makes a new one.

**VersionControl.** `IInv` says what rows and requests may refer to: parents are earlier,
older rows; tips, forks and the `from` of a request are rows or none; a commit that
has read its tip holds a row's id and a time between that row's and the clock. This gives
`TypeOK` and `AncestryWellFormed`. The other two need `AInv`: below a branch's
tip, and below the tip any commit in flight has read, is every uncontested commit
that was stored up to then on that branch, and nothing but that branch's own
commits and the history of its fork. `OldHistory` and `NewHistory` say how a new row
changes histories: not at all, except its own, which is its parent's and itself.

`DoneScriptsHaveAPilot` follows from `PInv`, which says what each stage of a creation has stored, and `Keeps`, by which no step
takes a script's row, a branch's script or its tip away.

**Refinement.** With `IInv`, each step of `VersionControl` is one step of `BranchSlots` or
leaves the mapped state as it is: `InsertBranchCreates`, `CommitTxCommits`, `SaveDraftSaves`,
`SilentStep`. Texts at old tips stay because rows are only appended (`TextStays`).

**EditorSession.** `IInv` ties the page to the store across delays: a copy in the panel is of a branch
that exists, with a tip that is committed (`Heard`); a request asks for committed texts only, and a
created branch exists when the answer comes (`Sound`). It holds although the store moves on meanwhile, as
branches and commits only grow (`Grows`). `SwitchOnlyAfterSave` needs more: the save that makes
way for a branch is of the branch that is edited at the *answer*, not only at the request. `OneLeaves` says so while there is
one such save at a time. The proof failed on a second one, as the editor is elsewhere after the first
answer; TLC then showed it with a third branch, and the property now says what the code does (2.4).
`Departure` adds the property's step to the invariant's, so that each action is looked at once.

**Trash.** What must be known of a goroutine that is purging is in four parts: its ids exist
(`Sensible`), it had a reason for each row on its list and has it still, unless the row was
restored (`Justified`), it knows all scripts of the project it is purging but those that
raced (`Thorough`), and what it is creating something in is there or has raced (`Grounded`).
A project that has no owner's row yet cannot be deleted or purged (`Fledgling`): nobody passes the check of its
role, so `InsertOwner` never leaves a member of a project that is gone. `Considerate` and `Distant` say
what a step of one goroutine may do to the others, so that each action is looked at
once, for its own goroutine (`Fine`), and not once for every other (`OthersStayGood`,
`OthersStayFledglings`, `OrphansStay`, gathered in `FineIsEnough`).

**ToolServer.** `GrantInv` says of each login where it stands: its code is stored and has not been
exchanged, or it was exchanged once and has one refresh token at most, or it has neither. A
restart only takes things away, and logins are numbered, so none comes back. `JwtInv` follows the
JWT: it is not born before the time the cache dates it by, so a JWT that leaves the tool server, cached
(young enough by that date) or fresh (on its way from Clerk for at most `Slack` < `CacheTTL`), is
younger than `CacheTTL`, and on arrival, at most `Slack` later, younger than `JwtTTL`. That an
overlapping call may put an older answer over a newer one does not matter, as the date goes
with it. The two invariants share nothing and are proved apart; `RestTypes` adds what the type invariant needs beside them.

**Membership.** `MembersComeFromInvites` needs to know what a request that has added its member still
holds: `Accepting` says that the invite of each accept is there, with its address and role, until
the purge commits, and that an accept about to mark it has made its user a member. `Numbering`
makes the update by id an update of one invite. Both writes of an accept may be separated by a
decline or be its last: the member then has an accepted invite in the end, or one in `halfway`.
`AnswersStand` needs `Numbering` only: an answer that no request can change any more (`IsFinal`) is not pending, so no accept
and no decline of it begins.
`StacksAreRaces` needs to know what a request has seen before it stores its invite (`Sightings`): older invites only, and
of those that are pending none to the same address, which an answer to one of them keeps true as nothing makes an invite
pending again. `PurgeLeavesNobody` follows the three statements of a purge that nobody overlaps (`PurgedAlone`): each deletes all
there is of its table, as no request is there to write between.

**RateLimiter.** `NeverOverLimit` becomes inductive with `StillKept`: all that was let through and can
still count against a key is in its list, however often it was pruned. A new request comes at the
clock's second reading, so its window is part of what was kept at the first one, and itself
(`PrunedAreOver`, `OneMore`).

**Donations.** `DonationsInv` says that a delivery carries what its session ended with, that the table has one
row at most for a session, of a paid one, and that each 200 given to a paid delivery, on its way (`AnswersInv`) or
seen, has its row: `ON CONFLICT DO NOTHING` makes the second recording of a session an answer of the same kind as the first.

**ProductionPages.** A page is a record, so a fact about all pages is one lemma about the twenty
(`PageFacts`): which requests a list knows, which lists are awaited, which can be saved blank. Lists are laid
out by rank (`Orders`): the place of a row is the number of rows before it, so what `ORDER BY` returns, and what is
left when one row goes, needs counting only (`InOrderIsABijection`, `Listed`, `KeptElements`) and no
induction. The actions fall under one relation, `Steps`: what may become of each request, row and
list. Each action is looked at once, to show that it is such a step (`EveryStep`), and the invariants are proved of `Steps`.

`Sound` says that requests have numbers of their own and that a row which is being added is nowhere yet.
`AloneNothingIsBlanked` needs to know where a blank text may be (`Inked`): not in the store, not in an answer on its way, not in
a request, and on a page only where the text can be saved blank and has not been loaded; that it cannot be edited there is `Usable`.
`OneChosen` needs `Waited` (nothing of the user's is on its way before what is awaited has come, so that no
load overlaps a choice of the same page), `Different` (no row is shown twice, so that choosing by id chooses one) and
`Chosen`: the clearing UPDATE of a choice that is on its way has seen every row of its group. A row added
meanwhile breaks it, which is why the property leaves out the lists in `grown`. `ShownRowsStay` rests on
`Waited`, on `OldView` (what is still on its way has not been shown), and on `Gone`: a row whose deletion
was served does not come back, so that the answer, which is when some pages take it away, takes nothing stored away.

`QuietPageShowsTheStore` compares two lists that went through the same changes at different times and, where
requests overtake each other, in different orders. Its invariant (`Faithful`) says at every moment, for a list that has
been loaded, in what the page and the table may differ: `Mirror` has a clause for each way (a row to come, a row that is
going, words, the choice, the order), and each difference names the request that explains it. A request moves through
it in three steps, `Sent`, `Onward` and `Answered`; for each kind of change there is one lemma about each step (`PostSent`,
`PostServed`, `PostAnswered` ...), about any two lists and no page. The rest shows that the pages' actions are these steps. With no
request left the clauses leave one list only, the stored rows in their order (`QuietMirror`); `Agrees` allows the blank of
an idea note left empty, which is not sent and needs no request to explain it (`LeaveEmptyFaithful`). The proof failed at first where a
row is added while an order is on its way: the order does not name the new row, and if it is served second the row, shown
last, may be stored between others. `Clash` now counts the two as crossing. TLC could not
meet it at the run's bound of `MaxSent`; it does on the story page with `MaxSent` = 8.

**Stripboard.** `Placed` is `EverySceneOnBoard` as a board can be led through its changes: each scene of
the opening is on a day by its key and nothing else is, and if keys differ, no key twice. `Suggested` (by `ByPlaceIsStrict` and
`CutInDays`: cutting a sequence into days leaves each of its places on one) and `Rebuilt` (the rows of the days,
the last scene of each key, and what is `Uncovered`) establish it; dragging is taking a strip and
putting it somewhere (`StripTaken`, `StripPut`), so the places of the new board are those of the old
one, renamed, and removing a day removes no strip. `Rebuilt` has to know that the rows a load returns have keys of their own and that no two of
them come at one place of one save, which is `Tables` and `Identified` in `BoardInv`: a table is changed by
`Commit` only, whose rows are of a board.

`ScheduleIsOneBoard` needs `Whole`: each table, as it is and as any save has seen or will leave it, is of
one save, and two of these are the same or have no save in common; a table of strips is
empty or has all scenes of a version of the script, a table of days is empty or has a day 1. A save that has not seen all
that is stored has therefore seen nothing of it, its rows meet one that is stored in a scene (`VersionsShareAScene`) or in day 1, and a
constraint refuses it; a save that has seen one table and not the other is refused by the other. Without the
hypothesis the strips of two saves could be kept together.

`SavedBoardComesBack` has two halves. `ReadsBack` is about the operators alone: of the rows a save sends for a
board (`StripRows`, `DayRows`), `BuildFromSaved` makes that board again without its empty days. Sorting by
position puts a day's strips back in their places (`LaidOut`), the day numbers that have strips are the places
`Kept` keeps, and if keys differ each row finds the scene it was made from. The other half is
about the steps: `OneAtATime` says that while no save has crossed another at most one is under way, and that it has seen
all that is stored, so no constraint refuses it; `LastSave` that the board saved last is what is stored,
or what the save under way will store; and `Loading` that a load is of a board that still waits for it and so
cannot replace a board that has been saved. These need no `VersionsShareAScene`.

Only model-checked:

- Liveness (`HubComesBack`, `LostConnectionLeaves`, `UpdatesArrive`, `TextReachesTheServer`,
  `ChosenBranchOpens`, `ExpiredItemsGo`): out of the prover's reach.
- The bounds in `PagesTypeOK` (`Sound` has the rest of it).

## 5. Plan

Done: `SyncHub`, `VersionControl`, `BranchSlots` and the refinement, `EditorSession`, `Trash`,
`Stripboard`, `ToolServer`, `ProductionPages`, `Membership`, `RateLimiter`, `Donations`, and the proofs of section 4.

Next modules, in this order:

1. A room of two editor pages: `EditorSession` twice over one shared document.
2. The key-set and profile caches of `middleware/auth.go` and `clerkapi/`.
3. `LineDiff` and `FindReplace` as functions against reference definitions, the second with
   matches that overlap.

All invariants of the passing runs are proved, but for the bounds in `PagesTypeOK`. Each new module comes
with its own type invariant and first theorem.

## 6. Not modelled

The CRDT (Yjs) and ProseMirror are libraries; updates are opaque. Postgres is taken at read
committed, with each single statement atomic. HTTP, JSON, routes, roles of single handlers,
names and messages are abstracted.

Of the pages: the workflow overview, which loads fifteen lists to count them and writes nothing; the diff
viewer, sign-in, donation and navigation pages; exports and imports as conversions of text; the
marks that link a budget line to the script; the drafting of a story bible from a document, whose button is
commented out; the editor's history list, statistics and view switches. Of the tool server: the password form, the PKCE digest and
redirect URIs, and what each tool asks of the API.

Components with status `not_modelled` in `PROJECT.json` are either in the plan above or have no
behaviour beyond one statement.
