-------------------------- MODULE ProductionPages --------------------------
(***************************************************************************)
(* The pages that show a project's lists and texts, each in one user's      *)
(* browser, against the stores behind the API.  The pages are written one   *)
(* like the other: load, show, send each change as it is made, and take a   *)
(* new row from the answer.  They differ in what they wait for before they  *)
(* show their controls, in what a failed load leaves, and in whether a      *)
(* change is shown at once, on its answer or by loading again; a page is     *)
(* the record of these choices and the actions read it.                     *)
(*                                                                          *)
(* The user may edit.  A row's words are the number of the request that     *)
(* wrote them, 0 is blank; typing in a field and leaving it is one step, as  *)
(* nothing but a late load could come between.  A list with a choice is     *)
(* what one group holds: the candidates of one character or one location.   *)
(***************************************************************************)
EXTENDS Naturals, Sequences, FiniteSets, SequencesExt, FiniteSetsExt, Orders

CONSTANTS MaxSent,      \* bound: requests, the loads included
          MaxOpens,     \* bound: times the page is opened
          MaxMishaps    \* bound: requests that fail or are another client's

ASSUME PageBoundsAssumption == {MaxSent, MaxOpens, MaxMishaps} \subseteq Nat

VARIABLES
  page,      \* which page this is
  open,      \* whether it is open
  view,      \* the rows each list shows, in order
  got, failed,  \* loads of this opening that were answered, or failed
  store,     \* the stored rows of each list
  requests,  \* HTTP requests that have not been answered
  sent, opens, others, failures,  \* so far
  history    \* history: lists with crossing requests, lists a failed load left blank,
             \* lists that grew while a choice was made

pageVars == <<page, open, view, got, failed>>
counters == <<sent, opens, others, failures>>
productionVars == <<pageVars, store, requests, counters, history>>

-----------------------------------------------------------------------------
(* A list of rows, which knows the requests it can make and the load it comes *)
(* from, or a text that is written over.  `blank`: a text can be saved although  *)
(* its load failed.  `filled`: words that are emptied are not saved.  `shows`:   *)
(* when a change is.                                                           *)
RowList(api, via) == [api |-> api, via |-> via, keyed |-> FALSE, blank |-> FALSE, filled |-> FALSE,
                   latest |-> FALSE, shows |-> "at once", busy |-> FALSE, joins |-> 0]
Text(api, via) == [RowList(api, via) EXCEPT !.keyed = TRUE]
SavedBlank(list) == [list EXCEPT !.blank = TRUE]
NeverEmpty(list) == [list EXCEPT !.filled = TRUE]
ShownBy(way, list) == [list EXCEPT !.shows = way]
NewestFirst(list) == [list EXCEPT !.latest = TRUE]

(* A drawer of the editor page: one load, and a spinner until it is settled. *)
Drawer(lists) == [gets |-> {"rows"}, awaited |-> {"rows"}, gate |-> TRUE,
                  needs |-> {}, rights |-> {}, lists |-> lists]

(* What each service can ask of its list. *)
CastingService == {"post", "put", "delete", "choose"}
ScoutingService == {"post", "put", "delete", "choose"}
ShotListService == {"post", "put", "delete"}
RehearsalService == {"post", "put", "delete"}
ContinuityService == {"post", "put", "delete"}
MusicVfxService == {"post", "put", "delete"}
MilestoneService == {"post", "put", "delete"}
DistributionService == [festivals |-> {"post", "put", "delete"}, links |-> {"post", "put", "delete"}]
SceneBreakdownService == {"put"}
BudgetService == [estimate |-> {"put"}, lineItems |-> {"post", "delete"}]
CreditsService == {"put"}
PressKitService == [kit |-> {"put"}, stills |-> {"post", "put", "delete"}, bios |-> {"put"}]
StoryService == [bible |-> {"put"}, notes |-> {"post", "put", "delete", "reorder"}, scripts |-> {"put"}]
ProjectService == [all |-> {"post", "put", "delete"}, one |-> {"put"}, trash |-> {"delete"}]
ScriptService == [all |-> {"post", "put", "delete"}, one |-> {"put"}, trash |-> {"delete"}]
MembershipService == [invites |-> {"post"}, mine |-> {"delete"}]
CrewService == {"post", "delete"}

CastingBoard == Drawer(<<RowList(CastingService, "rows")>>)
LocationScouting == Drawer(<<RowList(ScoutingService, "rows")>>)
ShotList == Drawer(<<RowList(ShotListService, "rows")>>)
RehearsalTracker == Drawer(<<RowList(RehearsalService, "rows")>>)
ContinuityNotes == Drawer(<<RowList(ContinuityService, "rows")>>)
MusicVfx == Drawer(<<RowList(MusicVfxService, "rows")>>)
MilestoneTracker == Drawer(<<RowList(MilestoneService, "rows")>>)
BreakdownDrawer == Drawer(<<SavedBlank(Text(SceneBreakdownService, "rows"))>>)
Credits == Drawer(<<SavedBlank(Text(CreditsService, "rows"))>>)

(* Without its answer there is no press kit, and nothing to write into. *)
PressKit == Drawer(<<Text(PressKitService.kit, "rows"), RowList(PressKitService.stills, "rows"),
                     Text(PressKitService.bios, "rows")>>)

(* The spinner waits for the release links only. *)
FestivalTracker ==
  [Drawer(<<RowList(DistributionService.festivals, "festivals"),
            RowList(DistributionService.links, "links")>>)
     EXCEPT !.gets = {"festivals", "links"}, !.awaited = {"links"}]

(* The schedule and the breakdown are loaded for their counts. *)
BudgetEstimator ==
  [Drawer(<<SavedBlank(Text(BudgetService.estimate, "budget")), RowList(BudgetService.lineItems, "budget")>>)
     EXCEPT !.gets = {"schedule", "breakdown", "budget"}, !.awaited = {"budget"}]

StoryPage ==
  [gets |-> {"project", "role", "story"}, awaited |-> {"project", "story"}, gate |-> TRUE,
   needs |-> {"project"}, rights |-> {"role"},
   lists |-> <<Text(StoryService.bible, "story"), NeverEmpty(RowList(StoryService.notes, "story")),
               Text(StoryService.scripts, "story")>>]

(* Nothing waits for the loads; accepting an invite joins its project. *)
Dashboard ==
  [gets |-> {"projects", "invites"}, awaited |-> {"projects"}, gate |-> FALSE,
   needs |-> {}, rights |-> {},
   lists |-> <<NewestFirst(ShownBy("on answer", RowList(ProjectService.all, "projects"))),
               [ShownBy("on answer", RowList(MembershipService.mine, "invites"))
                  EXCEPT !.busy = TRUE, !.joins = 1]>>]

ProjectPage ==
  [gets |-> {"project", "scripts", "role"}, awaited |-> {"project", "scripts"}, gate |-> TRUE,
   needs |-> {"project"}, rights |-> {"role"},
   lists |-> <<NewestFirst(ShownBy("on answer", RowList(ScriptService.all, "scripts"))),
               ShownBy("on answer", Text(ProjectService.one, "project"))>>]

(* What is restored or deleted for ever leaves the list with the answer. *)
TrashPage ==
  [gets |-> {"trash"}, awaited |-> {"trash"}, gate |-> TRUE, needs |-> {}, rights |-> {},
   lists |-> <<ShownBy("on answer", RowList(ProjectService.trash, "trash"))>>]
ProjectTrashPage ==
  [gets |-> {"project", "trash"}, awaited |-> {"project", "trash"}, gate |-> TRUE,
   needs |-> {"project"}, rights |-> {},
   lists |-> <<ShownBy("on answer", RowList(ScriptService.trash, "trash"))>>]

CollaboratorStack ==
  [gets |-> {"members", "invites"}, awaited |-> {}, gate |-> FALSE, needs |-> {}, rights |-> {},
   lists |-> <<ShownBy("reload", RowList(MembershipService.invites, "invites"))>>]
CrewStack ==
  [gets |-> {"crew"}, awaited |-> {}, gate |-> FALSE, needs |-> {}, rights |-> {},
   lists |-> <<ShownBy("reload", RowList(CrewService, "crew"))>>]

(* The editor page itself: its project and its script can be renamed in its menu. *)
RenameModals == <<ShownBy("on answer", Text(ProjectService.one, "project")),
                  ShownBy("on answer", Text(ScriptService.one, "script"))>>
EditorPage ==
  [gets |-> {"project", "script", "role"}, awaited |-> {"project", "script", "role"},
   gate |-> TRUE, needs |-> {"project", "script"}, rights |-> {"role"}, lists |-> RenameModals]

Pages == {CastingBoard, LocationScouting, ShotList, RehearsalTracker, ContinuityNotes, MusicVfx,
          MilestoneTracker, BreakdownDrawer, Credits, PressKit, FestivalTracker, BudgetEstimator,
          StoryPage, Dashboard, ProjectPage, TrashPage, ProjectTrashPage, CollaboratorStack, CrewStack,
          EditorPage}

-----------------------------------------------------------------------------
Lists == DOMAIN page.lists
Row(id, words) == [id |-> id, words |-> words, chosen |-> FALSE]
Place(r, pos) == [id |-> r.id, words |-> r.words, chosen |-> r.chosen, pos |-> pos]

(* What a list shows before it is loaded, and after a load that failed. *)
Unloaded(list) == IF list.keyed /\ list.blank THEN <<Row(1, 0)>> ELSE <<>>

(* The stores' ORDER BY: position, then age; or newest first.  Only the notes'    *)
(* positions can be equal, after a reorder, and their listing has the age.        *)
OrderBy(list, rows) ==
  LET Older(a, b) == a.pos < b.pos \/ (a.pos = b.pos /\ a.id < b.id)
  IN {p \in rows \X rows : IF list.latest THEN Older(p[2], p[1]) ELSE Older(p[1], p[2])}

Listing(list, rows) ==
  [i \in 1..Cardinality(rows) |->
     LET r == InOrder(rows, OrderBy(list, rows))[i]
     IN [id |-> r.id, words |-> r.words, chosen |-> r.chosen]]

Writes(l) == {q \in requests : q.verb # "get" /\ q.list = l}
Loads(g) == {q \in requests : q.verb = "get" /\ q.via = g}

(* Two requests on one list, on their way together, that may be served or       *)
(* answered in another order than they were made, so that it matters.  An order  *)
(* does not name a row that is added meanwhile: it may put rows on either side.  *)
Clash(q, w) ==
  \/ {q.verb, w.verb} \in {{"post"}, {"choose"}, {"reorder"}, {"post", "reorder"}}
  \/ q.row = w.row /\ {q.verb, w.verb} \in {{"put"}, {"choose", "delete"}}
Touched(w) == {w.list, page.lists[w.list].joins} \ {0}
CrossedBy(w) ==
  {l \in Touched(w) :
     Loads(page.lists[l].via) # {} \/ \E q \in Writes(l) : Clash(q, w)}

(* Ids 1 and 2 are those of the rows that are there already. *)
FirstIds(list) == {1} \union IF {"choose", "reorder"} \intersect list.api = {} THEN {} ELSE {2}

PagesInit ==
  /\ page \in Pages
  /\ open = FALSE
  /\ view = [l \in Lists |-> <<>>] /\ got = {} /\ failed = {}
  /\ store = [l \in Lists |-> {Place(Row(i, i), i) : i \in FirstIds(page.lists[l])}]
  /\ requests = {}
  /\ sent = 2 /\ opens = 0 /\ others = 0 /\ failures = 0
  /\ history = [crossed |-> {}, blanked |-> {}, grown |-> {}]

-----------------------------------------------------------------------------
LoadRequest(n, g) == [n |-> n, verb |-> "get", via |-> g, stage |-> "sent", rows |-> <<>>]

(* ngOnInit, ngOnChanges and load: every load is sent at once. *)
Open ==
  /\ ~open /\ opens < MaxOpens
  /\ open' = TRUE /\ opens' = opens + 1
  /\ got' = {} /\ failed' = {}
  /\ view' = [l \in Lists |-> Unloaded(page.lists[l])]
  /\ requests' = requests \union {LoadRequest(0, g) : g \in page.gets}
  /\ history' = [history EXCEPT !.crossed = UNION {Touched(w) : w \in requests}]
  /\ UNCHANGED <<page, store, sent, others, failures>>

(* The component is destroyed; what it asked for is nobody's any more. *)
Close ==
  /\ open
  /\ open' = FALSE
  /\ requests' = {[q EXCEPT !.mine = FALSE] : q \in {q \in requests : q.verb # "get"}}
  /\ UNCHANGED <<page, view, got, failed, store, counters, history>>

(* Faulty: any answer ends the spinner. *)
LoadingAny == got \union failed = {}

(* `loading`, and checkLoaded. *)
Loading == ~(page.awaited \subseteq got \union failed)

(* The controls of a list can be used. *)
Usable ==
  /\ open
  /\ page.gate => ~Loading
  /\ page.needs \intersect failed = {}
  /\ page.rights \subseteq got

(* A load is answered with the rows of its lists, or fails. *)
LoadServed(q) ==
  /\ q.verb = "get" /\ q.stage = "sent"
  /\ requests' = (requests \ {q}) \union {[q EXCEPT !.stage = "done", !.rows = store]}
  /\ UNCHANGED <<pageVars, store, counters, history>>

(* A change that waits for its answer has the old row in hand. *)
Detached(via) ==
  {IF r.verb # "get" /\ r.mine /\ page.lists[r.list].via = via
   THEN [r EXCEPT !.inHand = FALSE] ELSE r : r \in requests}

Loaded(q) ==
  /\ q.verb = "get" /\ q.stage = "done"
  /\ view' = [l \in Lists |-> IF page.lists[l].via = q.via
                              THEN Listing(page.lists[l], q.rows[l]) ELSE view[l]]
  /\ got' = got \union {q.via}
  /\ requests' = Detached(q.via) \ {q}
  /\ UNCHANGED <<page, open, failed, store, counters, history>>

LoadFailed(q) ==
  /\ q.verb = "get" /\ others + failures < MaxMishaps
  /\ failures' = failures + 1
  /\ failed' = IF q.via \in got THEN failed ELSE failed \union {q.via}
  /\ requests' = requests \ {q}
  /\ history' = [history EXCEPT !.blanked = @ \union {l \in Lists : page.lists[l].via = q.via}]
  /\ UNCHANGED <<page, open, view, got, store, sent, opens, others>>

-----------------------------------------------------------------------------
(* A change is sent: row and words are what it names and writes, ids the order *)
(* of a reorder.  `inHand`: its answer finds the row it is about.               *)
Request(verb, l, row, words) ==
  [n |-> sent + 1, verb |-> verb, list |-> l, row |-> row, words |-> words, ids |-> <<>>,
   seen |-> {}, stage |-> "sent", mine |-> TRUE, inHand |-> TRUE]

SendChange(w) ==
  /\ sent < MaxSent
  /\ sent' = sent + 1
  /\ requests' = requests \union {w}
  /\ history' = [history EXCEPT !.crossed = @ \union CrossedBy(w)]
  /\ UNCHANGED <<page, open, got, failed, store, opens, others, failures>>

Can(l, verb) == Usable /\ verb \in page.lists[l].api

(* addCandidate, addShot, createProject, sendInvite ...: a row is shown when it *)
(* is answered.                                                               *)
Add(l) ==
  /\ Can(l, "post")
  /\ SendChange(Request("post", l, sent + 1, sent + 1))
  /\ UNCHANGED view

(* save, saveBible, updateNote ...: with new words, or on leaving a field that is *)
(* as it was.  Words that differ in the blanks around them are the same.         *)
Edit(l) ==
  /\ Can(l, "put")
  /\ \E i \in DOMAIN view[l] : \E words \in {view[l][i].words, sent + 1} :
       /\ page.lists[l].filled => words # 0
       /\ SendChange(Request("put", l, view[l][i].id, words))
       /\ view' = IF page.lists[l].shows = "at once"
                  THEN [view EXCEPT ![l][i].words = words] ELSE view

(* updateNote of a note that is left empty: nothing is sent, and it stays empty. *)
LeaveEmpty(l) ==
  /\ Can(l, "put") /\ page.lists[l].filled
  /\ \E i \in DOMAIN view[l] : view' = [view EXCEPT ![l][i].words = 0]
  /\ UNCHANGED <<page, open, got, failed, store, requests, counters, history>>

(* remove, deleteProject, removeCrewMember, declineInvite, restore ... *)
RemoveRow(l) ==
  /\ Can(l, "delete")
  /\ \E i \in DOMAIN view[l] :
       /\ page.lists[l].busy => \A w \in Writes(l) : w.row # view[l][i].id \/ ~w.mine
       /\ \E verb \in {"delete"} \union IF page.lists[l].joins = 0 THEN {} ELSE {"accept"} :
            SendChange(Request(verb, l, view[l][i].id, 0))
       /\ view' = IF page.lists[l].shows = "at once"
                  THEN [view EXCEPT ![l] = RemoveAt(@, i)] ELSE view

Choosing(rows, id) == [i \in DOMAIN rows |-> [rows[i] EXCEPT !.chosen = rows[i].id = id]]

(* cast, select: the button is there for a row that is not chosen. *)
Choose(l) ==
  /\ Can(l, "choose")
  /\ \E i \in DOMAIN view[l] :
       /\ ~view[l][i].chosen
       /\ SendChange(Request("choose", l, view[l][i].id, 0))
       /\ view' = [view EXCEPT ![l] = Choosing(@, view[l][i].id)]

(* dropNote *)
Reorder(l) ==
  /\ Can(l, "reorder")
  /\ \E i, j \in DOMAIN view[l] :
       LET moved == InsertAt(RemoveAt(view[l], i), j, view[l][i]) IN
       /\ SendChange([Request("reorder", l, 0, 0) EXCEPT !.ids = [k \in DOMAIN moved |-> moved[k].id]])
       /\ view' = [view EXCEPT ![l] = moved]

(* Another client of the project, whose page may show whatever is stored. *)
Other(l) ==
  /\ others + failures < MaxMishaps /\ sent < MaxSent
  /\ others' = others + 1 /\ sent' = sent + 1
  /\ \E verb \in page.lists[l].api \ {"reorder"}, r \in store[l] :
       requests' = requests \union
         {[Request(verb, l, IF verb = "post" THEN sent + 1 ELSE r.id, sent + 1) EXCEPT !.mine = FALSE]}
  /\ UNCHANGED <<pageVars, store, opens, failures, history>>

-----------------------------------------------------------------------------
Ids(rows) == {r.id : r \in rows}
NextPosition(rows) == IF rows = {} THEN 0 ELSE Max({r.pos : r \in rows}) + 1
Locked(l) == UNION {w.seen : w \in {w \in Writes(l) : w.stage = "locked"}}

(* Served; nobody waits for the answer to another client's request. *)
Serve(w) == requests' = (requests \ {w}) \union IF w.mine THEN {[w EXCEPT !.stage = "done"]} ELSE {}

(* What the stores' single statements, and ReorderIdeaNotes and AcceptInvite, leave. *)
Written(w) ==
  LET l == w.list rows == store[l] IN
  CASE w.verb = "post" ->
         [store EXCEPT ![l] = @ \union {Place(Row(w.row, w.words), NextPosition(rows))}]
    [] w.verb = "put" ->
         [store EXCEPT ![l] = {IF r.id = w.row THEN [r EXCEPT !.words = w.words] ELSE r : r \in rows}]
    [] w.verb = "delete" ->
         [store EXCEPT ![l] = {r \in rows : r.id # w.row}]
    [] w.verb = "reorder" ->
         [store EXCEPT ![l] = {IF Contains(w.ids, r.id)
                               THEN [r EXCEPT !.pos = SelectInSeq(w.ids, LAMBDA i : i = r.id) - 1]
                               ELSE r : r \in rows}]
    [] w.verb = "accept" /\ w.row \in Ids(rows) ->
         [store EXCEPT ![l] = {r \in rows : r.id # w.row},
                       ![page.lists[l].joins] = @ \union {Place(Row(w.n, w.n), 0)}]
    [] OTHER -> store

(* A row that a choice has locked is waited for. *)
Write(w) ==
  /\ w.verb \notin {"get", "choose"} /\ w.stage = "sent"
  /\ w.row \notin Locked(w.list)
  /\ store' = Written(w)
  /\ Serve(w)
  /\ history' = IF w.verb = "post" /\ \E c \in Writes(w.list) : c.stage \in {"seen", "locked"}
                THEN [history EXCEPT !.grown = @ \union {w.list}] ELSE history
  /\ UNCHANGED <<pageVars, counters>>

(* Faulty: only a row that is chosen is cleared. *)
ClearedIfChosen(l) == Ids({r \in store[l] : r.chosen})

(* The rows the clearing UPDATE finds as it starts: all of the group. *)
Cleared(l) == Ids(store[l])

(* Cast, Select: the row is looked up, and the clearing UPDATE takes its snapshot ... *)
ChooseFind(w) ==
  /\ w.verb = "choose" /\ w.stage = "sent"
  /\ IF w.row \in Ids(store[w.list])
     THEN requests' = (requests \ {w}) \union {[w EXCEPT !.stage = "seen", !.seen = Cleared(w.list)]}
     ELSE Serve(w)
  /\ UNCHANGED <<pageVars, store, counters, history>>

(* ... it waits for the rows another transaction has locked ... *)
ChooseLock(w) ==
  /\ w.verb = "choose" /\ w.stage = "seen"
  /\ w.seen \intersect Locked(w.list) = {}
  /\ requests' = (requests \ {w}) \union {[w EXCEPT !.stage = "locked"]}
  /\ UNCHANGED <<pageVars, store, counters, history>>

(* ... and the row is marked, if it is still there. *)
ChooseCommit(w) ==
  /\ w.verb = "choose" /\ w.stage = "locked"
  /\ store' = [store EXCEPT ![w.list] =
       {[r EXCEPT !.chosen = (r.id = w.row) \/ (r.chosen /\ r.id \notin w.seen)] : r \in @}]
  /\ Serve(w)
  /\ UNCHANGED <<pageVars, counters, history>>

-----------------------------------------------------------------------------
Without(rows, id) == Kept(rows, {i \in DOMAIN rows : rows[i].id # id})

(* Faulty: a new row is shown last. *)
JoinedLast(list, rows, row) == Append(rows, row)

Joined(list, rows, row) == IF list.latest THEN <<row>> \o rows ELSE Append(rows, row)

(* What the answer to a change leaves in its list. *)
Shown(w) ==
  LET l == w.list list == page.lists[l] IN
  CASE list.shows = "reload" -> view
    [] list.shows # "reload" /\ w.verb = "post" ->
         [view EXCEPT ![l] = Joined(list, @, Row(w.row, w.words))]
    [] list.shows = "on answer" /\ w.verb \in {"delete", "accept"} ->
         [view EXCEPT ![l] = Without(@, w.row)]
    [] list.shows = "on answer" /\ w.verb = "put" /\ w.inHand ->
         [view EXCEPT ![l] = [i \in DOMAIN @ |->
            IF @[i].id = w.row THEN [@[i] EXCEPT !.words = w.words] ELSE @[i]]]
    [] OTHER -> view

(* The lists that the answer has loaded again. *)
Reloaded(w) ==
  IF page.lists[w.list].shows = "reload" THEN page.gets
  ELSE IF w.verb = "accept" THEN {page.lists[page.lists[w.list].joins].via} ELSE {}

ChangeAnswered(w) ==
  /\ w.verb # "get" /\ w.stage = "done"
  /\ view' = IF w.mine THEN Shown(w) ELSE view
  /\ LET again == IF w.mine THEN Reloaded(w) ELSE {} IN
     /\ requests' = (requests \ {w}) \union {LoadRequest(w.n, g) : g \in again}
     /\ history' = [history EXCEPT !.crossed = @ \union
          {l \in Lists : page.lists[l].via \in again
             /\ (Writes(l) \ {w} # {} \/ Loads(page.lists[l].via) # {})}]
  /\ UNCHANGED <<page, open, got, failed, store, counters>>

(* A request or its answer is lost, or the transaction is rolled back.  What was  *)
(* shown at once stays shown.                                                   *)
Fail(w) ==
  /\ w.verb # "get" /\ others + failures < MaxMishaps
  /\ failures' = failures + 1
  /\ requests' = requests \ {w}
  /\ UNCHANGED <<pageVars, store, sent, opens, others, history>>

PagesNext ==
  \/ Open \/ Close
  \/ \E l \in Lists : Add(l) \/ Edit(l) \/ LeaveEmpty(l) \/ RemoveRow(l)
                    \/ Choose(l) \/ Reorder(l) \/ Other(l)
  \/ \E q \in requests :
       \/ LoadServed(q) \/ Loaded(q) \/ LoadFailed(q)
       \/ Write(q) \/ ChooseFind(q) \/ ChooseLock(q) \/ ChooseCommit(q)
       \/ ChangeAnswered(q) \/ Fail(q)

PagesSpec == PagesInit /\ [][PagesNext]_productionVars

-----------------------------------------------------------------------------
PagesTypeOK ==
  /\ page \in Pages /\ open \in BOOLEAN
  /\ DOMAIN view = Lists /\ DOMAIN store = Lists
  /\ \A l \in Lists :
       /\ \A i \in DOMAIN view[l] : view[l][i].id \in 1..sent /\ view[l][i].words \in 0..sent
       /\ \A r \in store[l] : r.id \in 1..sent /\ r.words \in 0..sent /\ r.pos \in 0..sent
       /\ Cardinality(Ids(store[l])) = Cardinality(store[l])
  /\ got \union failed \subseteq page.gets
  /\ sent \in 2..MaxSent

(* When everything has been answered, nothing failed, nobody else wrote, and no *)
(* two requests on the list crossed, a list shows what is stored, in its order:  *)
(* the page's own bookkeeping agrees with the server's.  But for one thing: an    *)
(* idea note that was left empty is shown empty over the words that are stored,   *)
(* which updateNote does not save.                                               *)
Agrees(list, shown, stored) == shown = stored \/ (list.filled /\ shown = 0)

QuietPageShowsTheStore ==
  Usable /\ requests = {} /\ failures = 0 /\ others = 0 =>
    \A l \in Lists \ history.crossed :
      LET stored == Listing(page.lists[l], store[l]) IN
      /\ DOMAIN view[l] = DOMAIN stored
      /\ \A i \in DOMAIN stored :
           /\ view[l][i].id = stored[i].id /\ view[l][i].chosen = stored[i].chosen
           /\ Agrees(page.lists[l], view[l][i].words, stored[i].words)

(* On a page that waits for a list before it shows its controls, a row that is    *)
(* shown, and stored, leaves the list only because the user removes it: no late   *)
(* answer to a load writes over what the user has added.                         *)
ShownRowsStay ==
  [][open /\ open' => \A l \in Lists :
       page.gate /\ page.lists[l].via \in page.awaited =>
         \A i \in DOMAIN view[l] :
           \/ \E j \in DOMAIN view'[l] : view'[l][j].id = view[l][i].id
           \/ view[l][i].id \notin Ids(store[l])
           \/ \E w \in requests' : w.verb = "delete" /\ w.list = l /\ w.row = view[l][i].id]_productionVars

(* Nobody's saved text is blanked by a page that has not loaded it, unless its    *)
(* load failed: a text can be saved when it shows, and every save writes all of it. *)
AloneNothingIsBlanked ==
  \A l \in Lists \ history.blanked :
    page.lists[l].keyed => \A r \in store[l] : r.words # 0

(* At most one candidate is cast for a character, and one location chosen for a  *)
(* scene heading, however choices overlap, while no row is added to the group     *)
(* under a choice that has begun; the page never shows two.                       *)
OneChosen ==
  \A l \in Lists \ history.grown :
    /\ \A r, s \in store[l] : r.chosen /\ s.chosen => r = s
    /\ \A i, j \in DOMAIN view[l] : view[l][i].chosen /\ view[l][j].chosen => i = j

=============================================================================
