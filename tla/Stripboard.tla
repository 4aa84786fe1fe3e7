----------------------------- MODULE Stripboard -----------------------------
(***************************************************************************)
(* The shooting schedule: StripboardComponent in each client's page,        *)
(* editor/stripboard.ts and computeSceneList, against schedule.Store.       *)
(*                                                                          *)
(* A client takes the scenes of the script as it opens the board, loads the *)
(* saved schedule or suggests one, and after each change sends the whole    *)
(* board; Replace deletes and inserts in one transaction, read committed.   *)
(* Clients are people who may edit: a viewer cannot drag and persist        *)
(* returns at once.  A day's call sheet is the number of the change that    *)
(* wrote it, 0 is empty; a day's number is its place in the sequence.       *)
(***************************************************************************)
EXTENDS Naturals, Sequences, FiniteSets, SequencesExt, FiniteSetsExt, Orders

CONSTANTS Clients,
          Scripts,       \* sequences of headings: what the script may say
          PlaceOf,         \* the location in each heading
          Untitled,      \* an empty heading
          MaxStrips,     \* MAX_STRIPS_PER_DAY
          MaxMoves,      \* bound: changes of a board
          MaxOpenings,      \* bound: boards opened
          MaxBoardMishaps     \* bound: changes of the script, and requests that fail

ASSUME PlaceAssumption == Scripts \subseteq Seq(DOMAIN PlaceOf) /\ Untitled \in DOMAIN PlaceOf
ASSUME StripsAssumption ==
  MaxStrips \in Nat \ {0} /\ {MaxMoves, MaxOpenings, MaxBoardMishaps} \subseteq Nat

VARIABLES
  script,    \* the headings of the shared document
  board,     \* StripboardComponent, for each client
  strips,    \* schedule_strips; a row knows the save that inserted it
  dayMetas,  \* schedule_days
  exchanges,     \* HTTP requests that have not been answered
  moves, openings, rewrites, losses,   \* so far
  saves,     \* saves sent so far
  boardHistory    \* history: saves served, whether two overlapped, whose board was saved last

boardCounters == <<moves, openings, rewrites, losses>>
boardVars == <<script, board, strips, dayMetas, exchanges, boardCounters, saves, boardHistory>>

-----------------------------------------------------------------------------
(* computeSceneList: one entry per heading; the key is the heading's text, *)
(* and an empty heading is named by its number.                            *)
SceneList(s) ==
  [n \in DOMAIN s |-> [key |-> <<s[n], IF s[n] = Untitled THEN n ELSE 0>>, number |-> n]]
Keys(scenes) == {scenes[n].key : n \in DOMAIN scenes}
DistinctKeys(scenes) ==
  \A m, n \in DOMAIN scenes : scenes[m].key = scenes[n].key => m = n

Day(scenes, notes) == [strips |-> scenes, notes |-> notes]
OneDayAtLeast(days) == IF days = <<>> THEN <<Day(<<>>, 0)>> ELSE days

(* Where strips are on a board, and the strip at such a place. *)
PlacesOn(days) == UNION {{d} \X (DOMAIN days[d].strips) : d \in DOMAIN days}
StripAt(days, p) == days[p[1]].strips[p[2]]

(* normalizeLocation: where a scene is shot, whatever its time of day. *)
Location(scene) == <<PlaceOf[scene.key[1]], scene.key[2]>>

(* By location, in the order the locations first appear; those of one location *)
(* as they come in the script.                                                 *)
ByPlace(scenes) ==
  LET First(n) == Min({m \in DOMAIN scenes : Location(scenes[m]) = Location(scenes[n])})
  IN {p \in (DOMAIN scenes) \X (DOMAIN scenes) :
        First(p[1]) < First(p[2]) \/ (First(p[1]) = First(p[2]) /\ p[1] < p[2])}

(* Cut into days. *)
InDays(flattened) ==
  LET count   == (Len(flattened) + MaxStrips - 1) \div MaxStrips
      Upto(d) == IF d * MaxStrips < Len(flattened) THEN d * MaxStrips ELSE Len(flattened)
  IN [d \in 1..count |-> Day(SubSeq(flattened, (d - 1) * MaxStrips + 1, Upto(d)), 0)]

(* autoSuggestDays *)
AutoSuggestDays(scenes) ==
  LET places == InOrder(DOMAIN scenes, ByPlace(scenes))
  IN OneDayAtLeast(InDays([i \in DOMAIN scenes |-> scenes[places[i]]]))

(* sceneByKey keeps the last scene of a heading. *)
SceneOf(scenes, key) == scenes[Max({n \in DOMAIN scenes : scenes[n].key = key})]

(* A saved day's call sheet. *)
NotesOf(metas, day) ==
  LET notes == {m.notes : m \in {m \in metas : m.day = day}}
  IN IF notes = {} THEN 0 ELSE CHOOSE n \in notes : TRUE

(* Faulty: the scenes of a saved day in the order of the script. *)
SavedDayUnsorted(rows, metas, day, scenes) ==
  LET mine == {r.key : r \in {r \in rows : r.day = day}}
  IN Day(Kept(scenes, {n \in DOMAIN scenes : scenes[n].key \in mine}), NotesOf(metas, day))

(* The order of the saved strips: by position; rows that share one come as they  *)
(* were stored.                                                                *)
ByPosition(rows) ==
  {p \in rows \X rows : p[1].position < p[2].position
                        \/ (p[1].position = p[2].position /\ p[1].save < p[2].save)}

(* The scenes of a saved day in their saved order, and its call sheet. *)
SavedDay(rows, metas, day, scenes) ==
  LET mine   == {r \in rows : r.day = day}
      sorted == InOrder(mine, ByPosition(mine))
  IN Day([i \in 1..Cardinality(mine) |-> SceneOf(scenes, sorted[i].key)], NotesOf(metas, day))

(* The scenes the saved strips stand for, day by day; strips of headings that are *)
(* gone are skipped.                                                            *)
SavedDays(saved, metas, scenes) ==
  LET rows == {r \in saved : r.key \in Keys(scenes)}
      used == {r.day : r \in rows}
  IN [i \in 1..Cardinality(used) |-> SavedDay(rows, metas, InOrder(used, Rising(used))[i], scenes)]

Uncovered(saved, scenes) ==
  Kept(scenes, {n \in DOMAIN scenes : scenes[n].key \notin {r.key : r \in saved}})

(* Faulty: scenes that have no strip yet are dropped. *)
BuildFromSavedOnly(saved, metas, scenes) == OneDayAtLeast(SavedDays(saved, metas, scenes))

(* buildFromSaved: the days that have strips, and the scenes nobody has placed *)
(* yet on a day of their own at the end.                                       *)
BuildFromSaved(saved, metas, scenes) ==
  LET new == Uncovered(saved, scenes) IN
  OneDayAtLeast(SavedDays(saved, metas, scenes)
                \o (IF new = <<>> THEN <<>> ELSE <<Day(new, 0)>>))

-----------------------------------------------------------------------------
Closed == [phase |-> "closed", scenes |-> <<>>, days |-> <<>>,
           suggested |-> FALSE, again |-> FALSE, unsaved |-> FALSE]

BoardInit ==
  /\ script \in Scripts
  /\ board = [c \in Clients |-> Closed]
  /\ strips = {} /\ dayMetas = {} /\ exchanges = {}
  /\ moves = 0 /\ openings = 0 /\ rewrites = 0 /\ losses = 0 /\ saves = 0
  /\ boardHistory = [finished |-> 0, crossed |-> FALSE, by |-> {}]

OnBoard(c) == board[c].phase = "shown"
Puts == {r \in exchanges : r.verb = "put"}

(* The script's pages are where it changes; a board keeps the scenes it has. *)
Rewrite ==
  /\ rewrites + losses < MaxBoardMishaps
  /\ rewrites' = rewrites + 1
  /\ script' \in Scripts \ {script}
  /\ UNCHANGED <<board, strips, dayMetas, exchanges, moves, openings, losses, saves, boardHistory>>

(* load: the scenes first, then the request. *)
OpenBoard(c) ==
  /\ board[c].phase = "closed" /\ openings < MaxOpenings
  /\ openings' = openings + 1
  /\ board' = [board EXCEPT ![c] = [Closed EXCEPT !.phase = "loading",
                 !.scenes = SceneList(script), !.again = boardHistory.finished > 0]]
  /\ exchanges' = exchanges \union {[verb |-> "get", client |-> c, stage |-> "sent", strips |-> {}, days |-> {}]}
  /\ UNCHANGED <<script, strips, dayMetas, moves, rewrites, losses, saves, boardHistory>>

(* The component is destroyed: an answer to its load is nobody's. *)
CloseBoard(c) ==
  /\ board[c].phase # "closed"
  /\ board' = [board EXCEPT ![c] = Closed]
  /\ exchanges' = {r \in exchanges : ~(r.verb = "get" /\ r.client = c)}
  /\ boardHistory' = [boardHistory EXCEPT !.by = @ \ {c}]
  /\ UNCHANGED <<script, strips, dayMetas, boardCounters, saves>>

(* What the two handlers of the load leave on the board. *)
ShowBoard(c, days, suggested) ==
  board' = [board EXCEPT ![c].phase = "shown", ![c].days = days, ![c].suggested = suggested]

LoadSchedule(r) ==
  /\ r.verb = "get" /\ r.stage = "both"
  /\ LET scenes == board[r.client].scenes IN
     ShowBoard(r.client, IF r.strips = {} THEN AutoSuggestDays(scenes)
                    ELSE BuildFromSaved(r.strips, r.days, scenes), r.strips = {})
  /\ exchanges' = exchanges \ {r}
  /\ UNCHANGED <<script, strips, dayMetas, boardCounters, saves, boardHistory>>

LoadScheduleFailed(r) ==
  /\ r.verb = "get" /\ rewrites + losses < MaxBoardMishaps
  /\ losses' = losses + 1
  /\ ShowBoard(r.client, AutoSuggestDays(board[r.client].scenes), TRUE)
  /\ exchanges' = exchanges \ {r}
  /\ UNCHANGED <<script, strips, dayMetas, moves, openings, rewrites, saves, boardHistory>>

-----------------------------------------------------------------------------
StripRows(days, save) ==
  {[key |-> StripAt(days, p).key, day |-> p[1], position |-> p[2] - 1, save |-> save] :
     p \in PlacesOn(days)}

DayRows(days, save) == {[day |-> d, notes |-> days[d].notes, save |-> save] : d \in DOMAIN days}

(* No heading has two strips on the board. *)
OncePlaced(days) ==
  \A p, q \in PlacesOn(days) : StripAt(days, p).key = StripAt(days, q).key => p = q

(* persist: the whole board, renumbered; nobody waits for the answer. *)
Persist(c, days) ==
  /\ board' = [board EXCEPT ![c].days = days, ![c].unsaved = FALSE]
  /\ saves' = saves + 1
  /\ exchanges' = exchanges \union
       {[verb |-> "put", stage |-> "sent", strips |-> StripRows(days, saves + 1),
         days |-> DayRows(days, saves + 1), seen |-> {}, seenDays |-> {},
         distinct |-> OncePlaced(days)]}
  /\ boardHistory' = [boardHistory EXCEPT !.crossed = @ \/ Puts # {}, !.by = {c}]

Move(c) == OnBoard(c) /\ moves < MaxMoves /\ moves' = moves + 1
MoveRest == <<script, strips, dayMetas, openings, rewrites, losses>>

(* onDrop: a strip is taken from one day and put at a place of the same or *)
(* another day, and the board is saved, moved or not.                      *)
OnDrop(c) ==
  /\ Move(c)
  /\ \E from, to \in DOMAIN board[c].days : \E i \in DOMAIN board[c].days[from].strips :
       LET taken  == [board[c].days EXCEPT ![from].strips = RemoveAt(@, i)]
           moving == board[c].days[from].strips[i]
       IN \E j \in 1..Len(taken[to].strips) + 1 :
            Persist(c, [taken EXCEPT ![to].strips = InsertAt(@, j, moving)])
  /\ UNCHANGED MoveRest

(* addDay: on the board only, until the next change is saved. *)
AddDay(c) ==
  /\ Move(c)
  /\ board' = [board EXCEPT ![c].days = Append(@, Day(<<>>, 0)), ![c].unsaved = TRUE]
  /\ UNCHANGED <<MoveRest, exchanges, saves, boardHistory>>

(* removeDay *)
RemoveDay(c) ==
  /\ Move(c)
  /\ \E d \in DOMAIN board[c].days :
       board[c].days[d].strips = <<>> /\ Persist(c, RemoveAt(board[c].days, d))
  /\ UNCHANGED MoveRest

(* A call sheet is written and closed with its button, which saves the board... *)
CloseCallSheet(c) ==
  /\ Move(c)
  /\ \E d \in DOMAIN board[c].days : Persist(c, [board[c].days EXCEPT ![d].notes = moves + 1])
  /\ UNCHANGED MoveRest

(* ... or with the Escape key, which does not. *)
OnEscape(c) ==
  /\ Move(c)
  /\ \E d \in DOMAIN board[c].days :
       board' = [board EXCEPT ![c].days[d].notes = moves + 1, ![c].unsaved = TRUE]
  /\ UNCHANGED <<MoveRest, exchanges, saves, boardHistory>>

-----------------------------------------------------------------------------
Advance(r, s) == exchanges' = (exchanges \ {r}) \union {s}

(* getSchedule: the strips and the days are read one after the other. *)
ListStrips(r) ==
  /\ r.verb = "get" /\ r.stage = "sent"
  /\ Advance(r, [r EXCEPT !.stage = "strips", !.strips = strips])
  /\ UNCHANGED <<script, board, strips, dayMetas, boardCounters, saves, boardHistory>>

ListDays(r) ==
  /\ r.verb = "get" /\ r.stage = "strips"
  /\ Advance(r, [r EXCEPT !.stage = "both", !.days = dayMetas])
  /\ UNCHANGED <<script, board, strips, dayMetas, boardCounters, saves, boardHistory>>

(* Replace, the delete of the strips: it sees what is committed as it starts. *)
DeleteStrips(r) ==
  /\ r.verb = "put" /\ r.stage = "sent"
  /\ Advance(r, [r EXCEPT !.stage = "strips", !.seen = strips])
  /\ UNCHANGED <<script, board, strips, dayMetas, boardCounters, saves, boardHistory>>

(* The delete of the days, once nobody holds the strips the first one waits for. *)
DeleteDays(r) ==
  /\ r.verb = "put" /\ r.stage = "strips"
  /\ \A q \in Puts : q.stage = "days" => q.seen \intersect r.seen = {}
  /\ Advance(r, [r EXCEPT !.stage = "days", !.seenDays = dayMetas])
  /\ UNCHANGED <<script, board, strips, dayMetas, boardCounters, saves, boardHistory>>

(* Faulty: neither table has the constraint. *)
InsertsTaken(r) == FALSE

(* UNIQUE (script_id, scene_key) and PRIMARY KEY (script_id, day_number): a row *)
(* the deletes did not see stands in the way of an insert.                      *)
InsertsRefused(r) ==
  \/ ~r.distinct
  \/ \E a \in strips \ r.seen, b \in r.strips : a.key = b.key
  \/ \E a \in dayMetas \ r.seenDays, b \in r.days : a.day = b.day

(* The inserts and the commit, or the rollback. *)
Commit(r) ==
  /\ r.verb = "put" /\ r.stage = "days"
  /\ IF InsertsRefused(r) THEN UNCHANGED <<strips, dayMetas>>
     ELSE /\ strips' = (strips \ r.seen) \union r.strips
          /\ dayMetas' = (dayMetas \ r.seenDays) \union r.days
  /\ exchanges' = exchanges \ {r}
  /\ boardHistory' = [boardHistory EXCEPT !.finished = @ + 1]
  /\ UNCHANGED <<script, board, boardCounters, saves>>

(* A save that fails, at the client or before its commit, is not heard of. *)
ReplaceFailed(r) ==
  /\ r.verb = "put" /\ rewrites + losses < MaxBoardMishaps
  /\ losses' = losses + 1
  /\ exchanges' = exchanges \ {r}
  /\ UNCHANGED <<script, board, strips, dayMetas, moves, openings, rewrites, saves, boardHistory>>

BoardNext ==
  \/ Rewrite
  \/ \E c \in Clients : \/ OpenBoard(c) \/ CloseBoard(c) \/ OnDrop(c) \/ AddDay(c) \/ RemoveDay(c)
                        \/ CloseCallSheet(c) \/ OnEscape(c)
  \/ \E r \in exchanges : \/ ListStrips(r) \/ ListDays(r) \/ LoadSchedule(r) \/ LoadScheduleFailed(r)
                      \/ DeleteStrips(r) \/ DeleteDays(r) \/ Commit(r) \/ ReplaceFailed(r)

BoardSpec == BoardInit /\ [][BoardNext]_boardVars

-----------------------------------------------------------------------------
Scenes == UNION {ToSet(SceneList(s)) : s \in Scripts}
BoardTypeOK ==
  /\ script \in Scripts
  /\ \A c \in Clients :
       /\ board[c].phase \in {"closed", "loading", "shown"}
       /\ \A d \in DOMAIN board[c].days :
            /\ board[c].days[d].strips \in Seq(Scenes)
            /\ board[c].days[d].notes \in 0..MaxMoves
  /\ \A r \in strips : r.day > 0 /\ r.save \in 1..saves
  /\ \A m \in dayMetas : m.notes \in 0..MaxMoves /\ \A n \in dayMetas : m.day = n.day => m = n
  /\ \A r \in exchanges : r.verb \in {"get", "put"} /\ r.stage \in {"sent", "strips", "both", "days"}

(* Every scene of the script is on the board, once, however the saved schedule *)
(* and the script have drifted apart: the strips of headings that are gone are  *)
(* skipped and new scenes get a day of their own.                               *)
EverySceneOnBoard ==
  \A c \in Clients : OnBoard(c) /\ DistinctKeys(board[c].scenes) =>
    LET days == board[c].days IN
    /\ {StripAt(days, p) : p \in PlacesOn(days)} = ToSet(board[c].scenes)
    /\ \A p, q \in PlacesOn(days) : StripAt(days, p) = StripAt(days, q) => p = q

(* Once the saves have been served and none of them overlapped another, what is *)
(* stored reads back as the board that was saved last, with its call sheets and  *)
(* without its empty days.                                                      *)
SavedBoardComesBack ==
  \A c \in Clients :
    /\ OnBoard(c) /\ boardHistory.by = {c} /\ ~board[c].unsaved
    /\ Puts = {} /\ ~boardHistory.crossed /\ losses = 0
    /\ board[c].scenes # <<>> /\ DistinctKeys(board[c].scenes)
    => BuildFromSaved(strips, dayMetas, board[c].scenes)
         = Kept(board[c].days, {d \in DOMAIN board[c].days : board[c].days[d].strips # <<>>})

(* Any two versions of the script have a scene in common, and each has one.     *)
VersionsShareAScene ==
  \A s, t \in Scripts : Keys(SceneList(s)) \intersect Keys(SceneList(t)) # {}

(* However saves overlap, the stored strips and days are those of one board:  *)
(* boards that share a scene, as those of one script do, cannot be merged.      *)
ScheduleIsOneBoard ==
  \A a, b \in strips \union dayMetas : a.save = b.save

(* autoSuggestDays: once a producer has saved a schedule, it is not consulted   *)
(* again.                                                                       *)
NeverSuggestedAgain ==
  \A c \in Clients : board[c].again => ~board[c].suggested

=============================================================================
